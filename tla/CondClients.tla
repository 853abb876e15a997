----------------------------- MODULE CondClients -----------------------------
(***************************************************************************)
(* Two programs of the games on guest conditions, as the comments on       *)
(* guest_cond_gate and GUEST_COND_WAIT_SLICE_NS describe them; a title is  *)
(* one or the other.                                                       *)
(*                                                                         *)
(* With gates, Zuma's and Bejeweled 2's Sexy::WorkerThread: the worker     *)
(* reads and clears its flag under one mutex, then takes another and waits *)
(* on the condition; DoTask sets the flag and signals, holding neither.    *)
(* The first mutex only makes the reads and writes of the flag atomic, and *)
(* each is one step here.                                                  *)
(*                                                                         *)
(* Without, Peggle's CoreAudioSoundInstance::Release: the game waits until *)
(* the sound is cleaned up and then destroys and re-creates the condition, *)
(* without the mutex; the audio thread signals once, under the mutex, and  *)
(* publishes the state the waiter tests only after dropping it.  That      *)
(* maintenance runs inside a render callback, and audio_bridge.c keeps     *)
(* renders out of the guest while the frame clock stands still, which it   *)
(* does while the game waits.                                              *)
(***************************************************************************)
EXTENDS GuestCond

CONSTANTS
  Waiter, Waker,   \* the worker and the main thread; the game and its audio thread
  Cond, Mutex,
  Threshold,       \* hold_threshold_ns, in ticks of the clock
  Caps,            \* values of hold_cap_ns; 0 is none
  Detected         \* subset of BOOLEAN: is the game known as the frame thread

ASSUME ClientsAssumption ==
  /\ Threads = {Waiter, Waker} /\ Waiter # Waker
  /\ Cond \in Conds
  /\ Mutex \in Mutexes
  /\ Threshold \in Nat /\ Caps \subseteq Nat /\ Detected \subseteq BOOLEAN

VARIABLES
  flag,           \* a task is set; the sound is cleaned up
  waiting, waking,\* where each program is
  hold            \* [since: ticks since the last frame, cap, detected]

program == <<flag, waiting, waking, hold>>

CInit ==
  /\ Init
  /\ flag = FALSE
  /\ waiting = IF gated THEN "clear" ELSE "play"
  /\ waking = IF gated THEN "set" ELSE "idle"
  /\ hold \in [since : {0}, cap : Caps, detected : Detected]
  /\ IF gated THEN hold = CHOOSE h \in [since : {0}, cap : Caps, detected : Detected] : TRUE
     ELSE hold.cap # 0 \/ hold.detected

\* From one place of a program to the next, which is within a guest function.
WaiterGoes(from, to) == waiting = from /\ waiting' = to /\ UNCHANGED <<flag, waking, hold>>
WakerGoes(from, to) == waking = from /\ waking' = to /\ UNCHANGED <<flag, waiting, hold>>

-----------------------------------------------------------------------------
(* WorkerThread *)

ClearSignal ==
  /\ waiting = "clear" /\ pc[Waiter] = "run"
  /\ flag' = FALSE
  /\ waiting' = IF flag THEN "clear" ELSE "lock"
  /\ UNCHANGED <<vars, waking, hold>>

LockForWait == Lock(Waiter, Mutex) /\ WaiterGoes("lock", "wait for task")
WaitForSignal == WaitCall(Waiter, Cond, Mutex, TRUE) /\ WaiterGoes("wait for task", "unlock for task")
UnlockAfterWait == Unlock(Waiter, Mutex) /\ WaiterGoes("unlock for task", "clear")

\* DoTask
SetFlag ==
  /\ waking = "set" /\ pc[Waker] = "run"
  /\ flag' = TRUE
  /\ waking' = "signal task"
  /\ UNCHANGED <<vars, waiting, hold>>

SignalWorker == WakeCall(Waker, Cond, "signal") /\ WakerGoes("signal task", "set")

-----------------------------------------------------------------------------
(* CoreAudioSoundInstance::Release, and the maintenance it waits for *)

AskRelease ==
  /\ waiting = "play"
  /\ Lock(Waiter, Mutex)
  /\ waiting' = "test"
  /\ waking' = "lock"
  /\ UNCHANGED <<flag, hold>>

TestCleaned ==
  /\ waiting = "test" /\ pc[Waiter] = "run"
  /\ waiting' = IF flag THEN "unlock" ELSE "wait"
  /\ UNCHANGED <<vars, flag, waking, hold>>

WaitCleaned == WaitCall(Waiter, Cond, Mutex, FALSE) /\ WaiterGoes("wait", "test")
Unlocked == Unlock(Waiter, Mutex) /\ WaiterGoes("unlock", "destroy")
DestroyCond == RenewCall(Waiter, Cond, "destroy") /\ WaiterGoes("destroy", "create")

CreateCond ==
  /\ waiting = "create"
  /\ RenewCall(Waiter, Cond, "initialize")
  /\ waiting' = "play"
  /\ flag' = FALSE
  /\ UNCHANGED <<waking, hold>>

\* The audio hold.  The clock is counted as far as it makes a difference.
Limit == IF hold.cap = 0 THEN Threshold + 1 ELSE hold.cap
Tick ==
  /\ ~ gated /\ hold.since < Limit
  /\ hold' = [hold EXCEPT !.since = @ + 1]
  /\ UNCHANGED <<vars, flag, waiting, waking>>

\* The game presents frames while it plays.
NotesFramePresented ==
  /\ waiting = "play"
  /\ hold.since > 0
  /\ hold' = [hold EXCEPT !.since = 0]
  /\ UNCHANGED <<vars, flag, waiting, waking>>

\* Between frame_thread_wait_begin and _end, around the wait itself.
FrameThreadWaits == hold.detected /\ pc[Waiter] \in {"sleep", "woken"}
Outstanding == hold.since > Threshold /\ (hold.cap = 0 \/ hold.since < hold.cap)
\* A mutant holds on while the frame thread waits.
HoldsThroughWaits == Outstanding
HoldActive == Outstanding /\ ~ FrameThreadWaits

\* A render enters the guest, and the callback does its maintenance.
AudioLock == ~ HoldActive /\ Lock(Waker, Mutex) /\ WakerGoes("lock", "signal")
AudioSignal == WakeCall(Waker, Cond, "signal") /\ WakerGoes("signal", "unlock")
AudioUnlock == Unlock(Waker, Mutex) /\ WakerGoes("unlock", "publish")

Publish ==
  /\ waking = "publish" /\ pc[Waker] = "run"
  /\ flag' = TRUE
  /\ waking' = "idle"
  /\ UNCHANGED <<vars, waiting, hold>>

-----------------------------------------------------------------------------
WorkerStep == ClearSignal \/ LockForWait \/ WaitForSignal \/ UnlockAfterWait
GameStep == TestCleaned \/ WaitCleaned \/ Unlocked \/ DestroyCond \/ CreateCond
AudioStep == AudioLock \/ AudioSignal \/ AudioUnlock \/ Publish
HostStep(t) == Step(t) /\ UNCHANGED program

CNext ==
  \/ WorkerStep \/ SetFlag \/ SignalWorker
  \/ AskRelease \/ GameStep \/ AudioStep \/ Tick \/ NotesFramePresented
  \/ \E t \in Threads : HostStep(t)

\* The host runs the threads that can run and hands its locks on; a task may
\* never come, nor the game ask for a release.  Of the worker's timeout nothing
\* is assumed; a slice of an untimed wait does end.
CSpec ==
  /\ CInit /\ [][CNext]_<<vars, program>>
  /\ WF_<<vars, program>>(WorkerStep \/ GameStep)
  /\ WF_<<vars, program>>(SignalWorker)
  /\ SF_<<vars, program>>(AudioStep)
  /\ WF_<<vars, program>>(Tick)
  /\ \A t \in Threads : /\ SF_<<vars, program>>(Runs(t) /\ UNCHANGED program)
                        /\ WF_<<vars, program>>(~ gated /\ Expire(t) /\ UNCHANGED program)

\* A task given to the worker is taken up though no wait ever times out: with
\* the gate's token a signal that lands between ClearSignal and Wait is not lost
\* (guest_cond_block, guest_cond_wake).
TaskIsTaken == gated /\ flag ~> ~ flag

\* Release always gets through.  The maintenance signals before it publishes and
\* never signals again: the lost wakeup costs one slice (GUEST_COND_WAIT_SLICE_NS).
\* And the hold that would keep the maintenance out for as long as the game waits
\* for it ("Main Menu from Quick Play hangs") yields to the wait, or to the cap
\* when the waiter is not known as the frame thread (audio_hold_active).
ReleaseReturns == waiting = "test" ~> waiting = "destroy"

=============================================================================
