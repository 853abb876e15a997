----------------------------- MODULE AudioRender -----------------------------
(***************************************************************************)
(* host_audio_callback: one render through one callback context.           *)
(* CoreAudio hands over a buffer, the bridge lays a copy of its description *)
(* before the guest, the guest fills it and may rewrite the description    *)
(* (OpenAL moves the pointer past what it has produced), and the bridge    *)
(* copies back.  A node-input callback produces the buffer; a              *)
(* render-notify only observes what the unit has already produced.         *)
(*                                                                         *)
(* A buffer is a sequence of samples.  The guest's memory for it is kept   *)
(* from render to render and only grows.  Who picks up the job and when is *)
(* in AudioCallbacks, when a render is held in CondClients; the            *)
(* environment's diagnostic switches are left out.                         *)
(***************************************************************************)
EXTENDS Integers, Sequences

CONSTANTS
  Sizes   \* BOUND: the sizes CoreAudio asks for, in samples

RenderAssumption == Sizes \subseteq 1 .. 9

Kinds == {"input", "render-notify"}

\* A sample: silence, the guest's i-th of this render, one of an earlier render,
\* what the unit produced, or whatever lay in memory.
Silence == 0
Earlier == -1
Units == -2
Junk == -3
Sample == {Silence, Earlier, Units, Junk} \cup 1 .. 9

VARIABLES
  guestData,  \* context->guest_data: the samples; its length is the capacity
  list,       \* the description the guest sees: [data, size], data from 0
  host,       \* the host's buffer
  render      \* [at, kind, held, status, wrote]

renderVars == <<guestData, list, host, render>>

Fill(n, s) == [i \in 1 .. n |-> s]
Idle == [at |-> "returned", kind |-> "input", held |-> FALSE, status |-> "noErr", wrote |-> 0]

RenderInit ==
  /\ guestData = <<>>
  /\ list = [data |-> 0, size |-> 0]
  /\ host = <<>>
  /\ render = Idle

\* CoreAudio calls, with a buffer that holds what the unit made, or nothing yet.
HostAsks(kind, size) ==
  /\ render.at = "returned"
  /\ host' = Fill(size, IF kind = "input" THEN Junk ELSE Units)
  /\ render' = [Idle EXCEPT !.at = "called", !.kind = kind]
  /\ UNCHANGED <<guestData, list>>

Returns(status, held) ==
  render' = [render EXCEPT !.at = "returned", !.status = status, !.held = held]

\* An idle, muted or held context renders silence without the guest.
RendersSilence ==
  /\ render.at = "called"
  /\ host' = IF render.kind = "input" THEN Fill(Len(host), Silence) ELSE host
  /\ Returns("noErr", TRUE)
  /\ UNCHANGED <<guestData, list>>

\* The guest's memory for the buffer, grown to hold the size.
Grown(size) ==
  guestData \o Fill(IF size > Len(guestData) THEN size - Len(guestData) ELSE 0, Junk)

GrowthFails ==
  /\ render.at = "called"
  /\ Len(host) > Len(guestData)
  /\ Returns("memFull", FALSE)
  /\ UNCHANGED <<guestData, list, host>>

\* A mutant gives the guest the buffer as the last render left it.
SeedsNothing(data) == data
\* An input callback starts from silence; a render-notify sees the unit's audio.
Seeds(data) ==
  [i \in DOMAIN data |->
    IF i > Len(host) THEN data[i] ELSE IF render.kind = "input" THEN Silence ELSE host[i]]

AsksGuest ==
  /\ render.at = "called"
  /\ guestData' = Seeds([i \in DOMAIN Grown(Len(host)) |->
                     IF Grown(Len(host))[i] > 0 THEN Earlier ELSE Grown(Len(host))[i]])
  /\ list' = [data |-> 0, size |-> Len(host)]
  /\ render' = [render EXCEPT !.at = "asked"]
  /\ UNCHANGED host

\* The guest writes the first n samples, and may rebase the description past
\* them; it may be trapped, or refuse, or its context may be gone by then.
GuestAnswers(n, rebases, status) ==
  /\ render.at = "asked"
  /\ n <= Len(host)
  /\ guestData' = [i \in DOMAIN guestData |-> IF i <= n THEN i ELSE guestData[i]]
  /\ list' = IF rebases THEN [data |-> n, size |-> Len(host) - n] ELSE list
  /\ render' = [render EXCEPT !.at = "answered", !.status = status, !.wrote = n]
  /\ UNCHANGED host

\* A mutant believes the description the guest left.
CopiesListed ==
  [i \in DOMAIN host |-> IF i <= list.size THEN guestData[list.data + i] ELSE host[i]]
\* Copy-back: from where the buffer was, and as much as was asked for.
CopiesBack == [i \in DOMAIN host |-> guestData[i]]

RenderReturns ==
  /\ render.at = "answered"
  /\ host' = IF render.kind = "render-notify" THEN host
             ELSE IF render.status = "paramError" THEN Fill(Len(host), Silence) ELSE CopiesBack
  /\ Returns(render.status, FALSE)
  /\ UNCHANGED <<guestData, list>>

RenderNext ==
  \/ \E k \in Kinds, n \in Sizes : HostAsks(k, n)
  \/ RendersSilence \/ GrowthFails \/ AsksGuest \/ RenderReturns
  \/ \E n \in 0 .. Len(host), rebases \in BOOLEAN, s \in {"noErr", "paramError"} :
       GuestAnswers(n, rebases, s)

RenderSpec == RenderInit /\ [][RenderNext]_renderVars

-----------------------------------------------------------------------------
RenderTypeOK ==
  /\ guestData \in Seq(Sample) /\ host \in Seq(Sample)
  /\ render.at \in {"returned", "called", "asked", "answered"}

\* What CoreAudio plays after a render is what the guest produced in this very
\* one, each sample at its place, and silence where it produced nothing, though
\* its memory is that of earlier renders and it may rewrite the description; and
\* a render-notify leaves what the unit produced alone.
HeardSound ==
  render.at = "returned" /\ render.status # "memFull" =>
    IF render.kind = "render-notify" THEN \A i \in DOMAIN host : host[i] = Units
    ELSE LET heard == IF render.held \/ render.status = "paramError" THEN 0 ELSE render.wrote IN
           \A i \in DOMAIN host : host[i] = IF i <= heard THEN i ELSE Silence

-----------------------------------------------------------------------------
(* Why it holds.  What CoreAudio handed over is as it was until the bridge *)
(* returns, and the guest's memory holds, as far as it will be copied,     *)
(* what this render put there.                                             *)
Handed == \A i \in DOMAIN host : host[i] = IF render.kind = "input" THEN Junk ELSE Units
Seeded(n) ==
  /\ Len(host) <= Len(guestData) /\ n <= Len(host)
  /\ render.kind = "input" =>
       \A i \in 1 .. Len(host) : guestData[i] = IF i <= n THEN i ELSE Silence
RenderInv ==
  /\ RenderTypeOK /\ Len(host) <= 9
  /\ render \in [at : {"returned", "called", "asked", "answered"}, kind : Kinds, held : BOOLEAN,
                 status : {"noErr", "paramError", "memFull"}, wrote : Nat]
  /\ render.at # "returned" => Handed /\ ~ render.held
  /\ render.at = "called" => render.status = "noErr"
  /\ render.at = "asked" => Seeded(0)
  /\ render.at = "answered" => render.status # "memFull" /\ Seeded(render.wrote)
  /\ HeardSound

=============================================================================
