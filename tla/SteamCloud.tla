---------------------------- MODULE SteamCloud ----------------------------
(***************************************************************************)
(* The optional Steam Cloud of Plants vs. Zombies: steam_cloud.c answers   *)
(* the game's SteamAPI_... imports and the seven methods of the old        *)
(* storage interface, and pvz_save.c rewrites a userN.dat profile between  *)
(* the Mac's layout, 60 bytes a plant, and Windows', 88.  The layout is    *)
(* not written in the file: it is the one whose sizes add up, and both may.*)
(*                                                                         *)
(* The Steam library, its cloud and a Windows client that plays between    *)
(* this game's sessions are external.                                      *)
(***************************************************************************)
EXTENDS Naturals, Integers, FiniteSets

CONSTANTS
  CloudThreads,   \* guest threads
  Profiles,       \* the userN.dat names
  Contents,       \* what a profile may say: [count, tail, asOther, spare], see below
  Nothing,        \* no file
  Garbage,        \* what a misread file is
  MaxCalls        \* storage calls of one behaviour

Forms == {"mac", "windows"}

Files == {[form |-> f, content |-> c] : f \in Forms, c \in Contents}

CloudAssumption ==
  /\ \A c \in Contents :
       c.count \in Nat /\ c.tail \in Nat /\ DOMAIN c.asOther = Forms /\ c.spare \in BOOLEAN
  /\ Nothing \notin Files /\ Garbage \notin Files

VARIABLES
  checked, enabled, checking, initialized, interface, exited,  \* the statics of steam_cloud.c
  cloud,      \* name -> what Steam keeps: a file or Nothing
  answered,   \* the last answer of a read, and what the cloud held: or Nothing
  calls

cloudVars == <<checked, enabled, checking, initialized, interface, exited, cloud, answered, calls>>

(***************************************************************************)
(* pvz_save.c.  A file is a content in a form; a content has count plants, *)
(* tail records of 72 bytes after them, and for each form it may be        *)
(* written in the byte that would be the tail count read in the other one. *)
(* A spare content has something in the fields only Windows has.           *)
(***************************************************************************)
Stride(form) == IF form = "mac" THEN 60 ELSE 88
SizeOf(file) == 820 + file.content.count * Stride(file.form) + 68 + 72 * file.content.tail

\* The sizes add up if the file is read as that form.
Fits(file, form) ==
  LET c == file.content
      rest == SizeOf(file) - 820 - c.count * Stride(form)
      records == IF form = file.form THEN c.tail ELSE c.asOther[file.form] IN
    rest >= 68 /\ rest = 68 + records * 72

\* The mutant takes the first layout that fits.
NeverAmbiguous(file) == FALSE
\* Both layouts fit, and they do not say the same.
IsAmbiguous(file) == file.content.count # 0 /\ \A f \in Forms : Fits(file, f)

ReadAs(file) == IF Fits(file, "windows") THEN "windows" ELSE "mac"
IsLossy(file, to) == ReadAs(file) = "windows" /\ to = "mac" /\ file.content.spare /\ file.content.count # 0

Converted(file, to) ==
  IF file = Garbage \/ IsAmbiguous(file) \/ IsLossy(file, to) THEN Nothing
  ELSE IF file.content.count = 0 \/ ReadAs(file) = file.form THEN [form |-> to, content |-> file.content]
  ELSE Garbage

(***************************************************************************)
(* steam_cloud.c                                                           *)
(***************************************************************************)
CloudInit ==
  /\ checked = FALSE /\ enabled = FALSE /\ checking = {}
  /\ initialized = FALSE /\ interface = FALSE /\ exited = FALSE
  /\ cloud \in [Profiles -> {Nothing} \cup {[form |-> "windows", content |-> c] : c \in Contents}]
  /\ answered = Nothing /\ calls = 0

\* enabled_bundle: the first caller marks it checked and then looks for the
\* marker and loads the library; until it has, everyone else is told no.
BeginsCheck(t) ==
  /\ ~ exited /\ ~ checked
  /\ checked' = TRUE /\ checking' = {t}
  /\ UNCHANGED <<enabled, initialized, interface, exited, cloud, answered, calls>>

EndsCheck(t) ==
  /\ ~ exited /\ t \in checking
  /\ checking' = {}
  /\ \/ enabled' = TRUE /\ UNCHANGED exited
     \/ UNCHANGED <<enabled, exited>>            \* no marker
     \/ exited' = TRUE /\ UNCHANGED enabled       \* a library without the interface
  /\ UNCHANGED <<checked, initialized, interface, cloud, answered, calls>>

Handles(t) == ~ exited /\ checked /\ enabled /\ t \notin checking

SteamInit(t) ==
  /\ Handles(t) /\ ~ initialized
  /\ initialized' = TRUE
  /\ exited' \in BOOLEAN                         \* wrong app, logged off, cloud disabled
  /\ UNCHANGED <<checked, enabled, checking, interface, cloud, answered, calls>>

SteamShutdown(t) ==
  /\ Handles(t) /\ initialized
  /\ initialized' = FALSE
  /\ UNCHANGED <<checked, enabled, checking, interface, exited, cloud, answered, calls>>

AsksInterface(t) ==
  /\ Handles(t)
  /\ IF initialized THEN interface' = TRUE /\ UNCHANGED exited ELSE exited' = TRUE /\ UNCHANGED interface
  /\ UNCHANGED <<checked, enabled, checking, initialized, cloud, answered, calls>>

\* Any method: the game stops unless the interface it names is ready.
IsReady == initialized /\ interface
CallsStorage(t) == Handles(t) /\ interface /\ calls < MaxCalls /\ calls' = calls + 1

StopsUnready(t) ==
  /\ CallsStorage(t) /\ ~ IsReady
  /\ exited' = TRUE
  /\ UNCHANGED <<checked, enabled, checking, initialized, interface, cloud, answered>>

statics == <<checked, enabled, checking, initialized, interface>>

\* The profile is converted first; Steam may refuse the write.
Uploaded(content) == Converted([form |-> "mac", content |-> content], "windows")

FileWrite(t, name, content) ==
  /\ CallsStorage(t) /\ IsReady
  /\ IF Uploaded(content) = Nothing THEN exited' = TRUE /\ UNCHANGED cloud
     ELSE /\ UNCHANGED exited
          /\ cloud' \in {cloud, [cloud EXCEPT ![name] = Uploaded(content)]}
  /\ answered' = Nothing
  /\ UNCHANGED statics

\* Size, read and name-and-size all convert the file Steam has.
FileRead(t, name) ==
  /\ CallsStorage(t) /\ IsReady
  /\ cloud[name] # Nothing
  /\ LET read == Converted(cloud[name], "mac") IN
       IF read = Nothing THEN exited' = TRUE /\ answered' = Nothing
       ELSE answered' = [name |-> name, file |-> read] /\ UNCHANGED exited
  /\ UNCHANGED <<statics, cloud>>

\* What the game does with one: external.
Saves(t, name) == \E c \in Contents : ~ c.spare /\ FileWrite(t, name, c)

\* A Windows client's save, while this game is not connected.
WindowsSaves(name) ==
  /\ ~ initialized /\ calls < MaxCalls
  /\ \E c \in Contents : cloud' = [cloud EXCEPT ![name] = [form |-> "windows", content |-> c]]
  /\ calls' = calls + 1
  /\ answered' = Nothing
  /\ UNCHANGED <<statics, exited>>

CloudNext ==
  \/ \E t \in CloudThreads :
       \/ BeginsCheck(t) \/ EndsCheck(t) \/ SteamInit(t) \/ SteamShutdown(t)
       \/ AsksInterface(t) \/ StopsUnready(t)
       \/ \E n \in Profiles : FileRead(t, n) \/ Saves(t, n)
  \/ \E n \in Profiles : WindowsSaves(n)

CloudSpec == CloudInit /\ [][CloudNext]_cloudVars

-----------------------------------------------------------------------------

CloudTypeOK ==
  /\ {checked, enabled, initialized, interface, exited} \subseteq BOOLEAN
  /\ checking \subseteq CloudThreads
  /\ cloud \in [Profiles -> Files \cup {Nothing, Garbage}]
  /\ calls \in 0..MaxCalls

\* Profiles cross the cloud whole.  Whatever the game saved and Steam took,
\* and whatever a Windows client saved, is in the cloud in Windows' layout;
\* the game is only ever handed the content the cloud holds, in the Mac's
\* layout; and no file is read by the wrong layout, though some have sizes
\* that add up in both.
CloudSound ==
  /\ \A n \in Profiles : cloud[n] # Nothing => cloud[n] # Garbage /\ cloud[n].form = "windows"
  /\ answered # Nothing =>
       /\ answered.file # Garbage
       /\ answered.file = [form |-> "mac", content |-> cloud[answered.name].content]
  /\ interface => enabled

-----------------------------------------------------------------------------
(* Why it holds: the cloud only ever has files in Windows' layout. *)
CloudInv ==
  /\ cloud \in [Profiles -> {Nothing} \cup {[form |-> "windows", content |-> c] : c \in Contents}]
  /\ CloudSound

=============================================================================
