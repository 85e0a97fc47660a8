------------------------------ MODULE Captures ------------------------------
(***************************************************************************)
(* scripts/export_econet.py: runs of the script that capture the           *)
(* controller's three endpoints into one directory, some of them at once,  *)
(* each of which may fail, be interrupted or be killed at any point, as    *)
(* may the machine.                                                        *)
(*                                                                         *)
(* A capture writes a file of its own under a temporary name, makes it     *)
(* durable and then links it to a name that says when it was made.  The    *)
(* names of a file are kept apart from its contents, which a power failure *)
(* can tear until they are synced.                                         *)
(***************************************************************************)
EXTENDS Sequences, Naturals

CONSTANTS
    Capture,  \* runs of the script
    Stamp,    \* times, to the microsecond
    None      \* no capture, no time

ASSUME NoneAssumption == None \notin Capture \cup Stamp

VARIABLES
    run,        \* the running captures
    file,       \* what a capture has written of its file
    synced,     \* captures whose file is on the disk
    temporary,  \* captures whose file has its temporary name
    published,  \* the capture that the file of a time belongs to
    fresh       \* times whose name is not sure to be on the disk

vars == <<run, file, synced, temporary, published, fresh>>

NumEndpoints == 3  \* regParams, editParams and sysParams

\* A reply that is JSON has the expected structure or not.
Reply == {"valid", "invalid"}

Result == {"none", "saved", "failed", "interrupted", "killed"}

TypeOK ==
    /\ run \in [Capture ->
          [pc : {"reading", "opening", "writing", "syncing", "linking", "unlinking", "done"},
           got : UNION {[1 .. n -> Reply] : n \in 0 .. NumEndpoints},
           stamp : Stamp \cup {None}, result : Result]]
    /\ file \in [Capture -> {"part", "whole"}]
    /\ synced \in SUBSET Capture
    /\ temporary \in SUBSET Capture
    /\ published \in [Stamp -> Capture \cup {None}]
    /\ fresh \in SUBSET Stamp

Init ==
    /\ run = [c \in Capture |->
                 [pc |-> "reading", got |-> <<>>, stamp |-> None, result |-> "none"]]
    /\ file = [c \in Capture |-> "part"]
    /\ synced = {} /\ temporary = {}
    /\ published = [s \in Stamp |-> None] /\ fresh = {}

fileVars == <<file, synced, temporary, published, fresh>>

Goto(c, pc) == run' = [run EXCEPT ![c].pc = pc]

\* The script prints the path, or that the capture has failed, or nothing.
End(c, result) == run' = [run EXCEPT ![c].pc = "done", ![c].result = result]

\* To the finally clause, after which the outcome is this one.
CleanUp(c, result) == run' = [run EXCEPT ![c].pc = "unlinking", ![c].result = result]

(***************************************************************************)
(* Reading and checking.                                                   *)
(***************************************************************************)
\* Mutated form of Read: one endpoint too many.
Read_OneMore(c) ==
    /\ run[c].pc = "reading" /\ Len(run[c].got) <= NumEndpoints
    /\ \E reply \in Reply : run' = [run EXCEPT ![c].got = Append(@, reply)]
    /\ UNCHANGED fileVars

Read(c) ==
    /\ run[c].pc = "reading" /\ Len(run[c].got) < NumEndpoints
    /\ \E reply \in Reply : run' = [run EXCEPT ![c].got = Append(@, reply)]
    /\ UNCHANGED fileVars

\* No answer, an error, a redirect, too much, or no JSON.
ReadFailed(c) ==
    /\ run[c].pc = "reading" /\ Len(run[c].got) < NumEndpoints
    /\ End(c, "failed")
    /\ UNCHANGED fileVars

\* validate_endpoints, of which sanitise changes nothing but may fail
Valid(got) == Len(got) = NumEndpoints /\ \A i \in DOMAIN got : got[i] = "valid"

\* Redaction can make two keys one or hide a value that is checked.
Check(c) ==
    /\ run[c].pc = "reading" /\ Len(run[c].got) = NumEndpoints
    /\ \/ Valid(run[c].got) /\ Goto(c, "opening")
       \/ End(c, "failed")
    /\ UNCHANGED fileVars

(***************************************************************************)
(* Writing.                                                                *)
(***************************************************************************)
\* The clock is read; the file is created with a name of its own.
Open(c) ==
    /\ run[c].pc = "opening"
    /\ \E s \in Stamp : run' = [run EXCEPT ![c].pc = "writing", ![c].stamp = s]
    /\ temporary' = temporary \cup {c}
    /\ UNCHANGED <<file, synced, published, fresh>>

OpenFailed(c) ==
    /\ run[c].pc = "opening"
    /\ End(c, "failed")
    /\ UNCHANGED fileVars

Write(c) ==
    /\ run[c].pc = "writing"
    /\ file' = [file EXCEPT ![c] = "whole"]
    /\ Goto(c, "syncing")
    /\ UNCHANGED <<synced, temporary, published, fresh>>

\* Mutated form of Sync: the file is only flushed.
Sync_Flush(c) ==
    /\ run[c].pc = "syncing"
    /\ Goto(c, "linking")
    /\ UNCHANGED fileVars

Sync(c) ==
    /\ run[c].pc = "syncing"
    /\ synced' = synced \cup {c}
    /\ Goto(c, "linking")
    /\ UNCHANGED <<file, temporary, published, fresh>>

\* Mutated form of Link: os.replace.
Link_Replace(c) ==
    /\ run[c].pc = "linking"
    /\ published' = [published EXCEPT ![run[c].stamp] = c]
    /\ fresh' = fresh \cup {run[c].stamp}
    /\ CleanUp(c, "saved")
    /\ UNCHANGED <<file, synced, temporary>>

\* Mutated form of Link: a name that exists is no error.
Link_ExistOk(c) ==
    /\ run[c].pc = "linking"
    /\ CleanUp(c, "saved")
    /\ IF published[run[c].stamp] = None
       THEN /\ published' = [published EXCEPT ![run[c].stamp] = c]
            /\ fresh' = fresh \cup {run[c].stamp}
       ELSE UNCHANGED <<published, fresh>>
    /\ UNCHANGED <<file, synced, temporary>>

\* os.link fails if the name exists.
Link(c) ==
    /\ run[c].pc = "linking"
    /\ IF published[run[c].stamp] = None
       THEN /\ published' = [published EXCEPT ![run[c].stamp] = c]
            /\ fresh' = fresh \cup {run[c].stamp}
            /\ CleanUp(c, "saved")
       ELSE CleanUp(c, "failed") /\ UNCHANGED <<published, fresh>>
    /\ UNCHANGED <<file, synced, temporary>>

\* Writing, syncing or linking fails.
OutputFailed(c) ==
    /\ run[c].pc \in {"writing", "syncing", "linking"}
    /\ CleanUp(c, "failed")
    /\ UNCHANGED fileVars

Unlink(c) ==
    /\ run[c].pc = "unlinking"
    /\ temporary' = temporary \ {c}
    /\ End(c, run[c].result)
    /\ UNCHANGED <<file, synced, published, fresh>>

\* Mutated form of UnlinkFailed: the output is tried again.
UnlinkFailed_Again(c) ==
    /\ run[c].pc = "unlinking"
    /\ Goto(c, "opening")
    /\ UNCHANGED fileVars

\* main catches that the temporary name cannot be removed, and says that
\* nothing was saved, even if the file was published.
UnlinkFailed(c) ==
    /\ run[c].pc = "unlinking"
    /\ End(c, "failed")
    /\ UNCHANGED fileVars

(***************************************************************************)
(* Crashes.                                                                *)
(***************************************************************************)
\* Ctrl-C: the finally clause runs, unless it is interrupted itself.
Interrupt(c) ==
    /\ \/ /\ run[c].pc \in {"writing", "syncing", "linking", "unlinking"}
          /\ CleanUp(c, "interrupted")
       \/ run[c].pc \in {"reading", "opening", "unlinking"} /\ End(c, "interrupted")
    /\ UNCHANGED fileVars

Kill(c) ==
    /\ run[c].pc # "done"
    /\ End(c, "killed")
    /\ UNCHANGED fileVars

\* The machine stops: names that are not on the disk may vanish, and files
\* that are not may be torn.
PowerFailure ==
    /\ run' = [c \in Capture |->
                  IF run[c].pc = "done" THEN run[c]
                  ELSE [run[c] EXCEPT !.pc = "done", !.result = "killed"]]
    /\ \E torn \in SUBSET (Capture \ synced) :
          file' = [c \in Capture |-> IF c \in torn THEN "part" ELSE file[c]]
    /\ \E gone \in SUBSET fresh :
          published' = [s \in Stamp |-> IF s \in gone THEN None ELSE published[s]]
    /\ fresh' = {}
    /\ temporary' \in SUBSET temporary
    /\ UNCHANGED synced

Step(c) ==
    \/ Read(c) \/ ReadFailed(c) \/ Check(c)
    \/ Open(c) \/ OpenFailed(c) \/ Write(c) \/ Sync(c) \/ Link(c) \/ OutputFailed(c)
    \/ Unlink(c) \/ UnlinkFailed(c)
    \/ Interrupt(c) \/ Kill(c)

Next == (\E c \in Capture : Step(c)) \/ PowerFailure

Spec == Init /\ [][Next]_vars

(***************************************************************************)
(* Properties.                                                             *)
(***************************************************************************)
\* The file of c is JSON and has all endpoints, each with the expected structure.
\* load_snapshot asks for that, and for at most three times MAX_BYTES, of which
\* nothing is said here: the script limits the replies, not the indented and escaped
\* JSON that it writes of them.
Complete(c) == file[c] = "whole" /\ Valid(run[c].got)

\* Whoever is interrupted or killed, and whenever the power fails, a file
\* under a published name is a whole capture of valid replies, never a torn or
\* partial one: "failed/partial/invalid downloads do not become valid snapshots"
\* (capture, validate_endpoints).
SnapshotsComplete == \A s \in Stamp : published[s] # None => Complete(published[s])

\* "Existing captures are not overwritten", by a capture of the same time or any
\* other: only a power failure takes a name, and only one that was just made.
CapturesAreKept ==
    [][\A s \in Stamp : published[s] \notin {None, published'[s]} =>
          published'[s] = None /\ s \in fresh /\ s \notin fresh']_vars

\* A capture ends in this step.
Ends(c) == run[c].pc # "done" /\ run'[c].pc = "done"

\* The path that the script prints is that of its own capture, even if two
\* captures have the same time.
PathIsOwn ==
    [][\A c \in Capture : Ends(c) /\ run'[c].result = "saved" =>
          published'[run[c].stamp] = c]_vars

(***************************************************************************)
(* Refinement.                                                             *)
(***************************************************************************)
\* What a reader finds under a name: nothing, a complete capture, or a damaged one.
Found(s) ==
    IF published[s] = None THEN None
    ELSE IF Complete(published[s]) THEN published[s] ELSE "damaged"

Store == INSTANCE SnapshotStore WITH
    active    <- {c \in Capture : run[c].pc \notin {"unlinking", "done"}},
    stored    <- [s \in Stamp |-> Found(s)],
    unsure    <- fresh,
    announced <- {c \in Capture : run[c].pc = "done" /\ run[c].result = "saved"}

\* "Write privately, then atomically publish without overwriting any capture":
\* creating, writing, syncing, linking and unlinking, with every failure between
\* them, amount to one step that publishes a whole snapshot, or to none (capture).
PublishedAtomically == Store!Spec
=============================================================================
