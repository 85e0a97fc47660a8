--------------------------- MODULE Captures_proofs ---------------------------
(***************************************************************************)
(* What export_econet.py guarantees for any number of captures at once,    *)
(* however they end and whenever the power fails.                          *)
(***************************************************************************)
EXTENDS Captures, SequenceTheorems, TLAPS

\* What has to be known of a capture to link its file: it was checked, then
\* written, then synced; and a name that it has is its own.
Careful(c) ==
  /\ run[c].pc \in {"opening", "writing", "syncing", "linking", "unlinking"} => Valid(run[c].got)
  /\ run[c].pc \in {"writing", "syncing", "linking", "unlinking"} => run[c].stamp \in Stamp
  /\ run[c].pc \in {"syncing", "linking"} => file[c] = "whole"
  /\ run[c].pc = "linking" => c \in synced
  /\ c \in synced => file[c] = "whole"
  /\ run[c].pc = "unlinking" /\ run[c].result = "saved" => published[run[c].stamp] = c

\* A published file is on the disk, was checked and is not written any more.
Durable(s) ==
  published[s] # None => /\ published[s] \in synced
                         /\ Valid(run[published[s]].got)
                         /\ run[published[s]].pc \in {"unlinking", "done"}

IInv ==
  /\ TypeOK
  /\ \A c \in Capture : Careful(c)
  /\ \A s \in Stamp : Durable(s)

Run == [pc : {"reading", "opening", "writing", "syncing", "linking", "unlinking", "done"},
        got : UNION {[1 .. n -> Reply] : n \in 0 .. NumEndpoints},
        stamp : Stamp \cup {None}, result : Result]

-----------------------------------------------------------------------------
(* Every step keeps the invariant. *)

\* One capture moves on; at most a temporary name changes.
LEMMA MoveSafe ==
  ASSUME IInv, NEW c \in Capture, NEW r \in Run, run' = [run EXCEPT ![c] = r],
         r.pc \in {"opening", "unlinking"} => Valid(r.got),
         r.pc = "unlinking" => r.stamp \in Stamp,
         r.pc = "unlinking" => r.result # "saved",
         r.pc \in {"reading", "opening", "unlinking", "done"},
         r.pc = "reading" \/ r.got = run[c].got,
         r.pc \in {"reading", "opening"} => run[c].pc = "reading",
         UNCHANGED <<file, synced, published, fresh>>, temporary' \in SUBSET Capture
  PROVE  IInv'
<1>1. TypeOK'
  BY DEF IInv, TypeOK, Run
<1>2. \A d \in Capture : run'[d] = IF d = c THEN r ELSE run[d]
  BY DEF IInv, TypeOK
<1>4. \A d \in Capture : Careful(d)'
  BY <1>2 DEF IInv, Careful
<1>5. \A s \in Stamp : Durable(s)'
  <2> SUFFICES ASSUME NEW s \in Stamp, published[s] # None
               PROVE  Durable(s)'
    BY DEF Durable
  <2>1. published[s] \in Capture
    BY DEF IInv, TypeOK
  <2>2. /\ published[s] \in synced /\ Valid(run[published[s]].got)
        /\ run[published[s]].pc \in {"unlinking", "done"}
    BY DEF IInv, Durable
  <2>3. published[s] = c => r.pc \in {"unlinking", "done"} /\ r.got = run[c].got
    BY <2>2
  <2> QED
    BY <1>2, <2>1, <2>2, <2>3 DEF Durable
<1> QED
  BY <1>1, <1>4, <1>5 DEF IInv

LEMMA RunType ==
  ASSUME IInv, NEW c \in Capture
  PROVE  run[c] \in Run
  BY DEF IInv, TypeOK, Run

LEMMA EndSafe ==
  ASSUME IInv, NEW c \in Capture, NEW result \in Result, End(c, result),
         UNCHANGED <<file, synced, published, fresh>>, temporary' \in SUBSET Capture
  PROVE  IInv'
<1> DEFINE r == [run[c] EXCEPT !.pc = "done", !.result = result]
<1>1. run[c] \in Run
  BY RunType
<1>2. r \in Run /\ r.pc = "done" /\ r.got = run[c].got
  BY <1>1 DEF Run
<1>3. run' = [run EXCEPT ![c] = r]
  BY DEF End
<1> HIDE DEF r
<1> QED
  BY <1>2, <1>3, MoveSafe

LEMMA CleanUpSafe ==
  ASSUME IInv, NEW c \in Capture, NEW result \in {"failed", "interrupted"}, CleanUp(c, result),
         run[c].pc \in {"writing", "syncing", "linking", "unlinking"},
         UNCHANGED fileVars
  PROVE  IInv'
<1> DEFINE r == [run[c] EXCEPT !.pc = "unlinking", !.result = result]
<1>1. run[c] \in Run
  BY RunType
<1>2. r \in Run /\ r.pc = "unlinking" /\ r.got = run[c].got /\ r.stamp = run[c].stamp
      /\ r.result = result
  BY <1>1 DEF Run, Result
<1>3. Valid(run[c].got) /\ run[c].stamp \in Stamp
  BY DEF IInv, Careful
<1>4. run' = [run EXCEPT ![c] = r]
  BY DEF CleanUp
<1>5. UNCHANGED <<file, synced, published, fresh>> /\ temporary' \in SUBSET Capture
  BY DEF fileVars, IInv, TypeOK
<1>6. result # "saved"
  OBVIOUS
<1> HIDE DEF r
<1> QED
  BY <1>2, <1>3, <1>4, <1>5, <1>6, MoveSafe

LEMMA ReadSafe ==
  ASSUME IInv, NEW c \in Capture, Read(c)
  PROVE  IInv'
<1>1. PICK reply \in Reply : run' = [run EXCEPT ![c].got = Append(@, reply)]
  BY DEF Read
<1> DEFINE r == [run[c] EXCEPT !.got = Append(@, reply)]
<1>2. run[c] \in Run /\ run[c].pc = "reading" /\ Len(run[c].got) < NumEndpoints
  BY RunType DEF Read
<1>3. Append(run[c].got, reply) \in UNION {[1 .. n -> Reply] : n \in 0 .. NumEndpoints}
  <2>1. PICK n \in 0 .. NumEndpoints : run[c].got \in [1 .. n -> Reply]
    BY <1>2 DEF Run
  <2>2. run[c].got \in Seq(Reply) /\ Len(run[c].got) = n
    BY <2>1 DEF NumEndpoints
  <2>3. /\ Append(run[c].got, reply) \in Seq(Reply)
        /\ Len(Append(run[c].got, reply)) = n + 1
    BY <2>2, AppendProperties
  <2>4. n + 1 \in 0 .. NumEndpoints
    BY <1>2, <2>1, <2>2 DEF NumEndpoints
  <2>5. Append(run[c].got, reply) \in [1 .. n + 1 -> Reply]
    BY <2>3, LenProperties
  <2> QED
    BY <2>4, <2>5
<1>4. r \in Run /\ r.pc = "reading"
  BY <1>2, <1>3 DEF Run
<1>5. run' = [run EXCEPT ![c] = r]
  BY <1>1
<1>6. UNCHANGED <<file, synced, published, fresh>> /\ temporary' \in SUBSET Capture
  BY DEF Read, fileVars, IInv, TypeOK
<1> HIDE DEF r
<1> QED
  BY <1>2, <1>4, <1>5, <1>6, MoveSafe

LEMMA CheckSafe ==
  ASSUME IInv, NEW c \in Capture, Check(c)
  PROVE  IInv'
<1>0. UNCHANGED <<file, synced, published, fresh>> /\ temporary' \in SUBSET Capture
  BY DEF Check, fileVars, IInv, TypeOK
<1>1. CASE End(c, "failed")
  BY <1>0, <1>1, EndSafe DEF Result
<1>2. CASE Valid(run[c].got) /\ Goto(c, "opening")
  <2> DEFINE r == [run[c] EXCEPT !.pc = "opening"]
  <2>1. run[c] \in Run /\ run[c].pc = "reading"
    BY RunType DEF Check
  <2>2. r \in Run /\ r.pc = "opening" /\ r.got = run[c].got
    BY <2>1 DEF Run
  <2>3. run' = [run EXCEPT ![c] = r]
    BY <1>2 DEF Goto
  <2> HIDE DEF r
  <2> QED
    BY <1>0, <1>2, <2>1, <2>2, <2>3, MoveSafe
<1> QED
  BY <1>1, <1>2 DEF Check

\* The capture that goes through Open, Write and Sync has published nothing yet.
LEMMA NotYetPublished ==
  ASSUME IInv, NEW c \in Capture, run[c].pc \notin {"unlinking", "done"}, NEW s \in Stamp
  PROVE  published[s] # c
  BY NoneAssumption DEF IInv, Durable

\* A file goes from one of its stages to the next.
LEMMA StageSafe ==
  ASSUME IInv, NEW c \in Capture, run[c].pc \in {"opening", "writing", "syncing"},
         NEW r \in Run, run' = [run EXCEPT ![c] = r],
         r.pc \in {"writing", "syncing", "linking"}, r.got = run[c].got, r.stamp \in Stamp,
         file' \in {file, [file EXCEPT ![c] = "whole"]}, synced' \in {synced, synced \cup {c}},
         r.pc \in {"syncing", "linking"} => file'[c] = "whole",
         r.pc = "linking" => c \in synced', c \in synced' => file'[c] = "whole",
         UNCHANGED <<published, fresh>>, temporary' \in SUBSET Capture
  PROVE  IInv'
<1>1. file \in [Capture -> {"part", "whole"}]
  BY DEF IInv, TypeOK
<1>2. /\ \A d \in Capture : run'[d] = IF d = c THEN r ELSE run[d]
      /\ \A d \in Capture : d # c => file'[d] = file[d] /\ (d \in synced' <=> d \in synced)
      /\ synced \in SUBSET synced'
      /\ file' \in [Capture -> {"part", "whole"}]
  BY <1>1 DEF IInv, TypeOK
<1>3. TypeOK'
  BY <1>2 DEF IInv, TypeOK, Run
<1>4. Valid(r.got)
  BY DEF IInv, Careful
<1>5. \A d \in Capture : Careful(d)'
  <2>1. Careful(c)'
    BY <1>2, <1>4 DEF Careful
  <2>2. ASSUME NEW d \in Capture, d # c
        PROVE  Careful(d)'
    BY <1>2, <2>2 DEF IInv, Careful
  <2> QED
    BY <2>1, <2>2
<1>6. \A t \in Stamp : Durable(t)'
  <2> SUFFICES ASSUME NEW t \in Stamp, published[t] # None
               PROVE  Durable(t)'
    BY DEF Durable
  <2>1. published[t] \in Capture /\ published[t] # c
    BY NotYetPublished DEF IInv, TypeOK
  <2> QED
    BY <1>2, <2>1 DEF IInv, Durable
<1> QED
  BY <1>3, <1>5, <1>6 DEF IInv

LEMMA OpenSafe ==
  ASSUME IInv, NEW c \in Capture, Open(c)
  PROVE  IInv'
<1>1. PICK s \in Stamp : run' = [run EXCEPT ![c].pc = "writing", ![c].stamp = s]
  BY DEF Open
<1> DEFINE r == [run[c] EXCEPT !.pc = "writing", !.stamp = s]
<1>2. run[c] \in Run /\ run[c].pc = "opening"
  BY RunType DEF Open
<1>3. r \in Run /\ r.pc = "writing" /\ r.got = run[c].got /\ r.stamp = s
  BY <1>2 DEF Run
<1>4. run' = [run EXCEPT ![c] = r]
  BY <1>1
<1>5. UNCHANGED <<file, synced, published, fresh>> /\ temporary' \in SUBSET Capture
  BY DEF Open, IInv, TypeOK
<1>6. c \in synced => file[c] = "whole"
  BY DEF IInv, Careful
<1> HIDE DEF r
<1> QED
  BY <1>2, <1>3, <1>4, <1>5, <1>6, StageSafe

LEMMA WriteSafe ==
  ASSUME IInv, NEW c \in Capture, Write(c)
  PROVE  IInv'
<1> DEFINE r == [run[c] EXCEPT !.pc = "syncing"]
<1>1. run[c] \in Run /\ run[c].pc = "writing"
  BY RunType DEF Write
<1>2. r \in Run /\ r.pc = "syncing" /\ r.got = run[c].got /\ r.stamp = run[c].stamp
  BY <1>1 DEF Run
<1>3. run' = [run EXCEPT ![c] = r]
  BY DEF Write, Goto
<1>4. run[c].stamp \in Stamp
  BY <1>1 DEF IInv, Careful
<1>5. /\ UNCHANGED <<synced, published, fresh>> /\ temporary' \in SUBSET Capture
      /\ file' = [file EXCEPT ![c] = "whole"] /\ file'[c] = "whole"
  BY DEF Write, IInv, TypeOK
<1> HIDE DEF r
<1> QED
  BY <1>1, <1>2, <1>3, <1>4, <1>5, StageSafe

LEMMA SyncSafe ==
  ASSUME IInv, NEW c \in Capture, Sync(c)
  PROVE  IInv'
<1> DEFINE r == [run[c] EXCEPT !.pc = "linking"]
<1>1. run[c] \in Run /\ run[c].pc = "syncing"
  BY RunType DEF Sync
<1>2. r \in Run /\ r.pc = "linking" /\ r.got = run[c].got /\ r.stamp = run[c].stamp
  BY <1>1 DEF Run
<1>3. run' = [run EXCEPT ![c] = r]
  BY DEF Sync, Goto
<1>4. run[c].stamp \in Stamp /\ file[c] = "whole"
  BY <1>1 DEF IInv, Careful
<1>5. /\ UNCHANGED <<file, published, fresh>> /\ temporary' \in SUBSET Capture
      /\ synced' = synced \cup {c}
  BY DEF Sync, IInv, TypeOK
<1> HIDE DEF r
<1> QED
  BY <1>1, <1>2, <1>3, <1>4, <1>5, StageSafe

\* A name is only given to a file that is on the disk, and nobody else's is taken.
LEMMA LinkSafe ==
  ASSUME IInv, NEW c \in Capture, Link(c)
  PROVE  IInv'
<1> DEFINE s == run[c].stamp
           r == [run[c] EXCEPT !.pc = "unlinking", !.result = "saved"]
<1>1. run[c] \in Run /\ run[c].pc = "linking"
  BY RunType DEF Link
<1>2. s \in Stamp /\ Valid(run[c].got) /\ c \in synced
  BY <1>1 DEF IInv, Careful
<1>3. CASE published[s] # None
  BY <1>1, <1>3, CleanUpSafe DEF Link, fileVars
<1>4. CASE published[s] = None
  <2>1. /\ run' = [run EXCEPT ![c] = r]
        /\ published' = [published EXCEPT ![s] = c] /\ fresh' = fresh \cup {s}
        /\ UNCHANGED <<file, synced, temporary>>
    BY <1>4 DEF Link, CleanUp
  <2>2. r \in Run /\ r.pc = "unlinking" /\ r.got = run[c].got /\ r.stamp = s
    BY <1>1 DEF Run, Result
  <2> HIDE DEF r
  <2>3. TypeOK'
    BY <1>2, <2>1, <2>2 DEF IInv, TypeOK, Run
  <2>4. /\ \A d \in Capture : run'[d] = IF d = c THEN r ELSE run[d]
        /\ \A t \in Stamp : published'[t] = IF t = s THEN c ELSE published[t]
    BY <1>2, <2>1 DEF IInv, TypeOK
  <2> HIDE DEF s
  <2>5. ASSUME NEW d \in Capture
        PROVE  Careful(d)'
    <3>1. CASE d = c
      BY <1>2, <2>1, <2>2, <2>4, <3>1 DEF IInv, Careful
    <3>2. CASE d # c
      <4>1. Careful(d) /\ d # None
        BY NoneAssumption DEF IInv
      <4> QED
        BY <1>4, <2>1, <2>4, <3>2, <4>1 DEF Careful
    <3> QED
      BY <3>1, <3>2
  <2>6. ASSUME NEW t \in Stamp
        PROVE  Durable(t)'
    <3>1. CASE t = s
      BY <1>2, <2>1, <2>2, <2>4, <3>1 DEF Durable
    <3>2. CASE t # s
      <4>1. published[t] \in Capture \cup {None} /\ published[t] # c
        BY <1>1, NotYetPublished DEF IInv, TypeOK
      <4> QED
        BY <2>1, <2>4, <3>2, <4>1 DEF IInv, Durable
    <3> QED
      BY <3>1, <3>2
  <2> QED
    BY <2>3, <2>5, <2>6 DEF IInv
<1> QED
  BY <1>3, <1>4

\* A power failure tears no file that has its name.
LEMMA PowerFailureSafe ==
  ASSUME IInv, PowerFailure
  PROVE  IInv'
<1>1. PICK torn \in SUBSET (Capture \ synced) :
        file' = [c \in Capture |-> IF c \in torn THEN "part" ELSE file[c]]
  BY DEF PowerFailure
<1>2. PICK gone \in SUBSET fresh :
        published' = [s \in Stamp |-> IF s \in gone THEN None ELSE published[s]]
  BY DEF PowerFailure
<1>3. \A c \in Capture : /\ run'[c] \in Run /\ run'[c].pc = "done" /\ run'[c].got = run[c].got
  <2>1. \A c \in Capture : run[c] \in Run
    BY RunType
  <2>2. \A r \in Run : LET r2 == [r EXCEPT !.pc = "done", !.result = "killed"]
                      IN  r2 \in Run /\ r2.pc = "done" /\ r2.got = r.got
    BY DEF Run, Result
  <2> QED
    BY <2>1, <2>2 DEF PowerFailure
<1>4. UNCHANGED synced /\ fresh' = {} /\ temporary' \in SUBSET temporary
  BY DEF PowerFailure
<1>5. TypeOK'
  <2>1. run' \in [Capture -> Run]
    BY <1>3 DEF PowerFailure
  <2>2. file' \in [Capture -> {"part", "whole"}]
    BY <1>1 DEF IInv, TypeOK
  <2>3. published' \in [Stamp -> Capture \cup {None}]
    BY <1>2 DEF IInv, TypeOK
  <2> QED
    BY <1>4, <2>1, <2>2, <2>3 DEF IInv, TypeOK, Run
<1>6. \A c \in Capture : Careful(c)'
  BY <1>1, <1>3, <1>4 DEF IInv, Careful
<1>7. \A s \in Stamp : Durable(s)'
  BY <1>2, <1>3, <1>4 DEF IInv, TypeOK, Durable
<1> QED
  BY <1>5, <1>6, <1>7 DEF IInv

LEMMA InitSafe ==
  ASSUME Init
  PROVE  IInv
<1>1. <<>> \in [1 .. 0 -> Reply]
  OBVIOUS
<1>2. <<>> \in UNION {[1 .. n -> Reply] : n \in 0 .. NumEndpoints}
  BY <1>1 DEF NumEndpoints
<1> QED
  BY <1>2 DEF Init, IInv, TypeOK, Careful, Durable, Result

LEMMA StepSafe ==
  ASSUME IInv, [Next]_vars
  PROVE  IInv'
<1>1. ASSUME NEW c \in Capture, Step(c)
      PROVE  IInv'
  <2>0. UNCHANGED fileVars => /\ UNCHANGED <<file, synced, published, fresh>>
                              /\ temporary' \in SUBSET Capture
    BY DEF fileVars, IInv, TypeOK
  <2>1. run[c] \in Run
    BY RunType
  <2>2. CASE Read(c) \/ Check(c) \/ Open(c) \/ Write(c) \/ Sync(c) \/ Link(c)
    BY <2>2, ReadSafe, CheckSafe, OpenSafe, WriteSafe, SyncSafe, LinkSafe
  <2>3. CASE ReadFailed(c) \/ OpenFailed(c) \/ UnlinkFailed(c) \/ Kill(c)
    <3>1. (End(c, "failed") \/ End(c, "killed")) /\ UNCHANGED fileVars
      BY <2>3 DEF ReadFailed, OpenFailed, UnlinkFailed, Kill
    <3> QED
      BY <2>0, <3>1, EndSafe DEF Result
  <2>4. CASE OutputFailed(c)
    BY <2>4, CleanUpSafe DEF OutputFailed
  <2>5. CASE Unlink(c)
    <3>1. run[c].result \in Result /\ temporary' \in SUBSET Capture
      BY <2>1, <2>5 DEF Run, Unlink, IInv, TypeOK
    <3> QED
      BY <2>5, <3>1, EndSafe DEF Unlink
  <2>6. CASE Interrupt(c)
    <3>1. UNCHANGED fileVars
      BY <2>6 DEF Interrupt
    <3> QED
      BY <2>0, <2>6, <3>1, EndSafe, CleanUpSafe DEF Interrupt, Result
  <2> QED
    BY <1>1, <2>2, <2>3, <2>4, <2>5, <2>6 DEF Step
<1>2. CASE UNCHANGED vars
  BY <1>2 DEF vars, IInv, TypeOK, Careful, Durable
<1> QED
  BY <1>1, <1>2, PowerFailureSafe DEF Next

LEMMA IInvAlways == Spec => []IInv
<1>1. Init => IInv
  BY InitSafe
<1>2. IInv /\ [Next]_vars => IInv'
  BY StepSafe
<1> QED
  BY <1>1, <1>2, PTL DEF Spec

-----------------------------------------------------------------------------
(* Theorems. *)

\* The script's and the file system's variables keep their types.
THEOREM CapturesTyped == Spec => []TypeOK
<1>1. IInv => TypeOK
  BY DEF IInv
<1> QED
  BY <1>1, IInvAlways, PTL

\* Whatever is killed and whenever the power fails, every file that has a published
\* name is a whole capture of valid replies.
THEOREM CapturesAreComplete == Spec => []SnapshotsComplete
<1>1. IInv => SnapshotsComplete
  <2> SUFFICES ASSUME IInv, NEW s \in Stamp, published[s] # None
               PROVE  Complete(published[s])
    BY DEF SnapshotsComplete
  <2>1. published[s] \in Capture /\ published[s] \in synced /\ Valid(run[published[s]].got)
    BY DEF IInv, TypeOK, Durable
  <2>2. file[published[s]] = "whole"
    BY <2>1 DEF IInv, Careful
  <2> QED
    BY <2>1, <2>2 DEF Complete
<1> QED
  BY <1>1, IInvAlways, PTL

\* No capture takes another's name, and no program takes a name away.
THEOREM NothingIsOverwritten == Spec => CapturesAreKept
<1> DEFINE Keeps == \A s \in Stamp : published[s] \notin {None, published'[s]} =>
                       published'[s] = None /\ s \in fresh /\ s \notin fresh'
<1>1. IInv /\ [Next]_vars => [Keeps]_vars
  <2> SUFFICES ASSUME IInv, Next, NEW s \in Stamp, published[s] \notin {None, published'[s]}
               PROVE  published'[s] = None /\ s \in fresh /\ s \notin fresh'
    BY DEF vars
  <2>1. CASE PowerFailure
    BY <2>1 DEF PowerFailure
  <2>2. ASSUME NEW c \in Capture, Step(c)
        PROVE  FALSE
    <3>1. UNCHANGED published \/ Link(c)
      BY <2>2 DEF Step, Read, ReadFailed, Check, Open, OpenFailed, Write, Sync, OutputFailed,
         Unlink, UnlinkFailed, Interrupt, Kill, fileVars
    <3> QED
      BY <3>1 DEF Link, IInv, TypeOK
  <2> QED
    BY <2>1, <2>2 DEF Next
<1> QED
  BY <1>1, IInvAlways, PTL DEF Spec, CapturesAreKept

\* A capture that says it was saved has the path that it prints.
THEOREM PathsAreOwn == Spec => PathIsOwn
<1> DEFINE Own == \A c \in Capture : Ends(c) /\ run'[c].result = "saved" =>
                     published'[run[c].stamp] = c
<1>1. IInv /\ [Next]_vars => [Own]_vars
  <2> SUFFICES ASSUME IInv, Next, NEW c \in Capture, Ends(c), run'[c].result = "saved"
               PROVE  published'[run[c].stamp] = c
    BY DEF vars
  <2>1. run[c] \in Run /\ run[c].pc # "done" /\ run'[c].pc = "done"
    BY RunType DEF Ends
  <2>2. ~PowerFailure
    <3>1. \A r \in Run : [r EXCEPT !.pc = "done", !.result = "killed"].result = "killed"
      BY DEF Run
    <3> QED
      BY <2>1, <3>1 DEF PowerFailure
  <2>3. PICK d \in Capture : Step(d)
    BY <2>2 DEF Next
  <2>4. d = c
    <3> SUFFICES ASSUME d # c
                 PROVE  FALSE
      OBVIOUS
    <3>1. run'[c] = run[c]
      BY <2>3 DEF Step, Read, ReadFailed, Check, Open, OpenFailed, Write, Sync, Link,
         OutputFailed, Unlink, UnlinkFailed, Interrupt, Kill, Goto, End, CleanUp, IInv, TypeOK
    <3> QED
      BY <2>1, <3>1
  <2>5. ASSUME NEW result, End(c, result)
        PROVE  result = "saved"
    BY <2>5 DEF End, IInv, TypeOK
  <2>6. ASSUME NEW pc, Goto(c, pc)
        PROVE  pc = "done"
    BY <2>1, <2>6 DEF Goto, IInv, TypeOK
  <2>7. ASSUME NEW result, CleanUp(c, result)
        PROVE  FALSE
    BY <2>1, <2>7 DEF CleanUp, IInv, TypeOK
  <2>8. ~Read(c)
    BY <2>1 DEF Read, IInv, TypeOK
  <2>9. ~Open(c)
    BY <2>1 DEF Open, IInv, TypeOK
  <2>10. ~End(c, "failed") /\ ~End(c, "interrupted") /\ ~End(c, "killed")
    BY <2>5
  <2>11. ~Goto(c, "opening") /\ ~Goto(c, "syncing") /\ ~Goto(c, "linking")
    BY <2>6
  <2>12. Unlink(c)
    BY <2>3, <2>4, <2>7, <2>8, <2>9, <2>10, <2>11
       DEF Step, ReadFailed, Check, OpenFailed, Write, Sync, Link, OutputFailed, UnlinkFailed,
       Interrupt, Kill
  <2>13. run[c].result = "saved" /\ run[c].pc = "unlinking" /\ UNCHANGED published
    BY <2>5, <2>12 DEF Unlink
  <2> QED
    BY <2>13 DEF IInv, Careful
<1> QED
  BY <1>1, IInvAlways, PTL DEF Spec, PathIsOwn

-----------------------------------------------------------------------------
(* Refinement: every step is a step of SnapshotStore or none. *)

Active == {c \in Capture : run[c].pc \notin {"unlinking", "done"}}
Announced == {c \in Capture : run[c].pc = "done" /\ run[c].result = "saved"}
Stored == [s \in Stamp |-> Found(s)]

\* No file under a published name is damaged, before or after a step.
LEMMA NothingDamaged ==
  ASSUME IInv, IInv'
  PROVE  Stored = published /\ Stored' = published'
<1>1. ASSUME NEW s \in Stamp, published[s] # None
      PROVE  Complete(published[s])
  BY <1>1 DEF IInv, TypeOK, Durable, Careful, Complete
<1>2. ASSUME NEW s \in Stamp, published'[s] # None
      PROVE  Complete(published[s])'
  BY <1>2 DEF IInv, TypeOK, Durable, Careful, Complete
<1>3. published \in [Stamp -> Capture \cup {None}] /\ published' \in [Stamp -> Capture \cup {None}]
  BY DEF IInv, TypeOK
<1>4. \A s \in Stamp : Found(s) = published[s] /\ Found(s)' = published'[s]
  BY <1>1, <1>2 DEF Found
<1> QED
  BY <1>3, <1>4 DEF Stored

\* Where a step of c leads from r to s.
LEMMA StagesAfter ==
  ASSUME IInv, NEW c \in Capture, NEW r \in Run, run' = [run EXCEPT ![c] = r]
  PROVE  /\ Active' = IF r.pc \in {"unlinking", "done"} THEN Active \ {c} ELSE Active \cup {c}
         /\ Announced' = IF r.pc = "done" /\ r.result = "saved"
                         THEN Announced \cup {c} ELSE Announced \ {c}
<1>1. \A d \in Capture : run'[d] = IF d = c THEN r ELSE run[d]
  BY DEF IInv, TypeOK
<1> QED
  BY <1>1 DEF Active, Announced

\* A step that neither publishes nor announces.
LEMMA QuietStep ==
  ASSUME IInv, IInv', NEW c \in Capture, NEW r \in Run, run' = [run EXCEPT ![c] = r],
         run[c].pc # "done", UNCHANGED <<published, fresh>>,
         ~(r.pc = "done" /\ r.result = "saved"),
         run[c].pc = "unlinking" => r.pc \in {"unlinking", "done"}
  PROVE  [Store!Next]_(Store!vars)
<1>1. Announced' = Announced
  BY StagesAfter DEF Announced
<1>2. Stored' = Stored
  BY NothingDamaged
<1>3. CASE c \in Active /\ r.pc \in {"unlinking", "done"}
  <2>1. Active' = Active \ {c}
    BY <1>3, StagesAfter
  <2>2. Store!GiveUp(c)
    BY <1>1, <1>2, <1>3, <2>1 DEF Store!GiveUp, Active, Announced, Stored
  <2> QED
    BY <1>3, <2>2 DEF Store!Next, Active
<1>4. CASE ~(c \in Active /\ r.pc \in {"unlinking", "done"})
  <2>1. Active' = Active
    BY <1>4, StagesAfter DEF Active
  <2> QED
    BY <1>1, <1>2, <2>1 DEF Store!vars, Active, Announced, Stored
<1> QED
  BY <1>3, <1>4

LEMMA LinkPublishes ==
  ASSUME IInv, IInv', NEW c \in Capture, Link(c)
  PROVE  [Store!Next]_(Store!vars)
<1>1. run[c] \in Run /\ run[c].pc = "linking" /\ run[c].stamp \in Stamp
  BY RunType DEF Link, IInv, Careful
<1>2. CASE published[run[c].stamp] # None
  <2> DEFINE r == [run[c] EXCEPT !.pc = "unlinking", !.result = "failed"]
  <2>1. r \in Run /\ r.pc = "unlinking"
    BY <1>1 DEF Run, Result
  <2>2. run' = [run EXCEPT ![c] = r] /\ UNCHANGED <<published, fresh>>
    BY <1>2 DEF Link, CleanUp
  <2> HIDE DEF r
  <2> QED
    BY <1>1, <2>1, <2>2, QuietStep
<1>3. CASE published[run[c].stamp] = None
  <2> DEFINE r == [run[c] EXCEPT !.pc = "unlinking", !.result = "saved"]
  <2>1. r \in Run /\ r.pc = "unlinking"
    BY <1>1 DEF Run, Result
  <2> PICK s \in Stamp : s = run[c].stamp
    BY <1>1
  <2>2. /\ run' = [run EXCEPT ![c] = r]
        /\ published' = [published EXCEPT ![s] = c] /\ fresh' = fresh \cup {s}
    BY <1>3 DEF Link, CleanUp
  <2> HIDE DEF r
  <2>3. Active' = Active \ {c} /\ Announced' = Announced
    BY <1>1, <2>1, <2>2, StagesAfter DEF Announced
  <2>4. Stored[s] = None /\ Stored' = [Stored EXCEPT ![s] = c]
    BY <1>3, <2>2, NothingDamaged
  <2>5. c \in Active
    BY <1>1 DEF Active
  <2>6. Store!Publish(c, s)
    BY <2>2, <2>3, <2>4, <2>5 DEF Store!Publish, Active, Announced, Stored
  <2> QED
    BY <1>1, <2>5, <2>6 DEF Store!Next, Active
<1> QED
  BY <1>2, <1>3

LEMMA UnlinkAnnounces ==
  ASSUME IInv, IInv', NEW c \in Capture, Unlink(c)
  PROVE  [Store!Next]_(Store!vars)
<1> DEFINE r == [run[c] EXCEPT !.pc = "done", !.result = run[c].result]
<1>1. run[c] \in Run /\ run[c].pc = "unlinking" /\ run[c].stamp \in Stamp
  BY RunType DEF Unlink, IInv, Careful
<1>2. r \in Run /\ r.pc = "done" /\ r.result = run[c].result
  BY <1>1 DEF Run
<1>3. run' = [run EXCEPT ![c] = r] /\ UNCHANGED <<published, fresh>>
  BY DEF Unlink, End
<1> HIDE DEF r
<1>4. CASE run[c].result # "saved"
  BY <1>1, <1>2, <1>3, <1>4, QuietStep
<1>5. CASE run[c].result = "saved"
  <2>1. Active' = Active /\ Announced' = Announced \cup {c}
    BY <1>1, <1>2, <1>3, <1>5, StagesAfter DEF Active
  <2>2. Stored' = Stored /\ Stored[run[c].stamp] = c
    BY <1>1, <1>3, <1>5, NothingDamaged DEF IInv, Careful
  <2>3. Store!Announce(c)
    BY <1>1, <1>3, <2>1, <2>2 DEF Store!Announce, Active, Announced, Stored
  <2> QED
    BY <2>3 DEF Store!Next
<1> QED
  BY <1>4, <1>5

LEMMA PowerFails ==
  ASSUME IInv, IInv', PowerFailure
  PROVE  Store!PowerFailure
<1>1. \A c \in Capture : run'[c] = IF run[c].pc = "done" THEN run[c]
                                   ELSE [run[c] EXCEPT !.pc = "done", !.result = "killed"]
  BY DEF PowerFailure
<1>2. \A c \in Capture : run[c].pc # "done" => run'[c].pc = "done" /\ run'[c].result = "killed"
  BY <1>1, RunType DEF Run
<1>3. \A c \in Capture : run[c].pc = "done" => run'[c] = run[c]
  BY <1>1
<1>4. \A c \in Capture : run'[c].pc = "done"
  BY <1>2, <1>3
<1>5. Active' = {}
  BY <1>4 DEF Active
<1>6. Announced' = Announced
  BY <1>2, <1>3 DEF Announced
<1>7. PICK gone \in SUBSET fresh :
         published' = [s \in Stamp |-> IF s \in gone THEN None ELSE published[s]]
  BY DEF PowerFailure
<1>8. Stored' = [s \in Stamp |-> IF s \in gone THEN None ELSE Stored[s]]
  BY <1>7, NothingDamaged
<1>9. fresh' = {}
  BY DEF PowerFailure
<1> QED
  BY <1>5, <1>6, <1>8, <1>9 DEF Store!PowerFailure, Active, Announced, Stored

LEMMA StoreStep ==
  ASSUME IInv, IInv', [Next]_vars
  PROVE  [Store!Next]_(Store!vars)
<1>1. ASSUME NEW c \in Capture, Step(c)
      PROVE  [Store!Next]_(Store!vars)
  <2>0. run[c] \in Run
    BY RunType
  <2>1. ASSUME NEW result \in {"failed", "interrupted", "killed"}, End(c, result), UNCHANGED fileVars,
               run[c].pc # "done"
        PROVE  [Store!Next]_(Store!vars)
    <3> DEFINE r == [run[c] EXCEPT !.pc = "done", !.result = result]
    <3>1. r \in Run /\ r.pc = "done" /\ r.result = result
      BY <2>0 DEF Run, Result
    <3>2. run' = [run EXCEPT ![c] = r] /\ UNCHANGED <<published, fresh>>
      BY <2>1 DEF End, fileVars
    <3> HIDE DEF r
    <3> QED
      BY <2>1, <3>1, <3>2, QuietStep
  <2>2. ASSUME NEW result \in {"failed", "interrupted"}, CleanUp(c, result), UNCHANGED fileVars,
               run[c].pc # "done"
        PROVE  [Store!Next]_(Store!vars)
    <3> DEFINE r == [run[c] EXCEPT !.pc = "unlinking", !.result = result]
    <3>1. r \in Run /\ r.pc = "unlinking"
      BY <2>0 DEF Run, Result
    <3>2. run' = [run EXCEPT ![c] = r] /\ UNCHANGED <<published, fresh>>
      BY <2>2 DEF CleanUp, fileVars
    <3> HIDE DEF r
    <3> QED
      BY <2>2, <3>1, <3>2, QuietStep
  <2>3. ASSUME NEW pc \in {"opening", "syncing", "linking"}, Goto(c, pc), UNCHANGED <<published, fresh>>,
               run[c].pc \in {"reading", "writing", "syncing"}
        PROVE  [Store!Next]_(Store!vars)
    <3> DEFINE r == [run[c] EXCEPT !.pc = pc]
    <3>1. r \in Run /\ r.pc = pc
      BY <2>0 DEF Run
    <3>2. run' = [run EXCEPT ![c] = r]
      BY <2>3 DEF Goto
    <3> HIDE DEF r
    <3> QED
      BY <2>3, <3>1, <3>2, QuietStep
  <2>4. CASE Read(c) \/ Open(c)
    <3>1. /\ \A d \in Capture : d # c => run'[d] = run[d]
          /\ run'[c].result = run[c].result
          /\ run[c].pc \in {"reading", "opening"} /\ run'[c].pc \in {"reading", "writing"}
      <4>1. CASE Read(c)
        BY <2>0, <4>1 DEF Read, IInv, TypeOK
      <4>2. CASE Open(c)
        <5>1. PICK s \in Stamp : run' = [run EXCEPT ![c].pc = "writing", ![c].stamp = s]
          BY <4>2 DEF Open
        <5>2. run[c].pc = "opening"
          BY <4>2 DEF Open
        <5> QED
          BY <2>0, <5>1, <5>2 DEF IInv, TypeOK
      <4> QED
        BY <2>4, <4>1, <4>2
    <3>2. Active' = Active /\ Announced' = Announced
      BY <3>1 DEF Active, Announced
    <3>3. UNCHANGED <<published, fresh>>
      BY <2>4 DEF Read, Open, fileVars
    <3> QED
      BY <3>2, <3>3, NothingDamaged DEF Store!vars, Active, Announced, Stored
  <2>5. CASE Check(c) \/ Write(c) \/ Sync(c)
    BY <2>1, <2>3, <2>5 DEF Check, Write, Sync, fileVars
  <2>6. CASE ReadFailed(c) \/ OpenFailed(c) \/ UnlinkFailed(c) \/ Kill(c)
    BY <2>1, <2>6 DEF ReadFailed, OpenFailed, UnlinkFailed, Kill
  <2>7. CASE OutputFailed(c) \/ Interrupt(c)
    BY <2>1, <2>2, <2>7 DEF OutputFailed, Interrupt
  <2> QED
    BY <1>1, <2>4, <2>5, <2>6, <2>7, LinkPublishes, UnlinkAnnounces DEF Step
<1>2. CASE PowerFailure
  BY <1>2, PowerFails DEF Store!Next
<1>3. CASE UNCHANGED vars
  <2>1. Stored' = Stored
    BY <1>3, NothingDamaged DEF vars
  <2> QED
    BY <1>3, <2>1 DEF vars, Store!vars, Stored
<1> QED
  BY <1>1, <1>2, <1>3 DEF Next

\* Creating, writing, syncing, linking and unlinking a file, with every failure
\* between them, amount to publishing a whole snapshot in one step under a free
\* name, or to nothing: Captures refines SnapshotStore (capture).
THEOREM CapturesPublishAtomically == Spec => PublishedAtomically
<1>1. Init => Store!Init
  <2> SUFFICES ASSUME Init
               PROVE  Store!Init
    OBVIOUS
  <2>1. Active = Capture /\ Announced = {}
    BY DEF Init, Active, Announced
  <2>2. Stored = [s \in Stamp |-> None]
    BY DEF Init, Stored, Found
  <2> QED
    BY <2>1, <2>2 DEF Init, Store!Init, Active, Announced, Stored
<1>2. IInv /\ IInv' /\ [Next]_vars => [Store!Next]_(Store!vars)
  BY StoreStep
<1> QED
  BY <1>1, <1>2, IInvAlways, PTL DEF Spec, PublishedAtomically, Store!Spec

-----------------------------------------------------------------------------
(* What the promise amounts to. *)

StoreInv ==
  /\ Stored \in [Stamp -> Capture \cup {None}]
  /\ Active \subseteq Capture
  /\ Store!OneEach

LEMMA StoreKept ==
  ASSUME StoreInv, [Store!Next]_(Store!vars)
  PROVE  StoreInv'
<1> USE DEF Active, Stored
<1>1. ASSUME NEW c \in Active, NEW s \in Stamp, Store!Publish(c, s)
      PROVE  StoreInv'
  <2>1. /\ c # None /\ c \in Capture /\ Active' = Active \ {c}
        /\ Stored' = [Stored EXCEPT ![s] = c]
    BY <1>1, NoneAssumption DEF StoreInv, Store!Publish
  <2>2. \A t \in Stamp : Stored[t] \in (Capture \ Active) \cup {None}
    BY DEF StoreInv, Store!OneEach
  <2>3. \A t \in Stamp : Stored'[t] = IF t = s THEN c ELSE Stored[t]
    BY <2>1 DEF StoreInv
  <2> HIDE DEF Active, Stored
  <2>4. Stored' \in [Stamp -> Capture \cup {None}] /\ Active' \subseteq Capture
    BY <2>1 DEF StoreInv
  <2>5. \A t \in Stamp : Stored'[t] \in (Capture \ Active') \cup {None}
    BY <1>1, <2>1, <2>2, <2>3
  <2>6. \A t, u \in Stamp : Stored[t] = Stored[u] => t = u \/ Stored[t] = None
    BY DEF StoreInv, Store!OneEach, Stored
  <2>7. \A t, u \in Stamp : Stored'[t] = Stored'[u] => t = u \/ Stored'[t] = None
    BY <1>1, <2>1, <2>2, <2>3, <2>6
  <2> QED
    BY <2>4, <2>5, <2>7 DEF StoreInv, Store!OneEach, Active, Stored
<1>2. ASSUME NEW c \in Active, Store!GiveUp(c)
      PROVE  StoreInv'
  BY <1>2 DEF StoreInv, Store!OneEach, Store!GiveUp
<1>3. ASSUME NEW c \in Capture, Store!Announce(c)
      PROVE  StoreInv'
  BY <1>3 DEF StoreInv, Store!OneEach, Store!Announce
<1>4. CASE Store!PowerFailure
  BY <1>4 DEF StoreInv, Store!OneEach, Store!PowerFailure
<1>5. CASE UNCHANGED Store!vars
  BY <1>5 DEF StoreInv, Store!OneEach, Store!vars
<1> QED
  BY <1>1, <1>2, <1>3, <1>4, <1>5 DEF Store!Next

\* A run of the script has one snapshot at most, and none as long as it may still
\* publish, whatever is killed and whenever the power fails: the promise of
\* SnapshotStore entails it.
THEOREM OneSnapshotEach == Spec => []Store!OneEach
<1>1. Store!Init => StoreInv
  BY DEF Store!Init, StoreInv, Store!OneEach, Active, Stored
<1>2. StoreInv /\ [Store!Next]_(Store!vars) => StoreInv'
  BY StoreKept
<1>3. StoreInv => Store!OneEach
  BY DEF StoreInv
<1>4. Store!Spec => []Store!OneEach
  BY <1>1, <1>2, <1>3, PTL DEF Store!Spec
<1> QED
  BY <1>4, CapturesPublishAtomically, PTL DEF PublishedAtomically
=============================================================================
