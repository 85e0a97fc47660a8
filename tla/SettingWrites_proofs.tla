------------------------ MODULE SettingWrites_proofs ------------------------
(***************************************************************************)
(* What a restore guarantees whatever the settings, the snapshot and the   *)
(* number of writes and restores that run at once.                         *)
(***************************************************************************)
EXTENDS SettingWrites, ChangeDetector_proofs

-----------------------------------------------------------------------------
(* Lemmas about the operators. *)

\* The loops of a restore take an index that is left.
LEMMA FirstType ==
  ASSUME NEW S, S # {}
  PROVE  First(S) \in S
  BY DEF First

\* A parameter of a snapshot has a name and a value.
LEMMA SnapshotParam ==
  ASSUME NEW s \in Snapshot
  PROVE  /\ DOMAIN s \in SUBSET Index
         /\ \A i \in DOMAIN s : s[i].name \in Name /\ s[i].value \in Value
  BY DEF Snapshot

LEMMA MenuParam ==
  ASSUME NEW m \in Menu
  PROVE  /\ DOMAIN m \in SUBSET Index
         /\ \A i \in DOMAIN m : m[i].name \in Name /\ m[i].value \in Value
  BY DEF Menu, Param

\* A backup saves a snapshot.
LEMMA SavedType ==
  ASSUME NEW m \in Menu
  PROVE  Saved(m) \in [state : {"absent", "saved", "broken"}, params : Snapshot]
<1> DEFINE I == {j \in DOMAIN m : m[j].writable # {}}
           f == [i \in I |-> [name |-> m[i].name, value |-> m[i].value]]
<1>1. I \in SUBSET Index
  BY MenuParam
<1>2. f \in [I -> [name : Name, value : Value]]
  BY MenuParam
<1>3. f \in Snapshot
  BY <1>1, <1>2 DEF Snapshot
<1> QED
  BY <1>3 DEF Saved

\* What differs from the snapshot is part of it.
LEMMA DifferingType ==
  ASSUME NEW s, NEW m
  PROVE  Differing(s, m) \in SUBSET DOMAIN s
  BY DEF Differing

-----------------------------------------------------------------------------
(* The restore's counts. *)

\* The indices that a restore has still to mark or to write are in its file,
\* and those that it has to write are either left, acknowledged or failed.
Sound(r) ==
  /\ r.todo \in SUBSET DOMAIN r.saved
  /\ r.differing \in SUBSET DOMAIN r.saved
  /\ r.acked \in SUBSET r.done
  /\ r.pc \in {"marking", "reading"} => r.differing = {}
  /\ r.pc # "writing" => r.acked = {} /\ r.failed = {}
  /\ r.pc = "writing" => /\ r.todo # {}
                         /\ r.todo \cup r.acked \cup r.failed = r.differing
                         /\ r.acked \cap r.failed = {}
                         /\ r.todo \cap (r.acked \cup r.failed) = {}

AllSound(rs) == rs \in SUBSET Restore /\ \A r \in rs : Sound(r)

IInv == TypeOK /\ AllSound(restores)

Notice == [title : Titles, restored : SUBSET Index, failed : SUBSET Index]

LEMMA NoNoticeType == NoNotice \in Notice
  BY DEF NoNotice, Notice, Titles

\* The history of a restore plays no part in it.
LEMMA DisturbedSound ==
  ASSUME NEW rs, AllSound(rs)
  PROVE  AllSound(Disturbed(rs))
<1>1. \A r \in Restore : Sound(r) =>
        [r EXCEPT !.quiet = FALSE] \in Restore /\ Sound([r EXCEPT !.quiet = FALSE])
  BY DEF Restore, Sound
<1> QED
  BY <1>1 DEF AllSound, Disturbed

LEMMA KeepSound ==
  ASSUME IInv, NEW r, NEW r2 \in Restore, Sound(r2), Keep(r, r2)
  PROVE  AllSound(restores') /\ notice' \in Notice
  BY NoNoticeType DEF IInv, AllSound, Keep

LEMMA PostSound ==
  ASSUME IInv, NEW r, NEW title \in Titles, NEW ok \in SUBSET Index, NEW bad \in SUBSET Index,
         Post(r, title, ok, bad)
  PROVE  AllSound(restores') /\ notice' \in Notice
  BY DEF IInv, AllSound, Post, Notice

\* A call that has marked its writes goes on to read the settings or ends.
LEMMA ReadSnapshotSound ==
  ASSUME IInv, NEW r \in Restore, Sound(r), r.pc = "marking", ReadSnapshot(r)
  PROVE  AllSound(restores') /\ notice' \in Notice /\ unclear' \in SUBSET Name
<1>0. unclear' \in SUBSET Name
  <2>1. Unmarked(r) \in SUBSET Name
    BY SnapshotParam DEF Unmarked, NamesIn, IInv, TypeOK
  <2> QED
    BY <2>1 DEF ReadSnapshot, IInv, TypeOK
<1>1. CASE file.state = "saved"
  <2> DEFINE r2 == [r EXCEPT !.pc = "reading", !.saved = file.params, !.todo = {}]
  <2>1. file.params \in Snapshot
    BY DEF IInv, TypeOK
  <2>2. r2 \in Restore /\ Sound(r2)
    BY <2>1 DEF Restore, Sound
  <2>3. Keep(r, r2)
    BY <1>1 DEF ReadSnapshot
  <2> HIDE DEF r2
  <2> QED
    BY <1>0, <2>2, <2>3, KeepSound
<1>2. CASE file.state # "saved"
  <2>1. Post(r, "impossible", {}, {})
    BY <1>2 DEF ReadSnapshot
  <2>2. "impossible" \in Titles /\ {} \in SUBSET Index
    BY DEF Titles
  <2> QED
    BY <1>0, <2>1, <2>2, PostSound
<1> QED
  BY <1>1, <1>2

LEMMA MarkNextSound ==
  ASSUME IInv, NEW r \in Restore, Sound(r), r.pc = "marking", MarkNext(r)
  PROVE  /\ AllSound(restores') /\ notice' \in Notice
         /\ selfWrites' \in SUBSET Name /\ unclear' \in SUBSET Name
<1>0. selfWrites \in SUBSET Name /\ unclear \in SUBSET Name
  BY DEF IInv, TypeOK, DetectorTypeOK
<1>1. CASE r.todo = {}
  BY <1>0, <1>1, ReadSnapshotSound DEF MarkNext
<1>2. CASE r.todo # {}
  <2> DEFINE i == First(r.todo)
             r2 == [r EXCEPT !.todo = r.todo \ {i}]
             n == r.saved[i].name
  <2>1. i \in DOMAIN r.saved
    BY <1>2, FirstType DEF Sound
  <2>2. n \in Name
    BY <2>1, SnapshotParam DEF Restore
  <2>3. /\ Keep(r, r2)
        /\ selfWrites' \in {selfWrites, selfWrites \cup {n}}
        /\ unclear' \in {unclear, unclear \cup {n}}
    BY <1>2 DEF MarkNext
  <2>4. r2 \in Restore /\ Sound(r2)
    BY DEF Restore, Sound
  <2> HIDE DEF r2, n
  <2> QED
    BY <1>0, <2>2, <2>3, <2>4, KeepSound
<1> QED
  BY <1>1, <1>2

\* A write counts its index once, among the acknowledged ones or the failed ones.
LEMMA CountedSound ==
  ASSUME NEW r \in Restore, Sound(r), r.pc = "writing", NEW ok \in BOOLEAN,
         ok => First(r.todo) \in r.done
  PROVE  LET r2 == Counted(r, ok)
         IN  /\ r2 \in Restore
             /\ r2.todo # {} => Sound(r2)
             /\ r2.todo = {} => r2.acked \cup r2.failed = r.differing
             /\ r2.acked \cap r2.failed = {}
             /\ r2.acked \in SUBSET r.done
             /\ r2.acked \in SUBSET Index /\ r2.failed \in SUBSET Index
<1> DEFINE i == First(r.todo)
           r2 == Counted(r, ok)
<1>1. i \in r.todo
  BY FirstType DEF Sound
<1>2. i \in Index
  BY <1>1, SnapshotParam DEF Sound, Restore
<1>3. /\ r2.todo = r.todo \ {i}
      /\ r2.acked = IF ok THEN r.acked \cup {i} ELSE r.acked
      /\ r2.failed = IF ok THEN r.failed ELSE r.failed \cup {i}
      /\ r2.pc = "writing" /\ r2.saved = r.saved /\ r2.differing = r.differing
      /\ r2.done = r.done
  BY DEF Counted, Restore
<1>4. r2 \in Restore
  BY <1>2 DEF Counted, Restore
<1>5. r2.acked \in SUBSET Index /\ r2.failed \in SUBSET Index
  BY <1>4 DEF Restore
<1> HIDE DEF r2, i
<1> QED
  BY <1>1, <1>3, <1>4, <1>5 DEF Sound, r2, i

LEMMA NewRestoreSound ==
  ASSUME TypeOK, NEW id \in RestoreId
  PROVE  NewRestore(id) \in Restore /\ Sound(NewRestore(id)) /\ NewRestore(id).pc = "marking"
<1>1. file.params \in Snapshot /\ DOMAIN file.params \in SUBSET Index /\ safe \in BOOLEAN
  BY SnapshotParam DEF TypeOK
<1> QED
  BY <1>1 DEF NewRestore, Restore, Sound

-----------------------------------------------------------------------------
(* The restore's actions. *)

LEMMA RestoreCallSound ==
  ASSUME IInv, NEW id \in RestoreId, RestoreCall(id)
  PROVE  IInv'
<1> DEFINE r == NewRestore(id)
<1>1. r \in Restore /\ Sound(r) /\ r.pc = "marking"
  BY NewRestoreSound DEF IInv
<1>2. selfWrites \in SUBSET Name /\ unclear \in SUBSET Name
  BY DEF IInv, TypeOK, DetectorTypeOK
<1> HIDE DEF r
<1>3. /\ AllSound(restores') /\ notice' \in Notice
      /\ selfWrites' \in SUBSET Name /\ unclear' \in SUBSET Name
  <2>1. CASE safe \/ file.state = "absent"
    <3>1. ReadSnapshot(r) /\ UNCHANGED selfWrites
      BY <2>1 DEF RestoreCall, r
    <3> QED
      BY <1>1, <1>2, <3>1, ReadSnapshotSound
  <2>2. CASE ~safe /\ file.state = "saved"
    <3>1. MarkNext(r)
      BY <2>2 DEF RestoreCall, r
    <3> QED
      BY <1>1, <3>1, MarkNextSound
  <2>3. CASE ~safe /\ file.state = "broken"
    BY <1>2, <2>3, NoNoticeType DEF RestoreCall, IInv
  <2>4. file.state \in {"absent", "saved", "broken"}
    BY DEF IInv, TypeOK
  <2> QED
    BY <2>1, <2>2, <2>3, <2>4
<1> QED
  BY <1>3 DEF RestoreCall, IInv, TypeOK, DetectorTypeOK, envVars, pollVars, AllSound, Notice

LEMMA RestoreMarkedSound ==
  ASSUME IInv, NEW r, RestoreMarked(r)
  PROVE  IInv'
<1>1. r \in Restore /\ Sound(r) /\ r.pc = "marking" /\ MarkNext(r)
  BY DEF RestoreMarked, IInv, AllSound
<1>2. /\ AllSound(restores') /\ notice' \in Notice
      /\ selfWrites' \in SUBSET Name /\ unclear' \in SUBSET Name
  BY <1>1, MarkNextSound
<1> QED
  BY <1>2 DEF RestoreMarked, IInv, TypeOK, DetectorTypeOK, envVars, pollVars, AllSound, Notice

LEMMA RestoreAnsweredSound ==
  ASSUME IInv, NEW r, RestoreAnswered(r)
  PROVE  AllSound(restores') /\ notice' \in Notice
<1> DEFINE D == Differing(r.saved, controller)
           r2 == [r EXCEPT !.pc = "read", !.differing = D, !.quiet = TRUE]
<1>1. r \in Restore /\ Sound(r) /\ r.pc = "reading"
  BY DEF RestoreAnswered, IInv, AllSound
<1>2. D \in SUBSET DOMAIN r.saved
  BY DifferingType
<1>3. r.saved \in Snapshot
  BY <1>1 DEF Restore
<1>4. D \in SUBSET Index
  BY <1>2, <1>3, SnapshotParam
<1>5. Keep(r, r2)
  BY DEF RestoreAnswered
<1> HIDE DEF D
<1>6. r2 \in Restore /\ Sound(r2)
  BY <1>1, <1>2, <1>4 DEF Restore, Sound
<1> HIDE DEF r2
<1> QED
  BY <1>5, <1>6, KeepSound

LEMMA RestoreReadSound ==
  ASSUME IInv, NEW r, RestoreRead(r)
  PROVE  AllSound(restores') /\ notice' \in Notice
<1> DEFINE r2 == [r EXCEPT !.pc = "writing", !.todo = r.differing]
<1>1. r \in Restore /\ Sound(r) /\ r.pc = "read"
  BY DEF RestoreRead, IInv, AllSound
<1>2. "nothing" \in Titles /\ "preview" \in Titles /\ {} \in SUBSET Index
  BY DEF Titles
<1>3. CASE r.differing = {}
  <2>1. Post(r, "nothing", {}, {})
    BY <1>3 DEF RestoreRead
  <2> QED
    BY <1>2, <2>1, PostSound
<1>4. CASE r.differing # {} /\ r.safe
  <2>1. Post(r, "preview", {}, {})
    BY <1>4 DEF RestoreRead
  <2> QED
    BY <1>2, <2>1, PostSound
<1>5. CASE r.differing # {} /\ ~r.safe
  <2>1. Keep(r, r2)
    BY <1>5 DEF RestoreRead
  <2>2. r2 \in Restore
    BY <1>1 DEF Restore
  <2>3. Sound(r2)
    BY <1>1, <1>5 DEF Restore, Sound
  <2> HIDE DEF r2
  <2> QED
    BY <2>1, <2>2, <2>3, KeepSound
<1>6. r.safe \in BOOLEAN
  BY <1>1 DEF Restore
<1> QED
  BY <1>3, <1>4, <1>5, <1>6

LEMMA RestoreUnreadSound ==
  ASSUME IInv, NEW r, RestoreUnread(r)
  PROVE  AllSound(restores') /\ notice' \in Notice
<1>1. "unread" \in Titles /\ {} \in SUBSET Index
  BY DEF Titles
<1>2. Post(r, "unread", {}, {})
  BY DEF RestoreUnread
<1> QED
  BY <1>1, <1>2, PostSound

LEMMA RestoreObeyedSound ==
  ASSUME IInv, NEW r, RestoreObeyed(r)
  PROVE  /\ AllSound(restores') /\ notice' \in Notice /\ controller' \in Menu
<1> DEFINE i == First(r.todo)
           r2 == [r EXCEPT !.done = @ \cup {First(r.todo)}]
<1>1. r \in Restore /\ Sound(r) /\ r.pc = "writing"
  BY DEF RestoreObeyed, IInv, AllSound
<1>2. i \in DOMAIN r.saved
  BY <1>1, FirstType DEF Sound
<1>3. i \in Index /\ r.saved[i].name \in Name /\ r.saved[i].value \in Value
  BY <1>1, <1>2, SnapshotParam DEF Restore
<1>4. controller' = Assign(controller, r.saved[i].name, r.saved[i].value)
  BY DEF RestoreObeyed
<1>5. controller' \in Menu
  BY <1>3, <1>4, AssignType DEF IInv, TypeOK
<1>6. r2 \in Restore /\ Sound(r2)
  BY <1>1, <1>3 DEF Restore, Sound
<1>7. restores' = Disturbed(restores \ {r}) \cup {r2} /\ notice' = NoNotice
  BY DEF RestoreObeyed
<1>8. AllSound(Disturbed(restores \ {r}))
  <2>1. AllSound(restores \ {r})
    BY DEF IInv, AllSound
  <2> QED
    BY <2>1, DisturbedSound
<1> HIDE DEF r2
<1>9. AllSound(restores')
  BY <1>6, <1>7, <1>8 DEF AllSound
<1> QED
  BY <1>5, <1>7, <1>9, NoNoticeType

\* A write of a restore is over: what is counted is what there was to write.
LEMMA RestoreWrittenSound ==
  ASSUME IInv, NEW r, RestoreWritten(r)
  PROVE  /\ AllSound(restores') /\ notice' \in Notice
         /\ \/ notice' = NoNotice
            \/ /\ restores' = restores \ {r}
               /\ notice'.restored \cup notice'.failed = r.differing
               /\ notice'.restored \cap notice'.failed = {}
               /\ notice'.restored \subseteq r.done
               /\ notice'.title = "complete" <=> notice'.failed = {}
<1>1. r \in Restore /\ Sound(r) /\ r.pc = "writing"
  BY DEF RestoreWritten, IInv, AllSound
<1>2. PICK ok \in BOOLEAN : (ok => First(r.todo) \in r.done) /\ NextWrite(r, Counted(r, ok))
  BY DEF RestoreWritten
<1> DEFINE r2 == Counted(r, ok)
<1>3. /\ r2 \in Restore
      /\ r2.todo # {} => Sound(r2)
      /\ r2.todo = {} => r2.acked \cup r2.failed = r.differing
      /\ r2.acked \cap r2.failed = {}
      /\ r2.acked \in SUBSET r.done
      /\ r2.acked \in SUBSET Index /\ r2.failed \in SUBSET Index
  BY <1>1, <1>2, CountedSound
<1>4. NextWrite(r, r2)
  BY <1>2
<1> HIDE DEF r2
<1>5. CASE r2.todo # {}
  <2>1. Keep(r, r2)
    BY <1>4, <1>5 DEF NextWrite
  <2>2. notice' = NoNotice
    BY <2>1 DEF Keep
  <2> QED
    BY <1>3, <1>5, <2>1, <2>2, KeepSound
<1>6. CASE r2.todo = {}
  <2> DEFINE title == IF r2.failed = {} THEN "complete" ELSE "failed"
  <2>1. Post(r, title, r2.acked, r2.failed)
    BY <1>4, <1>6 DEF NextWrite
  <2>2. title \in Titles /\ (title = "complete" <=> r2.failed = {})
    BY DEF Titles
  <2> HIDE DEF title
  <2>3. /\ restores' = restores \ {r}
        /\ notice' = [title |-> title, restored |-> r2.acked, failed |-> r2.failed]
    BY <2>1 DEF Post
  <2> QED
    BY <1>3, <1>6, <2>1, <2>2, <2>3, PostSound
<1> QED
  BY <1>5, <1>6

-----------------------------------------------------------------------------
(* The other actions. *)

LEMMA GuestChangeSound ==
  ASSUME IInv, NEW i \in Index, NEW v \in Value, GuestChange(i, v)
  PROVE  IInv'
<1>1. controller \in Menu /\ i \in DOMAIN controller
  BY DEF IInv, TypeOK, GuestChange
<1>2. PICK I \in SUBSET Index : controller \in [I -> Param]
  BY <1>1 DEF Menu
<1>3. controller' \in [I -> Param] /\ controller[i].name \in Name
  BY <1>1, <1>2 DEF GuestChange, Param
<1>4. controller' \in Menu
  BY <1>3 DEF Menu
<1>5. AllSound(restores')
  BY DisturbedSound DEF IInv, GuestChange
<1>6. notice' \in Notice /\ guestChanges' \in Nat /\ unclear' \in SUBSET Name
  BY <1>3, NoNoticeType DEF IInv, TypeOK, GuestChange
<1> QED
  BY <1>4, <1>5, <1>6 DEF IInv, TypeOK, DetectorTypeOK, GuestChange, detectorVars, pollVars,
     AllSound, Notice

LEMMA PollSound ==
  ASSUME IInv, ChangeOptions \/ PollRead \/ PollReturn \/ PollFailed
  PROVE  IInv'
<1>1. poll.data \in Menu /\ DetectorTypeOK
  BY DEF IInv, TypeOK
<1>2. IdlePoll \in [busy : BOOLEAN, data : Menu]
  BY NothingType DEF IdlePoll
<1> USE NoNoticeType DEF IInv, TypeOK, envVars, pollVars, jobVars, AllSound, Notice
<1>3. CASE ChangeOptions
  BY <1>3 DEF ChangeOptions, DetectorTypeOK, detectorVars
<1>4. CASE PollRead
  BY <1>4 DEF PollRead, DetectorTypeOK, detectorVars
<1>5. CASE PollReturn
  <2>1. DetectorTypeOK'
    BY <1>1, <1>5, ProcessType DEF PollReturn
  <2> QED
    BY <1>1, <1>2, <1>5, <2>1 DEF PollReturn
<1>6. CASE PollFailed
  BY <1>2, <1>6 DEF PollFailed, DetectorTypeOK, detectorVars
<1> QED
  BY <1>3, <1>4, <1>5, <1>6

LEMMA ReloadSound ==
  ASSUME IInv, Reload \/ Restart
  PROVE  IInv'
<1>1. IdlePoll \in [busy : BOOLEAN, data : Menu]
  BY NothingType DEF IdlePoll
<1>2. controller \in Menu /\ Extract(controller) \in Snapshot
  BY ExtractType DEF IInv, TypeOK
<1>3. CASE Reload
  <2>1. AllSound(restores')
    <3>1. \A r \in Restore : Sound(r) =>
            [r EXCEPT !.live = FALSE] \in Restore /\ Sound([r EXCEPT !.live = FALSE])
      BY DEF Restore, Sound
    <3> QED
      BY <1>3, <3>1 DEF Reload, IInv, AllSound
  <2>2. writes' \in SUBSET Write
    <3>1. \A w \in Write : [w EXCEPT !.live = FALSE] \in Write
      BY DEF Write
    <3> QED
      BY <1>3, <3>1 DEF Reload, IInv, TypeOK
  <2>3. InFlight \in SUBSET Name
    <3>1. \A r \in Restore : NamesIn(r.saved) \in SUBSET Name
      BY SnapshotParam DEF NamesIn, Restore
    <3> QED
      BY <3>1 DEF InFlight, IInv, TypeOK, Write
  <2> QED
    BY <1>1, <1>2, <1>3, <2>1, <2>2, <2>3, NoNoticeType
       DEF Reload, IInv, TypeOK, DetectorTypeOK, AllSound, Notice
<1>4. CASE Restart
  BY <1>1, <1>2, <1>4, NoNoticeType
     DEF Restart, IInv, TypeOK, DetectorTypeOK, AllSound, Notice
<1> QED
  BY <1>3, <1>4

LEMMA BeginWriteSound ==
  ASSUME IInv, NEW id \in WriteId, NEW n \in Name, NEW v \in Value,
         BeginWrite(id, n, v)
  PROVE  IInv'
<1>1. [id |-> id, name |-> n, value |-> v, live |-> TRUE, obeyed |-> FALSE]
         \in Write
  BY DEF Write
<1> QED
  BY <1>1, NoNoticeType DEF BeginWrite, IInv, TypeOK, DetectorTypeOK, envVars, pollVars,
     AllSound, Notice

LEMMA EntitySound ==
  ASSUME IInv, EntityStep
  PROVE  IInv'
<1>1. ASSUME NEW id \in WriteId, NEW n \in Name, NEW v \in Value, SetValue(id, n, v)
      PROVE  IInv'
  <2>1. BeginWrite(id, n, v)
    BY <1>1 DEF SetValue
  <2> QED
    BY <2>1, BeginWriteSound
<1>2. ASSUME NEW id \in WriteId, NEW t \in Toggles, NEW on \in BOOLEAN, Toggle(id, t, on)
      PROVE  IInv'
  <2> DEFINE v == BitmaskFor(slowData[MaskIndex].value, t, on)
  <2>1. slowData[MaskIndex].value \in Value
    BY <1>2, MenuParam DEF Toggle, IInv, TypeOK
  <2>2. v \in Value
    BY <2>1, ValueAssumption, TogglesAssumption DEF BitmaskFor
  <2>3. BeginWrite(id, MaskName, v)
    BY <1>2 DEF Toggle
  <2> HIDE DEF v
  <2> QED
    BY <2>2, <2>3, BeginWriteSound, MaskAssumption
<1>3. ASSUME NEW w \in writes, WriteObeyed(w)
      PROVE  IInv'
  <2>1. w \in Write /\ controller \in Menu
    BY DEF IInv, TypeOK
  <2>2. [w EXCEPT !.obeyed = TRUE] \in Write
    BY <2>1 DEF Write
  <2>3. controller' \in Menu
    BY <1>3, <2>1, AssignType DEF WriteObeyed, Write
  <2>4. AllSound(restores')
    BY <1>3, DisturbedSound DEF WriteObeyed, IInv
  <2> QED
    BY <1>3, <2>2, <2>3, <2>4, NoNoticeType DEF WriteObeyed, IInv, TypeOK, DetectorTypeOK,
       detectorVars, pollVars, AllSound, Notice
<1>4. ASSUME NEW w \in writes, WriteAcknowledged(w)
      PROVE  IInv'
  BY <1>4, NoNoticeType DEF WriteAcknowledged, IInv, TypeOK, DetectorTypeOK, detectorVars,
     envVars, pollVars, AllSound, Notice
<1>5. ASSUME NEW w \in writes, WriteFailed(w)
      PROVE  IInv'
  <2>1. w.name \in Name
    BY DEF IInv, TypeOK, Write
  <2>2. selfWrites' \in SUBSET Name /\ unclear' \in SUBSET Name
    BY <1>5, <2>1 DEF WriteFailed, IInv, TypeOK, DetectorTypeOK
  <2> QED
    BY <1>5, <2>2, NoNoticeType DEF WriteFailed, IInv, TypeOK, DetectorTypeOK,
       envVars, pollVars, AllSound, Notice
<1> QED
  BY <1>1, <1>2, <1>3, <1>4, <1>5 DEF EntityStep

LEMMA BackupSound ==
  ASSUME IInv, BackupSettings
  PROVE  IInv'
<1>1. Saved(controller) \in [state : {"absent", "saved", "broken"}, params : Snapshot]
  BY SavedType DEF IInv, TypeOK
<1>2. Broken \in [state : {"absent", "saved", "broken"}, params : Snapshot]
  BY NothingType DEF Broken
<1> QED
  BY <1>1, <1>2, NoNoticeType DEF BackupSettings, IInv, TypeOK, DetectorTypeOK, detectorVars,
     envVars, pollVars, jobVars, AllSound, Notice

LEMMA RestoreStepSound ==
  ASSUME IInv, RestoreStep
  PROVE  IInv'
<1> USE DEF IInv, TypeOK, DetectorTypeOK, detectorVars, envVars, pollVars, AllSound, Notice
<1>1. ASSUME NEW id \in RestoreId, RestoreCall(id) PROVE IInv'
  BY <1>1, RestoreCallSound
<1>2. ASSUME NEW r \in restores, RestoreMarked(r) PROVE IInv'
  BY <1>2, RestoreMarkedSound
<1>3. ASSUME NEW r \in restores, RestoreAnswered(r) PROVE IInv'
  BY <1>3, RestoreAnsweredSound DEF RestoreAnswered
<1>4. ASSUME NEW r \in restores, RestoreRead(r) PROVE IInv'
  BY <1>4, RestoreReadSound DEF RestoreRead
<1>5. ASSUME NEW r \in restores, RestoreUnread(r) PROVE IInv'
  BY <1>5, RestoreUnreadSound DEF RestoreUnread
<1>6. ASSUME NEW r \in restores, RestoreObeyed(r) PROVE IInv'
  BY <1>6, RestoreObeyedSound DEF RestoreObeyed
<1>7. ASSUME NEW r \in restores, RestoreWritten(r) PROVE IInv'
  BY <1>7, RestoreWrittenSound DEF RestoreWritten
<1> QED
  BY <1>1, <1>2, <1>3, <1>4, <1>5, <1>6, <1>7 DEF RestoreStep

LEMMA InitSound ==
  ASSUME Init
  PROVE  IInv
<1>1. controller \in Menu /\ Extract(controller) \in Snapshot
  BY ExtractType, MenusAssumption DEF Init
<1>2. IdlePoll \in [busy : BOOLEAN, data : Menu]
  BY NothingType DEF IdlePoll
<1>3. file \in [state : {"absent", "saved", "broken"}, params : Snapshot]
  <2>1. \A m \in Menus : Saved(m) \in [state : {"absent", "saved", "broken"}, params : Snapshot]
    BY SavedType, MenusAssumption
  <2> QED
    BY <2>1, NothingType DEF Init
<1> QED
  BY <1>1, <1>2, <1>3, NoNoticeType DEF Init, IInv, TypeOK, DetectorTypeOK, AllSound, Notice

LEMMA StepSound ==
  ASSUME IInv, [Next]_vars
  PROVE  IInv'
<1>1. CASE Next
  BY <1>1, GuestChangeSound, PollSound, ReloadSound, EntitySound, RestoreStepSound, BackupSound
     DEF Next
<1>2. CASE UNCHANGED vars
  BY <1>2 DEF vars, IInv, TypeOK, DetectorTypeOK, detectorVars, envVars, pollVars, jobVars,
     AllSound
<1> QED
  BY <1>1, <1>2

-----------------------------------------------------------------------------
(* Theorems. *)

LEMMA IInvAlways == Spec => []IInv
<1>1. Init => IInv
  BY InitSound
<1>2. IInv /\ [Next]_vars => IInv'
  BY StepSound
<1> QED
  BY <1>1, <1>2, PTL DEF Spec

\* The program's variables keep their types: in particular what a toggle
\* writes is a mask, and what a restore has still to do is in its file.
THEOREM SettingsTyped == Spec => []TypeOK
<1>1. IInv => TypeOK
  BY DEF IInv
<1> QED
  BY <1>1, IInvAlways, PTL

\* Only a restore that posts its notification ends in a step that posts one.
LEMMA SummarisedWrites ==
  ASSUME IInv, [Next]_vars, NEW r \in Summarised
  PROVE  RestoreWritten(r)
<1>1. r \in restores /\ r.pc = "writing" /\ notice' # NoNotice /\ r \notin restores'
  BY DEF Summarised
<1>2. Next
  BY <1>1 DEF vars, jobVars
<1>3. RestoreStep
  BY <1>1, <1>2 DEF Next, GuestChange, ChangeOptions, PollRead, PollReturn, PollFailed, Reload,
     Restart, EntityStep, SetValue, Toggle, BeginWrite, WriteObeyed, WriteAcknowledged,
     WriteFailed, BackupSettings
<1>4. ASSUME NEW s, s.pc # "writing" \/ s \notin restores, restores' = restores \ {s}
      PROVE  FALSE
  BY <1>1, <1>4
<1>5. ASSUME NEW id \in RestoreId, RestoreCall(id)
      PROVE  FALSE
  <2> DEFINE s == NewRestore(id)
  <2>1. s.pc = "marking"
    BY DEF NewRestore
  <2> HIDE DEF s
  <2>2. ReadSnapshot(s) => notice' = NoNotice \/ restores' = restores \ {s}
    BY DEF ReadSnapshot, Keep, Post
  <2>3. ReadSnapshot(s) \/ MarkNext(s) \/ notice' = NoNotice
    <3>1. safe \in BOOLEAN /\ file.state \in {"absent", "saved", "broken"}
      BY DEF IInv, TypeOK
    <3> QED
      BY <1>5, <3>1 DEF RestoreCall, s
  <2>4. MarkNext(s) => ReadSnapshot(s) \/ notice' = NoNotice
    BY DEF MarkNext, Keep
  <2> QED
    BY <1>1, <1>4, <2>1, <2>2, <2>3, <2>4
<1>6. ASSUME NEW s \in restores, RestoreMarked(s)
      PROVE  FALSE
  <2>1. s.pc = "marking" /\ (notice' = NoNotice \/ restores' = restores \ {s})
    BY <1>6 DEF RestoreMarked, MarkNext, ReadSnapshot, Keep, Post
  <2> QED
    BY <1>1, <1>4, <2>1
<1>7. ASSUME NEW s \in restores, RestoreAnswered(s) \/ RestoreObeyed(s)
      PROVE  FALSE
  BY <1>1, <1>7 DEF RestoreAnswered, RestoreObeyed, Keep
<1>8. ASSUME NEW s \in restores, RestoreRead(s)
      PROVE  FALSE
  <2>1. s.pc = "read" /\ s \in Restore
    BY <1>8 DEF RestoreRead, IInv, TypeOK
  <2>2. s.safe \in BOOLEAN
    BY <2>1 DEF Restore
  <2>3. notice' = NoNotice \/ restores' = restores \ {s}
    BY <1>8, <2>2 DEF RestoreRead, Keep, Post
  <2> QED
    BY <1>1, <1>4, <2>1, <2>3
<1>9. ASSUME NEW s \in restores, RestoreUnread(s)
      PROVE  FALSE
  <2>1. s.pc = "reading" /\ restores' = restores \ {s}
    BY <1>9 DEF RestoreUnread, Post
  <2> QED
    BY <1>4, <2>1
<1>10. ASSUME NEW s \in restores, RestoreWritten(s)
       PROVE  RestoreWritten(r)
  <2>1. restores' = restores \ {s}
    BY <1>1, <1>10, RestoreWrittenSound
  <2>2. s = r
    BY <1>1, <2>1
  <2> QED
    BY <1>10, <2>2
<1> QED
  BY <1>3, <1>5, <1>6, <1>7, <1>8, <1>9, <1>10 DEF RestoreStep

\* Whatever fails among its writes, a restore tries each of them, and its
\* summary counts each once, as restored only if the controller took it.
THEOREM RestoresAreCounted == Spec => RestoreTriesEverything
<1>1. IInv /\ [Next]_vars => [\A r \in Summarised : Tallied(r)]_vars
  BY SummarisedWrites, RestoreWrittenSound DEF Summarised, Tallied
<1> QED
  BY <1>1, IInvAlways, PTL DEF Spec, RestoreTriesEverything

-----------------------------------------------------------------------------
(* A restore that reports success has restored the snapshot.  It compares  *)
(* once and by index, and writes by name, one setting after the other: the *)
(* invariant says that at every moment the settings it found right and     *)
(* those it has set are right, unless somebody else has changed one.       *)

\* Every setting of s has the name it has in some menu.
Named(s) == \A i \in DOMAIN s : \E m \in Menus : i \in DOMAIN m /\ m[i].name = s[i].name

\* Setting i of r's snapshot is right in data.
Restored(r, i, data) == i \in DOMAIN data /\ data[i].value = r.saved[i].value

\* What r did not have to write or has written is right.
Kept(r, data) ==
    \A i \in DOMAIN r.saved :
        r.saved[i].name \notin Volatile /\ (i \in r.differing => i \in r.done)
            => Restored(r, i, data)

Faithful(r, data) ==
    /\ Named(r.saved)
    /\ r.pc # "writing" => r.done = {}
    /\ r.quiet /\ r.pc \in {"read", "writing"} => Kept(r, data)

CInv ==
    /\ IInv
    /\ Named(controller) /\ Named(file.params)
    /\ \A r \in restores : Faithful(r, controller)

-----------------------------------------------------------------------------
(* Lemmas about names. *)

\* The same name is at the same index.
LEMMA SameIndex ==
  ASSUME NEW s, NEW t, Named(s), Named(t), NEW i \in DOMAIN s, NEW j \in DOMAIN t,
         s[i].name = t[j].name
  PROVE  i = j
  BY NamesAssumption DEF Named

LEMMA NothingNamed == Named(Nothing)
  BY DEF Named, Nothing

LEMMA SavedNamed ==
  ASSUME NEW m, Named(m)
  PROVE  Named(Saved(m).params)
  BY DEF Named, Saved

\* The controller keeps the names when it obeys.
LEMMA AssignNamed ==
  ASSUME NEW m \in Menu, Named(m), NEW n, NEW v
  PROVE  Named(Assign(m, n, v))
<1>1. PICK I \in SUBSET Index : m \in [I -> Param]
  BY DEF Menu
<1>2. DOMAIN Assign(m, n, v) = DOMAIN m
  BY DEF Assign
<1>3. \A i \in DOMAIN m : Assign(m, n, v)[i].name = m[i].name
  BY <1>1 DEF Assign, Param
<1> QED
  BY <1>2, <1>3 DEF Named

\* A write that the controller accepts sets its own setting and no other.
LEMMA AssignSetsOne ==
  ASSUME NEW m \in Menu, Named(m), NEW s, Named(s), NEW i \in DOMAIN s,
         NEW k \in DOMAIN m, m[k].name = s[i].name, s[i].value \in m[k].writable
  PROVE  LET new == Assign(m, s[i].name, s[i].value)
         IN  /\ DOMAIN new = DOMAIN m /\ i \in DOMAIN m
             /\ new[i].value = s[i].value
             /\ \A j \in DOMAIN m : j # i => new[j] = m[j]
<1>1. k = i
  BY SameIndex
<1>2. \A j \in DOMAIN m : j # i => m[j].name # s[i].name
  BY SameIndex
<1>3. PICK I \in SUBSET Index : m \in [I -> Param]
  BY DEF Menu
<1>4. m[i] \in Param
  BY <1>1, <1>3
<1>5. [m[i] EXCEPT !.value = s[i].value].value = s[i].value
  BY <1>4 DEF Param
<1> QED
  BY <1>1, <1>2, <1>5 DEF Assign

-----------------------------------------------------------------------------
(* Lemmas about a restore. *)

\* Nothing is claimed of a restore that somebody disturbed.
LEMMA DisturbedFaithful ==
  ASSUME NEW rs, AllSound(rs), NEW old, \A r \in rs : Faithful(r, old), NEW new
  PROVE  \A r \in Disturbed(rs) : Faithful(r, new)
<1>1. \A r \in Restore : LET r2 == [r EXCEPT !.quiet = FALSE]
                        IN  /\ r2.quiet = FALSE /\ r2.pc = r.pc
                            /\ r2.saved = r.saved /\ r2.done = r.done
  BY DEF Restore
<1>2. ASSUME NEW r \in rs
      PROVE  Faithful([r EXCEPT !.quiet = FALSE], new)
  <2> DEFINE r2 == [r EXCEPT !.quiet = FALSE]
  <2>1. r \in Restore /\ Faithful(r, old)
    BY <1>2 DEF AllSound
  <2>2. r2.quiet = FALSE /\ r2.pc = r.pc /\ r2.saved = r.saved /\ r2.done = r.done
    BY <1>1, <2>1
  <2> HIDE DEF r2
  <2>3. Faithful(r2, new)
    BY <2>1, <2>2 DEF Faithful
  <2> QED
    BY <2>3 DEF r2
<1> QED
  BY <1>2 DEF Disturbed

\* The settings that need no write are right when a restore compares them.
LEMMA DifferingKept ==
  ASSUME NEW r, NEW m, r.differing = Differing(r.saved, m), r.done = {}
  PROVE  Kept(r, m)
  BY DEF Kept, Differing, Restored

LEMMA KeepFaithful ==
  ASSUME CInv, NEW r, NEW r2, Faithful(r2, controller), Keep(r, r2), UNCHANGED controller
  PROVE  \A s \in restores' : Faithful(s, controller')
  BY DEF CInv, Keep

LEMMA PostFaithful ==
  ASSUME CInv, NEW r, NEW title, NEW ok, NEW bad, Post(r, title, ok, bad),
         UNCHANGED controller
  PROVE  \A s \in restores' : Faithful(s, controller')
  BY DEF CInv, Post

LEMMA ReadSnapshotFaithful ==
  ASSUME CInv, NEW r \in Restore, r.done = {}, ReadSnapshot(r), UNCHANGED controller
  PROVE  \A s \in restores' : Faithful(s, controller')
<1>1. CASE file.state = "saved"
  <2> DEFINE r2 == [r EXCEPT !.pc = "reading", !.saved = file.params, !.todo = {}]
  <2>1. r2.pc = "reading" /\ r2.saved = file.params /\ r2.done = {}
    BY DEF Restore
  <2>2. Keep(r, r2)
    BY <1>1 DEF ReadSnapshot
  <2> HIDE DEF r2
  <2>3. Faithful(r2, controller)
    BY <2>1 DEF Faithful, CInv
  <2> QED
    BY <2>2, <2>3, KeepFaithful
<1>2. CASE file.state # "saved"
  BY <1>2, PostFaithful DEF ReadSnapshot
<1> QED
  BY <1>1, <1>2

LEMMA MarkNextFaithful ==
  ASSUME CInv, NEW r \in Restore, r.pc = "marking", Faithful(r, controller), MarkNext(r),
         UNCHANGED controller
  PROVE  \A s \in restores' : Faithful(s, controller')
<1>0. r.done = {}
  BY DEF Faithful
<1>1. CASE r.todo = {}
  BY <1>0, <1>1, ReadSnapshotFaithful DEF MarkNext
<1>2. CASE r.todo # {}
  <2> DEFINE r2 == [r EXCEPT !.todo = r.todo \ {First(r.todo)}]
  <2>1. r2.pc = r.pc /\ r2.saved = r.saved /\ r2.done = r.done
    BY DEF Restore
  <2>2. Keep(r, r2)
    BY <1>2 DEF MarkNext
  <2> HIDE DEF r2
  <2>3. Faithful(r2, controller)
    BY <2>1 DEF Faithful
  <2> QED
    BY <2>2, <2>3, KeepFaithful
<1> QED
  BY <1>1, <1>2

LEMMA RestoreCallFaithful ==
  ASSUME CInv, NEW id \in RestoreId, RestoreCall(id)
  PROVE  \A s \in restores' : Faithful(s, controller')
<1> DEFINE r == NewRestore(id)
<1>1. r \in Restore /\ r.pc = "marking"
  BY NewRestoreSound DEF CInv, IInv
<1>2. Faithful(r, controller) /\ r.done = {}
  BY DEF NewRestore, Faithful, CInv
<1>3. UNCHANGED controller
  BY DEF RestoreCall, envVars
<1>4. ReadSnapshot(r) \/ MarkNext(r) \/ UNCHANGED restores
  <2>1. safe \in BOOLEAN /\ file.state \in {"absent", "saved", "broken"}
    BY DEF CInv, IInv, TypeOK
  <2> QED
    BY <2>1 DEF RestoreCall
<1> HIDE DEF r
<1> QED
  BY <1>1, <1>2, <1>3, <1>4, ReadSnapshotFaithful, MarkNextFaithful DEF CInv

LEMMA RestoreAnsweredFaithful ==
  ASSUME CInv, NEW r, RestoreAnswered(r)
  PROVE  \A s \in restores' : Faithful(s, controller')
<1> DEFINE D == Differing(r.saved, controller)
           r2 == [r EXCEPT !.pc = "read", !.differing = D, !.quiet = TRUE]
<1>1. r \in Restore /\ r.pc = "reading" /\ Faithful(r, controller)
  BY DEF RestoreAnswered, CInv, IInv, AllSound
<1>2. Keep(r, r2) /\ UNCHANGED controller
  BY DEF RestoreAnswered, envVars
<1>3. r2.pc = "read" /\ r2.saved = r.saved /\ r2.differing = D /\ r2.done = r.done
  BY <1>1 DEF Restore
<1> HIDE DEF r2
<1>4. Kept(r2, controller) /\ Faithful(r2, controller)
  BY <1>1, <1>3, DifferingKept DEF Faithful
<1> QED
  BY <1>2, <1>4, KeepFaithful

LEMMA RestoreReadFaithful ==
  ASSUME CInv, NEW r, RestoreRead(r)
  PROVE  \A s \in restores' : Faithful(s, controller')
<1> DEFINE r2 == [r EXCEPT !.pc = "writing", !.todo = r.differing]
<1>1. r \in Restore /\ r.pc = "read" /\ Faithful(r, controller)
  BY DEF RestoreRead, CInv, IInv, AllSound
<1>2. UNCHANGED controller
  BY DEF RestoreRead, envVars
<1>3. Keep(r, r2) \/ Post(r, "nothing", {}, {}) \/ Post(r, "preview", {}, {})
  BY <1>1 DEF RestoreRead, Restore
<1>4. r2.pc = "writing" /\ r2.saved = r.saved /\ r2.differing = r.differing
      /\ r2.done = r.done /\ r2.quiet = r.quiet
  BY <1>1 DEF Restore
<1> HIDE DEF r2
<1>5. Faithful(r2, controller)
  BY <1>1, <1>4 DEF Faithful, Kept, Restored
<1> QED
  BY <1>2, <1>3, <1>5, KeepFaithful, PostFaithful

\* The restore whose write is obeyed has one more setting right, and as many as
\* before of the others.
LEMMA RestoreObeyedFaithful ==
  ASSUME CInv, NEW r, RestoreObeyed(r)
  PROVE  /\ \A s \in restores' : Faithful(s, controller')
         /\ Named(controller')
<1> DEFINE i == First(r.todo)
           r2 == [r EXCEPT !.done = @ \cup {First(r.todo)}]
<1>1. r \in Restore /\ Sound(r) /\ r.pc = "writing" /\ Faithful(r, controller)
  BY DEF RestoreObeyed, CInv, IInv, AllSound
<1>2. i \in DOMAIN r.saved
  BY <1>1, FirstType DEF Sound
<1>3. controller \in Menu /\ Named(controller) /\ Named(r.saved)
  BY <1>1 DEF CInv, IInv, TypeOK, Faithful
<1>4. /\ Accepts(r.saved[i].name, r.saved[i].value)
      /\ controller' = Assign(controller, r.saved[i].name, r.saved[i].value)
      /\ restores' = Disturbed(restores \ {r}) \cup {r2}
  BY DEF RestoreObeyed
<1>5. r2.pc = "writing" /\ r2.saved = r.saved /\ r2.differing = r.differing
      /\ r2.done = r.done \cup {i} /\ r2.quiet = r.quiet
  BY <1>1 DEF Restore
<1> HIDE DEF r2, i
<1>6. /\ DOMAIN controller' = DOMAIN controller /\ i \in DOMAIN controller
      /\ controller'[i].value = r.saved[i].value
      /\ \A j \in DOMAIN controller : j # i => controller'[j] = controller[j]
  <2>1. PICK k \in DOMAIN controller :
          controller[k].name = r.saved[i].name /\ r.saved[i].value \in controller[k].writable
    BY <1>4 DEF Accepts
  <2> QED
    BY <1>2, <1>3, <1>4, <2>1, AssignSetsOne
<1>7. Kept(r, controller) => Kept(r2, controller')
  BY <1>5, <1>6 DEF Kept, Restored
<1>8. Faithful(r2, controller')
  BY <1>1, <1>5, <1>7 DEF Faithful
<1>9. \A s \in Disturbed(restores \ {r}) : Faithful(s, controller')
  <2>1. AllSound(restores \ {r}) /\ \A s \in restores \ {r} : Faithful(s, controller)
    BY DEF CInv, IInv, AllSound
  <2> QED
    BY <2>1, DisturbedFaithful
<1>10. Named(controller')
  BY <1>3, <1>4, AssignNamed
<1> QED
  BY <1>4, <1>8, <1>9, <1>10

LEMMA RestoreWrittenFaithful ==
  ASSUME CInv, NEW r, RestoreWritten(r)
  PROVE  \A s \in restores' : Faithful(s, controller')
<1>1. r \in Restore /\ r.pc = "writing" /\ Faithful(r, controller)
  BY DEF RestoreWritten, CInv, IInv, AllSound
<1>2. UNCHANGED controller
  BY DEF RestoreWritten, envVars
<1>3. PICK ok \in BOOLEAN : NextWrite(r, Counted(r, ok))
  BY DEF RestoreWritten
<1> DEFINE r2 == Counted(r, ok)
<1>4. r2.pc = r.pc /\ r2.saved = r.saved /\ r2.differing = r.differing
      /\ r2.done = r.done /\ r2.quiet = r.quiet
  BY <1>1 DEF Counted, Restore
<1>5. Keep(r, r2) \/ Post(r, IF r2.failed = {} THEN "complete" ELSE "failed", r2.acked, r2.failed)
  BY <1>3 DEF NextWrite
<1> HIDE DEF r2
<1>6. Faithful(r2, controller)
  BY <1>1, <1>4 DEF Faithful, Kept, Restored
<1> QED
  BY <1>2, <1>5, <1>6, KeepFaithful, PostFaithful

-----------------------------------------------------------------------------
(* Every step keeps that invariant. *)

\* The steps that change neither the controller, nor the file, nor a restore.
LEMMA QuietStepFaithful ==
  ASSUME CInv, UNCHANGED <<controller, file>>, restores' \in SUBSET restores
  PROVE  /\ Named(controller') /\ Named(file'.params)
         /\ \A r \in restores' : Faithful(r, controller')
  BY DEF CInv

LEMMA ReloadFaithful ==
  ASSUME CInv, Reload
  PROVE  \A r \in restores' : Faithful(r, controller')
<1>1. ASSUME NEW r \in restores
      PROVE  Faithful([r EXCEPT !.live = FALSE], controller)
  <2> DEFINE r2 == [r EXCEPT !.live = FALSE]
  <2>1. r \in Restore /\ Faithful(r, controller)
    BY DEF CInv, IInv, AllSound
  <2>2. r2.pc = r.pc /\ r2.saved = r.saved /\ r2.differing = r.differing
        /\ r2.done = r.done /\ r2.quiet = r.quiet
    BY <2>1 DEF Restore
  <2> HIDE DEF r2
  <2>3. Faithful(r2, controller)
    BY <2>1, <2>2 DEF Faithful, Kept, Restored
  <2> QED
    BY <2>3 DEF r2
<1> QED
  BY <1>1 DEF Reload

LEMMA GuestChangeFaithful ==
  ASSUME CInv, NEW i \in Index, NEW v \in Value, GuestChange(i, v)
  PROVE  Named(controller') /\ \A r \in restores' : Faithful(r, controller')
<1>1. PICK I \in SUBSET Index : controller \in [I -> Param]
  BY DEF CInv, IInv, TypeOK, Menu
<1>2. controller' = [controller EXCEPT ![i].value = v] /\ i \in DOMAIN controller
  BY DEF GuestChange
<1>3. DOMAIN controller' = DOMAIN controller
      /\ \A j \in DOMAIN controller : controller'[j].name = controller[j].name
  BY <1>1, <1>2 DEF Param
<1>4. Named(controller')
  BY <1>3 DEF CInv, Named
<1>5. \A r \in restores' : Faithful(r, controller')
  BY DisturbedFaithful DEF GuestChange, CInv, IInv
<1> QED
  BY <1>4, <1>5

LEMMA WriteObeyedFaithful ==
  ASSUME CInv, NEW w, WriteObeyed(w)
  PROVE  Named(controller') /\ \A r \in restores' : Faithful(r, controller')
<1>1. Named(controller')
  BY AssignNamed DEF WriteObeyed, CInv, IInv, TypeOK
<1>2. \A r \in restores' : Faithful(r, controller')
  BY DisturbedFaithful DEF WriteObeyed, CInv, IInv
<1> QED
  BY <1>1, <1>2

LEMMA BackupFaithful ==
  ASSUME CInv, BackupSettings
  PROVE  /\ Named(controller') /\ Named(file'.params)
         /\ \A r \in restores' : Faithful(r, controller')
<1>1. file' \in {Saved(controller), Broken, file}
  BY DEF BackupSettings
<1>2. Named(Saved(controller).params) /\ Named(Broken.params) /\ Named(file.params)
  BY SavedNamed, NothingNamed DEF CInv, Broken
<1> QED
  BY <1>1, <1>2 DEF BackupSettings, CInv, envVars, jobVars

LEMMA RestoreStepFaithful ==
  ASSUME CInv, RestoreStep
  PROVE  /\ Named(controller') /\ Named(file'.params)
         /\ \A r \in restores' : Faithful(r, controller')
<1>1. UNCHANGED file
  BY DEF RestoreStep, RestoreCall, RestoreMarked, RestoreAnswered, RestoreRead, RestoreUnread,
     RestoreObeyed, RestoreWritten
<1>2. Named(file'.params)
  BY <1>1 DEF CInv
<1>3. ASSUME NEW id \in RestoreId, RestoreCall(id)
      PROVE  Named(controller') /\ \A r \in restores' : Faithful(r, controller')
  BY <1>3, RestoreCallFaithful DEF RestoreCall, envVars, CInv
<1>4. ASSUME NEW r \in restores, RestoreMarked(r)
      PROVE  Named(controller') /\ \A s \in restores' : Faithful(s, controller')
  <2>1. r \in Restore /\ r.pc = "marking" /\ Faithful(r, controller) /\ MarkNext(r)
    BY <1>4 DEF RestoreMarked, CInv, IInv, AllSound
  <2>2. UNCHANGED controller
    BY <1>4 DEF RestoreMarked, envVars
  <2> QED
    BY <2>1, <2>2, MarkNextFaithful DEF CInv
<1>5. ASSUME NEW r \in restores, RestoreAnswered(r)
      PROVE  Named(controller') /\ \A s \in restores' : Faithful(s, controller')
  BY <1>5, RestoreAnsweredFaithful DEF RestoreAnswered, envVars, CInv
<1>6. ASSUME NEW r \in restores, RestoreRead(r)
      PROVE  Named(controller') /\ \A s \in restores' : Faithful(s, controller')
  BY <1>6, RestoreReadFaithful DEF RestoreRead, envVars, CInv
<1>7. ASSUME NEW r \in restores, RestoreUnread(r)
      PROVE  Named(controller') /\ \A s \in restores' : Faithful(s, controller')
  BY <1>7, PostFaithful DEF RestoreUnread, envVars, CInv
<1>8. ASSUME NEW r \in restores, RestoreObeyed(r)
      PROVE  Named(controller') /\ \A s \in restores' : Faithful(s, controller')
  BY <1>8, RestoreObeyedFaithful
<1>9. ASSUME NEW r \in restores, RestoreWritten(r)
      PROVE  Named(controller') /\ \A s \in restores' : Faithful(s, controller')
  BY <1>9, RestoreWrittenFaithful DEF RestoreWritten, envVars, CInv
<1> QED
  BY <1>2, <1>3, <1>4, <1>5, <1>6, <1>7, <1>8, <1>9 DEF RestoreStep

LEMMA InitFaithful ==
  ASSUME Init
  PROVE  CInv
<1>1. \A m \in Menus : Named(m)
  BY DEF Named
<1>2. Named(controller)
  BY <1>1 DEF Init
<1>3. Named(file.params)
  BY <1>1, SavedNamed, NothingNamed DEF Init
<1> QED
  BY <1>2, <1>3, InitSound DEF Init, CInv

LEMMA EntityStepFaithful ==
  ASSUME CInv, EntityStep
  PROVE  /\ Named(controller') /\ Named(file'.params)
         /\ \A r \in restores' : Faithful(r, controller')
<1>1. ASSUME NEW id, NEW n, NEW v, BeginWrite(id, n, v)
      PROVE  UNCHANGED <<controller, file, restores>>
  BY <1>1 DEF BeginWrite, envVars
<1>2. ASSUME NEW w, WriteAcknowledged(w) \/ WriteFailed(w)
      PROVE  UNCHANGED <<controller, file, restores>>
  BY <1>2 DEF WriteAcknowledged, WriteFailed, envVars
<1>3. ASSUME NEW w, WriteObeyed(w)
      PROVE  /\ Named(controller') /\ Named(file'.params)
             /\ \A r \in restores' : Faithful(r, controller')
  BY <1>3, WriteObeyedFaithful DEF WriteObeyed, CInv
<1>4. \/ UNCHANGED <<controller, file, restores>>
      \/ \E w \in writes : WriteObeyed(w)
  BY <1>1, <1>2 DEF EntityStep, SetValue, Toggle
<1> QED
  BY <1>3, <1>4, QuietStepFaithful

LEMMA StepFaithful ==
  ASSUME CInv, [Next]_vars
  PROVE  CInv'
<1>1. IInv'
  BY StepSound DEF CInv
<1>2. /\ Named(controller') /\ Named(file'.params)
      /\ \A r \in restores' : Faithful(r, controller')
  <2>1. CASE \E i \in Index, v \in Value : GuestChange(i, v)
    BY <2>1, GuestChangeFaithful DEF GuestChange, CInv
  <2>2. CASE ChangeOptions \/ PollRead \/ PollReturn \/ PollFailed
    BY <2>2, QuietStepFaithful
       DEF ChangeOptions, PollRead, PollReturn, PollFailed, envVars, jobVars
  <2>3. CASE Reload
    BY <2>3, ReloadFaithful DEF Reload, CInv
  <2>4. CASE Restart
    BY <2>4, QuietStepFaithful DEF Restart
  <2>5. CASE EntityStep
    BY <2>5, EntityStepFaithful
  <2>6. CASE RestoreStep
    BY <2>6, RestoreStepFaithful
  <2>7. CASE BackupSettings
    BY <2>7, BackupFaithful
  <2>8. CASE UNCHANGED vars
    BY <2>8, QuietStepFaithful DEF vars, envVars, jobVars
  <2> QED
    BY <2>1, <2>2, <2>3, <2>4, <2>5, <2>6, <2>7, <2>8 DEF Next
<1> QED
  BY <1>1, <1>2 DEF CInv

LEMMA CInvAlways == Spec => []CInv
<1>1. Init => CInv
  BY InitFaithful
<1>2. CInv /\ [Next]_vars => CInv'
  BY StepFaithful
<1> QED
  BY <1>1, <1>2, PTL DEF Spec

-----------------------------------------------------------------------------
(* Success. *)

\* r reports success in this step.
Succeeds(r) ==
    /\ r \in restores /\ r \notin restores'
    /\ notice' # NoNotice /\ notice'.title \in {"complete", "nothing"}

\* It has had nothing to write, or has written everything.
LEMMA SuccessIsEarned ==
  ASSUME CInv, Next, NEW r, Succeeds(r)
  PROVE  r.pc \in {"read", "writing"} /\ r.differing \in SUBSET r.done /\ UNCHANGED controller
<1>1. RestoreStep
  BY DEF Succeeds, Next, GuestChange, ChangeOptions, PollRead, PollReturn, PollFailed, Reload,
     Restart, EntityStep, SetValue, Toggle, BeginWrite, WriteObeyed, WriteAcknowledged,
     WriteFailed, BackupSettings
<1>2. ASSUME NEW s, NEW title, NEW ok, NEW bad, Post(s, title, ok, bad)
      PROVE  s = r /\ title \in {"complete", "nothing"}
  BY <1>2 DEF Post, Succeeds
<1>3. ASSUME NEW s, NEW s2, Keep(s, s2)
      PROVE  FALSE
  BY <1>3 DEF Keep, Succeeds
<1>4. ASSUME NEW s, ReadSnapshot(s) \/ MarkNext(s)
      PROVE  FALSE
  <2>1. ~ReadSnapshot(s)
    <3>1. ~Post(s, "impossible", {}, {})
      BY <1>2
    <3> QED
      BY <1>3, <3>1 DEF ReadSnapshot
  <2> QED
    BY <1>3, <1>4, <2>1 DEF MarkNext
<1>5. ASSUME NEW id \in RestoreId, RestoreCall(id)
      PROVE  FALSE
  <2>1. safe \in BOOLEAN /\ file.state \in {"absent", "saved", "broken"}
    BY DEF CInv, IInv, TypeOK
  <2>2. ReadSnapshot(NewRestore(id)) \/ MarkNext(NewRestore(id)) \/ notice' = NoNotice
    BY <1>5, <2>1 DEF RestoreCall
  <2> QED
    BY <1>4, <2>2 DEF Succeeds
<1>6. ASSUME NEW s \in restores, RestoreMarked(s) \/ RestoreAnswered(s) \/ RestoreUnread(s)
      PROVE  FALSE
  <2>1. ~RestoreMarked(s) /\ ~RestoreAnswered(s)
    BY <1>3, <1>4 DEF RestoreMarked, RestoreAnswered
  <2>2. ~RestoreUnread(s)
    BY <1>2 DEF RestoreUnread
  <2> QED
    BY <1>6, <2>1, <2>2
<1>7. ASSUME NEW s \in restores, RestoreObeyed(s)
      PROVE  FALSE
  BY <1>7 DEF RestoreObeyed, Succeeds
<1>8. ASSUME NEW s \in restores, RestoreRead(s)
      PROVE  r.pc \in {"read", "writing"} /\ r.differing \in SUBSET r.done /\ UNCHANGED controller
  <2>1. s.safe \in BOOLEAN /\ s.pc = "read"
    BY <1>8 DEF RestoreRead, CInv, IInv, TypeOK, Restore
  <2>2. CASE s.differing = {}
    <3>1. Post(s, "nothing", {}, {})
      BY <1>8, <2>2 DEF RestoreRead
    <3>2. s = r
      BY <1>2, <3>1
    <3> QED
      BY <1>8, <2>1, <2>2, <3>2 DEF RestoreRead, envVars
  <2>3. CASE s.differing # {}
    <3>1. Post(s, "preview", {}, {}) \/ \E s2 : Keep(s, s2)
      BY <1>8, <2>1, <2>3 DEF RestoreRead
    <3> QED
      BY <1>2, <1>3, <3>1
  <2> QED
    BY <2>2, <2>3
<1>9. ASSUME NEW s \in restores, RestoreWritten(s)
      PROVE  r.pc \in {"read", "writing"} /\ r.differing \in SUBSET r.done /\ UNCHANGED controller
  <2>1. /\ restores' = restores \ {s}
        /\ notice'.restored \cup notice'.failed = s.differing
        /\ notice'.restored \subseteq s.done
        /\ notice'.title = "complete" <=> notice'.failed = {}
    BY <1>9, RestoreWrittenSound DEF CInv, Succeeds
  <2>2. s = r
    BY <2>1 DEF Succeeds
  <2>3. PICK r2 : NextWrite(s, r2)
    BY <1>9 DEF RestoreWritten
  <2>4. notice'.title # "nothing"
    BY <2>3, <1>3 DEF NextWrite, Post
  <2> QED
    BY <1>9, <2>1, <2>2, <2>4 DEF RestoreWritten, Succeeds, envVars
<1> QED
  BY <1>1, <1>5, <1>6, <1>7, <1>8, <1>9 DEF RestoreStep

\* If every name has one index, a restore that reports success has restored
\* the snapshot, unless somebody else changed a setting under it: comparing by
\* index and writing by name, once and in any order, is enough.
THEOREM RestoresConverge == Spec => RestoreConverges
<1> DEFINE Good(r) ==
       /\ notice' # NoNotice /\ notice'.title \in {"complete", "nothing"}
       /\ \A s \in restores' : s.id # r.id
       /\ r.quiet
       => \A i \in DOMAIN r.saved : r.saved[i].name \notin Volatile =>
             i \in DOMAIN controller' /\ controller'[i].value = r.saved[i].value
<1>1. CInv /\ [Next]_vars => [\A r \in restores : Good(r)]_vars
  <2> SUFFICES ASSUME CInv, Next, NEW r \in restores,
                      notice' # NoNotice, notice'.title \in {"complete", "nothing"},
                      \A s \in restores' : s.id # r.id, r.quiet
               PROVE  \A i \in DOMAIN r.saved : r.saved[i].name \notin Volatile =>
                         i \in DOMAIN controller' /\ controller'[i].value = r.saved[i].value
    OBVIOUS
  <2>1. Succeeds(r)
    BY DEF Succeeds
  <2>2. r.pc \in {"read", "writing"} /\ r.differing \in SUBSET r.done /\ UNCHANGED controller
    BY <2>1, SuccessIsEarned
  <2>3. Kept(r, controller)
    BY <2>2 DEF CInv, Faithful
  <2> QED
    BY <2>2, <2>3 DEF Kept, Restored
<1> QED
  BY <1>1, CInvAlways, PTL DEF Spec, RestoreConverges

-----------------------------------------------------------------------------
(* Who changed a setting.  The detector takes a change for this            *)
(* integration's own while the name is marked; marks are set before the    *)
(* awaits, and the poll that consumes one may have read the settings       *)
(* before, between or after the writes.  The invariant says what the last  *)
(* poll, a poll under way and the controller may show of a setting nobody  *)
(* has muddled.                                                            *)

SameNames(s, t) == DOMAIN s = DOMAIN t /\ \A i \in DOMAIN s : s[i].name = t[i].name

\* What the detector and a poll have seen are the controller's settings.  (A
\* file may be of other settings, those of an earlier firmware, say.)
Shaped ==
    /\ revertWrites = {}
    /\ SameNames(snapshot, controller)
    /\ poll.busy => SameNames(poll.data, controller)

\* Restore r has marked setting n at index i, and may write it.
Marked(r, i, n) ==
    /\ ~r.safe /\ i \in DOMAIN r.saved /\ r.saved[i].name = n
    /\ ~(r.pc = "marking" /\ i \in r.todo)

Held(i) == controller[i].value
Before(i) == snapshot[i].value
Writers(i) == {w \in writes : w.name = controller[i].name}
Restorers(i) == {r \in restores : Marked(r, i, controller[i].name)}

\* The controller still holds what the last poll showed, and i is marked.
Due(i) == Held(i) = Before(i) /\ controller[i].name \in selfWrites

\* Setting i has one writer at most.  A poll shows it before or after the
\* write; while the last poll does not show what the controller holds, the
\* mark is there to explain the difference.
Clean(i) ==
    /\ poll.busy => poll.data[i].value \in {Before(i), Held(i)}
    /\ controller[i].name \notin selfWrites => Held(i) = Before(i)
    /\ \A w \in Writers(i) : IF w.obeyed THEN Held(i) = w.value ELSE Due(i)
    /\ \A r \in Restorers(i) : IF i \in r.done THEN Held(i) = r.saved[i].value ELSE Due(i)
    /\ \A w1, w2 \in Writers(i) : w1 = w2
    /\ \A r1, r2 \in Restorers(i) : r1 = r2
    /\ Writers(i) = {} \/ Restorers(i) = {}

AllClean == \A i \in DOMAIN controller : controller[i].name \notin unclear => Clean(i)

\* Only a restore out of Safe Mode writes, and one that a reload has left
\* without a detector marks nothing.
Alive(r) == (r.pc = "writing" => ~r.safe) /\ (r.live \/ NamesIn(r.saved) \in SUBSET unclear)

AInv == CInv /\ Shaped /\ AllClean /\ \A r \in restores : Alive(r)

-----------------------------------------------------------------------------
(* The settings keep their names. *)

LEMMA AssignShape ==
  ASSUME NEW m \in Menu, NEW n, NEW v
  PROVE  LET m2 == Assign(m, n, v)
         IN  /\ DOMAIN m2 = DOMAIN m
             /\ \A i \in DOMAIN m : /\ m2[i].name = m[i].name /\ m2[i].writable = m[i].writable
                                    /\ m[i].name # n => m2[i] = m[i]
<1>1. PICK I \in SUBSET Index : m \in [I -> Param]
  BY DEF Menu
<1> QED
  BY <1>1 DEF Assign, Param

\* No step changes the name or the range of a setting.
LEMMA ControllerShape ==
  ASSUME CInv, [Next]_vars
  PROVE  /\ DOMAIN controller' = DOMAIN controller
         /\ \A i \in DOMAIN controller : /\ controller'[i].name = controller[i].name
                                         /\ controller'[i].writable = controller[i].writable
<1>0. controller \in Menu
  BY DEF CInv, IInv, TypeOK
<1>1. PICK I \in SUBSET Index : controller \in [I -> Param]
  BY <1>0 DEF Menu
<1>2. CASE \E i \in Index, v \in Value : GuestChange(i, v)
  BY <1>1, <1>2 DEF GuestChange, Param
<1>3. CASE \E w \in writes : WriteObeyed(w)
  BY <1>0, <1>3, AssignShape DEF WriteObeyed
<1>4. CASE \E r \in restores : RestoreObeyed(r)
  BY <1>0, <1>4, AssignShape DEF RestoreObeyed
<1>5. \/ UNCHANGED controller
      \/ \E i \in Index, v \in Value : GuestChange(i, v)
      \/ \E w \in writes : WriteObeyed(w)
      \/ \E r \in restores : RestoreObeyed(r)
  BY DEF Next, ChangeOptions, PollRead, PollReturn, PollFailed, Reload, Restart, EntityStep,
     SetValue, Toggle, BeginWrite, WriteAcknowledged, WriteFailed, RestoreStep, RestoreCall,
     RestoreMarked, RestoreAnswered, RestoreRead, RestoreUnread, RestoreWritten,
     BackupSettings, vars, envVars
<1> QED
  BY <1>2, <1>3, <1>4, <1>5

LEMMA ExtractNames ==
  ASSUME NEW m
  PROVE  /\ SameNames(Extract(m), m)
         /\ \A i \in DOMAIN m : Extract(m)[i].value = m[i].value
  BY DEF SameNames, Extract

LEMMA SameNamesTransitive ==
  ASSUME NEW s, NEW t, NEW u, SameNames(s, t), SameNames(t, u)
  PROVE  SameNames(s, u)
  BY DEF SameNames

LEMMA SameNamesReflexive ==
  ASSUME NEW s
  PROVE  SameNames(s, s)
  BY DEF SameNames

\* No manual Revert is under way, and no step begins one.
LEMMA NoExpectation ==
  ASSUME revertWrites = {}, [Next]_vars
  PROVE  revertWrites' = {}
<1>1. PollReturn => revertWrites' = {}
  BY DEF PollReturn, ProcessEditParams, Awaited, detectorVars
<1> QED
  BY <1>1 DEF Next, GuestChange, ChangeOptions, PollRead, PollFailed, Reload, Restart,
     EntityStep, SetValue, Toggle, BeginWrite, WriteObeyed, WriteAcknowledged, WriteFailed,
     RestoreStep, RestoreCall, RestoreMarked, RestoreAnswered, RestoreRead, RestoreUnread,
     RestoreObeyed, RestoreWritten, BackupSettings, detectorVars, vars

\* The detector and the poll see what the controller has or had.
LEMMA PollShape ==
  ASSUME CInv, Shaped, [Next]_vars
  PROVE  /\ SameNames(snapshot', controller')
         /\ poll'.busy => SameNames(poll'.data, controller')
<1>1. SameNames(controller, controller')
  BY ControllerShape DEF SameNames
<1>2. ASSUME NEW s, SameNames(s, controller)
      PROVE  SameNames(s, controller')
  BY <1>1, <1>2, SameNamesTransitive
<1>3. SameNames(Extract(controller), controller)
  BY ExtractNames
<1>4. CASE UNCHANGED <<snapshot, poll>>
  BY <1>2, <1>4 DEF Shaped
<1>5. CASE Reload \/ Restart
  BY <1>2, <1>3, <1>5 DEF Reload, Restart, IdlePoll
<1>6. CASE PollRead
  BY <1>2, <1>6, SameNamesReflexive DEF PollRead, Shaped, detectorVars
<1>7. CASE PollReturn
  <2>1. snapshot' = snapshot \/ snapshot' = Extract(poll.data)
    BY <1>7 DEF PollReturn, ProcessEditParams, detectorVars
  <2>2. SameNames(Extract(poll.data), controller)
    BY <1>7, ExtractNames, SameNamesTransitive DEF PollReturn, Shaped
  <2>3. ~poll'.busy
    BY <1>7 DEF PollReturn, IdlePoll
  <2> QED
    BY <1>2, <2>1, <2>2, <2>3 DEF Shaped
<1>8. CASE PollFailed
  BY <1>2, <1>8 DEF PollFailed, IdlePoll, Shaped, detectorVars
<1> QED
  BY <1>4, <1>5, <1>6, <1>7, <1>8 DEF Next, GuestChange, ChangeOptions, EntityStep, SetValue,
     Toggle, BeginWrite, WriteObeyed, WriteAcknowledged, WriteFailed, RestoreStep, RestoreCall,
     RestoreMarked, RestoreAnswered, RestoreRead, RestoreUnread, RestoreObeyed, RestoreWritten,
     BackupSettings, detectorVars, pollVars, vars

LEMMA StepShaped ==
  ASSUME CInv, Shaped, [Next]_vars
  PROVE  Shaped'
  BY NoExpectation, PollShape DEF Shaped

-----------------------------------------------------------------------------
(* A setting that a step does not concern stays clean. *)

\* Setting n at index i is to r2 what it was to r.
Follows(r2, r, i, n) ==
    /\ Marked(r2, i, n) => Marked(r, i, n)
    /\ i \in r2.done <=> i \in r.done
    /\ i \in r.done => r2.saved[i].value = r.saved[i].value

\* No restore has marked i, or done it, in this step.
RestorersKept(i) ==
    /\ \A r2 \in Restorers(i)' : \E r \in Restorers(i) : Follows(r2, r, i, controller[i].name)
    /\ \A r1, r2 \in Restorers(i)' : r1 = r2

LEMMA CleanKept ==
  ASSUME NEW i, Clean(i), RestorersKept(i), Writers(i)' \in SUBSET Writers(i),
         snapshot'[i] = snapshot[i], controller'[i] = controller[i],
         controller[i].name \in selfWrites' <=> controller[i].name \in selfWrites,
         poll'.busy => poll' = poll
  PROVE  Clean(i)'
<1>1. /\ Held(i)' = Held(i) /\ Before(i)' = Before(i)
      /\ controller'[i].name = controller[i].name
      /\ Due(i)' <=> Due(i)
  BY DEF Held, Before, Due
<1>2. poll'.busy => poll'.data[i].value \in {Before(i), Held(i)}
  BY DEF Clean
<1>3. \A w \in Writers(i)' : IF w.obeyed THEN Held(i) = w.value ELSE Due(i)
  BY DEF Clean
<1>4. ASSUME NEW r2 \in Restorers(i)'
      PROVE  IF i \in r2.done THEN Held(i) = r2.saved[i].value ELSE Due(i)
  <2>1. PICK r \in Restorers(i) : Follows(r2, r, i, controller[i].name)
    BY DEF RestorersKept
  <2> QED
    BY <2>1 DEF Clean, Follows
<1>5. \A w1, w2 \in Writers(i)' : w1 = w2
  BY DEF Clean
<1>6. Writers(i)' = {} \/ Restorers(i)' = {}
  BY DEF Clean, RestorersKept
<1>7. controller[i].name \notin selfWrites' => Held(i) = Before(i)
  BY DEF Clean
<1> QED
  BY <1>1, <1>2, <1>3, <1>4, <1>5, <1>6, <1>7 DEF Clean, RestorersKept

LEMMA FewerRestorers ==
  ASSUME NEW i, Clean(i), restores' \in SUBSET restores,
         controller'[i].name = controller[i].name
  PROVE  RestorersKept(i)
  BY DEF RestorersKept, Restorers, Follows, Clean

\* One restore goes on, or a new one joins that has not marked i.
LEMMA OneRestorer ==
  ASSUME NEW i, Clean(i), NEW r, NEW r2, restores' = (restores \ {r}) \cup {r2},
         LET n == controller[i].name
         IN  Marked(r2, i, n) => r \in restores /\ Follows(r2, r, i, n),
         controller'[i].name = controller[i].name
  PROVE  RestorersKept(i)
<1> DEFINE n == controller[i].name
<1>1. \A s \in Restorers(i)' : \/ s = r2 /\ r \in Restorers(i) /\ Follows(r2, r, i, n)
                               \/ s # r /\ s \in Restorers(i)
  BY DEF Restorers, Follows
<1>2. \A s \in Restorers(i) : Follows(s, s, i, n)
  BY DEF Follows
<1> QED
  BY <1>1, <1>2 DEF RestorersKept, Clean

\* The controller's changes are not the restores'.
LEMMA DisturbedRestorers ==
  ASSUME NEW rs \in SUBSET Restore, NEW r2 \in Disturbed(rs)
  PROVE  \E r \in rs : /\ \A i, n : Follows(r2, r, i, n)
                       /\ r2 = [r EXCEPT !.quiet = FALSE]
<1>1. PICK r \in rs : r2 = [r EXCEPT !.quiet = FALSE]
  BY DEF Disturbed
<1>2. /\ r2.safe = r.safe /\ r2.saved = r.saved /\ r2.pc = r.pc /\ r2.todo = r.todo
      /\ r2.done = r.done
  BY <1>1 DEF Restore
<1>3. \A i, n : Follows(r2, r, i, n)
  BY <1>2 DEF Follows, Marked
<1> QED
  BY <1>1, <1>3

LEMMA AllDisturbed ==
  ASSUME CInv, NEW i, Clean(i), restores' = Disturbed(restores),
         controller'[i].name = controller[i].name
  PROVE  RestorersKept(i)
<1> DEFINE n == controller[i].name
<1>1. \A r2 \in Restorers(i)' :
         \E r \in Restorers(i) : Follows(r2, r, i, n) /\ r2 = [r EXCEPT !.quiet = FALSE]
  <2>1. restores \in SUBSET Restore
    BY DEF CInv, IInv, AllSound
  <2> QED
    BY <2>1, DisturbedRestorers DEF Restorers, Follows
<1>2. \A r1, r2 \in Restorers(i) : r1 = r2
  BY DEF Clean
<1> QED
  BY <1>1, <1>2 DEF RestorersKept

\* Two settings have two names.
LEMMA OtherName ==
  ASSUME CInv, NEW i \in DOMAIN controller, NEW j \in DOMAIN controller, i # j
  PROVE  controller[i].name # controller[j].name
  BY SameIndex DEF CInv

-----------------------------------------------------------------------------
(* The environment and the poll. *)

LEMMA GuestChangeClean ==
  ASSUME AInv, NEW j \in Index, NEW v \in Value, GuestChange(j, v)
  PROVE  AllClean'
<1>0. CInv /\ DOMAIN controller' = DOMAIN controller /\ j \in DOMAIN controller
  BY ControllerShape DEF AInv, GuestChange
<1>1. SUFFICES ASSUME NEW i \in DOMAIN controller, controller'[i].name \notin unclear'
               PROVE  Clean(i)'
  BY <1>0 DEF AllClean
<1>2. controller' = [controller EXCEPT ![j].value = v]
      /\ unclear' = unclear \cup {controller[j].name}
  BY DEF GuestChange
<1>3. controller'[i].name = controller[i].name
  <2>1. [Next]_vars
    BY DEF Next
  <2> QED
    BY <1>0, <2>1, ControllerShape
<1>4. i # j /\ controller'[i] = controller[i]
  BY <1>0, <1>1, <1>2, <1>3
<1>5. Clean(i)
  BY <1>1, <1>2, <1>3 DEF AInv, AllClean
<1>6. RestorersKept(i)
  BY <1>0, <1>3, <1>5, AllDisturbed DEF GuestChange
<1> QED
  BY <1>4, <1>5, <1>6, CleanKept DEF GuestChange, detectorVars, pollVars, Writers

\* Nothing that the invariant speaks of changes, but for a poll that fails or a
\* restore that ends.
LEMMA NothingMuddled ==
  ASSUME AInv, UNCHANGED <<snapshot, selfWrites, controller, unclear>>,
         writes' \in SUBSET writes, restores' \in SUBSET restores, poll'.busy => poll' = poll
  PROVE  AllClean'
<1>1. SUFFICES ASSUME NEW i \in DOMAIN controller, controller[i].name \notin unclear
               PROVE  Clean(i)'
  BY DEF AllClean
<1>2. Clean(i)
  BY <1>1 DEF AInv, AllClean
<1> QED
  BY <1>2, CleanKept, FewerRestorers DEF Writers

LEMMA PollReadClean ==
  ASSUME AInv, PollRead
  PROVE  AllClean'
<1>1. SUFFICES ASSUME NEW i \in DOMAIN controller, controller[i].name \notin unclear
               PROVE  Clean(i)'
  BY DEF AllClean, PollRead, envVars
<1>2. Clean(i)
  BY <1>1 DEF AInv, AllClean
<1> QED
  BY <1>2 DEF Clean, PollRead, Held, Before, Due, Writers, Restorers, detectorVars, envVars,
     jobVars

\* A poll that shows setting i changed consumes its mark: no Revert explains
\* the change, and there is no other change of the name.
LEMMA MarkExplains ==
  ASSUME AInv, poll.busy, NEW c \in Changed(poll.data), c.name \in selfWrites
  PROVE  ByMarker(poll.data, c)
<1>1. ~ByRevert(poll.data, c)
  BY DEF AInv, Shaped, ByRevert, Observed
<1>2. /\ c.index \in DOMAIN controller /\ controller[c.index].name = c.name
      /\ \A d \in Changed(poll.data) : d.name = c.name => d.index = c.index
  <2>1. \A d \in Changed(poll.data) :
           d.index \in DOMAIN controller /\ controller[d.index].name = d.name
    BY ExtractNames DEF Changed, Diff, AInv, Shaped, SameNames
  <2> QED
    BY <2>1, OtherName DEF AInv
<1>3. c.index \in Nat
  BY <1>2, MenuParam, IndexAssumption DEF AInv, CInv, IInv, TypeOK
<1> QED
  BY <1>1, <1>2, <1>3 DEF ByMarker

\* The detector finds exactly the changes of the settings, by index.
LEMMA ChangedSetting ==
  ASSUME AInv, poll.busy, NEW c \in Changed(poll.data)
  PROVE  /\ c.index \in DOMAIN controller /\ c.name = controller[c.index].name
         /\ poll.data[c.index].value # Before(c.index)
  BY ExtractNames DEF Changed, Diff, Before, AInv, Shaped, SameNames

LEMMA PollReturnClean ==
  ASSUME AInv, PollReturn
  PROVE  AllClean'
<1>0. /\ poll.busy /\ SameNames(poll.data, controller) /\ ~poll'.busy
      /\ UNCHANGED <<controller, writes, restores, unclear>>
  BY DEF PollReturn, AInv, Shaped, envVars, jobVars, IdlePoll
<1>1. SUFFICES ASSUME NEW i \in DOMAIN controller, controller[i].name \notin unclear
               PROVE  Clean(i)'
  BY <1>0 DEF AllClean
<1> DEFINE n == controller[i].name
           p == poll.data[i].value
<1>2. Clean(i) /\ p \in {Before(i), Held(i)}
  BY <1>0, <1>1 DEF AInv, AllClean, Clean
<1>3. snapshot'[i].value = p
  BY <1>0, <1>1, ExtractNames DEF PollReturn, ProcessEditParams, SameNames
<1>4. CASE p = Before(i)
  <2>1. n \in selfWrites' <=> n \in selfWrites
    <3>1. \A c \in Changed(poll.data) : c.name # n
      BY <1>0, <1>4, ChangedSetting, OtherName DEF AInv
    <3> QED
      BY <1>0, <1>1, <3>1 DEF PollReturn, ProcessEditParams, SameNames
  <2>2. Before(i)' = Before(i)
    BY <1>3, <1>4 DEF Before
  <2> QED
    BY <1>0, <1>2, <2>1, <2>2 DEF Clean, Held, Due, Writers, Restorers
<1>5. CASE p # Before(i)
  <2>1. p = Held(i) /\ Held(i) # Before(i) /\ ~Due(i)
    BY <1>2, <1>5 DEF Due
  <2>2. Before(i)' = Held(i)'
    BY <1>0, <1>3, <2>1 DEF Before, Held
  <2>3. /\ \A w \in Writers(i) : w.obeyed /\ Held(i) = w.value
        /\ \A r \in Restorers(i) : i \in r.done /\ Held(i) = r.saved[i].value
    BY <1>2, <2>1 DEF Clean
  <2> QED
    BY <1>0, <1>2, <2>2, <2>3 DEF Clean, Held, Writers, Restorers
<1> QED
  BY <1>4, <1>5

\* A new baseline is what the controller holds, and what runs on is muddled.
LEMMA ReloadClean ==
  ASSUME AInv, Reload \/ Restart
  PROVE  AllClean'
<1>1. UNCHANGED controller /\ snapshot' = Extract(controller) /\ ~poll'.busy
  BY DEF Reload, Restart, IdlePoll
<1>2. SUFFICES ASSUME NEW i \in DOMAIN controller, controller[i].name \notin unclear'
               PROVE  Clean(i)'
  BY <1>1 DEF AllClean
<1>3. Held(i)' = Before(i)'
  BY <1>1, ExtractNames DEF Held, Before
<1>4. Writers(i)' = {} /\ Restorers(i)' = {}
  <2>1. CASE Restart
    BY <2>1 DEF Restart, Writers, Restorers
  <2>2. CASE Reload
    <3>1. controller[i].name \notin InFlight
      BY <1>2, <2>2 DEF Reload
    <3>2. \A w \in Write : [w EXCEPT !.live = FALSE].name = w.name
      BY DEF Write
    <3>3. \A r \in Restore : [r EXCEPT !.live = FALSE].saved = r.saved
      BY DEF Restore
    <3>4. writes \in SUBSET Write /\ restores \in SUBSET Restore
      BY DEF AInv, CInv, IInv, TypeOK, AllSound
    <3>5. Writers(i)' = {}
      <4>1. \A w2 \in writes' : \E w \in writes : w2.name = w.name
        BY <2>2, <3>2, <3>4 DEF Reload
      <4>2. \A w \in writes : controller[i].name # w.name
        BY <3>1 DEF InFlight
      <4> QED
        BY <1>1, <4>1, <4>2 DEF Writers
    <3>6. \A r2 \in restores' : controller[i].name \notin NamesIn(r2.saved)
      <4>1. \A r2 \in restores' : \E r \in restores : r2.saved = r.saved
        BY <2>2, <3>3, <3>4 DEF Reload
      <4>2. \A r \in restores : controller[i].name \notin NamesIn(r.saved)
        BY <3>1 DEF InFlight
      <4> QED
        BY <4>1, <4>2
    <3>7. Restorers(i)' = {}
      BY <1>1, <3>6 DEF Restorers, Marked, NamesIn
    <3> QED
      BY <3>5, <3>7
  <2> QED
    BY <2>1, <2>2
<1> QED
  BY <1>1, <1>3, <1>4 DEF Clean

-----------------------------------------------------------------------------
(* Entity writes. *)

\* A write that meets no other marks its setting before it changes anything.
LEMMA BeginWriteClean ==
  ASSUME AInv, NEW id, NEW n, NEW v, BeginWrite(id, n, v)
  PROVE  AllClean'
<1>0. UNCHANGED <<controller, snapshot, poll, restores>>
  BY DEF BeginWrite, envVars, pollVars
<1>1. SUFFICES ASSUME NEW i \in DOMAIN controller, controller[i].name \notin unclear'
               PROVE  Clean(i)'
  BY <1>0 DEF AllClean
<1> DEFINE w == [id |-> id, name |-> n, value |-> v, live |-> TRUE, obeyed |-> FALSE]
<1>2. Clean(i)
  BY <1>1 DEF BeginWrite, AInv, AllClean
<1>3. writes' = writes \cup {w} /\ selfWrites' = selfWrites \cup {n}
      /\ w.name = n /\ ~w.obeyed
  BY DEF BeginWrite
<1> HIDE DEF w
<1>4. CASE controller[i].name # n
  <2>1. Writers(i)' \in SUBSET Writers(i)
    BY <1>0, <1>3, <1>4 DEF Writers
  <2>2. RestorersKept(i)
    BY <1>0, <1>2, FewerRestorers
  <2> QED
    BY <1>0, <1>2, <1>3, <1>4, <2>1, <2>2, CleanKept
<1>5. CASE controller[i].name = n
  <2>1. ~Unsettled(n, restores)
    BY <1>1, <1>5 DEF BeginWrite
  <2>2. n \notin selfWrites /\ Writers(i) = {}
    BY <1>5, <2>1 DEF Unsettled, Writers
  <2>3. Restorers(i) = {}
    BY <1>5, <2>1 DEF Unsettled, Restorers, Marked, NamesIn
  <2>4. Writers(i)' = {w} /\ Restorers(i)' = {}
    BY <1>0, <1>3, <1>5, <2>2, <2>3 DEF Writers, Restorers
  <2>5. Held(i)' = Before(i)' /\ Due(i)'
    BY <1>0, <1>2, <1>3, <1>5, <2>2 DEF Clean, Held, Before, Due
  <2>6. poll'.busy => poll'.data[i].value \in {Before(i)', Held(i)'}
    BY <1>0, <1>2 DEF Clean, Held, Before
  <2> QED
    BY <1>3, <2>4, <2>5, <2>6 DEF Clean
<1> QED
  BY <1>4, <1>5

\* A write that the controller accepts is held by its setting.
LEMMA AssignHeld ==
  ASSUME NEW m \in Menu, NEW i \in DOMAIN m, NEW v \in m[i].writable
  PROVE  Assign(m, m[i].name, v)[i].value = v
<1>1. m[i] \in Param
  BY DEF Menu
<1>2. [m[i] EXCEPT !.value = v].value = v
  BY <1>1 DEF Param
<1> QED
  BY <1>2 DEF Assign

\* The setting of an accepted write.
LEMMA AcceptedAt ==
  ASSUME CInv, NEW i \in DOMAIN controller, NEW v, Accepts(controller[i].name, v)
  PROVE  v \in controller[i].writable
  BY OtherName DEF Accepts

\* Its only writer sets i, once or once more: a poll that has read it has read
\* it before or after, and if the last one was before, the mark is there.
LEMMA OwnWrite ==
  ASSUME NEW i, Clean(i), NEW v, Due(i) \/ Held(i) = v, Held(i)' = v,
         controller'[i].name = controller[i].name, UNCHANGED <<snapshot, selfWrites, poll>>
  PROVE  /\ poll'.busy => poll'.data[i].value \in {Before(i)', Held(i)'}
         /\ controller'[i].name \notin selfWrites' => Held(i)' = Before(i)'
  BY DEF Clean, Before, Due

LEMMA WriteObeyedClean ==
  ASSUME AInv, NEW w \in writes, WriteObeyed(w)
  PROVE  AllClean'
<1> DEFINE w2 == [w EXCEPT !.obeyed = TRUE]
<1>0. /\ CInv /\ controller \in Menu /\ DOMAIN controller' = DOMAIN controller
      /\ UNCHANGED <<snapshot, selfWrites, poll, unclear>>
      /\ controller' = Assign(controller, w.name, w.value)
  BY AssignShape DEF WriteObeyed, AInv, CInv, IInv, TypeOK, detectorVars, pollVars
<1>1. SUFFICES ASSUME NEW i \in DOMAIN controller, controller'[i].name \notin unclear
               PROVE  Clean(i)'
  BY <1>0 DEF AllClean
<1>2. /\ controller'[i].name = controller[i].name
      /\ controller[i].name # w.name => controller'[i] = controller[i]
  BY <1>0, AssignShape
<1>3. Clean(i)
  BY <1>1, <1>2 DEF AInv, AllClean
<1>4. w2.name = w.name /\ w2.value = w.value /\ w2.obeyed
      /\ writes' = (writes \ {w}) \cup {w2}
  BY <1>0 DEF WriteObeyed, CInv, IInv, TypeOK, Write
<1>5. RestorersKept(i)
  BY <1>0, <1>2, <1>3, AllDisturbed DEF WriteObeyed
<1> HIDE DEF w2
<1>6. CASE controller[i].name # w.name
  <2>1. Writers(i)' \in SUBSET Writers(i)
    BY <1>2, <1>4, <1>6 DEF Writers
  <2> QED
    BY <1>0, <1>2, <1>3, <1>5, <1>6, <2>1, CleanKept
<1>7. CASE controller[i].name = w.name
  <2>1. Held(i)' = w.value
    <3>1. Accepts(controller[i].name, w.value)
      BY <1>7 DEF WriteObeyed
    <3>2. w.value \in controller[i].writable
      BY <1>0, <3>1, AcceptedAt
    <3>3. controller'[i].value = w.value
      BY <1>0, <1>7, <3>2, AssignHeld
    <3> QED
      BY <3>3 DEF Held
  <2>2. w \in Writers(i) /\ Writers(i) = {w} /\ Restorers(i) = {}
    BY <1>3, <1>7 DEF Writers, Clean
  <2>3. Due(i) \/ Held(i) = w.value
    BY <1>3, <2>2 DEF Clean
  <2>4. Writers(i)' = {w2} /\ Restorers(i)' = {}
    <3>1. Writers(i)' = {w2}
      BY <1>2, <1>4, <1>7, <2>2 DEF Writers
    <3> QED
      BY <1>5, <2>2, <3>1 DEF RestorersKept
  <2>5. /\ poll'.busy => poll'.data[i].value \in {Before(i)', Held(i)'}
        /\ controller'[i].name \notin selfWrites' => Held(i)' = Before(i)'
    BY <1>0, <1>2, <1>3, <2>1, <2>3, OwnWrite
  <2> QED
    BY <1>4, <2>1, <2>4, <2>5 DEF Clean
<1> QED
  BY <1>6, <1>7

\* A write that ends without an acknowledgement is muddled if it was obeyed;
\* if not, its mark has nothing to explain.
LEMMA WriteFailedClean ==
  ASSUME AInv, NEW w \in writes, WriteFailed(w)
  PROVE  AllClean'
<1>0. UNCHANGED <<controller, snapshot, poll, restores>>
  BY DEF WriteFailed, envVars, pollVars
<1>1. SUFFICES ASSUME NEW i \in DOMAIN controller, controller[i].name \notin unclear'
               PROVE  Clean(i)'
  BY <1>0 DEF AllClean
<1>2. Clean(i) /\ (w.obeyed => w.name # controller[i].name)
  BY <1>1 DEF WriteFailed, AInv, AllClean
<1>3. writes' = writes \ {w}
      /\ (selfWrites' = selfWrites \/ selfWrites' = selfWrites \ {w.name})
  BY DEF WriteFailed
<1>4. RestorersKept(i)
  BY <1>0, <1>2, FewerRestorers
<1>5. CASE controller[i].name # w.name \/ selfWrites' = selfWrites
  <2>1. Writers(i)' \in SUBSET Writers(i)
    BY <1>0, <1>3 DEF Writers
  <2> QED
    BY <1>0, <1>2, <1>3, <1>4, <1>5, <2>1, CleanKept
<1>6. CASE controller[i].name = w.name
  <2>1. w \in Writers(i) /\ Writers(i)' = {} /\ Restorers(i)' = {}
    <3>1. w \in Writers(i) /\ Writers(i)' = {}
      BY <1>0, <1>2, <1>3, <1>6 DEF Writers, Clean
    <3> QED
      BY <1>0, <1>2, <3>1 DEF Clean, Restorers
  <2>2. Held(i) = Before(i)
    BY <1>2, <1>6, <2>1 DEF Clean, Due
  <2>3. Held(i)' = Before(i)' /\ (poll'.busy => poll'.data[i].value \in {Before(i)', Held(i)'})
    BY <1>0, <1>2, <2>2 DEF Clean, Held, Before
  <2> QED
    BY <2>1, <2>3 DEF Clean
<1> QED
  BY <1>5, <1>6

-----------------------------------------------------------------------------
(* Restores. *)

\* The file is read once more when all is marked: a setting that is not among
\* those marked is muddled.
LEMMA ReadSnapshotClean ==
  ASSUME AInv, NEW r \in Restore, Named(r.saved), r.done = {}, ReadSnapshot(r),
         r.safe \/ r.todo = {} \/ file.state # "saved",
         r \in restores \/ r.safe \/ r.todo = DOMAIN r.saved,
         UNCHANGED <<snapshot, selfWrites, controller, poll, writes>>
  PROVE  AllClean'
<1>1. CASE file.state = "saved"
  <2> DEFINE r2 == [r EXCEPT !.pc = "reading", !.saved = file.params, !.todo = {}]
  <2>1. r2.safe = r.safe /\ r2.saved = file.params /\ r2.done = {} /\ r2.todo = {}
    BY DEF Restore
  <2>2. restores' = (restores \ {r}) \cup {r2} /\ unclear' = unclear \cup Unmarked(r)
    BY <1>1 DEF ReadSnapshot, Keep
  <2> HIDE DEF r2
  <2>3. SUFFICES ASSUME NEW i \in DOMAIN controller, controller[i].name \notin unclear'
                 PROVE  Clean(i)'
    BY DEF AllClean
  <2> DEFINE n == controller[i].name
  <2>4. Clean(i) /\ n \notin Unmarked(r)
    BY <2>2, <2>3 DEF AInv, AllClean
  <2>5. ASSUME Marked(r2, i, n)
        PROVE  r \in restores /\ Follows(r2, r, i, n)
    <3>1. i \in DOMAIN file.params /\ file.params[i].name = n /\ ~r.safe /\ r.todo = {}
      BY <1>1, <2>1, <2>5 DEF Marked
    <3>2. PICK k \in DOMAIN r.saved : r.saved[k].name = n
      BY <2>4, <3>1 DEF Unmarked, NamesIn
    <3>3. k = i
      BY <3>1, <3>2, SameIndex DEF AInv, CInv
    <3>4. Marked(r, i, n)
      BY <3>1, <3>2, <3>3 DEF Marked
    <3> QED
      BY <2>1, <3>1, <3>2, <3>4 DEF Follows
  <2>6. RestorersKept(i)
    BY <2>2, <2>4, <2>5, OneRestorer
  <2> QED
    BY <2>4, <2>6, CleanKept DEF Writers
<1>2. CASE file.state # "saved"
  <2>1. restores' \in SUBSET restores /\ UNCHANGED unclear
    BY <1>2 DEF ReadSnapshot, Post
  <2> QED
    BY <2>1, NothingMuddled
<1> QED
  BY <1>1, <1>2

\* A restore that meets no other write marks each setting of its file before
\* it changes any.
LEMMA MarkNextClean ==
  ASSUME AInv, NEW r \in Restore, Sound(r), Named(r.saved), r.pc = "marking", r.done = {},
         Alive(r), r \in restores \/ r.safe \/ r.todo = DOMAIN r.saved, MarkNext(r),
         UNCHANGED <<snapshot, controller, poll, writes>>
  PROVE  AllClean'
<1>1. CASE r.todo = {}
  BY <1>1, ReadSnapshotClean DEF MarkNext
<1>2. CASE r.todo # {}
  <2> DEFINE j == First(r.todo)
             n == r.saved[j].name
             r2 == [r EXCEPT !.todo = r.todo \ {j}]
  <2>1. j \in r.todo /\ j \in DOMAIN r.saved
    BY <1>2, FirstType DEF Sound
  <2>2. /\ restores' = (restores \ {r}) \cup {r2}
        /\ selfWrites' = IF r.live THEN selfWrites \cup {n} ELSE selfWrites
        /\ unclear' = IF r.live /\ Unsettled(n, restores \ {r})
                      THEN unclear \cup {n} ELSE unclear
    BY <1>2 DEF MarkNext, Keep
  <2>3. r2.safe = r.safe /\ r2.saved = r.saved /\ r2.done = {} /\ r2.pc = "marking"
        /\ r2.todo = r.todo \ {j}
    BY DEF Restore
  <2>4. r.saved[j].name = n
    OBVIOUS
  <2> HIDE DEF j, n, r2
  <2>5. SUFFICES ASSUME NEW i \in DOMAIN controller, controller[i].name \notin unclear'
                 PROVE  Clean(i)'
    BY DEF AllClean
  <2>6. Clean(i) /\ (controller[i].name = n => r.live)
    <3>1. controller[i].name \notin unclear
      BY <2>2, <2>5
    <3>2. n \in NamesIn(r.saved)
      BY <2>1, <2>4 DEF NamesIn
    <3> QED
      BY <3>1, <3>2 DEF AInv, AllClean, Alive
  <2>7. CASE controller[i].name # n
    <3> DEFINE m == controller[i].name
    <3>1. Marked(r2, i, m) => r \in restores /\ Follows(r2, r, i, m)
      BY <2>3, <2>4, <2>7 DEF Marked, Follows
    <3>2. RestorersKept(i)
      BY <2>2, <2>6, <3>1, OneRestorer
    <3> QED
      BY <2>2, <2>6, <2>7, <3>2, CleanKept DEF Writers
  <2>8. CASE controller[i].name = n
    <3>1. i = j
      BY <2>1, <2>4, <2>8, SameIndex DEF AInv, CInv
    <3>2. ~Unsettled(n, restores \ {r})
      BY <2>2, <2>5, <2>6, <2>8
    <3>3. n \notin selfWrites /\ Writers(i) = {} /\ Writers(i)' = {}
      BY <2>8, <3>2 DEF Unsettled, Writers
    <3>4. \A s \in Restorers(i)' : s = r2
      BY <2>2, <2>8, <3>2 DEF Unsettled, Restorers, Marked, NamesIn
    <3>5. Held(i)' = Before(i)' /\ Due(i)'
      BY <2>2, <2>6, <2>8, <3>3 DEF Clean, Held, Before, Due
    <3>6. poll'.busy => poll'.data[i].value \in {Before(i)', Held(i)'}
      BY <2>6 DEF Clean, Held, Before
    <3>7. i \notin r2.done
      BY <2>3
    <3> QED
      BY <3>3, <3>4, <3>5, <3>6, <3>7 DEF Clean
  <2> QED
    BY <2>7, <2>8
<1> QED
  BY <1>1, <1>2

LEMMA RestoreCallClean ==
  ASSUME AInv, NEW id \in RestoreId, RestoreCall(id)
  PROVE  AllClean'
<1> DEFINE r == NewRestore(id)
<1>1. r \in Restore /\ Sound(r) /\ r.pc = "marking"
  BY NewRestoreSound DEF AInv, CInv, IInv
<1>2. /\ r.done = {} /\ r.safe = safe /\ Alive(r) /\ r.saved = file.params
      /\ r.todo = DOMAIN r.saved
  BY DEF NewRestore, Alive
<1>3. UNCHANGED <<snapshot, controller, poll, writes>>
  BY DEF RestoreCall, envVars, pollVars
<1>4. Named(r.saved)
  BY <1>2 DEF AInv, CInv
<1>5. safe \in BOOLEAN /\ file.state \in {"absent", "saved", "broken"}
  BY DEF AInv, CInv, IInv, TypeOK
<1> HIDE DEF r
<1>6. CASE safe \/ file.state = "absent"
  <2>1. ReadSnapshot(r) /\ UNCHANGED selfWrites
    BY <1>6 DEF RestoreCall, r
  <2> QED
    BY <1>1, <1>2, <1>3, <1>4, <1>6, <2>1, ReadSnapshotClean
<1>7. CASE ~safe /\ file.state = "saved"
  <2>1. MarkNext(r)
    BY <1>7 DEF RestoreCall, r
  <2> QED
    BY <1>1, <1>2, <1>3, <1>4, <1>7, <2>1, MarkNextClean
<1>8. CASE ~safe /\ file.state = "broken"
  BY <1>3, <1>8, NothingMuddled DEF RestoreCall
<1> QED
  BY <1>5, <1>6, <1>7, <1>8

LEMMA RestoreMarkedClean ==
  ASSUME AInv, NEW r \in restores, RestoreMarked(r)
  PROVE  AllClean'
<1>1. r \in Restore /\ Sound(r) /\ r.pc = "marking" /\ MarkNext(r)
  BY DEF RestoreMarked, AInv, CInv, IInv, AllSound
<1>2. r.done = {} /\ Alive(r) /\ Named(r.saved)
  BY <1>1 DEF AInv, CInv, Faithful
<1>3. UNCHANGED <<snapshot, controller, poll, writes>>
  BY DEF RestoreMarked, envVars, pollVars
<1> QED
  BY <1>1, <1>2, <1>3, MarkNextClean

\* A restore that goes on without marking or writing anything.
LEMMA KeepClean ==
  ASSUME AInv, NEW r \in restores, NEW r2, Keep(r, r2), \A i, n : Follows(r2, r, i, n),
         UNCHANGED <<snapshot, selfWrites, unclear, controller, poll, writes>>
  PROVE  AllClean'
<1>1. SUFFICES ASSUME NEW i \in DOMAIN controller, controller[i].name \notin unclear
               PROVE  Clean(i)'
  BY DEF AllClean
<1>2. Clean(i)
  BY <1>1 DEF AInv, AllClean
<1>3. RestorersKept(i)
  BY <1>2, OneRestorer DEF Keep
<1> QED
  BY <1>2, <1>3, CleanKept DEF Writers

LEMMA RestoreAnsweredClean ==
  ASSUME AInv, NEW r \in restores, RestoreAnswered(r)
  PROVE  AllClean'
<1> DEFINE r2 == [r EXCEPT !.pc = "read", !.differing = Differing(r.saved, controller),
                           !.quiet = TRUE]
<1>1. r \in Restore /\ r.pc = "reading" /\ Keep(r, r2)
  BY DEF RestoreAnswered, AInv, CInv, IInv, AllSound
<1>2. r2.safe = r.safe /\ r2.saved = r.saved /\ r2.done = r.done /\ r2.pc = "read"
  BY <1>1 DEF Restore
<1> HIDE DEF r2
<1>3. \A i, n : Follows(r2, r, i, n)
  BY <1>1, <1>2 DEF Follows, Marked
<1> QED
  BY <1>1, <1>3, KeepClean DEF RestoreAnswered, detectorVars, envVars, pollVars

LEMMA PostClean ==
  ASSUME AInv, NEW r, NEW title, NEW ok, NEW bad, Post(r, title, ok, bad),
         UNCHANGED <<snapshot, selfWrites, unclear, controller, poll, writes>>
  PROVE  AllClean'
  BY NothingMuddled DEF Post

LEMMA RestoreReadClean ==
  ASSUME AInv, NEW r \in restores, RestoreRead(r)
  PROVE  AllClean'
<1> DEFINE r2 == [r EXCEPT !.pc = "writing", !.todo = r.differing]
<1>1. r \in Restore /\ r.pc = "read" /\ r.safe \in BOOLEAN
  BY DEF RestoreRead, AInv, CInv, IInv, AllSound, Restore
<1>2. r2.safe = r.safe /\ r2.saved = r.saved /\ r2.done = r.done /\ r2.pc = "writing"
  BY <1>1 DEF Restore
<1>3. Keep(r, r2) \/ Post(r, "nothing", {}, {}) \/ Post(r, "preview", {}, {})
  BY <1>1 DEF RestoreRead
<1> HIDE DEF r2
<1>4. \A i, n : Follows(r2, r, i, n)
  BY <1>1, <1>2 DEF Follows, Marked
<1>5. UNCHANGED <<snapshot, selfWrites, unclear, controller, poll, writes>>
  BY DEF RestoreRead, detectorVars, envVars, pollVars
<1> QED
  BY <1>3, <1>4, <1>5, KeepClean, PostClean

LEMMA RestoreWrittenClean ==
  ASSUME AInv, NEW r \in restores, RestoreWritten(r)
  PROVE  AllClean'
<1>1. r \in Restore /\ r.pc = "writing"
  BY DEF RestoreWritten, AInv, CInv, IInv, AllSound
<1>2. PICK ok \in BOOLEAN : NextWrite(r, Counted(r, ok))
  BY DEF RestoreWritten
<1> DEFINE r2 == Counted(r, ok)
<1>3. r2.safe = r.safe /\ r2.saved = r.saved /\ r2.done = r.done /\ r2.pc = r.pc
  BY <1>1 DEF Restore, Counted
<1>4. Keep(r, r2) \/ Post(r, IF r2.failed = {} THEN "complete" ELSE "failed",
                          r2.acked, r2.failed)
  BY <1>2 DEF NextWrite
<1> HIDE DEF r2
<1>5. \A i, n : Follows(r2, r, i, n)
  BY <1>1, <1>3 DEF Follows, Marked
<1>6. UNCHANGED <<snapshot, selfWrites, unclear, controller, poll, writes>>
  BY DEF RestoreWritten, detectorVars, envVars, pollVars
<1> QED
  BY <1>4, <1>5, <1>6, KeepClean, PostClean

\* The current write of a restore is obeyed, for the first time or again.
LEMMA RestoreObeyedClean ==
  ASSUME AInv, NEW r \in restores, RestoreObeyed(r)
  PROVE  AllClean'
<1> DEFINE j == First(r.todo)
           v == r.saved[j].value
           r2 == [r EXCEPT !.done = @ \cup {j}]
<1>0. /\ CInv /\ controller \in Menu /\ restores \in SUBSET Restore
      /\ r \in Restore /\ Sound(r) /\ r.pc = "writing" /\ ~r.safe
      /\ UNCHANGED <<snapshot, selfWrites, poll, writes, unclear>>
  BY DEF RestoreObeyed, AInv, CInv, IInv, TypeOK, AllSound, Alive, detectorVars, pollVars
<1>1. j \in DOMAIN r.saved
  BY <1>0, FirstType DEF Sound
<1>2. j \in DOMAIN controller /\ r.saved[j].name = controller[j].name
  <2>1. PICK k \in DOMAIN controller : controller[k].name = r.saved[j].name
    BY DEF RestoreObeyed, Accepts
  <2>2. Named(r.saved) /\ Named(controller)
    BY <1>0 DEF CInv, Faithful
  <2> QED
    BY <1>1, <2>1, <2>2, SameIndex
<1>3. /\ Accepts(controller[j].name, v)
      /\ controller' = Assign(controller, controller[j].name, v)
      /\ restores' = Disturbed(restores \ {r}) \cup {r2}
  BY <1>2 DEF RestoreObeyed
<1>4. r2.safe = r.safe /\ r2.saved = r.saved /\ r2.done = r.done \cup {j} /\ r2.pc = r.pc
      /\ r2.todo = r.todo
  BY <1>0 DEF Restore
<1> HIDE DEF j, v, r2
<1>5. SUFFICES ASSUME NEW i \in DOMAIN controller, controller'[i].name \notin unclear
               PROVE  Clean(i)'
  BY <1>0, <1>3, AssignShape DEF AllClean
<1>6. /\ controller'[i].name = controller[i].name
      /\ i # j => controller'[i] = controller[i]
  BY <1>0, <1>2, <1>3, AssignShape, OtherName
<1>7. Clean(i)
  BY <1>5, <1>6 DEF AInv, AllClean
<1> DEFINE m == controller[i].name
<1>8. ASSUME NEW s \in restores', s # r2
      PROVE  \E t \in restores \ {r} : Follows(s, t, i, m) /\ s = [t EXCEPT !.quiet = FALSE]
  <2> DEFINE rs == restores \ {r}
  <2>1. s \in Disturbed(rs) /\ rs \in SUBSET Restore
    BY <1>0, <1>3, <1>8
  <2>2. \E t \in rs : /\ \A k, n : Follows(s, t, k, n)
                      /\ s = [t EXCEPT !.quiet = FALSE]
    BY <2>1, DisturbedRestorers
  <2> QED
    BY <2>2
<1>9. ASSUME NEW s \in Restorers(i)', s # r2
      PROVE  \E t \in Restorers(i) : /\ t # r /\ Follows(s, t, i, m)
                                 /\ s = [t EXCEPT !.quiet = FALSE]
  BY <1>6, <1>8, <1>9 DEF Restorers, Follows
<1>10. r2 \in Restorers(i)' => r \in Restorers(i)
  BY <1>4, <1>6 DEF Restorers, Marked
<1>11. CASE i # j
  <2>1. Follows(r2, r, i, m)
    BY <1>4, <1>11 DEF Follows, Marked
  <2>2. RestorersKept(i)
    BY <1>7, <1>9, <1>10, <2>1 DEF RestorersKept, Clean
  <2> QED
    BY <1>0, <1>6, <1>7, <1>11, <2>2, CleanKept DEF Writers
<1>12. CASE i = j
  <2>1. r \in Restorers(i)
    BY <1>0, <1>1, <1>2, <1>12 DEF Restorers, Marked
  <2>2. Writers(i) = {} /\ \A t \in Restorers(i) : t = r
    BY <1>7, <2>1 DEF Clean
  <2>3. Writers(i)' = {} /\ \A s \in Restorers(i)' : s = r2
    BY <1>0, <1>6, <1>9, <2>2 DEF Writers
  <2>4. Held(i)' = v
    <3>1. v \in controller[j].writable
      BY <1>0, <1>2, <1>3, AcceptedAt
    <3> QED
      BY <1>0, <1>2, <1>3, <1>12, <3>1, AssignHeld DEF Held
  <2>5. Due(i) \/ Held(i) = v
    BY <1>7, <1>12, <2>1 DEF Clean, v
  <2>6. /\ poll'.busy => poll'.data[i].value \in {Before(i)', Held(i)'}
        /\ controller'[i].name \notin selfWrites' => Held(i)' = Before(i)'
    BY <1>0, <1>6, <1>7, <2>4, <2>5, OwnWrite
  <2>7. i \in r2.done /\ r2.saved[i].value = v
    BY <1>4, <1>12 DEF v
  <2> QED
    BY <2>3, <2>4, <2>6, <2>7 DEF Clean
<1> QED
  BY <1>11, <1>12

-----------------------------------------------------------------------------
(* The restores that mark nothing are known to be muddled. *)

\* Names stay muddled until the next reload.
LEMMA MuddledStays ==
  ASSUME CInv, [Next]_vars
  PROVE  unclear \in SUBSET unclear' \/ Reload \/ Restart
<1>1. ASSUME NEW r, MarkNext(r) \/ ReadSnapshot(r)
      PROVE  unclear \in SUBSET unclear'
  BY <1>1 DEF MarkNext, ReadSnapshot
<1>2. ASSUME RestoreStep
      PROVE  unclear \in SUBSET unclear'
  <2>1. safe \in BOOLEAN /\ file.state \in {"absent", "saved", "broken"}
    BY DEF CInv, IInv, TypeOK
  <2>2. (\E r : MarkNext(r) \/ ReadSnapshot(r)) \/ UNCHANGED unclear
    BY <1>2, <2>1 DEF RestoreStep, RestoreCall, RestoreMarked, RestoreAnswered, RestoreRead,
       RestoreUnread, RestoreObeyed, RestoreWritten
  <2> QED
    BY <1>1, <2>2
<1> QED
  BY <1>2 DEF Next, GuestChange, ChangeOptions, PollRead, PollReturn, PollFailed, EntityStep,
     SetValue, Toggle, BeginWrite, WriteObeyed, WriteAcknowledged, WriteFailed, BackupSettings,
     vars

\* s is r later on, or a new restore.
Descends(s, r) ==
    /\ s.pc = "writing" => ~s.safe
    /\ \/ s.live
       \/ r \in restores /\ ~r.live
          /\ NamesIn(s.saved) \in SUBSET (NamesIn(r.saved) \cup unclear')

LEMMA SameDescends ==
  ASSUME AInv, NEW r \in restores, NEW s, s.live = r.live, s.saved = r.saved,
         (s.safe = r.safe /\ s.pc = r.pc) \/ s.pc # "writing" \/ ~s.safe
  PROVE  Descends(s, r)
<1>1. r \in Restore
  BY DEF AInv, CInv, IInv, AllSound
<1> QED
  BY <1>1 DEF Descends, AInv, Alive, Restore

LEMMA DisturbedDescends ==
  ASSUME AInv, NEW s \in Disturbed(restores)
  PROVE  \E t : Descends(s, t)
<1>1. PICK t \in restores : s = [t EXCEPT !.quiet = FALSE]
  BY DEF Disturbed
<1>2. t \in Restore
  BY DEF AInv, CInv, IInv, AllSound
<1>3. s.live = t.live /\ s.safe = t.safe /\ s.pc = t.pc /\ s.saved = t.saved
  BY <1>1, <1>2 DEF Restore
<1> QED
  BY <1>3, SameDescends

LEMMA MarkNextDescends ==
  ASSUME AInv, NEW r \in Restore, r.pc = "marking", r \in restores \/ r.live,
         MarkNext(r) \/ ReadSnapshot(r), NEW s \in restores'
  PROVE  \E t : Descends(s, t)
<1> DEFINE r1 == [r EXCEPT !.pc = "reading", !.saved = file.params, !.todo = {}]
           r2 == [r EXCEPT !.todo = r.todo \ {First(r.todo)}]
<1>1. /\ r1.live = r.live /\ r1.pc = "reading" /\ r1.saved = file.params
      /\ r2.live = r.live /\ r2.pc = "marking" /\ r2.saved = r.saved
      /\ r.live \in BOOLEAN
  BY DEF Restore
<1>2. \/ s \in restores
      \/ s = r1 /\ unclear' = unclear \cup Unmarked(r)
      \/ s = r2
  BY DEF MarkNext, ReadSnapshot, Keep, Post
<1> HIDE DEF r1, r2
<1>3. CASE s \in restores
  BY <1>3, SameDescends
<1>4. CASE s = r1 /\ unclear' = unclear \cup Unmarked(r)
  <2>1. NamesIn(s.saved) \in SUBSET (NamesIn(r.saved) \cup unclear')
    BY <1>1, <1>4 DEF Unmarked
  <2> QED
    BY <1>1, <1>4, <2>1 DEF Descends
<1>5. CASE s = r2
  BY <1>1, <1>5 DEF Descends
<1> QED
  BY <1>2, <1>3, <1>4, <1>5

LEMMA RestoreStepDescends ==
  ASSUME AInv, RestoreStep, NEW s \in restores'
  PROVE  \E t : Descends(s, t)
<1> DEFINE Goal == \E t : Descends(s, t)
<1>0. restores \in SUBSET Restore
  BY DEF AInv, CInv, IInv, AllSound
<1>1. ASSUME NEW id \in RestoreId, RestoreCall(id)
      PROVE  Goal
  <2> DEFINE r == NewRestore(id)
  <2>1. r \in Restore /\ r.pc = "marking" /\ r.live
    BY NewRestoreSound DEF AInv, CInv, IInv, NewRestore
  <2>2. safe \in BOOLEAN /\ file.state \in {"absent", "saved", "broken"}
    BY DEF AInv, CInv, IInv, TypeOK
  <2>3. MarkNext(r) \/ ReadSnapshot(r) \/ UNCHANGED restores
    BY <1>1, <2>2 DEF RestoreCall
  <2> HIDE DEF r
  <2>4. UNCHANGED restores => Goal
    BY SameDescends
  <2> QED
    BY <2>1, <2>3, <2>4, MarkNextDescends
<1>2. ASSUME NEW r \in restores, RestoreMarked(r)
      PROVE  Goal
  BY <1>0, <1>2, MarkNextDescends DEF RestoreMarked
<1>3. ASSUME NEW r \in restores, NEW r2, r2.live = r.live, r2.safe = r.safe,
             r2.saved = r.saved, r2.pc = r.pc \/ r2.pc # "writing" \/ ~r2.safe,
             restores' \in SUBSET (restores \cup {r2})
      PROVE  Goal
  <2>1. s \in restores \/ s = r2
    BY <1>3
  <2> QED
    BY <1>3, <2>1, SameDescends
<1>4. ASSUME restores' \in SUBSET restores
      PROVE  Goal
  BY <1>4, SameDescends
<1>5. ASSUME NEW r \in restores, RestoreAnswered(r)
      PROVE  Goal
  <2> DEFINE r2 == [r EXCEPT !.pc = "read", !.differing = Differing(r.saved, controller),
                             !.quiet = TRUE]
  <2>1. r2.live = r.live /\ r2.safe = r.safe /\ r2.saved = r.saved /\ r2.pc = "read"
    BY <1>0 DEF Restore
  <2>2. restores' \in SUBSET (restores \cup {r2})
    BY <1>5 DEF RestoreAnswered, Keep
  <2> HIDE DEF r2
  <2> QED
    BY <1>3, <2>1, <2>2
<1>6. ASSUME NEW r \in restores, RestoreRead(r)
      PROVE  Goal
  <2> DEFINE r2 == [r EXCEPT !.pc = "writing", !.todo = r.differing]
  <2>1. r2.live = r.live /\ r2.safe = r.safe /\ r2.saved = r.saved /\ r.safe \in BOOLEAN
    BY <1>0 DEF Restore
  <2>2. \/ restores' \in SUBSET restores
        \/ ~r.safe /\ restores' \in SUBSET (restores \cup {r2})
    BY <1>6, <2>1 DEF RestoreRead, Keep, Post
  <2> HIDE DEF r2
  <2> QED
    BY <1>3, <1>4, <2>1, <2>2
<1>7. ASSUME NEW r \in restores, RestoreUnread(r)
      PROVE  Goal
  BY <1>4, <1>7 DEF RestoreUnread, Post
<1>8. ASSUME NEW r \in restores, RestoreObeyed(r)
      PROVE  Goal
  <2> DEFINE r2 == [r EXCEPT !.done = @ \cup {First(r.todo)}]
  <2>1. r2.live = r.live /\ r2.safe = r.safe /\ r2.saved = r.saved /\ r2.pc = r.pc
    BY <1>0 DEF Restore
  <2>2. restores' = Disturbed(restores \ {r}) \cup {r2}
    BY <1>8 DEF RestoreObeyed
  <2>3. Disturbed(restores \ {r}) \in SUBSET Disturbed(restores)
    BY DEF Disturbed
  <2> HIDE DEF r2
  <2>4. s = r2 \/ s \in Disturbed(restores)
    BY <2>2, <2>3
  <2>5. s = r2 => Goal
    BY <2>1, SameDescends
  <2> QED
    BY <2>4, <2>5, DisturbedDescends
<1>9. ASSUME NEW r \in restores, RestoreWritten(r)
      PROVE  Goal
  <2>1. PICK ok \in BOOLEAN : NextWrite(r, Counted(r, ok))
    BY <1>9 DEF RestoreWritten
  <2> DEFINE r2 == Counted(r, ok)
  <2>2. r2.live = r.live /\ r2.safe = r.safe /\ r2.saved = r.saved /\ r2.pc = r.pc
    BY <1>0 DEF Restore, Counted
  <2>3. restores' \in SUBSET (restores \cup {r2})
    BY <2>1 DEF NextWrite, Keep, Post
  <2> HIDE DEF r2
  <2> QED
    BY <1>3, <2>2, <2>3
<1> QED
  BY <1>1, <1>2, <1>5, <1>6, <1>7, <1>8, <1>9 DEF RestoreStep

LEMMA StepAlive ==
  ASSUME AInv, [Next]_vars, NEW s \in restores'
  PROVE  Alive(s)'
<1>0. restores \in SUBSET Restore
  BY DEF AInv, CInv, IInv, AllSound
<1>1. CASE Reload
  <2>1. \A t \in Restore : LET t2 == [t EXCEPT !.live = FALSE]
                           IN  t2.safe = t.safe /\ t2.pc = t.pc /\ t2.saved = t.saved
    BY DEF Restore
  <2>2. PICK t \in restores : s = [t EXCEPT !.live = FALSE]
    BY <1>1 DEF Reload
  <2>3. NamesIn(t.saved) \in SUBSET unclear'
    BY <1>1 DEF Reload, InFlight
  <2> QED
    BY <1>0, <2>1, <2>2, <2>3 DEF AInv, Alive
<1>2. CASE Restart
  BY <1>2 DEF Restart
<1>3. CASE ~Reload /\ ~Restart
  <2>1. unclear \in SUBSET unclear'
    BY <1>3, MuddledStays DEF AInv
  <2>2. \/ RestoreStep \/ restores' = Disturbed(restores)
        \/ restores' \in SUBSET restores
    BY <1>3 DEF Next, GuestChange, ChangeOptions, PollRead, PollReturn, PollFailed, EntityStep,
       SetValue, Toggle, BeginWrite, WriteObeyed, WriteAcknowledged, WriteFailed,
       BackupSettings, vars, jobVars
  <2>3. PICK t : Descends(s, t)
    BY <2>2, RestoreStepDescends, DisturbedDescends, SameDescends
  <2>4. s.live \/ NamesIn(s.saved) \in SUBSET unclear'
    BY <2>1, <2>3 DEF Descends, AInv, Alive
  <2> QED
    BY <2>3, <2>4 DEF Descends, Alive
<1> QED
  BY <1>1, <1>2, <1>3

-----------------------------------------------------------------------------
(* The theorem. *)

LEMMA InitMarked ==
  ASSUME Init
  PROVE  AInv
<1>1. Shaped
  BY ExtractNames DEF Init, Shaped, IdlePoll
<1>2. AllClean
  <2>1. \A i \in DOMAIN controller : Held(i) = Before(i)
    BY ExtractNames DEF Init, Held, Before
  <2>2. \A i : Writers(i) = {} /\ Restorers(i) = {}
    BY DEF Init, Writers, Restorers
  <2> QED
    BY <2>1, <2>2 DEF Init, AllClean, Clean, IdlePoll
<1> QED
  BY <1>1, <1>2, InitFaithful DEF Init, AInv

LEMMA StepClean ==
  ASSUME AInv, [Next]_vars
  PROVE  AllClean'
<1>1. CASE \E i \in Index, v \in Value : GuestChange(i, v)
  BY <1>1, GuestChangeClean
<1>2. CASE ChangeOptions
  BY <1>2, NothingMuddled DEF ChangeOptions, detectorVars, pollVars, jobVars
<1>3. CASE PollRead \/ PollReturn
  BY <1>3, PollReadClean, PollReturnClean
<1>4. CASE PollFailed
  BY <1>4, NothingMuddled DEF PollFailed, detectorVars, envVars, jobVars, IdlePoll
<1>5. CASE Reload \/ Restart
  BY <1>5, ReloadClean
<1>6. CASE EntityStep
  <2>1. ASSUME NEW w \in writes, WriteAcknowledged(w)
        PROVE  AllClean'
    BY <2>1, NothingMuddled DEF WriteAcknowledged, detectorVars, envVars, pollVars
  <2> QED
    BY <1>6, <2>1, BeginWriteClean, WriteObeyedClean, WriteFailedClean
       DEF EntityStep, SetValue, Toggle
<1>7. CASE RestoreStep
  <2>1. ASSUME NEW r \in restores, RestoreUnread(r)
        PROVE  AllClean'
    BY <2>1, PostClean DEF RestoreUnread, detectorVars, envVars, pollVars
  <2> QED
    BY <1>7, <2>1, RestoreCallClean, RestoreMarkedClean, RestoreAnsweredClean,
       RestoreReadClean, RestoreObeyedClean, RestoreWrittenClean DEF RestoreStep
<1>8. CASE BackupSettings
  BY <1>8, NothingMuddled DEF BackupSettings, detectorVars, envVars, pollVars, jobVars
<1>9. CASE UNCHANGED vars
  BY <1>9, NothingMuddled DEF vars, detectorVars, envVars, pollVars, jobVars
<1> QED
  BY <1>1, <1>2, <1>3, <1>4, <1>5, <1>6, <1>7, <1>8, <1>9 DEF Next

\* What a poll reports as external has been muddled.
LEMMA ReportIsGuests ==
  ASSUME AInv, PollReturn, NEW c \in External(poll.data)
  PROVE  c.name \in unclear
<1>1. poll.busy /\ c \in Changed(poll.data) /\ ~ByMarker(poll.data, c)
  BY ExternalType DEF PollReturn, External, AInv, Shaped, ByRevert, Observed
<1>2. c.name \notin selfWrites
  BY <1>1, MarkExplains
<1>3. /\ c.index \in DOMAIN controller /\ c.name = controller[c.index].name
      /\ poll.data[c.index].value # Before(c.index)
  BY <1>1, ChangedSetting
<1>4. ~Clean(c.index)
  BY <1>1, <1>2, <1>3 DEF Clean
<1> QED
  BY <1>3, <1>4 DEF AInv, AllClean

\* A poll reports as external only what was changed at the controller, or a write
\* that met another of its name, was obeyed and not acknowledged, was running at a
\* reload, or is of a setting that its restore had not marked: every other write is
\* the integration's own, however polls, reloads and restores fall between marking,
\* obeying and acknowledging.
THEOREM WritesAreAttributed == Spec => CleanWritesAttributed
<1>1. Init => AInv
  BY InitMarked
<1>2. AInv /\ [Next]_vars => AInv'
  BY StepFaithful, StepShaped, StepClean, StepAlive DEF AInv
<1>3. AInv /\ [Next]_vars =>
        [PollReturn => {c.name : c \in External(poll.data)} \subseteq unclear]_vars
  BY ReportIsGuests
<1> QED
  BY <1>1, <1>2, <1>3, PTL DEF Spec, CleanWritesAttributed
=============================================================================
