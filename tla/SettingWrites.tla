---------------------------- MODULE SettingWrites ----------------------------
(***************************************************************************)
(* Everything the integration writes to the controller on its owner's      *)
(* order, other than a Revert: a number or select entity sets one setting, *)
(* a toggle sets one bit of a bitmask setting, a restore writes back a     *)
(* snapshot file that a backup saved.  They run as coroutines beside the   *)
(* settings poll, whose change detector must tell their changes from those *)
(* of a guest.                                                             *)
(*                                                                         *)
(* The requests of all coroutines queue for one lock, and one that times   *)
(* out queues again behind the others (RevertActions has that queue).  So  *)
(* they may end in any order, and every attempt at a write may be obeyed   *)
(* whatever comes of it.  A coroutine runs on when its request has ended;  *)
(* each action goes from there to its next await.                          *)
(***************************************************************************)
EXTENDS ChangeDetector

CONSTANTS
    Bit,         \* the bits of an integer
    MaskName,    \* the bitmask setting (settings_param_name) ...
    MaskIndex,   \* ... and its index (settings_param)
    Toggles,     \* BITMASK_SELECT_DEFINITIONS of that setting
    Menus,       \* the settings the controller can hold
    WriteId,     \* bounds the entity writes running at once
    RestoreId,   \* bounds the restores running at once
    MaxGuest     \* bounds the changes made at the controller

\* A value is the set of the one bits of an integer.
ASSUME ValueAssumption == Value = SUBSET Bit
ASSUME MaskAssumption == MaskName \in Name /\ MaskIndex \in Index
ASSUME TogglesAssumption == Toggles \subseteq [mask : SUBSET Bit, clears : BOOLEAN]
ASSUME MenusAssumption == Menus \subseteq Menu
\* One setting, one index: a name is never found at two of them.
ASSUME NamesAssumption ==
    \A m1, m2 \in Menus : \A i \in DOMAIN m1, j \in DOMAIN m2 :
        m1[i].name = m2[j].name => i = j
ASSUME LimitsAssumption == MaxGuest \in Nat

VARIABLES
    controller,  \* the settings the controller holds
    slowData,    \* the slow coordinator's data
    poll,        \* its refresh, and the settings that it has read
    safe,        \* Safe Mode in the entry's options
    file,        \* the Default snapshot on disk
    writes,      \* running entity writes
    restores,    \* running restores
    notice,      \* the notification that a restore has posted in the last step
    guestChanges, unclear  \* history, for the properties only; unclear are the names
                           \* whose changes the detector may ascribe to a guest

envVars == <<controller, safe, guestChanges>>
pollVars == <<slowData, poll>>
jobVars == <<writes, restores>>
vars == <<detectorVars, envVars, pollVars, jobVars, notice, file, unclear>>

\* The arguments of a running _async_write.  obeyed is history; live says that
\* the entry was not reloaded since.
Write == [id : WriteId, name : Name, value : Value, live : BOOLEAN, obeyed : BOOLEAN]

\* The local variables of a running async_handle_restore.  todo is what is left
\* to mark or to write, acked and failed what the summary counts.  done and
\* quiet are history: what the controller has obeyed, and that nobody else
\* changed it since the restore read it.
Restore == [id : RestoreId, pc : {"marking", "reading", "read", "writing"},
            safe : BOOLEAN, live : BOOLEAN, saved : Snapshot, todo : SUBSET Index,
            differing : SUBSET Index, acked : SUBSET Index, failed : SUBSET Index,
            done : SUBSET Index, quiet : BOOLEAN]

Titles == {"none", "impossible", "unread", "nothing", "preview", "complete", "failed"}

TypeOK ==
    /\ DetectorTypeOK
    /\ controller \in Menu /\ slowData \in Menu
    /\ poll \in [busy : BOOLEAN, data : Menu]
    /\ safe \in BOOLEAN
    /\ file \in [state : {"absent", "saved", "broken"}, params : Snapshot]
    /\ writes \in SUBSET Write
    /\ restores \in SUBSET Restore
    /\ notice \in [title : Titles, restored : SUBSET Index, failed : SUBSET Index]
    /\ guestChanges \in Nat
    /\ unclear \in SUBSET Name

IdlePoll == [busy |-> FALSE, data |-> Nothing]
NoNotice == [title |-> "none", restored |-> {}, failed |-> {}]
Broken == [state |-> "broken", params |-> Nothing]

\* What a backup keeps of the settings: those that can be edited.
Saved(data) ==
    [state |-> "saved",
     params |-> [i \in {j \in DOMAIN data : data[j].writable # {}} |->
                    [name |-> data[i].name, value |-> data[i].value]]]

Init ==
    /\ controller \in Menus
    /\ snapshot = Extract(controller) /\ selfWrites = {} /\ revertWrites = {}
    /\ slowData = controller /\ poll = IdlePoll
    /\ safe \in BOOLEAN
    /\ file \in {[state |-> "absent", params |-> Nothing]} \cup {Saved(m) : m \in Menus}
    /\ writes = {} /\ restores = {}
    /\ notice = NoNotice
    /\ guestChanges = 0 /\ unclear = {}

(***************************************************************************)
(* The environment.                                                        *)
(***************************************************************************)
\* The controller has changed without restore r.
Disturbed(rs) == {[r EXCEPT !.quiet = FALSE] : r \in rs}

GuestChange(i, v) ==
    /\ guestChanges < MaxGuest
    /\ i \in DOMAIN controller /\ v \in controller[i].writable
    /\ controller' = [controller EXCEPT ![i].value = v]
    /\ guestChanges' = guestChanges + 1
    /\ unclear' = unclear \cup {controller[i].name}
    /\ restores' = Disturbed(restores)
    /\ notice' = NoNotice
    /\ UNCHANGED <<detectorVars, safe, pollVars, writes, file>>

\* The options flow stores Safe Mode; the reload it causes comes later.
ChangeOptions ==
    /\ safe' = ~safe
    /\ notice' = NoNotice
    /\ UNCHANGED <<detectorVars, controller, guestChanges, pollVars, jobVars,
                   file, unclear>>

(***************************************************************************)
(* The settings poll.                                                      *)
(***************************************************************************)
PollRead ==
    /\ ~poll.busy
    /\ poll' = [busy |-> TRUE, data |-> controller]
    /\ notice' = NoNotice
    /\ UNCHANGED <<detectorVars, envVars, slowData, jobVars, file, unclear>>

PollReturn ==
    /\ poll.busy
    /\ poll' = IdlePoll
    /\ slowData' = poll.data
    /\ ProcessEditParams(poll.data)
    /\ notice' = NoNotice
    /\ UNCHANGED <<envVars, jobVars, file, unclear>>

\* The refresh fails: the listeners see the old data, in which nothing changed.
PollFailed ==
    /\ poll.busy
    /\ poll' = IdlePoll
    /\ notice' = NoNotice
    /\ UNCHANGED <<detectorVars, envVars, slowData, jobVars, file, unclear>>

\* The names that a snapshot has settings of.
NamesIn(params) == {params[i].name : i \in DOMAIN params}

\* History: the names that running writes and restores write, or may.
InFlight == {w.name : w \in writes} \cup UNION {NamesIn(r.saved) : r \in restores}

\* A reload builds a detector whose baseline is a new first poll; what runs goes
\* on with the old objects, and its marks are with the old detector.  A write that
\* the controller obeys after this is a guest's change to the new one.
Reload ==
    /\ snapshot' = Extract(controller) /\ selfWrites' = {} /\ revertWrites' = {}
    /\ slowData' = controller /\ poll' = IdlePoll
    /\ writes' = {[w EXCEPT !.live = FALSE] : w \in writes}
    /\ restores' = {[r EXCEPT !.live = FALSE] : r \in restores}
    /\ unclear' = InFlight
    /\ notice' = NoNotice
    /\ UNCHANGED <<controller, safe, guestChanges, file>>

\* Home Assistant stops, in the middle of anything, and starts again.
Restart ==
    /\ snapshot' = Extract(controller) /\ selfWrites' = {} /\ revertWrites' = {}
    /\ slowData' = controller /\ poll' = IdlePoll
    /\ writes' = {} /\ restores' = {}
    /\ notice' = NoNotice
    /\ unclear' = {}
    /\ UNCHANGED <<controller, safe, guestChanges, file>>

(***************************************************************************)
(* Entity writes.                                                          *)
(***************************************************************************)
\* Does anyone, rs among them, write n already, or has no poll shown its last write?
Unsettled(n, rs) ==
    \/ n \in selfWrites
    \/ \E w \in writes : w.name = n
    \/ \E r \in rs : n \in NamesIn(r.saved)

\* Mutated form of BeginWrite: the marker is not set before the write.
BeginWrite_Unmarked(id, n, v) ==
    /\ \A w \in writes : w.id # id
    /\ unclear' = IF Unsettled(n, restores) THEN unclear \cup {n} ELSE unclear
    /\ writes' = writes \cup {[id |-> id, name |-> n, value |-> v,
                               live |-> TRUE, obeyed |-> FALSE]}
    /\ notice' = NoNotice
    /\ UNCHANGED <<detectorVars, envVars, pollVars, restores, file>>

\* _async_write up to its await.
BeginWrite(id, n, v) ==
    /\ \A w \in writes : w.id # id
    /\ selfWrites' = selfWrites \cup {n}
    /\ unclear' = IF Unsettled(n, restores) THEN unclear \cup {n} ELSE unclear
    /\ writes' = writes \cup {[id |-> id, name |-> n, value |-> v,
                               live |-> TRUE, obeyed |-> FALSE]}
    /\ notice' = NoNotice
    /\ UNCHANGED <<snapshot, revertWrites, envVars, pollVars, restores, file>>

\* A number or select entity; in Safe Mode it only shows what it would write.
SetValue(id, n, v) == ~safe /\ v \in ValidValue[n] /\ BeginWrite(id, n, v)

\* Mutated form of BitmaskFor: the complement of the mask alone, a negative number.
BitmaskFor_Negative(current, t, on) ==
    IF on # t.clears THEN current \cup t.mask ELSE {"sign"} \cup (Bit \ t.mask)

\* _bitmask_for
BitmaskFor(current, t, on) ==
    IF on # t.clears THEN current \cup t.mask ELSE current \ t.mask

\* A toggle starts from the mask of the last settings poll, not from what the
\* controller holds: two toggles within a poll interval undo each other.
Toggle(id, t, on) ==
    /\ MaskIndex \in DOMAIN slowData /\ ~safe
    /\ BeginWrite(id, MaskName, BitmaskFor(slowData[MaskIndex].value, t, on))

\* Will the controller take v for the setting called n?
Accepts(n, v) ==
    \E i \in DOMAIN controller : controller[i].name = n /\ v \in controller[i].writable

\* An attempt at w reaches the controller, which obeys it.
WriteObeyed(w) ==
    /\ w \in writes /\ Accepts(w.name, w.value)
    /\ controller' = Assign(controller, w.name, w.value)
    /\ writes' = (writes \ {w}) \cup {[w EXCEPT !.obeyed = TRUE]}
    /\ restores' = Disturbed(restores)
    /\ notice' = NoNotice
    /\ UNCHANGED <<detectorVars, safe, guestChanges, pollVars, file, unclear>>

\* The write is acknowledged; it is also logged, and shown by the entity.
WriteAcknowledged(w) ==
    /\ w \in writes /\ w.obeyed
    /\ writes' = writes \ {w}
    /\ notice' = NoNotice
    /\ UNCHANGED <<detectorVars, envVars, pollVars, restores, file, unclear>>

\* It ends without acknowledgement, obeyed or not.  After a refusal or five
\* time-outs the marker is taken back, after an exception it is not.
WriteFailed(w) ==
    /\ w \in writes
    /\ writes' = writes \ {w}
    /\ selfWrites' \in IF w.live THEN {selfWrites, selfWrites \ {w.name}} ELSE {selfWrites}
    /\ unclear' = IF w.obeyed THEN unclear \cup {w.name} ELSE unclear
    /\ notice' = NoNotice
    /\ UNCHANGED <<snapshot, revertWrites, envVars, pollVars, restores, file>>

(***************************************************************************)
(* Restore.                                                                *)
(***************************************************************************)
\* The next of the indices S: the loops follow the file, whose order is any.
First(S) == CHOOSE i \in S : TRUE

\* A restore ends with this notification.
Post(r, title, restored, failed) ==
    /\ notice' = [title |-> title, restored |-> restored, failed |-> failed]
    /\ restores' = restores \ {r}

Keep(r, r2) == restores' = (restores \ {r}) \cup {r2} /\ notice' = NoNotice

\* History: the settings of the file that r has not marked, which are there only
\* if a backup has replaced the file meanwhile.
Unmarked(r) == NamesIn(file.params) \ NamesIn(r.saved)

\* async_restore_settings up to its await.
ReadSnapshot(r) ==
    IF file.state = "saved"
    THEN /\ Keep(r, [r EXCEPT !.pc = "reading", !.saved = file.params, !.todo = {}])
         /\ unclear' = unclear \cup Unmarked(r)
    ELSE Post(r, "impossible", {}, {}) /\ UNCHANGED unclear

\* A round of _async_mark_restore_writes, each of which awaits the database, or
\* what follows the last one.
MarkNext(r) ==
    IF r.todo = {} THEN ReadSnapshot(r) /\ UNCHANGED selfWrites
    ELSE LET n == r.saved[First(r.todo)].name
         IN  /\ Keep(r, [r EXCEPT !.todo = r.todo \ {First(r.todo)}])
             /\ selfWrites' = IF r.live THEN selfWrites \cup {n} ELSE selfWrites
             /\ unclear' = IF r.live /\ Unsettled(n, restores \ {r})
                           THEN unclear \cup {n} ELSE unclear

NewRestore(id) ==
    [id |-> id, pc |-> "marking", safe |-> safe, live |-> TRUE, saved |-> file.params,
     todo |-> DOMAIN file.params, differing |-> {}, acked |-> {}, failed |-> {},
     done |-> {}, quiet |-> TRUE]

\* The service or the button.  Out of Safe Mode the parameters of the file are
\* marked first, and a file that cannot be read ends the call there.
RestoreCall(id) ==
    /\ \A r \in restores : r.id # id
    /\ CASE safe \/ file.state = "absent" ->
              ReadSnapshot(NewRestore(id)) /\ UNCHANGED selfWrites
         [] ~safe /\ file.state = "saved" -> MarkNext(NewRestore(id))
         [] ~safe /\ file.state = "broken" ->
              notice' = NoNotice /\ UNCHANGED <<restores, selfWrites, unclear>>
    /\ UNCHANGED <<snapshot, revertWrites, envVars, pollVars, writes, file>>

RestoreMarked(r) ==
    /\ r \in restores /\ r.pc = "marking"
    /\ MarkNext(r)
    /\ UNCHANGED <<snapshot, revertWrites, envVars, pollVars, writes, file>>

\* Mutated form of Differing: a saved zero counts as no value.
Differing_Truthy(saved, data) ==
    {i \in DOMAIN saved :
        /\ saved[i].name \notin Volatile /\ saved[i].value # {}
        /\ ~(i \in DOMAIN data /\ data[i].value = saved[i].value)}

\* What a restore of saved has to write to a controller that shows data.
Differing(saved, data) ==
    {i \in DOMAIN saved :
        /\ saved[i].name \notin Volatile
        /\ ~(i \in DOMAIN data /\ data[i].value = saved[i].value)}

\* The controller's answer, compared once for the whole restore.
RestoreAnswered(r) ==
    /\ r \in restores /\ r.pc = "reading"
    /\ Keep(r, [r EXCEPT !.pc = "read", !.differing = Differing(r.saved, controller),
                         !.quiet = TRUE])
    /\ UNCHANGED <<detectorVars, envVars, pollVars, writes, file, unclear>>

RestoreRead(r) ==
    /\ r \in restores /\ r.pc = "read"
    /\ CASE r.differing = {} -> Post(r, "nothing", {}, {})
         [] r.differing # {} /\ r.safe -> Post(r, "preview", {}, {})
         [] r.differing # {} /\ ~r.safe ->
              Keep(r, [r EXCEPT !.pc = "writing", !.todo = r.differing])
    /\ UNCHANGED <<detectorVars, envVars, pollVars, writes, file, unclear>>

\* No answer, or an exception.
RestoreUnread(r) ==
    /\ r \in restores /\ r.pc = "reading"
    /\ Post(r, "unread", {}, {})
    /\ UNCHANGED <<detectorVars, envVars, pollVars, writes, file, unclear>>

\* An attempt at the write of r reaches the controller, which obeys it.
RestoreObeyed(r) ==
    /\ r \in restores /\ r.pc = "writing"
    /\ LET p == r.saved[First(r.todo)]
       IN  /\ Accepts(p.name, p.value)
           /\ controller' = Assign(controller, p.name, p.value)
    /\ restores' = Disturbed(restores \ {r}) \cup
                       {[r EXCEPT !.done = @ \cup {First(r.todo)}]}
    /\ notice' = NoNotice
    /\ UNCHANGED <<detectorVars, safe, guestChanges, pollVars, writes, file, unclear>>

\* r after its current write: acknowledged, or refused, timed out or raised.
Counted(r, ok) ==
    [r EXCEPT !.todo = @ \ {First(r.todo)},
              !.acked = IF ok THEN @ \cup {First(r.todo)} ELSE @,
              !.failed = IF ok THEN @ ELSE @ \cup {First(r.todo)}]

\* Mutated form of NextWrite: the first failure ends the restore.
NextWrite_GiveUp(r, r2) ==
    IF r2.todo # {} /\ r2.failed = {} THEN Keep(r, r2)
    ELSE Post(r, IF r2.failed = {} THEN "complete" ELSE "failed", r2.acked, r2.failed)

\* After one write of r, now r2, the next one, or the summary.
NextWrite(r, r2) ==
    IF r2.todo # {} THEN Keep(r, r2)
    ELSE Post(r, IF r2.failed = {} THEN "complete" ELSE "failed", r2.acked, r2.failed)

RestoreWritten(r) ==
    /\ r \in restores /\ r.pc = "writing"
    /\ \E ok \in BOOLEAN : (ok => First(r.todo) \in r.done) /\ NextWrite(r, Counted(r, ok))
    /\ UNCHANGED <<detectorVars, envVars, pollVars, writes, file, unclear>>

(***************************************************************************)
(* Backup, whose own notification no property is about.                    *)
(***************************************************************************)
\* No answer, an exception or no data: the file stays.  Otherwise it is
\* rewritten in place, which can fail at once or half way.  Before its answer
\* a backup changes nothing, so it is one action, of the time of the answer.
BackupSettings ==
    /\ file' \in IF DOMAIN controller # {} THEN {Saved(controller), Broken} ELSE {file}
    /\ notice' = NoNotice
    /\ UNCHANGED <<detectorVars, envVars, pollVars, jobVars, unclear>>

(***************************************************************************)
(* The specification.                                                      *)
(***************************************************************************)
EntityStep ==
    \/ \E id \in WriteId : \/ \E n \in Name, v \in Value : SetValue(id, n, v)
                           \/ \E t \in Toggles, on \in BOOLEAN : Toggle(id, t, on)
    \/ \E w \in writes : WriteObeyed(w) \/ WriteAcknowledged(w) \/ WriteFailed(w)

RestoreStep ==
    \/ \E id \in RestoreId : RestoreCall(id)
    \/ \E r \in restores : \/ RestoreMarked(r) \/ RestoreAnswered(r) \/ RestoreRead(r)
                          \/ RestoreUnread(r) \/ RestoreObeyed(r) \/ RestoreWritten(r)

Next ==
    \/ \E i \in Index, v \in Value : GuestChange(i, v)
    \/ ChangeOptions
    \/ PollRead \/ PollReturn \/ PollFailed
    \/ Reload \/ Restart
    \/ EntityStep \/ RestoreStep \/ BackupSettings

Spec == Init /\ [][Next]_vars

(***************************************************************************)
(* Properties.                                                             *)
(***************************************************************************)
\* A poll reports as a change made at the controller only what was changed there,
\* or one of the writes that the marks cannot tell from it: those that met another
\* write of their name, were obeyed and not acknowledged, were running at a reload
\* (the new detector has neither their mark nor, if it read the settings before the
\* controller obeyed, their value), or are of a setting that a backup put into the
\* file after a restore had marked those of the old file.  Every other write is the
\* integration's own to the detector, however polls (some read before the write,
\* some after), reloads that meet other writes, and restores fall between marking,
\* obeying and acknowledging (_async_write, async_restore_settings, _classify).
CleanWritesAttributed ==
    [][PollReturn => {c.name : c \in External(poll.data)} \subseteq unclear]_vars

\* The restores that end in this step with their summary.
Summarised ==
    {r \in restores : r.pc = "writing" /\ notice' # NoNotice
                      /\ \A s \in restores' : s.id # r.id}

\* The summary counts what differed once, as restored only if it was obeyed.
Tallied(r) ==
    /\ notice'.restored \cup notice'.failed = r.differing
    /\ notice'.restored \cap notice'.failed = {}
    /\ notice'.restored \subseteq r.done
    /\ notice'.title = "complete" <=> notice'.failed = {}

\* One failing write does not keep a restore from the others, and its summary
\* counts every differing setting once, as restored only if the controller
\* took it (the loop and the summary of async_restore_settings).
RestoreTriesEverything == [][\A r \in Summarised : Tallied(r)]_vars

\* After a restore that reports success the controller shows the snapshot:
\* unless somebody else changed it since the restore read it, every setting
\* of the file has its saved value, those that a write by name might have
\* touched and those that needed none included (async_restore_settings; it
\* writes by name, so this needs NamesAssumption).
RestoreConverges ==
    [][\A r \in restores :
         /\ notice' # NoNotice /\ notice'.title \in {"complete", "nothing"}
         /\ \A s \in restores' : s.id # r.id
         /\ r.quiet
         => \A i \in DOMAIN r.saved : r.saved[i].name \notin Volatile =>
               i \in DOMAIN controller' /\ controller'[i].value = r.saved[i].value]_vars
=============================================================================
