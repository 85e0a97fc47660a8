------------------------------ MODULE Displays ------------------------------
(***************************************************************************)
(* What the entities show.  A number, mode or toggle entity follows the    *)
(* settings poll and its own acknowledged writes; as entities do not talk  *)
(* to each other, one is modelled, of any kind, and what the others write  *)
(* counts as changes by a guest.  A sensor follows the Default snapshot    *)
(* file, which it reads in the executor.  Both coordinators redraw them,   *)
(* a setting each time from the last settings poll, which a write or a     *)
(* guest may have made stale.                                              *)
(***************************************************************************)
EXTENDS Naturals, FiniteSets

CONSTANTS
    Value,       \* what the setting can be, and what its entity can show
    WriteId,     \* bounds the writes of the entity that run at once
    RefreshId,   \* bounds the refreshes of the snapshot sensor that overlap
    MaxChanges,  \* bounds the changes of the setting, by a guest or the entity
    MaxSaves,    \* bounds the backups
    MaxReloads   \* bounds the reloads

None == "none"
NoFile == 0  \* no snapshot file, or none that can be read

ASSUME ValueAssumption == None \notin Value
ASSUME LimitsAssumption == MaxChanges \in Nat /\ MaxSaves \in Nat /\ MaxReloads \in Nat

VARIABLES
    keeps,       \* the kind of the entity: does it show on what a poll lacks?
    controller,  \* the setting
    slowData,    \* the slow coordinator's data
    poll,        \* its refresh and what that has read
    shown,       \* what the entity shows
    listening,   \* it has been added to Home Assistant
    writes,      \* its running writes
    file,        \* the number of the saved snapshot, or NoFile
    saving,      \* a backup is writing the file
    refreshes,   \* the snapshot sensor's running refreshes
    info,        \* the number of the snapshot it shows, or NoFile
    changes, saves, reloads,
    had          \* history, for the properties only: what the setting has been

settingVars == <<controller, had, changes>>
pollVars == <<slowData, poll>>
entityVars == <<keeps, shown, listening>>
fileVars == <<file, saving, saves>>
sensorVars == <<refreshes, info>>
vars == <<settingVars, pollVars, entityVars, writes, fileVars, sensorVars, reloads>>

\* A running _async_write; live says that the entity was not reloaded since.
Write == [id : WriteId, value : Value, obeyed : BOOLEAN, live : BOOLEAN]

\* A running _async_refresh, whose executor job may have run.
Refresh == [id : RefreshId, done : BOOLEAN, read : 0 .. MaxSaves]

TypeOK ==
    /\ keeps \in BOOLEAN
    /\ controller \in Value
    /\ slowData \in Value \cup {None} /\ shown \in Value \cup {None}
    /\ poll \in [busy : BOOLEAN, data : Value \cup {None}]
    /\ listening \in BOOLEAN
    /\ writes \in SUBSET Write
    /\ file \in 0 .. MaxSaves /\ saving \in BOOLEAN
    /\ refreshes \in SUBSET Refresh /\ info \in 0 .. MaxSaves
    /\ changes \in 0 .. MaxChanges /\ saves \in 0 .. MaxSaves /\ reloads \in 0 .. MaxReloads
    /\ had \in SUBSET Value

IdlePoll == [busy |-> FALSE, data |-> None]

\* Mutated form of Replies: the parameter's name is taken for its value.
Replies_Name == {"name", None}

\* What a settings poll can read (edit_param_value).
Replies == {controller, None}

\* The snapshot sensor's first refresh.
FirstRefresh == {{[id |-> i, done |-> FALSE, read |-> NoFile]} : i \in RefreshId}

Init ==
    /\ keeps \in BOOLEAN
    /\ controller \in Value /\ had = {controller}
    /\ slowData \in Replies /\ poll = IdlePoll
    /\ shown = slowData /\ listening = FALSE
    /\ writes = {}
    /\ file = NoFile /\ saving = FALSE
    /\ refreshes \in FirstRefresh /\ info = NoFile
    /\ changes = 0 /\ saves = 0 /\ reloads = 0

(***************************************************************************)
(* The controller and the writes of the entity.                            *)
(***************************************************************************)
GuestChange(v) ==
    /\ changes < MaxChanges /\ changes' = changes + 1
    /\ controller' = v /\ had' = had \cup {v}
    /\ UNCHANGED <<pollVars, entityVars, writes, fileVars, sensorVars, reloads>>

NewWrite(id, v) ==
    /\ \A w \in writes : w.id # id
    /\ changes < MaxChanges /\ changes' = changes + 1
    /\ writes' = writes \cup {[id |-> id, value |-> v, obeyed |-> FALSE, live |-> TRUE]}
    /\ UNCHANGED <<controller, had, pollVars, keeps, listening, fileVars, sensorVars, reloads>>

\* Mutated form of BeginWrite: the entity shows the value before it is written.
BeginWrite_Optimistic(id, v) == NewWrite(id, v) /\ shown' = v

\* _async_write up to its await
BeginWrite(id, v) == NewWrite(id, v) /\ UNCHANGED shown

WriteObeyed(w) ==
    /\ w \in writes
    /\ controller' = w.value /\ had' = had \cup {w.value}
    /\ writes' = (writes \ {w}) \cup {[w EXCEPT !.obeyed = TRUE]}
    /\ UNCHANGED <<changes, pollVars, entityVars, fileVars, sensorVars, reloads>>

\* The rest of _async_write: _set_local_state, of the old entity after a reload.
WriteAcknowledged(w) ==
    /\ w \in writes /\ w.obeyed
    /\ writes' = writes \ {w}
    /\ shown' = IF w.live THEN w.value ELSE shown
    /\ UNCHANGED <<settingVars, pollVars, keeps, listening, fileVars, sensorVars, reloads>>

WriteFailed(w) ==
    /\ w \in writes
    /\ writes' = writes \ {w}
    /\ UNCHANGED <<settingVars, pollVars, entityVars, fileVars, sensorVars, reloads>>

(***************************************************************************)
(* The polls and their listeners.                                          *)
(***************************************************************************)
\* Mutated form of Redrawn: an entity that shows a value keeps it.
Redrawn_Once(data) == IF shown = None THEN data ELSE shown

\* _read_current of data: a toggle shows nothing when its setting is missing.
Redrawn(data) == IF data = None /\ keeps THEN shown ELSE data

\* _handle_coordinator_update of the setting entity
Redraw(data) == shown' = IF listening THEN Redrawn(data) ELSE shown

\* The snapshot sensor starts another refresh.
StartRefresh ==
    \E i \in RefreshId :
        /\ \A r \in refreshes : r.id # i
        /\ refreshes' = refreshes \cup {[id |-> i, done |-> FALSE, read |-> NoFile]}

PollRead ==
    /\ ~poll.busy
    /\ \E data \in Replies : poll' = [busy |-> TRUE, data |-> data]
    /\ UNCHANGED <<settingVars, slowData, entityVars, writes, fileVars, sensorVars, reloads>>

PollReturn ==
    /\ poll.busy /\ poll' = IdlePoll
    /\ slowData' = poll.data
    /\ Redraw(poll.data)
    /\ UNCHANGED <<settingVars, keeps, listening, writes, fileVars, sensorVars, reloads>>

\* A failed refresh calls the listeners too, if the one before did not fail.
PollFailed ==
    /\ poll.busy /\ poll' = IdlePoll
    /\ Redraw(slowData) \/ UNCHANGED shown
    /\ UNCHANGED <<settingVars, slowData, keeps, listening, writes, fileVars, sensorVars, reloads>>

\* Mutated form of FastNotified: the polls do not refresh the snapshot sensor.
FastNotified_Unread ==
    /\ Redraw(slowData)
    /\ UNCHANGED <<settingVars, pollVars, keeps, listening, writes, fileVars, sensorVars, reloads>>

\* The fast poll, to whose coordinator the snapshot sensor belongs.
FastNotified ==
    /\ Redraw(slowData)
    /\ StartRefresh
    /\ UNCHANGED <<settingVars, pollVars, keeps, listening, writes, fileVars, info, reloads>>

\* async_added_to_hass: a poll between the constructor and this is missed.
Listen ==
    /\ ~listening /\ listening' = TRUE
    /\ UNCHANGED <<settingVars, pollVars, keeps, shown, writes, fileVars, sensorVars, reloads>>

\* Coordinators and entities are built anew; a write goes on for the old one.
Reload ==
    /\ reloads < MaxReloads /\ reloads' = reloads + 1
    /\ slowData' \in Replies /\ poll' = IdlePoll
    /\ shown' = slowData' /\ listening' = FALSE
    /\ refreshes' \in FirstRefresh /\ info' = NoFile
    /\ writes' = {[w EXCEPT !.live = FALSE] : w \in writes}
    /\ UNCHANGED <<settingVars, keeps, fileVars>>

(***************************************************************************)
(* The snapshot file and its sensor.                                       *)
(***************************************************************************)
\* write_text empties the file ...
SaveStart ==
    /\ saves < MaxSaves /\ saves' = saves + 1
    /\ saving' = TRUE /\ file' = NoFile
    /\ UNCHANGED <<settingVars, pollVars, entityVars, writes, sensorVars, reloads>>

\* ... and fills it, upon which a signal makes the sensor refresh, or fails.
SaveEnd ==
    /\ saving /\ saving' = FALSE
    /\ \/ file' = saves /\ StartRefresh
       \/ UNCHANGED <<file, refreshes>>
    /\ UNCHANGED <<settingVars, pollVars, entityVars, writes, saves, info, reloads>>

\* get_snapshot_info in an executor thread, which nothing holds up.
ReadFile(r) ==
    /\ r \in refreshes /\ ~r.done
    /\ refreshes' = (refreshes \ {r}) \cup {[r EXCEPT !.done = TRUE, !.read = file]}
    /\ UNCHANGED <<settingVars, pollVars, entityVars, writes, fileVars, info, reloads>>

\* The end of _async_refresh
ShowInfo(r) ==
    /\ r \in refreshes /\ r.done
    /\ refreshes' = refreshes \ {r}
    /\ info' = r.read
    /\ UNCHANGED <<settingVars, pollVars, entityVars, writes, fileVars, reloads>>

(***************************************************************************)
(* The specification.                                                      *)
(***************************************************************************)
LoopStep ==
    \/ \E id \in WriteId, v \in Value : BeginWrite(id, v)
    \/ \E w \in writes : WriteAcknowledged(w) \/ WriteFailed(w)
    \/ PollReturn \/ PollFailed
    \/ FastNotified \/ Listen \/ Reload
    \/ SaveStart
    \/ \E r \in refreshes : ShowInfo(r)

\* A backup that writes its file holds up the event loop, and nothing else.
Next ==
    \/ ~saving /\ LoopStep
    \/ SaveEnd
    \/ \E v \in Value : GuestChange(v)
    \/ \E w \in writes : WriteObeyed(w)
    \/ PollRead
    \/ \E r \in refreshes : ReadFile(r)

Spec == Init /\ [][Next]_vars

\* The entity is added, writes end, the fast poll comes round, the executor works,
\* a file is written in the end, and a controller that is polled again and again
\* answers, again and again, with its settings.
Fairness ==
    /\ WF_vars(~saving /\ Listen) /\ WF_vars(~saving /\ FastNotified) /\ WF_vars(SaveEnd)
    /\ \A id \in WriteId : WF_vars(~saving /\ \E w \in writes : w.id = id /\ WriteFailed(w))
    /\ \A i \in RefreshId :
          /\ WF_vars(\E r \in refreshes : r.id = i /\ ReadFile(r))
          /\ WF_vars(~saving /\ \E r \in refreshes : r.id = i /\ ShowInfo(r))
    /\ SF_vars(PollRead /\ poll'.data # None)
    /\ WF_vars(~saving /\ (PollReturn \/ PollFailed))
    /\ SF_vars(~saving /\ PollReturn /\ poll.data # None)

FairSpec == Spec /\ Fairness

(***************************************************************************)
(* Properties.                                                             *)
(***************************************************************************)
\* The entity shows nothing that the controller has not had: a value that was
\* only asked for, refused or lost is never shown ("Reflect an API-acknowledged
\* write", _set_local_state).
NothingInvented == shown = None \/ shown \in had

\* When the setting is left alone, the entity comes to show it, again and again:
\* a redraw with stale data after a write, a poll that was read before it and one
\* missed while the entity was added are all made up for by a later poll.
DisplayCatchesUp == []<>(shown = controller)

\* When no more snapshots are taken, the sensor settles on the one in the file,
\* or on none if the last was not written, although refreshes overlap, end in any
\* order and may read a file half written ("on each poll", EconetLastSnapshotSensor).
SnapshotSettles == <>[](info = file)
=============================================================================
