--------------------------- MODULE ChangeDetector ---------------------------
(***************************************************************************)
(* ChangeDetector: decides, poll by poll, which changes of a setting this  *)
(* integration made itself and which were made at the controller.  Its     *)
(* methods are synchronous, so each is an operator that the actions of     *)
(* RevertActions take as a whole.                                          *)
(***************************************************************************)
EXTENDS EditParams

VARIABLES
    snapshot,     \* _previous_snapshot; Nothing while it is None
    selfWrites,   \* _self_writes: names written by an entity, not yet observed
    revertWrites  \* _revert_writes: at most one _RevertWrite per name

detectorVars == <<snapshot, selfWrites, revertWrites>>

\* A _RevertWrite, with the token of the tap it belongs to as its identity.
RevertWrite == [token : Nat, index : Index, name : Name, before : Value,
                target : Value, active : BOOLEAN]

DetectorTypeOK ==
    /\ snapshot \in Snapshot
    /\ selfWrites \in SUBSET Name
    /\ revertWrites \in SUBSET RevertWrite

\* __init__
DetectorReset ==
    /\ snapshot' = Nothing
    /\ selfWrites' = {}
    /\ revertWrites' = {}

\* Is the parameter at index i of s called n with value v?
Shows(s, i, n, v) == i \in DOMAIN s /\ s[i] = [name |-> n, value |-> v]

(***************************************************************************)
(* The expectations of manual Reverts.                                     *)
(***************************************************************************)
\* begin_revert: an earlier expectation of the same name is overwritten.
BeginRevert(t, p) ==
    {w \in revertWrites : w.name # p.name} \cup
        {[token |-> t, index |-> p.index, name |-> p.name,
          before |-> p.new, target |-> p.old, active |-> TRUE]}

\* finish_revert: the write object may have been replaced meanwhile.
FinishRevert(t) ==
    {IF w.token = t THEN [w EXCEPT !.active = FALSE] ELSE w : w \in revertWrites}

\* Mutated form of Awaited: an expectation that was fulfilled stays in force.
Awaited_Fulfilled(cur) == {w \in revertWrites : w.active}

\* _observed_reverts: the expectations that a poll showing cur fulfils ...
Observed(cur) ==
    {w \in revertWrites : /\ Shows(snapshot, w.index, w.name, w.before)
                          /\ Shows(cur, w.index, w.name, w.target)
                          /\ UniqueName(cur, w.name)}

\* ... and those that it leaves in force.
Awaited(cur) ==
    {w \in revertWrites : w.active /\ Shows(cur, w.index, w.name, w.before)}

(***************************************************************************)
(* process_edit_params, as what it reports and what it keeps.              *)
(***************************************************************************)
\* The changes a poll showing data reports, before they are classified.
Changed(data) ==
    IF DOMAIN data = {} \/ snapshot = Nothing THEN {}
    ELSE {c \in Diff(snapshot, Extract(data)) : c.name \notin Volatile}

\* Does the expectation of a manual Revert explain change c?
ByRevert(data, c) ==
    \E w \in Observed(Extract(data)) : w.index = c.index /\ w.name = c.name

\* A self-write marker explains the first change of its name that no Revert does.
ByMarker(data, c) ==
    /\ ~ByRevert(data, c)
    /\ c.name \in selfWrites
    /\ \A d \in Changed(data) :
          d.name = c.name /\ ~ByRevert(data, d) => c.index <= d.index

External(data) ==
    {c \in Changed(data) : ~ByRevert(data, c) /\ ~ByMarker(data, c)}

ProcessEditParams(data) ==
    IF DOMAIN data = {} THEN UNCHANGED detectorVars
    ELSE /\ revertWrites' = Awaited(Extract(data))
         /\ selfWrites' = selfWrites \ {c.name : c \in {d \in Changed(data) : ByMarker(data, d)}}
         /\ snapshot' = Extract(data)
=============================================================================
