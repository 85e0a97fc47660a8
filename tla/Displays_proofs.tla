-------------------------- MODULE Displays_proofs --------------------------
(***************************************************************************)
(* What an entity shows has been the setting's value, whatever the polls,  *)
(* writes and reloads.                                                     *)
(***************************************************************************)
EXTENDS Displays, TLAPS

\* Whatever can still be shown has been the setting's value: what was polled, is
\* being polled, or was written and obeyed.
IInv ==
    /\ TypeOK
    /\ controller \in had
    /\ {slowData, shown, poll.data} \subseteq had \cup {None}
    /\ \A w \in writes : w.obeyed => w.value \in had

LEMMA NoFileType == NoFile \in 0 .. MaxSaves /\ 0 \in 0 .. MaxReloads /\ 0 \in 0 .. MaxChanges
  BY LimitsAssumption DEF NoFile

LEMMA IdlePollType ==
  IdlePoll \in [busy : BOOLEAN, data : Value \cup {None}] /\ IdlePoll.data = None
  BY DEF IdlePoll

LEMMA NewRefreshType ==
  ASSUME NEW i \in RefreshId
  PROVE  [id |-> i, done |-> FALSE, read |-> NoFile] \in Refresh
  BY NoFileType DEF Refresh

LEMMA FirstRefreshType ==
  ASSUME NEW R \in FirstRefresh
  PROVE  R \in SUBSET Refresh
  BY NewRefreshType DEF FirstRefresh

LEMMA InitSound ==
  ASSUME Init
  PROVE  IInv
<1>1. refreshes \in SUBSET Refresh
  BY FirstRefreshType DEF Init
<1>2. controller \in Value /\ had \in SUBSET Value /\ controller \in had
  BY DEF Init
<1>3. {slowData, shown, poll.data} \subseteq had \cup {None}
  BY IdlePollType DEF Init, Replies
<1>4. TypeOK
  <2>1. 0 \in 0 .. MaxSaves
    BY NoFileType DEF NoFile
  <2> QED
    BY <1>1, <1>2, <1>3, <2>1, NoFileType, IdlePollType DEF Init, TypeOK
<1> QED
  BY <1>2, <1>3, <1>4 DEF Init, IInv

\* A redraw with data that has been the setting's value.
LEMMA RedrawSound ==
  ASSUME IInv, NEW data \in had \cup {None}, Redraw(data)
  PROVE  shown' \in had \cup {None} /\ shown' \in Value \cup {None}
BY DEF IInv, TypeOK, Redraw, Redrawn

LEMMA StartRefreshSound ==
  ASSUME IInv, StartRefresh
  PROVE  refreshes' \in SUBSET Refresh
BY NewRefreshType DEF IInv, TypeOK, StartRefresh

LEMMA StepSound ==
  ASSUME IInv, [Next]_vars
  PROVE  IInv'
<1> USE DEF settingVars, pollVars, entityVars, fileVars, sensorVars
<1>1. ASSUME NEW v \in Value, GuestChange(v)
      PROVE  IInv'
  BY <1>1, LimitsAssumption DEF GuestChange, IInv, TypeOK
<1>2. ASSUME NEW id \in WriteId, NEW v \in Value, BeginWrite(id, v)
      PROVE  IInv'
  <2>1. [id |-> id, value |-> v, obeyed |-> FALSE, live |-> TRUE] \in Write
    BY DEF Write
  <2> DEFINE w2 == [id |-> id, value |-> v, obeyed |-> FALSE, live |-> TRUE]
  <2>2. w2 \in Write /\ ~w2.obeyed
    BY <2>1
  <2>3. writes' = writes \cup {w2}
    BY <1>2 DEF BeginWrite, NewWrite
  <2> HIDE DEF w2
  <2>4. writes' \in SUBSET Write /\ \A w \in writes' : w.obeyed => w.value \in had
    BY <2>2, <2>3 DEF IInv, TypeOK
  <2>5. changes' \in 0 .. MaxChanges
    BY <1>2, LimitsAssumption DEF BeginWrite, NewWrite, IInv, TypeOK
  <2> QED
    BY <1>2, <2>4, <2>5 DEF BeginWrite, NewWrite, IInv, TypeOK
<1>3. ASSUME NEW w \in writes, WriteObeyed(w)
      PROVE  IInv'
  <2>1. [w EXCEPT !.obeyed = TRUE] \in Write /\ w.value \in Value
    BY DEF IInv, TypeOK, Write
  <2>2. [w EXCEPT !.obeyed = TRUE].value = w.value
    BY DEF IInv, TypeOK, Write
  <2> QED
    BY <1>3, <2>1, <2>2 DEF WriteObeyed, IInv, TypeOK
<1>4. ASSUME NEW w \in writes, WriteAcknowledged(w)
      PROVE  IInv'
  <2>1. w.value \in Value /\ w.value \in had
    BY <1>4 DEF WriteAcknowledged, IInv, TypeOK, Write
  <2> QED
    BY <1>4, <2>1 DEF WriteAcknowledged, IInv, TypeOK
<1>5. ASSUME NEW w \in writes, WriteFailed(w)
      PROVE  IInv'
  BY <1>5 DEF WriteFailed, IInv, TypeOK
<1>6. CASE PollRead
  BY <1>6 DEF PollRead, Replies, IInv, TypeOK
<1>7. CASE PollReturn
  <2>1. shown' \in had \cup {None} /\ shown' \in Value \cup {None}
    BY <1>7, RedrawSound DEF PollReturn, IInv
  <2> QED
    BY <1>7, <2>1 DEF PollReturn, IdlePoll, IInv, TypeOK
<1>8. CASE PollFailed
  <2>1. shown' \in had \cup {None} /\ shown' \in Value \cup {None}
    BY <1>8, RedrawSound DEF PollFailed, IInv, TypeOK
  <2> QED
    BY <1>8, <2>1 DEF PollFailed, IdlePoll, IInv, TypeOK
<1>9. CASE FastNotified
  <2>1. shown' \in had \cup {None} /\ shown' \in Value \cup {None}
    BY <1>9, RedrawSound DEF FastNotified, IInv
  <2>2. refreshes' \in SUBSET Refresh
    BY <1>9, StartRefreshSound DEF FastNotified
  <2> QED
    BY <1>9, <2>1, <2>2 DEF FastNotified, IInv, TypeOK
<1>10. CASE Listen
  BY <1>10 DEF Listen, IInv, TypeOK
<1>11. CASE Reload
  <2>1. refreshes' \in SUBSET Refresh /\ info' \in 0 .. MaxSaves
    BY <1>11, FirstRefreshType, NoFileType DEF Reload
  <2>2. writes' \in SUBSET Write /\ \A w \in writes' : w.obeyed => w.value \in had
    <3> DEFINE Old(w) == [w EXCEPT !.live = FALSE]
    <3>1. \A w \in Write : Old(w) \in Write /\ Old(w).obeyed = w.obeyed /\ Old(w).value = w.value
      BY DEF Write
    <3>2. writes' = {Old(w) : w \in writes} /\ had' = had
      BY <1>11 DEF Reload, settingVars
    <3>3. writes \in SUBSET Write /\ \A w \in writes : w.obeyed => w.value \in had
      BY DEF IInv, TypeOK
    <3> HIDE DEF Old
    <3> QED
      BY <3>1, <3>2, <3>3
  <2>3. reloads' \in 0 .. MaxReloads
    BY <1>11, LimitsAssumption DEF Reload, IInv, TypeOK
  <2> QED
    BY <1>11, <2>1, <2>2, <2>3, IdlePollType DEF Reload, Replies, IInv, TypeOK
<1>12. CASE SaveStart
  BY <1>12, LimitsAssumption DEF SaveStart, NoFile, IInv, TypeOK
<1>13. CASE SaveEnd
  <2>1. refreshes' \in SUBSET Refresh
    BY <1>13, StartRefreshSound DEF SaveEnd, IInv, TypeOK
  <2>2. file' \in 0 .. MaxSaves
    BY <1>13 DEF SaveEnd, IInv, TypeOK
  <2> QED
    BY <1>13, <2>1, <2>2 DEF SaveEnd, IInv, TypeOK
<1>14. ASSUME NEW r \in refreshes, ReadFile(r)
       PROVE  IInv'
  <2>1. [r EXCEPT !.done = TRUE, !.read = file] \in Refresh
    BY DEF IInv, TypeOK, Refresh
  <2> HIDE DEF IInv
  <2>2. refreshes' \in SUBSET Refresh
    BY <1>14, <2>1 DEF ReadFile, IInv, TypeOK
  <2> QED
    BY <1>14, <2>2 DEF ReadFile, IInv, TypeOK
<1>15. ASSUME NEW r \in refreshes, ShowInfo(r)
       PROVE  IInv'
  <2>1. r.read \in 0 .. MaxSaves
    BY DEF IInv, TypeOK, Refresh
  <2> QED
    BY <1>15, <2>1 DEF ShowInfo, IInv, TypeOK
<1>16. CASE UNCHANGED vars
  BY <1>16 DEF vars, IInv, TypeOK
<1> QED
  BY <1>1, <1>2, <1>3, <1>4, <1>5, <1>6, <1>7, <1>8, <1>9, <1>10, <1>11, <1>12, <1>13, <1>14,
     <1>15, <1>16 DEF Next, LoopStep

LEMMA IInvAlways == Spec => []IInv
  BY InitSound, StepSound, PTL DEF Spec

\* The display's variables keep their types.
THEOREM DisplaysTyped == Spec => []TypeOK
<1>1. IInv => TypeOK
  BY DEF IInv
<1> QED
  BY <1>1, IInvAlways, PTL

\* No entity ever shows a value that the controller has not had, however writes
\* are refused, lost or overtaken, polls delayed and the entry reloaded.
THEOREM DisplaysInventNothing == Spec => []NothingInvented
<1>1. IInv => NothingInvented
  BY DEF IInv, NothingInvented
<1> QED
  BY <1>1, IInvAlways, PTL
=============================================================================
