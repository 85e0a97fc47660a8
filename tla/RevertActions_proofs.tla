------------------------ MODULE RevertActions_proofs ------------------------
(***************************************************************************)
(* What RevertActions guarantees whatever the settings, the options, the   *)
(* number of concurrent taps and the limits.                               *)
(***************************************************************************)
EXTENDS RevertActions, ChangeDetector_proofs, SequenceTheorems

-----------------------------------------------------------------------------
(* Lemmas about observe. *)

\* The changes offered in a poll are among the external ones.
LEMMA OfferedType ==
  ASSUME snapshot \in Snapshot, NEW data \in Menu
  PROVE  /\ Offered(data) \in SUBSET Change
         /\ IsFiniteSet(Offered(data))
         /\ Cardinality(Offered(data)) \in Nat
         /\ \A c, d \in Offered(data) : c.index = d.index => c = d
<1>1. Offered(data) \in SUBSET External(data)
  BY DEF Offered, Revertible
<1>2. IsFiniteSet(Offered(data))
  BY <1>1, ExternalType, FS_Subset
<1>3. Cardinality(Offered(data)) \in Nat
  BY <1>2, FS_CardinalityType
<1> QED
  BY <1>1, <1>2, <1>3, ExternalType

\* Tokens of one poll are new, at most as many as the changes offered, and
\* different for different changes.
LEMMA TokenType ==
  ASSUME snapshot \in Snapshot, issued \in Nat, NEW data \in Menu,
         NEW c \in Offered(data)
  PROVE  /\ Token(data, c) \in Nat
         /\ issued < Token(data, c)
         /\ Token(data, c) <= issued + Cardinality(Offered(data))
         /\ \A d \in Offered(data) : Token(data, c) = Token(data, d) => c = d
<1> DEFINE Upto(e) == {d \in Offered(data) : d.index <= e.index}
<1>1. \A e \in Offered(data) : e.index \in Nat
  BY OfferedType, IndexAssumption DEF Change
<1>2. \A e \in Offered(data) :
        /\ IsFiniteSet(Upto(e))
        /\ Cardinality(Upto(e)) \in Nat
        /\ Cardinality(Upto(e)) <= Cardinality(Offered(data))
  <2> TAKE e \in Offered(data)
  <2>1. Upto(e) \in SUBSET Offered(data)
    OBVIOUS
  <2> QED
    BY <2>1, OfferedType, FS_Subset, FS_CardinalityType
<1>3. Cardinality(Upto(c)) # 0
  <2>1. c \in Upto(c)
    BY <1>1
  <2> QED
    BY <2>1, <1>2, FS_EmptySet
<1>4. ASSUME NEW a \in Offered(data), NEW b \in Offered(data), a.index < b.index
      PROVE  Cardinality(Upto(a)) # Cardinality(Upto(b))
  <2>1. Upto(a) \in SUBSET Upto(b)
    BY <1>1, <1>4
  <2>2. b \in Upto(b) /\ b \notin Upto(a)
    BY <1>1, <1>4
  <2> QED
    BY <2>1, <2>2, <1>2, FS_Subset
<1>5. \A e \in Offered(data) : Token(data, e) = issued + Cardinality(Upto(e))
  BY DEF Token
<1> HIDE DEF Upto
<1>6. ASSUME NEW d \in Offered(data), Token(data, c) = Token(data, d)
      PROVE  c = d
  <2>1. Cardinality(Upto(c)) = Cardinality(Upto(d))
    BY <1>2, <1>5, <1>6
  <2>2. ~(c.index < d.index) /\ ~(d.index < c.index)
    BY <1>4, <2>1
  <2>3. c.index = d.index
    BY <1>1, <2>2
  <2>4. \A a, b \in Offered(data) : a.index = b.index => a = b
    BY OfferedType
  <2> QED
    BY <2>3, <2>4
<1> QED
  BY <1>2, <1>3, <1>5, <1>6, OfferedType

\* The new actions are well formed.
LEMMA OffersType ==
  ASSUME snapshot \in Snapshot, issued \in Nat, now \in Nat, NEW data \in Menu
  PROVE  Offers(data) \in SUBSET Pending
<1>1. TTL \in Nat
  BY BoundsAssumption
<1>2. ASSUME NEW c \in Offered(data)
      PROVE  [token |-> Token(data, c), index |-> c.index, name |-> c.name,
              old |-> c.old, new |-> c.new, expires |-> now + TTL] \in Pending
  BY <1>1, OfferedType, TokenType DEF Pending, Change
<1> QED
  BY <1>2 DEF Offers

\* A settings poll, and the second notification of a failed one, keep the types.
LEMMA HandlePollType ==
  ASSUME TypeOK, NEW data \in Menu, HandlePoll(data)
  PROVE  /\ DetectorTypeOK'
         /\ previous' \in Menu
         /\ pending' \in SUBSET Pending
         /\ issued' \in Nat
         /\ sends' \in SUBSET Nat
         /\ phone' \in SUBSET Nat
         /\ ops' \in SUBSET Op
         /\ alerts' \in Nat
         /\ explained' \in SUBSET Nat
<1> USE DEF HandlePoll, Observe
<1>1. /\ snapshot \in Snapshot /\ issued \in Nat /\ now \in Nat
      /\ alerts \in Nat /\ MaxGuest \in Nat
  BY BoundsAssumption DEF TypeOK, DetectorTypeOK
<1>2. DetectorTypeOK'
  BY ProcessType DEF TypeOK
<1>3. Offers(data) \in SUBSET Pending
  BY <1>1, OffersType
<1>4. pending' \in SUBSET Pending
  BY <1>3 DEF TypeOK, Newest, Replaced, Surviving
<1>5. issued' \in Nat
  BY <1>1, OfferedType
<1>6. sends' \in SUBSET Nat
  BY <1>3 DEF TypeOK, Pending
<1>7. ops' \in SUBSET Op
  <2>1. \A op \in Op : [op EXCEPT !.superseded = TRUE] \in Op
    BY DEF Op
  <2> QED
    BY <2>1 DEF TypeOK, Superseded
<1>8. alerts' \in Nat
  BY <1>1, ExternalType, FS_CardinalityType
<1>9. explained' \in SUBSET Nat
  BY DEF TypeOK, DetectorTypeOK, Observed, RevertWrite
<1> QED
  BY <1>2, <1>4, <1>5, <1>6, <1>7, <1>8, <1>9 DEF TypeOK

\* Delivering an answer keeps the types.
LEMMA DeliverType ==
  ASSUME TypeOK, NEW r, NEW ok \in BOOLEAN, NEW answer \in Answers,
         Deliver(r, ok, answer)
  PROVE  /\ poll' \in Refresh
         /\ left' \in SUBSET (Reads \X RefreshId)
         /\ ops' \in SUBSET Op
         /\ writes' \in SUBSET Write
<1>1. Reply(ok) \in Menu
  BY NothingType DEF TypeOK, Reply
<1>2. poll' \in Refresh
  <2>1. \/ poll' = [poll EXCEPT !.edit = answer, !.data = Reply(ok)]
        \/ poll' = [poll EXCEPT !.sys = answer]
        \/ poll' = poll
    BY DEF Deliver
  <2> QED
    BY <1>1, <2>1 DEF TypeOK, Refresh
<1>3. ops' \in SUBSET Op
  <2>1. \A op \in Op : Resumed(op, ok) \in Op
    BY <1>1 DEF Resumed, Op
  <2> QED
    BY <2>1 DEF Deliver, TypeOK
<1>4. writes' \in SUBSET Write
  <2>1. \A w \in Write : [w EXCEPT !.pc = "set", !.ok = ok] \in Write
    BY DEF Write
  <2> QED
    BY <2>1 DEF Deliver, TypeOK
<1> QED
  BY <1>2, <1>3, <1>4 DEF Deliver, TypeOK

\* What a refresh still waits for are reads of its own.
LEMMA UnansweredType ==
  ASSUME TypeOK, Polling
  PROVE  Unanswered \in SUBSET (Reads \X RefreshId)
  BY DEF TypeOK, Polling, Refresh, Reads, Unanswered

\* A request leaves the controller with a dictionary of parameters.
LEMMA ObeyedType ==
  ASSUME TypeOK, NEW r
  PROVE  Obeyed(r) \in SUBSET Menu
<1>1. \A op \in ops : Assign(controller, op.act.name, op.act.old) \in Menu
  BY AssignType DEF TypeOK, Op, Pending
<1>2. \A w \in writes : Assign(controller, w.name, w.value) \in Menu
  BY AssignType DEF TypeOK, Write
<1> QED
  BY <1>1, <1>2 DEF Obeyed, TypeOK

-----------------------------------------------------------------------------
(* Type correctness. *)

\* Every step of the model keeps every variable in its type.
LEMMA TypeStep == TypeOK /\ [Next]_vars => TypeOK'
<1> SUFFICES ASSUME TypeOK, [Next]_vars
             PROVE  TypeOK'
  OBVIOUS
<1> USE DEF envVars, wires, pollVars, revertVars, history, detectorVars
<1>1. CASE GuestChange
  BY <1>1, MenusAssumption DEF TypeOK, DetectorTypeOK, GuestChange
<1>2. CASE Tick
  BY <1>2 DEF TypeOK, DetectorTypeOK, Tick
<1>3. CASE ChangeOptions
  BY <1>3 DEF TypeOK, DetectorTypeOK, ChangeOptions
<1>4. ASSUME NEW id \in RefreshId, PollStart(id)
      PROVE  TypeOK'
  BY <1>4, NothingType DEF TypeOK, DetectorTypeOK, PollStart, IdlePoll, Refresh, Answers
<1>5. CASE PollReturn
  <2>1. poll.data \in Menu
    BY DEF TypeOK, Refresh
  <2> QED
    BY <1>5, <2>1, HandlePollType, NothingType
    DEF TypeOK, PollReturn, IdlePoll, Refresh, Answers
<1>6. ASSUME Fail, left' \in SUBSET (Reads \X RefreshId)
      PROVE  TypeOK'
  <2>1. poll' \in Refresh
    BY <1>6, NothingType DEF Fail, IdlePoll, Refresh, Answers
  <2>2. CASE HandlePoll(previous)
    BY <1>6, <2>1, <2>2, HandlePollType DEF TypeOK, Fail
  <2>3. CASE UNCHANGED <<detectorVars, revertVars, sends, phone, ops, history>>
    BY <1>6, <2>1, <2>3 DEF TypeOK, DetectorTypeOK, Fail
  <2> QED
    BY <1>6, <2>2, <2>3 DEF Fail
<1>7. CASE PollFailed \/ PollTimeout
  <2>1. CASE PollFailed
    BY <1>6, <2>1, UnansweredType DEF PollFailed, Answered, TypeOK
  <2>2. CASE PollTimeout
    BY <1>6, <2>2 DEF PollTimeout, TypeOK
  <2> QED
    BY <1>7, <2>1, <2>2
<1>8. CASE Start
  BY <1>8 DEF TypeOK, DetectorTypeOK, Start
<1>9. CASE Close
  <2>1. ops' \in SUBSET Op
    <3>1. \A op \in Op : [op EXCEPT !.live = FALSE] \in Op
      BY DEF Op
    <3> QED
      BY <1>9, <3>1 DEF Close, TypeOK
  <2>2. writes' \in SUBSET Write
    <3>1. \A w \in Write : [w EXCEPT !.live = FALSE] \in Write
      BY DEF Write
    <3> QED
      BY <1>9, <3>1 DEF Close, TypeOK
  <2>3. left' \in SUBSET (Reads \X RefreshId)
    BY <1>9, UnansweredType DEF Close, TypeOK
  <2> QED
    BY <1>9, <2>1, <2>2, <2>3, NothingType
    DEF TypeOK, DetectorTypeOK, Close, DetectorReset, IdlePoll, Refresh, Answers
<1>10. ASSUME NEW t \in sends, Send(t)
       PROVE  TypeOK'
  BY <1>10 DEF TypeOK, DetectorTypeOK, Send
<1>11. ASSUME NEW id \in OpId, NEW p \in pending, Tap(id, p)
       PROVE  TypeOK'
  <2>1. [id |-> id, pc |-> "fetching", act |-> p, superseded |-> FALSE,
         live |-> TRUE, ok |-> FALSE, fresh |-> Nothing] \in Op
    BY NothingType DEF Op, TypeOK
  <2> QED
    BY <1>11, <2>1 DEF TypeOK, DetectorTypeOK, Tap, Consumed
<1>12. ASSUME NEW op \in ops, FetchReturn(op)
       PROVE  TypeOK'
  <2>1. [op EXCEPT !.pc = "setting", !.fresh = Nothing] \in Op
    BY NothingType DEF TypeOK, Op
  <2>2. BeginRevert(op.act.token, op.act) \in SUBSET RevertWrite
    <3>1. op.act \in Pending
      BY DEF TypeOK, Op
    <3>2. [token |-> op.act.token, index |-> op.act.index, name |-> op.act.name,
           before |-> op.act.new, target |-> op.act.old, active |-> TRUE] \in RevertWrite
      BY <3>1 DEF Pending, RevertWrite
    <3> QED
      BY <3>2 DEF TypeOK, DetectorTypeOK, BeginRevert
  <2> QED
    BY <1>12, <2>1, <2>2 DEF TypeOK, DetectorTypeOK, FetchReturn
<1>13. ASSUME NEW op \in ops, SetReturn(op)
       PROVE  TypeOK'
  <2>1. \A w \in RevertWrite : [w EXCEPT !.active = FALSE] \in RevertWrite
    BY DEF RevertWrite
  <2>2. FinishRevert(op.act.token) \in SUBSET RevertWrite
    BY <2>1 DEF TypeOK, DetectorTypeOK, FinishRevert
  <2> QED
    BY <1>13, <2>2 DEF TypeOK, DetectorTypeOK, SetReturn
<1>14. ASSUME NEW id \in WriteId, NEW n \in Name, NEW v \in Value, EntityWrite(id, n, v)
       PROVE  TypeOK'
  <2>1. [id |-> id, pc |-> "setting", name |-> n, value |-> v,
         live |-> TRUE, ok |-> FALSE] \in Write
    BY DEF Write
  <2> QED
    BY <1>14, <2>1 DEF TypeOK, DetectorTypeOK, EntityWrite
<1>15. ASSUME NEW w \in writes, EntityReturn(w)
       PROVE  TypeOK'
  BY <1>15 DEF TypeOK, DetectorTypeOK, EntityReturn
<1>16. ASSUME NEW q \in {wire} \cup oldWires, Answer(q)
       PROVE  TypeOK'
  <2>1. PICK ok \in BOOLEAN, answer \in Answers : Deliver(Head(q), ok, answer)
    BY <1>16 DEF Answer, Answers
  <2>2. controller' \in Menu
    BY <1>16, ObeyedType DEF Answer, TypeOK
  <2> QED
    BY <1>16, <2>1, <2>2, DeliverType DEF TypeOK, DetectorTypeOK, Answer
<1>17. ASSUME NEW q \in {wire} \cup oldWires, TimedOut(q)
       PROVE  TypeOK'
  <2>1. controller' \in Menu
    BY <1>17, ObeyedType DEF TimedOut, TypeOK
  <2>2. CASE UNCHANGED <<poll, left, ops, writes>>
    BY <1>17, <2>1, <2>2 DEF TypeOK, DetectorTypeOK, TimedOut
  <2>3. CASE Deliver(Head(q), FALSE, "failed")
    <3>1. "failed" \in Answers
      BY DEF Answers
    <3> QED
      BY <1>17, <2>1, <2>3, <3>1, DeliverType DEF TypeOK, DetectorTypeOK, TimedOut
  <2> QED
    BY <1>17, <2>2, <2>3 DEF TimedOut
<1>18. CASE UNCHANGED vars
  BY <1>18 DEF TypeOK, DetectorTypeOK, vars
<1> QED
  BY <1>1, <1>2, <1>3, <1>4, <1>5, <1>7, <1>8, <1>9, <1>10, <1>11, <1>12, <1>13,
     <1>14, <1>15, <1>16, <1>17, <1>18 DEF Next

LEMMA TypeInit == Init => TypeOK
  BY NothingType, MenusAssumption
  DEF Init, TypeOK, DetectorTypeOK, IdlePoll, Refresh, Answers

\* Every variable keeps its type.
THEOREM TypeCorrect == Spec => []TypeOK
<1>1. Init => TypeOK
  BY TypeInit
<1>2. TypeOK /\ [Next]_vars => TypeOK'
  BY TypeStep
<1> QED
  BY <1>1, <1>2, PTL DEF Spec

-----------------------------------------------------------------------------
(* What is offered and written agrees with the last poll. *)

\* A tap that still counts belongs to the loaded entry and to an action that
\* was shown on the phone.
LiveTapBelongsToEntry ==
  \A op \in ops : op.live => phase = "active" /\ op.act.token \in phone

CurrentInv ==
  /\ TypeOK
  /\ PendingMatchesLastPoll
  /\ UnsupersededTapIsCurrent
  /\ LiveTapBelongsToEntry

\* observe leaves only actions that match the settings it was given.
LEMMA HandlePollMatches ==
  ASSUME NEW data, HandlePoll(data)
  PROVE  previous' = data /\ \A p \in pending' : Matches(data, p)
<1>1. \A p \in Surviving(data) : Matches(data, p)
  BY DEF Surviving
<1>2. \A p \in Offers(data) : Matches(data, p)
  <2>1. \A c \in Offered(data) : Matches(data, c)
    BY DEF Offered, Revertible
  <2> QED
    BY <2>1 DEF Offers, Matches
<1>3. pending' \in SUBSET (Surviving(data) \cup Offers(data))
  BY DEF HandlePoll, Observe, Newest, Replaced
<1> QED
  BY <1>1, <1>2, <1>3 DEF HandlePoll, Observe

\* observe supersedes every running tap and leaves it otherwise as it was.
LEMMA HandlePollTaps ==
  ASSUME ops \in SUBSET Op, NEW data, HandlePoll(data), NEW op \in ops'
  PROVE  /\ op.superseded
         /\ \E o \in ops : /\ op.id = o.id /\ op.pc = o.pc /\ op.act = o.act
                          /\ op.live = o.live
<1>1. PICK o \in ops : op = [o EXCEPT !.superseded = TRUE]
  BY DEF HandlePoll, Observe, Superseded
<1> QED
  BY <1>1 DEF Op

\* Neither a delivered answer ...
LEMMA DeliverTaps ==
  ASSUME ops \in SUBSET Op, NEW r, NEW ok, NEW answer, Deliver(r, ok, answer), NEW op \in ops'
  PROVE  \E o \in ops : /\ op.id = o.id /\ op.act = o.act /\ op.live = o.live
                       /\ op.superseded = o.superseded
                       /\ \/ op.pc = o.pc
                          \/ o.pc = "fetching" /\ op.pc = "fetched"
                          \/ o.pc = "setting" /\ op.pc = "set"
<1>1. PICK o \in ops : op = IF Awaits(o, r) THEN Resumed(o, ok) ELSE o
  BY DEF Deliver
<1>2. o \in Op
  OBVIOUS
<1>3. CASE op = o
  BY <1>3
<1>4. CASE Awaits(o, r) /\ op = Resumed(o, ok)
  <2>1. CASE o.pc = "fetching"
    BY <1>2, <1>4, <2>1 DEF Resumed, Op
  <2>2. CASE o.pc = "setting"
    BY <1>2, <1>4, <2>2 DEF Resumed, Op
  <2> QED
    BY <1>4, <2>1, <2>2 DEF Awaits
<1> QED
  BY <1>1, <1>3, <1>4

LEMMA CurrentStep == CurrentInv /\ [Next]_vars => CurrentInv'
<1> SUFFICES ASSUME CurrentInv, [Next]_vars
             PROVE  CurrentInv'
  OBVIOUS
<1> USE DEF envVars, wires, pollVars, revertVars, history, detectorVars
<1>0. TypeOK /\ TypeOK' /\ ops \in SUBSET Op
  BY TypeStep DEF CurrentInv, TypeOK
\* A poll: what is offered was just matched, and every tap is superseded.
<1>1. ASSUME NEW data, HandlePoll(data), phase' = phase \/ phase = "down"
      PROVE  CurrentInv'
  <2>1. PendingMatchesLastPoll'
    BY <1>1, HandlePollMatches DEF PendingMatchesLastPoll
  <2>2. UnsupersededTapIsCurrent'
    BY <1>0, <1>1, HandlePollTaps DEF UnsupersededTapIsCurrent
  <2>3. LiveTapBelongsToEntry'
    BY <1>0, <1>1, HandlePollTaps DEF LiveTapBelongsToEntry, CurrentInv, HandlePoll
  <2> QED
    BY <1>0, <2>1, <2>2, <2>3 DEF CurrentInv
\* A step that moves no tap forward and offers nothing.
<1>2. ASSUME UNCHANGED <<previous, phone>>, pending' \in SUBSET pending,
             phase' = phase \/ phase # "active",
             \A op \in ops' : \E o \in ops :
                /\ op.act = o.act /\ op.live = o.live /\ op.superseded = o.superseded
                /\ op.pc \in {"fetching", "fetched"} => o.pc \in {"fetching", "fetched"}
      PROVE  CurrentInv'
  <2>1. PendingMatchesLastPoll'
    BY <1>2 DEF PendingMatchesLastPoll, CurrentInv
  <2>2. UnsupersededTapIsCurrent'
    BY <1>2 DEF UnsupersededTapIsCurrent, CurrentInv
  <2>3. LiveTapBelongsToEntry'
    BY <1>2 DEF LiveTapBelongsToEntry, CurrentInv
  <2> QED
    BY <1>0, <2>1, <2>2, <2>3 DEF CurrentInv
<1>3. CASE GuestChange \/ Tick \/ ChangeOptions \/ Start \/ (\E id \in RefreshId : PollStart(id))
  BY <1>2, <1>3 DEF GuestChange, Tick, ChangeOptions, PollStart, Start
<1>4. CASE PollReturn
  BY <1>1, <1>4 DEF PollReturn
<1>5. CASE PollFailed \/ PollTimeout
  <2>1. CASE HandlePoll(previous)
    BY <1>1, <1>5, <2>1 DEF PollFailed, PollTimeout, Fail
  <2>2. CASE UNCHANGED <<detectorVars, revertVars, sends, phone, ops, history>>
    BY <1>2, <1>5, <2>2 DEF PollFailed, PollTimeout, Fail
  <2> QED
    BY <1>5, <2>1, <2>2 DEF PollFailed, PollTimeout, Fail
<1>6. CASE Close
  <2>1. \A op \in ops' : ~op.live
    BY <1>0, <1>6 DEF Close, Op
  <2> QED
    BY <1>0, <1>6, <2>1
    DEF CurrentInv, Close, PendingMatchesLastPoll, UnsupersededTapIsCurrent,
        LiveTapBelongsToEntry
<1>7. ASSUME NEW t \in sends, Send(t)
      PROVE  CurrentInv'
  <2>1. pending' \in SUBSET pending /\ phone \in SUBSET phone'
    BY <1>7 DEF Send
  <2> QED
    BY <1>0, <1>7, <2>1
    DEF Send, CurrentInv, PendingMatchesLastPoll, UnsupersededTapIsCurrent,
        LiveTapBelongsToEntry
<1>8. ASSUME NEW id \in OpId, NEW p \in pending, Tap(id, p)
      PROVE  CurrentInv'
  <2>1. Matches(previous, p)
    BY DEF CurrentInv, PendingMatchesLastPoll
  <2>2. \A op \in ops' : op \in ops \/ op.act = p
    BY <1>8 DEF Tap
  <2> QED
    BY <1>0, <1>8, <2>1, <2>2
    DEF Tap, Consumed, CurrentInv, PendingMatchesLastPoll, UnsupersededTapIsCurrent,
        LiveTapBelongsToEntry
<1>9. ASSUME NEW op \in ops, FetchReturn(op)
      PROVE  CurrentInv'
  <2>1. op \in Op
    BY <1>0
  <2>2. /\ [op EXCEPT !.pc = "setting", !.fresh = Nothing].act = op.act
        /\ [op EXCEPT !.pc = "setting", !.fresh = Nothing].live = op.live
        /\ [op EXCEPT !.pc = "setting", !.fresh = Nothing].superseded = op.superseded
        /\ [op EXCEPT !.pc = "setting", !.fresh = Nothing].pc = "setting"
    BY <2>1 DEF Op
  <2> QED
    BY <1>2, <1>9, <2>2 DEF FetchReturn
<1>10. ASSUME NEW op \in ops, SetReturn(op)
       PROVE  CurrentInv'
  BY <1>2, <1>10 DEF SetReturn
<1>11. ASSUME NEW id \in WriteId, NEW n \in Name, NEW v \in Value, EntityWrite(id, n, v)
       PROVE  CurrentInv'
  BY <1>2, <1>11 DEF EntityWrite
<1>12. ASSUME NEW w \in writes, EntityReturn(w)
       PROVE  CurrentInv'
  BY <1>2, <1>12 DEF EntityReturn
<1>13. ASSUME NEW q \in {wire} \cup oldWires, Answer(q) \/ TimedOut(q)
       PROVE  CurrentInv'
  <2>1. UNCHANGED <<previous, phone, pending, phase>>
    BY <1>13 DEF Answer, TimedOut
  <2>2. CASE UNCHANGED ops
    BY <1>2, <2>1, <2>2
  <2>3. ASSUME NEW ok, NEW answer, Deliver(Head(q), ok, answer)
        PROVE  CurrentInv'
    <3>1. \A op \in ops' : \E o \in ops :
             /\ op.act = o.act /\ op.live = o.live /\ op.superseded = o.superseded
             /\ op.pc \in {"fetching", "fetched"} => o.pc \in {"fetching", "fetched"}
      BY <1>0, <2>3, DeliverTaps
    <3> QED
      BY <1>2, <2>1, <3>1
  <2> QED
    BY <1>13, <2>2, <2>3 DEF Answer, TimedOut
<1>14. CASE UNCHANGED vars
  BY <1>2, <1>14 DEF vars
<1> QED
  BY <1>3, <1>4, <1>5, <1>6, <1>7, <1>8, <1>9, <1>10, <1>11, <1>12, <1>13, <1>14
  DEF Next

LEMMA CurrentInit == Init => CurrentInv
  BY TypeInit
  DEF Init, CurrentInv, PendingMatchesLastPoll, UnsupersededTapIsCurrent,
      LiveTapBelongsToEntry

LEMMA CurrentAlways == Spec => []CurrentInv
<1>1. Init => CurrentInv
  BY CurrentInit
<1>2. CurrentInv /\ [Next]_vars => CurrentInv'
  BY CurrentStep
<1> QED
  BY <1>1, <1>2, PTL DEF Spec

\* Whatever the settings and however many polls: each action on offer is what
\* the last poll showed.
THEOREM OffersAreCurrent == Spec => []PendingMatchesLastPoll
<1>1. CurrentInv => PendingMatchesLastPoll
  BY DEF CurrentInv
<1> QED
  BY <1>1, CurrentAlways, PTL

\* A tap that no poll has superseded acts on what the last poll showed.
THEOREM TapsAreCurrent == Spec => []UnsupersededTapIsCurrent
<1>1. CurrentInv => UnsupersededTapIsCurrent
  BY DEF CurrentInv
<1> QED
  BY <1>1, CurrentAlways, PTL

-----------------------------------------------------------------------------
(* A Revert is written only when it may be. *)

\* A tap that has not begun its write begins it only in FetchReturn.
LEMMA AuthorisedStep ==
  ASSUME CurrentInv, Next, NEW op \in ops', op.pc = "setting",
         \A o \in ops : o.id = op.id => o.pc # "setting"
  PROVE  /\ phase = "active" /\ ~options.safe
         /\ op.act.token \in phone /\ now < op.act.expires
         /\ Matches(previous, op.act)
<1> USE DEF envVars, wires, pollVars, revertVars, history, detectorVars
<1>0. ops \in SUBSET Op
  BY DEF CurrentInv, TypeOK
\* Impossible: a step after which every coroutine writing was writing before.
<1>1. ASSUME \E o \in ops : o.id = op.id /\ o.pc = op.pc
      PROVE  FALSE
  BY <1>1
<1>2. ASSUME NEW data, HandlePoll(data)
      PROVE  FALSE
  BY <1>0, <1>1, <1>2, HandlePollTaps
<1>3. ASSUME NEW r, NEW ok, NEW answer, Deliver(r, ok, answer)
      PROVE  FALSE
  BY <1>0, <1>1, <1>3, DeliverTaps
<1>4. ASSUME NEW tap \in ops, FetchReturn(tap)
      PROVE  /\ phase = "active" /\ ~options.safe
             /\ op.act.token \in phone /\ now < op.act.expires
             /\ Matches(previous, op.act)
  <2>1. /\ Allowed(tap) /\ tap.pc = "fetched"
        /\ op = [tap EXCEPT !.pc = "setting", !.fresh = Nothing]
    BY <1>1, <1>4 DEF FetchReturn
  <2>2. op.act = tap.act
    BY <1>0, <2>1 DEF Op
  <2> QED
    BY <2>1, <2>2 DEF Allowed, CurrentInv, UnsupersededTapIsCurrent, LiveTapBelongsToEntry
<1>5. ~(GuestChange \/ Tick \/ ChangeOptions \/ Start \/ (\E id \in RefreshId : PollStart(id)))
  BY <1>1 DEF GuestChange, Tick, ChangeOptions, PollStart, Start
<1>6. ~(PollReturn \/ PollFailed \/ PollTimeout)
  BY <1>1, <1>2 DEF PollReturn, PollFailed, PollTimeout, Fail
<1>7. ~Close
  BY <1>0, <1>1 DEF Close, Op
<1>8. \A t \in sends : ~Send(t)
  BY <1>1 DEF Send
<1>9. \A id \in OpId, p \in pending : ~Tap(id, p)
  BY <1>1 DEF Tap
<1>10. \A o \in ops : ~SetReturn(o)
  BY <1>1 DEF SetReturn
<1>11. \A id \in WriteId, n \in Name, v \in Value : ~EntityWrite(id, n, v)
  BY <1>1 DEF EntityWrite
<1>12. \A w \in writes : ~EntityReturn(w)
  BY <1>1 DEF EntityReturn
<1>13. \A q \in {wire} \cup oldWires : ~Answer(q) /\ ~TimedOut(q)
  BY <1>1, <1>3 DEF Answer, TimedOut
<1> QED
  BY <1>4, <1>5, <1>6, <1>7, <1>8, <1>9, <1>10, <1>11, <1>12, <1>13 DEF Next

\* A Revert is written only for an action shown on the phone, before it expires,
\* with the entry loaded and out of Safe Mode, and while the last poll shows
\* the transition it undoes.
THEOREM WritesAreAuthorised == Spec => RevertWriteAuthorised
<1>1. CurrentInv /\ [Next]_vars =>
        [\A op \in ops' :
          op.pc = "setting" /\ (\A o \in ops : o.id = op.id => o.pc # "setting") =>
             /\ phase = "active" /\ ~options.safe
             /\ op.act.token \in phone /\ now < op.act.expires
             /\ Matches(previous, op.act)]_vars
  BY AuthorisedStep
<1> QED
  BY <1>1, CurrentAlways, PTL DEF Spec, RevertWriteAuthorised

-----------------------------------------------------------------------------
(* A token is used once, and a setting is on offer once. *)

\* Every token in use was drawn, a token names one thing, and so does a setting.
TokenInv ==
  /\ TypeOK
  /\ TokenUsedOnce
  /\ OneActionPerSetting
  /\ \A p \in pending : p.token <= issued
  /\ \A op \in ops : op.act.token <= issued
  /\ \A p, q \in pending : p.token = q.token => p = q

\* What observe adds has tokens of its own, one for each setting.
LEMMA OffersFresh ==
  ASSUME TypeOK, NEW data \in Menu
  PROVE  /\ \A p \in Offers(data) : issued < p.token /\ p.token <= issued + Cardinality(Offered(data))
         /\ \A p, q \in Offers(data) : p.token = q.token \/ p.name = q.name => p = q
<1>1. snapshot \in Snapshot /\ issued \in Nat
  BY DEF TypeOK, DetectorTypeOK
<1>2. ASSUME NEW p \in Offers(data)
      PROVE  issued < p.token /\ p.token <= issued + Cardinality(Offered(data))
  BY <1>1, <1>2, TokenType DEF Offers
<1>3. ASSUME NEW p \in Offers(data), NEW q \in Offers(data),
             p.token = q.token \/ p.name = q.name
      PROVE  p = q
  <2>1. PICK c \in Offered(data) :
           p = [token |-> Token(data, c), index |-> c.index, name |-> c.name,
                old |-> c.old, new |-> c.new, expires |-> now + TTL]
    BY DEF Offers
  <2>2. PICK d \in Offered(data) :
           q = [token |-> Token(data, d), index |-> d.index, name |-> d.name,
                old |-> d.old, new |-> d.new, expires |-> now + TTL]
    BY DEF Offers
  <2>3. CASE p.token = q.token
    BY <1>1, <2>1, <2>2, <2>3, TokenType
  <2>4. CASE p.name = q.name
    <3>1. Matches(data, c) /\ Matches(data, d) /\ c.name = d.name
      BY <2>1, <2>2, <2>4 DEF Offered, Revertible
    <3>2. c.index = d.index
      BY <3>1 DEF Matches, UniqueName
    <3>3. c = d
      BY <1>1, <3>2, OfferedType
    <3> QED
      BY <2>1, <2>2, <3>3
  <2> QED
    BY <1>3, <2>3, <2>4
<1> QED
  BY <1>2, <1>3

\* A poll keeps the invariant.
LEMMA HandlePollTokens ==
  ASSUME TokenInv, NEW data \in Menu, HandlePoll(data), TypeOK'
  PROVE  TokenInv' /\ \A p \in pending' : p \in pending \/ p.token > issued
<1>1. /\ issued \in Nat /\ issued' \in Nat /\ ops \in SUBSET Op /\ ops' \in SUBSET Op
      /\ pending \in SUBSET Pending /\ pending' \in SUBSET Pending
  BY DEF TokenInv, TypeOK
<1>2. /\ issued' = issued + Cardinality(Offered(data))
      /\ Cardinality(Offered(data)) \in Nat
  <2>1. snapshot \in Snapshot
    BY DEF TokenInv, TypeOK, DetectorTypeOK
  <2> QED
    BY <2>1, OfferedType DEF HandlePoll, Observe
<1>3. \A p \in pending' : \/ p \in pending /\ \A q \in Offers(data) : q.name # p.name
                          \/ p \in Offers(data)
  BY DEF HandlePoll, Observe, Newest, Replaced, Surviving
<1>4. /\ \A p \in Offers(data) : issued < p.token /\ p.token <= issued'
      /\ \A p, q \in Offers(data) : p.token = q.token \/ p.name = q.name => p = q
  BY <1>2, OffersFresh DEF TokenInv
<1>5. \A p \in pending' : p.token \in Nat /\ p.token <= issued'
  BY <1>1, <1>2, <1>3, <1>4 DEF TokenInv, Pending
<1>6. \A p, q \in pending' : p.token = q.token \/ p.name = q.name => p = q
  <2>1. \A p \in pending : p.token \in Nat /\ p.token <= issued
    BY <1>1 DEF TokenInv, Pending
  <2>2. \A p \in Offers(data), q \in pending : p.token # q.token
    BY <1>1, <1>4, <2>1
  <2> QED
    BY <1>3, <1>4, <2>2 DEF TokenInv, OneActionPerSetting
<1>7. \A op \in ops' : \E o \in ops : op.act = o.act
  BY <1>1 DEF HandlePoll, Observe, Superseded, Op
<1>8. \A op \in ops' : op.act.token \in Nat /\ op.act.token <= issued
  BY <1>1, <1>7 DEF TokenInv, Op, Pending
<1>9. TokenUsedOnce'
  <2>1. \A op \in ops', p \in pending' : op.act.token # p.token
    <3> TAKE op \in ops', p \in pending'
    <3>1. CASE p \in pending
      BY <1>7, <3>1 DEF TokenInv, TokenUsedOnce
    <3>2. CASE p \in Offers(data)
      BY <1>1, <1>4, <1>5, <1>8, <3>2
    <3> QED
      BY <1>3, <3>1, <3>2
  <2>2. \A o1, o2 \in ops' : o1.act.token = o2.act.token => o1 = o2
    <3> DEFINE After(o) == [o EXCEPT !.superseded = TRUE]
    <3>1. ops' = {After(o) : o \in ops} /\ \A o \in ops : After(o).act = o.act
      BY <1>1 DEF HandlePoll, Observe, Superseded, Op
    <3> HIDE DEF After
    <3> QED
      BY <3>1 DEF TokenInv, TokenUsedOnce
  <2> QED
    BY <2>1, <2>2 DEF TokenUsedOnce
<1>10. \A p \in pending' : p \in pending \/ p.token > issued
  BY <1>1, <1>3, <1>4
<1>11. \A op \in ops' : op.act.token <= issued'
  BY <1>1, <1>2, <1>8
<1> QED
  BY <1>5, <1>6, <1>9, <1>10, <1>11 DEF TokenInv, OneActionPerSetting

LEMMA TokenStep ==
  TokenInv /\ [Next]_vars => TokenInv' /\ \A p \in pending' : p \in pending \/ p.token > issued
<1> DEFINE Fresh == \A p \in pending' : p \in pending \/ p.token > issued
<1> SUFFICES ASSUME TokenInv, [Next]_vars
             PROVE  TokenInv' /\ Fresh
  OBVIOUS
<1> USE DEF envVars, wires, pollVars, revertVars, history, detectorVars
<1>0. TypeOK /\ TypeOK' /\ ops \in SUBSET Op
  BY TypeStep DEF TokenInv, TypeOK
\* A step that offers nothing and starts no coroutine.
<1>1. ASSUME pending' \in SUBSET pending, UNCHANGED issued,
             \A o1 \in ops' : \E o2 \in ops : o1.act = o2.act,
             \A o1, o2 \in ops' : o1.act.token = o2.act.token => o1 = o2
      PROVE  TokenInv' /\ Fresh
  BY <1>0, <1>1 DEF TokenInv, TokenUsedOnce, OneActionPerSetting
<1>2. ASSUME pending' \in SUBSET pending, UNCHANGED issued, ops' \in SUBSET ops
      PROVE  TokenInv' /\ Fresh
  BY <1>1, <1>2 DEF TokenInv, TokenUsedOnce
<1>3. CASE GuestChange \/ Tick \/ ChangeOptions \/ Start \/ (\E id \in RefreshId : PollStart(id))
  BY <1>2, <1>3 DEF GuestChange, Tick, ChangeOptions, PollStart, Start
<1>4. CASE PollReturn
  <2>1. poll.data \in Menu
    BY <1>0 DEF TypeOK, Refresh
  <2> QED
    BY <1>0, <1>4, <2>1, HandlePollTokens DEF PollReturn
<1>5. CASE PollFailed \/ PollTimeout
  <2>1. previous \in Menu
    BY <1>0 DEF TypeOK
  <2>2. CASE HandlePoll(previous)
    BY <1>0, <2>1, <2>2, HandlePollTokens
  <2>3. CASE UNCHANGED <<detectorVars, revertVars, sends, phone, ops, history>>
    BY <1>2, <2>3
  <2> QED
    BY <1>5, <2>2, <2>3 DEF PollFailed, PollTimeout, Fail
<1>6. CASE Close
  <2> DEFINE After(o) == [o EXCEPT !.live = FALSE]
  <2>1. ops' = {After(o) : o \in ops} /\ \A o \in ops : After(o).act = o.act
    BY <1>0, <1>6 DEF Close, Op
  <2> HIDE DEF After
  <2>2. \A o1, o2 \in ops' : o1.act.token = o2.act.token => o1 = o2
    BY <2>1 DEF TokenInv, TokenUsedOnce
  <2> QED
    BY <1>1, <1>6, <2>1, <2>2 DEF Close
<1>7. ASSUME NEW t \in sends, Send(t)
      PROVE  TokenInv' /\ Fresh
  BY <1>2, <1>7 DEF Send
<1>8. ASSUME NEW id \in OpId, NEW p \in pending, Tap(id, p)
      PROVE  TokenInv' /\ Fresh
  <2>1. pending' = pending \ {p} /\ UNCHANGED issued
    BY <1>8 DEF Tap, Consumed
  <2>2. \A q \in pending' : q.token # p.token
    BY <2>1 DEF TokenInv
  <2>3. \E new : ops' \in SUBSET (ops \cup {new}) /\ new.act = p
    <3> DEFINE new == [id |-> id, pc |-> "fetching", act |-> p, superseded |-> FALSE,
                       live |-> TRUE, ok |-> FALSE, fresh |-> Nothing]
    <3>1. ops' \in SUBSET (ops \cup {new})
      BY <1>8 DEF Tap
    <3>2. new.act = p
      OBVIOUS
    <3> QED
      BY <3>1, <3>2
  <2> QED
    BY <1>0, <2>1, <2>2, <2>3 DEF TokenInv, TokenUsedOnce, OneActionPerSetting
<1>9. ASSUME NEW op \in ops, FetchReturn(op)
      PROVE  TokenInv' /\ Fresh
  <2>1. [op EXCEPT !.pc = "setting", !.fresh = Nothing].act = op.act
    BY <1>0 DEF Op
  <2>2. \A o1, o2 \in ops' : o1.act.token = o2.act.token => o1 = o2
    BY <1>9, <2>1 DEF FetchReturn, TokenInv, TokenUsedOnce
  <2> QED
    BY <1>1, <1>9, <2>1, <2>2 DEF FetchReturn
<1>10. ASSUME NEW op \in ops, SetReturn(op)
       PROVE  TokenInv' /\ Fresh
  BY <1>2, <1>10 DEF SetReturn
<1>11. ASSUME NEW id \in WriteId, NEW n \in Name, NEW v \in Value, EntityWrite(id, n, v)
       PROVE  TokenInv' /\ Fresh
  BY <1>2, <1>11 DEF EntityWrite
<1>12. ASSUME NEW w \in writes, EntityReturn(w)
       PROVE  TokenInv' /\ Fresh
  BY <1>2, <1>12 DEF EntityReturn
<1>13. ASSUME NEW q \in {wire} \cup oldWires, Answer(q) \/ TimedOut(q)
       PROVE  TokenInv' /\ Fresh
  <2>1. UNCHANGED <<pending, issued>>
    BY <1>13 DEF Answer, TimedOut
  <2>2. CASE UNCHANGED ops
    BY <1>2, <2>1, <2>2
  <2>3. ASSUME NEW ok, NEW answer, Deliver(Head(q), ok, answer)
        PROVE  TokenInv' /\ Fresh
    <3> DEFINE After(o) == IF Awaits(o, Head(q)) THEN Resumed(o, ok) ELSE o
    <3>1. \A o \in Op : Resumed(o, ok).act = o.act
      BY DEF Resumed, Op
    <3>2. ops' = {After(o) : o \in ops} /\ \A o \in ops : After(o).act = o.act
      BY <1>0, <2>3, <3>1 DEF Deliver
    <3> HIDE DEF After
    <3>3. \A o1, o2 \in ops' : o1.act.token = o2.act.token => o1 = o2
      BY <3>2 DEF TokenInv, TokenUsedOnce
    <3> QED
      BY <1>1, <2>1, <3>2, <3>3
  <2> QED
    BY <1>13, <2>2, <2>3 DEF Answer, TimedOut
<1>14. CASE UNCHANGED vars
  BY <1>2, <1>14 DEF vars
<1> QED
  BY <1>3, <1>4, <1>5, <1>6, <1>7, <1>8, <1>9, <1>10, <1>11, <1>12, <1>13, <1>14
  DEF Next

LEMMA TokenAlways == Spec => []TokenInv
<1>1. Init => TokenInv
  BY TypeInit DEF Init, TokenInv, TokenUsedOnce, OneActionPerSetting
<1>2. TokenInv /\ [Next]_vars => TokenInv'
  BY TokenStep
<1> QED
  BY <1>1, <1>2, PTL DEF Spec

\* A token is on offer or used by one running tap, never both, never by two.
THEOREM TokensAreUsedOnce == Spec => []TokenUsedOnce
<1>1. TokenInv => TokenUsedOnce
  BY DEF TokenInv
<1> QED
  BY <1>1, TokenAlways, PTL

\* A setting has at most one action on offer.
THEOREM SettingsAreOfferedOnce == Spec => []OneActionPerSetting
<1>1. TokenInv => OneActionPerSetting
  BY DEF TokenInv
<1> QED
  BY <1>1, TokenAlways, PTL

\* A token that was consumed, expired or replaced is never offered again.
THEOREM TokensStayFresh == Spec => TokensAreFresh
<1>1. TokenInv /\ [Next]_vars => [\A p \in pending' : p \in pending \/ p.token > issued]_vars
  BY TokenStep
<1> QED
  BY <1>1, TokenAlways, PTL DEF Spec, TokensAreFresh

-----------------------------------------------------------------------------
(* An expectation does not outlive the Revert it belongs to. *)

OwnerInv == TypeOK /\ ExpectationHasOwner

\* Every coroutine that was writing still is, in a step that adds no expectation.
LEMMA OwnersStay ==
  ASSUME OwnerInv, TypeOK',
         \A w \in revertWrites' : w.active => w \in revertWrites,
         \A o \in ops : o.pc \in {"setting", "set"} =>
            \E op \in ops' : op.act = o.act /\ op.pc \in {"setting", "set"}
  PROVE  OwnerInv'
<1>1. SUFFICES ASSUME NEW w \in revertWrites', w.active
               PROVE  \E op \in ops' : op.act.token = w.token /\ op.pc \in {"setting", "set"}
  BY DEF OwnerInv, ExpectationHasOwner
<1>2. PICK o \in ops : o.act.token = w.token /\ o.pc \in {"setting", "set"}
  BY <1>1 DEF OwnerInv, ExpectationHasOwner
<1> QED
  BY <1>2

\* A poll only ever drops expectations.
LEMMA HandlePollOwners ==
  ASSUME OwnerInv, TypeOK', NEW data, HandlePoll(data)
  PROVE  OwnerInv'
<1>1. revertWrites' \in SUBSET revertWrites
  BY DEF HandlePoll, ProcessEditParams, Awaited, detectorVars
<1>2. \A o \in ops : [o EXCEPT !.superseded = TRUE].act = o.act
                     /\ [o EXCEPT !.superseded = TRUE].pc = o.pc
  BY DEF OwnerInv, TypeOK, Op
<1>3. \A o \in ops : \E op \in ops' : op.act = o.act /\ op.pc = o.pc
  BY <1>2 DEF HandlePoll, Observe, Superseded
<1> QED
  BY <1>1, <1>3, OwnersStay

LEMMA OwnerStep == OwnerInv /\ [Next]_vars => OwnerInv'
<1> SUFFICES ASSUME OwnerInv, [Next]_vars
             PROVE  OwnerInv'
  OBVIOUS
<1> USE DEF envVars, wires, pollVars, revertVars, history, detectorVars
<1>0. /\ TypeOK /\ TypeOK' /\ ops \in SUBSET Op
      /\ revertWrites \in SUBSET RevertWrite
  BY TypeStep DEF OwnerInv, TypeOK, DetectorTypeOK
<1>1. ASSUME UNCHANGED revertWrites, ops \in SUBSET ops'
      PROVE  OwnerInv'
  BY <1>0, <1>1, OwnersStay
<1>2. CASE GuestChange \/ Tick \/ ChangeOptions \/ Start \/ (\E id \in RefreshId : PollStart(id))
  BY <1>1, <1>2 DEF GuestChange, Tick, ChangeOptions, PollStart, Start
<1>3. CASE PollReturn
  BY <1>0, <1>3, HandlePollOwners DEF PollReturn
<1>4. CASE PollFailed \/ PollTimeout
  <2>1. CASE HandlePoll(previous)
    BY <1>0, <2>1, HandlePollOwners
  <2>2. CASE UNCHANGED <<detectorVars, revertVars, sends, phone, ops, history>>
    BY <1>1, <2>2
  <2> QED
    BY <1>4, <2>1, <2>2 DEF PollFailed, PollTimeout, Fail
<1>5. CASE Close
  BY <1>0, <1>5 DEF Close, DetectorReset, OwnerInv, ExpectationHasOwner
<1>6. ASSUME NEW t \in sends, Send(t)
      PROVE  OwnerInv'
  BY <1>1, <1>6 DEF Send
<1>7. ASSUME NEW id \in OpId, NEW p \in pending, Tap(id, p)
      PROVE  OwnerInv'
  <2>1. UNCHANGED revertWrites /\ ops \in SUBSET ops'
    BY <1>7 DEF Tap
  <2> QED
    BY <1>1, <2>1
\* The new expectation belongs to the tap that begins its write.
<1>8. ASSUME NEW op \in ops, FetchReturn(op)
      PROVE  OwnerInv'
  <2>1. CASE UNCHANGED revertWrites /\ ops' = ops \ {op}
    BY <1>0, <1>8, <2>1, OwnersStay DEF FetchReturn
  <2>2. CASE /\ revertWrites' = BeginRevert(op.act.token, op.act)
             /\ ops' = (ops \ {op}) \cup {[op EXCEPT !.pc = "setting", !.fresh = Nothing]}
    <3>1. /\ [op EXCEPT !.pc = "setting", !.fresh = Nothing].act = op.act
          /\ [op EXCEPT !.pc = "setting", !.fresh = Nothing].pc = "setting"
      BY <1>0 DEF Op
    <3>2. SUFFICES ASSUME NEW w \in revertWrites', w.active
                   PROVE  \E o \in ops' : o.act.token = w.token /\ o.pc \in {"setting", "set"}
      BY <1>0 DEF OwnerInv, ExpectationHasOwner
    <3>3. CASE w \in revertWrites
      <4>1. PICK o \in ops : o.act.token = w.token /\ o.pc \in {"setting", "set"}
        BY <3>2, <3>3 DEF OwnerInv, ExpectationHasOwner
      <4> QED
        BY <1>8, <2>2, <4>1 DEF FetchReturn
    <3>4. CASE w.token = op.act.token
      BY <2>2, <3>1, <3>4
    <3>5. w \in revertWrites \/ w.token = op.act.token
      BY <2>2 DEF BeginRevert
    <3> QED
      BY <3>3, <3>4, <3>5
  <2> QED
    BY <1>8, <2>1, <2>2 DEF FetchReturn
\* The tap that ends takes its own expectation out of force.
<1>9. ASSUME NEW op \in ops, SetReturn(op)
      PROVE  OwnerInv'
  <2>1. \A w \in revertWrites' : w.active => w \in revertWrites /\ w.token # op.act.token
    <3> SUFFICES ASSUME NEW w \in revertWrites', w.active
                 PROVE  w \in revertWrites /\ w.token # op.act.token
      OBVIOUS
    <3>1. PICK x \in revertWrites :
             w = IF x.token = op.act.token THEN [x EXCEPT !.active = FALSE] ELSE x
      BY <1>9 DEF SetReturn, FinishRevert
    <3>2. ~[x EXCEPT !.active = FALSE].active
      BY <1>0 DEF RevertWrite
    <3> QED
      BY <3>1, <3>2
  <2>2. SUFFICES ASSUME NEW w \in revertWrites', w.active
                 PROVE  \E o \in ops' : o.act.token = w.token /\ o.pc \in {"setting", "set"}
    BY <1>0 DEF OwnerInv, ExpectationHasOwner
  <2>3. PICK o \in ops : o.act.token = w.token /\ o.pc \in {"setting", "set"}
    BY <2>1, <2>2 DEF OwnerInv, ExpectationHasOwner
  <2> QED
    BY <1>9, <2>1, <2>2, <2>3 DEF SetReturn
<1>10. ASSUME NEW id \in WriteId, NEW n \in Name, NEW v \in Value, EntityWrite(id, n, v)
       PROVE  OwnerInv'
  BY <1>1, <1>10 DEF EntityWrite
<1>11. ASSUME NEW w \in writes, EntityReturn(w)
       PROVE  OwnerInv'
  BY <1>1, <1>11 DEF EntityReturn
<1>12. ASSUME NEW q \in {wire} \cup oldWires, Answer(q) \/ TimedOut(q)
       PROVE  OwnerInv'
  <2>1. UNCHANGED revertWrites
    BY <1>12 DEF Answer, TimedOut
  <2>2. CASE UNCHANGED ops
    BY <1>1, <2>1, <2>2
  <2>3. ASSUME NEW ok, NEW answer, Deliver(Head(q), ok, answer)
        PROVE  OwnerInv'
    <3> DEFINE After(o) == IF Awaits(o, Head(q)) THEN Resumed(o, ok) ELSE o
    <3>1. \A o \in ops : /\ o.pc = "setting" => Resumed(o, ok).pc = "set"
                         /\ Resumed(o, ok).act = o.act
      BY <1>0 DEF Resumed, Op
    <3>2. ops' = {After(o) : o \in ops}
      BY <2>3 DEF Deliver
    <3>3. \A o \in ops : o.pc \in {"setting", "set"} =>
             After(o) \in ops' /\ After(o).act = o.act /\ After(o).pc \in {"setting", "set"}
      BY <3>1, <3>2 DEF Awaits
    <3> HIDE DEF After
    <3> QED
      BY <1>0, <2>1, <3>3, OwnersStay
  <2> QED
    BY <1>12, <2>2, <2>3 DEF Answer, TimedOut
<1>13. CASE UNCHANGED vars
  BY <1>1, <1>13 DEF vars
<1> QED
  BY <1>2, <1>3, <1>4, <1>5, <1>6, <1>7, <1>8, <1>9, <1>10, <1>11, <1>12, <1>13 DEF Next

\* The detector expects the outcome of a Revert only while that Revert is being
\* written: every expectation in force has a running tap that will end it.
THEOREM ExpectationsAreOwned == Spec => []ExpectationHasOwner
<1>1. Init => OwnerInv
  BY TypeInit DEF Init, OwnerInv, ExpectationHasOwner
<1>2. OwnerInv /\ [Next]_vars => OwnerInv'
  BY OwnerStep
<1>3. OwnerInv => ExpectationHasOwner
  BY DEF OwnerInv
<1> QED
  BY <1>1, <1>2, <1>3, PTL DEF Spec

-----------------------------------------------------------------------------
(***************************************************************************)
(* The queues of the clients.                                              *)
(*                                                                         *)
(* A request is known by its kind and by its waiter: these tags are what   *)
(* the queues and the waiting coroutines are compared by.                  *)
(***************************************************************************)
Tag(r) == <<r.kind, r.by>>
Tags(q) == {Tag(q[i]) : i \in DOMAIN q}
AllTags == UNION {Tags(q) : q \in Queues}

\* No two requests of a queue have the same tag.
OneEach(q) == \A i, j \in DOMAIN q : Tag(q[i]) = Tag(q[j]) => i = j

\* A queue that gets one more request.
LEMMA AppendTags ==
  ASSUME NEW q \in Seq(Request), OneEach(q), NEW r \in Request, Tag(r) \notin Tags(q)
  PROVE  /\ Append(q, r) \in Seq(Request)
         /\ OneEach(Append(q, r))
         /\ Tags(Append(q, r)) = Tags(q) \cup {Tag(r)}
<1> DEFINE s == Append(q, r)
<1>1. s \in Seq(Request) /\ Len(s) = Len(q) + 1 /\ DOMAIN q = 1 .. Len(q)
      /\ DOMAIN s = 1 .. (Len(q) + 1) /\ Len(q) \in Nat
  OBVIOUS
<1>2. s[Len(q) + 1] = r /\ \A i \in 1 .. Len(q) : s[i] = q[i]
  OBVIOUS
<1> HIDE DEF s
<1>3. \A i \in DOMAIN s : i \in DOMAIN q \/ i = Len(q) + 1
  BY <1>1
<1>4. \A i \in DOMAIN q : i \in DOMAIN s /\ s[i] = q[i]
  BY <1>1, <1>2
<1>5. Tags(s) = Tags(q) \cup {Tag(r)}
  <2>1. Len(q) + 1 \in DOMAIN s
    BY <1>1
  <2> QED
    BY <2>1, <1>2, <1>3, <1>4 DEF Tags
<1>6. OneEach(s)
  <2> SUFFICES ASSUME NEW i \in DOMAIN s, NEW j \in DOMAIN s, Tag(s[i]) = Tag(s[j])
               PROVE  i = j
    BY DEF OneEach
  <2>1. ASSUME NEW k \in DOMAIN q
        PROVE  Tag(s[k]) # Tag(r)
    BY <2>1, <1>4 DEF Tags
  <2>2. CASE i \in DOMAIN q /\ j \in DOMAIN q
    BY <2>2, <1>4 DEF OneEach
  <2> QED
    BY <2>1, <2>2, <1>2, <1>3
<1> QED
  BY <1>1, <1>5, <1>6 DEF s

\* The request at the head of a queue leaves it.
LEMMA TailTags ==
  ASSUME NEW q \in Seq(Request), q # <<>>, OneEach(q)
  PROVE  /\ Head(q) \in Request
         /\ Tag(Head(q)) \in Tags(q)
         /\ Tail(q) \in Seq(Request)
         /\ OneEach(Tail(q))
         /\ Tags(Tail(q)) = Tags(q) \ {Tag(Head(q))}
<1> DEFINE s == Tail(q)
<1>1. /\ s \in Seq(Request) /\ Len(q) \in Nat \ {0}
      /\ DOMAIN q = 1 .. Len(q) /\ DOMAIN s = 1 .. (Len(q) - 1)
      /\ Head(q) = q[1] /\ 1 \in DOMAIN q
  OBVIOUS
<1>2. \A i \in DOMAIN s : i + 1 \in DOMAIN q /\ s[i] = q[i + 1]
  OBVIOUS
<1> HIDE DEF s
<1>3. \A i \in DOMAIN q \ {1} : i - 1 \in DOMAIN s /\ s[i - 1] = q[i]
  <2> TAKE i \in DOMAIN q \ {1}
  <2>1. i - 1 \in DOMAIN s /\ (i - 1) + 1 = i
    BY <1>1
  <2> QED
    BY <2>1, <1>2
<1>4. Head(q) \in Request
  BY <1>1
<1>5. OneEach(s)
  <2> SUFFICES ASSUME NEW i \in DOMAIN s, NEW j \in DOMAIN s, Tag(s[i]) = Tag(s[j])
               PROVE  i = j
    BY DEF OneEach
  <2>1. i + 1 = j + 1
    BY <1>2 DEF OneEach
  <2> QED
    BY <2>1, <1>1
<1>6. Tags(s) = Tags(q) \ {Tag(q[1])}
  <2>1. \A t \in Tags(s) : t \in Tags(q) /\ t # Tag(q[1])
    <3> TAKE t \in Tags(s)
    <3>1. PICK i \in DOMAIN s : t = Tag(s[i])
      BY DEF Tags
    <3>2. i + 1 \in DOMAIN q /\ t = Tag(q[i + 1]) /\ i + 1 # 1
      BY <3>1, <1>1, <1>2
    <3> QED
      BY <3>2, <1>1 DEF Tags, OneEach
  <2>2. \A t \in Tags(q) : t # Tag(q[1]) => t \in Tags(s)
    <3> TAKE t \in Tags(q)
    <3>1. PICK i \in DOMAIN q : t = Tag(q[i])
      BY DEF Tags
    <3>2. CASE i # 1
      BY <3>1, <3>2, <1>3 DEF Tags
    <3> QED
      BY <3>1, <3>2
  <2> QED
    BY <2>1, <2>2
<1>7. Tag(Head(q)) \in Tags(q)
  BY <1>1 DEF Tags
<1> QED
  BY <1>1, <1>4, <1>5, <1>6, <1>7 DEF s

\* The request served first is queued once more, for its next attempt.
LEMMA RetryTags ==
  ASSUME NEW q \in Seq(Request), q # <<>>, OneEach(q), Head(q).tries > 1
  PROVE  /\ Append(Tail(q), Retry(Head(q))) \in Seq(Request)
         /\ OneEach(Append(Tail(q), Retry(Head(q))))
         /\ Tags(Append(Tail(q), Retry(Head(q)))) = Tags(q)
<1>1. /\ Head(q) \in Request /\ Tail(q) \in Seq(Request) /\ OneEach(Tail(q))
      /\ Tags(Tail(q)) = Tags(q) \ {Tag(Head(q))} /\ Tag(Head(q)) \in Tags(q)
  BY TailTags
<1>2. /\ Retry(Head(q)) \in Request
      /\ Tag(Retry(Head(q))) = Tag(Head(q))
  BY <1>1 DEF Retry, Request, Tag
<1> DEFINE r == Retry(Head(q))
           t == Tail(q)
<1>3. /\ t \in Seq(Request) /\ OneEach(t) /\ r \in Request
      /\ Tag(r) \notin Tags(t) /\ Tags(t) \cup {Tag(r)} = Tags(q)
  BY <1>1, <1>2
<1> HIDE DEF r, t
<1>4. /\ Append(t, r) \in Seq(Request) /\ OneEach(Append(t, r))
      /\ Tags(Append(t, r)) = Tags(q)
  BY <1>3, AppendTags
<1> QED
  BY <1>4 DEF r, t

\* Every request of s is one of q, and no further back.
Forward(q, s) == \A j \in DOMAIN s : \E i \in DOMAIN q : j <= i /\ s[j] = q[i]

\* A request of the poll is cancelled, if it is queued.
LEMMA WithoutTags ==
  ASSUME NEW q \in Seq(Request), OneEach(q), NEW kind
  PROVE  /\ Without(q, kind) \in Seq(Request)
         /\ OneEach(Without(q, kind))
         /\ Tags(Without(q, kind)) = Tags(q) \ {<<kind, poll.by>>}
         /\ Forward(q, Without(q, kind))
<1>1. CASE \A i \in 1 .. Len(q) : ~(q[i].kind = kind /\ q[i].by = poll.by)
  <2>1. Without(q, kind) = q
    BY <1>1 DEF Without, RemoveFirstMatch, SelectInSeq
  <2>2. <<kind, poll.by>> \notin Tags(q)
    BY <1>1 DEF Tags, Tag
  <2>3. Forward(q, q)
    <3>1. \A i \in DOMAIN q : i <= i
      OBVIOUS
    <3> QED
      BY <3>1 DEF Forward
  <2> QED
    BY <2>1, <2>2, <2>3
<1>2. ASSUME NEW k \in 1 .. Len(q), q[k].kind = kind, q[k].by = poll.by
      PROVE  /\ Without(q, kind) \in Seq(Request)
             /\ OneEach(Without(q, kind))
             /\ Tags(Without(q, kind)) = Tags(q) \ {<<kind, poll.by>>}
             /\ Forward(q, Without(q, kind))
  <2> DEFINE I == {i \in 1 .. Len(q) : q[i].kind = kind /\ q[i].by = poll.by}
             s == RemoveAt(q, k)
  <2>1. I = {k}
    BY <1>2 DEF OneEach, Tag
  <2>2. Min(I) = k
    BY <2>1 DEF Min
  <2>3. Without(q, kind) = s
    BY <1>2, <2>1, <2>2 DEF Without, RemoveFirstMatch, SelectInSeq
  <2>4. /\ s \in Seq(Request) /\ Len(q) \in Nat /\ DOMAIN q = 1 .. Len(q)
        /\ DOMAIN s = 1 .. (Len(q) - 1)
        /\ \A i \in 1 .. (Len(q) - 1) : s[i] = IF i < k THEN q[i] ELSE q[i + 1]
    <3> DEFINE front == SubSeq(q, 1, k - 1)
               back == SubSeq(q, k + 1, Len(q))
    <3>1. Len(q) \in Nat /\ DOMAIN q = 1 .. Len(q) /\ k \in 1 .. Len(q)
      OBVIOUS
    <3>2. /\ front \in Seq(Request) /\ Len(front) = k - 1
          /\ \A i \in 1 .. (k - 1) : front[i] = q[i]
      BY <3>1
    <3>3. /\ back \in Seq(Request) /\ Len(back) = Len(q) - k
          /\ \A i \in 1 .. (Len(q) - k) : back[i] = q[i + k]
      <4>1. k + 1 \in Int /\ \A i \in (k + 1) .. Len(q) : q[i] \in Request
        BY <3>1
      <4>2. /\ back \in Seq(Request)
            /\ Len(back) = IF k + 1 <= Len(q) THEN Len(q) - (k + 1) + 1 ELSE 0
            /\ \A i \in 1 .. (Len(q) - (k + 1) + 1) : back[i] = q[(k + 1) + i - 1]
        BY <3>1, <4>1, SubSeqProperties
      <4> HIDE DEF back
      <4>3. Len(back) = Len(q) - k
        <5>1. Len(q) \in Nat /\ k \in Nat /\ k <= Len(q)
          BY <3>1
        <5>2. Len(back) = IF k + 1 <= Len(q) THEN Len(q) - (k + 1) + 1 ELSE 0
          BY <4>2
        <5>3. CASE k + 1 <= Len(q)
          BY <5>1, <5>2, <5>3
        <5>4. CASE ~(k + 1 <= Len(q))
          BY <5>1, <5>2, <5>4
        <5> QED
          BY <5>3, <5>4
      <4>4. ASSUME NEW i \in 1 .. (Len(q) - k)
            PROVE  back[i] = q[i + k]
        <5>1. i \in 1 .. (Len(q) - (k + 1) + 1) /\ (k + 1) + i - 1 = i + k
          BY <3>1
        <5>2. back[i] = q[(k + 1) + i - 1]
          BY <4>2, <5>1
        <5> QED
          BY <5>1, <5>2
      <4> QED
        BY <4>2, <4>3, <4>4
    <3>4. s = front \o back
      BY DEF RemoveAt
    <3> HIDE DEF s, front, back
    <3>5. s \in Seq(Request) /\ Len(s) = Len(q) - 1
      <4>1. front \o back \in Seq(Request) /\ Len(front \o back) = Len(front) + Len(back)
        BY <3>2, <3>3, ConcatProperties
      <4>2. (k - 1) + (Len(q) - k) = Len(q) - 1
        BY <3>1
      <4> QED
        BY <3>2, <3>3, <3>4, <4>1, <4>2
    <3>6. \A i \in 1 .. (Len(q) - 1) : s[i] = IF i < k THEN q[i] ELSE q[i + 1]
      <4> TAKE i \in 1 .. (Len(q) - 1)
      <4>1. CASE i < k
        BY <3>1, <3>2, <3>3, <3>4, <4>1
      <4>2. CASE ~(i < k)
        <5>1. s[i] = back[i - (k - 1)] /\ i - (k - 1) \in 1 .. (Len(q) - k)
          BY <3>1, <3>2, <3>3, <3>4, <4>2
        <5>2. back[i - (k - 1)] = q[(i - (k - 1)) + k] /\ (i - (k - 1)) + k = i + 1
          BY <3>1, <3>3, <5>1
        <5> QED
          BY <4>2, <5>1, <5>2
      <4> QED
        BY <4>1, <4>2
    <3>7. DOMAIN s = 1 .. (Len(q) - 1)
      BY <3>1, <3>5
    <3> QED
      BY <3>1, <3>5, <3>6, <3>7
  <2> HIDE DEF s, I
  <2> DEFINE From(i) == IF i < k THEN i ELSE i + 1
  <2>5. /\ k \in DOMAIN q
        /\ \A i \in DOMAIN s : From(i) \in DOMAIN q \ {k} /\ s[i] = q[From(i)]
        /\ \A i, j \in DOMAIN s : From(i) = From(j) => i = j
        /\ \A i \in DOMAIN q \ {k} : \E j \in DOMAIN s : From(j) = i
        /\ \A j \in DOMAIN s : j <= From(j)
    <3>1. \A i \in DOMAIN q \ {k} : \E j \in DOMAIN s : From(j) = i
      <4> TAKE i \in DOMAIN q \ {k}
      <4>1. CASE i < k
        BY <2>4, <4>1
      <4>2. CASE i > k
        <5>1. i - 1 \in DOMAIN s /\ From(i - 1) = i
          BY <2>4, <4>2
        <5> QED
          BY <5>1
      <4> QED
        BY <2>4, <4>1, <4>2
    <3> QED
      BY <2>4, <3>1
  <2> HIDE DEF From
  <2>6. OneEach(s)
    BY <2>5 DEF OneEach
  <2>7. Tag(q[k]) = <<kind, poll.by>>
    BY <1>2 DEF Tag
  <2>8. Tags(s) = Tags(q) \ {<<kind, poll.by>>}
    <3>1. \A i \in DOMAIN s : Tag(s[i]) \in Tags(q) /\ Tag(s[i]) # Tag(q[k])
      BY <2>5 DEF OneEach, Tags
    <3>2. \A i \in DOMAIN q \ {k} : Tag(q[i]) \in Tags(s)
      BY <2>5 DEF Tags
    <3> QED
      BY <2>7, <3>1, <3>2 DEF Tags
  <2>9. Forward(q, s)
    BY <2>5 DEF Forward
  <2> QED
    BY <2>3, <2>4, <2>6, <2>8, <2>9
<1> QED
  BY <1>1, <1>2

\* What a cancelled refresh leaves in the queue.
LEMMA WithoutPollTags ==
  ASSUME NEW q \in Seq(Request), OneEach(q)
  PROVE  /\ WithoutPoll(q) \in Seq(Request)
         /\ OneEach(WithoutPoll(q))
         /\ Tags(WithoutPoll(q)) = Tags(q) \ {<<"edit", poll.by>>, <<"sys", poll.by>>}
<1>1. /\ Without(q, "edit") \in Seq(Request)
      /\ OneEach(Without(q, "edit"))
      /\ Tags(Without(q, "edit")) = Tags(q) \ {<<"edit", poll.by>>}
  BY WithoutTags
<1> QED
  BY <1>1, WithoutTags DEF WithoutPoll

-----------------------------------------------------------------------------
(***************************************************************************)
(* Queues are never mixed up: no request is in two places.                 *)
(***************************************************************************)
WiresShaped ==
    /\ wire \in Seq(Request) /\ oldWires \in SUBSET Seq(Request)
    /\ <<>> \notin oldWires /\ wire \notin oldWires
    /\ \A q \in Queues : OneEach(q)
    /\ \A q1, q2 \in Queues : q1 # q2 => Tags(q1) \cap Tags(q2) = {}

LEMMA EmptyTags ==
  /\ Tags(<<>>) = {} /\ OneEach(<<>>) /\ <<>> \in Seq(Request)
  /\ \A q \in Seq(Request) : Tags(q) = {} => q = <<>>
  BY DEF Tags, OneEach

\* One queue is replaced by another with the same requests, fewer of them, or
\* new ones.
LEMMA RequeueShaped ==
  ASSUME WiresShaped, NEW q \in Queues, NEW s \in Seq(Request), OneEach(s),
         Requeue(q, s),
         \A t \in Tags(s) : t \in Tags(q) \/ (q = wire /\ t \notin AllTags)
  PROVE  /\ WiresShaped'
         /\ AllTags' = (AllTags \ Tags(q)) \cup Tags(s)
<1> USE DEF Queues
<1>1. \A x \in Queues : Tags(x) \in SUBSET AllTags
  BY DEF AllTags
<1>2. \A x \in Queues : x # q => Tags(x) \cap Tags(s) = {}
  BY <1>1 DEF WiresShaped
<1>3. \A x \in Queues : x # q /\ x # <<>> => x # s
  BY <1>2, EmptyTags DEF WiresShaped
<1>4. CASE q = wire
  <2>1. wire' = s /\ oldWires' = oldWires
    BY <1>4 DEF Requeue
  <2>2. \A x \in oldWires : x # q /\ x # <<>>
    BY <1>4 DEF WiresShaped
  <2>3. \A t : t \in AllTags' <=> t \in Tags(s) \/ \E x \in oldWires : t \in Tags(x)
    BY <2>1 DEF AllTags
  <2>4. \A t : t \in AllTags <=> t \in Tags(q) \/ \E x \in oldWires : t \in Tags(x)
    BY <1>4 DEF AllTags
  <2>5. AllTags' = (AllTags \ Tags(q)) \cup Tags(s)
    BY <1>4, <2>2, <2>3, <2>4 DEF WiresShaped
  <2>6. WiresShaped'
    BY <1>2, <1>3, <2>1, <2>2 DEF WiresShaped
  <2> QED
    BY <2>5, <2>6
<1>5. CASE q # wire
  <2>1. /\ q \in oldWires /\ wire' = wire
        /\ oldWires' = ((oldWires \ {q}) \cup {s}) \ {<<>>}
    BY <1>5 DEF Requeue
  <2>2. \A t : t \in AllTags' <=> t \in Tags(s) \/ \E x \in Queues \ {q} : t \in Tags(x)
    <3>1. \A t : t \in AllTags' <=> \E x \in {wire} \cup oldWires' : t \in Tags(x)
      BY <2>1 DEF AllTags
    <3> QED
      BY <1>5, <2>1, <3>1, EmptyTags
  <2>3. \A t : t \in AllTags <=> t \in Tags(q) \/ \E x \in Queues \ {q} : t \in Tags(x)
    BY DEF AllTags
  <2>4. AllTags' = (AllTags \ Tags(q)) \cup Tags(s)
    BY <2>2, <2>3 DEF WiresShaped
  <2>5. \A x \in Queues' : x = s \/ (x \in Queues /\ x # q)
    BY <1>5, <2>1
  <2>6. wire \notin oldWires'
    BY <1>2, <1>3, <1>5, <2>1 DEF WiresShaped
  <2>7. \A x \in Queues' : OneEach(x)
    BY <2>5 DEF WiresShaped
  <2>8. \A x, y \in Queues' : x # y => Tags(x) \cap Tags(y) = {}
    BY <1>2, <2>5 DEF WiresShaped
  <2>9. WiresShaped'
    BY <2>1, <2>6, <2>7, <2>8 DEF WiresShaped
  <2> QED
    BY <2>4, <2>9
<1> QED
  BY <1>4, <1>5

-----------------------------------------------------------------------------
(***************************************************************************)
(* The waiting coroutines.                                                 *)
(***************************************************************************)
OpTag(op) == <<IF op.pc = "fetching" THEN "fetch" ELSE "revert", op.id>>
OpTags(S) == {OpTag(op) : op \in {o \in S : o.pc \in {"fetching", "setting"}}}
WriteTags(S) == {<<"entity", w.id>> : w \in {x \in S : x.pc = "setting"}}
PollTags(p) == IF p.by = "nobody" THEN {}
               ELSE (IF p.edit = "none" THEN {<<"edit", p.by>>} ELSE {})
                    \cup (IF p.sys = "none" THEN {<<"sys", p.by>>} ELSE {})

\* A finite set of coroutines, each known by its name.
Named(S) == IsFiniteSet(S) /\ \A x, y \in S : x.id = y.id => x = y

\* The running refresh is not the one behind a read left running, and has
\* nothing queued at an earlier client.
RefreshApart ==
    Polling => /\ \A t \in left : t[2] # poll.by
               /\ \A q \in oldWires : \A t \in Tags(q) : t[2] # poll.by

WireInv ==
    /\ TypeOK /\ WiresShaped /\ AllTags = Waiting /\ Named(ops) /\ Named(writes)
    /\ IsFiniteSet(left) /\ RefreshApart

LEMMA WaitingParts ==
  /\ Waiting = OpTags(ops) \cup WriteTags(writes) \cup PollTags(poll) \cup left
  /\ Waiting' = OpTags(ops') \cup WriteTags(writes') \cup PollTags(poll') \cup left'
  BY DEF Waiting, OpTags, OpTag, WriteTags, PollTags, Polling, Unanswered

\* The parts of what is waited for are apart.
LEMMA TagsApart ==
  ASSUME NEW O \in SUBSET Op, NEW W \in SUBSET Write, NEW p
  PROVE  /\ OpTags(O) \in SUBSET ({"fetch", "revert"} \X OpId)
         /\ WriteTags(W) \in SUBSET ({"entity"} \X WriteId)
         /\ PollTags(p) \in SUBSET {<<"edit", p.by>>, <<"sys", p.by>>}
  BY DEF OpTags, OpTag, WriteTags, PollTags, Op, Write

\* Names of refreshes are names of nothing else.
LEMMA RefreshNames ==
  ASSUME TypeOK
  PROVE  /\ left \in SUBSET (Reads \X RefreshId)
         /\ poll.by \notin OpId \cup WriteId
         /\ Polling => poll.by \in RefreshId
         /\ ~Polling => poll.by \notin RefreshId
         /\ OpId \cap WriteId = {} /\ RefreshId \cap (OpId \cup WriteId) = {}
<1>1. poll.by \in RefreshId \cup {"nobody"}
  BY DEF TypeOK, Refresh
<1> QED
  BY <1>1, IdsAssumption DEF TypeOK, Polling

\* What a change of a local variable keeps.
LEMMA NamedKept ==
  ASSUME NEW S, NEW T, Named(S), NEW f \in [S -> T],
         \A x \in S : f[x].id = x.id /\ f[x].pc = x.pc,
         T = {f[x] : x \in S}
  PROVE  Named(T) /\ OpTags(T) = OpTags(S) /\ WriteTags(T) = WriteTags(S)
<1>1. f \in Surjection(S, T)
  BY DEF Surjection
<1>2. IsFiniteSet(T)
  BY <1>1, FS_Surjection DEF Named
<1>3. \A x, y \in T : x.id = y.id => x = y
  BY DEF Named
<1>4. OpTags(T) = OpTags(S)
  <2>1. \A x \in S : OpTag(f[x]) = OpTag(x)
    BY DEF OpTag
  <2> QED
    BY <2>1 DEF OpTags
<1>5. WriteTags(T) = WriteTags(S)
  BY DEF WriteTags
<1> QED
  BY <1>2, <1>3, <1>4, <1>5 DEF Named

\* A coroutine starts.
LEMMA NamedAdded ==
  ASSUME NEW S, Named(S), NEW x, \A y \in S : y.id # x.id
  PROVE  Named(S \cup {x})
  BY FS_AddElement DEF Named

\* A coroutine ends or goes on.
LEMMA NamedRemoved ==
  ASSUME NEW S, Named(S), NEW x \in S, NEW y, y.id = x.id
  PROVE  Named(S \ {x}) /\ Named((S \ {x}) \cup {y})
<1>1. Named(S \ {x})
  BY FS_RemoveElement DEF Named
<1> QED
  BY <1>1, NamedAdded DEF Named

\* The answer to a request reaches the one coroutine that waits for it.
LEMMA DeliverWaiting ==
  ASSUME WireInv, NEW r \in Request, Tag(r) \in Waiting,
         NEW ok, NEW answer \in Answers \ {"none"}, Deliver(r, ok, answer)
  PROVE  /\ Waiting' = Waiting \ {Tag(r)} /\ Named(ops') /\ Named(writes')
         /\ poll'.by = poll.by /\ left' \in SUBSET left
<1>0. /\ ops \in SUBSET Op /\ writes \in SUBSET Write
      /\ Named(ops) /\ Named(writes)
      /\ poll \in Refresh
  BY DEF WireInv, TypeOK
<1>1. /\ OpTags(ops) \in SUBSET ({"fetch", "revert"} \X OpId)
      /\ WriteTags(writes) \in SUBSET ({"entity"} \X WriteId)
      /\ PollTags(poll) \in SUBSET {<<"edit", poll.by>>, <<"sys", poll.by>>}
  BY <1>0, TagsApart
<1>2. /\ left \in SUBSET (Reads \X RefreshId)
      /\ poll.by \notin OpId \cup WriteId
      /\ Polling => poll.by \in RefreshId
      /\ ~Polling => poll.by \notin RefreshId
      /\ OpId \cap WriteId = {} /\ RefreshId \cap (OpId \cup WriteId) = {}
  BY RefreshNames DEF WireInv
<1>3. /\ left' = left \ {Tag(r)} /\ Tag(r)[1] = r.kind /\ Tag(r)[2] = r.by
      /\ r.by # poll.by => poll' = poll
  BY DEF Deliver, Tag
<1>4. \A t \in left : t[1] \in {"edit", "sys"} /\ t[2] \in RefreshId /\ t[2] # poll.by
  BY <1>2 DEF WireInv, RefreshApart, Reads
<1>5. r.by \notin OpId => ops' = ops
  BY <1>0 DEF Deliver, Awaits, Op
<1>6. r.by \notin WriteId => writes' = writes
  BY <1>0 DEF Deliver, Awaits, Write
<1>7. CASE Tag(r) \in OpTags(ops)
  <2>1. PICK o \in ops : Tag(r) = OpTag(o) /\ o.pc \in {"fetching", "setting"}
    BY <1>7 DEF OpTags
  <2>2. /\ r.by = o.id /\ r.kind \in {"fetch", "revert"}
        /\ o.id \in OpId
    BY <1>0, <2>1 DEF OpTag, Tag, Op
  <2>3. poll' = poll /\ writes' = writes /\ left' = left
    BY <1>2, <1>6, <1>3, <1>4, <2>2
  <2>4. /\ Resumed(o, ok).id = o.id
        /\ Resumed(o, ok).pc \in {"fetched", "set"}
    BY <1>0, <2>1 DEF Resumed, Op
  <2>5. ops' = (ops \ {o}) \cup {Resumed(o, ok)}
    <3>1. Awaits(o, r)
      BY <2>1, <2>2 DEF Awaits
    <3>2. \A x \in ops : Awaits(x, r) => x = o
      BY <1>0, <2>2 DEF Awaits, Named
    <3> QED
      BY <3>1, <3>2 DEF Deliver
  <2>6. Named(ops')
    BY <1>0, <2>4, <2>5, NamedRemoved
  <2>7. OpTags(ops') = OpTags(ops) \ {Tag(r)}
    <3>1. \A x \in ops : OpTag(x) = Tag(r) => x = o
      BY <1>0, <2>2 DEF OpTag, Tag, Named
    <3> QED
      BY <2>1, <2>4, <2>5, <3>1 DEF OpTags
  <2>8. /\ Tag(r) \notin WriteTags(writes) /\ Tag(r) \notin PollTags(poll)
        /\ Tag(r) \notin left
    BY <1>1, <1>4, <2>2 DEF Tag
  <2> QED
    BY <1>0, <2>3, <2>6, <2>7, <2>8, WaitingParts
<1>8. CASE Tag(r) \in WriteTags(writes)
  <2>1. PICK w \in writes : Tag(r) = <<"entity", w.id>> /\ w.pc = "setting"
    BY <1>8 DEF WriteTags
  <2>2. r.by = w.id /\ r.kind = "entity" /\ w.id \in WriteId
    BY <1>0, <2>1 DEF Tag, Write
  <2>3. poll' = poll /\ ops' = ops /\ left' = left
    BY <1>2, <1>5, <1>3, <1>4, <2>2
  <2> DEFINE v == [w EXCEPT !.pc = "set", !.ok = ok]
  <2>4. v.id = w.id /\ v.pc = "set"
    BY <1>0 DEF Write
  <2>5. writes' = (writes \ {w}) \cup {v}
    <3>1. Awaits(w, r)
      BY <2>1, <2>2 DEF Awaits
    <3>2. \A x \in writes : Awaits(x, r) => x = w
      BY <1>0, <2>2 DEF Awaits, Named
    <3> QED
      BY <3>1, <3>2 DEF Deliver
  <2> HIDE DEF v
  <2>6. Named(writes')
    BY <1>0, <2>4, <2>5, NamedRemoved
  <2>7. WriteTags(writes') = WriteTags(writes) \ {Tag(r)}
    <3>1. \A x \in writes : <<"entity", x.id>> = Tag(r) => x = w
      BY <1>0, <2>2 DEF Tag, Named
    <3> QED
      BY <2>1, <2>4, <2>5, <3>1 DEF WriteTags
  <2>8. /\ Tag(r) \notin OpTags(ops) /\ Tag(r) \notin PollTags(poll)
        /\ Tag(r) \notin left
    BY <1>1, <1>4, <2>2 DEF Tag
  <2> QED
    BY <1>0, <2>3, <2>6, <2>7, <2>8, WaitingParts
<1>9. CASE Tag(r) \in PollTags(poll)
  <2>1. r.by = poll.by /\ r.kind \in {"edit", "sys"} /\ Polling
    BY <1>1, <1>9 DEF Tag, PollTags, Polling
  <2>2. ops' = ops /\ writes' = writes /\ left' = left
    BY <1>2, <1>5, <1>6, <1>3, <1>4, <2>1 DEF Tag
  <2>3. PollTags(poll') = PollTags(poll) \ {Tag(r)} /\ poll'.by = poll.by
    <3>1. CASE r.kind = "edit"
      <4>1. poll' = [poll EXCEPT !.edit = answer, !.data = Reply(ok)]
        BY <2>1, <3>1 DEF Deliver
      <4>2. poll'.by = poll.by /\ poll'.edit = answer /\ poll'.sys = poll.sys
        BY <1>0, <4>1 DEF Refresh
      <4> QED
        BY <2>1, <3>1, <4>2 DEF PollTags, Tag
    <3>2. CASE r.kind = "sys"
      <4>1. poll' = [poll EXCEPT !.sys = answer]
        BY <2>1, <3>2 DEF Deliver
      <4>2. poll'.by = poll.by /\ poll'.sys = answer /\ poll'.edit = poll.edit
        BY <1>0, <4>1 DEF Refresh
      <4> QED
        BY <2>1, <3>2, <4>2 DEF PollTags, Tag
    <3> QED
      BY <2>1, <3>1, <3>2
  <2>4. /\ Tag(r) \notin OpTags(ops) /\ Tag(r) \notin WriteTags(writes)
        /\ Tag(r) \notin left
    BY <1>1, <1>4, <2>1 DEF Tag
  <2> QED
    BY <1>0, <2>2, <2>3, <2>4, WaitingParts
\* The answer that nobody uses.
<1>10. CASE Tag(r) \in left
  <2>1. r.by \in RefreshId /\ r.by # poll.by /\ r.kind \in {"edit", "sys"}
    BY <1>4, <1>10 DEF Tag
  <2>2. ops' = ops /\ writes' = writes /\ poll' = poll
    BY <1>2, <1>5, <1>6, <2>1 DEF Deliver
  <2>3. /\ Tag(r) \notin OpTags(ops) /\ Tag(r) \notin WriteTags(writes)
        /\ Tag(r) \notin PollTags(poll)
    BY <1>1, <2>1 DEF Tag
  <2> QED
    BY <1>0, <1>3, <2>2, <2>3, WaitingParts
<1> QED
  BY <1>7, <1>8, <1>9, <1>10, WaitingParts

\* A queue that only loses requests brings none of the running refresh to an
\* earlier client.
LEMMA RequeueApart ==
  ASSUME RefreshApart, NEW q \in Queues, NEW s, Requeue(q, s),
         Tags(s) \in SUBSET Tags(q), poll'.by = poll.by, left' \in SUBSET left
  PROVE  RefreshApart'
<1>1. CASE q = wire
  BY <1>1 DEF RefreshApart, Polling, Requeue, Tags, Tag
<1>2. CASE q # wire
  <2>1. q \in oldWires /\ \A x \in oldWires' : x = s \/ x \in oldWires
    BY <1>2 DEF Requeue, Queues
  <2> QED
    BY <2>1 DEF RefreshApart, Polling
<1> QED
  BY <1>1, <1>2

\* Serving the head of a queue answers or repeats one request, and touches no
\* other.
LEMMA ServeWires ==
  ASSUME WireInv, TypeOK', NEW q \in Queues, Answer(q) \/ TimedOut(q)
  PROVE  WireInv'
<1>0. /\ WiresShaped /\ AllTags = Waiting /\ Named(ops) /\ Named(writes)
      /\ q \in Seq(Request) /\ OneEach(q) /\ q # <<>>
  BY DEF WireInv, WiresShaped, Queues, Answer, TimedOut
<1>1. /\ Head(q) \in Request
      /\ Tag(Head(q)) \in Tags(q)
      /\ Tail(q) \in Seq(Request)
      /\ OneEach(Tail(q))
      /\ Tags(Tail(q)) = Tags(q) \ {Tag(Head(q))}
  BY <1>0, TailTags
<1>2. Tags(q) \in SUBSET AllTags
  BY DEF AllTags
<1>3. ASSUME NEW ok, NEW answer \in Answers \ {"none"}, Requeue(q, Tail(q)),
             Deliver(Head(q), ok, answer)
      PROVE  WireInv'
  <2>1. WiresShaped' /\ AllTags' = (AllTags \ Tags(q)) \cup Tags(Tail(q))
    BY <1>0, <1>1, <1>3, RequeueShaped
  <2>2. /\ Waiting' = Waiting \ {Tag(Head(q))} /\ Named(ops') /\ Named(writes')
        /\ poll'.by = poll.by /\ left' \in SUBSET left
    BY <1>0, <1>1, <1>2, <1>3, DeliverWaiting
  <2>3. AllTags' = Waiting'
    BY <1>0, <1>1, <1>2, <2>1, <2>2
  <2>4. RefreshApart'
    BY <1>0, <1>1, <1>3, <2>2, RequeueApart DEF WireInv
  <2>5. IsFiniteSet(left')
    BY <2>2, FS_Subset DEF WireInv
  <2> QED
    BY <2>1, <2>2, <2>3, <2>4, <2>5 DEF WireInv, Named
<1>4. CASE Answer(q)
  <2>1. "ok" \in Answers \ {"none"} /\ {"failed", "raised"} \in SUBSET (Answers \ {"none"})
    BY DEF Answers
  <2> QED
    BY <1>3, <1>4, <2>1 DEF Answer
<1>5. CASE TimedOut(q) /\ ~(Head(q).tries > 1)
  <2>1. "failed" \in Answers \ {"none"}
    BY DEF Answers
  <2> QED
    BY <1>3, <1>5, <2>1 DEF TimedOut
<1>6. CASE TimedOut(q) /\ Head(q).tries > 1
  <2> DEFINE s == Append(Tail(q), Retry(Head(q)))
  <2>1. s \in Seq(Request) /\ OneEach(s) /\ Tags(s) = Tags(q)
    BY <1>0, <1>6, RetryTags
  <2>2. Requeue(q, s) /\ UNCHANGED <<poll, left, ops, writes>>
    BY <1>6 DEF TimedOut
  <2> HIDE DEF s
  <2>3. WiresShaped' /\ AllTags' = (AllTags \ Tags(q)) \cup Tags(s)
    BY <1>0, <2>1, <2>2, RequeueShaped
  <2>4. Waiting' = Waiting
    BY <2>2, WaitingParts
  <2>5. RefreshApart'
    BY <1>0, <2>1, <2>2, RequeueApart DEF WireInv
  <2> QED
    BY <1>0, <1>2, <2>1, <2>2, <2>3, <2>4, <2>5 DEF WireInv, Named
<1> QED
  BY <1>4, <1>5, <1>6

\* The local variables of a tap change except where it waits: the queues still
\* serve whoever waits.
LEMMA WaitingKept ==
  ASSUME WireInv, TypeOK', UNCHANGED wires,
         Named(ops'), OpTags(ops') = OpTags(ops),
         Named(writes'), WriteTags(writes') = WriteTags(writes),
         PollTags(poll') = PollTags(poll), poll'.by \in {poll.by, "nobody"}
  PROVE  WireInv'
<1>1. WiresShaped' /\ AllTags' = AllTags
  BY DEF WireInv, WiresShaped, AllTags, Queues, wires
<1>2. Waiting' = Waiting
  BY WaitingParts DEF wires
<1>3. RefreshApart'
  BY DEF WireInv, RefreshApart, Polling, wires, Tags, Tag
<1> QED
  BY <1>1, <1>2, <1>3 DEF WireInv, Named, wires

\* Every poll supersedes the taps, wherever they wait.
LEMMA SupersededKept ==
  ASSUME WireInv, ops' = Superseded
  PROVE  Named(ops') /\ OpTags(ops') = OpTags(ops)
<1> DEFINE f == [op \in ops |-> [op EXCEPT !.superseded = TRUE]]
<1>1. ops' = {f[op] : op \in ops} /\ f \in [ops -> ops']
  BY DEF Superseded
<1>2. \A op \in ops : f[op].id = op.id /\ f[op].pc = op.pc
  BY DEF WireInv, TypeOK, Op
<1> QED
  BY <1>1, <1>2, NamedKept DEF WireInv

\* A coroutine queues one request and waits for it.
LEMMA AppendWires ==
  ASSUME WireInv, NEW r \in Request, Tag(r) \notin Waiting,
         wire' = Append(wire, r), UNCHANGED <<oldWires, left, poll>>
  PROVE  WiresShaped' /\ AllTags' = Waiting \cup {Tag(r)} /\ RefreshApart'
<1>0. /\ WiresShaped /\ AllTags = Waiting /\ wire \in Queues
      /\ wire \in Seq(Request) /\ OneEach(wire)
  BY DEF WireInv, WiresShaped, Queues
<1>1. Tags(wire) \in SUBSET AllTags
  BY <1>0 DEF AllTags
<1> DEFINE s == Append(wire, r)
<1>2. s \in Seq(Request) /\ OneEach(s) /\ Tags(s) = Tags(wire) \cup {Tag(r)}
  BY <1>0, <1>1, AppendTags
<1>3. Requeue(wire, s)
  BY DEF Requeue
<1> HIDE DEF s
<1>4. WiresShaped' /\ AllTags' = (AllTags \ Tags(wire)) \cup Tags(s)
  BY <1>0, <1>2, <1>3, RequeueShaped
<1>5. RefreshApart'
  BY DEF WireInv, RefreshApart, Polling, Tags, Tag
<1> QED
  BY <1>0, <1>1, <1>2, <1>4, <1>5

\* What a coroutine is about to ask for nobody is waiting for yet.
LEMMA NewTags ==
  ASSUME WireInv
  PROVE  /\ \A id \in OpId : (\A o \in ops : o.id # id) => <<"fetch", id>> \notin Waiting
         /\ \A op \in ops : op.pc = "fetched" => <<"revert", op.id>> \notin Waiting
         /\ \A id \in WriteId : (\A w \in writes : w.id # id) => <<"entity", id>> \notin Waiting
         /\ \A id \in RefreshId : ~Polling /\ (\A t \in left : t[2] # id) =>
               <<"edit", id>> \notin Waiting /\ <<"sys", id>> \notin Waiting
<1>0. ops \in SUBSET Op /\ writes \in SUBSET Write /\ Named(ops)
  BY DEF WireInv, TypeOK
<1>1. \A id \in OpId : (\A o \in ops : o.id # id) => <<"fetch", id>> \notin OpTags(ops)
  BY DEF OpTags, OpTag
<1>2. \A op \in ops : op.pc = "fetched" => <<"revert", op.id>> \notin OpTags(ops)
  BY <1>0 DEF OpTags, OpTag, Named
<1>3. \A id \in WriteId : (\A w \in writes : w.id # id)
                            => <<"entity", id>> \notin WriteTags(writes)
  BY DEF WriteTags
<1>4. ~Polling => PollTags(poll) = {}
  BY DEF PollTags, Polling
<1>5. /\ left \in SUBSET (Reads \X RefreshId) /\ \A t \in left : t[1] \in {"edit", "sys"}
      /\ OpId \cap WriteId = {} /\ RefreshId \cap (OpId \cup WriteId) = {}
  BY RefreshNames DEF WireInv, Reads
<1>6. /\ OpTags(ops) \in SUBSET ({"fetch", "revert"} \X OpId)
      /\ WriteTags(writes) \in SUBSET ({"entity"} \X WriteId)
      /\ PollTags(poll) \in SUBSET {<<"edit", poll.by>>, <<"sys", poll.by>>}
  BY <1>0, TagsApart
<1>7. \A id : /\ <<"fetch", id>> \notin left /\ <<"revert", id>> \notin left
              /\ <<"entity", id>> \notin left
  BY <1>5
<1> QED
  BY <1>1, <1>2, <1>3, <1>4, <1>6, <1>7, WaitingParts

\* A refresh queues its two requests behind the others.
LEMMA PollStartQueue ==
  ASSUME WireInv, NEW id \in RefreshId, PollStart(id)
  PROVE  /\ wire' \in Seq(Request) /\ OneEach(wire')
         /\ Tags(wire') = Tags(wire) \cup {<<"edit", id>>, <<"sys", id>>}
         /\ \A i \in DOMAIN wire : i \in DOMAIN wire' /\ wire'[i] = wire[i]
<1>0. /\ AllTags = Waiting /\ wire \in Queues
      /\ wire \in Seq(Request) /\ OneEach(wire)
  BY DEF WireInv, WiresShaped, Queues
<1> DEFINE a == Ask("edit", id)
           b == Ask("sys", id)
           s == Append(Append(wire, a), b)
<1>1. /\ a \in Request /\ Tag(a) = <<"edit", id>>
      /\ b \in Request /\ Tag(b) = <<"sys", id>>
  BY BoundsAssumption DEF Ask, Request, Tag
<1>2. wire' = s
  <2>1. wire' = wire \o <<a, b>>
    BY DEF PollStart
  <2>2. wire \o <<a, b>> = (wire \o <<a>>) \o <<b>>
    <3>1. <<a, b>> = <<a>> \o <<b>>
      BY <1>1
    <3>2. <<a>> \in Seq(Request) /\ <<b>> \in Seq(Request)
      BY <1>1
    <3> HIDE DEF a, b
    <3> QED
      BY <1>0, <3>1, <3>2, ConcatAssociative
  <2>3. /\ Append(wire, a) = wire \o <<a>> /\ Append(wire, a) \in Seq(Request)
    BY <1>0, <1>1, AppendIsConcat
  <2>4. s = Append(wire, a) \o <<b>>
    BY <1>1, <2>3, AppendIsConcat
  <2> QED
    BY <2>1, <2>2, <2>3, <2>4
<1>3. Tag(a) \notin AllTags /\ Tag(b) \notin AllTags /\ Tags(wire) \in SUBSET AllTags
  BY <1>0, <1>1, NewTags DEF PollStart, AllTags
<1> HIDE DEF a, b
<1>4. /\ Append(wire, a) \in Seq(Request) /\ OneEach(Append(wire, a))
      /\ Tags(Append(wire, a)) = Tags(wire) \cup {Tag(a)}
  BY <1>0, <1>1, <1>3, AppendTags
<1>5. Tag(b) \notin Tags(Append(wire, a))
  BY <1>1, <1>3, <1>4
<1>6. /\ s \in Seq(Request) /\ OneEach(s)
      /\ Tags(s) = Tags(Append(wire, a)) \cup {Tag(b)}
  BY <1>1, <1>4, <1>5, AppendTags
<1>7. \A i \in DOMAIN wire : i \in DOMAIN s /\ s[i] = wire[i]
  BY <1>0, <1>1
<1> QED
  BY <1>1, <1>2, <1>4, <1>6, <1>7

LEMMA PollStartWires ==
  ASSUME WireInv, TypeOK', NEW id \in RefreshId, PollStart(id)
  PROVE  WireInv'
<1> DEFINE polls == {<<"edit", id>>, <<"sys", id>>}
<1>0. /\ WiresShaped /\ AllTags = Waiting /\ wire \in Queues
      /\ Tags(wire) \in SUBSET AllTags
      /\ poll' = [IdlePoll EXCEPT !.by = id] /\ UNCHANGED <<oldWires, left, ops, writes>>
  BY DEF WireInv, Queues, AllTags, PollStart
<1>1. /\ wire' \in Seq(Request) /\ OneEach(wire')
      /\ Tags(wire') = Tags(wire) \cup polls
  BY PollStartQueue
<1>2. polls \cap Waiting = {} /\ \A t \in left : t[2] # id
  BY NewTags DEF PollStart
<1>3. Requeue(wire, wire')
  BY <1>0 DEF Requeue
<1>4. WiresShaped' /\ AllTags' = (AllTags \ Tags(wire)) \cup Tags(wire')
  BY <1>0, <1>1, <1>2, <1>3, RequeueShaped
<1>5. poll'.by = id /\ poll'.edit = "none" /\ poll'.sys = "none" /\ id # "nobody"
  BY <1>0, IdsAssumption DEF IdlePoll
<1>6. PollTags(poll) = {} /\ PollTags(poll') = polls
  BY <1>5 DEF PollStart, Polling, PollTags
<1>7. Waiting' = Waiting \cup polls
  BY <1>0, <1>6, WaitingParts
<1>8. RefreshApart'
  <2>1. \A q \in oldWires : \A t \in Tags(q) : t \in OpTags(ops) \cup WriteTags(writes) \cup left
    BY <1>0, <1>6, WaitingParts DEF AllTags, Queues
  <2>2. \A t \in OpTags(ops) \cup WriteTags(writes) : t[2] # id
    <3>1. /\ OpTags(ops) \in SUBSET ({"fetch", "revert"} \X OpId)
          /\ WriteTags(writes) \in SUBSET ({"entity"} \X WriteId)
      BY TagsApart DEF WireInv, TypeOK
    <3> QED
      BY <3>1, IdsAssumption
  <2> QED
    BY <1>0, <1>2, <1>5, <2>1, <2>2 DEF RefreshApart
<1> QED
  BY <1>0, <1>1, <1>4, <1>7, <1>8 DEF WireInv, Named

\* A refresh waits for at most two reads.
LEMMA UnansweredFinite == IsFiniteSet(Unanswered)
<1>1. /\ IsFiniteSet({<<"edit", poll.by>>}) /\ IsFiniteSet({<<"sys", poll.by>>})
      /\ IsFiniteSet({})
  BY FS_Singleton, FS_EmptySet
<1> QED
  BY <1>1, FS_Union DEF Unanswered

\* What the running refresh waits for leaves with it, and nothing else does.
LEMMA PollLeaves ==
  ASSUME WireInv, Polling
  PROVE  OpTags(ops) \cup WriteTags(writes) \cup left
            = Waiting \ {<<"edit", poll.by>>, <<"sys", poll.by>>}
<1>1. /\ OpTags(ops) \in SUBSET ({"fetch", "revert"} \X OpId)
      /\ WriteTags(writes) \in SUBSET ({"entity"} \X WriteId)
      /\ PollTags(poll) \in SUBSET {<<"edit", poll.by>>, <<"sys", poll.by>>}
  BY TagsApart DEF WireInv, TypeOK
<1>2. \A t \in left : t[2] # poll.by
  BY DEF WireInv, RefreshApart
<1> QED
  BY <1>1, <1>2, WaitingParts

\* A refresh that fails.
LEMMA FailWaiting ==
  ASSUME WireInv, Fail
  PROVE  /\ Named(ops') /\ OpTags(ops') = OpTags(ops) /\ writes' = writes
         /\ PollTags(poll') = {} /\ RefreshApart'
<1>1. writes' = writes /\ poll' = IdlePoll
  BY DEF Fail
<1>2. ops' = Superseded \/ ops' = ops
  BY DEF Fail, HandlePoll, Observe
<1>3. PollTags(poll') = {} /\ RefreshApart'
  BY <1>1 DEF IdlePoll, PollTags, RefreshApart, Polling
<1> QED
  BY <1>1, <1>2, <1>3, SupersededKept DEF WireInv

\* A new client begins with an empty queue; s is what the old one goes on with.
LEMMA NewClientWires ==
  ASSUME WiresShaped, NEW s \in Seq(Request), OneEach(s), Tags(s) \in SUBSET Tags(wire),
         NewClient(s)
  PROVE  WiresShaped' /\ AllTags' = (AllTags \ Tags(wire)) \cup Tags(s)
<1>0. /\ wire' = <<>> /\ oldWires' = (oldWires \cup {s}) \ {<<>>}
      /\ wire \in Seq(Request) /\ wire \in Queues
  BY DEF NewClient, WiresShaped, Queues
<1>1. \A x \in oldWires : Tags(x) \cap Tags(wire) = {}
  BY DEF Queues, WiresShaped
<1>2. \A t : t \in AllTags' <=> t \in Tags(s) \/ \E x \in oldWires : t \in Tags(x)
  <2>1. \A t : t \in AllTags' <=> \E x \in {<<>>} \cup oldWires' : t \in Tags(x)
    BY <1>0 DEF AllTags, Queues
  <2> QED
    BY <1>0, <2>1, EmptyTags
<1>3. AllTags' = (AllTags \ Tags(wire)) \cup Tags(s)
  <2>1. \A t : t \in AllTags <=> t \in Tags(wire) \/ \E x \in oldWires : t \in Tags(x)
    BY DEF AllTags, Queues
  <2> QED
    BY <1>1, <1>2, <2>1
<1>4. WiresShaped'
  <2>1. \A x \in Queues' : x = <<>> \/ x = s \/ x \in oldWires
    BY <1>0 DEF Queues
  <2>2. \A x \in Queues' : OneEach(x)
    BY <2>1, EmptyTags DEF WiresShaped, Queues
  <2>3. \A x, y \in Queues' : x # y => Tags(x) \cap Tags(y) = {}
    BY <1>1, <2>1, EmptyTags DEF WiresShaped, Queues
  <2> QED
    BY <1>0, <2>2, <2>3, EmptyTags DEF WiresShaped
<1> QED
  BY <1>3, <1>4

\* A refresh that its timeout cancels takes back what it has queued.
LEMMA PollTimeoutWires ==
  ASSUME WireInv, TypeOK', PollTimeout
  PROVE  WireInv'
<1>0. /\ WiresShaped /\ AllTags = Waiting /\ wire \in Queues
      /\ wire \in Seq(Request) /\ OneEach(wire)
      /\ ops \in SUBSET Op /\ writes \in SUBSET Write
      /\ Named(ops) /\ Named(writes) /\ Polling
      /\ UNCHANGED <<oldWires, left>>
  BY DEF WireInv, WiresShaped, Queues, TypeOK, PollTimeout
<1> DEFINE polls == {<<"edit", poll.by>>, <<"sys", poll.by>>}
           s == WithoutPoll(wire)
<1>1. s \in Seq(Request) /\ OneEach(s) /\ Tags(s) = Tags(wire) \ polls
  BY <1>0, WithoutPollTags
<1>2. Requeue(wire, s)
  BY DEF PollTimeout, Requeue
<1> HIDE DEF s
<1>3. WiresShaped' /\ AllTags' = (AllTags \ Tags(wire)) \cup Tags(s)
  BY <1>0, <1>1, <1>2, RequeueShaped
<1>4. \A t \in polls : t \in AllTags => t \in Tags(wire)
  BY <1>0 DEF AllTags, Queues, WireInv, RefreshApart
<1>5. AllTags' = AllTags \ polls
  <2>1. Tags(wire) \in SUBSET AllTags
    BY <1>0 DEF AllTags
  <2> QED
    BY <1>1, <1>3, <1>4, <2>1
<1>6. /\ Named(ops') /\ OpTags(ops') = OpTags(ops) /\ writes' = writes
      /\ PollTags(poll') = {} /\ RefreshApart'
  BY <1>0, FailWaiting DEF PollTimeout
<1>7. Waiting' = Waiting \ polls
  BY <1>0, <1>6, WaitingParts, PollLeaves
<1> QED
  BY <1>0, <1>3, <1>5, <1>6, <1>7 DEF WireInv, Named

\* A refresh that fails goes on waiting for what it has asked, or takes it back.
LEMMA PollFailedWires ==
  ASSUME WireInv, TypeOK', PollFailed
  PROVE  WireInv'
<1>0. /\ WiresShaped /\ AllTags = Waiting /\ wire \in Queues
      /\ wire \in Seq(Request) /\ OneEach(wire)
      /\ Named(ops) /\ Named(writes) /\ Polling
      /\ left' = left \cup Unanswered
  BY DEF WireInv, WiresShaped, Queues, PollFailed, Answered
<1>1. /\ Named(ops') /\ OpTags(ops') = OpTags(ops) /\ writes' = writes
      /\ PollTags(poll') = {} /\ RefreshApart'
  BY FailWaiting DEF PollFailed
<1>2. PollTags(poll) = Unanswered
  BY <1>0 DEF PollTags, Polling, Unanswered
<1>3. Waiting' = Waiting
  BY <1>0, <1>1, <1>2, WaitingParts
<1>4. WiresShaped' /\ AllTags' = AllTags
  <2>1. CASE NewClient(wire)
    <3>1. WiresShaped' /\ AllTags' = (AllTags \ Tags(wire)) \cup Tags(wire)
      BY <1>0, <2>1, NewClientWires
    <3>2. Tags(wire) \in SUBSET AllTags
      BY <1>0 DEF AllTags
    <3> QED
      BY <3>1, <3>2
  <2>2. CASE UNCHANGED <<wire, oldWires>>
    BY <1>0, <2>2 DEF WiresShaped, AllTags, Queues
  <2> QED
    BY <2>1, <2>2 DEF PollFailed
<1>5. IsFiniteSet(left')
  BY <1>0, UnansweredFinite, FS_Union DEF WireInv
<1> QED
  BY <1>0, <1>1, <1>3, <1>4, <1>5 DEF WireInv, Named

\* A reload leaves the requests of the old client's coroutines to that client.
LEMMA CloseWires ==
  ASSUME WireInv, TypeOK', Close
  PROVE  WireInv'
<1>0. /\ WiresShaped /\ AllTags = Waiting /\ wire \in Queues
      /\ wire \in Seq(Request) /\ OneEach(wire)
      /\ ops \in SUBSET Op /\ writes \in SUBSET Write
      /\ Named(ops) /\ Named(writes) /\ Tags(wire) \in SUBSET AllTags
  BY DEF WireInv, WiresShaped, Queues, TypeOK, AllTags
<1>1. Named(ops') /\ OpTags(ops') = OpTags(ops)
  <2> DEFINE f == [op \in ops |-> [op EXCEPT !.live = FALSE]]
  <2>1. ops' = {f[op] : op \in ops} /\ f \in [ops -> ops']
    BY DEF Close
  <2>2. \A op \in ops : f[op].id = op.id /\ f[op].pc = op.pc
    BY <1>0 DEF Op
  <2> HIDE DEF f
  <2> QED
    BY <1>0, <2>1, <2>2, NamedKept
<1>2. Named(writes') /\ WriteTags(writes') = WriteTags(writes)
  <2> DEFINE f == [w \in writes |-> [w EXCEPT !.live = FALSE]]
  <2>1. writes' = {f[w] : w \in writes} /\ f \in [writes -> writes']
    BY DEF Close
  <2>2. \A w \in writes : f[w].id = w.id /\ f[w].pc = w.pc
    BY <1>0 DEF Write
  <2> HIDE DEF f
  <2> QED
    BY <1>0, <2>1, <2>2, NamedKept
<1>3. poll' = IdlePoll /\ PollTags(poll') = {} /\ RefreshApart'
  BY DEF Close, IdlePoll, PollTags, RefreshApart, Polling
<1>4. CASE NewClient(WithoutPoll(wire)) /\ UNCHANGED left
  <2> DEFINE polls == {<<"edit", poll.by>>, <<"sys", poll.by>>}
             s == WithoutPoll(wire)
  <2>1. s \in Seq(Request) /\ OneEach(s) /\ Tags(s) = Tags(wire) \ polls
    BY <1>0, WithoutPollTags
  <2> HIDE DEF s
  <2>2. WiresShaped' /\ AllTags' = (AllTags \ Tags(wire)) \cup Tags(s)
    BY <1>0, <1>4, <2>1, NewClientWires DEF s
  <2>3. CASE Polling
    <3>1. \A t \in polls : t \in AllTags => t \in Tags(wire)
      BY <1>0, <2>3 DEF AllTags, Queues, WireInv, RefreshApart
    <3>2. AllTags' = AllTags \ polls
      BY <1>0, <2>1, <2>2, <3>1
    <3>3. Waiting' = Waiting \ polls
      BY <1>1, <1>2, <1>3, <1>4, <2>3, WaitingParts, PollLeaves
    <3> QED
      BY <1>0, <1>1, <1>2, <1>3, <1>4, <2>2, <3>2, <3>3 DEF WireInv
  <2>4. CASE ~Polling
    <3>1. PollTags(poll) = {}
      BY <2>4 DEF PollTags, Polling
    <3>2. Waiting' = Waiting
      BY <1>1, <1>2, <1>3, <1>4, <3>1, WaitingParts
    <3>3. polls \cap Waiting = {}
      <4>1. poll.by \notin OpId \cup WriteId \cup RefreshId
        BY <2>4, RefreshNames DEF WireInv
      <4>2. \A t \in Waiting : t[2] \in OpId \cup WriteId \cup RefreshId
        BY <1>0, <3>1, TagsApart, WaitingParts, RefreshNames DEF WireInv
      <4> QED
        BY <4>1, <4>2
    <3>4. AllTags' = AllTags
      BY <1>0, <2>1, <2>2, <3>3
    <3> QED
      BY <1>0, <1>1, <1>2, <1>3, <1>4, <2>2, <3>2, <3>4 DEF WireInv
  <2> QED
    BY <2>3, <2>4
<1>5. CASE Polling /\ NewClient(wire) /\ left' = left \cup Unanswered
  <2>1. WiresShaped' /\ AllTags' = (AllTags \ Tags(wire)) \cup Tags(wire)
    BY <1>0, <1>5, NewClientWires
  <2>2. PollTags(poll) = Unanswered
    BY <1>5 DEF PollTags, Polling, Unanswered
  <2>3. Waiting' = Waiting /\ AllTags' = AllTags
    BY <1>0, <1>1, <1>2, <1>3, <1>5, <2>1, <2>2, WaitingParts
  <2>4. IsFiniteSet(left')
    BY <1>5, UnansweredFinite, FS_Union DEF WireInv
  <2> QED
    BY <1>0, <1>1, <1>2, <1>3, <2>1, <2>3, <2>4 DEF WireInv
<1> QED
  BY <1>4, <1>5 DEF Close

LEMMA WireStep == WireInv /\ [Next]_vars => WireInv'
<1> SUFFICES ASSUME WireInv, [Next]_vars
             PROVE  WireInv'
  OBVIOUS
<1>0. TypeOK' /\ Named(ops) /\ Named(writes)
      /\ ops \in SUBSET Op /\ writes \in SUBSET Write
  BY TypeStep DEF WireInv, TypeOK
<1>1. CASE UNCHANGED <<wires, ops, writes, poll>>
  BY <1>0, <1>1, WaitingKept DEF wires
<1>2. CASE GuestChange \/ Tick \/ ChangeOptions \/ Start
  BY <1>1, <1>2 DEF GuestChange, Tick, ChangeOptions, Start, pollVars, wires
<1>3. ASSUME NEW id \in RefreshId, PollStart(id)
      PROVE  WireInv'
  BY <1>0, <1>3, PollStartWires
<1>4. CASE PollReturn
  <2>1. ops' = Superseded /\ UNCHANGED <<wires, writes>>
    BY <1>4 DEF PollReturn, HandlePoll, Observe
  <2>2. PollTags(poll) = {} /\ PollTags(poll') = {} /\ poll'.by = "nobody"
    BY <1>4 DEF PollReturn, IdlePoll, PollTags
  <2> QED
    BY <1>0, <2>1, <2>2, SupersededKept, WaitingKept
<1>5. CASE PollFailed
  BY <1>0, <1>5, PollFailedWires
<1>6. CASE PollTimeout
  BY <1>0, <1>6, PollTimeoutWires
<1>7. CASE Close
  BY <1>0, <1>7, CloseWires
<1>8. ASSUME NEW t \in sends, Send(t)
      PROVE  WireInv'
  BY <1>1, <1>8 DEF Send, pollVars
<1>9. ASSUME NEW id \in OpId, NEW p \in pending, Tap(id, p)
      PROVE  WireInv'
  <2>1. CASE UNCHANGED <<ops, wires>>
    BY <1>1, <1>9, <2>1 DEF Tap, pollVars
  <2> DEFINE op == [id |-> id, pc |-> "fetching", act |-> p, superseded |-> FALSE,
                    live |-> TRUE, ok |-> FALSE, fresh |-> Nothing]
             r == Ask("fetch", id)
  <2>2. CASE ops' = ops \cup {op} /\ wire' = Append(wire, r)
    <3>1. r \in Request /\ Tag(r) = <<"fetch", id>>
      BY BoundsAssumption DEF Ask, Request, Tag
    <3>2. op.id = id /\ op.pc = "fetching" /\ \A o \in ops : o.id # op.id
      BY <1>9 DEF Tap
    <3>3. UNCHANGED <<oldWires, left, writes, poll>>
      BY <1>9, <2>2 DEF Tap, pollVars, wires
    <3> HIDE DEF op, r
    <3>4. Named(ops')
      BY <1>0, <2>2, <3>2, NamedAdded
    <3>5. OpTags(ops') = OpTags(ops) \cup {Tag(r)}
      BY <2>2, <3>1, <3>2 DEF OpTags, OpTag
    <3>6. Tag(r) \notin Waiting
      BY <3>1, <3>2, NewTags
    <3>7. WiresShaped' /\ AllTags' = Waiting \cup {Tag(r)} /\ RefreshApart'
      BY <2>2, <3>1, <3>3, <3>6, AppendWires
    <3>8. Waiting' = Waiting \cup {Tag(r)}
      BY <3>3, <3>5, WaitingParts
    <3> QED
      BY <1>0, <3>3, <3>4, <3>7, <3>8 DEF WireInv, Named
  <2> QED
    BY <1>9, <2>1, <2>2 DEF Tap
<1>10. ASSUME NEW op \in ops, FetchReturn(op)
       PROVE  WireInv'
  <2>0. op.pc = "fetched" /\ op \in Op
    BY <1>0, <1>10 DEF FetchReturn
  <2>1. CASE ops' = ops \ {op} /\ UNCHANGED wires
    <3>1. Named(ops') /\ OpTags(ops') = OpTags(ops)
      BY <1>0, <2>0, <2>1, NamedRemoved DEF OpTags
    <3> QED
      BY <1>0, <1>10, <2>1, <3>1, WaitingKept DEF FetchReturn, pollVars
  <2> DEFINE op2 == [op EXCEPT !.pc = "setting", !.fresh = Nothing]
             r == Ask("revert", op.id)
  <2>2. CASE ops' = (ops \ {op}) \cup {op2} /\ wire' = Append(wire, r)
    <3>1. r \in Request /\ Tag(r) = <<"revert", op.id>>
      BY <2>0, BoundsAssumption DEF Ask, Request, Tag, Op
    <3>2. op2.id = op.id /\ op2.pc = "setting"
      BY <2>0 DEF Op
    <3>3. UNCHANGED <<oldWires, left, writes, poll>>
      BY <1>10, <2>2 DEF FetchReturn, pollVars, wires
    <3> HIDE DEF op2, r
    <3>4. Named(ops')
      BY <1>0, <2>2, <3>2, NamedRemoved
    <3>5. OpTags(ops') = OpTags(ops) \cup {Tag(r)}
      BY <2>0, <2>2, <3>1, <3>2 DEF OpTags, OpTag
    <3>6. Tag(r) \notin Waiting
      BY <2>0, <3>1, NewTags
    <3>7. WiresShaped' /\ AllTags' = Waiting \cup {Tag(r)} /\ RefreshApart'
      BY <2>2, <3>1, <3>3, <3>6, AppendWires
    <3>8. Waiting' = Waiting \cup {Tag(r)}
      BY <3>3, <3>5, WaitingParts
    <3> QED
      BY <1>0, <3>3, <3>4, <3>7, <3>8 DEF WireInv, Named
  <2> QED
    BY <1>10, <2>1, <2>2 DEF FetchReturn
<1>11. ASSUME NEW op \in ops, SetReturn(op)
       PROVE  WireInv'
  <2>1. Named(ops') /\ OpTags(ops') = OpTags(ops)
    BY <1>0, <1>11, NamedRemoved DEF SetReturn, OpTags
  <2> QED
    BY <1>0, <1>11, <2>1, WaitingKept DEF SetReturn, pollVars
<1>12. ASSUME NEW id \in WriteId, NEW n \in Name, NEW v \in Value, EntityWrite(id, n, v)
       PROVE  WireInv'
  <2> DEFINE w == [id |-> id, pc |-> "setting", name |-> n, value |-> v,
                   live |-> TRUE, ok |-> FALSE]
             r == Ask("entity", id)
  <2>1. /\ writes' = writes \cup {w} /\ wire' = Append(wire, r)
        /\ UNCHANGED <<oldWires, left, ops, poll>>
    BY <1>12 DEF EntityWrite, pollVars
  <2>2. r \in Request /\ Tag(r) = <<"entity", id>>
    BY BoundsAssumption DEF Ask, Request, Tag
  <2>3. w.id = id /\ w.pc = "setting" /\ \A x \in writes : x.id # w.id
    BY <1>12 DEF EntityWrite
  <2> HIDE DEF w, r
  <2>4. Named(writes')
    BY <1>0, <2>1, <2>3, NamedAdded
  <2>5. WriteTags(writes') = WriteTags(writes) \cup {Tag(r)}
    BY <2>1, <2>2, <2>3 DEF WriteTags
  <2>6. Tag(r) \notin Waiting
    BY <2>2, <2>3, NewTags
  <2>7. WiresShaped' /\ AllTags' = Waiting \cup {Tag(r)} /\ RefreshApart'
    BY <2>1, <2>2, <2>6, AppendWires
  <2>8. Waiting' = Waiting \cup {Tag(r)}
    BY <2>1, <2>5, WaitingParts
  <2> QED
    BY <1>0, <2>1, <2>4, <2>7, <2>8 DEF WireInv, Named
<1>13. ASSUME NEW w \in writes, EntityReturn(w)
       PROVE  WireInv'
  <2>1. Named(writes') /\ WriteTags(writes') = WriteTags(writes)
    BY <1>0, <1>13, NamedRemoved DEF EntityReturn, WriteTags
  <2> QED
    BY <1>0, <1>13, <2>1, WaitingKept DEF EntityReturn, pollVars
<1>14. ASSUME NEW q \in {wire} \cup oldWires, Answer(q) \/ TimedOut(q)
       PROVE  WireInv'
  BY <1>0, <1>14, ServeWires DEF Queues
<1>15. CASE UNCHANGED vars
  BY <1>1, <1>15 DEF vars, wires, pollVars
<1> QED
  BY <1>2, <1>3, <1>4, <1>5, <1>6, <1>7, <1>8, <1>9, <1>10, <1>11, <1>12, <1>13, <1>14,
     <1>15 DEF Next

\* A finite number of coroutines waits for a finite number of answers.
LEMMA WaitingFinite ==
  ASSUME WireInv
  PROVE  IsFiniteSet(Waiting)
<1>1. IsFiniteSet(OpTags(ops))
  <2> DEFINE S == {o \in ops : o.pc \in {"fetching", "setting"}}
             f == [o \in S |-> OpTag(o)]
  <2>1. IsFiniteSet(S)
    BY FS_Subset DEF WireInv, Named
  <2>2. f \in Surjection(S, OpTags(ops))
    BY DEF Surjection, OpTags
  <2> QED
    BY <2>1, <2>2, FS_Surjection
<1>2. IsFiniteSet(WriteTags(writes))
  <2> DEFINE S == {w \in writes : w.pc = "setting"}
             f == [w \in S |-> <<"entity", w.id>>]
  <2>1. IsFiniteSet(S)
    BY FS_Subset DEF WireInv, Named
  <2>2. f \in Surjection(S, WriteTags(writes))
    BY DEF Surjection, WriteTags
  <2> QED
    BY <2>1, <2>2, FS_Surjection
<1>3. IsFiniteSet(PollTags(poll))
  <2> DEFINE polls == {<<"edit", poll.by>>, <<"sys", poll.by>>}
  <2>1. IsFiniteSet(polls)
    <3>1. IsFiniteSet({<<"edit", poll.by>>}) /\ IsFiniteSet({<<"sys", poll.by>>})
      BY FS_Singleton
    <3>2. polls = {<<"edit", poll.by>>} \cup {<<"sys", poll.by>>}
      OBVIOUS
    <3> HIDE DEF polls
    <3> QED
      BY <3>1, <3>2, FS_Union
  <2>2. PollTags(poll) \in SUBSET polls
    BY DEF PollTags
  <2> QED
    BY <2>1, <2>2, FS_Subset
<1>4. IsFiniteSet(left)
  BY DEF WireInv
<1> QED
  BY <1>1, <1>2, <1>3, <1>4, WaitingParts, FS_Union

\* The places of the queues and the waiting coroutines correspond one to one.
LEMMA WireServes == WireInv => WireServesEveryWaiter
<1> SUFFICES ASSUME WireInv
             PROVE  WireServesEveryWaiter
  OBVIOUS
<1> DEFINE At(p) == <<p[1][p[2]].kind, p[1][p[2]].by>>
           f == [p \in Places |-> At(p)]
<1>1. \A q \in Queues : q \in Seq(Request)
  BY DEF WireInv, WiresShaped, Queues
<1>2. \A p \in Places : \E q \in Queues : \E i \in DOMAIN q :
         p = <<q, i>> /\ At(p) = Tag(q[i]) /\ At(p) \in Tags(q)
  BY DEF Places, Tags, Tag
<1>3. \A q \in Queues : \A i \in DOMAIN q : <<q, i>> \in Places /\ At(<<q, i>>) = Tag(q[i])
  BY DEF Places, Tag
<1>4. {At(p) : p \in Places} = Waiting
  <2>1. \A p \in Places : At(p) \in AllTags
    BY <1>2 DEF AllTags
  <2>2. \A t \in AllTags : \E p \in Places : t = At(p)
    <3> TAKE t \in AllTags
    <3>1. PICK q \in Queues : t \in Tags(q)
      BY DEF AllTags
    <3>2. PICK i \in DOMAIN q : t = Tag(q[i])
      BY <3>1 DEF Tags
    <3> QED
      BY <1>3, <3>1, <3>2
  <2> QED
    BY <2>1, <2>2 DEF WireInv
<1>5. \A p1, p2 \in Places : At(p1) = At(p2) => p1 = p2
  <2> SUFFICES ASSUME NEW p1 \in Places, NEW p2 \in Places, At(p1) = At(p2)
               PROVE  p1 = p2
    OBVIOUS
  <2>1. PICK q1 \in Queues : \E i \in DOMAIN q1 :
           p1 = <<q1, i>> /\ At(p1) = Tag(q1[i]) /\ At(p1) \in Tags(q1)
    BY <1>2
  <2>2. PICK q2 \in Queues : \E i \in DOMAIN q2 :
           p2 = <<q2, i>> /\ At(p2) = Tag(q2[i]) /\ At(p2) \in Tags(q2)
    BY <1>2
  <2> HIDE DEF At
  <2>3. q1 = q2
    BY <2>1, <2>2 DEF WireInv, WiresShaped
  <2> QED
    BY <2>1, <2>2, <2>3 DEF WireInv, WiresShaped, OneEach
<1> HIDE DEF At
<1>6. f \in Injection(Places, Waiting) /\ f \in Surjection(Places, Waiting)
  BY <1>4, <1>5 DEF Injection, IsInjective, Surjection
<1> HIDE DEF f
<1>7. Cardinality(Places) = Cardinality(Waiting)
  BY <1>6, WaitingFinite, FS_Injection
<1> QED
  BY <1>1, <1>4, <1>7 DEF WireServesEveryWaiter, At

\* Nothing is queued when the integration starts.
LEMMA WireInit == Init => WireInv
<1> SUFFICES ASSUME Init
             PROVE  WireInv
  OBVIOUS
<1>1. TypeOK
  BY TypeInit
<1>2. Queues = {<<>>} /\ AllTags = {}
  BY EmptyTags DEF Init, Queues, AllTags
<1>3. WiresShaped
  BY <1>2, EmptyTags DEF Init, WiresShaped
<1>4. Waiting = {}
  BY DEF Init, Waiting, Polling, IdlePoll
<1>5. Named(ops) /\ Named(writes) /\ IsFiniteSet(left)
  BY FS_EmptySet DEF Init, Named
<1>6. RefreshApart
  BY DEF Init, RefreshApart, Polling, IdlePoll
<1> QED
  BY <1>1, <1>2, <1>3, <1>4, <1>5, <1>6 DEF WireInv

\* Every coroutine that awaits an answer has exactly one request queued and
\* nothing else is queued, whatever times out, raises, is cancelled, retried or
\* reloaded (api.py, get; coordinator.py, gather): no waiter is lost, and the
\* only requests that no refresh, tap or write waits for are the reads that an
\* exception of the other read, or an unload, left running.
THEOREM EveryWaiterIsServed == Spec => []WireServesEveryWaiter
  BY WireInit, WireStep, WireServes, PTL DEF Spec

-----------------------------------------------------------------------------
(***************************************************************************)
(* Fairness of the lock.                                                   *)
(***************************************************************************)
LEMMA ForwardAdvances ==
  ASSUME NEW q, OneEach(q), NEW s, Forward(q, s)
  PROVE  Advances(q, s)
<1> SUFFICES ASSUME NEW i \in DOMAIN q, NEW j \in DOMAIN s,
                    q[i].kind = s[j].kind, q[i].by = s[j].by
             PROVE  s[j].tries = q[i].tries /\ j <= i
  BY DEF Advances
<1>1. PICK k \in DOMAIN q : j <= k /\ s[j] = q[k]
  BY DEF Forward
<1>2. k = i
  BY <1>1 DEF OneEach, Tag
<1> QED
  BY <1>1, <1>2

LEMMA ForwardItself ==
  ASSUME NEW q \in Seq(Request)
  PROVE  Forward(q, q)
<1>1. \A i \in DOMAIN q : i <= i
  OBVIOUS
<1> QED
  BY <1>1 DEF Forward

LEMMA TailForward ==
  ASSUME NEW q \in Seq(Request), q # <<>>
  PROVE  Forward(q, Tail(q))
<1>1. \A j \in DOMAIN Tail(q) : j + 1 \in DOMAIN q /\ j <= j + 1 /\ Tail(q)[j] = q[j + 1]
  OBVIOUS
<1> QED
  BY <1>1 DEF Forward

LEMMA WithoutPollForward ==
  ASSUME NEW q \in Seq(Request), OneEach(q)
  PROVE  Forward(q, WithoutPoll(q))
<1>1. ASSUME NEW s \in Seq(Request), OneEach(s), NEW kind
      PROVE  Forward(s, Without(s, kind))
  BY <1>1, WithoutTags
<1> DEFINE s == Without(q, "edit")
<1>2. s \in Seq(Request) /\ OneEach(s) /\ Forward(q, s)
  BY <1>1, WithoutTags
<1>3. Forward(s, Without(s, "sys"))
  BY <1>1, <1>2
<1>4. Without(s, "sys") \in Seq(Request)
  BY <1>2, WithoutTags
<1> DEFINE u == Without(s, "sys")
<1>5. WithoutPoll(q) = u
  BY DEF WithoutPoll
<1> HIDE DEF s, u
<1>6. ASSUME NEW j \in DOMAIN u
      PROVE  \E i \in DOMAIN q : j <= i /\ u[j] = q[i]
  <2>1. PICK k \in DOMAIN s : j <= k /\ u[j] = s[k]
    BY <1>3 DEF Forward, u
  <2>2. PICK i \in DOMAIN q : k <= i /\ s[k] = q[i]
    BY <1>2 DEF Forward
  <2>3. i \in Nat /\ j \in Nat /\ k \in Nat
    BY <1>2, <1>4 DEF u
  <2> QED
    BY <2>1, <2>2, <2>3
<1> QED
  BY <1>5, <1>6 DEF Forward

\* New requests are queued behind the others.
LEMMA GrownAdvances ==
  ASSUME NEW q \in Seq(Request), NEW s, OneEach(s),
         \A i \in DOMAIN q : i \in DOMAIN s /\ s[i] = q[i]
  PROVE  Advances(q, s)
<1>1. \A i \in DOMAIN q : i <= i
  OBVIOUS
<1> QED
  BY <1>1 DEF Advances, OneEach, Tag

\* The request served goes to the end with one attempt less, and the others
\* move up.
LEMMA RetryAdvances ==
  ASSUME NEW q \in Seq(Request), q # <<>>, OneEach(q)
  PROVE  Advances(q, Append(Tail(q), Retry(Head(q))))
<1> DEFINE t == Tail(q)
           h == Retry(Head(q))
           s == Append(t, h)
<1> SUFFICES ASSUME NEW i \in DOMAIN q, NEW j \in DOMAIN s,
                    q[i].kind = s[j].kind, q[i].by = s[j].by
             PROVE  \/ s[j].tries < q[i].tries
                    \/ s[j].tries = q[i].tries /\ j <= i
  BY DEF Advances
<1>1. t \in Seq(Request) /\ Len(t) \in Nat /\ 1 \in DOMAIN q /\ Head(q) = q[1]
  OBVIOUS
<1>2. /\ q[1] \in Request /\ h.kind = q[1].kind /\ h.by = q[1].by
      /\ h.tries = q[1].tries - 1
  <2>1. q[1] \in Request /\ h = [q[1] EXCEPT !.tries = @ - 1]
    BY <1>1 DEF Retry
  <2> QED
    BY <2>1 DEF Request
<1>3. Forward(q, t)
  BY TailForward
<1> HIDE DEF h, t
<1>4. j \in DOMAIN t \/ j = Len(t) + 1
  BY <1>1
<1>5. CASE j = Len(t) + 1
  <2>1. s[j] = h
    BY <1>1, <1>5
  <2>2. i = 1
    BY <1>1, <1>2, <2>1 DEF OneEach, Tag
  <2> QED
    BY <1>2, <2>1, <2>2 DEF Request
<1>6. CASE j \in DOMAIN t
  <2>1. s[j] = t[j]
    BY <1>1, <1>6
  <2> QED
    BY <1>3, <1>6, <2>1, ForwardAdvances DEF Advances
<1> QED
  BY <1>4, <1>5, <1>6

\* Requests of different queues are never mistaken for each other.
LEMMA ApartAdvances ==
  ASSUME NEW q, NEW s, Tags(q) \cap Tags(s) = {}
  PROVE  Advances(q, s)
  BY DEF Advances, Tags, Tag

\* The other queues are left alone.
LEMMA RequeueAdvances ==
  ASSUME WiresShaped, NEW q \in Queues, NEW s \in Seq(Request),
         Requeue(q, s), Advances(q, s),
         \A t \in Tags(s) : t \in Tags(q) \/ (q = wire /\ t \notin AllTags)
  PROVE  \A x \in Queues, y \in Queues' : Advances(x, y)
<1> SUFFICES ASSUME NEW x \in Queues, NEW y \in Queues'
             PROVE  Advances(x, y)
  OBVIOUS
<1> USE DEF Queues
<1>1. y = s \/ (y \in Queues /\ y # q)
  BY DEF Requeue, WiresShaped
<1>2. CASE x = q /\ y = s
  BY <1>2
<1>3. CASE x # q /\ y = s
  <2>1. Tags(x) \in SUBSET AllTags /\ Tags(x) \cap Tags(q) = {}
    BY <1>3 DEF AllTags, WiresShaped
  <2> QED
    BY <1>3, <2>1, ApartAdvances
<1>4. CASE y \in Queues /\ x # y
  BY <1>4, ApartAdvances DEF WiresShaped
<1>5. CASE y \in Queues /\ x = y
  <2>1. x \in Seq(Request) /\ OneEach(x)
    BY DEF WiresShaped
  <2> QED
    BY <1>5, <2>1, ForwardItself, ForwardAdvances
<1> QED
  BY <1>1, <1>2, <1>3, <1>4, <1>5

LEMMA UnchangedAdvances ==
  ASSUME WiresShaped, UNCHANGED <<wire, oldWires>>
  PROVE  \A x \in Queues, y \in Queues' : Advances(x, y)
<1>1. \A x \in Queues : Advances(x, x)
  BY ForwardItself, ForwardAdvances DEF WiresShaped, Queues
<1>2. \A x, y \in Queues : x # y => Advances(x, y)
  BY ApartAdvances DEF WiresShaped
<1>3. Queues' = Queues
  BY DEF Queues
<1> QED
  BY <1>1, <1>2, <1>3

LEMMA AppendAdvances ==
  ASSUME WireInv, NEW r \in Request, Tag(r) \notin Waiting,
         wire' = Append(wire, r), UNCHANGED <<oldWires, left, poll>>
  PROVE  \A x \in Queues, y \in Queues' : Advances(x, y)
<1>0. /\ WiresShaped /\ AllTags = Waiting /\ wire \in Queues
      /\ wire \in Seq(Request) /\ OneEach(wire) /\ Tags(wire) \in SUBSET AllTags
  BY DEF WireInv, WiresShaped, Queues, AllTags
<1> DEFINE s == Append(wire, r)
<1>1. s \in Seq(Request) /\ OneEach(s) /\ Tags(s) = Tags(wire) \cup {Tag(r)}
  BY <1>0, AppendTags
<1>2. \A i \in DOMAIN wire : i \in DOMAIN s /\ s[i] = wire[i]
  BY <1>0
<1>3. Requeue(wire, s)
  BY DEF Requeue
<1> HIDE DEF s
<1>4. Advances(wire, s)
  BY <1>0, <1>1, <1>2, GrownAdvances
<1> QED
  BY <1>0, <1>1, <1>3, <1>4, RequeueAdvances

\* A new client takes over from one whose requests stay in their order.
LEMMA NewClientAdvances ==
  ASSUME WireInv, NEW s, Forward(wire, s), Tags(s) \in SUBSET Tags(wire), NewClient(s)
  PROVE  \A x \in Queues, y \in Queues' : Advances(x, y)
<1>0. /\ WiresShaped /\ wire \in Seq(Request) /\ OneEach(wire) /\ wire \in Queues
  BY DEF WireInv, WiresShaped, Queues
<1>1. Forward(wire, s) /\ Tags(s) \in SUBSET Tags(wire)
  OBVIOUS
<1>2. wire' = <<>> /\ oldWires' = (oldWires \cup {s}) \ {<<>>}
  BY DEF NewClient
<1> SUFFICES ASSUME NEW x \in Queues, NEW y \in Queues'
             PROVE  Advances(x, y)
  OBVIOUS
<1>3. y = <<>> \/ y = s \/ (y \in oldWires /\ y # wire)
  BY <1>0, <1>2 DEF Queues, WiresShaped
<1>4. CASE y = <<>>
  BY <1>4, EmptyTags, ApartAdvances
<1>5. CASE y = s /\ x = wire
  BY <1>0, <1>1, <1>5, ForwardAdvances
<1>6. CASE y = s /\ x # wire
  <2>1. Tags(x) \cap Tags(wire) = {}
    BY <1>0, <1>6 DEF WiresShaped
  <2> QED
    BY <1>1, <1>6, <2>1, ApartAdvances
<1>7. CASE y \in oldWires /\ x = y
  <2>1. x \in Seq(Request) /\ OneEach(x)
    BY <1>0 DEF WiresShaped, Queues
  <2> QED
    BY <1>7, <2>1, ForwardItself, ForwardAdvances
<1>8. CASE y \in oldWires /\ x # y
  BY <1>0, <1>8, ApartAdvances DEF WiresShaped, Queues
<1> QED
  BY <1>3, <1>4, <1>5, <1>6, <1>7, <1>8

\* An answer takes the first request out of its queue, a timeout that is not
\* the last puts it at the end.
LEMMA ServeAdvances ==
  ASSUME WireInv, NEW q \in Queues, Answer(q) \/ TimedOut(q)
  PROVE  \A x \in Queues, y \in Queues' : Advances(x, y)
<1>0. /\ WiresShaped /\ q \in Seq(Request) /\ OneEach(q) /\ q # <<>>
  BY DEF WireInv, WiresShaped, Queues, Answer, TimedOut
<1>1. ASSUME Requeue(q, Tail(q))
      PROVE  \A x \in Queues, y \in Queues' : Advances(x, y)
  <2>1. Tail(q) \in Seq(Request) /\ Tags(Tail(q)) \in SUBSET Tags(q)
    BY <1>0, TailTags
  <2>2. Advances(q, Tail(q))
    BY <1>0, TailForward, ForwardAdvances
  <2> QED
    BY <1>0, <1>1, <2>1, <2>2, RequeueAdvances
<1>2. CASE Head(q).tries > 1 /\ Requeue(q, Append(Tail(q), Retry(Head(q))))
  <2> DEFINE s == Append(Tail(q), Retry(Head(q)))
  <2>1. s \in Seq(Request) /\ Tags(s) = Tags(q) /\ Advances(q, s)
    BY <1>0, <1>2, RetryTags, RetryAdvances
  <2> HIDE DEF s
  <2>2. Requeue(q, s)
    BY <1>2 DEF s
  <2> QED
    BY <1>0, <2>1, <2>2, RequeueAdvances
<1> QED
  BY <1>1, <1>2 DEF Answer, TimedOut

LEMMA AdvanceStep ==
  ASSUME WireInv, [Next]_vars
  PROVE  \A q \in Queues, s \in Queues' : Advances(q, s)
<1> DEFINE Goal == \A q \in Queues, s \in Queues' : Advances(q, s)
<1>0. /\ WiresShaped /\ wire \in Queues /\ wire \in Seq(Request) /\ OneEach(wire)
      /\ AllTags = Waiting
  BY DEF WireInv, WiresShaped, Queues
<1>1. CASE UNCHANGED <<wire, oldWires>>
  BY <1>0, <1>1, UnchangedAdvances
<1>2. ASSUME NEW id \in RefreshId, PollStart(id)
      PROVE  Goal
  <2>1. /\ wire' \in Seq(Request) /\ OneEach(wire')
        /\ Tags(wire') = Tags(wire) \cup {<<"edit", id>>, <<"sys", id>>}
        /\ \A i \in DOMAIN wire : i \in DOMAIN wire' /\ wire'[i] = wire[i]
    BY <1>2, PollStartQueue
  <2>2. <<"edit", id>> \notin AllTags /\ <<"sys", id>> \notin AllTags
    BY <1>0, <1>2, NewTags DEF PollStart
  <2>3. Advances(wire, wire')
    BY <1>0, <2>1, GrownAdvances
  <2>4. Requeue(wire, wire')
    BY <1>2 DEF PollStart, Requeue
  <2> QED
    BY <1>0, <2>1, <2>2, <2>3, <2>4, RequeueAdvances
<1>3. CASE PollTimeout
  <2> DEFINE s == WithoutPoll(wire)
  <2>1. s \in Seq(Request) /\ Tags(s) \in SUBSET Tags(wire) /\ Advances(wire, s)
    BY <1>0, WithoutPollTags, WithoutPollForward, ForwardAdvances
  <2>2. Requeue(wire, s)
    BY <1>3 DEF PollTimeout, Requeue
  <2> HIDE DEF s
  <2> QED
    BY <1>0, <2>1, <2>2, RequeueAdvances
<1>4. CASE Close \/ PollFailed
  <2>1. CASE NewClient(wire)
    BY <1>0, <2>1, ForwardItself, NewClientAdvances
  <2>2. CASE NewClient(WithoutPoll(wire))
    <3>1. /\ Forward(wire, WithoutPoll(wire))
          /\ Tags(WithoutPoll(wire)) \in SUBSET Tags(wire)
      BY <1>0, WithoutPollTags, WithoutPollForward
    <3> QED
      BY <2>2, <3>1, NewClientAdvances
  <2> QED
    BY <1>1, <1>4, <2>1, <2>2 DEF Close, PollFailed
<1>5. ASSUME NEW id \in OpId, NEW p \in pending, Tap(id, p)
      PROVE  Goal
  <2> DEFINE r == Ask("fetch", id)
  <2>1. r \in Request /\ Tag(r) = <<"fetch", id>>
    BY BoundsAssumption DEF Ask, Request, Tag
  <2>2. Tag(r) \notin Waiting
    BY <1>5, <2>1, NewTags DEF Tap
  <2>3. CASE wire' = Append(wire, r)
    <3>1. UNCHANGED <<oldWires, left, poll>>
      BY <1>5, <2>3 DEF Tap, pollVars, wires
    <3> HIDE DEF r
    <3> QED
      BY <2>1, <2>2, <2>3, <3>1, AppendAdvances
  <2> QED
    BY <1>1, <1>5, <2>3 DEF Tap, wires
<1>6. ASSUME NEW op \in ops, FetchReturn(op)
      PROVE  Goal
  <2> DEFINE r == Ask("revert", op.id)
  <2>1. r \in Request /\ Tag(r) = <<"revert", op.id>>
    <3>1. op.id \in OpId
      BY DEF WireInv, TypeOK, Op
    <3> QED
      BY <3>1, BoundsAssumption DEF Ask, Request, Tag
  <2>2. Tag(r) \notin Waiting
    BY <1>6, <2>1, NewTags DEF FetchReturn
  <2>3. CASE wire' = Append(wire, r)
    <3>1. UNCHANGED <<oldWires, left, poll>>
      BY <1>6, <2>3 DEF FetchReturn, pollVars, wires
    <3> HIDE DEF r
    <3> QED
      BY <2>1, <2>2, <2>3, <3>1, AppendAdvances
  <2> QED
    BY <1>1, <1>6, <2>3 DEF FetchReturn, wires
<1>7. ASSUME NEW id \in WriteId, NEW n \in Name, NEW v \in Value, EntityWrite(id, n, v)
      PROVE  Goal
  <2> DEFINE r == Ask("entity", id)
  <2>1. r \in Request /\ Tag(r) = <<"entity", id>>
    BY BoundsAssumption DEF Ask, Request, Tag
  <2>2. Tag(r) \notin Waiting
    BY <1>7, <2>1, NewTags DEF EntityWrite
  <2>3. wire' = Append(wire, r) /\ UNCHANGED <<oldWires, left, poll>>
    BY <1>7 DEF EntityWrite, pollVars
  <2> HIDE DEF r
  <2> QED
    BY <2>1, <2>2, <2>3, AppendAdvances
<1>8. ASSUME NEW q \in {wire} \cup oldWires, Answer(q) \/ TimedOut(q)
      PROVE  Goal
  BY <1>8, ServeAdvances DEF Queues
<1>9. ASSUME NEW t \in sends, Send(t)
      PROVE  Goal
  BY <1>1, <1>9 DEF Send, wires
<1>10. ASSUME NEW op \in ops, SetReturn(op)
       PROVE  Goal
  BY <1>1, <1>10 DEF SetReturn, wires
<1>11. ASSUME NEW w \in writes, EntityReturn(w)
       PROVE  Goal
  BY <1>1, <1>11 DEF EntityReturn, wires
<1>12. CASE GuestChange \/ Tick \/ ChangeOptions \/ Start \/ PollReturn
  BY <1>1, <1>12 DEF GuestChange, Tick, ChangeOptions, Start, PollReturn, wires
<1>13. CASE UNCHANGED vars
  BY <1>1, <1>13 DEF vars, wires
<1> QED
  BY <1>2, <1>3, <1>4, <1>5, <1>6, <1>7, <1>8, <1>9, <1>10, <1>11, <1>12, <1>13 DEF Next

\* Nobody who waits for the lock is overtaken, and whoever goes back to the end
\* of the queue has an attempt less: this is what bounds how long a tap waits,
\* whatever is polled meanwhile (api.py, get; asyncio.Lock).
THEOREM NobodyIsOvertaken == Spec => RequestsAdvance
<1>1. WireInv /\ [Next]_vars => [\A q \in Queues, s \in Queues' : Advances(q, s)]_vars
  BY AdvanceStep
<1> QED
  BY <1>1, WireInit, WireStep, PTL DEF Spec, RequestsAdvance
=============================================================================
