------------------------ MODULE RevertPromise_proofs ------------------------
(***************************************************************************)
(* RevertActions implements RevertPromise, and what that promises: the     *)
(* limit on what is offered, and the single use of a token.                *)
(***************************************************************************)
EXTENDS RevertActions_proofs, FunctionTheorems

-----------------------------------------------------------------------------
(* The limit on the actions on offer. *)

\* Beyond MaxPending the oldest actions go: each of those that stay has fewer
\* than MaxPending newer ones, and no two have the same number of them.
LEMMA NewestBounded ==
  ASSUME NEW A \in SUBSET Pending, IsFiniteSet(A),
         \A p, q \in A : p.token = q.token => p = q
  PROVE  IsFiniteSet(Newest(A)) /\ Cardinality(Newest(A)) <= MaxPending
<1> DEFINE Newer(p) == {q \in A : q.token > p.token}
           newer == [p \in Newest(A) |-> Cardinality(Newer(p))]
<1>1. MaxPending \in Nat \ {0}
  BY BoundsAssumption
<1>2. IsFiniteSet(Newest(A))
  BY FS_Subset DEF Newest
<1>3. \A p \in A : IsFiniteSet(Newer(p)) /\ Cardinality(Newer(p)) \in Nat
  BY FS_Subset, FS_CardinalityType
<1>4. ASSUME NEW p \in A, NEW q \in A, p.token < q.token
      PROVE  Cardinality(Newer(p)) # Cardinality(Newer(q))
  <2>1. p.token \in Nat /\ q.token \in Nat /\ \A r \in A : r.token \in Nat
    BY DEF Pending
  <2>2. Newer(q) \in SUBSET Newer(p)
    BY <1>4, <2>1
  <2>3. q \in Newer(p) /\ q \notin Newer(q)
    BY <1>4, <2>1
  <2> QED
    BY <1>3, <2>2, <2>3, FS_Subset
<1>5. newer \in [Newest(A) -> 0 .. MaxPending - 1]
  <2>1. \A p \in Newest(A) : p \in A /\ Cardinality(Newer(p)) < MaxPending
    BY DEF Newest
  <2> HIDE DEF Newer
  <2> QED
    BY <1>1, <1>3, <2>1
<1>6. ASSUME NEW p \in Newest(A), NEW q \in Newest(A), newer[p] = newer[q]
      PROVE  p = q
  <2>1. p \in A /\ q \in A /\ p.token \in Nat /\ q.token \in Nat
    BY DEF Newest, Pending
  <2>2. Cardinality(Newer(p)) = Cardinality(Newer(q))
    BY <1>6
  <2>3. ~(p.token < q.token) /\ ~(q.token < p.token)
    BY <1>4, <2>1, <2>2
  <2> QED
    BY <2>1, <2>3
<1>7. newer \in Injection(Newest(A), 0 .. MaxPending - 1)
  <2> HIDE DEF newer
  <2> QED
    BY <1>5, <1>6, Fun_IsInj
<1>8. /\ IsFiniteSet(0 .. MaxPending - 1)
      /\ Cardinality(0 .. MaxPending - 1) = MaxPending
  BY <1>1, FS_Interval
<1> QED
  BY <1>2, <1>7, <1>8, FS_Injection

BoundInv == TokenInv /\ IsFiniteSet(pending) /\ PendingBounded

\* observe leaves at most MaxPending actions on offer.
LEMMA HandlePollBounded ==
  ASSUME BoundInv, NEW data \in Menu, HandlePoll(data), TokenInv'
  PROVE  BoundInv'
<1> DEFINE R == Replaced(Surviving(data), Offers(data))
<1>1. snapshot \in Snapshot /\ issued \in Nat /\ now \in Nat
  BY DEF BoundInv, TokenInv, TypeOK, DetectorTypeOK
<1>2. IsFiniteSet(Offers(data))
  <2> DEFINE f == [c \in Offered(data) |->
                     [token |-> Token(data, c), index |-> c.index, name |-> c.name,
                      old |-> c.old, new |-> c.new, expires |-> now + TTL]]
  <2>1. f \in Surjection(Offered(data), Offers(data))
    BY DEF Offers, Surjection
  <2>2. IsFiniteSet(Offered(data))
    BY <1>1, OfferedType
  <2> QED
    BY <2>1, <2>2, FS_Surjection
<1>3. R \in SUBSET (pending \cup Offers(data))
  BY DEF Replaced, Surviving
<1>4. IsFiniteSet(R)
  BY <1>2, <1>3, FS_Union, FS_Subset DEF BoundInv
<1>5. pending \in SUBSET Pending /\ Offers(data) \in SUBSET Pending
  BY <1>1, OffersType DEF BoundInv, TokenInv, TypeOK
<1>6. ASSUME NEW p \in R, NEW q \in R, p.token = q.token
      PROVE  p = q
  <2>1. \A x \in Offers(data) : x.token > issued
    BY <1>1, OffersFresh, <1>5 DEF BoundInv, TokenInv, Pending
  <2>2. \A x \in pending : x.token <= issued /\ x.token \in Nat
    BY <1>5 DEF BoundInv, TokenInv, Pending
  <2>3. \A x, y \in Offers(data) : x.token = y.token => x = y
    BY OffersFresh DEF BoundInv, TokenInv
  <2>4. \A x, y \in pending : x.token = y.token => x = y
    BY DEF BoundInv, TokenInv
  <2>5. ~(p \in pending /\ q \in Offers(data)) /\ ~(q \in pending /\ p \in Offers(data))
    BY <1>1, <1>6, <2>1, <2>2
  <2> QED
    BY <1>3, <1>6, <2>3, <2>4, <2>5
<1>7. pending' = Newest(R)
  BY DEF HandlePoll, Observe
<1>8. R \in SUBSET Pending
  BY <1>3, <1>5
<1> HIDE DEF R
<1> QED
  BY <1>4, <1>6, <1>7, <1>8, NewestBounded DEF BoundInv, PendingBounded

LEMMA BoundStep == BoundInv /\ [Next]_vars => BoundInv'
<1> SUFFICES ASSUME BoundInv, [Next]_vars
             PROVE  BoundInv'
  OBVIOUS
<1> USE DEF envVars, wires, pollVars, revertVars, history, detectorVars
<1>0. TokenInv' /\ poll.data \in Menu /\ previous \in Menu
  BY TokenStep DEF BoundInv, TokenInv, TypeOK, Refresh
<1>1. ASSUME pending' \in SUBSET pending
      PROVE  BoundInv'
  <2>1. /\ IsFiniteSet(pending') /\ Cardinality(pending') <= Cardinality(pending)
        /\ Cardinality(pending) \in Nat /\ Cardinality(pending') \in Nat
    BY <1>1, FS_Subset, FS_CardinalityType DEF BoundInv
  <2>2. MaxPending \in Nat
    BY BoundsAssumption
  <2> QED
    BY <1>0, <2>1, <2>2 DEF BoundInv, PendingBounded
<1>2. CASE PollReturn
  BY <1>0, <1>2, HandlePollBounded DEF PollReturn
<1>3. CASE PollFailed \/ PollTimeout
  BY <1>0, <1>1, <1>3, HandlePollBounded DEF PollFailed, PollTimeout, Fail
<1>4. CASE ~(PollReturn \/ PollFailed \/ PollTimeout)
  <2>1. pending' \in SUBSET pending
    BY <1>4 DEF Next, vars, GuestChange, Tick, ChangeOptions, PollStart, Start, Close, Send,
         Tap, Consumed, FetchReturn, SetReturn, EntityWrite, EntityReturn, Answer, TimedOut
  <2> QED
    BY <1>1, <2>1
<1> QED
  BY <1>2, <1>3, <1>4

LEMMA BoundAlways == Spec => []BoundInv
<1>1. Init => BoundInv
  <2>1. Init => TokenInv
    BY TypeInit DEF Init, TokenInv, TokenUsedOnce, OneActionPerSetting
  <2>2. Init => IsFiniteSet(pending) /\ PendingBounded
    BY FS_EmptySet, BoundsAssumption DEF Init, PendingBounded
  <2> QED
    BY <2>1, <2>2 DEF BoundInv
<1> QED
  BY <1>1, BoundStep, PTL DEF Spec

\* No more than MAX_PENDING actions are ever on offer (observe).
THEOREM OffersAreBounded == Spec => []PendingBounded
<1>1. BoundInv => PendingBounded
  BY DEF BoundInv
<1> QED
  BY <1>1, BoundAlways, PTL

-----------------------------------------------------------------------------
(* Refinement. *)

Valid == Reading({op \in ops : op.live /\ ~op.superseded})

\* Two taps at the same stage of the promise.
SameStage(o, op) ==
  /\ op.act = o.act
  /\ op.pc \in {"fetching", "fetched"} <=> o.pc \in {"fetching", "fetched"}
  /\ op.pc \in {"setting", "set"} <=> o.pc \in {"setting", "set"}

\* A step that moves no tap to another stage keeps the tokens of each stage.
LEMMA StagesKept ==
  ASSUME \A op \in ops' : \E o \in ops : SameStage(o, op),
         \A o \in ops : \E op \in ops' : SameStage(o, op)
  PROVE  Reading(ops)' = Reading(ops) /\ Writing(ops)' = Writing(ops)
  BY DEF SameStage, Reading, Writing

LEMMA ValidKept ==
  ASSUME \A op \in ops' : \E o \in ops : /\ SameStage(o, op) /\ op.live = o.live
                                         /\ op.superseded = o.superseded,
         \A o \in ops : \E op \in ops' : /\ SameStage(o, op) /\ op.live = o.live
                                         /\ op.superseded = o.superseded
  PROVE  Valid' = Valid
  BY DEF SameStage, Reading, Valid

\* A tap that ends takes its token out of its stage, and no other.
LEMMA StageLeft ==
  ASSUME TokenInv, NEW op \in ops, ops' = ops \ {op}
  PROVE  /\ op.pc \in {"fetching", "fetched"} =>
              /\ op.act.token \in Reading(ops)
              /\ Reading(ops)' = Reading(ops) \ {op.act.token}
              /\ Valid' = Valid \ {op.act.token}
              /\ Writing(ops)' = Writing(ops)
         /\ op.pc \in {"setting", "set"} =>
              /\ op.act.token \in Writing(ops)
              /\ Writing(ops)' = Writing(ops) \ {op.act.token}
              /\ Reading(ops)' = Reading(ops) /\ Valid' = Valid
<1>1. \A o \in ops : o.act.token = op.act.token => o = op
  BY DEF TokenInv, TokenUsedOnce
<1> QED
  BY <1>1 DEF Reading, Writing, Valid

\* A poll is a Revise step.
LEMMA HandlePollRevises ==
  ASSUME TokenInv, TokenInv', NEW data \in Menu, HandlePoll(data)
  PROVE  Promise!Revise
<1>1. /\ snapshot \in Snapshot /\ issued \in Nat /\ issued' \in Nat
      /\ ops \in SUBSET Op /\ pending' \in SUBSET Pending
  BY DEF TokenInv, TypeOK, DetectorTypeOK
<1>2. issued' >= issued
  BY <1>1, OfferedType DEF HandlePoll, Observe
<1>3. \A p \in pending' : p \in pending \/ p.token \in issued + 1 .. issued'
  <2>1. \A p \in pending' : p \in pending \/ p.token > issued
    BY <1>1, HandlePollTokens DEF TokenInv
  <2>2. \A p \in pending' : p.token \in Nat /\ p.token <= issued'
    BY <1>1 DEF TokenInv, Pending
  <2> QED
    BY <1>1, <2>1, <2>2
<1>4. \A o \in ops : LET op == [o EXCEPT !.superseded = TRUE]
                     IN  SameStage(o, op) /\ op.superseded
  BY <1>1 DEF SameStage, Op
<1>5. ops' = {[o EXCEPT !.superseded = TRUE] : o \in ops}
  BY DEF HandlePoll, Observe, Superseded
<1>6. Valid' = {}
  BY <1>4, <1>5 DEF Valid, Reading
<1>7. Reading(ops)' = Reading(ops) /\ Writing(ops)' = Writing(ops)
  BY <1>4, <1>5, StagesKept
<1> QED
  BY <1>2, <1>3, <1>6, <1>7 DEF Promise!Revise, Valid

LEMMA PromiseStep ==
  TokenInv /\ TokenInv' /\ [Next]_vars => [Promise!Next]_(Promise!vars)
<1> SUFFICES ASSUME TokenInv, TokenInv', [Next]_vars
             PROVE  [Promise!Next]_(Promise!vars)
  OBVIOUS
<1> USE DEF envVars, wires, pollVars, revertVars, history, detectorVars
<1>0. /\ TokenInv /\ poll.data \in Menu /\ previous \in Menu
      /\ ops \in SUBSET Op /\ ops' \in SUBSET Op
  BY DEF TokenInv, TypeOK, Refresh
\* The steps that the promise does not see.
<1>1. ASSUME UNCHANGED <<issued, pending>>, UNCHANGED <<Reading(ops), Writing(ops), Valid>>
      PROVE  UNCHANGED Promise!vars
  BY <1>1 DEF Promise!vars, Valid
<1>2. ASSUME UNCHANGED <<issued, pending, ops>>
      PROVE  UNCHANGED Promise!vars
  BY <1>1, <1>2 DEF Reading, Writing, Valid
<1>3. CASE \/ GuestChange \/ Tick \/ ChangeOptions \/ Start \/ (\E id \in RefreshId : PollStart(id))
           \/ \E id \in WriteId, n \in Name, v \in Value : EntityWrite(id, n, v)
           \/ \E w \in writes : EntityReturn(w)
           \/ UNCHANGED vars
  BY <1>2, <1>3
  DEF GuestChange, Tick, ChangeOptions, PollStart, Start, EntityWrite, EntityReturn, vars
<1>4. CASE PollReturn
  BY <1>0, <1>4, HandlePollRevises DEF PollReturn, Promise!Next
<1>5. CASE PollFailed \/ PollTimeout
  <2>1. CASE HandlePoll(previous)
    BY <1>0, <2>1, HandlePollRevises DEF Promise!Next
  <2>2. CASE UNCHANGED <<detectorVars, revertVars, sends, phone, ops, history>>
    BY <1>2, <2>2
  <2> QED
    BY <1>5, <2>1, <2>2 DEF PollFailed, PollTimeout, Fail
\* An unload withdraws everything, and no tap of the old entry may go on.
<1>6. CASE Close
  <2>1. \A o \in ops : LET op == [o EXCEPT !.live = FALSE]
                       IN  SameStage(o, op) /\ ~op.live
    BY <1>0 DEF SameStage, Op
  <2>2. ops' = {[o EXCEPT !.live = FALSE] : o \in ops}
    BY <1>6 DEF Close
  <2>3. Reading(ops)' = Reading(ops) /\ Writing(ops)' = Writing(ops)
    BY <2>1, <2>2, StagesKept
  <2>6. Valid' = {}
    BY <2>1, <2>2 DEF Valid, Reading
  <2>4. {p.token : p \in pending'} = {} /\ UNCHANGED issued
    BY <1>6 DEF Close
  <2>5. issued >= issued
    BY <1>0 DEF TokenInv, TypeOK
  <2> QED
    BY <2>3, <2>4, <2>5, <2>6 DEF Promise!Next, Promise!Revise, Valid
<1>7. ASSUME NEW t \in sends, Send(t)
      PROVE  [Promise!Next]_(Promise!vars)
  <2>1. UNCHANGED <<issued, ops>>
    BY <1>7 DEF Send
  <2>2. CASE pending' = {p \in pending : p.token # t} /\ \E p \in pending : p.token = t
    <3>1. Promise!Withdraw(t)
      BY <2>1, <2>2 DEF Promise!Withdraw, Reading, Writing
    <3> QED
      BY <2>2, <3>1 DEF Promise!Next
  <2>3. CASE UNCHANGED pending
    BY <1>2, <2>1, <2>3
  <2> QED
    BY <1>7, <2>2, <2>3 DEF Send
<1>8. ASSUME NEW id \in OpId, NEW p \in pending, Tap(id, p)
      PROVE  [Promise!Next]_(Promise!vars)
  <2>1. UNCHANGED issued /\ {q.token : q \in pending'} = {q.token : q \in pending} \ {p.token}
    BY <1>0, <1>8 DEF Tap, Consumed, TokenInv
  <2>2. CASE UNCHANGED ops
    <3>1. Promise!Withdraw(p.token)
      BY <2>1, <2>2 DEF Promise!Withdraw, Reading, Writing
    <3> QED
      BY <3>1 DEF Promise!Next
  <2>3. CASE ops' = ops \cup {[id |-> id, pc |-> "fetching", act |-> p, superseded |-> FALSE,
                               live |-> TRUE, ok |-> FALSE, fresh |-> Nothing]}
    <3> DEFINE new == [id |-> id, pc |-> "fetching", act |-> p, superseded |-> FALSE,
                       live |-> TRUE, ok |-> FALSE, fresh |-> Nothing]
    <3>1. new.pc = "fetching" /\ new.act = p /\ new.live /\ ~new.superseded
      OBVIOUS
    <3>2. ops' = ops \cup {new}
      BY <2>3
    <3> HIDE DEF new
    <3>3. /\ Reading(ops)' = Reading(ops) \cup {p.token}
          /\ Valid' = Valid \cup {p.token}
          /\ Writing(ops)' = Writing(ops)
      BY <3>1, <3>2 DEF Reading, Writing, Valid
    <3>4. Promise!Accept(p.token)
      BY <2>1, <3>3 DEF Promise!Accept, Valid
    <3> QED
      BY <3>4 DEF Promise!Next
  <2> QED
    BY <1>8, <2>2, <2>3 DEF Tap
<1>9. ASSUME NEW op \in ops, FetchReturn(op)
      PROVE  [Promise!Next]_(Promise!vars)
  <2>1. op.pc = "fetched" /\ UNCHANGED <<issued, pending>>
    BY <1>9 DEF FetchReturn
  <2>2. CASE ops' = ops \ {op}
    <3>1. /\ op.act.token \in Reading(ops)
          /\ Reading(ops)' = Reading(ops) \ {op.act.token}
          /\ Valid' = Valid \ {op.act.token}
          /\ Writing(ops)' = Writing(ops)
      BY <1>0, <2>1, <2>2, StageLeft
    <3>2. Promise!Abandon(op.act.token)
      BY <2>1, <3>1 DEF Promise!Abandon, Valid
    <3> QED
      BY <3>1, <3>2 DEF Promise!Next
  <2>3. CASE /\ ops' = (ops \ {op}) \cup {[op EXCEPT !.pc = "setting", !.fresh = Nothing]}
             /\ Allowed(op)
    <3> DEFINE new == [op EXCEPT !.pc = "setting", !.fresh = Nothing]
    <3>1. new.pc = "setting" /\ new.act = op.act
      BY <1>0 DEF Op
    <3>2. ops' = (ops \ {op}) \cup {new}
      BY <2>3
    <3>3. \A o \in ops : o.act.token = op.act.token => o = op
      BY <1>0 DEF TokenInv, TokenUsedOnce
    <3> HIDE DEF new
    <3>4. op.act.token \in Reading(ops) /\ op.act.token \in Valid
      BY <2>1, <2>3 DEF Allowed, Valid, Reading
    <3>5. Reading(ops)' = Reading(ops) \ {op.act.token}
      BY <2>1, <3>1, <3>2, <3>3 DEF Reading
    <3>6. Valid' = Valid \ {op.act.token}
      BY <2>1, <3>1, <3>2, <3>3 DEF Reading, Valid
    <3>7. Writing(ops)' = Writing(ops) \cup {op.act.token}
      BY <2>1, <3>1, <3>2 DEF Writing
    <3>8. Promise!GoAhead(op.act.token)
      BY <2>1, <3>4, <3>5, <3>6, <3>7 DEF Promise!GoAhead, Valid
    <3> QED
      BY <3>4, <3>8 DEF Promise!Next
  <2> QED
    BY <1>9, <2>2, <2>3 DEF FetchReturn
<1>10. ASSUME NEW op \in ops, SetReturn(op)
       PROVE  [Promise!Next]_(Promise!vars)
  <2>1. op.pc = "set" /\ UNCHANGED <<issued, pending>> /\ ops' = ops \ {op}
    BY <1>10 DEF SetReturn
  <2>2. /\ op.act.token \in Writing(ops)
        /\ Writing(ops)' = Writing(ops) \ {op.act.token}
        /\ Reading(ops)' = Reading(ops) /\ Valid' = Valid
    BY <1>0, <2>1, StageLeft
  <2>3. Promise!Finish(op.act.token)
    BY <2>1, <2>2 DEF Promise!Finish, Valid
  <2> QED
    BY <2>2, <2>3 DEF Promise!Next
\* An answer moves a tap on within its stage.
<1>11. ASSUME NEW q \in {wire} \cup oldWires, Answer(q) \/ TimedOut(q)
       PROVE  [Promise!Next]_(Promise!vars)
  <2>1. UNCHANGED <<issued, pending>>
    BY <1>11 DEF Answer, TimedOut
  <2>2. CASE UNCHANGED ops
    BY <1>2, <2>1, <2>2
  <2>3. ASSUME NEW ok, NEW answer, Deliver(Head(q), ok, answer)
        PROVE  UNCHANGED Promise!vars
    <3> DEFINE After(o) == IF Awaits(o, Head(q)) THEN Resumed(o, ok) ELSE o
    <3>1. ops' = {After(o) : o \in ops}
      BY <2>3 DEF Deliver
    <3>2. \A o \in ops : /\ SameStage(o, After(o)) /\ After(o).live = o.live
                         /\ After(o).superseded = o.superseded
      <4> TAKE o \in ops
      <4>1. o \in Op
        BY <1>0
      <4>2. CASE ~Awaits(o, Head(q))
        BY <4>2 DEF SameStage
      <4>3. CASE Awaits(o, Head(q)) /\ o.pc = "fetching"
        BY <4>1, <4>3 DEF SameStage, Resumed, Op
      <4>4. CASE Awaits(o, Head(q)) /\ o.pc = "setting"
        BY <4>1, <4>4 DEF SameStage, Resumed, Op
      <4> QED
        BY <4>2, <4>3, <4>4 DEF Awaits
    <3> HIDE DEF After
    <3>3. /\ Reading(ops)' = Reading(ops) /\ Writing(ops)' = Writing(ops)
          /\ Valid' = Valid
      BY <3>1, <3>2, StagesKept, ValidKept
    <3> QED
      BY <1>1, <2>1, <3>3
  <2> QED
    BY <1>11, <2>2, <2>3 DEF Answer, TimedOut
<1> QED
  BY <1>3, <1>4, <1>5, <1>6, <1>7, <1>8, <1>9, <1>10, <1>11 DEF Next

\* The code, with its queue, polls, reloads and failures, implements the
\* single-use promise: RevertActions refines RevertPromise.
THEOREM CodeKeepsPromise == Spec => PromiseKept
<1>1. Init => Promise!Init
  BY DEF Init, Promise!Init, Reading, Writing
<1>2. TokenInv /\ TokenInv' /\ [Next]_vars => [Promise!Next]_(Promise!vars)
  BY PromiseStep
<1> QED
  BY <1>1, <1>2, TokenAlways, PTL DEF Spec, PromiseKept, Promise!Spec

\* What the promise amounts to: a token is on offer, being read for or being
\* written for, never two of these, and never again after it.
THEOREM TokensAreSingleUse == Spec => []Promise!SingleUse
<1>1. TokenInv => Promise!SingleUse
  <2> SUFFICES ASSUME TokenInv
               PROVE  Promise!SingleUse
    OBVIOUS
  <2>1. /\ issued \in Nat
        /\ \A p \in pending : p.token \in Nat /\ p.token <= issued
        /\ \A op \in ops : op.act.token \in Nat /\ op.act.token <= issued
    BY DEF TokenInv, TypeOK, Pending, Op
  <2>2. Valid \in SUBSET Reading(ops)
    BY DEF Valid, Reading
  <2>3. Reading(ops) \cap Writing(ops) = {}
    BY DEF TokenInv, TokenUsedOnce, Reading, Writing
  <2>4. \A t \in {p.token : p \in pending} : t \notin Reading(ops) \cup Writing(ops)
    BY DEF TokenInv, TokenUsedOnce, Reading, Writing
  <2>5. \A t \in {p.token : p \in pending} \cup Reading(ops) \cup Writing(ops) : t <= issued
    BY <2>1 DEF Reading, Writing
  <2> QED
    BY <2>2, <2>3, <2>4, <2>5 DEF Promise!SingleUse, Valid
<1> QED
  BY <1>1, TokenAlways, PTL

-----------------------------------------------------------------------------
(* A Revert accounts for one change. *)

\* What is reverted differs from what it is set to, a tap that writes was never
\* expected or explained before, and an expectation belongs to one tap.
ExplainInv ==
  /\ TokenInv
  /\ RevertExplainsOneChange
  /\ \A p \in pending : p.old # p.new
  /\ \A op \in ops : op.act.old # op.act.new
  /\ \A w \in revertWrites : w.before # w.target /\ w.token <= issued
  /\ \A w, x \in revertWrites : w.token = x.token => w = x
  /\ \A t \in explained : t <= issued
  /\ \A t \in {w.token : w \in revertWrites} \cup explained :
        /\ \A p \in pending : p.token # t
        /\ t \notin Reading(ops)

LEMMA OffersDiffer ==
  ASSUME NEW data, NEW p \in Offers(data)
  PROVE  p.old # p.new
<1>1. PICK c \in Offered(data) : p.old = c.old /\ p.new = c.new
  BY DEF Offers
<1>2. c \in Diff(snapshot, Extract(data))
  BY DEF Offered, Revertible, External, Changed
<1> QED
  BY <1>1, <1>2 DEF Diff

\* A poll either attributes a change to an expectation or goes on expecting it.
LEMMA HandlePollExplains ==
  ASSUME ExplainInv, TokenInv', NEW data \in Menu, HandlePoll(data)
  PROVE  ExplainInv'
<1> USE DEF ExplainInv
<1>1. /\ issued \in Nat /\ issued' \in Nat /\ issued <= issued'
      /\ ops \in SUBSET Op /\ pending' \in SUBSET Pending
      /\ revertWrites \in SUBSET RevertWrite /\ explained \in SUBSET Nat
  <2>1. snapshot \in Snapshot /\ issued \in Nat
    BY DEF TokenInv, TypeOK, DetectorTypeOK
  <2>2. issued <= issued'
    BY <2>1, OfferedType DEF HandlePoll, Observe
  <2> QED
    BY <2>2 DEF TokenInv, TypeOK, DetectorTypeOK
<1>2. \A p \in pending' : p \in pending \/ (p.token > issued /\ p.old # p.new)
  <2>1. \A p \in pending' : p \in pending \/ p.token > issued
    BY HandlePollTokens DEF TokenInv
  <2>2. \A p \in pending' : p \in pending \/ p \in Offers(data)
    BY DEF HandlePoll, Observe, Newest, Replaced, Surviving
  <2> QED
    BY <2>1, <2>2, OffersDiffer
<1>3. Reading(ops)' = Reading(ops) /\ \A op \in ops' : op.act.old # op.act.new
  <2>1. \A o \in ops : SameStage(o, [o EXCEPT !.superseded = TRUE])
    BY <1>1 DEF SameStage, Op
  <2>2. ops' = {[o EXCEPT !.superseded = TRUE] : o \in ops}
    BY DEF HandlePoll, Observe, Superseded
  <2>3. Reading(ops)' = Reading(ops)
    BY <2>1, <2>2, StagesKept
  <2>4. \A op \in ops' : \E o \in ops : op.act = o.act
    BY <2>1, <2>2 DEF SameStage
  <2> QED
    BY <2>3, <2>4
<1>4. /\ revertWrites' \in SUBSET revertWrites
      /\ explained' \in SUBSET (explained \cup {w.token : w \in revertWrites})
  BY DEF HandlePoll, ProcessEditParams, Awaited, detectorVars, Observed
<1>5. \A w \in revertWrites' : w.token \notin explained'
  <2>1. CASE DOMAIN data = {}
    BY <2>1 DEF HandlePoll, ProcessEditParams, detectorVars, RevertExplainsOneChange
  <2>2. CASE DOMAIN data # {}
    <3>1. Awaited(Extract(data)) \cap Observed(Extract(data)) = {}
      <4> SUFFICES ASSUME NEW w \in Awaited(Extract(data)), w \in Observed(Extract(data))
                   PROVE  FALSE
        OBVIOUS
      <4>1. Extract(data)[w.index].value = w.before /\ Extract(data)[w.index].value = w.target
        BY DEF Awaited, Observed, Shows
      <4> QED
        BY <4>1 DEF Awaited
    <3>2. revertWrites' = Awaited(Extract(data))
      BY <2>2 DEF HandlePoll, ProcessEditParams
    <3>3. explained' = explained \cup {w.token : w \in Observed(Extract(data))}
      BY <2>2 DEF HandlePoll
    <3>4. Observed(Extract(data)) \in SUBSET revertWrites
      BY DEF Observed
    <3> QED
      BY <1>4, <3>1, <3>2, <3>3, <3>4 DEF RevertExplainsOneChange
  <2> QED
    BY <2>1, <2>2
<1>6. \A t \in {w.token : w \in revertWrites'} \cup explained' :
         t \in {w.token : w \in revertWrites} \cup explained
  BY <1>4
<1>7. \A t \in {w.token : w \in revertWrites} \cup explained : t \in Nat /\ t <= issued
  BY <1>1 DEF RevertWrite
<1>8. \A t \in {w.token : w \in revertWrites'} \cup explained' :
         /\ t <= issued'
         /\ \A p \in pending' : p.token # t
         /\ t \notin Reading(ops)'
  <2> TAKE t \in {w.token : w \in revertWrites'} \cup explained'
  <2>1. /\ t \in Nat /\ t <= issued /\ t \notin Reading(ops)
        /\ \A p \in pending : p.token # t
    BY <1>6, <1>7
  <2>2. \A p \in pending' : p.token \in Nat
    BY <1>1 DEF Pending
  <2> QED
    BY <1>1, <1>2, <1>3, <2>1, <2>2
<1> QED
  BY <1>2, <1>3, <1>4, <1>5, <1>8 DEF RevertExplainsOneChange

LEMMA ExplainStep == ExplainInv /\ [Next]_vars => ExplainInv'
<1> SUFFICES ASSUME ExplainInv, [Next]_vars
             PROVE  ExplainInv'
  OBVIOUS
<1> USE DEF envVars, wires, pollVars, revertVars, history, detectorVars
<1>0. /\ TokenInv /\ TokenInv' /\ poll.data \in Menu /\ previous \in Menu
      /\ ops \in SUBSET Op /\ ops' \in SUBSET Op
      /\ revertWrites \in SUBSET RevertWrite
  BY TokenStep DEF ExplainInv, TokenInv, TypeOK, DetectorTypeOK, Refresh
\* A step that offers and expects nothing, and lets no tap start to read.
<1>1. ASSUME pending' \in SUBSET pending, UNCHANGED <<issued, explained>>,
             revertWrites' \in SUBSET revertWrites,
             Reading(ops)' \in SUBSET Reading(ops),
             \A op \in ops' : \E o \in ops : op.act = o.act
      PROVE  ExplainInv'
  BY <1>0, <1>1 DEF ExplainInv, RevertExplainsOneChange
<1>2. ASSUME pending' \in SUBSET pending, UNCHANGED <<issued, explained>>,
             revertWrites' \in SUBSET revertWrites, ops' \in SUBSET ops
      PROVE  ExplainInv'
  <2>1. Reading(ops)' \in SUBSET Reading(ops)
    BY <1>2 DEF Reading
  <2> QED
    BY <1>1, <1>2, <2>1
<1>3. CASE \/ GuestChange \/ Tick \/ ChangeOptions \/ Start \/ (\E id \in RefreshId : PollStart(id))
           \/ \E t \in sends : Send(t)
           \/ \E id \in WriteId, n \in Name, v \in Value : EntityWrite(id, n, v)
           \/ \E w \in writes : EntityReturn(w)
           \/ UNCHANGED vars
  BY <1>2, <1>3 DEF GuestChange, Tick, ChangeOptions, PollStart, Start, Send, EntityWrite,
     EntityReturn, vars
<1>4. CASE PollReturn
  BY <1>0, <1>4, HandlePollExplains DEF PollReturn
<1>5. CASE PollFailed \/ PollTimeout
  <2>1. CASE HandlePoll(previous)
    BY <1>0, <2>1, HandlePollExplains
  <2>2. CASE UNCHANGED <<detectorVars, revertVars, sends, phone, ops, history>>
    BY <1>2, <2>2
  <2> QED
    BY <1>5, <2>1, <2>2 DEF PollFailed, PollTimeout, Fail
<1>6. CASE Close
  <2>1. \A o \in ops : SameStage(o, [o EXCEPT !.live = FALSE])
    BY <1>0 DEF SameStage, Op
  <2>2. ops' = {[o EXCEPT !.live = FALSE] : o \in ops}
    BY <1>6 DEF Close
  <2>3. Reading(ops)' = Reading(ops)
    BY <2>1, <2>2, StagesKept
  <2>4. \A op \in ops' : \E o \in ops : op.act = o.act
    BY <2>1, <2>2 DEF SameStage
  <2> QED
    BY <1>1, <1>6, <2>3, <2>4 DEF Close, DetectorReset
\* The token of an accepted tap leaves the offers, so none of the others is it.
<1>7. ASSUME NEW id \in OpId, NEW p \in pending, Tap(id, p)
      PROVE  ExplainInv'
  <2>1. /\ pending' \in SUBSET pending /\ UNCHANGED <<issued, explained, revertWrites>>
    BY <1>7 DEF Tap, Consumed
  <2>2. CASE UNCHANGED ops
    BY <1>2, <2>1, <2>2
  <2>3. CASE ops' = ops \cup {[id |-> id, pc |-> "fetching", act |-> p, superseded |-> FALSE,
                               live |-> TRUE, ok |-> FALSE, fresh |-> Nothing]}
    <3> DEFINE new == [id |-> id, pc |-> "fetching", act |-> p, superseded |-> FALSE,
                       live |-> TRUE, ok |-> FALSE, fresh |-> Nothing]
    <3>1. new.act = p
      OBVIOUS
    <3>2. ops' = ops \cup {new}
      BY <2>3
    <3> HIDE DEF new
    <3>3. Reading(ops)' \in SUBSET (Reading(ops) \cup {p.token})
      BY <3>1, <3>2 DEF Reading
    <3>4. \A op \in ops' : op.act.old # op.act.new
      BY <3>1, <3>2 DEF ExplainInv
    <3> QED
      BY <1>0, <2>1, <3>3, <3>4 DEF ExplainInv, RevertExplainsOneChange
  <2> QED
    BY <1>7, <2>2, <2>3 DEF Tap
\* The tap that begins to write is the first to be expected under its token.
<1>8. ASSUME NEW op \in ops, FetchReturn(op)
      PROVE  ExplainInv'
  <2>1. op.pc = "fetched" /\ UNCHANGED <<issued, pending, explained>>
    BY <1>8 DEF FetchReturn
  <2>2. CASE UNCHANGED revertWrites /\ ops' = ops \ {op}
    BY <1>2, <2>1, <2>2
  <2>3. CASE /\ revertWrites' = BeginRevert(op.act.token, op.act)
             /\ ops' = (ops \ {op}) \cup {[op EXCEPT !.pc = "setting", !.fresh = Nothing]}
    <3> DEFINE new == [op EXCEPT !.pc = "setting", !.fresh = Nothing]
               t == op.act.token
    <3>1. new.pc = "setting" /\ new.act = op.act
      BY <1>0 DEF Op
    <3>2. ops' = (ops \ {op}) \cup {new}
      BY <2>3
    <3>3. \A o \in ops : o.act.token = t => o = op
      BY <1>0 DEF TokenInv, TokenUsedOnce
    <3> HIDE DEF new
    <3>4. Reading(ops)' = Reading(ops) \ {t} /\ t \in Reading(ops)
      BY <2>1, <3>1, <3>2, <3>3 DEF Reading
    <3>5. /\ t <= issued /\ \A p \in pending : p.token # t
          /\ t \notin explained /\ \A w \in revertWrites : w.token # t
      BY <1>0, <3>4 DEF TokenInv, TokenUsedOnce, ExplainInv
    <3>6. \A w \in revertWrites' :
             w \in revertWrites \/ (w.token = t /\ w.before = op.act.new /\ w.target = op.act.old)
      BY <2>3 DEF BeginRevert
    <3>7. \A w, x \in revertWrites' : w.token = x.token => w = x
      <4>1. \E e : revertWrites' \in SUBSET (revertWrites \cup {e}) /\ e.token = t
        <5> DEFINE e == [token |-> t, index |-> op.act.index, name |-> op.act.name,
                         before |-> op.act.new, target |-> op.act.old, active |-> TRUE]
        <5>1. revertWrites' \in SUBSET (revertWrites \cup {e}) /\ e.token = t
          BY <2>3 DEF BeginRevert
        <5> QED
          BY <5>1
      <4> QED
        BY <3>5, <4>1 DEF ExplainInv
    <3>8. \A o \in ops' : o.act.old # o.act.new
      BY <3>1, <3>2 DEF ExplainInv
    <3> HIDE DEF t
    <3> QED
      BY <1>0, <2>1, <3>4, <3>5, <3>6, <3>7, <3>8 DEF ExplainInv, RevertExplainsOneChange, t
  <2> QED
    BY <1>8, <2>2, <2>3 DEF FetchReturn
\* An expectation taken out of force keeps its token.
<1>9. ASSUME NEW op \in ops, SetReturn(op)
      PROVE  ExplainInv'
  <2> DEFINE After(w) == IF w.token = op.act.token THEN [w EXCEPT !.active = FALSE] ELSE w
  <2>1. UNCHANGED <<issued, pending, explained>> /\ ops' = ops \ {op}
    BY <1>9 DEF SetReturn
  <2>2. /\ revertWrites' = {After(w) : w \in revertWrites}
        /\ \A w \in revertWrites : /\ After(w).token = w.token
                                   /\ After(w).before = w.before /\ After(w).target = w.target
    BY <1>0, <1>9 DEF SetReturn, FinishRevert, RevertWrite
  <2> HIDE DEF After
  <2>3. Reading(ops)' \in SUBSET Reading(ops)
    BY <2>1 DEF Reading
  <2>4. \A w, x \in revertWrites' : w.token = x.token => w = x
    BY <2>2 DEF ExplainInv
  <2>5. \A w \in revertWrites' : \E x \in revertWrites :
           w.token = x.token /\ w.before = x.before /\ w.target = x.target
    BY <2>2
  <2>6. {w.token : w \in revertWrites'} \in SUBSET {w.token : w \in revertWrites}
    BY <2>5
  <2>7. \A t \in {w.token : w \in revertWrites'} \cup explained' :
           t \notin Reading(ops)' /\ \A p \in pending' : p.token # t
    BY <2>1, <2>3, <2>6 DEF ExplainInv
  <2>8. \A w \in revertWrites' :
           w.before # w.target /\ w.token <= issued /\ w.token \notin explained
    BY <2>5 DEF ExplainInv, RevertExplainsOneChange
  <2> QED
    BY <1>0, <2>1, <2>4, <2>7, <2>8 DEF ExplainInv, RevertExplainsOneChange
<1>10. ASSUME NEW q \in {wire} \cup oldWires, Answer(q) \/ TimedOut(q)
       PROVE  ExplainInv'
  <2>1. UNCHANGED <<pending, issued, explained, revertWrites>>
    BY <1>10 DEF Answer, TimedOut
  <2>2. CASE UNCHANGED ops
    BY <1>2, <2>1, <2>2
  <2>3. ASSUME NEW ok, NEW answer, Deliver(Head(q), ok, answer)
        PROVE  ExplainInv'
    <3>1. Reading(ops)' \in SUBSET Reading(ops) /\ \A op \in ops' : \E o \in ops : op.act = o.act
      BY <1>0, <2>3, DeliverTaps DEF Reading
    <3> QED
      BY <1>1, <2>1, <3>1
  <2> QED
    BY <1>10, <2>2, <2>3 DEF Answer, TimedOut
<1> QED
  BY <1>3, <1>4, <1>5, <1>6, <1>7, <1>8, <1>9, <1>10 DEF Next

\* An authorised Revert accounts for one observed change: once a change was
\* attributed to it, nothing is expected under its token any more.
THEOREM RevertsExplainOnce == Spec => []RevertExplainsOneChange
<1>1. Init => ExplainInv
  BY TypeInit
  DEF Init, ExplainInv, TokenInv, TokenUsedOnce, OneActionPerSetting, Reading,
      RevertExplainsOneChange
<1>2. ExplainInv /\ [Next]_vars => ExplainInv'
  BY ExplainStep
<1>3. ExplainInv => RevertExplainsOneChange
  BY DEF ExplainInv
<1> QED
  BY <1>1, <1>2, <1>3, PTL DEF Spec
=============================================================================
