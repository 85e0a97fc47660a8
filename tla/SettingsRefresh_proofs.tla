---------------------- MODULE SettingsRefresh_proofs ----------------------
(***************************************************************************)
(* No early refresh is lost, and the reports of the change detector form   *)
(* a chain, whatever the bounds and however polls, requests, executor jobs *)
(* and reloads interleave.                                                 *)
(***************************************************************************)
EXTENDS SettingsRefresh, FiniteSetTheorems, TLAPS

-----------------------------------------------------------------------------
(* The inductive invariant. *)

\* Every change reported since the first setup, logged or not.
Rows == log \cup jobs \cup lost

\* Versions only grow: nobody remembers one that the controller has not had, and
\* no poll reads one older than the baseline.  Nothing is read while no refresh
\* runs, and none runs while the debouncer cools down.
Ordered ==
    /\ last <= counter /\ fast.counter <= counter /\ counter <= controller["edit"]
    /\ \A k \in Kind : known[k] <= controller[k]
    /\ \A k \in Kind : slow.reply[k] # None =>
                          known[k] <= slow.reply[k] /\ slow.reply[k] <= controller[k]
    /\ timer # "off" => slow.by = "nobody"
    /\ slow.by = "nobody" => slow.answered = {}
    /\ slow.lacks \subseteq slow.answered
    /\ \A k \in Kind : k \in slow.lacks \/ k \notin slow.answered => slow.reply[k] = None

\* A report leads from one version to a later one that the baseline has reached.
Older(k) ==
    \A row \in Rows : row.kind = k =>
        /\ row.old < row.new /\ row.new <= controller[k]
        /\ known[k] # None => row.new <= known[k]
        /\ slow.reply[k] # None => row.new <= slow.reply[k]

Linked(k) ==
    /\ \A r, s \in Reported(k) : r.old = s.old => r = s
    /\ {row.old : row \in Reported(k)} \cup {known[k]} =
          {row.new : row \in Reported(k)} \cup {since[k]}

\* No report is of a gap that is still to come, and none of one that still lasts.
Gapped(k) ==
    /\ k \in lacking => known[k] = None
    /\ \A row \in Rows : row.kind = k =>
          row.gap <= gaps[k] /\ (k \in lacking => row.gap < gaps[k])

Chained(k) ==
    /\ since[k] <= known[k]
    /\ Older(k)
    /\ Gapped(k)
    /\ known[k] # None => Linked(k)

Typed == TypeOK /\ IsFiniteSet(Rows)

IInv == Typed /\ Ordered /\ EarlyRefreshKept /\ \A k \in Kind : Chained(k)

-----------------------------------------------------------------------------
(* Types. *)

Refreshing == [by : {"nobody", "interval", "request"}, answered : SUBSET Kind,
               reply : [Kind -> Nat], lacks : SUBSET Kind]

LEMMA RefreshType ==
  ASSUME NEW by \in {"nobody", "interval", "request"}
  PROVE  /\ Refresh(by) \in Refreshing /\ Refresh(by).by = by /\ Refresh(by).answered = {}
         /\ Refresh(by).lacks = {}
         /\ \A k \in Kind : Refresh(by).reply[k] = None
  BY DEF Refresh, Refreshing, None

LEMMA BasicTypes ==
  /\ "edit" \in Kind /\ "sys" \in Kind /\ None \in Nat
  /\ IdleFast \in [busy : BOOLEAN, counter : Nat] /\ IdleFast.counter = None
  /\ IdleSlow \in Refreshing /\ IdleSlow.by = "nobody" /\ IdleSlow.answered = {}
  /\ IdleSlow.lacks = {}
  /\ \A k \in Kind : IdleSlow.reply[k] = None
  BY RefreshType DEF Kind, None, IdleFast, IdleSlow

LEMMA RepliesType ==
  ASSUME TypeOK
  PROVE  \A k \in Kind : controller[k] \in Nat /\ Replies(k) \subseteq Nat
  BY BasicTypes DEF TypeOK, Replies

LEMMA CountersType ==
  ASSUME TypeOK
  PROVE  Counters \subseteq Nat
  BY BasicTypes DEF TypeOK, Counters

LEMMA GapsType ==
  ASSUME TypeOK, NEW lack \in SUBSET Kind
  PROVE  /\ Gaps(lack) \in [Kind -> Nat]
         /\ \A k \in Kind : Gaps(lack)[k] = IF k \in lack \ lacking THEN gaps[k] + 1 ELSE gaps[k]
  BY DEF TypeOK, Gaps

LEMMA DetectedType ==
  ASSUME TypeOK
  PROVE  /\ Detected \in SUBSET Row
         /\ IsFiniteSet(Detected)
         /\ \A row \in Detected : /\ row.kind \in Moved /\ Comparable(row.kind)
                                  /\ row = Change(row.kind)
         /\ \A k \in Moved : Comparable(k) => Change(k) \in Detected
<1> DEFINE S == {j \in Moved : Comparable(j)}
           f == [k \in S |-> Change(k)]
<1>1. \A k \in Kind : known[k] \in Nat /\ slow.reply[k] \in Nat /\ gaps[k] \in Nat
  BY DEF TypeOK
<1>2. IsFiniteSet(Kind)
  <2>1. IsFiniteSet({"edit"}) /\ IsFiniteSet({"sys"}) /\ Kind = {"edit"} \cup {"sys"}
    BY FS_Singleton DEF Kind
  <2> QED
    BY <2>1, FS_Union
<1>3. S \subseteq Kind /\ IsFiniteSet(S)
  BY <1>2, FS_Subset DEF Moved
<1>4. f \in Surjection(S, Detected)
  BY DEF Detected, Surjection
<1>5. IsFiniteSet(Detected)
  BY <1>3, <1>4, FS_Surjection
<1>6. \A k \in S : Change(k) \in Row /\ Change(k).kind = k
  BY <1>1, <1>3 DEF Moved, Comparable, Change, Row
<1> QED
  BY <1>5, <1>6 DEF Detected

LEMMA CountType ==
  ASSUME NEW S, IsFiniteSet(S), NEW n \in RecentChangeCount(S)
  PROVE  n \in Nat
  BY FS_CardinalityType DEF RecentChangeCount

LEMMA LogFinite ==
  ASSUME Typed
  PROVE  IsFiniteSet(log) /\ IsFiniteSet(jobs)
  BY FS_Subset DEF Typed, Rows

LEMMA SetUpType ==
  ASSUME TypeOK, SetUp, jobs' \in SUBSET Row, lost' \in SUBSET Row
  PROVE  TypeOK'
<1>1. known' \in [Kind -> Nat]
  BY BasicTypes, RepliesType DEF SetUp
<1>2. last' \in Nat
  BY CountersType DEF SetUp
<1>3. lacking' \in SUBSET Kind /\ gaps' \in [Kind -> Nat]
  <2>1. lacking' \in SUBSET Kind /\ gaps' = Gaps(lacking')
    BY DEF SetUp
  <2> QED
    BY <2>1, GapsType
<1> QED
  BY <1>1, <1>2, <1>3, BasicTypes DEF SetUp, TypeOK, Refreshing

LEMMA SlowReturnType ==
  ASSUME Typed, SlowReturn
  PROVE  Typed' /\ Rows' = Rows \cup Detected
<1>1. known' \in [Kind -> Nat] /\ since' \in [Kind -> Nat]
  <2>1. \A k \in Kind : Baseline(k) \in Nat
    BY DEF Typed, TypeOK, Baseline
  <2>2. \A k \in Kind : Since(k) \in Nat
    BY <2>1, BasicTypes DEF Typed, TypeOK, Since
  <2> QED
    BY <2>1, <2>2 DEF SlowReturn, Rebase
<1>2. lacking' \in SUBSET Kind /\ gaps' \in [Kind -> Nat]
  <2>1. Lacking \in SUBSET Kind
    BY DEF Lacking
  <2> QED
    BY <2>1, GapsType DEF SlowReturn, Rebase, Typed
<1>3. PICK run \in SUBSET Detected : /\ log' = log \cup run
                                     /\ jobs' = jobs \cup (Detected \ run)
                                     /\ Recount
  BY DEF SlowReturn
<1>4. log' \in SUBSET Row /\ jobs' \in SUBSET Row
  BY <1>3, DetectedType DEF Typed, TypeOK
<1>5. Rows' = Rows \cup Detected
  BY <1>3 DEF SlowReturn, Rows
<1>6. IsFiniteSet(Rows')
  BY <1>5, DetectedType, FS_Union DEF Typed
<1>7. recent' \in Nat
  <2>1. IsFiniteSet(log')
    BY <1>6, FS_Subset DEF Rows
  <2> QED
    BY <1>3, <2>1, CountType DEF Recount
<1> QED
  BY <1>1, <1>4, <1>5, <1>6, <1>7, <1>2, BasicTypes
     DEF SlowReturn, Cooling, Typed, TypeOK, Refreshing

-----------------------------------------------------------------------------
(* Actions that report nothing. *)

\* The chain is undisturbed while the same versions are known and reported.
LEMMA ChainStays ==
  ASSUME IInv, UNCHANGED <<known, lacking, gaps, since>>, Rows' = Rows, TypeOK',
         \A k \in Kind : controller[k] <= controller'[k],
         \A k \in Kind : slow'.reply[k] \in {None, slow.reply[k], controller[k]}
  PROVE  \A k \in Kind : Chained(k)'
<1> SUFFICES ASSUME NEW k \in Kind PROVE Chained(k)'
  OBVIOUS
<1>1. Reported(k)' = Reported(k)
  BY DEF Reported, Rows
<1>2. Older(k)'
  BY DEF IInv, Typed, TypeOK, Row, Chained, Older, Rows
<1>3. (Linked(k)' <=> Linked(k)) /\ (Gapped(k)' <=> Gapped(k))
  BY <1>1 DEF Linked, Gapped
<1> QED
  BY <1>2, <1>3 DEF IInv, Chained

\* Gaps that a set-up or a poll adds come after all that has been reported.
LEMMA RowsBeforeGaps ==
  ASSUME IInv, NEW lack \in SUBSET Kind, NEW k \in Kind, NEW row \in Rows, row.kind = k
  PROVE  row.gap <= Gaps(lack)[k] /\ (k \in lack => row.gap < Gaps(lack)[k])
<1>1. row.gap \in Nat /\ gaps[k] \in Nat
  BY DEF IInv, Typed, TypeOK, Rows, Row
<1>2. row.gap <= gaps[k] /\ (k \in lacking => row.gap < gaps[k])
  BY DEF IInv, Chained, Gapped
<1>3. Gaps(lack)[k] = IF k \in lack \ lacking THEN gaps[k] + 1 ELSE gaps[k]
  BY GapsType DEF IInv, Typed
<1> QED
  BY <1>1, <1>2, <1>3

\* What is not in the baseline is excused.
LEMMA ExcusedKept ==
  ASSUME known'["edit"] \in Nat, last' \in Nat, known'["edit"] < last' => excused'
  PROVE  EarlyRefreshKept'
<1>1. CASE known'["edit"] < last'
  BY <1>1 DEF EarlyRefreshKept
<1>2. CASE known'["edit"] >= last'
  BY <1>2 DEF EarlyRefreshKept
<1> QED
  BY <1>1, <1>2

\* A set-up begins a new chain, from what the controller has now.
LEMMA SetUpChains ==
  ASSUME IInv, SetUp, Rows' = Rows, TypeOK'
  PROVE  Ordered' /\ EarlyRefreshKept' /\ \A k \in Kind : Chained(k)'
<1>1. \A k \in Kind : known'[k] \in {controller[k], None} /\ since'[k] = known'[k]
  BY DEF SetUp, Replies
<1>2. controller' = controller /\ \A k \in Kind : controller[k] \in Nat
  BY DEF SetUp, IInv, Typed, TypeOK
<1>3. last' <= counter /\ counter' = counter /\ counter \in Nat
  BY BasicTypes DEF SetUp, Counters, None, IInv, Typed, TypeOK
<1>4. Ordered'
  BY <1>1, <1>2, <1>3, BasicTypes DEF SetUp, Ordered, None, IInv
<1>5. EarlyRefreshKept'
  BY BasicTypes, ExcusedKept DEF SetUp, TypeOK
<1>6. ASSUME NEW k \in Kind PROVE Chained(k)'
  <2>1. Older(k)'
    BY <1>1, <1>2, BasicTypes DEF SetUp, IInv, Chained, Older, Rows
  <2>2. known'[k] # None => Reported(k)' = {}
    BY <1>1, <1>2, <2>1 DEF Older, Reported, Rows, TypeOK, Row
  <2>3. known'[k] # None => Linked(k)'
    BY <1>1, <2>2 DEF Linked
  <2>4. Gapped(k)'
    <3>1. /\ lacking' \in SUBSET Kind /\ gaps' = Gaps(lacking')
          /\ k \in lacking' => known'[k] = None
      BY DEF SetUp
    <3> QED
      BY <3>1, RowsBeforeGaps DEF Gapped
  <2> QED
    BY <1>1, <2>1, <2>3, <2>4 DEF Chained, TypeOK
<1> QED
  BY <1>4, <1>5, <1>6

-----------------------------------------------------------------------------
(* The settings poll. *)

LEMMA SlowReturnChains ==
  ASSUME IInv, SlowReturn
  PROVE  Ordered' /\ EarlyRefreshKept' /\ \A k \in Kind : Chained(k)'
<1>1. Typed' /\ Rows' = Rows \cup Detected
  BY SlowReturnType DEF IInv
<1>2. \A k \in Kind : /\ known[k] \in Nat /\ slow.reply[k] \in Nat /\ controller[k] \in Nat
                      /\ since[k] \in Nat
                      /\ known'[k] = Baseline(k)
                      /\ gaps[k] \in Nat
                      /\ since'[k] = Since(k)
                      /\ controller'[k] = controller[k]
                      /\ slow'.reply[k] = None
  BY BasicTypes DEF SlowReturn, Rebase, IInv, Typed, TypeOK
<1>3. \A k \in Kind : known'[k] <= controller[k] /\ (k \notin slow.lacks => known[k] <= known'[k])
  BY <1>2 DEF Baseline, IInv, Ordered, None
<1>4. Ordered'
  BY <1>2, <1>3, BasicTypes DEF SlowReturn, IInv, Ordered
<1>5. EarlyRefreshKept'
  <2>1. timer # "again"
    BY DEF SlowReturn, IInv, Ordered, Kind
  <2>2. /\ last \in Nat /\ last' = last
        /\ excused' = (known'["edit"] < last /\ (excused \/ slow.reply["edit"] = None))
    BY DEF SlowReturn, IInv, Typed, TypeOK
  <2>3. known["edit"] >= last \/ excused \/ slow.reply["edit"] = None \/ slow.reply["edit"] >= last
    BY <2>1 DEF IInv, EarlyRefreshKept
  <2>4. CASE slow.reply["edit"] # None /\ (known["edit"] >= last \/ slow.reply["edit"] >= last)
    <3>1. known'["edit"] >= last
      BY <1>2, <2>2, <2>4, BasicTypes DEF Baseline, IInv, Ordered
    <3> QED
      BY <2>2, <3>1 DEF EarlyRefreshKept
  <2>5. CASE excused \/ slow.reply["edit"] = None
    <3>1. known'["edit"] < last => excused'
      BY <2>2, <2>5
    <3>2. known'["edit"] \in Nat
      BY <1>1, BasicTypes DEF Typed, TypeOK
    <3> QED
      BY <2>2, <3>1, <3>2, ExcusedKept
  <2> QED
    BY <2>3, <2>4, <2>5
<1>6. ASSUME NEW k \in Kind PROVE Chained(k)'
  <2> DEFINE D == {row \in Detected : row.kind = k}
  <2>1. Gapped(k)' /\ (k \notin Lacking => gaps'[k] = gaps[k])
    <3>1. Lacking \in SUBSET Kind /\ lacking' = Lacking /\ gaps' = Gaps(Lacking)
      BY DEF SlowReturn, Rebase, Lacking
    <3>2. \A row \in Rows : row.kind = k =>
             row.gap <= gaps'[k] /\ (k \in lacking' => row.gap < gaps'[k])
      BY <3>1, RowsBeforeGaps
    <3>3. k \notin Lacking => gaps'[k] = gaps[k]
      BY <3>1, GapsType DEF IInv, Typed
    <3>4. k \in Lacking => known'[k] = None /\ slow.reply[k] = None
      BY <1>2 DEF Lacking, Baseline, IInv, Ordered, Chained, Gapped
    <3>5. \A row \in Detected : row.kind = k => k \notin Lacking /\ row.gap = gaps[k]
      BY <3>4, DetectedType DEF IInv, Typed, Moved, Change
    <3> QED
      BY <1>1, <1>2, <3>1, <3>2, <3>3, <3>4, <3>5 DEF Gapped
  <2>2. \A row \in Rows : /\ row.old \in Nat /\ row.new \in Nat
                          /\ row.kind = k =>
                                /\ row.old < row.new /\ row.new <= controller[k]
                                /\ known[k] # None => row.new <= known[k]
                                /\ slow.reply[k] # None => row.new <= slow.reply[k]
    BY DEF IInv, Typed, TypeOK, Rows, Row, Chained, Older
  <2>3. \A row \in D : /\ row.old = known[k] /\ row.new = slow.reply[k] /\ row.gap = gaps[k]
                       /\ row.old < row.new /\ slow.reply[k] # None
    BY <1>2, DetectedType DEF IInv, Typed, Ordered, Moved, Change
  <2>4. slow.reply[k] # None => k \notin slow.lacks /\ k \notin Lacking /\ known'[k] = slow.reply[k]
    BY <1>2 DEF Baseline, Lacking, IInv, Ordered
  <2>5. \A row \in Rows' : row.kind = k => row \in Rows \/ row \in D
    BY <1>1
  <2>6. Older(k)'
    <3>1. \A row \in Rows : row.kind = k /\ known'[k] # None => row.new <= known'[k]
      BY <1>2, <2>2 DEF Baseline
    <3>2. \A row \in D : row.new <= controller[k] /\ row.new <= known'[k]
      BY <1>2, <2>3, <2>4 DEF IInv, Ordered
    <3> HIDE DEF D
    <3> QED
      BY <1>2, <2>2, <2>3, <2>5, <3>1, <3>2 DEF Older
  <2>7. CASE slow.reply[k] = None
    <3>1. D = {}
      BY <2>3, <2>7
    <3>2. CASE k \in slow.lacks
      BY <1>2, <2>1, <2>6, <2>7, <3>2 DEF Chained, Baseline, Since, None
    <3>3. CASE k \notin slow.lacks
      <4>1. known'[k] = known[k] /\ since'[k] = since[k]
        BY <1>2, <2>7, <3>3, BasicTypes DEF Baseline, Since, Comparable, IInv, Chained, None
      <4>2. known[k] # None => k \notin Lacking
        BY <3>3 DEF Lacking, IInv, Chained, Gapped
      <4>3. known[k] # None => Reported(k)' = Reported(k)
        <5> HIDE DEF D
        <5> QED
          BY <1>1, <2>1, <2>5, <3>1, <4>1, <4>2 DEF Reported, Rows
      <4> QED
        BY <2>1, <2>6, <4>1, <4>3 DEF IInv, Chained, Linked
    <3> QED
      BY <3>2, <3>3
  <2>8. CASE slow.reply[k] # None
    <3>1. known'[k] = slow.reply[k] /\ gaps'[k] = gaps[k] /\ k \notin slow.lacks
      BY <2>1, <2>4, <2>8
    <3>2. CASE ~Comparable(k)
      <4>1. known[k] = None /\ since[k] = None /\ D = {}
        BY <1>2, <3>2, DetectedType DEF IInv, Typed, Chained, Comparable, None
      <4>2. since'[k] = known'[k]
        BY <1>2, <3>1, <3>2, <4>1 DEF Since
      <4>3. Reported(k)' = {}
        <5>1. \A row \in Rows' : row.kind = k => row \in Rows
          BY <2>5, <4>1
        <5>2. \A row \in Rows' : row.kind = k => ~(row.old >= since'[k])
          BY <1>2, <2>2, <2>8, <3>1, <4>2, <5>1
        <5> QED
          BY <5>2 DEF Reported, Rows
      <4> QED
        BY <1>2, <2>1, <2>6, <3>1, <4>2, <4>3 DEF Chained, Linked
    <3>3. CASE Comparable(k)
      <4>1. since'[k] = since[k] /\ since[k] <= known[k] /\ known[k] <= known'[k]
        BY <1>2, <1>3, <3>1, <3>3 DEF Since, IInv, Chained
      <4>2. known[k] = None => Reported(k) = {}
        <5> SUFFICES ASSUME known[k] = None PROVE Reported(k) = {}
          OBVIOUS
        <5>1. k \in lacking
          BY <3>3 DEF Comparable
        <5>2. \A row \in Rows : row.kind = k => row.gap < gaps[k] /\ row.gap \in Nat
          BY <5>1 DEF IInv, Typed, TypeOK, Row, Rows, Chained, Gapped
        <5> QED
          BY <1>2, <5>2 DEF Reported, Rows
      <4>3. Linked(k)
        <5>1. CASE known[k] = None
          <6>1. since[k] = None
            BY <1>2, <4>1, <5>1 DEF None
          <6> QED
            BY <4>2, <5>1, <6>1 DEF Linked
        <5>2. CASE known[k] # None
          BY <5>2 DEF IInv, Chained
        <5> QED
          BY <5>1, <5>2
      <4>4. Reported(k)' = Reported(k) \cup D
        <5>1. Reported(k)' = {row \in Rows' : row.kind = k /\ row.gap = gaps'[k] /\ row.old >= since'[k]}
          BY DEF Reported, Rows
        <5>2. Reported(k) = {row \in Rows : row.kind = k /\ row.gap = gaps[k] /\ row.old >= since[k]}
          BY DEF Reported, Rows
        <5>3. \A row \in D : row \in Rows' /\ row.kind = k /\ row.gap = gaps[k] /\ row.old >= since[k]
          BY <1>1, <1>2, <2>3, <4>1
        <5> HIDE DEF D
        <5> QED
          BY <1>1, <2>5, <3>1, <4>1, <5>1, <5>2, <5>3
      <4>5. since'[k] <= known'[k]
        BY <1>1, <1>2, <4>1 DEF Typed, TypeOK
      <4>6. CASE known'[k] = known[k]
        <5>1. D = {}
          BY <2>3, <3>1, <4>6, <1>2
        <5> QED
          BY <2>1, <2>6, <4>1, <4>3, <4>4, <4>5, <4>6, <5>1 DEF Chained, Linked
      <4>7. CASE known'[k] # known[k]
        <5>1. Change(k) \in D /\ D = {Change(k)}
          BY <2>8, <3>1, <3>3, <4>7, DetectedType DEF IInv, Typed, Moved, Change
        <5>2. Change(k).old = known[k] /\ Change(k).new = known'[k]
          BY <3>1 DEF Change
        <5>3. \A row \in Reported(k) : row.old # known[k]
          <6>1. \A row \in Reported(k) : row \in Rows /\ row.kind = k
            BY DEF Reported, Rows
          <6> QED
            BY <1>2, <2>2, <4>2, <6>1
        <5> HIDE DEF D
        <5>4. \A r, s \in Reported(k)' : r.old = s.old => r = s
          BY <4>3, <4>4, <5>1, <5>2, <5>3 DEF Linked
        <5>5. {row.old : row \in Reported(k)'} = {row.old : row \in Reported(k)} \cup {known[k]}
          BY <4>4, <5>1, <5>2
        <5>6. {row.new : row \in Reported(k)'} = {row.new : row \in Reported(k)} \cup {known'[k]}
          BY <4>4, <5>1, <5>2
        <5>7. Linked(k)'
          BY <4>1, <4>3, <5>4, <5>5, <5>6 DEF Linked
        <5> QED
          BY <2>1, <2>6, <4>5, <5>7 DEF Chained
      <4> QED
        BY <4>6, <4>7
    <3> QED
      BY <3>2, <3>3
  <2> QED
    BY <2>7, <2>8
<1> QED
  BY <1>4, <1>5, <1>6

-----------------------------------------------------------------------------
(* Init and the other steps. *)

LEMMA InitInvariant ==
  ASSUME Init
  PROVE  IInv
<1>1. Rows = {} /\ IsFiniteSet(Rows)
  BY FS_EmptySet DEF Init, Rows
<1>2. \A k \in Kind : /\ known[k] \in {None, 1} /\ since[k] = known[k]
                      /\ controller[k] = 1 /\ slow.reply[k] = None
  BY BasicTypes DEF Init
<1>3. last \in {1, None} /\ counter = 1
  BY DEF Init, Counters
<1>4. TypeOK
  BY <1>3, BasicTypes DEF Init, TypeOK, Refreshing, None
<1>5. Ordered
  BY <1>2, <1>3, BasicTypes DEF Init, Ordered, None
<1>6. EarlyRefreshKept
  <2>1. excused = (known["edit"] < last) /\ known["edit"] \in Nat /\ last \in Nat
    BY <1>2, <1>3, BasicTypes DEF Init, None
  <2>2. CASE known["edit"] < last
    BY <2>1, <2>2 DEF EarlyRefreshKept
  <2>3. CASE known["edit"] >= last
    BY <2>3 DEF EarlyRefreshKept
  <2> QED
    BY <2>1, <2>2, <2>3
<1>7. ASSUME NEW k \in Kind PROVE Chained(k)
  <2>1. Reported(k) = {}
    BY <1>1 DEF Reported, Rows
  <2>2. lacking = {}
    BY DEF Init
  <2> QED
    BY <1>1, <1>2, <2>1, <2>2 DEF Chained, Older, Gapped, Linked, None
<1> QED
  BY <1>1, <1>4, <1>5, <1>6, <1>7 DEF IInv, Typed

LEMMA StepKeepsInvariant ==
  ASSUME IInv, [Next]_vars
  PROVE  IInv'
<1> USE DEF IInv, Typed
<1>0. /\ \A k \in Kind : known[k] \in Nat /\ slow.reply[k] \in Nat /\ controller[k] \in Nat
      /\ counter \in Nat /\ last \in Nat /\ fast.counter \in Nat
  BY DEF TypeOK
<1>1. ASSUME NEW k \in Kind, ControllerChange(k) PROVE IInv'
  <2>1. TypeOK'
    BY <1>0, <1>1 DEF ControllerChange, TypeOK, pollVars, logVars, baselineVars, None
  <2>2. \A j \in Kind : controller[j] <= controller'[j]
    BY <1>0, <1>1 DEF ControllerChange, TypeOK
  <2>3. Ordered'
    BY <1>0, <1>1, <2>1, <2>2, BasicTypes
       DEF ControllerChange, TypeOK, Ordered, pollVars, logVars, baselineVars
  <2>4. EarlyRefreshKept'
    BY <1>1 DEF ControllerChange, EarlyRefreshKept, pollVars, logVars, baselineVars
  <2>5. Rows' = Rows /\ UNCHANGED <<known, lacking, gaps, since, slow>>
    BY <1>1 DEF ControllerChange, Rows, pollVars, logVars, baselineVars
  <2> QED
    BY <2>1, <2>2, <2>3, <2>4, <2>5, ChainStays
<1>2. ASSUME NEW k \in Kind, SlowRead(k) PROVE IInv'
  <2>1. k \notin slow.answered /\ slow.reply[k] = None
    BY <1>2 DEF SlowRead, Ordered
  <2>2. \E v \in Replies(k), lacks \in {slow.lacks, slow.lacks \cup {k}} :
           /\ slow' = [slow EXCEPT !.answered = @ \cup {k}, !.reply[k] = v, !.lacks = lacks]
           /\ k \in lacks => v = None
    <3>1. CASE \E v \in Replies(k) : slow' = [slow EXCEPT !.answered = @ \cup {k}, !.reply[k] = v]
      <4>1. PICK v \in Replies(k) : slow' = [slow EXCEPT !.answered = @ \cup {k}, !.reply[k] = v]
        BY <3>1
      <4>2. slow' = [slow EXCEPT !.answered = @ \cup {k}, !.reply[k] = v, !.lacks = slow.lacks]
        BY <4>1 DEF TypeOK
      <4>3. k \notin slow.lacks
        BY <2>1 DEF Ordered
      <4> QED
        BY <4>2, <4>3
    <3>2. CASE slow' = [slow EXCEPT !.answered = @ \cup {k}, !.lacks = @ \cup {k}]
      <4>1. slow' = [slow EXCEPT !.answered = @ \cup {k}, !.reply[k] = None,
                                 !.lacks = slow.lacks \cup {k}]
        BY <2>1, <3>2 DEF TypeOK
      <4> QED
        BY <4>1 DEF Replies
    <3> QED
      BY <1>2, <3>1, <3>2 DEF SlowRead
  <2>3. PICK v \in Replies(k), lacks \in {slow.lacks, slow.lacks \cup {k}} :
           /\ slow' = [slow EXCEPT !.answered = @ \cup {k}, !.reply[k] = v, !.lacks = lacks]
           /\ k \in lacks => v = None
    BY <2>2
  <2>4. slow'.by = slow.by /\ slow'.answered = slow.answered \cup {k} /\ slow'.lacks = lacks
        /\ \A j \in Kind : slow'.reply[j] = IF j = k THEN v ELSE slow.reply[j]
    BY <2>3 DEF TypeOK
  <2>5. UNCHANGED <<controller, counter, fast, last, timer, known, lacking, gaps, since, excused>> /\ Rows' = Rows
    BY <1>2 DEF SlowRead, Rows, logVars, baselineVars
  <2>6. TypeOK'
    <3>1. v \in Nat /\ lacks \in SUBSET Kind
      BY <2>3, RepliesType DEF TypeOK
    <3>2. slow' \in Refreshing
      BY <2>3, <3>1 DEF TypeOK, Refreshing
    <3> QED
      BY <1>2, <3>2 DEF SlowRead, TypeOK, Refreshing, logVars, baselineVars
  <2>7. v \in {controller[k], None}
    BY DEF Replies
  <2>8. Ordered'
    <3>1. slow'.lacks \subseteq slow'.answered
      BY <2>4 DEF Ordered
    <3>2. \A j \in Kind : j \in slow'.lacks \/ j \notin slow'.answered => slow'.reply[j] = None
      BY <2>4, <2>3 DEF Ordered
    <3>3. \A j \in Kind : slow'.reply[j] # None =>
                            known[j] <= slow'.reply[j] /\ slow'.reply[j] <= controller[j]
      <4> SUFFICES ASSUME NEW j \in Kind, slow'.reply[j] # None
                   PROVE  known[j] <= slow'.reply[j] /\ slow'.reply[j] <= controller[j]
        OBVIOUS
      <4>1. known[j] \in Nat /\ controller[j] \in Nat /\ known[j] <= controller[j]
        BY <1>0 DEF Ordered
      <4>2. slow'.reply[j] = controller[j] \/ slow'.reply[j] = slow.reply[j]
        BY <2>4, <2>7
      <4> QED
        BY <4>1, <4>2 DEF Ordered
    <3>4. slow'.by # "nobody" /\ timer' = "off"
      BY <1>2, <2>4, <2>5 DEF SlowRead, Ordered
    <3>5. UNCHANGED <<controller, counter, fast, last, known>>
      BY <2>5
    <3>6. /\ last <= counter /\ fast.counter <= counter /\ counter <= controller["edit"]
          /\ \A j \in Kind : known[j] <= controller[j]
      BY DEF Ordered
    <3> QED
      BY <3>1, <3>2, <3>3, <3>4, <3>5, <3>6 DEF Ordered
  <2>9. EarlyRefreshKept'
    <3>1. last <= controller["edit"] /\ last \in Nat
      BY <1>0, BasicTypes DEF Ordered
    <3>2. slow'.reply["edit"] \in {slow.reply["edit"], controller["edit"], None}
      BY <2>4, <2>7, BasicTypes
    <3>3. slow'.reply["edit"] # slow.reply["edit"] =>
             slow'.reply["edit"] = None \/ slow'.reply["edit"] >= last
      BY <1>0, <3>1, <3>2, BasicTypes
    <3>4. slow'.by # "nobody"
      BY <1>2, <2>4 DEF SlowRead
    <3> QED
      BY <2>5, <3>3, <3>4 DEF EarlyRefreshKept
  <2> QED
    BY <1>0, <2>4, <2>5, <2>6, <2>7, <2>8, <2>9, ChainStays
<1>3. CASE TimerEnd
  <2>1. UNCHANGED <<controller, counter, fast, last, known, lacking, gaps, since, excused>> /\ Rows' = Rows
    BY <1>3 DEF TimerEnd, Rows, logVars, baselineVars
  <2>2. slow.by = "nobody" /\ timer' = "off"
    BY <1>3 DEF TimerEnd, Ordered
  <2>3. \/ UNCHANGED slow /\ timer # "again"
        \/ slow' = Refresh("request")
    BY <1>3 DEF TimerEnd
  <2>4. TypeOK'
    BY <1>3, <2>3, RefreshType DEF TimerEnd, TypeOK, logVars, baselineVars, Refreshing
  <2>5. \A k \in Kind : slow'.reply[k] \in {slow.reply[k], None}
    BY <2>3, RefreshType
  <2>6. Ordered'
    BY <2>1, <2>2, <2>3, <2>5, RefreshType DEF Ordered
  <2>7. EarlyRefreshKept'
    <3>1. CASE UNCHANGED slow /\ timer # "again"
      BY <2>1, <3>1 DEF EarlyRefreshKept
    <3>2. CASE slow' = Refresh("request")
      BY <3>2, RefreshType, BasicTypes DEF EarlyRefreshKept
    <3> QED
      BY <2>3, <3>1, <3>2
  <2> QED
    BY <1>0, <2>1, <2>4, <2>5, <2>6, <2>7, ChainStays
<1>4. CASE IntervalStart
  <2>1. UNCHANGED <<controller, counter, fast, last, known, lacking, gaps, since, excused>> /\ Rows' = Rows
    BY <1>4 DEF IntervalStart, Rows, logVars, baselineVars
  <2>2. slow' = Refresh("interval") /\ timer' = "off"
    BY <1>4 DEF IntervalStart
  <2>3. TypeOK'
    BY <1>4, <2>2, RefreshType DEF IntervalStart, TypeOK, logVars, baselineVars, Refreshing
  <2>4. Ordered'
    BY <2>1, <2>2, RefreshType DEF Ordered
  <2>5. EarlyRefreshKept'
    BY <2>2, RefreshType, BasicTypes DEF EarlyRefreshKept
  <2> QED
    BY <1>0, <2>1, <2>2, <2>3, <2>4, <2>5, RefreshType, ChainStays
<1>5. CASE FastRead
  <2>1. UNCHANGED <<controller, counter, last, slow, timer, known, lacking, gaps, since, excused>> /\ Rows' = Rows
    BY <1>5 DEF FastRead, Rows, logVars, baselineVars
  <2>2. fast' = [busy |-> TRUE, counter |-> counter]
    BY <1>5 DEF FastRead
  <2>3. counter \in Nat /\ counter <= controller["edit"]
    BY <1>0 DEF Ordered
  <2>4. TypeOK'
    BY <1>5, <2>2, <2>3 DEF FastRead, TypeOK, logVars, baselineVars
  <2>5. Ordered'
    BY <2>1, <2>2, <2>3 DEF Ordered
  <2>6. EarlyRefreshKept'
    BY <2>1 DEF EarlyRefreshKept
  <2> QED
    BY <1>0, <2>1, <2>4, <2>5, <2>6, ChainStays
<1>6. CASE FastReturn
  <2>1. UNCHANGED <<controller, counter, known, lacking, gaps, since>> /\ Rows' = Rows /\ fast' = IdleFast
    BY <1>6 DEF FastReturn, Rows, logVars, baselineVars
  <2>2. \/ UNCHANGED <<last, slow, timer, excused>>
        \/ last' = fast.counter /\ RequestRefresh(fast.counter)
    BY <1>6 DEF FastReturn
  <2>3. CASE UNCHANGED <<last, slow, timer, excused>>
    <3>1. TypeOK'
      BY <1>6, <2>3, BasicTypes DEF FastReturn, TypeOK, logVars, baselineVars
    <3>2. Ordered'
      BY <1>0, <2>1, <2>3, BasicTypes DEF Ordered, None
    <3>3. EarlyRefreshKept'
      BY <2>1, <2>3 DEF EarlyRefreshKept
    <3> QED
      BY <1>0, <2>1, <2>3, <3>1, <3>2, <3>3, ChainStays
  <2>4. CASE last' = fast.counter /\ RequestRefresh(fast.counter)
    <3>1. last' = fast.counter /\ excused' = Missed(fast.counter)
          /\ timer' = (IF timer = "on" THEN "again" ELSE timer)
      BY <2>4 DEF RequestRefresh
    <3>2. \/ timer = "off" /\ slow.by = "nobody" /\ slow' = Refresh("request")
          \/ ~(timer = "off" /\ slow.by = "nobody") /\ slow' = slow
      BY <2>4 DEF RequestRefresh
    <3>3. fast.counter \in Nat
      BY DEF TypeOK
    <3>4. timer' \in {"off", "on", "again"} /\ (timer' = "off" <=> timer = "off")
      BY <3>1 DEF TypeOK
    <3>5. slow' \in Refreshing
      BY <3>2, RefreshType DEF TypeOK, Refreshing
    <3>6. excused' \in BOOLEAN
      BY <3>1 DEF Missed
    <3>7. TypeOK'
      BY <1>6, <3>1, <3>3, <3>4, <3>5, <3>6, BasicTypes
         DEF FastReturn, TypeOK, logVars, baselineVars, Refreshing
    <3>8. \A k \in Kind : slow'.reply[k] \in {slow.reply[k], None}
      BY <3>2, RefreshType
    <3>9. Ordered'
      <4>1. slow'.by = "nobody" => slow.by = "nobody" /\ slow'.answered = {}
        BY <3>2, RefreshType DEF Ordered
      <4>2. timer' # "off" => slow'.by = "nobody"
        BY <3>2, <3>4 DEF Ordered
      <4>3. last' <= counter /\ fast'.counter <= counter
        BY <1>0, <2>1, <3>1, BasicTypes DEF Ordered, None
      <4> QED
        BY <2>1, <3>2, <3>8, <4>1, <4>2, <4>3, RefreshType DEF Ordered
    <3>10. EarlyRefreshKept'
      <4>1. CASE slow' = Refresh("request")
        BY <4>1, RefreshType, BasicTypes DEF EarlyRefreshKept
      <4>2. CASE slow.by # "nobody" /\ slow' = slow
        <5>1. CASE slow.reply["edit"] # None /\ slow.reply["edit"] < fast.counter
          BY <3>1, <4>2, <5>1 DEF Missed, EarlyRefreshKept
        <5>2. CASE slow.reply["edit"] = None \/ slow.reply["edit"] >= fast.counter
          BY <3>1, <4>2, <5>2 DEF EarlyRefreshKept
        <5> QED
          BY <1>0, <3>3, <5>1, <5>2, BasicTypes
      <4>3. CASE timer # "off" /\ slow' = slow
        <5>1. timer' = "again"
          BY <3>1, <4>3 DEF TypeOK
        <5> QED
          BY <5>1 DEF EarlyRefreshKept
      <4> QED
        BY <3>2, <4>1, <4>2, <4>3
    <3> QED
      BY <1>0, <2>1, <3>7, <3>8, <3>9, <3>10, ChainStays
  <2> QED
    BY <2>2, <2>3, <2>4
<1>7. CASE FastFailed
  <2>1. UNCHANGED <<controller, counter, last, slow, timer, known, lacking, gaps, since, excused>> /\ Rows' = Rows
        /\ fast' = IdleFast
    BY <1>7 DEF FastFailed, Rows, logVars, baselineVars
  <2>2. TypeOK'
    BY <1>7, BasicTypes DEF FastFailed, TypeOK, logVars, baselineVars
  <2>3. Ordered'
    BY <1>0, <2>1, BasicTypes DEF Ordered, None
  <2>4. EarlyRefreshKept'
    BY <2>1 DEF EarlyRefreshKept
  <2> QED
    BY <1>0, <2>1, <2>2, <2>3, <2>4, ChainStays
<1>8. CASE SlowReturn
  BY <1>8, SlowReturnType, SlowReturnChains
<1>9. CASE SlowFailed
  <2>1. UNCHANGED <<controller, counter, fast, last, known, lacking, gaps, since>> /\ Rows' = Rows
        /\ slow' = IdleSlow /\ timer' = Cooling
    BY <1>9 DEF SlowFailed, Rows, baselineVars
  <2>2. recent' \in Nat
    BY <1>9, LogFinite, CountType DEF SlowFailed, TypeOK
  <2>3. timer' \in {"off", "on", "again"}
    BY <2>1 DEF Cooling
  <2>4. TypeOK'
    BY <1>9, <2>1, <2>2, <2>3, BasicTypes DEF SlowFailed, TypeOK, Refreshing
  <2>5. Ordered'
    BY <2>1, BasicTypes DEF Ordered
  <2>6. EarlyRefreshKept'
    <3>1. known'["edit"] \in Nat /\ last' \in Nat
      BY <2>4, BasicTypes DEF TypeOK
    <3>2. known'["edit"] < last' => excused'
      BY <1>9, <2>1 DEF SlowFailed
    <3> QED
      BY <3>1, <3>2, ExcusedKept
  <2> QED
    BY <1>0, <2>1, <2>4, <2>5, <2>6, BasicTypes, ChainStays
<1>10. ASSUME NEW row \in jobs, LogChange(row) PROVE IInv'
  <2>1. Rows' = Rows
    BY <1>10 DEF LogChange, Rows
  <2>2. UNCHANGED <<controller, counter, fast, last, slow, timer, known, lacking, gaps, since, excused>>
    BY <1>10 DEF LogChange, pollVars, baselineVars
  <2>3. TypeOK'
    BY <1>10, <2>2 DEF LogChange, TypeOK
  <2>4. Ordered' /\ EarlyRefreshKept'
    BY <2>2 DEF Ordered, EarlyRefreshKept
  <2> QED
    BY <1>0, <2>1, <2>2, <2>3, <2>4, ChainStays
<1>11. CASE Reload \/ Restart
  <2>1. SetUp /\ Rows' = Rows
    BY <1>11 DEF Reload, Restart, SetUp, Rows
  <2>2. TypeOK'
    BY <1>11, <2>1, SetUpType DEF Reload, Restart, TypeOK
  <2> QED
    BY <2>1, <2>2, SetUpChains
<1>12. CASE UNCHANGED vars
  <2>1. Rows' = Rows /\ UNCHANGED <<controller, counter, fast, last, slow, timer, known, lacking, gaps, since, excused>>
    BY <1>12 DEF vars, pollVars, logVars, baselineVars, Rows
  <2>2. TypeOK' /\ Ordered' /\ EarlyRefreshKept'
    BY <1>12 DEF vars, pollVars, logVars, baselineVars, TypeOK, Ordered, EarlyRefreshKept
  <2> QED
    BY <1>0, <2>1, <2>2, ChainStays
<1> QED
  BY <1>1, <1>2, <1>3, <1>4, <1>5, <1>6, <1>7, <1>8, <1>9, <1>10, <1>11, <1>12 DEF Next

-----------------------------------------------------------------------------
(* The theorems. *)

LEMMA IInvAlways == Spec => []IInv
<1>1. Init => IInv
  BY InitInvariant
<1>2. IInv /\ [Next]_vars => IInv'
  BY StepKeepsInvariant
<1> QED
  BY <1>1, <1>2, PTL DEF Spec

\* Versions, polls and rows keep their types, through every reload and restart
\* (EconetSlowCoordinator, change_log).
THEOREM RefreshTyped == Spec => []TypeOK
<1>1. IInv => TypeOK
  BY DEF IInv, Typed
<1> QED
  BY <1>1, IInvAlways, PTL

\* Unless a settings poll fails or lacks the setting, or one had read the settings
\* before the counter moved, no early refresh that the fast listener asks for is
\* lost (_on_fast_update).
THEOREM EarlyRefreshIsKept == Spec => []EarlyRefreshKept
<1>1. IInv => EarlyRefreshKept
  BY DEF IInv
<1> QED
  BY <1>1, IInvAlways, PTL

\* The changes of a parameter that are reported while no reply with data lacks it
\* form one chain from its first baseline to the present one, whatever replies have
\* no data, and whatever order the database jobs run in; after a reply that lacks
\* it a new chain begins (process_edit_params, process_sys_params, _diff_values,
\* _on_slow_update).
THEOREM ReportsFormAChain == Spec => []AuditIsGapless
<1>1. IInv => AuditIsGapless
  <2> SUFFICES ASSUME IInv, NEW k \in Kind, ~(known[k] = None /\ since[k] = None)
               PROVE  /\ Cardinality(Reported(k)) = Cardinality({row.old : row \in Reported(k)})
                      /\ {row.old : row \in Reported(k)} \cup {known[k]} =
                            {row.new : row \in Reported(k)} \cup {since[k]}
    BY DEF AuditIsGapless
  <2> DEFINE Olds == {row.old : row \in Reported(k)}
             f == [row \in Reported(k) |-> row.old]
  <2>1. Linked(k)
    <3>1. since[k] \in Nat /\ since[k] <= known[k] /\ (known[k] # None => Linked(k))
      BY DEF IInv, Typed, TypeOK, Chained
    <3> QED
      BY <3>1 DEF None
  <2>2. IsFiniteSet(Reported(k))
    <3>1. Reported(k) \subseteq Rows
      BY DEF Reported, Rows
    <3> QED
      BY <3>1, FS_Subset DEF IInv, Typed
  <2>3. f \in Bijection(Reported(k), Olds)
    BY <2>1 DEF Linked, Bijection, Injection, Surjection, IsInjective
  <2>4. Cardinality(Reported(k)) = Cardinality(Olds)
    <3>1. ExistsBijection(Reported(k), Olds)
      BY <2>3 DEF ExistsBijection
    <3> HIDE DEF Olds
    <3> QED
      BY <2>2, <3>1, FS_Bijection
  <2> QED
    BY <2>1, <2>4 DEF Linked
<1> QED
  BY <1>1, IInvAlways, PTL

-----------------------------------------------------------------------------
(* Refinement: every step of the polls is a step of ChangeLog or none. *)

LEMMA SameKinds ==
  /\ Log!Kind = Kind /\ Log!None = None /\ Log!Rows = Rows
  /\ "edit" \in Kind /\ "sys" \in Kind
  BY DEF Log!Kind, Log!None, Log!Rows, Kind, None, Rows

\* What is reported is the same in both.
LEMMA SameNews ==
  ASSUME IInv, SlowReturn
  PROVE  Log!News(known') = Detected
<1>1. \A k \in Kind : known'[k] = Baseline(k) /\ (Log!Compared(k) <=> Comparable(k))
  BY SameKinds DEF SlowReturn, Rebase, Log!Compared, Comparable
<1>2. \A k \in Kind : slow.reply[k] # None => known'[k] = slow.reply[k]
  BY <1>1 DEF Baseline
<1>3. \A k \in Kind : slow.reply[k] = None => known'[k] \in {None, known[k]}
  BY <1>1 DEF Baseline
<1> DEFINE moved == {j \in Kind : Log!Compared(j) /\ known'[j] \notin {Log!None, known[j]}}
<1>4. moved = {j \in Moved : Comparable(j)}
  BY <1>1, <1>2, <1>3, SameKinds DEF Moved
<1>5. \A k \in moved : [kind |-> k, gap |-> gaps[k], old |-> known[k], new |-> known'[k]] = Change(k)
  BY <1>2, <1>4 DEF Change, Moved
<1>6. Log!News(known') =
         {[kind |-> k, gap |-> gaps[k], old |-> known[k], new |-> known'[k]] : k \in moved}
  BY SameKinds DEF Log!News
<1> HIDE DEF moved
<1> QED
  BY <1>4, <1>5, <1>6 DEF Detected

\* So is what is lacking.
LEMMA SameGaps ==
  ASSUME NEW lack, lacking' = lack, gaps' = Gaps(lack)
  PROVE  Log!Absent(lack)
  BY SameKinds DEF Log!Absent, Gaps

\* The baselines of the integration are possible ones.
LEMMA BaselinesPossible ==
  ASSUME IInv', UNCHANGED controller, Rows \subseteq Rows'
  PROVE  Log!Possible(known')
<1>1. known' \in [Kind -> Nat]
  BY DEF IInv, Typed, TypeOK
<1>2. \A k \in Kind : known'[k] <= controller[k]
  BY DEF IInv, Ordered
<1>3. ASSUME NEW r \in Rows
      PROVE  known'[r.kind] = None \/ r.new <= known'[r.kind]
  <2>1. r \in Row /\ r \in Rows'
    BY DEF IInv, Typed, TypeOK, Rows
  <2>2. r.kind \in Kind
    BY <2>1 DEF Row
  <2> QED
    BY <2>1, <2>2 DEF IInv, Chained, Older
<1> QED
  BY <1>1, <1>2, <1>3, SameKinds DEF Log!Possible

LEMMA LogInit ==
  ASSUME Init
  PROVE  Log!Init
<1>1. IInv /\ Rows = {}
  BY InitInvariant DEF Init, Rows
<1>2. controller \in [Kind -> Nat] /\ known \in [Kind -> Nat]
  BY <1>1 DEF IInv, Typed, TypeOK
<1>3. \A k \in Kind : known[k] <= controller[k]
  BY <1>1 DEF IInv, Ordered
<1> QED
  BY <1>1, <1>2, <1>3, SameKinds DEF Init, Log!Init, Log!Possible

LEMMA LogStep ==
  ASSUME IInv, IInv', [Next]_vars
  PROVE  [Log!Next]_(Log!vars)
<1>1. ASSUME NEW k \in Kind, ControllerChange(k) PROVE Log!Next
  <2>1. Log!Change(k)
    BY <1>1 DEF ControllerChange, logVars, baselineVars, Log!Change
  <2> QED
    BY <2>1, SameKinds DEF Log!Next
<1>2. CASE SlowReturn
  <2>1. UNCHANGED <<controller, lost>> /\ Rows \subseteq Rows'
    BY <1>2, SlowReturnType DEF SlowReturn, IInv
  <2>2. Log!Possible(known')
    BY <2>1, BaselinesPossible
  <2>3. \E lack \in SUBSET Kind :
           /\ Log!Absent(lack)
           /\ \A k \in Kind : IF k \in lack THEN known'[k] = None ELSE known[k] <= known'[k]
           /\ \A k \in lacking \ lack : known'[k] # None
    <3>1. \A k \in Kind : known[k] \in Nat /\ slow.reply[k] \in Nat /\ known'[k] = Baseline(k)
      BY <1>2 DEF SlowReturn, Rebase, IInv, Typed, TypeOK
    <3>2. Lacking \in SUBSET Kind /\ Log!Absent(Lacking)
      BY <1>2, SameGaps DEF SlowReturn, Rebase, Lacking
    <3>3. \A k \in Kind : k \in Lacking => known'[k] = None
      BY <3>1 DEF Lacking, Baseline, IInv, Ordered, Chained, Gapped
    <3>4. \A k \in Kind : k \notin Lacking => known[k] <= known'[k]
      BY <3>1 DEF Lacking, Baseline, IInv, Ordered
    <3>5. \A k \in Kind : k \in lacking /\ k \notin Lacking => known'[k] # None
      BY <3>1 DEF Lacking, Baseline
    <3>6. lacking \subseteq Kind
      BY DEF IInv, Typed, TypeOK
    <3> QED
      BY <3>2, <3>3, <3>4, <3>5, <3>6
  <2>4. \E n \in SUBSET Log!News(known') :
           log' = log \cup n /\ jobs' = jobs \cup (Log!News(known') \ n)
    BY <1>2, SameNews DEF SlowReturn
  <2> QED
    BY <2>1, <2>2, <2>3, <2>4, SameKinds DEF Log!Next, Log!Report
<1>3. ASSUME NEW row \in jobs, LogChange(row) PROVE Log!Next
  <2>1. Log!Write(row)
    BY <1>3 DEF LogChange, baselineVars, Log!Write
  <2> QED
    BY <2>1 DEF Log!Next
<1>4. CASE Reload \/ Restart
  <2>1. UNCHANGED <<controller, log>> /\ Rows' = Rows
    BY <1>4 DEF Reload, Restart, SetUp, Rows
  <2>2. Log!Possible(known')
    BY <2>1, BaselinesPossible
  <2>3. \A k \in Kind : known'[k] \in {None, controller[k]}
    BY <1>4 DEF Reload, Restart, SetUp, Replies
  <2>4. \/ UNCHANGED <<jobs, lost>>
        \/ jobs' = {} /\ lost' = lost \cup jobs
    BY <1>4 DEF Reload, Restart
  <2>5. \E lack \in SUBSET {k \in Kind : known'[k] = None} : Log!Absent(lack)
    <3>1. lacking' \in SUBSET {k \in Kind : known'[k] = None} /\ gaps' = Gaps(lacking')
      BY <1>4 DEF Reload, Restart, SetUp
    <3>2. Log!Absent(lacking')
      BY <3>1, SameGaps
    <3> QED
      BY <3>1, <3>2
  <2> QED
    BY <2>1, <2>2, <2>3, <2>4, <2>5, SameKinds DEF Log!Next, Log!SetUp
<1>5. ASSUME NEW k \in Kind, SlowRead(k) PROVE UNCHANGED Log!vars
  BY <1>5 DEF SlowRead, logVars, baselineVars, Log!vars
<1>6. CASE TimerEnd \/ IntervalStart \/ FastRead \/ FastReturn \/ FastFailed
  BY <1>6 DEF TimerEnd, IntervalStart, FastRead, FastReturn, FastFailed, logVars, baselineVars, Log!vars
<1>7. CASE SlowFailed
  BY <1>7 DEF SlowFailed, baselineVars, Log!vars
<1>8. CASE UNCHANGED vars
  BY <1>8 DEF vars, logVars, baselineVars, Log!vars
<1> QED
  BY <1>1, <1>2, <1>3, <1>4, <1>5, <1>6, <1>7, <1>8 DEF Next

\* However polls, requests, jobs, reloads and restarts interleave, each change
\* that moves a baseline is reported by one row, which is written at most once:
\* SettingsRefresh refines ChangeLog (_on_slow_update, _log_change).
THEOREM LogIsKept == Spec => LogKept
<1>1. Init => Log!Init
  BY LogInit
<1>2. IInv /\ IInv' /\ [Next]_vars => [Log!Next]_(Log!vars)
  BY LogStep
<1> QED
  BY <1>1, <1>2, IInvAlways, PTL DEF Spec, LogKept, Log!Spec

-----------------------------------------------------------------------------
(* What the promise amounts to.  The rows of a kind are intervals of its   *)
(* versions, and no baseline lies before the end of one; those that begin  *)
(* with nothing are told apart by their gaps.                              *)

OnceInv ==
  /\ controller \in [Kind -> Nat] /\ gaps \in [Kind -> Nat]
  /\ Log!Rows \subseteq Log!Row
  /\ \A r \in Log!Rows :
        r.gap <= gaps[r.kind] /\ (r.kind \in lacking => r.gap < gaps[r.kind])
  /\ \A r \in Log!Rows : r.new <= controller[r.kind]
  /\ Log!Possible(known)
  /\ Log!ReportedOnce

LEMMA OnceInit ==
  ASSUME Log!Init
  PROVE  OnceInv
<1>1. Log!Rows = {}
  BY DEF Log!Init, Log!Rows
<1>2. gaps \in [Kind -> Nat]
  BY SameKinds DEF Log!Init
<1> QED
  BY <1>1, <1>2, SameKinds DEF Log!Init, Log!ReportedOnce, OnceInv

\* Gaps come after all that has been reported.
LEMMA OnceGaps ==
  ASSUME OnceInv, NEW lack \in SUBSET Kind, Log!Absent(lack)
  PROVE  /\ gaps' \in [Kind -> Nat] /\ lacking' = lack
         /\ \A k \in Kind : gaps'[k] = IF k \in lack \ lacking THEN gaps[k] + 1 ELSE gaps[k]
         /\ \A r \in Log!Rows :
               r.gap <= gaps'[r.kind] /\ (r.kind \in lacking' => r.gap < gaps'[r.kind])
<1>1. gaps' \in [Kind -> Nat] /\ lacking' = lack
  BY SameKinds DEF Log!Absent, OnceInv
<1>2. \A k \in Kind : gaps'[k] = IF k \in lack \ lacking THEN gaps[k] + 1 ELSE gaps[k]
  BY SameKinds DEF Log!Absent
<1>3. \A r \in Log!Rows : r.kind \in Kind /\ r.gap \in Nat /\ gaps[r.kind] \in Nat
  BY SameKinds DEF OnceInv, Log!Row
<1> QED
  BY <1>1, <1>2, <1>3 DEF OnceInv

\* The rows stay, or what is still due is gone for good.
LEMMA OnceKept ==
  ASSUME OnceInv, Log!Rows' = Log!Rows, Log!Possible(known'), controller' = controller,
         \/ UNCHANGED <<lacking, gaps>>
         \/ \E lack \in SUBSET Kind : Log!Absent(lack),
         jobs' \cap log' = {}, lost' \cap (jobs' \cup log') = {}
  PROVE  OnceInv'
<1>1. Log!Possible(known)'
  BY DEF Log!Possible
<1>2. Log!ReportedOnce'
  BY DEF Log!ReportedOnce, OnceInv
<1>3. /\ gaps' \in [Kind -> Nat]
      /\ \A r \in Log!Rows :
            r.gap <= gaps'[r.kind] /\ (r.kind \in lacking' => r.gap < gaps'[r.kind])
  BY OnceGaps DEF OnceInv
<1> QED
  BY <1>1, <1>2, <1>3 DEF OnceInv

LEMMA OnceReported ==
  ASSUME OnceInv, Log!Report
  PROVE  OnceInv'
<1> DEFINE N == Log!News(known')
<1>1. PICK lack \in SUBSET Kind :
         /\ Log!Absent(lack)
         /\ \A k \in Kind : IF k \in lack THEN known'[k] = None ELSE known[k] <= known'[k]
  BY SameKinds DEF Log!Report
<1>2. /\ known \in [Kind -> Nat] /\ known' \in [Kind -> Nat] /\ controller \in [Kind -> Nat]
      /\ \A k \in Kind : known'[k] <= controller[k]
      /\ controller' = controller /\ lost' = lost
  BY SameKinds DEF OnceInv, Log!Report, Log!Possible
<1>3. /\ gaps' \in [Kind -> Nat] /\ lacking' = lack
      /\ \A k \in Kind : gaps'[k] = IF k \in lack \ lacking THEN gaps[k] + 1 ELSE gaps[k]
      /\ \A r \in Log!Rows :
            r.gap <= gaps'[r.kind] /\ (r.kind \in lacking' => r.gap < gaps'[r.kind])
  BY <1>1, OnceGaps
<1>4. \A r \in Log!Rows : /\ r \in Log!Row /\ r.kind \in Kind /\ r.old \in Nat /\ r.new \in Nat
                          /\ r.gap \in Nat /\ gaps[r.kind] \in Nat
                          /\ r.new <= controller[r.kind]
                          /\ known[r.kind] # None => r.new <= known[r.kind]
                          /\ known'[r.kind] # None => r.new <= known'[r.kind]
                          /\ r.kind \in lacking => r.gap < gaps[r.kind]
  BY SameKinds DEF OnceInv, Log!Report, Log!Possible, Log!Row
<1>5. \A r \in N : /\ r \in Log!Row /\ r.kind \in Kind /\ r.gap = gaps[r.kind] /\ r.gap = gaps'[r.kind]
                   /\ r.old = known[r.kind] /\ r.new = known'[r.kind] /\ r.old < r.new
                   /\ r.kind \notin lack
                   /\ r.old # None \/ r.kind \in lacking
  <2> SUFFICES ASSUME NEW k \in Kind, Log!Compared(k), known'[k] \notin {None, known[k]}
               PROVE  LET r == [kind |-> k, gap |-> gaps[k], old |-> known[k], new |-> known'[k]]
                      IN  /\ r \in Log!Row /\ r.kind \in Kind /\ r.gap = gaps[r.kind]
                          /\ r.gap = gaps'[r.kind]
                          /\ r.old = known[r.kind] /\ r.new = known'[r.kind] /\ r.old < r.new
                          /\ r.kind \notin lack
                          /\ r.old # None \/ r.kind \in lacking
    BY SameKinds DEF Log!News
  <2>1. known[k] \in Nat /\ known'[k] \in Nat /\ gaps[k] \in Nat
    BY <1>2 DEF OnceInv
  <2>2. k \notin lack /\ gaps'[k] = gaps[k] /\ known[k] < known'[k]
    BY <1>1, <1>3, <2>1
  <2>3. known[k] # None \/ k \in lacking
    BY SameKinds DEF Log!Compared
  <2> QED
    BY <2>1, <2>2, <2>3, SameKinds DEF Log!Row
<1>6. \A r, s \in N : r.kind = s.kind => r = s
  BY SameKinds DEF Log!News
<1>7. PICK n \in SUBSET N : log' = log \cup n /\ jobs' = jobs \cup (N \ n)
  BY DEF Log!Report
<1> HIDE DEF N
<1>8. \A s \in Log!Rows, r \in N : s.kind = r.kind =>
         s.new <= r.old \/ (s.gap # r.gap /\ r.old = None)
  <2> SUFFICES ASSUME NEW s \in Log!Rows, NEW r \in N, s.kind = r.kind
               PROVE  s.new <= r.old \/ (s.gap # r.gap /\ r.old = None)
    OBVIOUS
  <2>1. CASE r.old # None
    BY <1>4, <1>5, <2>1
  <2>2. CASE r.old = None
    BY <1>4, <1>5, <2>2
  <2> QED
    BY <2>1, <2>2
<1>9. Log!Rows \cap N = {}
  <2> SUFFICES ASSUME NEW r \in Log!Rows, r \in N PROVE FALSE
    OBVIOUS
  <2>1. r.new <= r.old /\ r.old < r.new /\ r.old \in Nat /\ r.new \in Nat
    BY <1>4, <1>5, <1>8
  <2> QED
    BY <2>1
<1>10. Log!Rows' = Log!Rows \cup N
  BY <1>2, <1>7 DEF Log!Rows
<1>11. Log!Possible(known)'
  <2>1. \A r \in N : known'[r.kind] = r.new /\ r.new \in Nat
    BY <1>2, <1>5
  <2> QED
    BY <1>2, <1>4, <1>10, <2>1, SameKinds DEF Log!Possible
<1>12. Log!ReportedOnce'
  <2>1. jobs' \cap log' = {} /\ lost' \cap (jobs' \cup log') = {}
    BY <1>2, <1>7, <1>9 DEF OnceInv, Log!ReportedOnce, Log!Rows
  <2>2. ASSUME NEW r \in Log!Rows', NEW s \in Log!Rows', r.kind = s.kind
        PROVE  \/ r = s \/ r.new <= s.old \/ s.new <= r.old
               \/ r.gap # s.gap /\ None \in {r.old, s.old}
    BY <1>6, <1>8, <1>10, <2>2, SameKinds DEF OnceInv, Log!ReportedOnce
  <2> QED
    BY <2>1, <2>2, SameKinds DEF Log!ReportedOnce
<1>13. /\ Log!Rows' \subseteq Log!Row /\ \A r \in Log!Rows' : r.new <= controller[r.kind]
       /\ \A r \in Log!Rows' :
             r.gap <= gaps'[r.kind] /\ (r.kind \in lacking' => r.gap < gaps'[r.kind])
  <2>1. \A r \in N : r.gap <= gaps'[r.kind] /\ r.new <= controller[r.kind]
    BY <1>2, <1>3, <1>5
  <2> QED
    BY <1>3, <1>4, <1>5, <1>10, <2>1
<1> QED
  BY <1>2, <1>3, <1>11, <1>12, <1>13 DEF OnceInv

LEMMA OnceStep ==
  ASSUME OnceInv, [Log!Next]_(Log!vars)
  PROVE  OnceInv'
<1>1. ASSUME NEW k \in Kind, Log!Change(k) PROVE OnceInv'
  <2>1. UNCHANGED <<known, lacking, gaps, jobs, log, lost>> /\ Log!Rows' = Log!Rows
    BY <1>1 DEF Log!Change, Log!Rows
  <2>2. controller' \in [Kind -> Nat] /\ \A j \in Kind : controller[j] <= controller'[j]
    BY <1>1 DEF Log!Change, OnceInv
  <2>3. \A r \in Log!Rows : r.kind \in Kind /\ r.new \in Nat /\ r.new <= controller'[r.kind]
    BY <2>2, SameKinds DEF OnceInv, Log!Row
  <2>4. Log!Possible(known)'
    BY <2>1, <2>2, SameKinds DEF OnceInv, Log!Possible
  <2>5. Log!ReportedOnce'
    BY <2>1 DEF OnceInv, Log!ReportedOnce
  <2> QED
    BY <2>1, <2>2, <2>3, <2>4, <2>5 DEF OnceInv
<1>2. CASE Log!Report
  BY <1>2, OnceReported
<1>3. ASSUME NEW row \in jobs, Log!Write(row) PROVE OnceInv'
  <2>1. Log!Rows' = Log!Rows /\ UNCHANGED <<controller, known, lacking, gaps>>
    BY <1>3 DEF Log!Write, Log!Rows
  <2>2. jobs' \cap log' = {} /\ lost' \cap (jobs' \cup log') = {}
    BY <1>3 DEF Log!Write, OnceInv, Log!ReportedOnce
  <2> QED
    BY <2>1, <2>2, OnceKept DEF OnceInv
<1>4. CASE Log!SetUp
  <2>1. Log!Rows' = Log!Rows /\ controller' = controller /\ Log!Possible(known')
    BY <1>4 DEF Log!SetUp, Log!Rows
  <2>2. jobs' \cap log' = {} /\ lost' \cap (jobs' \cup log') = {}
    BY <1>4 DEF Log!SetUp, OnceInv, Log!ReportedOnce
  <2>3. \E lack \in SUBSET Kind : Log!Absent(lack)
    BY <1>4, SameKinds DEF Log!SetUp
  <2> QED
    BY <2>1, <2>2, <2>3, OnceKept
<1>5. CASE UNCHANGED Log!vars
  <2>1. Log!Rows' = Log!Rows /\ UNCHANGED <<controller, known, lacking, gaps, jobs, log, lost>>
    BY <1>5 DEF Log!vars, Log!Rows
  <2> QED
    BY <2>1 DEF OnceInv, Log!Possible, Log!ReportedOnce
<1> QED
  BY <1>1, <1>2, <1>3, <1>4, <1>5, SameKinds DEF Log!Next

\* No change, nor any part of one, is in two rows, and no row is in two places,
\* also over reloads and restarts, but for a system parameter that is reported to
\* have been None each time that it reappears: the promise of ChangeLog entails it.
THEOREM ChangesAreReportedOnce == Spec => []Log!ReportedOnce
<1>1. Log!Init => OnceInv
  BY OnceInit
<1>2. OnceInv /\ [Log!Next]_(Log!vars) => OnceInv'
  BY OnceStep
<1>3. OnceInv => Log!ReportedOnce
  BY DEF OnceInv
<1>4. Log!Spec => []Log!ReportedOnce
  BY <1>1, <1>2, <1>3, PTL DEF Log!Spec
<1> QED
  BY <1>4, LogIsKept, PTL DEF LogKept
=============================================================================
