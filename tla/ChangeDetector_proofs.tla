----------------------- MODULE ChangeDetector_proofs -----------------------
(***************************************************************************)
(* Lemmas about the operators of EditParams and ChangeDetector.            *)
(***************************************************************************)
EXTENDS ChangeDetector, FiniteSetTheorems, TLAPS

\* A change of a parameter between two polls.
Change == [index : Index, name : Name, old : Value, new : Value]

\* The empty dictionary is a reply and a snapshot.
LEMMA NothingType == Nothing \in Menu /\ Nothing \in Snapshot
<1>1. \A X : Nothing \in [{} -> X]
  BY DEF Nothing
<1>2. {} \in SUBSET Index
  OBVIOUS
<1> QED
  BY <1>1, <1>2 DEF Menu, Snapshot

\* What is kept of a reply (_extract_values) has the reply's indices.
LEMMA ExtractType ==
  ASSUME NEW data \in Menu
  PROVE  /\ Extract(data) \in Snapshot
         /\ DOMAIN Extract(data) = DOMAIN data
         /\ \A i \in DOMAIN data : /\ Extract(data)[i].name = data[i].name
                                   /\ Extract(data)[i].value = data[i].value
<1>1. PICK I \in SUBSET Index : data \in [I -> Param]
  BY DEF Menu
<1>2. Extract(data) \in [I -> [name : Name, value : Value]]
  BY <1>1 DEF Extract, Param
<1> QED
  BY <1>1, <1>2 DEF Snapshot, Extract

\* An assignment by name (newParam) leaves a dictionary of parameters.
LEMMA AssignType ==
  ASSUME NEW data \in Menu, NEW n \in Name, NEW v \in Value
  PROVE  Assign(data, n, v) \in Menu
<1>1. PICK I \in SUBSET Index : data \in [I -> Param]
  BY DEF Menu
<1>2. \A i \in I : [data[i] EXCEPT !.value = v] \in Param
  BY <1>1 DEF Param
<1>3. Assign(data, n, v) \in [I -> Param]
  BY <1>1, <1>2 DEF Assign
<1> QED
  BY <1>3 DEF Menu

\* _diff_values reports at most one change per index, hence finitely many.
LEMMA DiffType ==
  ASSUME NEW old \in Snapshot, NEW new \in Snapshot
  PROVE  /\ Diff(old, new) \in SUBSET Change
         /\ IsFiniteSet(Diff(old, new))
         /\ \A c, d \in Diff(old, new) : c.index = d.index => c = d
<1> DEFINE S == {j \in DOMAIN new \cap DOMAIN old : old[j].value # new[j].value}
           f == [i \in S |-> [index |-> i, name |-> new[i].name,
                              old |-> old[i].value, new |-> new[i].value]]
<1>1. PICK I \in SUBSET Index : new \in [I -> [name : Name, value : Value]]
  BY DEF Snapshot
<1>2. PICK J \in SUBSET Index : old \in [J -> [name : Name, value : Value]]
  BY DEF Snapshot
<1>3. S \in SUBSET Index
  BY <1>1
<1>4. IsFiniteSet(S)
  BY <1>3, FS_Subset, IndexAssumption
<1>5. f \in Surjection(S, Diff(old, new))
  BY DEF Diff, Surjection
<1>6. IsFiniteSet(Diff(old, new))
  BY <1>4, <1>5, FS_Surjection
<1>7. Diff(old, new) \in SUBSET Change
  BY <1>1, <1>2 DEF Diff, Change
<1>8. \A c, d \in Diff(old, new) : c.index = d.index => c = d
  BY DEF Diff
<1> QED
  BY <1>6, <1>7, <1>8

\* The changes a poll reports, whoever made them.
LEMMA ChangedType ==
  ASSUME snapshot \in Snapshot, NEW data \in Menu
  PROVE  /\ Changed(data) \in SUBSET Change
         /\ IsFiniteSet(Changed(data))
         /\ \A c, d \in Changed(data) : c.index = d.index => c = d
<1>1. Extract(data) \in Snapshot
  BY ExtractType
<1> DEFINE D == Diff(snapshot, Extract(data))
<1>2. /\ D \in SUBSET Change
      /\ IsFiniteSet(D)
      /\ \A c, d \in D : c.index = d.index => c = d
  BY <1>1, DiffType
<1>3. Changed(data) \in SUBSET D
  BY DEF Changed
<1>4. IsFiniteSet(Changed(data))
  BY <1>2, <1>3, FS_Subset
<1> QED
  BY <1>2, <1>3, <1>4

\* Those reported as external.
LEMMA ExternalType ==
  ASSUME snapshot \in Snapshot, NEW data \in Menu
  PROVE  /\ External(data) \in SUBSET Change
         /\ IsFiniteSet(External(data))
         /\ \A c, d \in External(data) : c.index = d.index => c = d
<1>1. External(data) \in SUBSET Changed(data)
  BY DEF External
<1>2. IsFiniteSet(External(data))
  BY <1>1, ChangedType, FS_Subset
<1> QED
  BY <1>1, <1>2, ChangedType

\* process_edit_params keeps the detector's state well formed.
LEMMA ProcessType ==
  ASSUME DetectorTypeOK, NEW data \in Menu, ProcessEditParams(data)
  PROVE  DetectorTypeOK'
<1>1. CASE DOMAIN data = {}
  BY <1>1 DEF ProcessEditParams, DetectorTypeOK, detectorVars
<1>2. CASE DOMAIN data # {}
  <2>1. snapshot' \in Snapshot
    BY <1>2, ExtractType DEF ProcessEditParams
  <2>2. selfWrites' \in SUBSET Name
    BY <1>2 DEF ProcessEditParams, DetectorTypeOK
  <2>3. revertWrites' \in SUBSET RevertWrite
    BY <1>2 DEF ProcessEditParams, DetectorTypeOK, Awaited
  <2> QED
    BY <2>1, <2>2, <2>3 DEF DetectorTypeOK
<1> QED
  BY <1>1, <1>2
=============================================================================
