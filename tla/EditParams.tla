----------------------------- MODULE EditParams -----------------------------
(***************************************************************************)
(* The controller's editParams reply as the integration reads it: a        *)
(* dictionary from a parameter's index to its name, its value and the      *)
(* range it may be set to.  Indices are numbered in the order of the       *)
(* reply, which is the order a Python dict iterates in.                    *)
(***************************************************************************)
EXTENDS Naturals, FiniteSets

CONSTANTS
    Index,       \* positions in editParams.data
    Name,        \* names of controller parameters
    Value,       \* values of a parameter
    Volatile,    \* VOLATILE_PARAMETERS: names that change by themselves
    ValidValue   \* per name, the values NUMBER_/SELECT_DEFINITIONS admit

ASSUME IndexAssumption == Index \subseteq Nat /\ IsFiniteSet(Index)
ASSUME VolatileAssumption == Volatile \subseteq Name
ASSUME ValidValueAssumption == ValidValue \in [Name -> SUBSET Value]

\* One parameter.  writable stands for the keys edit, minv and maxv, which are
\* only ever used together: it holds the values v with minv <= v <= maxv when
\* edit is True and both bounds are finite numbers, and is empty otherwise.
Param == [name : Name, value : Value, writable : SUBSET Value]

\* The possible contents of editParams.data.  The empty one is also the reply
\* without a "data" key.
Menu == UNION {[I -> Param] : I \in SUBSET Index}

\* What the detector keeps of a reply: _extract_values.
Snapshot == UNION {[I -> [name : Name, value : Value]] : I \in SUBSET Index}

Nothing == [i \in {} |-> {}]

\* sum(p["name"] == name for p in data.values()) == 1
UniqueName(data, n) ==
    \E i \in DOMAIN data : {j \in DOMAIN data : data[j].name = n} = {i}

Extract(data) ==
    [i \in DOMAIN data |-> [name |-> data[i].name, value |-> data[i].value]]

\* _diff_values: the parameters at an index known before whose value moved.
\* The name is the new one; a change of the name alone is no change.
Diff(old, new) ==
    {[index |-> i, name |-> new[i].name, old |-> old[i].value, new |-> new[i].value] :
        i \in {j \in DOMAIN new \cap DOMAIN old : old[j].value # new[j].value}}

\* The controller obeying newParam: it is addressed by name only.
Assign(data, n, v) ==
    [i \in DOMAIN data |->
        IF data[i].name = n /\ v \in data[i].writable
        THEN [data[i] EXCEPT !.value = v] ELSE data[i]]
=============================================================================
