-------------------------- MODULE MCRevertActions --------------------------
(* Small instances of RevertActions. *)
EXTENDS RevertActions, TLC

\* One setting, all of whose values may be written.
OneSetting ==
    {[i \in {1} |-> [name |-> "heat", value |-> v, writable |-> Value]] : v \in Value}

\* Two settings: plain values, a value at the edge of its range, a read-only
\* one, an index taken over by the other name, a name that occurs twice, a
\* missing parameter, and a reply without data.
P(n, v, w) == [name |-> n, value |-> v, writable |-> w]
Row(n1, v1, w1, n2, v2, w2) ==
    [i \in {1, 2} |-> IF i = 1 THEN P(n1, v1, w1) ELSE P(n2, v2, w2)]
Both == {1, 2}
TwoSettings == {
    Row("heat", 1, Both, "mode", 1, Both),
    Row("heat", 2, Both, "mode", 2, Both),
    Row("heat", 2, {2}, "mode", 1, {}),
    Row("mode", 2, Both, "heat", 1, Both),
    Row("heat", 1, Both, "heat", 2, Both),
    [i \in {2} |-> P("mode", 2, Both)],
    Nothing}

AllValid == [n \in Name |-> Value]

On   == [safe |-> FALSE, push |-> TRUE, service |-> TRUE]
Safe == [On EXCEPT !.safe = TRUE]
Mute == [On EXCEPT !.push = FALSE]

AlwaysOn == {On}
OnOrSafe == {On, Safe}
AllOptions == {On, Safe, Mute, [On EXCEPT !.service = FALSE]}

\* Values are only compared for equality, and so are the names of taps.
ValueSymmetry == Permutations(Value)
Symmetry == Permutations(OpId) \cup ValueSymmetry
=============================================================================
