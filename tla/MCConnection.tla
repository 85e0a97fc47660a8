--------------------------- MODULE MCConnection ---------------------------
(* Small instances of Connection. *)
EXTENDS Connection, TLC

CONSTANTS h1, h2, ours, other

\* The controller at the first address, moved to the second, moved with another
\* one in its old place, gone.
P(a, b) == [h \in Host |-> IF h = h1 THEN a ELSE b]
Moves == {P(ours, Nobody), P(Nobody, ours), P(other, ours), P(Nobody, Nobody)}

\* One address, where the controller may be replaced or vanish.
OnePlace == {P(ours, Nobody), P(other, Nobody), P(Nobody, Nobody)}

Symmetry == Permutations(FlowId)
=============================================================================
