-------------------------- MODULE MCSettingWrites --------------------------
(* Small instances of SettingWrites. *)
EXTENDS SettingWrites

\* A number at index 1, which can be set to 1 but not back to 0, so that some
\* writes are refused, and a bitmask at index 2.
NumberAndMask ==
    {[i \in {1, 2} |->
        IF i = 1 THEN [name |-> "heat", value |-> {}, writable |-> {{"b0"}}]
                 ELSE [name |-> "mask", value |-> {}, writable |-> Value]]}

\* The same two, or a controller without the number and with a bitmask that cannot
\* be set: a file saved from it lacks what the first one now lets a backup save, and
\* one saved from the first has a setting that it lacks.
BothOrMask ==
    NumberAndMask \cup {[i \in {2} |-> [name |-> "mask", value |-> {}, writable |-> {}]]}

Integers == SUBSET Bit
Numbers == [n \in Name |-> IF n = "heat" THEN {{}} ELSE {}]
OneToggle == {[mask |-> {"b0"}, clears |-> FALSE]}
=============================================================================
