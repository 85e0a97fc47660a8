---------------------------- MODULE SnapshotStore ----------------------------
(***************************************************************************)
(* What scripts/export_econet.py promises of its directory: "atomically    *)
(* publish without overwriting any capture".  A snapshot appears whole, in *)
(* one step, under a name that was free, at most one for each run of the   *)
(* script; nothing but a power failure takes it away.  Nothing is said of  *)
(* temporary files, of what is written to them when, or of what fails.     *)
(***************************************************************************)
CONSTANTS Capture, Stamp, None

VARIABLES
    active,   \* runs that may still publish
    stored,   \* the capture that each name has, or None
    unsure,   \* names that a power failure may take
    announced \* runs that have printed the name of theirs

vars == <<active, stored, unsure, announced>>

Init ==
    /\ active = Capture
    /\ stored = [s \in Stamp |-> None]
    /\ unsure = {} /\ announced = {}

Publish(c, s) ==
    /\ c \in active /\ active' = active \ {c}
    /\ stored[s] = None /\ stored' = [stored EXCEPT ![s] = c]
    /\ unsure' = unsure \cup {s}
    /\ UNCHANGED announced

GiveUp(c) ==
    /\ c \in active /\ active' = active \ {c}
    /\ UNCHANGED <<stored, unsure, announced>>

Announce(c) ==
    /\ \E s \in Stamp : stored[s] = c
    /\ announced' = announced \cup {c}
    /\ UNCHANGED <<active, stored, unsure>>

PowerFailure ==
    /\ active' = {}
    /\ \E gone \in SUBSET unsure :
          stored' = [s \in Stamp |-> IF s \in gone THEN None ELSE stored[s]]
    /\ unsure' = {}
    /\ UNCHANGED announced

Next ==
    \/ \E c \in active : GiveUp(c) \/ \E s \in Stamp : Publish(c, s)
    \/ \E c \in Capture : Announce(c)
    \/ PowerFailure

Spec == Init /\ [][Next]_vars

-----------------------------------------------------------------------------
\* A run has one snapshot at most, and none while it may still publish.
OneEach ==
    /\ \A s, t \in Stamp : stored[s] = stored[t] => s = t \/ stored[s] = None
    /\ \A s \in Stamp : stored[s] \in (Capture \ active) \cup {None}
=============================================================================
