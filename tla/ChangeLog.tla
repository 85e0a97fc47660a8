------------------------------ MODULE ChangeLog ------------------------------
(***************************************************************************)
(* What the change log promises (change_detector.py, database.py): every   *)
(* change that moves the baseline is reported, once, as a row from the old *)
(* baseline to the new one, and a row is written once or, when the database*)
(* fails or Home Assistant stops, never.  What the replies lack is         *)
(* forgotten.  Nothing is said of when the settings are polled, or of what *)
(* asks for it.                                                            *)
(***************************************************************************)
EXTENDS Naturals

VARIABLES
    held,      \* the version of each kind that the controller has
    baseline,  \* the one that the next report of the kind begins with
    absent,    \* the kinds whose parameter the last data lacked
    gaps,      \* how often it has disappeared from them
    due,       \* rows reported and not yet written
    written,   \* the rows of the log
    gone       \* rows reported that will never be written

vars == <<held, baseline, absent, gaps, due, written, gone>>

Kind == {"edit", "sys"}

\* No baseline, no such parameter.
None == 0

\* gap tells the rows before and after the parameter disappeared apart.
Row == [kind : Kind, gap : Nat, old : Nat, new : Nat]
Rows == due \cup written \cup gone

\* Could b be the baseline now?  It is nothing that the controller has not had,
\* and nothing older than what was reported.
Possible(b) ==
    /\ b \in [Kind -> Nat]
    /\ \A k \in Kind : b[k] <= held[k]
    /\ \A r \in Rows : b[r.kind] = None \/ r.new <= b[r.kind]

Init ==
    /\ held \in [Kind -> Nat]
    /\ due = {} /\ written = {} /\ gone = {}
    /\ Possible(baseline)
    /\ absent = {} /\ gaps = [k \in Kind |-> 0]

Change(k) ==
    /\ held' = [held EXCEPT ![k] = @ + 1]
    /\ UNCHANGED <<baseline, absent, gaps, due, written, gone>>

\* A system parameter that was absent has been None, a setting has not been.
Compared(k) == baseline[k] # None \/ (k = "sys" /\ k \in absent)

\* What a move of the baseline to b reports.
News(b) ==
    {[kind |-> k, gap |-> gaps[k], old |-> baseline[k], new |-> b[k]] :
        k \in {j \in Kind : Compared(j) /\ b[j] \notin {None, baseline[j]}}}

\* The parameters in lack are absent now.
Absent(lack) ==
    /\ absent' = lack
    /\ gaps' = [k \in Kind |-> IF k \in lack \ absent THEN gaps[k] + 1 ELSE gaps[k]]

\* A settings poll: a baseline once there stays, moves on or is forgotten, as the
\* data lack it, and some of the news may be in the log at once.
Report ==
    /\ Possible(baseline')
    /\ \E lack \in SUBSET Kind :
          /\ Absent(lack)
          /\ \A k \in Kind : IF k \in lack THEN baseline'[k] = None
                                            ELSE baseline[k] <= baseline'[k]
          /\ \A k \in absent \ lack : baseline'[k] # None
    /\ \E n \in SUBSET News(baseline') :
          written' = written \cup n /\ due' = due \cup (News(baseline') \ n)
    /\ UNCHANGED <<held, gone>>

Write(row) ==
    /\ row \in due
    /\ due' = due \ {row}
    /\ \/ written' = written \cup {row} /\ UNCHANGED gone
       \/ gone' = gone \cup {row} /\ UNCHANGED written
    /\ UNCHANGED <<held, baseline, absent, gaps>>

\* A reload, which leaves what is due, or a restart, in which it is lost.
SetUp ==
    /\ Possible(baseline') /\ \A k \in Kind : baseline'[k] \in {None, held[k]}
    /\ \E lack \in SUBSET {k \in Kind : baseline'[k] = None} : Absent(lack)
    /\ \/ UNCHANGED <<due, gone>>
       \/ due' = {} /\ gone' = gone \cup due
    /\ UNCHANGED <<held, written>>

Next ==
    \/ \E k \in Kind : Change(k)
    \/ Report
    \/ \E row \in due : Write(row)
    \/ SetUp

Spec == Init /\ [][Next]_vars

-----------------------------------------------------------------------------
\* No row is in two places, and no two rows report the same change, or parts of
\* one, whatever happened between them, but for a parameter that is reported to
\* have come from nothing, once after each time that it was absent.
ReportedOnce ==
    /\ due \cap written = {} /\ gone \cap (due \cup written) = {}
    /\ \A r, s \in Rows : r.kind = s.kind =>
          \/ r = s \/ r.new <= s.old \/ s.new <= r.old
          \/ r.gap # s.gap /\ None \in {r.old, s.old}
=============================================================================
