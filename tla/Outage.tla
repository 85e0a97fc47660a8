------------------------------- MODULE Outage -------------------------------
(***************************************************************************)
(* repairs.py: how long the contacts that are reported to it have failed,  *)
(* and the issue with the Fix button.  Both functions are synchronous      *)
(* callbacks; the actions of Connection take them as a whole.              *)
(***************************************************************************)
EXTENDS Naturals

CONSTANT IssueAfter   \* CONNECTION_ISSUE_AFTER

ASSUME IssueAfterAssumption == IssueAfter \in Nat \ {0}

VARIABLES
    now,     \* dt_util.utcnow()
    failing, \* this entry's item in hass.data[_FAILURES_KEY]: {} or {when}
    issue    \* is the issue in the registry?

\* A time that is only sometimes known.
AtMostOneTime(times) == times \subseteq Nat /\ \A s, t \in times : s = t

OutageTypeOK ==
    /\ now \in Nat
    /\ AtMostOneTime(failing)
    /\ issue \in BOOLEAN

\* async_report_failure: setdefault keeps the time of the first failure.
ReportFailure ==
    /\ failing' = IF failing = {} THEN {now} ELSE failing
    /\ issue' = (issue \/ \E first \in failing' : now - first >= IssueAfter)

\* Mutated form of ReportSuccess: the outage is not forgotten.
ReportSuccess_Kept == issue' = FALSE /\ UNCHANGED failing

\* Mutated form of ReportSuccess: the issue is not deleted.
ReportSuccess_Issue == failing' = {} /\ UNCHANGED issue

\* async_report_success
ReportSuccess == failing' = {} /\ issue' = FALSE
=============================================================================
