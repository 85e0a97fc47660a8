---------------------------- MODULE RevertPromise ----------------------------
(***************************************************************************)
(* What the manual Revert promises (README "Revert", revert.py): an action *)
(* is offered once, used once, and a tap that is still reading the settings*)
(* may write only until the next poll or unload.  Nothing is said of how   *)
(* requests are queued, answered, retried or timed out.                    *)
(***************************************************************************)
EXTENDS Naturals

VARIABLES
    drawn,    \* tokens drawn so far: 1 .. drawn
    offered,  \* tokens a tap may use
    reading,  \* tokens whose tap reads the settings
    valid,    \* those of them that no poll or unload has overtaken
    writing   \* tokens whose tap writes the old value back

vars == <<drawn, offered, reading, valid, writing>>

Init ==
    /\ drawn = 0
    /\ offered = {} /\ reading = {} /\ valid = {} /\ writing = {}

\* A poll or an unload: only fresh tokens are added, and no tap that is still
\* reading may go on.
Revise ==
    /\ drawn' >= drawn
    /\ offered' \subseteq offered \cup (drawn + 1 .. drawn')
    /\ valid' = {}
    /\ UNCHANGED <<reading, writing>>

\* An action could not be sent, or was tapped too late or in Safe Mode.
Withdraw(t) ==
    /\ t \in offered
    /\ offered' = offered \ {t}
    /\ UNCHANGED <<drawn, reading, valid, writing>>

Accept(t) ==
    /\ t \in offered
    /\ offered' = offered \ {t}
    /\ reading' = reading \cup {t} /\ valid' = valid \cup {t}
    /\ UNCHANGED <<drawn, writing>>

Abandon(t) ==
    /\ t \in reading
    /\ reading' = reading \ {t} /\ valid' = valid \ {t}
    /\ UNCHANGED <<drawn, offered, writing>>

GoAhead(t) ==
    /\ t \in valid
    /\ reading' = reading \ {t} /\ valid' = valid \ {t}
    /\ writing' = writing \cup {t}
    /\ UNCHANGED <<drawn, offered>>

Finish(t) ==
    /\ t \in writing
    /\ writing' = writing \ {t}
    /\ UNCHANGED <<drawn, offered, reading, valid>>

Next ==
    \/ Revise
    \/ \E t \in offered : Withdraw(t) \/ Accept(t)
    \/ \E t \in reading : Abandon(t) \/ GoAhead(t)
    \/ \E t \in writing : Finish(t)

Spec == Init /\ [][Next]_vars

-----------------------------------------------------------------------------
\* A token is in one stage at a time, and a tap that may go on is one that reads.
SingleUse ==
    /\ valid \subseteq reading
    /\ \A t \in offered \cup reading \cup writing : t <= drawn
    /\ offered \cap (reading \cup writing) = {} /\ reading \cap writing = {}
=============================================================================
