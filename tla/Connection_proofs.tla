------------------------- MODULE Connection_proofs -------------------------
(***************************************************************************)
(* What Connection guarantees whatever the addresses, the logins, the      *)
(* devices, the number of concurrent flows and the time before an issue.   *)
(***************************************************************************)
EXTENDS Connection, TLAPS

-----------------------------------------------------------------------------
(* Lemmas about the operators. *)

\* The network answers for a device only with that device.
LEMMA OutcomeType ==
  ASSUME TypeOK, NEW h \in Host, NEW l \in Login, NEW r \in Outcomes(h, l),
         r # "auth", r \notin Failures
  PROVE  r \in Device /\ r = place[h] /\ l = key
<1>1. place \in [Host -> Device \cup {Nobody}]
  BY PlacesAssumption DEF TypeOK
<1> QED
  BY <1>1 DEF Outcomes

\* async_report_failure and async_report_success leave an outage and an issue.
LEMMA ReportType ==
  ASSUME OutageTypeOK, UNCHANGED now, ReportFailure \/ ReportSuccess
  PROVE  OutageTypeOK'
<1>1. CASE ReportFailure
  <2>1. AtMostOneTime(failing')
    BY <1>1 DEF ReportFailure, OutageTypeOK, AtMostOneTime
  <2> QED
    BY <1>1, <2>1 DEF ReportFailure, OutageTypeOK
<1>2. CASE ReportSuccess
  BY <1>2 DEF ReportSuccess, OutageTypeOK, AtMostOneTime
<1> QED
  BY <1>1, <1>2

\* What is remembered of a contact keeps its type.
LEMMA RememberType ==
  ASSUME TypeOK, Answered \/ NotAnswered
  PROVE  AtMostOneTime(outage') /\ contact' \in Nat
BY DEF TypeOK, OutageTypeOK, AtMostOneTime, Answered, NotAnswered

LEMMA InitialTypes == Init => TypeOK
<1> SUFFICES ASSUME Init
             PROVE  TypeOK
  OBVIOUS
<1>1. PICK h \in Host, l \in Login :
         /\ entry = [host |-> h, login |-> l]
         /\ api = [host |-> h, login |-> l, uid |-> NoId]
  BY DEF Init
<1>2. entry \in Conn /\ api \in [host : Host, login : Login, uid : Device \cup {NoId}]
  BY <1>1 DEF Conn
<1>3. flows \in SUBSET Flow /\ forms \subseteq {"fix", "reauth"}
  BY DEF Init
<1>4. OutageTypeOK /\ AtMostOneTime(outage) /\ contact \in Nat
  BY DEF Init, OutageTypeOK, AtMostOneTime
<1> QED
  BY <1>2, <1>3, <1>4 DEF Init, TypeOK

-----------------------------------------------------------------------------
(* Type correctness, one lemma per group of actions. *)

LEMMA SetupTypes ==
  ASSUME TypeOK, Setup \/ Reload
  PROVE  TypeOK'
<1> USE DEF TypeOK, OutageTypeOK, AtMostOneTime, BeginSetup, networkVars, outageVars,
            history, Stages, Conn
<1>1. CASE Setup
  BY <1>1 DEF Setup
<1>2. CASE Reload
  BY <1>2 DEF Reload
<1> QED
  BY <1>1, <1>2

LEMMA ConnectedTypes ==
  ASSUME TypeOK, NEW r \in Results, Connected(r)
  PROVE  TypeOK'
<1>1. api.host \in Host /\ api.login \in Login
  BY DEF TypeOK
<1>2. r \in Outcomes(api.host, api.login) /\ UNCHANGED now
  BY DEF Connected
<1>3. OutageTypeOK'
  <2>1. ReportFailure \/ ReportSuccess
    BY DEF Connected
  <2> QED
    BY <1>2, <2>1, ReportType DEF TypeOK
<1>4. AtMostOneTime(outage') /\ contact' \in Nat
  <2>1. Answered \/ NotAnswered
    BY DEF Connected, Remember
  <2> QED
    BY <2>1, RememberType
<1>5. api' \in [host : Host, login : Login, uid : Device \cup {NoId}]
  <2>1. CASE r = "auth" \/ r \in Failures
    BY <2>1 DEF Connected, TypeOK, Failures
  <2>2. CASE r # "auth" /\ r \notin Failures
    <3>1. r \in Device
      BY <1>1, <1>2, <2>2, OutcomeType
    <3> QED
      BY <3>1, <2>2 DEF Connected, TypeOK, Failures
  <2> QED
    BY <2>1, <2>2
<1>6. /\ state' \in {"retry", "refused", "fast"}
      /\ forms' \subseteq {"fix", "reauth"}
  BY DEF Connected, Refused, NotReady, TypeOK
<1> QED
  BY <1>3, <1>4, <1>5, <1>6 DEF Connected, TypeOK, networkVars, Stages

LEMMA FirstRefreshTypes ==
  ASSUME TypeOK, NEW r \in Results, FirstFastRefresh(r) \/ FirstSlowRefresh(r)
  PROVE  TypeOK'
<1>1. /\ state' \in {"retry", "refused", "slow", "loaded"}
      /\ forms' \subseteq {"fix", "reauth"}
  BY DEF FirstFastRefresh, FirstSlowRefresh, Refused, NotReady, TypeOK
<1>2. UNCHANGED now
  BY DEF FirstFastRefresh, FirstSlowRefresh
<1>3. CASE FirstFastRefresh(r)
  <2>1. OutageTypeOK'
    <3>1. ReportFailure \/ ReportSuccess
      BY <1>3 DEF FirstFastRefresh, ReportRefresh
    <3> QED
      BY <1>2, <3>1, ReportType DEF TypeOK
  <2>2. AtMostOneTime(outage') /\ contact' \in Nat
    <3>1. Answered \/ NotAnswered
      BY <1>3 DEF FirstFastRefresh, Remember
    <3> QED
      BY <3>1, RememberType
  <2> QED
    BY <1>1, <1>3, <2>1, <2>2 DEF FirstFastRefresh, TypeOK, networkVars, Stages
<1>4. CASE FirstSlowRefresh(r)
  <2>1. OutageTypeOK'
    BY <1>2, <1>4 DEF FirstSlowRefresh, outageVars, TypeOK, OutageTypeOK
  <2>2. AtMostOneTime(outage') /\ contact' \in Nat
    BY <1>4 DEF FirstSlowRefresh, history, TypeOK
  <2>3. idents' \in SUBSET (Device \cup Host) /\ macs' \in SUBSET Device
    <3>1. Identifier \in Device \cup Host
      BY DEF Identifier, TypeOK
    <3>2. place[entry.host] \in Device \cup {Nobody}
      BY PlacesAssumption DEF TypeOK, Conn
    <3> QED
      BY <1>4, <3>1, <3>2 DEF FirstSlowRefresh, TypeOK
  <2> QED
    BY <1>1, <1>4, <2>1, <2>2, <2>3 DEF FirstSlowRefresh, TypeOK, networkVars, Stages
<1> QED
  BY <1>3, <1>4

LEMMA PollTypes ==
  ASSUME TypeOK, PollStart \/ \E r \in Results : PollReturn(r) \/ SettingsReturn(r)
  PROVE  TypeOK'
<1>1. CASE PollStart
  BY <1>1 DEF PollStart, TypeOK, OutageTypeOK, AtMostOneTime, networkVars, outageVars,
              history
<1>2. ASSUME NEW r \in Results, PollReturn(r)
      PROVE  TypeOK'
  <2>1. OutageTypeOK'
    <3>1. (ReportFailure \/ ReportSuccess) /\ UNCHANGED now
      BY <1>2 DEF PollReturn, ReportRefresh
    <3> QED
      BY <3>1, ReportType DEF TypeOK
  <2>2. AtMostOneTime(outage') /\ contact' \in Nat
    <3>1. Answered \/ NotAnswered
      BY <1>2 DEF PollReturn, Remember
    <3> QED
      BY <3>1, RememberType
  <2>3. forms' \subseteq {"fix", "reauth"}
    BY <1>2 DEF PollReturn, TypeOK
  <2> QED
    BY <1>2, <2>1, <2>2, <2>3 DEF PollReturn, TypeOK, networkVars
<1>3. ASSUME NEW r \in Results, SettingsReturn(r)
      PROVE  TypeOK'
  BY <1>3 DEF SettingsReturn, TypeOK, OutageTypeOK, AtMostOneTime, networkVars, outageVars,
              history
<1> QED
  BY <1>1, <1>2, <1>3

LEMMA EnvironmentTypes ==
  ASSUME TypeOK, NetworkChange \/ Tick \/ OptionsUpdated \/ Restart \/ PressFix
  PROVE  TypeOK'
<1> USE DEF TypeOK, OutageTypeOK, AtMostOneTime, networkVars, entryVars, outageVars,
            history
<1>1. CASE NetworkChange
  BY <1>1 DEF NetworkChange
<1>2. CASE Tick
  BY <1>2 DEF Tick
<1>3. CASE OptionsUpdated
  BY <1>3 DEF OptionsUpdated
<1>4. CASE Restart
  BY <1>4 DEF Restart
<1>5. CASE PressFix
  BY <1>5 DEF PressFix
<1> QED
  BY <1>1, <1>2, <1>3, <1>4, <1>5

\* A submitted form, or a MAC seen elsewhere, starts a flow.
LEMMA NewFlowTypes ==
  ASSUME TypeOK, NEW id \in FlowId,
         NEW k \in {"reconfigure", "fix", "reauth", "dhcp"},
         NEW stage \in {"old", "new"}, NEW old \in Host, NEW h \in Host, NEW l \in Login,
         NewFlow(id, k, stage, old, h, l)
  PROVE  TypeOK'
BY DEF NewFlow, Flow, TypeOK, OutageTypeOK, AtMostOneTime, networkVars, entryVars,
       outageVars, history

LEMMA FlowTypes ==
  ASSUME TypeOK, NEW f \in flows, NEW r \in Results, OldChecked(f, r) \/ NewChecked(f, r)
  PROVE  TypeOK'
<1>1. f \in Flow
  BY DEF TypeOK
<1>2. CASE OldChecked(f, r)
  <2>1. [f EXCEPT !.stage = "new"] \in Flow
    BY <1>1 DEF Flow
  <2>2. flows' \subseteq Flow
    BY <1>2, <2>1 DEF OldChecked, TypeOK
  <2> QED
    BY <1>2, <2>2 DEF OldChecked, TypeOK, OutageTypeOK, AtMostOneTime, networkVars,
                      entryVars, outageVars, history
<1>3. CASE NewChecked(f, r) /\ Apply(f.host, f.login)
  <2>1. entry' \in Conn /\ f.kind \in {"reconfigure", "fix", "reauth", "dhcp"}
    BY <1>1, <1>3 DEF Apply, Conn, Flow
  <2>2. /\ issue' \in BOOLEAN /\ reload' \in BOOLEAN
        /\ forms' \subseteq {"fix", "reauth"}
    <3>1. CASE CheckError(f.kind = "dhcp", r) = "none"
      BY <1>3, <3>1 DEF NewChecked, Apply, TypeOK, OutageTypeOK
    <3>2. CASE CheckError(f.kind = "dhcp", r) # "none"
      BY <1>3, <3>2 DEF NewChecked, outageVars, TypeOK, OutageTypeOK
    <3> QED
      BY <3>1, <3>2
  <2> QED
    BY <1>3, <2>1, <2>2 DEF NewChecked, Apply, TypeOK, OutageTypeOK, AtMostOneTime,
                            networkVars
<1>4. CASE NewChecked(f, r) /\ UNCHANGED <<entry, reload, forms, outageVars, history>>
  BY <1>4 DEF NewChecked, TypeOK, OutageTypeOK, AtMostOneTime, networkVars, outageVars,
              history
<1> QED
  BY <1>2, <1>3, <1>4 DEF NewChecked

LEMMA StepTypes == TypeOK /\ [Next]_vars => TypeOK'
<1> SUFFICES ASSUME TypeOK, [Next]_vars
             PROVE  TypeOK'
  OBVIOUS
<1>1. CASE NetworkChange \/ Tick \/ OptionsUpdated \/ Restart \/ PressFix
  BY <1>1, EnvironmentTypes
<1>2. CASE Setup \/ Reload
  BY <1>2, SetupTypes
<1>3. CASE \E r \in Results : Connected(r)
  BY <1>3, ConnectedTypes
<1>4. CASE \E r \in Results : FirstFastRefresh(r) \/ FirstSlowRefresh(r)
  BY <1>4, FirstRefreshTypes
<1>5. CASE PollStart \/ \E r \in Results : PollReturn(r) \/ SettingsReturn(r)
  BY <1>5, PollTypes
<1>6. ASSUME NEW id \in FlowId, NEW k \in {"reconfigure", "fix", "reauth"}, NEW h \in Host,
             NEW l \in Login, Submit(id, k, h, l)
      PROVE  TypeOK'
  BY <1>6, NewFlowTypes DEF Submit
<1>7. ASSUME NEW id \in FlowId, NEW h \in Host, Discovered(id, h)
      PROVE  TypeOK'
  <2>1. entry.host \in Host /\ entry.login \in Login
    BY DEF TypeOK, Conn
  <2> QED
    BY <1>7, <2>1, NewFlowTypes DEF Discovered
<1>8. CASE \E f \in flows, r \in Results : OldChecked(f, r) \/ NewChecked(f, r)
  BY <1>8, FlowTypes
<1>9. CASE UNCHANGED vars
  BY <1>9 DEF vars, TypeOK, OutageTypeOK, AtMostOneTime, networkVars, entryVars,
              outageVars, history
<1> QED
  BY <1>1, <1>2, <1>3, <1>4, <1>5, <1>6, <1>7, <1>8, <1>9 DEF Next

\* The variables keep their types.
THEOREM ConnectionTypes == Spec => []TypeOK
<1> QED
  BY InitialTypes, StepTypes, PTL DEF Spec

-----------------------------------------------------------------------------
(***************************************************************************)
(* Reloads.  LoadedApiMatchesEntry is not inductive: an entry becomes      *)
(* loaded with the API object of its setup, so every stage of setup has to *)
(* know that it uses the stored connection or that a reload waits.         *)
(***************************************************************************)
SetupMatchesEntry ==
    state \in Stages \cup {"loaded"} /\ ~reload => api.host = entry.host /\ api.login = entry.login

LEMMA StepMatches == TypeOK /\ SetupMatchesEntry /\ [Next]_vars => SetupMatchesEntry'
<1> SUFFICES ASSUME TypeOK, SetupMatchesEntry, [Next]_vars
             PROVE  SetupMatchesEntry'
  OBVIOUS
<1>1. CASE NetworkChange \/ Tick \/ OptionsUpdated \/ Restart \/ PressFix
  BY <1>1 DEF NetworkChange, Tick, OptionsUpdated, Restart, PressFix, SetupMatchesEntry,
              Stages, entryVars
<1>2. CASE Setup \/ Reload
  BY <1>2 DEF Setup, Reload, BeginSetup, SetupMatchesEntry
<1>3. ASSUME NEW r \in Results, Connected(r)
      PROVE  SetupMatchesEntry'
  <2>1. api'.host = api.host /\ api'.login = api.login
    BY <1>3 DEF Connected, TypeOK
  <2> QED
    BY <1>3, <2>1 DEF Connected, SetupMatchesEntry, Stages
<1>4. ASSUME NEW r \in Results, FirstFastRefresh(r) \/ FirstSlowRefresh(r)
      PROVE  SetupMatchesEntry'
  BY <1>4 DEF FirstFastRefresh, FirstSlowRefresh, SetupMatchesEntry, Stages
<1>5. CASE PollStart \/ \E r \in Results : PollReturn(r) \/ SettingsReturn(r)
  BY <1>5 DEF PollStart, PollReturn, SettingsReturn, SetupMatchesEntry
<1>6. CASE \/ \E id \in FlowId, k \in {"reconfigure", "fix", "reauth"}, h \in Host, l \in Login :
                 Submit(id, k, h, l)
           \/ \E id \in FlowId, h \in Host : Discovered(id, h)
           \/ \E f \in flows, r \in Results : OldChecked(f, r)
  BY <1>6 DEF Submit, Discovered, OldChecked, NewFlow, SetupMatchesEntry, entryVars
<1>7. ASSUME NEW f \in flows, NEW r \in Results, NewChecked(f, r)
      PROVE  SetupMatchesEntry'
  <2>1. CASE Apply(f.host, f.login)
    BY <1>7, <2>1 DEF NewChecked, Apply, SetupMatchesEntry
  <2>2. CASE UNCHANGED <<entry, reload>>
    BY <1>7, <2>2 DEF NewChecked, SetupMatchesEntry
  <2> QED
    BY <1>7, <2>1, <2>2 DEF NewChecked
<1>8. CASE UNCHANGED vars
  BY <1>8 DEF vars, entryVars, SetupMatchesEntry
<1> QED
  BY <1>1, <1>2, <1>3, <1>4, <1>5, <1>6, <1>7, <1>8 DEF Next

\* A loaded entry uses the connection it stores, or a reload waits.
THEOREM AppliedConnections == Spec => []LoadedApiMatchesEntry
<1>1. Init => SetupMatchesEntry
  BY DEF Init, SetupMatchesEntry, Stages
<1>2. SetupMatchesEntry => LoadedApiMatchesEntry
  BY DEF SetupMatchesEntry, LoadedApiMatchesEntry
<1> QED
  BY <1>1, <1>2, StepMatches, ConnectionTypes, PTL DEF Spec

-----------------------------------------------------------------------------
(***************************************************************************)
(* Outages.  The clock never starts before a reported contact was last     *)
(* answered.                                                               *)
(***************************************************************************)
OutageInv ==
    /\ contact <= now
    /\ \A first \in failing : contact <= first /\ first <= now
    /\ issue => now - contact >= IssueAfter

\* What a report and the remembered contact do to the clock.
LEMMA ReportKeepsClock ==
  ASSUME TypeOK, OutageInv, UNCHANGED now,
         \/ ReportFailure /\ NotAnswered
         \/ ReportSuccess /\ (Answered \/ NotAnswered)
  PROVE  /\ contact' <= now'
         /\ \A first \in failing' : contact' <= first /\ first <= now'
         /\ issue' => now' - contact' >= IssueAfter
<1> USE IssueAfterAssumption
<1>1. CASE ReportFailure /\ NotAnswered
  <2>1. UNCHANGED contact
    BY <1>1 DEF NotAnswered
  <2>2. failing' \subseteq Nat /\ \A first \in failing' : contact <= first /\ first <= now
    BY <1>1 DEF ReportFailure, OutageInv, TypeOK, OutageTypeOK, AtMostOneTime
  <2> QED
    BY <1>1, <2>1, <2>2 DEF ReportFailure, OutageInv, TypeOK, OutageTypeOK
<1>2. CASE ReportSuccess /\ (Answered \/ NotAnswered)
  BY <1>2 DEF ReportSuccess, Answered, NotAnswered, OutageInv, TypeOK, OutageTypeOK
<1> QED
  BY <1>1, <1>2

LEMMA StepOutage == TypeOK /\ OutageInv /\ [Next]_vars => OutageInv'
<1> SUFFICES ASSUME TypeOK, OutageInv, [Next]_vars
             PROVE  OutageInv'
  OBVIOUS
<1> USE IssueAfterAssumption
<1>1. CASE NetworkChange \/ OptionsUpdated \/ PressFix
  BY <1>1 DEF NetworkChange, OptionsUpdated, PressFix, OutageInv, entryVars, outageVars,
              history
<1>2. CASE Tick
  BY <1>2 DEF Tick, OutageInv, TypeOK, OutageTypeOK, AtMostOneTime, entryVars, outageVars,
              history
<1>3. CASE Restart
  BY <1>3 DEF Restart, OutageInv
<1>4. CASE Setup \/ Reload \/ PollStart
  BY <1>4 DEF Setup, Reload, PollStart, OutageInv, outageVars, history
<1>5. CASE \E r \in Results : Connected(r)
  <2>1. /\ UNCHANGED now
        /\ \/ ReportFailure /\ NotAnswered
           \/ ReportSuccess /\ (Answered \/ NotAnswered)
    BY <1>5 DEF Connected, Remember, Failures
  <2> QED
    BY <2>1, ReportKeepsClock DEF OutageInv
<1>6. CASE \E r \in Results : FirstFastRefresh(r) \/ PollReturn(r)
  <2>1. /\ UNCHANGED now
        /\ \/ ReportFailure /\ NotAnswered
           \/ ReportSuccess /\ (Answered \/ NotAnswered)
    BY <1>6 DEF FirstFastRefresh, PollReturn, Remember, ReportRefresh, Failures
  <2> QED
    BY <2>1, ReportKeepsClock DEF OutageInv
<1>7. CASE \E r \in Results : FirstSlowRefresh(r) \/ SettingsReturn(r)
  BY <1>7 DEF FirstSlowRefresh, SettingsReturn, OutageInv, outageVars, history
<1>8. CASE \/ \E id \in FlowId, k \in {"reconfigure", "fix", "reauth"}, h \in Host, l \in Login :
                 Submit(id, k, h, l)
           \/ \E id \in FlowId, h \in Host : Discovered(id, h)
           \/ \E f \in flows, r \in Results : OldChecked(f, r)
  <2>1. UNCHANGED <<now, failing, issue, contact>>
    BY <1>8 DEF Submit, Discovered, OldChecked, NewFlow, entryVars, outageVars, history
  <2> QED
    BY <2>1 DEF OutageInv
<1>9. CASE \E f \in flows, r \in Results : NewChecked(f, r)
  <2>1. UNCHANGED <<now, contact>>
    BY <1>9 DEF NewChecked, Apply, history
  <2>2. failing' \subseteq failing /\ (issue' => issue)
    BY <1>9 DEF NewChecked, Apply, outageVars
  <2> QED
    BY <2>1, <2>2 DEF OutageInv
<1>10. CASE UNCHANGED vars
  BY <1>10 DEF vars, OutageInv, entryVars, outageVars, history
<1> QED
  BY <1>1, <1>2, <1>3, <1>4, <1>5, <1>6, <1>7, <1>8, <1>9, <1>10 DEF Next

\* The Repairs issue is there only after CONNECTION_ISSUE_AFTER in which no connection
\* attempt and no refresh of the readings got data or a refusal of the login.
THEOREM IssuesAreDue == Spec => []IssueMeansOutage
<1>1. Init => OutageInv
  BY DEF Init, OutageInv
<1>2. OutageInv => IssueMeansOutage
  BY DEF OutageInv, IssueMeansOutage
<1> QED
  BY <1>1, <1>2, StepOutage, ConnectionTypes, PTL DEF Spec

-----------------------------------------------------------------------------
(* The device check. *)

\* async_check_connection lets a flow pass, once a controller is known, only if
\* that controller has answered.
LEMMA CheckedIsKnown ==
  ASSUME TypeOK, idents \cap Device # {}, NEW strict \in BOOLEAN,
         NEW h \in Host, NEW l \in Login,
         NEW r \in Outcomes(h, l), CheckError(strict, r) = "none"
  PROVE  place[h] \in idents /\ l = key
<1>1. r # "auth" /\ r \notin Failures
  BY DEF CheckError
<1>2. PICK d \in idents : d \in Device
  OBVIOUS
<1>3. d \in Known
  BY <1>2, NamesAssumption DEF Known, TypeOK, Conn
<1>4. r \in Known
  BY <1>1, <1>3 DEF CheckError
<1> QED
  BY <1>1, <1>4, OutcomeType DEF Known

\* Once a controller is known, the entry moves only to where it answers.
THEOREM MovesAreChecked == Spec => OnlyKnownControllers
<1> DEFINE Move == entry' # entry /\ idents \cap Device # {} =>
                      place[entry'.host] \in idents /\ entry'.login = key
<1>1. ASSUME TypeOK, Next, entry' # entry, idents \cap Device # {}
      PROVE  place[entry'.host] \in idents /\ entry'.login = key
  <2>1. PICK f \in flows, r \in Results :
           NewChecked(f, r) /\ CheckError(f.kind = "dhcp", r) = "none"
    BY <1>1 DEF Next, NetworkChange, Tick, Setup, Reload, Connected, FirstFastRefresh,
                FirstSlowRefresh, PollStart, PollReturn, SettingsReturn, OptionsUpdated, Restart,
                PressFix, Submit, Discovered, NewFlow, OldChecked, NewChecked, entryVars
  <2>2. f.host \in Host /\ f.login \in Login
    BY <1>1 DEF TypeOK, Flow
  <2>3. r \in Outcomes(f.host, f.login) /\ entry' = [host |-> f.host, login |-> f.login]
    BY <2>1 DEF NewChecked, Apply
  <2> QED
    BY <1>1, <2>1, <2>2, <2>3, CheckedIsKnown
<1>2. TypeOK /\ [Next]_vars => [Move]_vars
  BY <1>1
<1> QED
  BY <1>2, ConnectionTypes, PTL DEF Spec, OnlyKnownControllers
=============================================================================
