----------------------------- MODULE Connection -----------------------------
(***************************************************************************)
(* The connection of the config entry: setup and its retries, reloads, the *)
(* readings' poll that notices outages, the Repairs issue, and the flows   *)
(* that check a new address or login and then apply it.  A check, a        *)
(* connection attempt and a refresh each await the network, and anything   *)
(* may happen meanwhile.                                                   *)
(*                                                                         *)
(* Home Assistant is the environment: it runs setup under the entry's lock, *)
(* retries it after ConfigEntryNotReady, starts a reauth flow after        *)
(* ConfigEntryAuthFailed, and cancels a loaded entry's refresh at unloading. *)
(***************************************************************************)
EXTENDS Outage

CONSTANTS
    Host, Login,    \* addresses and logins, as the entry stores them
    Device,         \* the devices that may answer, named by their uid
    Nobody, NoId,   \* no device at an address; no uid known
    Places,         \* where the devices can be
    FlowId,         \* bounds the flows awaiting a check at once
    MaxNow,         \* bounds the clock
    MaxChanges      \* bounds what happens in the network

ASSUME PlacesAssumption == Places \subseteq [Host -> Device \cup {Nobody}]
ASSUME NamesAssumption ==
    /\ Nobody \notin Device /\ NoId \notin Device /\ Host \cap Device = {}
    /\ {"auth", "nothing", "error", "none"} \cap Device = {}
    /\ MaxNow \in Nat /\ MaxChanges \in Nat

VARIABLES
    place, key, changes, \* devices by address, the login they accept, changes so far
    entry,               \* entry.data
    state,               \* entry.state, with the stages of setup
    api,                 \* the running setup's or loaded entry's EconetApi
    reload,              \* a reload waits for the entry's lock
    poll,                \* the fast coordinator's refresh is running
    idents, macs,        \* identifiers and MACs of the entry's devices
    forms,               \* open forms: the Fix button's, and a reauth flow's
    flows,               \* flows awaiting a check
    outage, contact      \* history, for the properties only: since when the contacts
                         \* that are reported only failed, and when one last did not

networkVars == <<place, key, changes>>
entryVars == <<entry, state, api, reload, poll, idents, macs, forms>>
outageVars == <<failing, issue>>
history == <<outage, contact>>
vars == <<now, networkVars, entryVars, outageVars, flows, history>>

Conn == [host : Host, login : Login]
Stages == {"connecting", "fast", "slow"}
Flow == [id : FlowId, kind : {"reconfigure", "fix", "reauth", "dhcp"},
         stage : {"old", "new"}, old : Host, host : Host, login : Login]

TypeOK ==
    /\ OutageTypeOK
    /\ place \in Places /\ key \in Login /\ changes \in Nat
    /\ entry \in Conn
    /\ state \in {"none", "loaded", "retry", "refused"} \cup Stages
    /\ api \in [host : Host, login : Login, uid : Device \cup {NoId}]
    /\ reload \in BOOLEAN /\ poll \in BOOLEAN
    /\ forms \subseteq {"fix", "reauth"}
    /\ idents \in SUBSET (Device \cup Host)
    /\ macs \in SUBSET Device
    /\ flows \in SUBSET Flow
    /\ AtMostOneTime(outage)
    /\ contact \in Nat

Init ==
    /\ now = 0 /\ failing = {} /\ issue = FALSE
    /\ place \in Places /\ key \in Login /\ changes = 0
    /\ \E h \in Host, l \in Login : /\ entry = [host |-> h, login |-> l]
                                    /\ api = [host |-> h, login |-> l, uid |-> NoId]
    /\ state = "none" /\ reload = FALSE /\ poll = FALSE
    /\ idents = {} /\ macs = {} /\ forms = {}
    /\ flows = {}
    /\ outage = {} /\ contact = 0

(***************************************************************************)
(* The network.  An outcome is what EconetApi makes of a request with all  *)
(* its attempts: the device that answered, a rejected login (AuthError),   *)
(* nothing of use (None after the last time-out or an HTTP error, a reply  *)
(* without values), or another exception.  The last two are failures,      *)
(* though the controller may have answered.                                *)
(***************************************************************************)
Failures == {"nothing", "error"}

Outcomes(host, login) ==
    Failures \cup (IF place[host] = Nobody THEN {}
                   ELSE IF login = key THEN {place[host]} ELSE {"auth"})

\* The controller is moved, replaced or given another login.
NetworkChange ==
    /\ changes < MaxChanges
    /\ changes' = changes + 1
    /\ place' \in Places /\ key' \in Login
    /\ UNCHANGED <<now, entryVars, outageVars, flows, history>>

Tick ==
    /\ now < MaxNow
    /\ now' = now + 1
    /\ UNCHANGED <<networkVars, entryVars, outageVars, flows, history>>

(***************************************************************************)
(* What the properties remember of the contacts that the code reports,     *)
(* which are setup's connection and the readings' refreshes: since when    *)
(* they only failed, and when a device or a refused login last answered.   *)
(***************************************************************************)
Answered == outage' = {} /\ contact' = now

NotAnswered ==
    /\ outage' = IF outage = {} THEN {now} ELSE outage
    /\ UNCHANGED contact

Remember(r) == IF r \in Failures THEN NotAnswered ELSE Answered

(***************************************************************************)
(* Setup: async_setup_entry up to the platforms.                           *)
(***************************************************************************)
\* _async_connect reads the entry's data before it first awaits.
BeginSetup ==
    /\ state' = "connecting"
    /\ api' = [host |-> entry.host, login |-> entry.login, uid |-> NoId]

\* Home Assistant starts, or the time to retry has come and no reload has
\* cancelled that.
Setup ==
    /\ state = "none" \/ (state = "retry" /\ ~reload)
    /\ BeginSetup
    /\ UNCHANGED <<now, networkVars, entry, reload, poll, idents, macs, forms,
                   outageVars, flows, history>>

\* A reload gets the entry's lock: it unloads and sets up again.
Reload ==
    /\ reload /\ state \notin Stages
    /\ reload' = FALSE
    /\ poll' = FALSE
    /\ BeginSetup
    /\ UNCHANGED <<now, networkVars, entry, idents, macs, forms, outageVars, flows,
                   history>>

\* Setup ends without a loaded entry.
Refused == state' = "refused" /\ forms' = forms \cup {"reauth"}
NotReady == state' = "retry" /\ UNCHANGED forms

\* _async_connect: make_api has fetched sysParams.  It takes a missing reply as
\* success, and only remembers that it has no uid.
Connected(r) ==
    /\ state = "connecting" /\ r \in Outcomes(api.host, api.login)
    /\ CASE r = "auth"  -> ReportSuccess /\ Refused /\ UNCHANGED api
         [] r = "error" -> ReportFailure /\ NotReady /\ UNCHANGED api
         [] OTHER       -> /\ ReportSuccess
                           /\ state' = "fast" /\ UNCHANGED forms
                           /\ api' = IF r = "nothing" THEN api ELSE [api EXCEPT !.uid = r]
    /\ Remember(r)
    /\ UNCHANGED <<now, networkVars, entry, reload, poll, idents, macs, flows>>

\* EconetFastCoordinator._async_update_data: what a refresh reports.
ReportRefresh(r) == IF r \in Failures THEN ReportFailure ELSE ReportSuccess

\* fast.async_config_entry_first_refresh
FirstFastRefresh(r) ==
    /\ state = "fast" /\ r \in Outcomes(api.host, api.login)
    /\ ReportRefresh(r)
    /\ CASE r = "auth"       -> Refused
         [] r \in Failures   -> NotReady
         [] OTHER            -> state' = "slow" /\ UNCHANGED forms
    /\ Remember(r)
    /\ UNCHANGED <<now, networkVars, entry, api, reload, poll, idents, macs, flows>>

\* Mutated form of Identifier: no fallback to the address.
Identifier_Raw == api.uid

\* The identifier of the device that the entities are created with.
Identifier == IF api.uid = NoId THEN api.host ELSE api.uid

\* slow.async_config_entry_first_refresh and the rest of setup: the device is
\* registered, and perhaps a MAC is found for the entry's address.  The settings'
\* coordinator reports nothing.
FirstSlowRefresh(r) ==
    /\ state = "slow" /\ r \in Outcomes(api.host, api.login)
    /\ CASE r = "auth"     -> Refused /\ UNCHANGED <<idents, macs>>
         [] r \in Failures -> NotReady /\ UNCHANGED <<idents, macs>>
         [] OTHER          -> /\ state' = "loaded" /\ UNCHANGED forms
                              /\ idents' = idents \cup {Identifier}
                              /\ macs' \in {macs} \cup
                                    (IF api.uid = NoId \/ place[entry.host] = Nobody THEN {}
                                     ELSE {macs \cup {place[entry.host]}})
    /\ UNCHANGED <<now, networkVars, entry, api, reload, poll, outageVars, flows,
                   history>>

(***************************************************************************)
(* The loaded entry.                                                       *)
(***************************************************************************)
PollStart ==
    /\ state = "loaded" /\ ~poll
    /\ poll' = TRUE
    /\ UNCHANGED <<now, networkVars, entry, state, api, reload, idents, macs, forms,
                   outageVars, flows, history>>

PollReturn(r) ==
    /\ poll /\ r \in Outcomes(api.host, api.login)
    /\ poll' = FALSE
    /\ ReportRefresh(r)
    /\ forms' = forms \cup (IF r = "auth" THEN {"reauth"} ELSE {})
    /\ Remember(r)
    /\ UNCHANGED <<now, networkVars, entry, state, api, reload, idents, macs, flows>>

\* A refresh of the settings ends.  It reports nothing, so that neither its answer
\* ends an outage nor its failure starts one, and a refused login starts the reauth
\* flow all the same.  (Writes report nothing either, and change nothing here.)
SettingsReturn(r) ==
    /\ state = "loaded" /\ r \in Outcomes(api.host, api.login)
    /\ forms' = forms \cup (IF r = "auth" THEN {"reauth"} ELSE {})
    /\ UNCHANGED <<now, networkVars, entry, state, api, reload, poll, idents, macs,
                   outageVars, flows, history>>

\* _async_options_updated: the listener exists while the entry is loaded.
OptionsUpdated ==
    /\ state = "loaded"
    /\ reload' = TRUE
    /\ UNCHANGED <<now, networkVars, entry, state, api, poll, idents, macs, forms,
                   outageVars, flows, history>>

\* Home Assistant stops or crashes: what is not in its registries is lost.
Restart ==
    /\ state' = "none" /\ reload' = FALSE /\ poll' = FALSE /\ forms' = {}
    /\ failing' = {} /\ issue' = FALSE
    /\ flows' = {}
    /\ outage' = {}
    /\ UNCHANGED <<now, networkVars, entry, api, idents, macs, contact>>

(***************************************************************************)
(* Flows that check a connection and apply it.                             *)
(***************************************************************************)
\* Mutated form of Known: no identifier is taken for a controller's.
Known_Nothing == {}

\* _known_uids: identifiers other than the entry's present host.
Known == idents \ {entry.host}

\* async_check_connection, from the answer on: an error key or "none".
CheckError(strict, r) ==
    CASE r = "auth"        -> "invalid_auth"
      [] r \in Failures    -> "cannot_connect"
      [] OTHER             ->
            IF (strict \/ Known # {}) /\ r \notin Known THEN "wrong_device" ELSE "none"

\* Mutated form of Apply: the reload is left to the entry's update listener.
Apply_ListenerOnly(host, login) ==
    /\ entry' = [host |-> host, login |-> login]
    /\ reload' = (reload \/ (state = "loaded" /\ entry' # entry))
    /\ failing' = {}
    /\ outage' = {} /\ UNCHANGED contact

\* async_apply_connection
Apply(host, login) ==
    /\ entry' = [host |-> host, login |-> login]
    /\ reload' = (reload \/ state # "loaded" \/ entry' # entry)
    /\ failing' = {}
    /\ outage' = {} /\ UNCHANGED contact

NewFlow(id, kind, stage, old, host, login) ==
    /\ \A f \in flows : f.id # id
    /\ flows' = flows \cup {[id |-> id, kind |-> kind, stage |-> stage,
                             old |-> old, host |-> host, login |-> login]}
    /\ UNCHANGED <<now, networkVars, entryVars, outageVars, history>>

\* The owner presses the Fix button.
PressFix ==
    /\ issue
    /\ forms' = forms \cup {"fix"}
    /\ UNCHANGED <<now, networkVars, entry, state, api, reload, poll, idents, macs,
                   outageVars, flows, history>>

\* The owner submits an address and a login, or a login for the present address.
Submit(id, kind, host, login) ==
    /\ kind \in forms \cup {"reconfigure"}
    /\ kind = "reauth" => host = entry.host
    /\ NewFlow(id, kind, "new", host, host, login)

\* async_step_dhcp: a MAC of the entry's device was seen at another address.
Discovered(id, host) ==
    /\ host # entry.host /\ place[host] \in macs
    /\ NewFlow(id, "dhcp", "old", entry.host, host, entry.login)

\* The controller still answers where it was, or the new address is tried.
OldChecked(f, r) ==
    /\ f \in flows /\ f.stage = "old" /\ r \in Outcomes(f.old, f.login)
    /\ flows' = (flows \ {f}) \cup
          (IF CheckError(TRUE, r) \in {"none", "invalid_auth"} THEN {}
           ELSE {[f EXCEPT !.stage = "new"]})
    /\ UNCHANGED <<now, networkVars, entryVars, outageVars, history>>

\* The check of the new connection returns: it is applied, or the form is shown
\* again with the error.
NewChecked(f, r) ==
    /\ f \in flows /\ f.stage = "new" /\ r \in Outcomes(f.host, f.login)
    /\ flows' = flows \ {f}
    /\ IF CheckError(f.kind = "dhcp", r) = "none"
       THEN /\ Apply(f.host, f.login)
            /\ issue' = (issue /\ f.kind # "fix")
            /\ forms' = forms \ {f.kind}
       ELSE UNCHANGED <<entry, reload, forms, outageVars, history>>
    /\ UNCHANGED <<now, networkVars, state, api, poll, idents, macs>>

-----------------------------------------------------------------------------
Results == Device \cup Failures \cup {"auth"}

SetupStep == \E r \in Results : Connected(r) \/ FirstFastRefresh(r) \/ FirstSlowRefresh(r)

Next ==
    \/ NetworkChange \/ Tick
    \/ Setup \/ Reload
    \/ \E r \in Results : Connected(r)
    \/ \E r \in Results : FirstFastRefresh(r)
    \/ \E r \in Results : FirstSlowRefresh(r)
    \/ PollStart \/ \E r \in Results : PollReturn(r)
    \/ \E r \in Results : SettingsReturn(r)
    \/ OptionsUpdated \/ Restart \/ PressFix
    \/ \E id \in FlowId, k \in {"reconfigure", "fix", "reauth"}, h \in Host, l \in Login :
          Submit(id, k, h, l)
    \/ \E id \in FlowId, h \in Host : Discovered(id, h)
    \/ \E f \in flows, r \in Results : OldChecked(f, r)
    \/ \E f \in flows, r \in Results : NewChecked(f, r)

Spec == Init /\ [][Next]_vars

\* Home Assistant sets up, retries, reloads and polls; every request ends.
Fairness ==
    /\ WF_vars(Setup) /\ WF_vars(Reload)
    /\ WF_vars(SetupStep)
    /\ WF_vars(PollStart) /\ WF_vars(\E r \in Results : PollReturn(r))

FairSpec == Spec /\ Fairness

-----------------------------------------------------------------------------
(***************************************************************************)
(* Properties.                                                             *)
(***************************************************************************)
\* A loaded entry talks to the address and with the login it stores, unless a
\* reload is on its way: a connection applied at any stage of setup takes effect
\* (async_apply_connection).
LoadedApiMatchesEntry ==
    state = "loaded" /\ ~reload => api.host = entry.host /\ api.login = entry.login

\* There is an issue only if every connection attempt and every refresh of the
\* readings for CONNECTION_ISSUE_AFTER got neither data nor a refusal of the login,
\* whatever was reloaded or applied meanwhile, and even where setup took a missing
\* reply for a success.  Nothing is claimed of settings refreshes, writes and checks
\* of a flow: they report nothing, and may have been answered meanwhile.
IssueMeansOutage == issue => now - contact >= IssueAfter

\* Once a controller is known, the entry only moves to where that controller
\* answers and accepts the login (README "Changing the controller's address").
OnlyKnownControllers ==
    [][entry' # entry /\ idents \cap Device # {} =>
          place[entry'.host] \in idents /\ entry'.login = key]_vars

\* A connection that is applied comes into use.
AppliedIsUsed ==
    [](entry # [host |-> api.host, login |-> api.login] =>
         <>(entry = [host |-> api.host, login |-> api.login]))

\* Once every contact that is reported is answered, the issue goes away for good.
IssueClears == <>[](outage = {}) => <>[]~issue

-----------------------------------------------------------------------------
(***************************************************************************)
(* What the documentation says and the code does not do.                   *)
(***************************************************************************)
\* async_report_success: "Contact works again: forget the outage and clear the
\* issue" (so README: "If the controller has been unreachable for 10 minutes,
\* Settings > Repairs shows a Fix button").  Otherwise a new connection or a
\* restart forgets it.
ForgottenOnContact ==
    [][(failing # {} /\ failing' = {}) \/ (issue /\ ~issue') => outage' = {}]_vars
=============================================================================
