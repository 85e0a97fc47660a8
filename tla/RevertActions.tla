---------------------------- MODULE RevertActions ----------------------------
(***************************************************************************)
(* The manual Revert of a setting that was changed at the controller: the  *)
(* settings poll feeds the change detector and RevertActions, a phone      *)
(* gets a single-use action, and a tap on it reads the settings again and  *)
(* writes the old value back.  Everything runs in one event loop, so a     *)
(* coroutine is interleaved with the others only where it awaits; each     *)
(* action below is one stretch of code between two awaits.                 *)
(*                                                                         *)
(* All requests of one client share the FIFO lock of EconetClient, modelled*)
(* by the queue wire: its head is the request being served.  A reload makes *)
(* a new client; what the old one has queued is served beside it.          *)
(***************************************************************************)
EXTENDS ChangeDetector, SequencesExt

CONSTANTS
    Menus,       \* the settings the controller can hold
    Options,     \* the entry's options the user can choose between
    RefreshId,   \* bounds the refreshes that have reads running at once
    OpId,        \* bounds the _handle_action coroutines running at once
    WriteId,     \* bounds the entity writes running at once
    MaxPending,  \* MAX_PENDING
    TTL,         \* ACTION_TTL
    MaxAttempts, \* API_MAX_RETRIES
    MaxNow,      \* bounds the clock
    MaxToken,    \* after this many actions the model offers no more
    MaxGuest     \* bounds the changes made at the controller

ASSUME MenusAssumption == Menus \subseteq Menu
\* Coroutines are told apart by their names.
ASSUME IdsAssumption ==
    /\ OpId \cap WriteId = {} /\ RefreshId \cap (OpId \cup WriteId) = {}
    /\ "nobody" \notin RefreshId \cup OpId \cup WriteId
ASSUME OptionsAssumption ==
    Options \subseteq [safe : BOOLEAN, push : BOOLEAN, service : BOOLEAN]
ASSUME BoundsAssumption ==
    /\ MaxPending \in Nat \ {0} /\ TTL \in Nat \ {0} /\ MaxAttempts \in Nat \ {0}
    /\ MaxNow \in Nat /\ MaxToken \in Nat /\ MaxGuest \in Nat

VARIABLES
    controller,  \* the settings the controller holds
    wire,        \* requests holding or waiting for the client's lock, FIFO
    oldWires,    \* the queues of earlier clients, while not empty
    left,        \* reads still running whose answer nobody uses any more
    poll,        \* the slow coordinator's refresh
    pollOk,      \* its last_update_success
    phase,       \* "down", "loaded" (listeners, no actions yet), "active"
    options,     \* entry.options
    now,         \* monotonic()
    previous,    \* RevertActions._previous
    pending,     \* RevertActions._pending
    issued,      \* number of tokens drawn
    sends,       \* tokens whose _send task has not run yet
    phone,       \* tokens shown on the phone
    ops,         \* running _handle_action coroutines
    writes,      \* running entity writes
    guestChanges, alerts, explained  \* history, for the properties only

wires == <<wire, oldWires, left>>
envVars == <<controller, options, now, guestChanges>>
pollVars == <<poll, pollOk, phase>>
revertVars == <<previous, pending, issued>>
history == <<alerts, explained>>
vars == <<detectorVars, envVars, wire, oldWires, left, pollVars, revertVars, sends, phone, ops,
          writes, history>>

(***************************************************************************)
(* Types.                                                                  *)
(***************************************************************************)
\* PendingRevert; token is its key in _pending, numbered in insertion order.
Pending == [token : Nat, index : Index, name : Name, old : Value, new : Value,
            expires : Nat]

\* A queued request.  by is the coroutine that asked.
Request == [kind : {"edit", "sys", "fetch", "revert", "entity"},
            by : RefreshId \cup OpId \cup WriteId, tries : Nat]

\* The local variables of a running _handle_action.  superseded stands for
\* generation != self._generation: the counter only grows and is only compared
\* with the value captured at the tap.  live is the old object's _active once
\* the entry was reloaded.
Op == [id : OpId, pc : {"fetching", "fetched", "setting", "set"}, act : Pending,
       superseded : BOOLEAN, live : BOOLEAN, ok : BOOLEAN, fresh : Menu]

Write == [id : WriteId, pc : {"setting", "set"}, name : Name, value : Value,
          live : BOOLEAN, ok : BOOLEAN]

\* "failed" is no answer or an HTTP error, which get() returns as None; "raised"
\* an exception that get() lets through (HTTP 401, connection refused).
Answers == {"none", "ok", "failed", "raised"}

\* A refresh of the slow coordinator and what its two reads brought; nobody is
\* refreshing between two of them.
Reads == {"edit", "sys"}
Refresh == [by : RefreshId \cup {"nobody"}, edit : Answers, sys : Answers, data : Menu]

TypeOK ==
    /\ DetectorTypeOK
    /\ controller \in Menu
    /\ left \in SUBSET (Reads \X RefreshId)
    /\ poll \in Refresh
    /\ pollOk \in BOOLEAN
    /\ phase \in {"down", "loaded", "active"}
    /\ options \in Options
    /\ now \in Nat
    /\ previous \in Menu
    /\ pending \in SUBSET Pending
    /\ issued \in Nat
    /\ sends \in SUBSET Nat
    /\ phone \in SUBSET Nat
    /\ ops \in SUBSET Op
    /\ writes \in SUBSET Write
    /\ guestChanges \in Nat
    /\ alerts \in Nat
    /\ explained \in SUBSET Nat

IdlePoll == [by |-> "nobody", edit |-> "none", sys |-> "none", data |-> Nothing]
Polling == poll.by # "nobody"

Init ==
    /\ snapshot = Nothing /\ selfWrites = {} /\ revertWrites = {}
    /\ controller \in Menus
    /\ wire = <<>> /\ oldWires = {} /\ left = {}
    /\ poll = IdlePoll /\ pollOk = TRUE /\ phase = "down"
    /\ options \in Options
    /\ now = 0
    /\ previous = Nothing /\ pending = {} /\ issued = 0
    /\ sends = {} /\ phone = {}
    /\ ops = {} /\ writes = {}
    /\ guestChanges = 0 /\ alerts = 0 /\ explained = {}

(***************************************************************************)
(* The environment.                                                        *)
(***************************************************************************)
\* A guest changes a setting at the controller, or its firmware renames,
\* moves or drops parameters.
GuestChange ==
    /\ guestChanges < MaxGuest
    /\ \E menu \in Menus \ {controller} : controller' = menu
    /\ guestChanges' = guestChanges + 1
    /\ UNCHANGED <<detectorVars, options, now, wires, pollVars, revertVars, sends,
                   phone, ops, writes, history>>

Tick ==
    /\ now < MaxNow
    /\ now' = now + 1
    /\ UNCHANGED <<detectorVars, controller, options, guestChanges, wires, pollVars,
                   revertVars, sends, phone, ops, writes, history>>

\* The options flow stores new options; the reload they cause is Close and
\* the setup after it, some time later.
ChangeOptions ==
    /\ \E o \in Options \ {options} : options' = o
    /\ UNCHANGED <<detectorVars, controller, now, guestChanges, wires, pollVars,
                   revertVars, sends, phone, ops, writes, history>>

(***************************************************************************)
(* RevertActions.observe.                                                  *)
(***************************************************************************)
\* Does data still show the transition of action or change p, and may its old
\* value be written back?
Matches(data, p) ==
    /\ p.index \in DOMAIN data
    /\ data[p.index].name = p.name
    /\ p.old \in data[p.index].writable
    /\ data[p.index].value = p.new
    /\ UniqueName(data, p.name)

\* Mutated form of Surviving: only expiry removes an action.
Surviving_Unverified(data) == {p \in pending : p.expires > now}

\* The actions a poll showing data leaves offered.
Surviving(data) == {p \in pending : p.expires > now /\ Matches(data, p)}

\* The external changes that may be offered for Revert.
Revertible(data) ==
    {c \in External(data) :
        /\ c.name \notin Volatile
        /\ {c.old, c.new} \subseteq ValidValue[c.name]
        /\ c.index \in DOMAIN previous
        /\ previous[c.index].name = c.name
        /\ previous[c.index].value = c.old
        /\ Matches(data, c)
        /\ UniqueName(previous, c.name)}

\* The model offers no more once MaxToken actions were offered.
Offering == phase = "active" /\ options.push /\ options.service /\ issued < MaxToken

Offered(data) == IF Offering THEN Revertible(data) ELSE {}

\* Tokens are drawn in the order of the changes.
Token(data, c) == issued + Cardinality({d \in Offered(data) : d.index <= c.index})

\* The new actions.
Offers(data) ==
    {[token |-> Token(data, c), index |-> c.index, name |-> c.name, old |-> c.old,
      new |-> c.new, expires |-> now + TTL] : c \in Offered(data)}

\* Mutated form of Replaced: nothing is removed before the offers are added.
Replaced_Added(kept, offers) == pending \cup offers

\* Mutated form of Newest: the limit is checked after inserting, off by one.
Newest_OneMore(actions) ==
    {p \in actions : Cardinality({q \in actions : q.token > p.token}) <= MaxPending}

\* An action of the same name is replaced; beyond MaxPending the oldest go.
Replaced(kept, offers) ==
    {p \in kept : \A q \in offers : q.name # p.name} \cup offers

Newest(actions) ==
    {p \in actions : Cardinality({q \in actions : q.token > p.token}) < MaxPending}

\* Mutated form of Superseded: a poll does not advance the generation.
Superseded_Never == ops

\* Every poll supersedes the taps that are still reading.
Superseded == {[op EXCEPT !.superseded = TRUE] : op \in ops}

\* observe as a whole.
Observe(data) ==
    /\ pending' = Newest(Replaced(Surviving(data), Offers(data)))
    /\ previous' = data
    /\ issued' = issued + Cardinality(Offered(data))
    /\ sends' = sends \cup {p.token : p \in Offers(data)}
    /\ ops' = Superseded

\* _on_slow_update: detection first, then the actions.
HandlePoll(data) ==
    /\ ProcessEditParams(data)
    /\ Observe(data)
    /\ alerts' = IF alerts + Cardinality(External(data)) > MaxGuest
                 THEN MaxGuest + 1 ELSE alerts + Cardinality(External(data))
    /\ explained' = explained \cup
          (IF DOMAIN data = {} THEN {} ELSE {w.token : w \in Observed(Extract(data))})
    /\ UNCHANGED phone

(***************************************************************************)
(* The settings poll: EconetSlowCoordinator under DataUpdateCoordinator.   *)
(***************************************************************************)
Ask(kind, by) == [kind |-> kind, by |-> by, tries |-> MaxAttempts]

\* The interval elapsed, a refresh was requested, or setup does the first one.
\* asyncio.gather puts both requests in the queue at once.
PollStart(id) ==
    /\ ~Polling
    /\ \A t \in left : t[2] # id
    /\ poll' = [IdlePoll EXCEPT !.by = id]
    /\ wire' = wire \o <<Ask("edit", id), Ask("sys", id)>>
    /\ UNCHANGED <<detectorVars, envVars, oldWires, left, pollOk, phase, revertVars,
                   sends, phone, ops, writes, history>>

\* The reads that the refresh still waits for.
Unanswered ==
    (IF poll.edit = "none" THEN {<<"edit", poll.by>>} ELSE {})
    \cup (IF poll.sys = "none" THEN {<<"sys", poll.by>>} ELSE {})

\* asyncio.gather is done: both reads came back, or one of them raised.
Answered == Polling /\ (Unanswered = {} \/ "raised" \in {poll.edit, poll.sys})

\* Both answers arrived: the listeners run, or setup records the baseline.
PollReturn ==
    /\ Answered /\ poll.edit = "ok" /\ poll.sys = "ok"
    /\ HandlePoll(poll.data)
    /\ poll' = IdlePoll
    /\ pollOk' = TRUE
    /\ phase' = IF phase = "down" THEN "loaded" ELSE phase
    /\ UNCHANGED <<envVars, wires, writes>>

\* What the coordinator does on UpdateFailed: after a success it tells its
\* listeners once, with the data it still has; setup gives up until a retry,
\* which makes a new coordinator.
Fail ==
    /\ poll' = IdlePoll
    /\ pollOk' = (phase = "down")
    /\ IF phase # "down" /\ pollOk
       THEN HandlePoll(previous)
       ELSE UNCHANGED <<detectorVars, revertVars, sends, phone, ops, history>>
    /\ UNCHANGED <<envVars, phase, writes>>

\* A new client takes over; what queue holds is still served by the old one.
NewClient(queue) == wire' = <<>> /\ oldWires' = (oldWires \cup {queue}) \ {<<>>}

\* One of the two reads came back without data.  gather does not wait for the
\* other one after an exception, and does not cancel it either.  A setup that
\* failed is tried again with a new client.
PollFailed ==
    /\ Answered /\ {poll.edit, poll.sys} \cap {"failed", "raised"} # {}
    /\ Fail
    /\ left' = left \cup Unanswered
    /\ IF phase = "down" THEN NewClient(wire) ELSE UNCHANGED <<wire, oldWires>>

\* Mutated form of WithoutPoll: the cancelled requests stay queued.
WithoutPoll_Kept(queue) == queue

\* The queue once the refresh is cancelled: its two requests leave the lock,
\* whichever of them still hold it or wait for it.
Without(queue, kind) == RemoveFirstMatch(queue, LAMBDA r : r.kind = kind /\ r.by = poll.by)
WithoutPoll(queue) == Without(Without(queue, "edit"), "sys")

\* COORDINATOR_TIMEOUT cancels the refresh and what it still has in the queue.
PollTimeout ==
    /\ Polling
    /\ Fail
    /\ wire' = WithoutPoll(wire)
    /\ UNCHANGED <<oldWires, left>>

(***************************************************************************)
(* Loading and unloading the entry.                                        *)
(***************************************************************************)
\* async_setup_entry after the platforms are set up: revert_actions.start().
Start ==
    /\ phase = "loaded"
    /\ phase' = "active"
    /\ UNCHANGED <<detectorVars, envVars, wires, poll, pollOk, revertVars, sends,
                   phone, ops, writes, history>>

\* Unloading: close() and the removal of the listeners; a later setup builds
\* new objects.  Coroutines of the old ones run on, without a detector or an
\* active RevertActions that anyone else sees.  A refresh that the interval
\* started is cancelled; one that was requested (hass.async_create_task) runs on,
\* and no listener is there for its outcome.  Its own time limit is left out:
\* its reads end by their answers or with their attempts.
Close ==
    /\ phase = "active"
    /\ phase' = "down"
    /\ DetectorReset
    /\ previous' = Nothing /\ pending' = {}
    /\ poll' = IdlePoll /\ pollOk' = TRUE
    /\ \/ NewClient(WithoutPoll(wire)) /\ UNCHANGED left
       \/ Polling /\ NewClient(wire) /\ left' = left \cup Unanswered
    /\ ops' = {[op EXCEPT !.live = FALSE] : op \in ops}
    /\ writes' = {[w EXCEPT !.live = FALSE] : w \in writes}
    /\ UNCHANGED <<envVars, issued, sends, phone, history>>

(***************************************************************************)
(* Offering an action and acting on a tap.                                 *)
(***************************************************************************)
\* _send of an action still pending: it reaches the phone or not, and the
\* call succeeds or raises.  What happens to _pending during the call makes
\* no difference to removing the token after it.
Send(t) ==
    /\ t \in sends
    /\ sends' = sends \ {t}
    /\ IF \E p \in pending : p.token = t
       THEN \/ phone' = phone \cup {t} /\ UNCHANGED pending
            \/ /\ phone' \in {phone, phone \cup {t}}
               /\ pending' = {p \in pending : p.token # t}
       ELSE UNCHANGED <<phone, pending>>
    /\ UNCHANGED <<detectorVars, envVars, wires, pollVars, previous, issued, ops,
                   writes, history>>

\* Mutated form of Consumed: the token stays valid while its tap is running.
Consumed_Kept(p) == pending

\* _pending.pop(token): the tap takes the action out before anything else.
Consumed(p) == pending \ {p}

\* _handle_action up to its first await.  A tap on a token that is not pending
\* changes nothing.
Tap(id, p) ==
    /\ phase = "active" /\ p \in pending /\ p.token \in phone
    /\ \A op \in ops : op.id # id
    /\ pending' = Consumed(p)
    /\ IF p.expires <= now \/ ~options.push \/ options.safe
       THEN UNCHANGED <<ops, wires>>
       ELSE /\ ops' = ops \cup {[id |-> id, pc |-> "fetching", act |-> p,
                                 superseded |-> FALSE, live |-> TRUE,
                                 ok |-> FALSE, fresh |-> Nothing]}
            /\ wire' = Append(wire, Ask("fetch", id))
            /\ UNCHANGED <<oldWires, left>>
    /\ UNCHANGED <<detectorVars, envVars, pollVars, previous, issued, sends,
                   phone, writes, history>>

\* Mutated form of Allowed: Safe Mode is only looked at before the read.
Allowed_SafeModeUnread(op) ==
    op.live /\ now < op.act.expires /\ ~op.superseded /\ options.push

\* Mutated form of Allowed: a tap goes on although a poll has overtaken it.
Allowed_Overtaken(op) ==
    op.live /\ now < op.act.expires /\ ~options.safe /\ options.push

\* May the tap go on once it has read the settings?
Allowed(op) ==
    /\ op.live /\ now < op.act.expires /\ ~op.superseded
    /\ ~options.safe /\ options.push

Verified(op) == op.ok /\ Matches(op.fresh, op.act)

\* _handle_action between fetch_edit_params and set_param; what was fetched is
\* not used any more.
FetchReturn(op) ==
    /\ op \in ops /\ op.pc = "fetched"
    /\ IF Allowed(op) /\ Verified(op)
       THEN /\ revertWrites' = BeginRevert(op.act.token, op.act)
            /\ ops' = (ops \ {op}) \cup {[op EXCEPT !.pc = "setting", !.fresh = Nothing]}
            /\ wire' = Append(wire, Ask("revert", op.id))
            /\ UNCHANGED <<oldWires, left>>
       ELSE /\ ops' = ops \ {op}
            /\ UNCHANGED <<revertWrites, wires>>
    /\ UNCHANGED <<snapshot, selfWrites, envVars, pollVars, revertVars, sends, phone,
                   writes, history>>

\* Mutated form of SetReturn: a failed write leaves its expectation active.
SetReturn_Unfinished(op) ==
    /\ op \in ops /\ op.pc = "set"
    /\ ops' = ops \ {op}
    /\ revertWrites' = IF op.ok THEN FinishRevert(op.act.token) ELSE revertWrites
    /\ UNCHANGED <<snapshot, selfWrites, envVars, wires, pollVars, revertVars, sends,
                   phone, writes, history>>

\* Mutated form of SetReturn: a failed write offers its action again.
SetReturn_Reoffered(op) ==
    /\ op \in ops /\ op.pc = "set"
    /\ ops' = ops \ {op}
    /\ revertWrites' = FinishRevert(op.act.token)
    /\ pending' = IF op.ok THEN pending ELSE pending \cup {op.act}
    /\ UNCHANGED <<snapshot, selfWrites, envVars, wires, pollVars, previous, issued,
                   sends, phone, writes, history>>

\* _handle_action after set_param: finish_revert runs whatever the outcome.  It
\* belongs to a detector that is gone if the entry was reloaded, and then finds
\* nothing in the one there is.
SetReturn(op) ==
    /\ op \in ops /\ op.pc = "set"
    /\ ops' = ops \ {op}
    /\ revertWrites' = FinishRevert(op.act.token)
    /\ UNCHANGED <<snapshot, selfWrites, envVars, wires, pollVars, revertVars, sends,
                   phone, writes, history>>

(***************************************************************************)
(* Writes by the integration's own entities: EconetSettingEntity.          *)
(***************************************************************************)
EntityWrite(id, n, v) ==
    /\ phase # "down" /\ ~options.safe
    /\ \A w \in writes : w.id # id
    /\ v \in ValidValue[n]
    /\ selfWrites' = selfWrites \cup {n}
    /\ writes' = writes \cup {[id |-> id, pc |-> "setting", name |-> n, value |-> v,
                               live |-> TRUE, ok |-> FALSE]}
    /\ wire' = Append(wire, Ask("entity", id))
    /\ UNCHANGED <<snapshot, revertWrites, envVars, oldWires, left, pollVars, revertVars,
                   sends, phone, ops, history>>

\* A write answered with a refusal or given up takes its marker back; one that
\* raised (HTTP 401, connection refused) leaves _async_write before that line.
EntityReturn(w) ==
    /\ w \in writes /\ w.pc = "set"
    /\ writes' = writes \ {w}
    /\ selfWrites' \in IF w.live /\ ~w.ok THEN {selfWrites, selfWrites \ {w.name}}
                       ELSE {selfWrites}
    /\ UNCHANGED <<snapshot, revertWrites, envVars, wires, pollVars, revertVars,
                   sends, phone, ops, history>>

(***************************************************************************)
(* The client: EconetClient.get serves the head of the queue.              *)
(***************************************************************************)
\* Is coroutine x the one waiting for the answer to r?
Awaits(x, r) == x.id = r.by /\ x.pc \in {"fetching", "setting"}

\* Mutated form of Reply: the ranges are dropped from what was read.
Reply_Values(ok) == IF ok THEN Extract(controller) ELSE Nothing

\* What a reader gets from an answer.
Reply(ok) == IF ok THEN controller ELSE Nothing

\* A tap with the answer to its read or to its write.
Resumed(op, ok) ==
    IF op.pc = "fetching"
    THEN [op EXCEPT !.pc = "fetched", !.ok = ok, !.fresh = Reply(ok)]
    ELSE [op EXCEPT !.pc = "set", !.ok = ok]

\* Request r ends: ok for the coroutine that asked, answer for a refresh, which
\* tells an exception from the rest.
Deliver(r, ok, answer) ==
    /\ poll' = CASE r.by # poll.by -> poll
                 [] r.by = poll.by /\ r.kind = "edit" ->
                       [poll EXCEPT !.edit = answer, !.data = Reply(ok)]
                 [] OTHER -> [poll EXCEPT !.sys = answer]
    /\ left' = left \ {<<r.kind, r.by>>}
    /\ ops' = {IF Awaits(op, r) THEN Resumed(op, ok) ELSE op : op \in ops}
    /\ writes' = {IF Awaits(w, r) THEN [w EXCEPT !.pc = "set", !.ok = ok] ELSE w :
                     w \in writes}

\* What the controller can hold after it obeyed request r: a read changes
\* nothing, a write assigns what its waiter asked for.
Obeyed(r) ==
    IF r.kind \in {"revert", "entity"}
    THEN {Assign(controller, op.act.name, op.act.old) : op \in {o \in ops : Awaits(o, r)}}
         \cup {Assign(controller, w.name, w.value) : w \in {x \in writes : Awaits(x, r)}}
    ELSE {controller}

\* The queue q of some client becomes q2; an old one is forgotten once empty.
Requeue(q, q2) ==
    IF q = wire THEN wire' = q2 /\ UNCHANGED oldWires
    ELSE oldWires' = ((oldWires \ {q}) \cup {q2}) \ {<<>>} /\ UNCHANGED wire

\* Answers of one client are at least MIN_REQUEST_GAP seconds apart, so whoever
\* awaited the last one runs before the next arrives.
Settled(q) ==
    q = wire => /\ ~Answered
                /\ \A op \in ops : op.live => op.pc \notin {"fetched", "set"}
                /\ \A w \in writes : w.live => w.pc # "set"

\* The request ends other than by a timeout: an acknowledged write was obeyed.
\* An HTTP error, a refusal, an acknowledgement of something else and an exception
\* are answers that are not ok; what they say of the controller is not certain.
Answer(q) ==
    /\ q # <<>> /\ Settled(q)
    /\ Requeue(q, Tail(q))
    /\ \/ Deliver(Head(q), TRUE, "ok") /\ controller' \in Obeyed(Head(q))
       \/ /\ \E answer \in {"failed", "raised"} : Deliver(Head(q), FALSE, answer)
          /\ controller' \in {controller} \cup Obeyed(Head(q))
    /\ UNCHANGED <<detectorVars, options, now, guestChanges, pollOk, phase,
                   revertVars, sends, phone, history>>

\* Mutated form of Retry: the attempts are not counted.
Retry_Forever(r) == r

\* The request of the next attempt.
Retry(r) == [r EXCEPT !.tries = @ - 1]

\* No answer within API_TIMEOUT, obeyed or not: get() queues again for its next
\* attempt, or gives up after the last one.
TimedOut(q) ==
    /\ q # <<>> /\ Settled(q)
    /\ controller' \in {controller} \cup Obeyed(Head(q))
    /\ IF Head(q).tries > 1
       THEN /\ Requeue(q, Append(Tail(q), Retry(Head(q))))
            /\ UNCHANGED <<poll, left, ops, writes>>
       ELSE /\ Requeue(q, Tail(q))
            /\ Deliver(Head(q), FALSE, "failed")
    /\ UNCHANGED <<detectorVars, options, now, guestChanges, pollOk, phase,
                   revertVars, sends, phone, history>>

-----------------------------------------------------------------------------
Serve(q) == Answer(q) \/ TimedOut(q)

Next ==
    \/ GuestChange \/ Tick \/ ChangeOptions
    \/ \E id \in RefreshId : PollStart(id)
    \/ PollReturn \/ PollFailed \/ PollTimeout
    \/ Start \/ Close
    \/ \E t \in sends : Send(t)
    \/ \E id \in OpId, p \in pending : Tap(id, p)
    \/ \E op \in ops : FetchReturn(op) \/ SetReturn(op)
    \/ \E id \in WriteId, n \in Name, v \in Value : EntityWrite(id, n, v)
    \/ \E w \in writes : EntityReturn(w)
    \/ \E q \in {wire} \cup oldWires : Answer(q) \/ TimedOut(q)

Spec == Init /\ [][Next]_vars

\* A coroutine of an unloaded entry waits in the queue q of its client.
Serves(q, id) == \E i \in DOMAIN q : q[i].by = id

\* The event loop runs every coroutine whose awaited answer has come, and every
\* request ends by its answer or by its timeout.
Fairness ==
    /\ WF_vars(Serve(wire))
    /\ \A id \in OpId \cup WriteId : WF_vars(\E q \in oldWires : Serves(q, id) /\ Serve(q))
    /\ WF_vars(PollReturn \/ PollFailed)
    /\ \A id \in OpId : WF_vars(\E op \in ops : op.id = id /\ (FetchReturn(op) \/ SetReturn(op)))
    /\ \A id \in WriteId : WF_vars(\E w \in writes : w.id = id /\ EntityReturn(w))

FairSpec == Spec /\ Fairness

-----------------------------------------------------------------------------
(***************************************************************************)
(* Safety.                                                                 *)
(***************************************************************************)
\* What each coroutine that awaits an answer asked for, and the places of the
\* queues.
Waiting ==
    {<<IF op.pc = "fetching" THEN "fetch" ELSE "revert", op.id>> :
        op \in {o \in ops : o.pc \in {"fetching", "setting"}}}
    \cup {<<"entity", w.id>> : w \in {x \in writes : x.pc = "setting"}}
    \cup (IF Polling THEN Unanswered ELSE {})
    \cup left

Queues == {wire} \cup oldWires
Places == UNION {{<<q, i>> : i \in DOMAIN q} : q \in Queues}

\* Every coroutine that awaits an answer has exactly one request queued, and
\* nothing else is queued: not a retry, not a reload and not a refresh that ends
\* by its timeout or by an exception of one of its reads loses a request that
\* somebody still waits for, or leaves one that no coroutine is behind (api.py,
\* get).  The read that such an exception leaves running is still such a
\* coroutine, although its answer is not used.
WireServesEveryWaiter ==
    /\ \A q \in Queues : q \in Seq(Request)
    /\ {<<p[1][p[2]].kind, p[1][p[2]].by>> : p \in Places} = Waiting
    /\ Cardinality(Places) = Cardinality(Waiting)

\* Every action on offer is still what the last poll showed: the setting sits at
\* its index under a unique name, holds the guest's value, and may be set back
\* (observe drops whatever a poll contradicts, README "Revert").
PendingMatchesLastPoll == \A p \in pending : Matches(previous, p)

\* At most one action per setting is on offer.
OneActionPerSetting == \A p, q \in pending : p.name = q.name => p = q

\* No more than MAX_PENDING actions are on offer.
PendingBounded == Cardinality(pending) <= MaxPending

\* A tap that no poll has superseded acts on what the last poll showed, however
\* long its read of the settings takes and whatever is polled meanwhile.
UnsupersededTapIsCurrent ==
    \A op \in ops : op.live /\ ~op.superseded /\ op.pc \in {"fetching", "fetched"}
                       => Matches(previous, op.act)

\* A token is on offer or used by one running tap, never both and never by two.
TokenUsedOnce ==
    /\ \A op \in ops, p \in pending : op.act.token # p.token
    /\ \A o1, o2 \in ops : o1.act.token = o2.act.token => o1 = o2

\* The detector expects the outcome of a Revert only while that Revert is being
\* written, or until the next poll after it: no expectation stays in force to
\* swallow a change a guest makes later.
ExpectationHasOwner ==
    \A w \in revertWrites : w.active =>
        \E op \in ops : op.act.token = w.token /\ op.pc \in {"setting", "set"}

\* An authorised Revert accounts for one observed change; afterwards the same
\* transition is reported as the guest's.
RevertExplainsOneChange == \A w \in revertWrites : w.token \notin explained

(***************************************************************************)
(* What a step may not do.                                                 *)
(***************************************************************************)
\* A token that was consumed, expired or replaced is never offered again.
TokensAreFresh ==
    [][\A p \in pending' : p \in pending \/ p.token > issued]_vars

\* A Revert is written only for an action the user tapped, while the integration
\* is loaded and out of Safe Mode, and while the last poll still shows exactly
\* the transition it undoes.
RevertWriteAuthorised ==
    [][\A op \in ops' :
          op.pc = "setting" /\ (\A o \in ops : o.id = op.id => o.pc # "setting") =>
             /\ phase = "active" /\ ~options.safe
             /\ op.act.token \in phone /\ now < op.act.expires
             /\ Matches(previous, op.act)]_vars

\* Does a request that is in both queues have an attempt less in s, or not
\* more before it than in q?
Advances(q, s) ==
    \A i \in DOMAIN q, j \in DOMAIN s : q[i].kind = s[j].kind /\ q[i].by = s[j].by =>
        \/ s[j].tries < q[i].tries
        \/ s[j].tries = q[i].tries /\ j <= i

\* The lock is fair: nobody is overtaken while waiting for it, by later requests,
\* by retries of others or in a reload, and whoever goes back to the end of the
\* queue has used up an attempt (api.py, get; asyncio.Lock).
RequestsAdvance == [][\A q \in Queues, s \in Queues' : Advances(q, s)]_vars

(***************************************************************************)
(* Refinement.                                                             *)
(***************************************************************************)
\* The tokens of the taps of S that have not begun to write, and that have.
Reading(S) == {op.act.token : op \in {o \in S : o.pc \in {"fetching", "fetched"}}}
Writing(S) == {op.act.token : op \in {o \in S : o.pc \in {"setting", "set"}}}

Promise == INSTANCE RevertPromise WITH
    drawn   <- issued,
    offered <- {p.token : p \in pending},
    reading <- Reading(ops),
    valid   <- Reading({op \in ops : op.live /\ ~op.superseded}),
    writing <- Writing(ops)

\* The single-use promise of RevertPromise holds of the code: polls, reloads,
\* send failures, taps and answers in any order amount to its steps.
PromiseKept == Promise!Spec

(***************************************************************************)
(* Liveness.                                                               *)
(***************************************************************************)
\* Every tap runs to its end: polls keep queueing for the same lock, but a
\* request is retried at most API_MAX_RETRIES times and waits its turn.
TapTerminates ==
    \A id \in OpId : (\E op \in ops : op.id = id) ~> (\A op \in ops : op.id # id)

(***************************************************************************)
(* What the documentation says and the code does not do.                   *)
(***************************************************************************)
\* README, on the next poll after a Revert: no more changes are reported as
\* external than were made at the controller, this integration's own Revert is never taken for one.
OwnRevertNotReported == alerts <= guestChanges
=============================================================================
