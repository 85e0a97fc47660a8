--------------------------- MODULE SettingsRefresh ---------------------------
(***************************************************************************)
(* How a change made at the controller gets into the change log and is     *)
(* counted by a diagnostic sensor: the fast poll sees a version counter    *)
(* move and requests an early settings poll from a debouncer, the settings *)
(* poll runs change detection, each change is written to the database by a *)
(* job of its own in the executor, and the RecentChanges sensor counts     *)
(* them.                                                                   *)
(*                                                                         *)
(* One setting of editParams and one parameter of sysParams stand for all, *)
(* as each is compared and logged without regard to the others.  What      *)
(* their values are does not matter here, only which somebody has seen:    *)
(* each is a number that grows with every change.  A reply may have no     *)
(* data, or data that lack the parameter.                                  *)
(***************************************************************************)
EXTENDS Naturals, FiniteSets

CONSTANTS
    MaxChanges,  \* bounds the changes at the controller, and among them the times
                 \* that a parameter disappears from its replies
    MaxSetUps    \* bounds the reloads and restarts

Kind == {"edit", "sys"}

ASSUME LimitsAssumption == MaxChanges \in Nat /\ MaxSetUps \in Nat

VARIABLES
    controller,  \* the version of its setting and of its system parameter
    counter,     \* its version counter, which not every change increments: the
                 \* version of the setting when it last did
    fast,        \* the fast coordinator's refresh and the counter it has read
    last,        \* the counter that the fast listener remembers
    slow,        \* the slow coordinator's refresh and what it has read
    timer,       \* of the slow coordinator's debouncer
    known,       \* the versions in _previous_snapshot and _previous_sys_params ...
    lacking,     \* ... and the kinds whose baseline is there, and lacks the parameter
    jobs,        \* change_log rows whose executor job has not run
    log,         \* table change_log
    recent,      \* RecentChanges sensor
    setUps,      \* number of reloads and restarts
    lost, gaps, since, excused  \* history, for the properties only: of gaps see Row

pollVars == <<fast, last, slow, timer>>
baselineVars == <<known, lacking, gaps, since>>
logVars == <<baselineVars, jobs, log, recent, lost>>
vars == <<controller, counter, pollVars, logVars, setUps, excused>>

\* No reply yet, no data, no such parameter, no baseline, no counter.
None == 0

\* A reported change.  gap, which the row does not have, tells apart those before
\* and after the parameter disappeared, by the number of times that it did.  Only
\* a system parameter can have been None.
Row == {row \in [kind : Kind, gap : Nat, old : Nat, new : Nat \ {None}] :
           row.old = None => row.kind = "sys"}

TypeOK ==
    /\ controller \in [Kind -> Nat \ {None}] /\ counter \in Nat \ {None}
    /\ fast \in [busy : BOOLEAN, counter : Nat]
    /\ last \in Nat
    /\ slow \in [by : {"nobody", "interval", "request"}, answered : SUBSET Kind,
                 reply : [Kind -> Nat], lacks : SUBSET Kind]
    /\ timer \in {"off", "on", "again"}
    /\ known \in [Kind -> Nat] /\ since \in [Kind -> Nat]
    /\ lacking \in SUBSET Kind /\ gaps \in [Kind -> Nat]
    /\ jobs \in SUBSET Row /\ log \in SUBSET Row /\ lost \in SUBSET Row
    /\ recent \in Nat
    /\ setUps \in Nat
    /\ excused \in BOOLEAN

IdleFast == [busy |-> FALSE, counter |-> None]
Refresh(by) ==
    [by |-> by, answered |-> {}, reply |-> [k \in Kind |-> None], lacks |-> {}]
IdleSlow == Refresh("nobody")

\* What a request for k can be answered: what the controller has, or no data.
Replies(k) == {controller[k], None}

\* Or the data lack the parameters in lack, some of which they had.
Gaps(lack) == [k \in Kind |-> IF k \in lack \ lacking THEN gaps[k] + 1 ELSE gaps[k]]

\* The bound, when the controller has versions c.
Within(c, lack) ==
    c["edit"] + c["sys"] + Gaps(lack)["edit"] + Gaps(lack)["sys"] <= MaxChanges + 2

\* What the first fast poll can show of the counter.
Counters == {counter, None}

Init ==
    /\ controller = [k \in Kind |-> 1] /\ counter = 1
    /\ fast = IdleFast /\ last \in Counters
    /\ slow = IdleSlow /\ timer = "off"
    /\ known \in {f \in [Kind -> {None, 1}] : \A k \in Kind : f[k] \in Replies(k)}
    /\ lacking = {} /\ gaps = [k \in Kind |-> 0] /\ since = known
    /\ jobs = {} /\ log = {} /\ lost = {}
    /\ recent = 0
    /\ setUps = 0
    /\ excused = (known["edit"] < last)

ControllerChange(k) ==
    /\ controller' = [controller EXCEPT ![k] = @ + 1]
    /\ Within(controller', slow.lacks)
    /\ counter' \in IF k = "edit" THEN {counter, controller'[k]} ELSE {counter}
    /\ UNCHANGED <<pollVars, logVars, setUps, excused>>

(***************************************************************************)
(* The slow coordinator's debouncer: a request starts a refresh unless one *)
(* is running, and is put off while the last requested one is recent.      *)
(***************************************************************************)
\* A refresh that was running when counter c was seen, and that has read the
\* settings, does not show them.
Missed(c) == slow.by # "nobody" /\ slow.reply["edit"] # None /\ slow.reply["edit"] < c

\* async_request_refresh after counter c
RequestRefresh(c) ==
    /\ slow' = IF timer = "off" /\ slow.by = "nobody" THEN Refresh("request") ELSE slow
    /\ timer' = IF timer = "on" THEN "again" ELSE timer
    /\ excused' = Missed(c)

TimerEnd ==
    /\ timer # "off"
    /\ timer' = "off"
    /\ slow' = IF timer = "again" THEN Refresh("request") ELSE slow
    /\ UNCHANGED <<controller, counter, fast, last, logVars, setUps, excused>>

\* The configured interval; it cancels the debouncer's timer.
IntervalStart ==
    /\ slow.by = "nobody"
    /\ slow' = Refresh("interval")
    /\ timer' = "off"
    /\ UNCHANGED <<controller, counter, fast, last, logVars, setUps, excused>>

(***************************************************************************)
(* The fast poll.                                                          *)
(***************************************************************************)
FastRead ==
    /\ ~fast.busy
    /\ fast' = [busy |-> TRUE, counter |-> counter]
    /\ UNCHANGED <<controller, counter, last, slow, timer, logVars, setUps, excused>>

\* Mutated form of FastReturn: the first counter ever seen is only remembered.
FastReturn_First ==
    /\ fast.busy
    /\ fast' = IdleFast
    /\ IF fast.counter # last
       THEN /\ last' = fast.counter
            /\ IF last = None THEN UNCHANGED <<slow, timer, excused>>
                              ELSE RequestRefresh(fast.counter)
       ELSE UNCHANGED <<last, slow, timer, excused>>
    /\ UNCHANGED <<controller, counter, logVars, setUps>>

\* _on_fast_update: the counter is remembered before the refresh has succeeded.
FastReturn ==
    /\ fast.busy
    /\ fast' = IdleFast
    /\ IF fast.counter # last
       THEN last' = fast.counter /\ RequestRefresh(fast.counter)
       ELSE UNCHANGED <<last, slow, timer, excused>>
    /\ UNCHANGED <<controller, counter, logVars, setUps>>

\* The poll shows no counter, or fails, and the listeners, if called, see the old
\* data.
FastFailed ==
    /\ fast.busy
    /\ fast' = IdleFast
    /\ UNCHANGED <<controller, counter, last, slow, timer, logVars, setUps, excused>>

(***************************************************************************)
(* The settings poll.                                                      *)
(***************************************************************************)
SlowRead(k) ==
    /\ slow.by # "nobody" /\ k \notin slow.answered
    /\ \/ \E v \in Replies(k) :
             slow' = [slow EXCEPT !.answered = @ \cup {k}, !.reply[k] = v]
       \/ /\ Within(controller, slow.lacks \cup {k})
          /\ slow' = [slow EXCEPT !.answered = @ \cup {k}, !.lacks = @ \cup {k}]
    /\ UNCHANGED <<controller, counter, fast, last, timer, logVars, setUps, excused>>

\* After a requested refresh the debouncer cools down.
Cooling == IF slow.by = "request" THEN "on" ELSE "off"

\* A change, and the parameters that a poll can find changed.
Change(k) == [kind |-> k, gap |-> gaps[k], old |-> known[k], new |-> slow.reply[k]]
Moved == {k \in Kind : slow.reply[k] \notin {None, known[k]}}

\* Is there something to compare k with?  A setting that the last reply lacked is
\* skipped (_diff_values); a system parameter that it lacked has been None.
Comparable(k) == known[k] # None \/ (k = "sys" /\ k \in lacking)

\* Mutated form of Detected: a setting that the last reply lacked has been None.
Detected_Baseline == {Change(k) : k \in {j \in Moved : Comparable(j) \/ j \in lacking}}

\* process_edit_params and process_sys_params
Detected == {Change(k) : k \in {j \in Moved : Comparable(j)}}

\* Mutated form of Baseline: a poll without data forgets it.
Baseline_Forgotten(k) == slow.reply[k]

\* Without data the baseline stays, with data it is replaced as a whole: what the
\* reply lacks is forgotten.
Baseline(k) == IF slow.reply[k] = None /\ k \notin slow.lacks THEN known[k] ELSE slow.reply[k]
Lacking == {k \in Kind : k \in slow.lacks \/ (k \in lacking /\ slow.reply[k] = None)}

\* History: where the reports since the setup or the last gap begin.
Since(k) ==
    CASE k \in slow.lacks                      -> None
      [] since[k] = None /\ ~Comparable(k)     -> Baseline(k)
      [] OTHER                                 -> since[k]

\* What the poll makes of the baselines.
Rebase ==
    /\ known' = [k \in Kind |-> Baseline(k)]
    /\ lacking' = Lacking /\ gaps' = Gaps(Lacking)
    /\ since' = [k \in Kind |-> Since(k)]

\* get_recent_change_count, of rows that are all younger than a day: an error of
\* the database counts as none.
RecentChangeCount(rows) == {0, Cardinality(rows)}


\* The RecentChanges sensor's turn among the listeners.
Recount == recent' \in RecentChangeCount(log')

\* _on_slow_update: a job for each change, any of which may have run before the
\* RecentChanges sensor, the next listener, counts the rows.
SlowReturn ==
    /\ slow.answered = Kind
    /\ Rebase
    /\ \E run \in SUBSET Detected :
          /\ log' = log \cup run
          /\ jobs' = jobs \cup (Detected \ run)
          /\ Recount
    /\ slow' = IdleSlow /\ timer' = Cooling
    /\ excused' = (known'["edit"] < last /\ (excused \/ slow.reply["edit"] = None))
    /\ UNCHANGED <<controller, counter, fast, last, lost, setUps>>

\* The refresh fails, is refused or times out.  The first of several failures
\* calls the listeners, with the old data.
SlowFailed ==
    /\ slow.by # "nobody"
    /\ slow' = IdleSlow /\ timer' = Cooling
    /\ recent' \in {recent} \cup RecentChangeCount(log)
    /\ excused' = (known["edit"] < last)
    /\ UNCHANGED <<controller, counter, fast, last, baselineVars, jobs, log, lost,
                   setUps>>

\* Mutated form of LogChange: a job that has written its row may be run again.
LogChange_Retried(row) ==
    /\ row \in jobs
    /\ log' = log \cup {row} /\ jobs' \in {jobs, jobs \ {row}}
    /\ UNCHANGED <<controller, counter, pollVars, baselineVars, recent, lost, setUps, excused>>

\* _log_change in the executor, where the jobs run in any order; an error of
\* the database is swallowed.
LogChange(row) ==
    /\ row \in jobs
    /\ jobs' = jobs \ {row}
    /\ \/ log' = log \cup {row} /\ UNCHANGED lost
       \/ lost' = lost \cup {row} /\ UNCHANGED log
    /\ UNCHANGED <<controller, counter, pollVars, baselineVars, recent, setUps, excused>>

(***************************************************************************)
(* Reload and restart.                                                     *)
(***************************************************************************)
\* The entry is set up again, with new coordinators, baseline and sensors.
SetUp ==
    /\ setUps < MaxSetUps /\ setUps' = setUps + 1
    /\ fast' = IdleFast /\ slow' = IdleSlow /\ timer' = "off"
    /\ last' \in Counters
    /\ known' \in {f \in [Kind -> {None} \cup {controller[k] : k \in Kind}] :
                      \A k \in Kind : f[k] \in Replies(k)}
    /\ lacking' \in SUBSET {k \in Kind : known'[k] = None} /\ Within(controller, lacking')
    /\ gaps' = Gaps(lacking')
    /\ since' = known'
    /\ recent' = 0
    /\ excused' = (known'["edit"] < last')
    /\ UNCHANGED <<controller, counter, log>>

Reload == SetUp /\ UNCHANGED <<jobs, lost>>

\* The jobs die with Home Assistant.
Restart == SetUp /\ jobs' = {} /\ lost' = lost \cup jobs

Next ==
    \/ \E k \in Kind : ControllerChange(k) \/ SlowRead(k)
    \/ TimerEnd \/ IntervalStart
    \/ FastRead \/ FastReturn \/ FastFailed
    \/ SlowReturn \/ SlowFailed
    \/ \E row \in jobs : LogChange(row)
    \/ Reload \/ Restart

Spec == Init /\ [][Next]_vars

\* A read with data, in a poll that has had nothing else.
ReadData(k) == SlowRead(k) /\ \A j \in slow'.answered : slow'.reply[j] # None

\* The intervals come round, a refresh ends (it has a time-out), the executor gets
\* to every job, and a controller that is polled again and again answers, again
\* and again, a whole poll with data, after which the rows can be counted.
Fairness ==
    /\ WF_vars(IntervalStart) /\ WF_vars(TimerEnd) /\ WF_vars(SlowFailed \/ SlowReturn)
    /\ SF_vars(slow.answered = {} /\ \E k \in Kind : ReadData(k))
    /\ SF_vars(slow.answered # {} /\ \E k \in Kind : ReadData(k))
    /\ SF_vars(SlowReturn /\ (\A k \in Kind : slow.reply[k] # None)
                         /\ recent' = Cardinality(log'))
    /\ WF_vars(\E row \in jobs : LogChange(row))

FairSpec == Spec /\ Fairness

(***************************************************************************)
(* Properties.                                                             *)
(***************************************************************************)
\* Unless a settings poll fails or lacks the setting, or one had read the settings
\* before the counter moved, every counter that the fast listener remembers is in
\* the baseline or in a settings poll that is requested, put off or running, however
\* requests, intervals and cool-downs interleave (_on_fast_update,
\* async_request_refresh).
EarlyRefreshKept ==
    \/ known["edit"] >= last \/ excused \/ timer = "again"
    \/ slow.by # "nobody" /\ (slow.reply["edit"] = None \/ slow.reply["edit"] >= last)

\* What was reported since the setup or the last gap, logged or not.
Reported(k) ==
    {row \in log \cup jobs \cup lost :
        row.kind = k /\ row.gap = gaps[k] /\ row.old >= since[k]}

\* While every reply with data has the parameter, the changes reported lead from
\* the first baseline to the present one: none is reported twice, and none is left
\* out, whatever replies have no data.  A reply that lacks the parameter ends the
\* chain, for its baseline is forgotten: of a setting what changed across the gap
\* is not reported, and a system parameter is reported to have been None
\* (process_edit_params, process_sys_params, _diff_values, _on_slow_update).
AuditIsGapless ==
    \A k \in Kind : ~(known[k] = None /\ since[k] = None) =>
        /\ Cardinality(Reported(k)) = Cardinality({row.old : row \in Reported(k)})
        /\ {row.old : row \in Reported(k)} \cup {known[k]} =
              {row.new : row \in Reported(k)} \cup {since[k]}



(***************************************************************************)
(* Refinement.                                                             *)
(***************************************************************************)
Log == INSTANCE ChangeLog WITH
    held     <- controller,
    baseline <- known,
    absent   <- lacking,
    due      <- jobs,
    written  <- log,
    gone     <- lost

\* The promise of ChangeLog is kept: whatever is polled, requested, dropped or
\* overtaken, each change that moves a baseline gets one row, written at most
\* once, also through reloads and restarts (process_edit_params, _log_change).
LogKept == Log!Spec
=============================================================================
