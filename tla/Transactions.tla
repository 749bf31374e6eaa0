---------------------------- MODULE Transactions ----------------------------
(***************************************************************************)
(* What happens to a service call or an action goal once its request is    *)
(* admitted: _dispatch_service, _dispatch_goal and _dispatch_cancel of     *)
(* runtime/inbound.py, their callbacks, the timeout sweep, the termination *)
(* of vanished interfaces, shutdown and the boot sweep, with the           *)
(* transactions table of runtime/state.py and the futures of               *)
(* adapter/ros2.py.                                                        *)
(*                                                                         *)
(* Two threads work on one transaction.  The executor dispatches, receives *)
(* answers and sweeps timeouts, one callback at a time; the provisioning   *)
(* worker compares graph snapshots and terminates what was in flight at an *)
(* interface that vanished.  A callback is several database statements, so *)
(* the worker's steps fall between them.                                   *)
(*                                                                         *)
(* Admission is reduced to a row that becomes queued; what became of a     *)
(* request counts as succeeded or failed, whatever the word.               *)
(***************************************************************************)
EXTENDS Integers, FiniteSets

CONSTANTS
    Services,    \* service requests
    Goals,       \* action goals
    Corrs,       \* correlation ids, the key of a transaction
    Ifaces,
    CorrOf,      \* [Services \union Goals -> Corrs]
    IfaceOf,     \* [Services \union Goals -> Ifaces]
    Bounded,     \* the requests with timeout_ms > 0
    Unfit,       \* the goals with a field outside goal_fields
    NoRequest,
    MaxCrashes, MaxStops, MaxFlaps    \* bounds of the exploration

Requests == Services \union Goals

ASSUME RequestTypes ==
    /\ Services \cap Goals = {}
    /\ CorrOf \in [Requests -> Corrs]
    /\ IfaceOf \in [Requests -> Ifaces]
    /\ Bounded \subseteq Requests
    /\ Unfit \subseteq Goals
    /\ NoRequest \notin Requests
    /\ {MaxCrashes, MaxStops, MaxFlaps} \subseteq Nat

VARIABLES
    phase,          \* "down", "sweeping", "running" or "closing"
    row,            \* processed.state of the request
    tx,             \* transactions.state of a correlation id, "none" without a row
    owner,          \* the request whose dispatch inserted the transaction
    inflight,       \* _inflight, over all interfaces
    at,             \* where the executor is inside a callback
    job,            \* the requests it is dispatching or closing
    verdict,        \* the outcome with which it closes them
    sent,           \* calls and goals waiting for the first answer
    handles,        \* accepted goals, waiting for their result
    pendingCancel,  \* goals cancelled before their handle came
    up,             \* the interfaces whose server is ready
    seen,           \* the interfaces named by the newest graph snapshot
    vanished,       \* the interfaces the worker has marked vanished
    termAt,         \* where the worker is inside terminate_inflight
    todo,           \* the requests it has still to look at
    target,         \* the request it is terminating
    stranded,       \* history: requests whose server went down under them
    told,           \* history: the outcomes reported for a request
    answered,       \* history: requests whose response or result was published
    asked,          \* history: goals whose cancel was not refused
    cancelSent,     \* history: goals whose server was asked to cancel
    calls,          \* history: how often a request was sent to its server
    crashes, stops, flaps

execVars   == <<at, job, verdict>>
robotVars  == <<sent, handles, pendingCancel>>
graphVars  == <<up, seen, stranded>>
termVars   == <<vanished, termAt, todo, target>>
serverVars == <<asked, cancelSent, calls>>
histVars   == <<told, answered, serverVars>>
boundVars  == <<crashes, stops, flaps>>
vars == <<phase, row, tx, owner, inflight, execVars, robotVars, graphVars,
          termVars, histVars, boundVars>>

ServiceActive == {"pending", "accepted", "invoked"}
ActionActive  == {"goalPending", "goalSent", "goalAccepted", "canceling"}
ActiveTx      == ServiceActive \union ActionActive
TerminalTx    == {"responded", "rejected", "failed", "timeout", "goalRejected",
                  "serverUnavailable", "resultReceived", "orphanedAtRestart",
                  "shutdownAbandoned"}
ActiveRow     == {"queued", "dispatched", "overflow"}

Active(k) == tx[CorrOf[k]] \in ActiveTx

TableTypes ==
    /\ row \in [Requests -> {"none", "succeeded", "failed", "unknown"} \union ActiveRow]
    /\ tx \in [Corrs -> {"none"} \union ActiveTx \union TerminalTx]
    /\ owner \in [Corrs -> Requests \union {NoRequest}]
    /\ inflight \subseteq Requests

ExecTypes ==
    /\ at \in {"idle", "won", "begun", "ready", "called", "answering", "closing"}
    /\ job \subseteq Requests
    /\ at \in {"won", "begun", "ready", "called", "answering"} =>
          \E k \in Requests : job = {k}
    /\ verdict \in {"succeeded", "failed"}

RobotTypes ==
    /\ sent \subseteq Requests
    /\ handles \subseteq Goals
    /\ pendingCancel \subseteq Goals
    /\ up \subseteq Ifaces /\ seen \subseteq Ifaces
    /\ stranded \subseteq Requests

WorkerTypes ==
    /\ vanished \subseteq Ifaces
    /\ termAt \in {"idle", "reading", "decided", "finishing"}
    /\ todo \subseteq Requests
    /\ target \in Requests \union {NoRequest}
    /\ termAt \in {"decided", "finishing"} => target \in Requests

HistTypes ==
    /\ told \in [Requests -> SUBSET TerminalTx]
    /\ answered \subseteq Requests
    /\ asked \subseteq Goals /\ cancelSent \subseteq Goals
    /\ calls \in [Requests -> Nat]

TypeOK ==
    /\ phase \in {"down", "sweeping", "running", "closing"}
    /\ {crashes, stops, flaps} \subseteq Nat
    /\ TableTypes /\ ExecTypes /\ RobotTypes /\ WorkerTypes /\ HistTypes

Init ==
    /\ phase = "down"
    /\ row = [k \in Requests |-> "none"]
    /\ tx = [c \in Corrs |-> "none"]
    /\ owner = [c \in Corrs |-> NoRequest]
    /\ inflight = {}
    /\ at = "idle" /\ job = {} /\ verdict = "failed"
    /\ sent = {} /\ handles = {} /\ pendingCancel = {}
    /\ up = Ifaces /\ seen = Ifaces /\ stranded = {}
    /\ vanished = {} /\ termAt = "idle" /\ todo = {} /\ target = NoRequest
    /\ told = [k \in Requests |-> {}]
    /\ answered = {} /\ asked = {} /\ cancelSent = {} /\ calls = [k \in Requests |-> 0]
    /\ crashes = 0 /\ stops = 0 /\ flaps = 0
-----------------------------------------------------------------------------
(***************************************************************************)
(* The tables                                                              *)
(***************************************************************************)

\* Mutant: an UPDATE without the condition on the state.
SetStateAnyway(k, state) == tx' = [tx EXCEPT ![CorrOf[k]] = state]

\* update_transaction: a terminal row is immutable.
SetState(k, state) ==
    tx' = [tx EXCEPT ![CorrOf[k]] = IF @ \in ActiveTx THEN state ELSE @]

\* processed.finish for a set of requests.
FinishRows(S, outcome) ==
    row' = [k \in Requests |-> IF k \in S /\ row[k] \in ActiveRow THEN outcome
                                                                 ELSE row[k]]

Tell(k, outcome) == told' = [told EXCEPT ![k] = @ \union {outcome}]

\* The transaction ends in this callback, which goes on to close the row.
EndIn(k, state, outcome) ==
    /\ SetState(k, state)
    /\ Tell(k, state)
    /\ at' = "closing" /\ job' = {k} /\ verdict' = outcome

Arrive(k) ==
    /\ phase = "running"
    /\ row[k] \in {"none", "overflow"}
    /\ row' = [row EXCEPT ![k] = "queued"]
    /\ UNCHANGED <<phase, tx, owner, inflight, execVars, robotVars, graphVars,
                   termVars, histVars, boundVars>>
-----------------------------------------------------------------------------
(***************************************************************************)
(* The executor: dispatching                                               *)
(***************************************************************************)

Claim(k) ==
    /\ phase = "running"
    /\ at = "idle"
    /\ row[k] = "queued"
    /\ row' = [row EXCEPT ![k] = "dispatched"]
    /\ at' = "won" /\ job' = {k} /\ UNCHANGED verdict
    /\ UNCHANGED <<phase, tx, owner, inflight, robotVars, graphVars, termVars,
                   histVars, boundVars>>

\* Not bound, access denied or to be confirmed: no transaction begins.
Refuse(k) ==
    /\ at = "won" /\ k \in job
    /\ at' = "closing" /\ verdict' = "failed" /\ UNCHANGED job
    /\ UNCHANGED <<phase, row, tx, owner, inflight, robotVars, graphVars, termVars,
                   histVars, boundVars>>

\* begin_transaction inserts, then the request is in flight.  A correlation
\* id that is taken ends the dispatch; the row stays dispatched.
Begin(k) ==
    /\ at = "won" /\ k \in job
    /\ IF tx[CorrOf[k]] = "none"
       THEN /\ tx' = [tx EXCEPT ![CorrOf[k]] =
                         IF k \in Services THEN "pending" ELSE "goalPending"]
            /\ owner' = [owner EXCEPT ![CorrOf[k]] = k]
            /\ inflight' = inflight \union {k}
            /\ at' = "begun" /\ UNCHANGED job
       ELSE /\ at' = "idle" /\ job' = {}
            /\ UNCHANGED <<tx, owner, inflight>>
    /\ UNCHANGED <<phase, row, verdict, robotVars, graphVars, termVars, histVars,
                   boundVars>>

NoServer(k) ==
    /\ at = "begun" /\ k \in job
    /\ IfaceOf[k] \notin up
    /\ EndIn(k, IF k \in Services THEN "failed" ELSE "serverUnavailable", "failed")
    /\ UNCHANGED <<phase, row, owner, inflight, robotVars, graphVars, termVars,
                   answered, serverVars, boundVars>>

\* The strict projection raises: drain() closes the row and leaves the
\* transaction as it is.
Misfit(k) ==
    /\ at = "begun" /\ k \in job \cap Unfit
    /\ IfaceOf[k] \in up
    /\ at' = "closing" /\ verdict' = "failed" /\ UNCHANGED job
    /\ UNCHANGED <<phase, row, tx, owner, inflight, robotVars, graphVars, termVars,
                   histVars, boundVars>>

Prepare(k) ==
    /\ at = "begun" /\ k \in job \ Unfit
    /\ IfaceOf[k] \in up
    /\ at' = "ready"
    /\ IF k \in Services THEN SetState(k, "accepted") ELSE UNCHANGED tx
    /\ UNCHANGED <<phase, row, owner, inflight, job, verdict, robotVars, graphVars,
                   termVars, histVars, boundVars>>

Call(k) ==
    /\ at = "ready" /\ k \in job
    /\ at' = "called"
    /\ sent' = sent \union {k}
    /\ calls' = [calls EXCEPT ![k] = @ + 1]
    /\ UNCHANGED <<phase, row, tx, owner, inflight, job, verdict, handles,
                   pendingCancel, graphVars, termVars, told, answered, asked,
                   cancelSent, boundVars>>

\* The adapter has no client for the interface, or transcoding raises.
CallFails(k) ==
    /\ at = "ready" /\ k \in job
    /\ \E state \in IF k \in Services THEN {"rejected"} ELSE {"goalRejected", "failed"} :
           EndIn(k, state, "failed")
    /\ UNCHANGED <<phase, row, owner, inflight, robotVars, graphVars, termVars,
                   answered, serverVars, boundVars>>

\* The response cannot come before this: it needs the same thread.
Record(k) ==
    /\ at = "called" /\ k \in job
    /\ SetState(k, IF k \in Services THEN "invoked" ELSE "goalSent")
    /\ at' = "idle" /\ job' = {} /\ UNCHANGED verdict
    /\ UNCHANGED <<phase, row, owner, inflight, robotVars, graphVars, termVars,
                   histVars, boundVars>>

\* _finish: out of _inflight, and the row is closed if it is still open.
Close(k) ==
    /\ at = "closing" /\ k \in job
    /\ FinishRows({k}, verdict)
    /\ inflight' = inflight \ {k}
    /\ job' = job \ {k}
    /\ at' = IF job = {k} THEN "idle" ELSE "closing"
    /\ UNCHANGED <<phase, tx, owner, verdict, robotVars, graphVars, termVars,
                   histVars, boundVars>>
-----------------------------------------------------------------------------
(***************************************************************************)
(* The executor: answers, cancels, timeouts                                *)
(***************************************************************************)

Spinning == phase \in {"running", "closing"} /\ at = "idle"

\* Mutant: the result of set_state is not looked at.
AnswerAnyway(k, state) ==
    /\ SetState(k, state)
    /\ at' = "answering" /\ job' = {k} /\ verdict' = "succeeded"

\* Mutant: a late answer is not published, yet closes the row.
AnswerClosesLate(k, state) ==
    /\ SetState(k, state)
    /\ at' = (IF Active(k) THEN "answering" ELSE "closing")
    /\ job' = {k} /\ verdict' = "succeeded"

\* The transaction is responded or received its result, unless it has ended;
\* what follows in the callback is PublishAnswer.
Answer(k, state) ==
    IF Active(k)
    THEN /\ SetState(k, state)
         /\ at' = "answering" /\ job' = {k} /\ verdict' = "succeeded"
    ELSE UNCHANGED <<tx, execVars>>

\* put_terminal and the event.
PublishAnswer(k) ==
    /\ at = "answering" /\ k \in job
    /\ answered' = answered \union {k}
    /\ Tell(k, IF k \in Services THEN "responded" ELSE "resultReceived")
    /\ at' = "closing"
    /\ UNCHANGED <<phase, row, tx, owner, inflight, job, verdict, robotVars, graphVars,
                   termVars, serverVars, boundVars>>

\* Mutant: a late refusal is reported like any other.
NegativeAnyway(k, state) == EndIn(k, state, "failed")

\* The call is refused, or its future raises.
Negative(k, state) ==
    IF Active(k) THEN EndIn(k, state, "failed")
                 ELSE UNCHANGED <<tx, told, execVars>>

Respond(k) ==
    /\ Spinning
    /\ k \in Services \cap sent
    /\ sent' = sent \ {k}
    /\ \/ Answer(k, "responded") /\ UNCHANGED told
       \/ Negative(k, "failed")
    /\ UNCHANGED <<phase, row, owner, inflight, handles, pendingCancel, graphVars,
                   termVars, answered, serverVars, boundVars>>

\* Mutant: the cancel that waited for the handle is dropped.
AcceptForgets(k) ==
    /\ Spinning
    /\ k \in Goals \cap sent
    /\ sent' = sent \ {k}
    /\ handles' = handles \union {k}
    /\ SetState(k, "goalAccepted")
    /\ pendingCancel' = pendingCancel \ {k}
    /\ UNCHANGED <<phase, row, owner, inflight, execVars, graphVars, termVars,
                   histVars, boundVars>>

\* The handle is kept even if the transaction has ended; a cancel that came
\* before it is sent now.
AcceptGoal(k) ==
    /\ Spinning
    /\ k \in Goals \cap sent
    /\ sent' = sent \ {k}
    /\ handles' = handles \union {k}
    /\ SetState(k, "goalAccepted")
    /\ pendingCancel' = pendingCancel \ {k}
    /\ cancelSent' = cancelSent \union ({k} \cap pendingCancel)
    /\ UNCHANGED <<phase, row, owner, inflight, execVars, graphVars, termVars, told,
                   answered, asked, calls, boundVars>>

RejectGoal(k) ==
    /\ Spinning
    /\ k \in Goals \cap sent
    /\ sent' = sent \ {k}
    /\ Negative(k, "goalRejected")
    /\ UNCHANGED <<phase, row, owner, inflight, handles, pendingCancel, graphVars,
                   termVars, answered, serverVars, boundVars>>

\* on_result; a future that raises counts as a result with status 0.
Result(k) ==
    /\ Spinning
    /\ k \in handles
    /\ handles' = handles \ {k}
    /\ Answer(k, "resultReceived")
    /\ UNCHANGED <<phase, row, owner, inflight, sent, pendingCancel, graphVars,
                   termVars, histVars, boundVars>>

\* _dispatch_cancel with cancel_goal; an unknown goal is refused.
Cancel(k) ==
    /\ Spinning
    /\ k \in sent \union handles
    /\ IF k \in handles
       THEN cancelSent' = cancelSent \union {k} /\ UNCHANGED pendingCancel
       ELSE pendingCancel' = pendingCancel \union {k} /\ UNCHANGED cancelSent
    /\ SetState(k, "canceling")
    /\ asked' = asked \union {k}
    /\ UNCHANGED <<phase, row, owner, inflight, execVars, sent, handles, graphVars,
                   termVars, told, answered, calls, boundVars>>

\* Mutant: the sweep ends the transactions and leaves the rows.
TimeOutLeavesRows(S) ==
    /\ Spinning
    /\ S # {}
    /\ S \subseteq Services \/ S \subseteq Goals
    /\ \A k \in S : k \in Bounded /\ owner[CorrOf[k]] = k /\ Active(k)
    /\ tx' = [c \in Corrs |-> IF c \in {CorrOf[k] : k \in S} THEN "timeout" ELSE tx[c]]
    /\ told' = [k \in Requests |-> IF k \in S THEN told[k] \union {"timeout"} ELSE told[k]]
    /\ UNCHANGED <<phase, row, owner, inflight, execVars, robotVars, graphVars, termVars,
                   answered, serverVars, boundVars>>

\* The one-second timer, once for each kind: the transactions whose time is up
\* end together, then the rows of those in flight are closed one by one.
TimeOut(S) ==
    /\ Spinning
    /\ S # {}
    /\ S \subseteq Services \/ S \subseteq Goals
    /\ \A k \in S : k \in Bounded /\ owner[CorrOf[k]] = k /\ Active(k)
    /\ tx' = [c \in Corrs |-> IF c \in {CorrOf[k] : k \in S} THEN "timeout" ELSE tx[c]]
    /\ told' = [k \in Requests |-> IF k \in S THEN told[k] \union {"timeout"} ELSE told[k]]
    /\ job' = S \cap inflight
    /\ at' = IF S \cap inflight = {} THEN "idle" ELSE "closing"
    /\ verdict' = "failed"
    /\ UNCHANGED <<phase, row, owner, inflight, robotVars, graphVars, termVars,
                   answered, serverVars, boundVars>>
-----------------------------------------------------------------------------
(***************************************************************************)
(* Servers come and go; the worker notices when a snapshot shows it        *)
(***************************************************************************)

GoDown(i) ==
    /\ i \in up
    /\ up' = up \ {i}
    /\ stranded' = stranded \union {k \in sent \union handles : IfaceOf[k] = i}
    /\ UNCHANGED <<phase, row, tx, owner, inflight, execVars, robotVars, seen,
                   termVars, histVars, boundVars>>

ComeUp(i) ==
    /\ i \in Ifaces \ up
    /\ flaps < MaxFlaps
    /\ flaps' = flaps + 1
    /\ up' = up \union {i}
    /\ UNCHANGED <<phase, row, tx, owner, inflight, execVars, robotVars, seen,
                   stranded, termVars, histVars, crashes, stops>>

\* The refresh timer hands a snapshot to the worker; the newest one counts.
Refresh ==
    /\ phase = "running" /\ at = "idle"
    /\ seen' = up
    /\ UNCHANGED <<phase, row, tx, owner, inflight, execVars, robotVars, up,
                   stranded, termVars, histVars, boundVars>>

WorkerIdle == termAt = "idle"

\* Mutant: what is in flight at the interface is left to itself.
VanishOnly(i) ==
    /\ phase = "running" /\ WorkerIdle
    /\ i \in Ifaces \ (seen \union vanished)
    /\ vanished' = vanished \union {i}
    /\ UNCHANGED <<phase, row, tx, owner, inflight, execVars, robotVars, graphVars,
                   termAt, todo, target, histVars, boundVars>>

\* _churn_track, once the grace polls are over; terminate_inflight starts
\* with a copy of what is in flight at the interface.
Vanish(i) ==
    /\ phase = "running" /\ WorkerIdle
    /\ i \in Ifaces \ (seen \union vanished)
    /\ vanished' = vanished \union {i}
    /\ todo' = {k \in inflight : IfaceOf[k] = i}
    /\ termAt' = IF todo' = {} THEN "idle" ELSE "reading"
    /\ UNCHANGED <<phase, row, tx, owner, inflight, execVars, robotVars, graphVars,
                   target, histVars, boundVars>>

Rejoin(i) ==
    /\ phase = "running" /\ WorkerIdle
    /\ i \in seen \cap vanished
    /\ vanished' = vanished \ {i}
    /\ UNCHANGED <<phase, row, tx, owner, inflight, execVars, robotVars, graphVars,
                   termAt, todo, target, histVars, boundVars>>

\* get_transaction: only an open transaction is going to be ended.
ReadTx(k) ==
    /\ termAt = "reading" /\ k \in todo
    /\ target' = k
    /\ todo' = todo \ {k}
    /\ termAt' = IF Active(k) THEN "decided" ELSE "finishing"
    /\ UNCHANGED <<phase, row, tx, owner, inflight, execVars, robotVars, graphVars,
                   vanished, histVars, boundVars>>

\* set_state, whose result nobody looks at, and the event.
EndTx ==
    LET state == IF target \in Services THEN "failed" ELSE "serverUnavailable" IN
    /\ termAt = "decided"
    /\ SetState(target, state)
    /\ Tell(target, "serverUnavailable")
    /\ termAt' = "finishing"
    /\ UNCHANGED <<phase, row, owner, inflight, execVars, robotVars, graphVars,
                   vanished, todo, target, answered, serverVars, boundVars>>

\* Mutant: a terminated request waits for the interface to come back.
FinishTargetRequeues ==
    /\ termAt = "finishing"
    /\ row' = [row EXCEPT ![target] = IF @ = "dispatched" THEN "queued" ELSE @]
    /\ inflight' = inflight \ {target}
    /\ target' = NoRequest
    /\ termAt' = IF todo = {} THEN "idle" ELSE "reading"
    /\ UNCHANGED <<phase, tx, owner, execVars, robotVars, graphVars, vanished, todo,
                   histVars, boundVars>>

FinishTarget ==
    /\ termAt = "finishing"
    /\ FinishRows({target}, "failed")
    /\ inflight' = inflight \ {target}
    /\ target' = NoRequest
    /\ termAt' = IF todo = {} THEN "idle" ELSE "reading"
    /\ UNCHANGED <<phase, tx, owner, execVars, robotVars, graphVars, vanished, todo,
                   histVars, boundVars>>
-----------------------------------------------------------------------------
(***************************************************************************)
(* Boot, shutdown, crash                                                   *)
(***************************************************************************)

\* boot_sweep, first the rows ...
SweepRows ==
    /\ phase = "down"
    /\ phase' = "sweeping"
    /\ row' = [k \in Requests |-> CASE row[k] = "queued" -> "overflow"
                                    [] row[k] = "dispatched" -> "unknown"
                                    [] OTHER -> row[k]]
    /\ UNCHANGED <<tx, owner, inflight, execVars, robotVars, graphVars, termVars,
                   histVars, boundVars>>

\* ... then the transactions of the process before this one.
Orphan(k) ==
    /\ phase = "sweeping"
    /\ owner[CorrOf[k]] = k /\ Active(k)
    /\ SetState(k, IF k \in Services THEN "failed" ELSE "orphanedAtRestart")
    /\ Tell(k, "orphanedAtRestart")
    /\ UNCHANGED <<phase, row, owner, inflight, execVars, robotVars, graphVars,
                   termVars, answered, serverVars, boundVars>>

StartSpinning ==
    /\ phase = "sweeping"
    /\ \A c \in Corrs : tx[c] \notin ActiveTx
    /\ phase' = "running"
    /\ seen' = up
    /\ UNCHANGED <<row, tx, owner, inflight, execVars, robotVars, up, stranded,
                   termVars, histVars, boundVars>>

\* The worker is joined; what is still queued is closed unexecuted.
Stop ==
    /\ phase = "running"
    /\ at = "idle" /\ WorkerIdle
    /\ stops < MaxStops
    /\ stops' = stops + 1
    /\ phase' = "closing"
    /\ FinishRows({k \in Requests : row[k] = "queued"}, "failed")
    /\ UNCHANGED <<tx, owner, inflight, execVars, robotVars, graphVars, termVars,
                   histVars, crashes, flaps>>

LoseMemory ==
    /\ phase' = "down"
    /\ inflight' = {}
    /\ at' = "idle" /\ job' = {} /\ verdict' = "failed"
    /\ sent' = {} /\ handles' = {} /\ pendingCancel' = {}
    /\ seen' = Ifaces
    /\ vanished' = {} /\ termAt' = "idle" /\ todo' = {} /\ target' = NoRequest
    /\ UNCHANGED <<row, owner, up, stranded, answered, serverVars>>

\* What is under way after five seconds is abandoned, its row left open.
Underway == {k \in Requests : owner[CorrOf[k]] = k
                /\ tx[CorrOf[k]] \in {"invoked", "goalSent", "goalAccepted", "canceling"}}

Exit ==
    /\ phase = "closing"
    /\ at = "idle"
    /\ tx' = [c \in Corrs |->
                 CASE \E k \in Underway \cap Services : CorrOf[k] = c -> "failed"
                   [] \E k \in Underway \cap Goals : CorrOf[k] = c -> "shutdownAbandoned"
                   [] OTHER -> tx[c]]
    /\ told' = [k \in Requests |-> IF k \in Underway
                                   THEN told[k] \union {"shutdownAbandoned"}
                                   ELSE told[k]]
    /\ LoseMemory
    /\ UNCHANGED boundVars

Crash ==
    /\ phase # "down"
    /\ crashes < MaxCrashes
    /\ crashes' = crashes + 1
    /\ LoseMemory
    /\ UNCHANGED <<tx, told, stops, flaps>>

Dispatcher ==
    \E k \in Requests :
        \/ Claim(k) \/ Refuse(k) \/ Begin(k) \/ NoServer(k) \/ Misfit(k)
        \/ Prepare(k) \/ Call(k) \/ CallFails(k) \/ Record(k)
        \/ PublishAnswer(k) \/ Close(k)

Robot ==
    \/ \E k \in Services : Respond(k)
    \/ \E k \in Goals : AcceptGoal(k) \/ RejectGoal(k) \/ Result(k)

Graph == Refresh \/ \E i \in Ifaces : GoDown(i) \/ ComeUp(i)

Worker ==
    \/ \E i \in Ifaces : Vanish(i) \/ Rejoin(i)
    \/ \E k \in Requests : ReadTx(k)
    \/ EndTx \/ FinishTarget

Boot == SweepRows \/ StartSpinning \/ \E k \in Requests : Orphan(k)

Timer == \E S \in SUBSET Bounded : TimeOut(S)

Next ==
    \/ \E k \in Requests : Arrive(k)
    \/ \E k \in Goals : Cancel(k)
    \/ Dispatcher \/ Robot \/ Timer \/ Graph \/ Worker \/ Boot \/ Stop \/ Exit \/ Crash

Spec == Init /\ [][Next]_vars

\* The two threads and the timers run; nothing is assumed of the robot, of
\* the servers or of the requesters.
Fairness ==
    /\ WF_vars(Dispatcher) /\ WF_vars(Worker) /\ WF_vars(Boot)
    /\ WF_vars(Timer) /\ WF_vars(Refresh) /\ WF_vars(Exit)

FairSpec == Spec /\ Fairness
-----------------------------------------------------------------------------
(***************************************************************************)
(* Properties                                                              *)
(***************************************************************************)

AnsweredTx == {"responded", "resultReceived"}

Owns(k) == owner[CorrOf[k]] = k

\* A response or a result is published for a request if and only if it is
\* what ended the request's transaction: an answer that comes after a timeout,
\* a termination or a restart publishes nothing, and one that ends the
\* transaction is published, except when the process dies between the two.
AnswerMatchesTx ==
    \A k \in Requests :
        /\ k \in answered => Owns(k) /\ tx[CorrOf[k]] \in AnsweredTx
        /\ Owns(k) /\ tx[CorrOf[k]] \in AnsweredTx /\ crashes = 0 =>
              k \in answered \/ (at = "answering" /\ job = {k})

\* A request counts as succeeded only if its answer was published.
SuccessMeansAnswer ==
    \A k \in Requests : row[k] = "succeeded" => k \in answered

\* While the process runs, somebody is answerable for every dispatched
\* request: the executor has it in hand, the worker is terminating it, or it
\* is in flight with an open transaction, where an answer, the timeout sweep
\* and the termination find it.  Only a
\* request whose correlation id another request had taken is left alone.
DispatchedOwned ==
    phase = "running" =>
        \A k \in Requests : row[k] = "dispatched" =>
            \/ k \in job \/ k = target
            \/ k \in inflight /\ Active(k)
            \/ ~Owns(k) /\ tx[CorrOf[k]] # "none"

\* A cancel that was taken while the goal waited for its handle reaches the
\* server once the handle is there.
CancelNotLost ==
    \A k \in asked \cap handles : k \in cancelSent

\* No request is reported to have ended in two ways, except that the notice
\* of a vanished server, which the worker gives without looking whether it
\* ended the transaction, may come on top.
OneOutcome ==
    \A k \in Requests : Cardinality(told[k] \ {"serverUnavailable"}) <= 1

\* A request whose answer was published is not recorded as failed.
AnsweredNotFailed ==
    \A k \in answered : row[k] # "failed"

\* A transaction that has ended is never changed again, by a late answer, a
\* second timeout, a cancel, a shutdown or a boot.
TerminalIsFinal ==
    [][\A c \in Corrs : tx[c] \in TerminalTx => tx'[c] = tx[c]]_vars

\* The promises of the request ledger, kept by both threads together: a
\* request is sent to its server at most once, and only between its dispatch
\* and the end of it, whatever crashes, boots and terminations do to its row.
\* The worker may close the row of a request that the executor is about to
\* send, and it is sent all the same: it counts as started until the
\* executor has done so or has given it up.
BeforeCall(k) == at \in {"begun", "ready"} /\ k \in job

LedgerState(k) ==
    CASE row[k] = "none" -> "new"
      [] row[k] \in {"queued", "overflow"} -> "pending"
      [] row[k] \notin {"none", "queued", "overflow"} ->
            IF row[k] = "dispatched" \/ BeforeCall(k) THEN "started" ELSE "closed"

Ledger == INSTANCE RequestLedger WITH
              Requests <- Requests,
              st <- [k \in Requests |-> LedgerState(k)],
              runs <- calls

LedgerSpec == Ledger!Spec

Open(k) == Owns(k) /\ (Active(k) \/ row[k] = "dispatched")

\* Every request ends, unless it has no timeout and its server has been there
\* ever since: a bounded one by the sweep, an unbounded one when the worker
\* sees that the server is gone, each of them at the latest in the next boot.
EveryRequestEnds ==
    \A k \in Requests :
        Open(k) ~> (~Open(k) \/ (k \notin Bounded /\ IfaceOf[k] \in up /\ k \notin stranded))
=============================================================================
