------------------------------ MODULE Commands ------------------------------
(***************************************************************************)
(* The command path of one topic: the gates a command passes before it is  *)
(* published on ROS (core/command.py), the approval of a topic that is     *)
(* ambiguous or needs confirmation (runtime/approval.py, inbound.py), and  *)
(* the stop that the adapter publishes when no command follows             *)
(* (adapter/ros2.py).                                                      *)
(*                                                                         *)
(* All of it runs on the executor thread, one handler at a time; the       *)
(* listeners, the approval dialog and the provisioning worker only put     *)
(* events into its queues.                                                 *)
(***************************************************************************)
EXTENDS Naturals, Sequences, FiniteSets, FiniteSetsExt

CONSTANTS
  Types,            \* message types under which the topic may appear
  Setups,           \* [direction, confirm] the configuration may give it
  Limits,           \* bound: how often each kind of event happens
  MaxEvents,        \* bound: how often they happen altogether
  MaxCommands       \* bound: commands that arrive

Confirms == {"auto", "required", "on_first_use"}

ASSUME SetupTypes == Setups \subseteq [direction : {"command", "both"}, confirm : Confirms]

VARIABLES
  setup,            \* the configuration, fixed for a behaviour
  spec,             \* the TopicSpec in specs_by_key, {} when not bound
  plan,             \* a prepared plan that adds the topic, {} or its spec
  publisher,        \* _CommandState of the topic, {} when there is none
  token,            \* the token bucket of the topic allows a publication
  control,          \* control lane of the inbound queue: answers of the dialog
  normal,           \* normal lane: the commands, each with the phase it came in
  decided,          \* normal lane: decisions from the CSE; they keep their
                    \* order, where they stand among the commands is left open
  pending,          \* the proposals in _confirm_pending
  prompts,          \* proposals whose dialog is open or queued
  saved,            \* kv "control_approvals": proposal and type
  phase,            \* "up", "stopping" (the stops are out), "spinning" (the
                    \* queue has been rejected, the executor waits for what is
                    \* in flight), "down"
  robot,            \* what the robot does: "idle", "moving" or "stopped"
  lost,             \* history: nothing is left that would stop the robot
  approvals,        \* history: <<proposal, type>> approved, not revoked since
  count             \* the events of the environment, by kind

queues == <<control, normal, decided>>
vars == <<setup, spec, plan, publisher, token, queues, pending, prompts, saved,
          phase, robot, lost, approvals, count>>

Kinds == {"commands", "decisions",
          "moves",      \* the topic vanishes or appears again
          "rebinds",    \* a subscriber changes what QoS the topic must offer
          "failures",   \* the middleware refuses a publisher or a message
          "restarts"}

Event(kind) ==
  /\ count[kind] < Limits[kind]
  /\ FoldSet(LAMBDA k, n : n + count[k], 0, Kinds \ {"commands"}) < MaxEvents
  /\ count' = [count EXCEPT ![kind] = @ + 1]

\* the executor runs callbacks: until the stops, and again while the shutdown
\* waits for what is in flight
ExecutorSpins == phase \in {"up", "spinning"}

Works(ok) == IF ok THEN UNCHANGED count ELSE Event("failures")

(***************************************************************************)
(* Proposals.  control_approval_id is one proposal for each type; a topic  *)
(* with confirm "required" has one proposal of its own.                    *)
(***************************************************************************)
ByInterface == "interface"
Proposals == Types \union {ByInterface}

\* publish_contract: what _confirm_pending gains when a topic is bound
Contract(s) ==
  (IF setup.direction = "both" THEN {s.type} ELSE {})
    \union (IF s.confirm = "required" THEN {ByInterface} ELSE {})

\* apply_saved_control_approvals, while a plan is prepared
Resolved(type) ==
  [type |-> type,
   confirm |-> IF setup = [direction |-> "both", confirm |-> "on_first_use"]
                  /\ <<type, type>> \in saved
               THEN "auto" ELSE setup.confirm]

NewPublisher == [sent |-> "never", fired |-> FALSE]

\* a publisher that goes away takes its watchdog with it
Orphaned == lost' = (lost \/ robot = "moving")

(***************************************************************************)
(* Bindings: the worker prepares a plan, the executor activates it.        *)
(***************************************************************************)
Prepare(type) ==
  /\ phase = "up"
  /\ spec = {} /\ plan = {}
  /\ Event("moves")
  /\ plan' = {Resolved(type)}
  /\ UNCHANGED <<setup, spec, publisher, token, queues, pending, prompts, saved,
                 phase, robot, lost, approvals>>

\* _bind_plan_spec and publish_contract; a topic that waits for its first use
\* has no publisher yet
Activate(ok) ==
  /\ phase = "up"
  /\ Works(ok)
  /\ \E s \in plan :
       IF s.confirm = "on_first_use" \/ ok
       THEN /\ spec' = {s}
            /\ publisher' = IF s.confirm = "on_first_use" THEN {}
                            ELSE {NewPublisher}
            /\ pending' = pending \union Contract(s)
       ELSE UNCHANGED <<spec, publisher, pending>>
  /\ plan' = {}
  /\ UNCHANGED <<setup, token, queues, prompts, saved, phase, robot, lost,
                 approvals>>

\* the topic has vanished: _unbind_plan_spec
Vanish ==
  /\ phase = "up"
  /\ spec # {}
  /\ Event("moves")
  /\ spec' = {} /\ publisher' = {}
  /\ Orphaned
  /\ UNCHANGED <<setup, plan, token, queues, pending, prompts, saved, phase,
                 robot, approvals>>

\* _refresh_command, rebind_direction: the publisher is replaced, and with it
\* all that _CommandState knows; without one the topic stays unbound
RebindQos(ok) ==
  /\ ExecutorSpins
  /\ publisher # {}
  /\ Event("rebinds")
  /\ publisher' = IF ok THEN {NewPublisher} ELSE {}
  /\ Orphaned
  /\ UNCHANGED <<setup, spec, plan, token, queues, pending, prompts, saved,
                 phase, robot, approvals>>

(***************************************************************************)
(* Commands.                                                               *)
(***************************************************************************)
Command(age) == [age |-> age, queued |-> phase]

\* handlers that the listener has started still admit while the process stops
Arrive(age) ==
  /\ phase # "down"
  /\ count["commands"] < MaxCommands
  /\ normal' = Append(normal, Command(age))
  /\ count' = [count EXCEPT !["commands"] = @ + 1]
  /\ UNCHANGED <<setup, spec, plan, publisher, token, control, decided, pending,
                 prompts, saved, phase, robot, lost, approvals>>

\* max_age_ms passes for a queued command
GrowOld ==
  /\ \E i \in DOMAIN normal :
       /\ normal[i].age = "fresh"
       /\ normal' = [normal EXCEPT ![i].age = "old"]
  /\ UNCHANGED <<setup, spec, plan, publisher, token, control, decided, pending,
                 prompts, saved, phase, robot, lost, approvals, count>>

Refill ==
  /\ ~ token
  /\ token' = TRUE
  /\ UNCHANGED <<setup, spec, plan, publisher, queues, pending, prompts, saved,
                 phase, robot, lost, approvals, count>>

\* dispatch: the confirmation gate
Open(s) == s.confirm = "auto"

\* Mutant: the watchdog stays as it was when the next command is published.
SentStillFired(p) == [p EXCEPT !.sent = "recent"]

\* publish_command: the watchdog starts again
Sent(p) == [sent |-> "recent", fired |-> FALSE]

\* dispatch, with everything it passes: the topic is bound, the command is
\* fresh, the topic is open, the rate allows it; publish_command encodes and
\* publishes when there is a publisher
Publish(ok) ==
  /\ token' = FALSE
  /\ IF publisher # {} /\ ok
     THEN /\ publisher' = {Sent(p) : p \in publisher}
          /\ robot' = "moving"
          /\ lost' = FALSE
     ELSE UNCHANGED <<publisher, robot, lost>>
  /\ UNCHANGED <<pending, prompts>>

\* _request_control_approval
AskApproval(s) ==
  /\ pending' = pending \union {s.type}
  /\ prompts' = prompts \union {s.type}
  /\ UNCHANGED <<token, publisher, robot, lost>>

DispatchCommand(ok) ==
  /\ ExecutorSpins
  /\ normal # <<>>
  /\ Works(ok)
  /\ normal' = Tail(normal)
  /\ IF spec = {} \/ Head(normal).age = "old"
     THEN UNCHANGED <<token, publisher, robot, lost, pending, prompts>>
     ELSE \E s \in spec :
            \/ Open(s) /\ token /\ Publish(ok)
            \/ ~ Open(s) /\ s.confirm = "on_first_use" /\ AskApproval(s)
            \/ /\ \/ ~ Open(s) /\ s.confirm = "required"
                  \/ Open(s) /\ ~ token
               /\ UNCHANGED <<token, publisher, robot, lost, pending, prompts>>
  /\ UNCHANGED <<setup, spec, plan, control, decided, saved, phase, approvals>>

(***************************************************************************)
(* Decisions.                                                              *)
(***************************************************************************)
Decisions == {"approve", "revoke", "reject"}

\* an operator decides on a proposal that was published at some time
DecideAtCse(proposal, decision) ==
  /\ phase # "down"
  /\ proposal \in pending
  /\ Event("decisions")
  /\ decided' = Append(decided, [proposal |-> proposal, decision |-> decision])
  /\ UNCHANGED <<setup, spec, plan, publisher, token, control, normal, pending,
                 prompts, saved, phase, robot, lost, approvals>>

\* the dialog is answered, closed or cannot be shown
AnswerPrompt(proposal, decision) ==
  /\ phase # "down"
  /\ proposal \in prompts
  /\ prompts' = prompts \ {proposal}
  /\ control' = Append(control, [proposal |-> proposal, decision |-> decision])
  /\ UNCHANGED <<setup, spec, plan, publisher, token, normal, decided, pending,
                 saved, phase, robot, lost, approvals, count>>

Approve(proposal, s, ok) ==
  IF publisher = {} /\ ~ ok
  THEN UNCHANGED <<spec, publisher, saved, lost, approvals>>
  ELSE /\ publisher' = IF publisher = {} THEN {NewPublisher} ELSE publisher
       /\ spec' = {[s EXCEPT !.confirm = "auto"]}
       /\ saved' = IF setup.direction = "both"
                   THEN {a \in saved : a[1] # proposal} \union {<<proposal, s.type>>}
                   ELSE saved
       /\ approvals' = approvals \union {<<proposal, s.type>>}
       /\ UNCHANGED lost

\* Mutant: a revoked topic keeps its saved approval.
ForgetNothing(proposal) == saved

\* _remove_control_approval
Forget(proposal) == {a \in saved : a[1] # proposal}

Revoke(proposal, s) ==
  /\ IF setup.direction = "both"
     THEN /\ publisher' = {}
          /\ spec' = {[s EXCEPT !.confirm = "on_first_use"]}
          /\ saved' = Forget(proposal)
          /\ Orphaned
     ELSE /\ spec' = {[s EXCEPT !.confirm = "required"]}
          /\ UNCHANGED <<publisher, saved, lost>>
  /\ approvals' = {a \in approvals : a[1] # proposal}

\* _apply_control_decision, by the key the proposal was registered for
Apply(d, ok) ==
  IF d.proposal \notin pending \/ spec = {} \/ d.decision = "reject"
  THEN UNCHANGED <<spec, publisher, saved, lost, approvals>>
  ELSE \E s \in spec : IF d.decision = "approve"
                       THEN Approve(d.proposal, s, ok)
                       ELSE Revoke(d.proposal, s)

Decide(ok) ==
  /\ ExecutorSpins
  /\ Works(ok)
  /\ \/ /\ control # <<>>
        /\ control' = Tail(control)
        /\ Apply(Head(control), ok)
        /\ UNCHANGED decided
     \/ /\ decided # <<>>
        /\ decided' = Tail(decided)
        /\ Apply(Head(decided), ok)
        /\ UNCHANGED control
  /\ UNCHANGED <<setup, plan, token, normal, pending, prompts, phase, robot>>

(***************************************************************************)
(* The watchdog, shutdown and restart.                                     *)
(***************************************************************************)
\* watchdog_ms passes since the last publication
Overdue ==
  /\ \E p \in publisher : p.sent = "recent"
  /\ publisher' = {[p EXCEPT !.sent = "due"] : p \in publisher}
  /\ UNCHANGED <<setup, spec, plan, token, queues, pending, prompts, saved,
                 phase, robot, lost, approvals, count>>

\* Mutant: the watchdog that has fired is not remembered.
FiredAgain(p) == p

\* tick: the flag is set before the stop is published
Fired(p) == [p EXCEPT !.fired = TRUE]

\* tick, for a publisher whose watchdog is due; a stop that cannot be
\* published is reported and not tried again
Watchdog(ok) ==
  /\ ExecutorSpins
  /\ \E p \in publisher : p.sent = "due" /\ ~ p.fired
  /\ Works(ok)
  /\ publisher' = {Fired(p) : p \in publisher}
  /\ robot' = IF ok THEN "stopped" ELSE robot
  /\ lost' = (lost \/ ~ ok)
  /\ UNCHANGED <<setup, spec, plan, token, queues, pending, prompts, saved,
                 phase, approvals>>

\* another controller drives the robot after it has been stopped
TakeOver ==
  /\ phase = "up"
  /\ robot = "stopped"
  /\ robot' = "idle"
  /\ UNCHANGED <<setup, spec, plan, publisher, token, queues, pending, prompts,
                 saved, phase, lost, approvals, count>>

\* _graceful_shutdown: the dialog is closed, then publish_safety_stops
SafetyStops(ok) ==
  /\ phase = "up"
  /\ Works(ok)
  /\ phase' = "stopping"
  /\ prompts' = {}
  /\ robot' = IF publisher # {} /\ ok THEN "stopped" ELSE robot
  /\ UNCHANGED <<setup, spec, plan, publisher, token, queues, pending, saved,
                 lost, approvals>>

\* Mutant: no more than one batch of drain is rejected, the answers first.
RejectBatch ==
  /\ phase = "stopping"
  /\ phase' = "spinning"
  /\ plan' = {}
  /\ control' = <<>> /\ decided' = <<>>
  /\ normal' = IF control = <<>> THEN <<>> ELSE normal
  /\ UNCHANGED <<setup, spec, publisher, token, pending, prompts, saved, robot,
                 lost, approvals, count>>

\* InboundProcessor.shutdown rejects what is queued, commands and decisions;
\* answers of the dialog and a prepared plan are dropped.  Then it spins the
\* executor while a service or an action is in flight, up to five seconds
RejectQueued ==
  /\ phase = "stopping"
  /\ phase' = "spinning"
  /\ plan' = {}
  /\ control' = <<>> /\ normal' = <<>> /\ decided' = <<>>
  /\ UNCHANGED <<setup, spec, publisher, token, pending, prompts, saved, robot,
                 lost, approvals, count>>

\* the endpoints go, and with the process what has been queued since
CloseEndpoints ==
  /\ phase = "spinning"
  /\ phase' = "down"
  /\ publisher' = {}
  /\ control' = <<>> /\ normal' = <<>> /\ decided' = <<>>
  /\ Orphaned
  /\ UNCHANGED <<setup, spec, plan, token, pending, prompts, saved, robot,
                 approvals, count>>

\* the process starts again, after a shutdown or a crash
Restart ==
  /\ Event("restarts")
  /\ phase' = "up"
  /\ spec' = {} /\ plan' = {} /\ publisher' = {}
  /\ token' = TRUE
  /\ control' = <<>> /\ normal' = <<>> /\ decided' = <<>>
  /\ pending' = {} /\ prompts' = {}
  /\ Orphaned
  /\ UNCHANGED <<setup, saved, robot, approvals>>

Init ==
  /\ setup \in Setups
  /\ spec = {} /\ plan = {} /\ publisher = {}
  /\ token = TRUE
  /\ control = <<>> /\ normal = <<>> /\ decided = <<>>
  /\ pending = {} /\ prompts = {} /\ saved = {}
  /\ phase = "up"
  /\ robot = "idle"
  /\ lost = FALSE
  /\ approvals = {}
  /\ count = [k \in Kinds |-> 0]

Next ==
  \/ \E type \in Types : Prepare(type)
  \/ \E ok \in BOOLEAN : \/ Activate(ok) \/ RebindQos(ok) \/ DispatchCommand(ok)
                         \/ Decide(ok) \/ Watchdog(ok) \/ SafetyStops(ok)
  \/ Vanish
  \/ \E age \in {"fresh", "old"} : Arrive(age)
  \/ GrowOld
  \/ Refill
  \/ \E proposal \in Proposals, decision \in Decisions :
       DecideAtCse(proposal, decision)
  \/ \E proposal \in Types, decision \in {"approve", "reject"} :
       AnswerPrompt(proposal, decision)
  \/ Overdue
  \/ TakeOver
  \/ RejectQueued
  \/ CloseEndpoints
  \/ Restart

Spec == Init /\ [][Next]_vars

\* time passes, the one-second tick recurs, a shutdown goes on
Fairness ==
  /\ WF_vars(Overdue)
  /\ WF_vars(Watchdog(TRUE))
  /\ WF_vars(RejectQueued)
  /\ WF_vars(CloseEndpoints)

FairSpec == Spec /\ Fairness

-----------------------------------------------------------------------------
SpecRecords     == [type : Types, confirm : Confirms]
DecisionRecords == [proposal : Proposals, decision : Decisions]
QueuedCommands  == [age : {"fresh", "old"}, queued : {"up", "stopping", "spinning"}]

(* The shapes of the state; a publisher exists only for a bound topic.     *)
TypeOK ==
  /\ setup \in Setups
  /\ spec \subseteq SpecRecords /\ Cardinality(spec) <= 1
  /\ plan \subseteq SpecRecords /\ Cardinality(plan) <= 1
  /\ publisher \subseteq [sent : {"never", "recent", "due"}, fired : BOOLEAN]
  /\ Cardinality(publisher) <= 1
  /\ publisher # {} => spec # {}
  /\ normal \in Seq(QueuedCommands)
  /\ control \in Seq(DecisionRecords) /\ decided \in Seq(DecisionRecords)
  /\ pending \subseteq Proposals /\ prompts \subseteq Types
  /\ saved \subseteq Proposals \X Types
  /\ approvals \subseteq Proposals \X Types
  /\ phase \in {"up", "stopping", "spinning", "down"}
  /\ robot \in {"idle", "moving", "stopped"}

Published == robot' = "moving" /\ token /\ ~ token'

(* A topic whose control must be approved publishes nothing that is not    *)
(* covered by an approval, given by some proposal and not revoked since:   *)
(* whatever vanished, came back, was restored from the store or was asked  *)
(* twice in between.                                                       *)
PublishesOnlyApproved ==
  [][ Published /\ setup.confirm # "auto" =>
        \E s \in spec, a \in approvals :
          a[2] = s.type \/ (a[1] = ByInterface /\ setup.confirm = "required")
    ]_vars

(* control_approval_id promises "a stable identifier that invalidates      *)
(* approval on type changes": what is published under one type was         *)
(* approved for that type.                                                 *)
ApprovedForType ==
  [][ Published /\ setup.confirm = "on_first_use" =>
        \E s \in spec : <<s.type, s.type>> \in approvals ]_vars

(* A stop is published once for a command, not again and again: the robot  *)
(* that another controller drives after the stop is not stopped by the     *)
(* watchdog that has fired, nor by the one of a publisher that was bound   *)
(* since.                                                                  *)
StopsOnce == [][robot = "idle" /\ phase' = "up" => robot' # "stopped"]_vars

(* Every command with a watchdog is followed by a stop or by the next      *)
(* command, unless the publisher it was sent by is gone or the middleware  *)
(* refused the stop.                                                       *)
WatchdogStops == (robot = "moving") ~> (robot = "stopped" \/ lost)

(* The stops of a shutdown end what was asked for before them: a command   *)
(* that was queued when they were published is not published after them,   *)
(* although the executor, and with it drain, runs again before the         *)
(* publishers are destroyed.                                               *)
StopsEndQueue ==
  [][Published /\ phase # "up" => Head(normal).queued # "up"]_vars

(* The stops of a shutdown are the last thing the robot is told.  Violated *)
(* with the constants of Commands.cfg: a command that a handler of the     *)
(* listener admits after the queue has been rejected is published while    *)
(* the shutdown spins the executor, and the process ends behind it.        *)
StopsAreLast ==
  [][phase # "up" /\ phase' # "up" => robot' = robot \/ robot' = "stopped"]_vars
=============================================================================
