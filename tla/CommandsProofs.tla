--------------------------- MODULE CommandsProofs ---------------------------
(***************************************************************************)
(* Proofs about Commands: types, what is published with which approval,    *)
(* and the stops of the watchdog and of a shutdown.                        *)
(***************************************************************************)
EXTENDS Commands, FiniteSetTheorems, SequenceTheorems, TLAPS

(* A topic has one spec, one plan and one publisher at most.               *)
Single(S) == \A x, y \in S : x = y

PublisherRecords == [sent : {"never", "recent", "due"}, fired : BOOLEAN]

CommandTypes ==
  /\ setup \in Setups
  /\ spec \subseteq SpecRecords /\ Single(spec)
  /\ plan \subseteq SpecRecords /\ Single(plan)
  /\ publisher \subseteq PublisherRecords /\ Single(publisher)
  /\ publisher # {} => spec # {}
  /\ normal \in Seq(QueuedCommands)
  /\ control \in Seq(DecisionRecords) /\ decided \in Seq(DecisionRecords)
  /\ pending \subseteq Proposals /\ prompts \subseteq Types
  /\ saved \subseteq Proposals \X Types
  /\ approvals \subseteq Proposals \X Types
  /\ phase \in {"up", "stopping", "spinning", "down"}
  /\ robot \in {"idle", "moving", "stopped"}

LEMMA SingleCardinality ==
    ASSUME NEW S, Single(S)
    PROVE  Cardinality(S) <= 1
<1>1. CASE S = {}
  BY <1>1, FS_EmptySet
<1>2. CASE S # {}
  <2>1. PICK x : S = {x}
    BY <1>2 DEF Single
  <2> QED BY <2>1, FS_Singleton
<1> QED BY <1>1, <1>2

LEMMA TypesImply == CommandTypes => TypeOK
BY SingleCardinality DEF CommandTypes, TypeOK, PublisherRecords

LEMMA SetupFacts ==
    ASSUME setup \in Setups
    PROVE  setup.direction \in {"command", "both"} /\ setup.confirm \in Confirms
BY SetupTypes

LEMMA ResolvedFacts ==
    ASSUME setup \in Setups, NEW type \in Types
    PROVE  /\ Resolved(type) \in SpecRecords /\ Resolved(type).type = type
           /\ Resolved(type).confirm = "auto" /\ setup.confirm # "auto"
                => <<type, type>> \in saved
BY SetupFacts DEF Resolved, SpecRecords, Confirms

LEMMA NewFacts == NewPublisher \in PublisherRecords /\ NewPublisher.sent = "never"
BY DEF NewPublisher, PublisherRecords

LEMMA ContractFacts ==
    ASSUME NEW s \in SpecRecords
    PROVE  Contract(s) \subseteq Proposals
BY DEF Contract, SpecRecords, Proposals

LEMMA SingletonFacts ==
    ASSUME NEW x
    PROVE  Single({x}) /\ Single({}) /\ {x} # {}
BY DEF Single

LEMMA CommandFacts ==
    ASSUME CommandTypes, phase # "down", NEW age \in {"fresh", "old"}
    PROVE  Command(age) \in QueuedCommands
BY DEF CommandTypes, Command, QueuedCommands

\* a command that grows old stays the command that was queued
LEMMA OldFacts ==
    ASSUME NEW s \in Seq(QueuedCommands), NEW i \in DOMAIN s
    PROVE  /\ [s EXCEPT ![i].age = "old"] \in Seq(QueuedCommands)
           /\ DOMAIN [s EXCEPT ![i].age = "old"] = DOMAIN s
           /\ \A j \in DOMAIN s : [s EXCEPT ![i].age = "old"][j].queued = s[j].queued
<1>1. s[i] \in QueuedCommands
  BY ElementOfSeq
<1>2. /\ [s[i] EXCEPT !.age = "old"] \in QueuedCommands
      /\ [s[i] EXCEPT !.age = "old"].queued = s[i].queued
  BY <1>1 DEF QueuedCommands
<1>3. [s EXCEPT ![i] = [s[i] EXCEPT !.age = "old"]] \in Seq(QueuedCommands)
  BY <1>2, ExceptSeq
<1> QED BY <1>2, <1>3

(* The bindings of the topic.                                              *)
LEMMA PlanTypes ==
    ASSUME CommandTypes,
           \/ \E type \in Types : Prepare(type)
           \/ \E ok \in BOOLEAN : Activate(ok) \/ RebindQos(ok)
           \/ Vanish
    PROVE  CommandTypes'
<1>1. CASE \E type \in Types : Prepare(type)
  <2>1. PICK type \in Types : Prepare(type)
    BY <1>1
  <2>2. plan' = {Resolved(type)} /\ Resolved(type) \in SpecRecords
    BY <2>1, ResolvedFacts DEF Prepare, CommandTypes
  <2> QED BY <2>1, <2>2, SingletonFacts DEF Prepare, CommandTypes, queues
<1>2. CASE \E ok \in BOOLEAN : Activate(ok)
  <2>1. PICK ok \in BOOLEAN : Activate(ok)
    BY <1>2
  <2>2. PICK s \in plan :
          IF s.confirm = "on_first_use" \/ ok
          THEN /\ spec' = {s}
               /\ publisher' = IF s.confirm = "on_first_use" THEN {}
                               ELSE {NewPublisher}
               /\ pending' = pending \union Contract(s)
          ELSE UNCHANGED <<spec, publisher, pending>>
    BY <2>1 DEF Activate
  <2>3. s \in SpecRecords /\ Contract(s) \subseteq Proposals
    BY <2>2, ContractFacts DEF CommandTypes
  <2>4. UNCHANGED <<setup, queues, prompts, saved, phase, robot, approvals>> /\ plan' = {}
    BY <2>1 DEF Activate
  <2>5. /\ spec' \subseteq SpecRecords /\ Single(spec')
        /\ publisher' \subseteq PublisherRecords /\ Single(publisher')
        /\ publisher' # {} => spec' # {}
        /\ pending' \subseteq Proposals
    BY <2>2, <2>3, NewFacts, SingletonFacts DEF CommandTypes
  <2> QED BY <2>4, <2>5, SingletonFacts DEF CommandTypes, queues
<1>3. CASE \E ok \in BOOLEAN : RebindQos(ok)
  <2>1. /\ publisher # {} /\ publisher' \in {{NewPublisher}, {}}
        /\ UNCHANGED <<setup, spec, plan, queues, pending, prompts, saved, phase, robot, approvals>>
    BY <1>3 DEF RebindQos
  <2>2. /\ publisher' \subseteq PublisherRecords /\ Single(publisher')
        /\ publisher' # {} => spec' # {}
    BY <2>1, NewFacts, SingletonFacts DEF CommandTypes
  <2> QED BY <2>1, <2>2 DEF CommandTypes, queues
<1>4. CASE Vanish
  BY <1>4, SingletonFacts DEF Vanish, CommandTypes, queues
<1> QED BY <1>1, <1>2, <1>3, <1>4

LEMMA QueueTypes ==
    ASSUME CommandTypes,
           \/ \E age \in {"fresh", "old"} : Arrive(age)
           \/ GrowOld
           \/ Refill
           \/ \E proposal \in Proposals, decision \in Decisions : DecideAtCse(proposal, decision)
           \/ \E proposal \in Types, decision \in {"approve", "reject"} :
                 AnswerPrompt(proposal, decision)
    PROVE  CommandTypes'
<1>1. CASE \E age \in {"fresh", "old"} : Arrive(age)
  <2>1. PICK age \in {"fresh", "old"} : Arrive(age)
    BY <1>1
  <2>2. Command(age) \in QueuedCommands /\ normal' = Append(normal, Command(age))
    BY <2>1, CommandFacts DEF Arrive
  <2>3. normal' \in Seq(QueuedCommands)
    BY <2>2 DEF CommandTypes
  <2> QED BY <2>1, <2>3 DEF Arrive, CommandTypes
<1>2. CASE GrowOld
  <2>1. PICK i \in DOMAIN normal : normal' = [normal EXCEPT ![i].age = "old"]
    BY <1>2 DEF GrowOld
  <2>2. normal' \in Seq(QueuedCommands)
    BY <2>1, OldFacts DEF CommandTypes
  <2> QED BY <1>2, <2>2 DEF GrowOld, CommandTypes
<1>3. CASE Refill
  BY <1>3 DEF Refill, CommandTypes, queues
<1>4. CASE \E proposal \in Proposals, decision \in Decisions : DecideAtCse(proposal, decision)
  <2>1. PICK proposal \in Proposals, decision \in Decisions : DecideAtCse(proposal, decision)
    BY <1>4
  <2>2. [proposal |-> proposal, decision |-> decision] \in DecisionRecords
    BY DEF DecisionRecords
  <2>3. decided' \in Seq(DecisionRecords)
    BY <2>1, <2>2 DEF DecideAtCse, CommandTypes
  <2> QED BY <2>1, <2>3 DEF DecideAtCse, CommandTypes
<1>5. CASE \E proposal \in Types, decision \in {"approve", "reject"} :
              AnswerPrompt(proposal, decision)
  <2>1. PICK proposal \in Types, decision \in {"approve", "reject"} :
           AnswerPrompt(proposal, decision)
    BY <1>5
  <2>2. [proposal |-> proposal, decision |-> decision] \in DecisionRecords
    BY DEF DecisionRecords, Decisions, Proposals
  <2>3. control' \in Seq(DecisionRecords)
    BY <2>1, <2>2 DEF AnswerPrompt, CommandTypes
  <2> QED BY <2>1, <2>3 DEF AnswerPrompt, CommandTypes
<1> QED BY <1>1, <1>2, <1>3, <1>4, <1>5

LEMMA SentFacts ==
    ASSUME NEW p \in PublisherRecords
    PROVE  /\ Sent(p) \in PublisherRecords /\ Fired(p) \in PublisherRecords
           /\ [p EXCEPT !.sent = "due"] \in PublisherRecords
           /\ Fired(p).fired = TRUE /\ [p EXCEPT !.sent = "due"].fired = p.fired
BY DEF Sent, Fired, PublisherRecords

LEMMA CommandStep ==
    ASSUME CommandTypes, NEW ok \in BOOLEAN, DispatchCommand(ok)
    PROVE  CommandTypes'
<1>1. /\ UNCHANGED <<setup, spec, plan, control, decided, saved, phase, approvals>>
      /\ normal' \in Seq(QueuedCommands)
  BY DEF DispatchCommand, CommandTypes
<1>2. CASE UNCHANGED <<publisher, robot, pending, prompts>>
  BY <1>1, <1>2 DEF CommandTypes
<1>3. CASE \E s \in spec : Publish(ok)
  <2>1. UNCHANGED <<pending, prompts>>
    BY <1>3 DEF Publish
  <2>2. CASE publisher # {} /\ ok
    <3>1. publisher' = {Sent(p) : p \in publisher} /\ robot' = "moving"
      BY <1>3, <2>2 DEF Publish
    <3>2. publisher' \subseteq PublisherRecords /\ Single(publisher')
      BY <3>1, SentFacts DEF CommandTypes, Single
    <3> QED BY <1>1, <2>1, <2>2, <3>1, <3>2 DEF CommandTypes
  <2>3. CASE ~ (publisher # {} /\ ok)
    BY <1>1, <1>3, <2>1, <2>3 DEF Publish, CommandTypes
  <2> QED BY <2>2, <2>3
<1>4. CASE \E s \in spec : AskApproval(s)
  <2>1. PICK s \in spec : AskApproval(s)
    BY <1>4
  <2>2. s.type \in Types /\ s.type \in Proposals
    BY DEF CommandTypes, SpecRecords, Proposals
  <2> QED BY <1>1, <2>1, <2>2 DEF AskApproval, CommandTypes
<1> QED BY <1>2, <1>3, <1>4 DEF DispatchCommand

LEMMA ApplyStep ==
    ASSUME CommandTypes, NEW ok \in BOOLEAN, NEW d \in DecisionRecords, Apply(d, ok),
           UNCHANGED <<setup, plan, normal, pending, prompts, phase, robot>>,
           control' \in Seq(DecisionRecords), decided' \in Seq(DecisionRecords)
    PROVE  CommandTypes'
<1>1. UNCHANGED <<setup, plan, normal, pending, prompts, phase, robot>>
  OBVIOUS
<1>2. control' \in Seq(DecisionRecords) /\ decided' \in Seq(DecisionRecords)
  OBVIOUS
<1>3. d.proposal \in Proposals
  BY DEF DecisionRecords
<1>4. CASE UNCHANGED <<spec, publisher, saved, approvals>>
  BY <1>1, <1>2, <1>4 DEF CommandTypes
<1>5. CASE \E s \in spec : Approve(d.proposal, s, ok)
  <2>1. PICK s \in spec : Approve(d.proposal, s, ok)
    BY <1>5
  <2>2. s \in SpecRecords /\ s.type \in Types
    BY DEF CommandTypes, SpecRecords
  <2>3. CASE publisher = {} /\ ~ ok
    <3>1. UNCHANGED <<spec, publisher, saved, approvals>>
      BY <2>1, <2>3 DEF Approve
    <3> QED BY <1>4, <3>1
  <2>4. CASE ~ (publisher = {} /\ ~ ok)
    <3>1. /\ publisher' = IF publisher = {} THEN {NewPublisher} ELSE publisher
          /\ spec' = {[s EXCEPT !.confirm = "auto"]}
          /\ saved' \subseteq saved \union {<<d.proposal, s.type>>}
          /\ approvals' = approvals \union {<<d.proposal, s.type>>}
      BY <2>1, <2>4 DEF Approve
    <3>2. [s EXCEPT !.confirm = "auto"] \in SpecRecords
      BY <2>2 DEF SpecRecords, Confirms
    <3>3. spec' \subseteq SpecRecords /\ Single(spec') /\ spec' # {}
      BY <3>1, <3>2, SingletonFacts
    <3>4. publisher' \subseteq PublisherRecords /\ Single(publisher')
      BY <3>1, NewFacts, SingletonFacts DEF CommandTypes
    <3>5. saved' \subseteq Proposals \X Types /\ approvals' \subseteq Proposals \X Types
      BY <1>3, <2>2, <3>1 DEF CommandTypes
    <3> QED BY <1>1, <1>2, <3>3, <3>4, <3>5 DEF CommandTypes
  <2> QED BY <2>3, <2>4
<1>6. CASE \E s \in spec : Revoke(d.proposal, s)
  <2>1. PICK s \in spec : Revoke(d.proposal, s)
    BY <1>6
  <2>2. s \in SpecRecords
    BY DEF CommandTypes
  <2>3. /\ [s EXCEPT !.confirm = "on_first_use"] \in SpecRecords
        /\ [s EXCEPT !.confirm = "required"] \in SpecRecords
    BY <2>2 DEF SpecRecords, Confirms
  <2>4. /\ spec' \in {{[s EXCEPT !.confirm = "on_first_use"]}, {[s EXCEPT !.confirm = "required"]}}
        /\ publisher' \in {{}, publisher} /\ saved' \subseteq saved
        /\ approvals' \subseteq approvals
    BY <2>1 DEF Revoke, Forget
  <2>5. spec' \subseteq SpecRecords /\ Single(spec') /\ spec' # {}
    BY <2>3, <2>4, SingletonFacts
  <2>6. publisher' \subseteq PublisherRecords /\ Single(publisher')
    BY <2>4, SingletonFacts DEF CommandTypes
  <2> QED BY <1>1, <1>2, <2>4, <2>5, <2>6 DEF CommandTypes
<1> QED BY <1>4, <1>5, <1>6 DEF Apply

LEMMA DecideStep ==
    ASSUME CommandTypes, NEW ok \in BOOLEAN, Decide(ok)
    PROVE  CommandTypes'
<1>1. UNCHANGED <<setup, plan, normal, pending, prompts, phase, robot>>
  BY DEF Decide
<1>2. CASE control # <<>> /\ control' = Tail(control) /\ Apply(Head(control), ok)
           /\ UNCHANGED decided
  <2>1. /\ Head(control) \in DecisionRecords
        /\ control' \in Seq(DecisionRecords) /\ decided' \in Seq(DecisionRecords)
    BY <1>2 DEF CommandTypes
  <2> QED BY <1>1, <1>2, <2>1, ApplyStep
<1>3. CASE decided # <<>> /\ decided' = Tail(decided) /\ Apply(Head(decided), ok)
           /\ UNCHANGED control
  <2>1. /\ Head(decided) \in DecisionRecords
        /\ control' \in Seq(DecisionRecords) /\ decided' \in Seq(DecisionRecords)
    BY <1>3 DEF CommandTypes
  <2> QED BY <1>1, <1>3, <2>1, ApplyStep
<1> QED BY <1>2, <1>3 DEF Decide

LEMMA StopTypes ==
    ASSUME CommandTypes,
           \/ Overdue \/ TakeOver \/ RejectQueued \/ CloseEndpoints \/ Restart
           \/ \E ok \in BOOLEAN : Watchdog(ok) \/ SafetyStops(ok)
    PROVE  CommandTypes'
<1>1. CASE Overdue
  <2>1. publisher' = {[p EXCEPT !.sent = "due"] : p \in publisher} /\ publisher # {}
    BY <1>1 DEF Overdue
  <2>2. publisher' \subseteq PublisherRecords /\ Single(publisher')
    BY <2>1, SentFacts DEF CommandTypes, Single
  <2> QED BY <1>1, <2>1, <2>2 DEF Overdue, CommandTypes, queues
<1>2. CASE TakeOver
  BY <1>2 DEF TakeOver, CommandTypes, queues
<1>3. ASSUME RejectQueued \/ CloseEndpoints \/ Restart
      PROVE  /\ control' \in Seq(DecisionRecords) /\ decided' \in Seq(DecisionRecords)
             /\ normal' \in Seq(QueuedCommands)
  <2>1. control' = <<>> /\ normal' = <<>> /\ decided' = <<>>
    BY <1>3 DEF RejectQueued, CloseEndpoints, Restart
  <2>2. <<>> \in Seq(DecisionRecords) /\ <<>> \in Seq(QueuedCommands)
    OBVIOUS
  <2> QED BY <2>1, <2>2
<1>4. CASE RejectQueued \/ CloseEndpoints \/ Restart
  <2>1. CASE RejectQueued
    BY <1>3, <2>1, SingletonFacts DEF RejectQueued, CommandTypes
  <2>2. CASE CloseEndpoints
    BY <1>3, <2>2, SingletonFacts DEF CloseEndpoints, CommandTypes
  <2>3. CASE Restart
    BY <1>3, <2>3, SingletonFacts DEF Restart, CommandTypes
  <2> QED BY <1>4, <2>1, <2>2, <2>3
<1>5. CASE \E ok \in BOOLEAN : Watchdog(ok)
  <2>1. /\ publisher' = {Fired(p) : p \in publisher} /\ publisher # {}
        /\ robot' \in {"stopped", robot}
        /\ UNCHANGED <<setup, spec, plan, queues, pending, prompts, saved, phase, approvals>>
    BY <1>5 DEF Watchdog
  <2>2. publisher' \subseteq PublisherRecords /\ Single(publisher')
    BY <2>1, SentFacts DEF CommandTypes, Single
  <2> QED BY <2>1, <2>2 DEF CommandTypes, queues
<1>6. CASE \E ok \in BOOLEAN : SafetyStops(ok)
  BY <1>6 DEF SafetyStops, CommandTypes, queues
<1> QED BY <1>1, <1>2, <1>4, <1>5, <1>6

LEMMA TypesNext ==
    ASSUME CommandTypes, [Next]_vars
    PROVE  CommandTypes'
<1>1. CASE UNCHANGED vars
  BY <1>1 DEF vars, queues, CommandTypes
<1>2. CASE Next
  BY <1>2, PlanTypes, QueueTypes, CommandStep, DecideStep, StopTypes DEF Next
<1> QED BY <1>1, <1>2

LEMMA TypesInit == Init => CommandTypes
<1> SUFFICES ASSUME Init PROVE CommandTypes
  OBVIOUS
<1>1. /\ control \in Seq(DecisionRecords) /\ decided \in Seq(DecisionRecords)
      /\ normal \in Seq(QueuedCommands)
  BY DEF Init
<1> QED BY <1>1, SingletonFacts DEF Init, CommandTypes

LEMMA CommandTypesInv == Spec => []CommandTypes
BY TypesInit, TypesNext, PTL DEF Spec

(* The state of the command path keeps its shape: one spec, one plan and   *)
(* one publisher at most, and a publisher only for a bound topic.          *)
THEOREM CommandsTypes == Spec => []TypeOK
BY CommandTypesInv, TypesImply, PTL

(***************************************************************************)
(* Approvals.                                                              *)
(***************************************************************************)

Allowed(type) ==
  \E a \in approvals : a[2] = type \/ (a[1] = ByInterface /\ setup.confirm = "required")

(* A topic that is open although its configuration asks for confirmation   *)
(* has been approved: in the registry, in a plan and in the store.         *)
ApprovalInv ==
  /\ \A s \in spec \union plan : Open(s) /\ setup.confirm # "auto" => Allowed(s.type)
  /\ saved \subseteq approvals
  /\ setup.direction # "both" => saved = {}
  /\ plan # {} => spec = {}

LEMMA ApproveKeeps ==
    ASSUME CommandTypes, ApprovalInv, NEW s \in spec, NEW proposal, NEW ok \in BOOLEAN,
           Approve(proposal, s, ok), UNCHANGED <<setup, plan>>
    PROVE  ApprovalInv'
<1>1. plan = {} /\ s \in SpecRecords
  BY DEF ApprovalInv, CommandTypes
<1>2. CASE UNCHANGED <<spec, saved, approvals>>
  BY <1>2 DEF ApprovalInv, Allowed
<1>3. CASE ~ UNCHANGED <<spec, saved, approvals>>
  <2>1. /\ spec' = {[s EXCEPT !.confirm = "auto"]}
        /\ saved' = IF setup.direction = "both"
                    THEN {a \in saved : a[1] # proposal} \union {<<proposal, s.type>>}
                    ELSE saved
        /\ approvals' = approvals \union {<<proposal, s.type>>}
    BY <1>3 DEF Approve
  <2>2. [s EXCEPT !.confirm = "auto"].type = s.type
    BY <1>1 DEF SpecRecords
  <2>3. \A t \in spec' : t.type = s.type
    BY <2>1, <2>2
  <2>4. <<proposal, s.type>> \in approvals' /\ <<proposal, s.type>>[2] = s.type
    BY <2>1
  <2>5. \A t \in spec' \union plan' : Allowed(t.type)'
    BY <1>1, <2>3, <2>4 DEF Allowed
  <2>6. saved' \subseteq approvals' /\ (setup.direction # "both" => saved' = {})
    BY <2>1 DEF ApprovalInv
  <2> QED BY <1>1, <2>5, <2>6 DEF ApprovalInv
<1> QED BY <1>2, <1>3

LEMMA RevokeKeeps ==
    ASSUME CommandTypes, ApprovalInv, NEW s \in spec, NEW proposal,
           Revoke(proposal, s), UNCHANGED <<setup, plan>>
    PROVE  ApprovalInv'
<1>1. plan = {} /\ s \in SpecRecords
  BY DEF ApprovalInv, CommandTypes
<1>2. /\ [s EXCEPT !.confirm = "on_first_use"].confirm = "on_first_use"
      /\ [s EXCEPT !.confirm = "required"].confirm = "required"
  BY <1>1 DEF SpecRecords
<1>3. spec' \in {{[s EXCEPT !.confirm = "on_first_use"]}, {[s EXCEPT !.confirm = "required"]}}
  BY DEF Revoke
<1>4. \A t \in spec' : ~ Open(t)
  BY <1>2, <1>3 DEF Open
<1>5. /\ approvals' = {a \in approvals : a[1] # proposal}
      /\ saved' = IF setup.direction = "both" THEN {a \in saved : a[1] # proposal} ELSE saved
  BY DEF Revoke, Forget
<1>6. saved' \subseteq approvals' /\ (setup.direction # "both" => saved' = {})
  BY <1>5 DEF ApprovalInv
<1> QED BY <1>1, <1>4, <1>6 DEF ApprovalInv, Open

LEMMA ApprovalNext ==
    ASSUME CommandTypes, ApprovalInv, [Next]_vars
    PROVE  ApprovalInv'
<1>1. CASE UNCHANGED <<setup, spec, plan, saved, approvals>>
  BY <1>1 DEF ApprovalInv, Allowed
<1>2. CASE \E type \in Types : Prepare(type)
  <2>1. PICK type \in Types : Prepare(type)
    BY <1>2
  <2>2. /\ plan' = {Resolved(type)} /\ spec = {} /\ spec' = {}
        /\ UNCHANGED <<setup, saved, approvals>>
    BY <2>1 DEF Prepare
  <2>3. /\ Resolved(type).type = type
        /\ Resolved(type).confirm = "auto" /\ setup.confirm # "auto" => <<type, type>> \in approvals
    BY ResolvedFacts DEF CommandTypes, ApprovalInv
  <2>4. <<type, type>>[2] = type
    OBVIOUS
  <2>5. Open(Resolved(type)) /\ setup.confirm # "auto" => Allowed(type)
    BY <2>3, <2>4 DEF Open, Allowed
  <2>6. Allowed(type)' <=> Allowed(type)
    BY <2>2 DEF Allowed
  <2>7. \A s \in spec' \union plan' : s = Resolved(type)
    BY <2>2
  <2>8. ASSUME NEW s \in spec' \union plan', Open(s), setup'.confirm # "auto"
        PROVE  Allowed(s.type)'
    <3>1. s = Resolved(type)
      BY <2>7, <2>8
    <3>2. s.type = type
      BY <2>3, <3>1
    <3>3. Allowed(type)'
      BY <2>2, <2>5, <2>6, <2>8, <3>1
    <3> QED BY <3>2, <3>3 DEF Allowed
  <2> QED BY <2>2, <2>8 DEF ApprovalInv, Open
<1>3. CASE \E ok \in BOOLEAN : Activate(ok)
  <2>1. /\ plan' = {} /\ spec' \subseteq spec \union plan
        /\ UNCHANGED <<setup, saved, approvals>>
    BY <1>3 DEF Activate
  <2> QED BY <2>1 DEF ApprovalInv, Allowed, Open
<1>4. CASE Vanish \/ Restart
  <2>1. /\ plan' \subseteq plan /\ spec' = {}
        /\ UNCHANGED <<setup, saved, approvals>>
    BY <1>4 DEF Vanish, Restart
  <2> QED BY <2>1 DEF ApprovalInv, Allowed, Open
<1>5. CASE \E ok \in BOOLEAN : Decide(ok)
  <2>1. PICK ok \in BOOLEAN : Decide(ok)
    BY <1>5
  <2>2. UNCHANGED <<setup, plan>>
    BY <2>1 DEF Decide
  <2>3. \/ UNCHANGED <<spec, saved, approvals>>
        \/ \E s \in spec, d \in {Head(control), Head(decided)} :
             Approve(d.proposal, s, ok) \/ Revoke(d.proposal, s)
    BY <2>1 DEF Decide, Apply
  <2> QED BY <1>1, <2>2, <2>3, ApproveKeeps, RevokeKeeps
<1>6. CASE \/ \E ok \in BOOLEAN : \/ RebindQos(ok) \/ DispatchCommand(ok)
                                  \/ Watchdog(ok) \/ SafetyStops(ok)
           \/ \E age \in {"fresh", "old"} : Arrive(age)
           \/ GrowOld \/ Refill \/ Overdue \/ TakeOver \/ CloseEndpoints
  BY <1>1, <1>6 DEF RebindQos, DispatchCommand, Watchdog, SafetyStops, Arrive, GrowOld,
                    Refill, Overdue, TakeOver, CloseEndpoints
<1>7. CASE \/ \E proposal \in Proposals, decision \in Decisions :
                 DecideAtCse(proposal, decision)
           \/ \E proposal \in Types, decision \in {"approve", "reject"} :
                 AnswerPrompt(proposal, decision)
  BY <1>1, <1>7 DEF DecideAtCse, AnswerPrompt
<1>8. CASE UNCHANGED vars
  BY <1>1, <1>8 DEF vars
<1>9. CASE RejectQueued
  BY <1>9 DEF RejectQueued, ApprovalInv, Allowed, Open
<1> QED BY <1>2, <1>3, <1>4, <1>5, <1>6, <1>7, <1>8, <1>9 DEF Next

LEMMA ApprovalInit == Init => ApprovalInv
BY DEF Init, ApprovalInv

LEMMA ApprovalAlways == Spec => []ApprovalInv
BY CommandTypesInv, ApprovalInit, ApprovalNext, PTL DEF Spec

(* Only the command path publishes, and only for an open topic.            *)
LEMMA PublishedOpen ==
    ASSUME CommandTypes, [Next]_vars, Published
    PROVE  /\ \E s \in spec : Open(s)
           /\ ExecutorSpins /\ normal # <<>>
<1>1. CASE \E ok \in BOOLEAN : DispatchCommand(ok)
  BY <1>1 DEF DispatchCommand, AskApproval, Published
<1>2. CASE token' = token
  BY <1>2 DEF Published
<1>3. CASE token' = TRUE
  BY <1>3 DEF Published
<1>4. CASE ~ \E ok \in BOOLEAN : DispatchCommand(ok)
  <2>1. CASE \/ \E type \in Types : Prepare(type)
             \/ \E ok \in BOOLEAN : \/ Activate(ok) \/ RebindQos(ok)
                                    \/ Decide(ok) \/ Watchdog(ok) \/ SafetyStops(ok)
             \/ Vanish
    BY <1>2, <2>1 DEF Prepare, Activate, RebindQos, Decide, Watchdog, SafetyStops, Vanish
  <2>2. CASE \/ \E age \in {"fresh", "old"} : Arrive(age)
             \/ GrowOld
             \/ \E proposal \in Proposals, decision \in Decisions :
                   DecideAtCse(proposal, decision)
             \/ \E proposal \in Types, decision \in {"approve", "reject"} :
                   AnswerPrompt(proposal, decision)
             \/ Overdue \/ TakeOver \/ RejectQueued \/ CloseEndpoints
    BY <1>2, <2>2 DEF Arrive, GrowOld, DecideAtCse, AnswerPrompt, Overdue, TakeOver,
                      RejectQueued, CloseEndpoints
  <2>3. CASE Refill \/ Restart
    BY <1>3, <2>3 DEF Refill, Restart
  <2>4. CASE UNCHANGED vars
    BY <1>2, <2>4 DEF vars
  <2> QED BY <1>4, <2>1, <2>2, <2>3, <2>4 DEF Next
<1> QED BY <1>1, <1>4

(* What is published on a topic whose configuration asks for confirmation  *)
(* is covered by an approval not revoked since, whatever vanished, came    *)
(* back or was restored in between (apply_saved_control_approvals).        *)
THEOREM CommandsApproved == Spec => PublishesOnlyApproved
<1>1. ASSUME CommandTypes, ApprovalInv, [Next]_vars
      PROVE  [Published /\ setup.confirm # "auto" =>
                \E s \in spec, a \in approvals :
                  a[2] = s.type \/ (a[1] = ByInterface /\ setup.confirm = "required")]_vars
  <2>1. ASSUME Published, setup.confirm # "auto"
        PROVE  \E s \in spec, a \in approvals :
                  a[2] = s.type \/ (a[1] = ByInterface /\ setup.confirm = "required")
    <3>1. PICK s \in spec : Open(s)
      BY <1>1, <2>1, PublishedOpen
    <3>2. Allowed(s.type)
      BY <1>1, <2>1, <3>1 DEF ApprovalInv
    <3> QED BY <3>2 DEF Allowed
  <2> QED BY <2>1
<1> QED BY <1>1, CommandTypesInv, ApprovalAlways, PTL DEF Spec, PublishesOnlyApproved

(***************************************************************************)
(* Stops.                                                                  *)
(***************************************************************************)

(* A robot that is not moving has no watchdog running for it.              *)
StopInv ==
  phase = "up" /\ robot # "moving" =>
    \A p \in publisher : p.fired \/ p.sent = "never"

LEMMA StopNext ==
    ASSUME CommandTypes, StopInv, [Next]_vars
    PROVE  StopInv'
<1>1. CASE UNCHANGED <<phase, robot, publisher>>
  BY <1>1 DEF StopInv
<1>2. CASE publisher' = {} \/ robot' = "moving" \/ phase' # "up"
  BY <1>2 DEF StopInv
<1>3. CASE publisher' = {NewPublisher}
  BY <1>3, NewFacts DEF StopInv
<1>4. CASE \E ok \in BOOLEAN : Activate(ok)
  <2>1. /\ UNCHANGED <<phase, robot>>
        /\ publisher' \in {publisher, {}, {NewPublisher}}
    BY <1>4 DEF Activate
  <2> QED BY <1>1, <1>2, <1>3, <2>1
<1>5. CASE \E ok \in BOOLEAN : RebindQos(ok)
  BY <1>2, <1>3, <1>5 DEF RebindQos
<1>6. CASE \E ok \in BOOLEAN : DispatchCommand(ok)
  <2>1. robot' = "moving" \/ UNCHANGED <<phase, robot, publisher>>
    BY <1>6 DEF DispatchCommand, Publish, AskApproval
  <2> QED BY <1>1, <1>2, <2>1
<1>7. CASE \E ok \in BOOLEAN : Decide(ok)
  <2>1. /\ UNCHANGED <<phase, robot>>
        /\ publisher' \in {publisher, {}, {NewPublisher}}
    BY <1>7 DEF Decide, Apply, Approve, Revoke
  <2> QED BY <1>1, <1>2, <1>3, <2>1
<1>8. CASE Overdue
  <2>1. PICK p \in publisher : p.sent = "recent"
    BY <1>8 DEF Overdue
  <2>2. publisher = {p} /\ p \in PublisherRecords
    BY <2>1 DEF CommandTypes, Single
  <2>3. publisher' = {[p EXCEPT !.sent = "due"]} /\ UNCHANGED <<phase, robot>>
    BY <1>8, <2>2 DEF Overdue
  <2>4. phase = "up" /\ robot # "moving" => p.fired
    BY <2>1 DEF StopInv
  <2>5. [p EXCEPT !.sent = "due"].fired = p.fired
    BY <2>2, SentFacts
  <2> QED BY <2>3, <2>4, <2>5 DEF StopInv
<1>9. CASE \E ok \in BOOLEAN : Watchdog(ok)
  <2>1. publisher' = {Fired(p) : p \in publisher}
    BY <1>9 DEF Watchdog
  <2>2. ASSUME NEW p \in publisher' PROVE p.fired
    <3>1. PICK q \in publisher : p = Fired(q)
      BY <2>1
    <3>2. q \in PublisherRecords
      BY DEF CommandTypes
    <3>3. p = [q EXCEPT !.fired = TRUE]
      BY <3>1 DEF Fired
    <3> QED BY <3>2, <3>3 DEF PublisherRecords
  <2> QED BY <2>2 DEF StopInv
<1>10. CASE TakeOver
  <2>1. robot = "stopped" /\ UNCHANGED <<phase, publisher>>
    BY <1>10 DEF TakeOver
  <2> QED BY <2>1 DEF StopInv
<1>11. CASE \/ \E ok \in BOOLEAN : SafetyStops(ok)
            \/ RejectQueued \/ CloseEndpoints \/ Restart \/ Vanish
  BY <1>2, <1>11 DEF SafetyStops, RejectQueued, CloseEndpoints, Restart, Vanish
<1>12. CASE \/ \E type \in Types : Prepare(type)
            \/ \E age \in {"fresh", "old"} : Arrive(age)
            \/ GrowOld \/ Refill \/ UNCHANGED vars
  BY <1>1, <1>12 DEF Prepare, Arrive, GrowOld, Refill, vars
<1>13. CASE \/ \E proposal \in Proposals, decision \in Decisions :
                  DecideAtCse(proposal, decision)
            \/ \E proposal \in Types, decision \in {"approve", "reject"} :
                  AnswerPrompt(proposal, decision)
  BY <1>1, <1>13 DEF DecideAtCse, AnswerPrompt
<1> QED BY <1>4, <1>5, <1>6, <1>7, <1>8, <1>9, <1>10, <1>11, <1>12, <1>13 DEF Next

LEMMA StopInit == Init => StopInv
BY DEF Init, StopInv

LEMMA StopAlways == Spec => []StopInv
BY CommandTypesInv, StopInit, StopNext, PTL DEF Spec

(* Who stops the robot: the watchdog, or a shutdown.                       *)
LEMMA RobotStops ==
    ASSUME CommandTypes, [Next]_vars, robot # "stopped", robot' = "stopped", phase' = "up"
    PROVE  \E ok \in BOOLEAN : Watchdog(ok)
<1>1. CASE \E ok \in BOOLEAN : DispatchCommand(ok)
  BY <1>1 DEF DispatchCommand, Publish, AskApproval
<1>2. CASE \/ TakeOver \/ \E ok \in BOOLEAN : SafetyStops(ok)
  BY <1>2 DEF TakeOver, SafetyStops
<1>3. CASE \/ \E type \in Types : Prepare(type)
           \/ \E ok \in BOOLEAN : Activate(ok) \/ RebindQos(ok) \/ Decide(ok)
           \/ Vanish \/ GrowOld \/ Refill \/ Overdue
           \/ RejectQueued \/ CloseEndpoints \/ Restart
  BY <1>3 DEF Prepare, Activate, RebindQos, Decide, Vanish, GrowOld, Refill, Overdue,
              RejectQueued, CloseEndpoints, Restart
<1>4. CASE \/ \E age \in {"fresh", "old"} : Arrive(age)
           \/ \E proposal \in Proposals, decision \in Decisions :
                 DecideAtCse(proposal, decision)
           \/ \E proposal \in Types, decision \in {"approve", "reject"} :
                 AnswerPrompt(proposal, decision)
           \/ UNCHANGED vars
  BY <1>4 DEF Arrive, DecideAtCse, AnswerPrompt, vars
<1> QED BY <1>1, <1>2, <1>3, <1>4 DEF Next

(* A robot that another controller drives since it was stopped is not      *)
(* stopped by a watchdog that has fired, nor by that of a newer publisher. *)
THEOREM CommandsStopOnce == Spec => StopsOnce
<1>1. ASSUME CommandTypes, StopInv, [Next]_vars
      PROVE  [robot = "idle" /\ phase' = "up" => robot' # "stopped"]_vars
  <2>1. ASSUME robot = "idle", phase' = "up", robot' = "stopped" PROVE FALSE
    <3>1. PICK ok \in BOOLEAN : Watchdog(ok)
      BY <1>1, <2>1, RobotStops
    <3>2. PICK p \in publisher : p.sent = "due" /\ ~ p.fired
      BY <3>1 DEF Watchdog
    <3>3. phase = "up"
      BY <2>1, <3>1 DEF Watchdog
    <3> QED BY <1>1, <2>1, <3>2, <3>3 DEF StopInv
  <2> QED BY <2>1
<1> QED BY <1>1, CommandTypesInv, StopAlways, PTL DEF Spec, StopsOnce

(* Once the queue has been rejected, what it holds came in later.          *)
QueueInv ==
  phase = "spinning" => \A i \in DOMAIN normal : normal[i].queued # "up"

LEMMA QueueNext ==
    ASSUME CommandTypes, QueueInv, [Next]_vars
    PROVE  QueueInv'
<1>1. CASE UNCHANGED <<phase, normal>> \/ phase' # "spinning"
  BY <1>1 DEF QueueInv
<1>2. CASE RejectQueued
  BY <1>2 DEF RejectQueued, QueueInv
<1>3. CASE \E age \in {"fresh", "old"} : Arrive(age)
  <2>1. PICK age \in {"fresh", "old"} : Arrive(age)
    BY <1>3
  <2>2. /\ normal' = Append(normal, Command(age)) /\ phase' = phase
        /\ Command(age).queued = phase
    BY <2>1 DEF Arrive, Command
  <2>3. \A i \in DOMAIN normal' : \/ i \in DOMAIN normal /\ normal'[i] = normal[i]
                                 \/ normal'[i] = Command(age)
    BY <2>2 DEF CommandTypes
  <2> QED BY <2>2, <2>3 DEF QueueInv
<1>4. CASE GrowOld
  <2>1. PICK i \in DOMAIN normal : normal' = [normal EXCEPT ![i].age = "old"]
    BY <1>4 DEF GrowOld
  <2>2. /\ DOMAIN normal' = DOMAIN normal
        /\ \A j \in DOMAIN normal : normal'[j].queued = normal[j].queued
    BY <2>1, OldFacts DEF CommandTypes
  <2> QED BY <1>4, <2>2 DEF GrowOld, QueueInv
<1>5. CASE \E ok \in BOOLEAN : DispatchCommand(ok)
  <2>1. normal # <<>> /\ normal' = Tail(normal) /\ phase' = phase
    BY <1>5 DEF DispatchCommand
  <2>2. \A i \in DOMAIN normal' : i + 1 \in DOMAIN normal /\ normal'[i] = normal[i + 1]
    BY <2>1 DEF CommandTypes
  <2> QED BY <2>1, <2>2 DEF QueueInv
<1>6. CASE \/ \E type \in Types : Prepare(type)
           \/ \E ok \in BOOLEAN : \/ Activate(ok) \/ RebindQos(ok) \/ Decide(ok)
                                  \/ Watchdog(ok) \/ SafetyStops(ok)
           \/ Vanish \/ Refill \/ Overdue \/ TakeOver \/ CloseEndpoints \/ Restart
  BY <1>1, <1>6 DEF Prepare, Activate, RebindQos, Decide, Watchdog, SafetyStops, Vanish,
                    Refill, Overdue, TakeOver, CloseEndpoints, Restart, queues
<1>7. CASE \/ \E proposal \in Proposals, decision \in Decisions :
                 DecideAtCse(proposal, decision)
           \/ \E proposal \in Types, decision \in {"approve", "reject"} :
                 AnswerPrompt(proposal, decision)
           \/ UNCHANGED vars
  BY <1>1, <1>7 DEF DecideAtCse, AnswerPrompt, vars, queues
<1> QED BY <1>2, <1>3, <1>4, <1>5, <1>6, <1>7 DEF Next

LEMMA QueueInit == Init => QueueInv
BY DEF Init, QueueInv

(* A command queued before the stops of a shutdown is not published after  *)
(* them, though drain may run again (InboundProcessor.shutdown).           *)
THEOREM CommandsStopsEndQueue == Spec => StopsEndQueue
<1>1. ASSUME CommandTypes, QueueInv, [Next]_vars
      PROVE  [Published /\ phase # "up" => Head(normal).queued # "up"]_vars
  <2>1. ASSUME Published, phase # "up" PROVE Head(normal).queued # "up"
    <3>1. phase = "spinning" /\ normal # <<>>
      BY <1>1, <2>1, PublishedOpen DEF ExecutorSpins
    <3>2. 1 \in DOMAIN normal /\ Head(normal) = normal[1]
      BY <1>1, <3>1 DEF CommandTypes
    <3> QED BY <1>1, <3>1, <3>2 DEF QueueInv
  <2> QED BY <2>1
<1>2. Spec => []QueueInv
  BY CommandTypesInv, QueueInit, QueueNext, PTL DEF Spec
<1> QED BY <1>1, <1>2, CommandTypesInv, PTL DEF Spec, StopsEndQueue
=============================================================================
