----------------------------- MODULE QosControl -----------------------------
(***************************************************************************)
(* The observe QoS of one topic: the ROS adapter requests a QoS from the   *)
(* publishers the graph shows (adapter/ros2.py), the status publisher      *)
(* keeps the QoS flexContainer of the CSE up to date with it               *)
(* (runtime/status.py), and clients change the configured QoS through that *)
(* flexContainer or through policy commands (runtime/inbound.py).          *)
(*                                                                         *)
(* Every handler runs on the executor thread, so each is one step; the     *)
(* outbound worker, the CSE and its clients run beside it.  TERMINAL       *)
(* operations of one interface arrive in order (module Outbound).          *)
(***************************************************************************)
EXTENDS QosPolicies, Sequences

CONSTANTS
  InitialConf,      \* the QoSSpec the configuration gives the topic
  InitialFields,    \* the fields it gives explicitly
  Offers,           \* the QoS a publisher may offer
  Changes,          \* what a client may ask for: some fields and their values
  Modes,            \* policy.qos_strictness: subset of {"reject", "demote"}
  AllowUpdates,     \* qos_fcnt.allow_update: subset of BOOLEAN
  Peers, Specs,     \* samples of offers and configurations, for the engine
  RevMax,           \* revisions from here on are not told apart
  Limits,           \* bound: how often each kind of event happens
  MaxEvents         \* bound: how often they happen altogether

ASSUME SettingTypes ==
  /\ IsFiniteSet(Offers) /\ \A p \in Offers \union Peers : IsPeer(p)
  /\ \A s \in Specs \union {InitialConf} : IsSpec(s)
  /\ \A request \in Changes : IsRequest(request)
  /\ Modes \subseteq {"reject", "demote"} /\ AllowUpdates \subseteq BOOLEAN
  /\ RevMax \in Nat /\ MaxEvents \in Nat

VARIABLES
  mode, allow,      \* the two settings, fixed for a behaviour
  graph,            \* the offers of the publishers now in the graph
  adapter,          \* _ObserveState of the topic and its TopicSpec
  dirty,            \* the topic is in _qos_dirty
  pub,              \* the state of StatusPublisher for the topic
  republish,        \* _qos_republish is set
  out,              \* TERMINAL operations on their way to the CSE
  cse,              \* the QoS flexContainer and the history container's mni
  inbox,            \* qos_update and qos_policy events not yet handled
  saved,            \* kv "qos_overrides" of the topic: {} or one override
  count             \* the events of the environment, by kind

ipe == <<adapter, dirty, pub, republish, out, saved>>
vars == <<mode, allow, graph, adapter, dirty, pub, republish, out, cse, inbox,
          saved, count>>

Body(a) == [conf |-> a.conf, applied |-> a.applied, peers |-> a.seen,
            events |-> a.events]

\* what provisioning writes: configured axes only (spec_to_fcnt_attrs)
Bare(conf) == [conf |-> conf, applied |-> <<>>, peers |-> {}, events |-> {}]

Kinds == {"graphs",     \* changes of the graph
          "asked",      \* requests of clients
          "broken",     \* subscriptions the middleware fails to create
          "lost",       \* losses of the resources of the CSE
          "restarts"}   \* restarts of the IPE

Happened == FoldSet(LAMBDA k, n : n + count[k], 0, Kinds)

Event(kind) ==
  /\ count[kind] < Limits[kind]
  /\ Happened < MaxEvents
  /\ count' = [count EXCEPT ![kind] = @ + 1]

Bump(n) == IF n < RevMax THEN n + 1 ELSE n

(***************************************************************************)
(* The adapter.                                                            *)
(***************************************************************************)
Resolved(a) == ReconcileObserve(graph, a.conf, a.fields)
Strict(a)   == StrictAxes(Resolved(a), graph)
Guarded(a)  == StrictnessGuard(Resolved(a), graph, mode)

\* Mutant: the demotion is reported but the request is bound as it was.
BindUnguarded(a, works) ==
  IF ~ works \/ (mode = "reject" /\ Strict(a) # {})
  THEN [a EXCEPT !.bound = FALSE]
  ELSE [a EXCEPT !.bound = TRUE, !.applied = Resolved(a), !.seen = graph,
                 !.events = ObserveEvents(graph, a.conf, a.fields) \union Strict(a)]

\* bind_observe; works is FALSE when create_subscription raises
Bind(a, works) ==
  IF ~ works \/ (mode = "reject" /\ Strict(a) # {})
  THEN [a EXCEPT !.bound = FALSE]
  ELSE [a EXCEPT !.bound = TRUE, !.applied = Guarded(a), !.seen = graph,
                 !.events = ObserveEvents(graph, a.conf, a.fields) \union Strict(a)]

\* _refresh_observe: without publishers the fallback stays; without a change
\* of the effective QoS nothing is rebound
Refresh(a, works) ==
  IF ~ a.bound THEN a
  ELSE IF graph = {} THEN [a EXCEPT !.seen = {}]
  ELSE IF Guarded(a) = a.applied
  THEN [a EXCEPT !.seen = graph,
                 !.events = ObserveEvents(graph, a.conf, a.fields) \union Strict(a)]
  ELSE Bind([a EXCEPT !.seen = graph], works)

With(a, conf, fields) == [a EXCEPT !.conf = conf, !.fields = fields]

\* rebind_direction: when the candidate cannot be bound the old values are
\* restored, and bound again
Rebind(a, new, works) ==
  LET tried == Bind(new, works)
  IN  IF ~ a.bound THEN a
      ELSE IF tried.bound THEN tried ELSE Bind(a, TRUE)

\* check_candidate: reconcile and guard once more, then ask the middleware
Acceptable(new) ==
  /\ mode = "reject" => Strict(new) = {}
  /\ \A offer \in graph : Compatible(offer, Profile(Guarded(new)))

(***************************************************************************)
(* The status publisher.                                                   *)
(***************************************************************************)
\* _apply_qos_resource_mapping: the history container follows the depth
MapHistory(a, p) ==
  IF p.p.mapped = {a.applied["depth"]} THEN p
  ELSE [p |-> [p.p EXCEPT !.mapped = {a.applied["depth"]}],
        out |-> Append(p.out, [op |-> "mni", mni |-> a.applied["depth"]])]

\* Mutant: a change within the minimal interval is dropped.
HoldBackNothing(p) == p

\* publish_qos within publish_min_interval_ms: the tick tries again
HoldBack(p) == [p EXCEPT !.p.pending = TRUE]

\* publish_qos; s is the publisher and the queue behind it
Publish(a, s) ==
  IF ~ a.bound THEN [s EXCEPT !.p.pending = FALSE]
  ELSE LET m == MapHistory(a, s)
           n == Bump(m.p.revision)
       IN  IF m.p.cache = {Body(a)} THEN [m EXCEPT !.p.pending = FALSE]
           ELSE IF m.p.recent THEN HoldBack(m)
           ELSE [p |-> [m.p EXCEPT !.cache = {Body(a)}, !.revision = n,
                                   !.recent = TRUE, !.pending = FALSE],
                 out |-> Append(m.out,
                           [op |-> "fcnt", body |-> Body(a), rev |-> n])]

\* Mutant: the revision starts again with the cache.
InvalidateRevision(s) ==
  [s EXCEPT !.p.cache = {}, !.p.mapped = {}, !.p.recent = FALSE,
            !.p.pending = FALSE, !.p.revision = 0]

\* invalidate_qos
Invalidate(s) == [s EXCEPT !.p.cache = {}, !.p.mapped = {}, !.p.recent = FALSE,
                           !.p.pending = FALSE]

Published == [p |-> pub, out |-> out]

SetPublished(new) == \E s \in {new} : pub' = s.p /\ out' = s.out

\* a subscription is created, or the middleware fails
Creates(works) == IF works THEN UNCHANGED count ELSE Event("broken")

\* BindingRegistry.refresh at every discovery poll
Poll(works) ==
  /\ Creates(works)
  /\ \E a \in {Refresh(adapter, works)} :
       /\ adapter' = a
       /\ SetPublished(IF a # adapter THEN Publish(a, Published) ELSE Published)
  /\ UNCHANGED <<mode, allow, graph, dirty, republish, cse, inbox, saved>>

\* tick, first: what was held back and is due, what a matched event marked
TickPublishes(a) ==
  LET due == IF pub.pending /\ ~ pub.recent THEN Publish(adapter, Published)
                                            ELSE Published
  IN  IF dirty THEN Publish(a, due) ELSE due

\* tick: the above, then a requested republication of everything
Tick(works) ==
  /\ Creates(works)
  /\ \E a \in {IF dirty THEN Refresh(adapter, works) ELSE adapter} :
     \E s \in {TickPublishes(a)} :
       /\ adapter' = a
       /\ SetPublished(
            IF republish
            THEN Publish(a, [s EXCEPT !.p.cache = {}, !.p.mapped = {},
                                      !.p.recent = FALSE])
            ELSE s)
  /\ dirty' = FALSE
  /\ republish' = FALSE
  /\ UNCHANGED <<mode, allow, graph, cse, inbox, saved>>

\* publish_min_interval_ms has passed since the last publication
Elapse ==
  /\ pub.recent
  /\ pub' = [pub EXCEPT !.recent = FALSE]
  /\ UNCHANGED <<mode, allow, graph, adapter, dirty, republish, out, cse, inbox,
                 saved, count>>

(***************************************************************************)
(* The requests of clients.                                                *)
(***************************************************************************)
\* parse_cf_update: the fields of the request over the ones in force
Candidate(request) ==
  [f \in DOMAIN adapter.conf |->
     IF f \in DOMAIN request THEN request[f] ELSE adapter.conf[f]]

\* the topic with the request's values, which count as explicit from now on
Asked(request) ==
  With(adapter, Candidate(request), adapter.fields \union DOMAIN request)

\* parse_cf_update: MANUAL_BY_TOPIC requires a lease (B8)
Legal(conf) == conf["liveliness"] = Strong => conf["lease"] # NoLimit

\* Mutant: the candidate is saved before the rebind has succeeded.
PersistFirst(done, new) == {[conf |-> new.conf, fields |-> new.fields]}

\* _persist_qos_override
Persist(done, new) ==
  IF done THEN {[conf |-> new.conf, fields |-> new.fields]} ELSE saved

Refuse(undo) ==
  /\ SetPublished(IF undo THEN Publish(adapter, Invalidate(Published)) ELSE Published)
  /\ UNCHANGED <<adapter, saved>>

\* _apply_qos_candidate, and what a refusal does on either way in: an update
\* of the flexContainer is undone there by publishing the record once more
Apply(new, undo, works) ==
  IF ~ Acceptable(new) THEN Refuse(undo)
  ELSE \E a \in {Rebind(adapter, new, works)},
          done \in {adapter.bound /\ Bind(new, works).bound} :
         /\ adapter' = a
         /\ saved' = Persist(done, new)
         /\ SetPublished(IF done \/ undo THEN Publish(a, Invalidate(Published))
                                        ELSE Published)

NoChange == UNCHANGED <<adapter, saved, pub, out>>

\* _dispatch_qos_update
Update(request, works) ==
  \E new \in {Asked(request)} :
    IF ~ allow \/ ~ Legal(new.conf) THEN Refuse(TRUE)
    ELSE IF new.conf = adapter.conf THEN NoChange
    ELSE Apply(new, TRUE, works)

\* _dispatch_qos_policy
Policy(event, works) ==
  \E new \in {Asked(event.request)} :
    IF event.base # pub.revision \/ ~ Legal(new.conf) THEN Refuse(FALSE)
    ELSE IF new = adapter THEN NoChange
    ELSE Apply(new, FALSE, works)

\* the inbound processor takes the oldest event of the control lane
Dispatch(works) ==
  /\ inbox # <<>>
  /\ Creates(works)
  /\ IF Head(inbox).kind = "update" THEN Update(Head(inbox).request, works)
                                    ELSE Policy(Head(inbox), works)
  /\ inbox' = Tail(inbox)
  /\ UNCHANGED <<mode, allow, graph, dirty, republish, cse>>

(***************************************************************************)
(* Outside the executor thread.                                            *)
(***************************************************************************)
\* publishers come and go; the matched event marks the topic unless it falls
\* into the window that _mark_qos_dirty coalesces
GraphChanges(offers) ==
  /\ Event("graphs")
  /\ offers # graph
  /\ graph' = offers
  /\ dirty' \in {dirty, TRUE}
  /\ UNCHANGED <<mode, allow, adapter, pub, republish, out, cse, inbox, saved>>

Notice(request) == [kind |-> "update", request |-> request, base |-> 0,
                    read |-> request, born |-> count["restarts"]]

\* a worker's UPDATE reaches the CSE, which notifies the IPE of it: its
\* subscription does not leave out what the IPE itself writes
Deliver ==
  /\ out # <<>>
  /\ out' = Tail(out)
  /\ IF Head(out).op = "mni"
     THEN /\ cse' = [cse EXCEPT !.mni = Head(out).mni]
          /\ UNCHANGED inbox
     ELSE /\ cse' = [cse EXCEPT !.body = Head(out).body, !.rev = Head(out).rev,
                                !.born = count["restarts"]]
          /\ inbox' = IF allow THEN Append(inbox, Notice(Head(out).body.conf))
                               ELSE inbox
  /\ UNCHANGED <<mode, allow, graph, adapter, dirty, pub, republish, saved, count>>

\* a client writes the flexContainer: only what the request names is left
ClientUpdates(request) ==
  /\ allow
  /\ Event("asked")
  /\ cse' = [cse EXCEPT !.body = Bare(request), !.rev = 0]
  /\ inbox' = Append(inbox, Notice(request))
  /\ UNCHANGED <<mode, allow, graph, ipe>>

\* a client sends a policy command on top of the record it has read
ClientPolicy(request) ==
  /\ Event("asked")
  /\ cse.rev \in 1 .. RevMax - 1
  /\ inbox' = Append(inbox, [kind |-> "policy", request |-> request,
                             base |-> cse.rev, read |-> cse.body.conf,
                             born |-> cse.born])
  /\ UNCHANGED <<mode, allow, graph, ipe, cse>>

\* the CSE comes back empty; the recover job provisions the resources again
\* and requests a republication
CseRecovered ==
  /\ Event("lost")
  /\ cse' = [body |-> Bare(adapter.conf), rev |-> 0, mni |-> 0, born |-> 0]
  /\ republish' = TRUE
  /\ UNCHANGED <<mode, allow, graph, adapter, dirty, pub, out, inbox, saved>>

\* what the process knows when it has bound the topic and published its QoS
Started(conf, fields) ==
  LET a == Bind([bound |-> FALSE, conf |-> conf, fields |-> fields,
                 applied |-> <<>>, seen |-> {}, events |-> {}], TRUE)
  IN  [adapter |-> a,
       s |-> Publish(a, [p |-> [cache |-> {}, mapped |-> {}, recent |-> FALSE,
                                pending |-> FALSE, revision |-> 0],
                         out |-> <<>>])]

\* a crash and a start: the accepted override is restored, the caches, the
\* revision and what was on its way to the CSE are gone
Restart ==
  /\ Event("restarts")
  /\ \E o \in IF saved = {} THEN {[conf |-> InitialConf, fields |-> InitialFields]}
                            ELSE saved :
       LET new == Started(o.conf, o.fields \union InitialFields)
       IN  adapter' = new.adapter /\ SetPublished(new.s)
  /\ dirty' = FALSE
  /\ republish' = FALSE
  /\ UNCHANGED <<mode, allow, graph, cse, inbox, saved>>

Init ==
  /\ mode \in Modes
  /\ allow \in AllowUpdates
  /\ graph \in SUBSET Offers
  /\ adapter = Started(InitialConf, InitialFields).adapter
  /\ pub = Started(InitialConf, InitialFields).s.p
  /\ out = Started(InitialConf, InitialFields).s.out
  /\ dirty = FALSE
  /\ republish = FALSE
  /\ cse = [body |-> Bare(InitialConf), rev |-> 0, mni |-> 0, born |-> 0]
  /\ inbox = <<>>
  /\ saved = {}
  /\ count = [kind \in Kinds |-> 0]

Next ==
  \/ \E works \in BOOLEAN : Poll(works) \/ Tick(works) \/ Dispatch(works)
  \/ Elapse
  \/ \E offers \in SUBSET Offers : GraphChanges(offers)
  \/ Deliver
  \/ \E request \in Changes : ClientUpdates(request) \/ ClientPolicy(request)
  \/ CseRecovered
  \/ Restart

Spec == Init /\ [][Next]_vars

\* The executor timers (discovery poll, status tick, inbound drain) recur and
\* the outbound workers deliver what they hold.
Fairness ==
  /\ WF_vars(Poll(TRUE))
  /\ WF_vars(Tick(TRUE))
  /\ WF_vars(Dispatch(TRUE))
  /\ WF_vars(Elapse)
  /\ WF_vars(Deliver)

FairSpec == Spec /\ Fairness

-----------------------------------------------------------------------------
RequestFits(offered, spec) ==
  /\ RequestMatchesWhole(offered, spec)
  /\ GuardIsExact(offered, spec)
  /\ DemotedMatches(offered, spec)

RequestsFitSamples == \A p, q \in Peers, spec \in Specs : RequestFits({p, q}, spec)

(* For the publishers in the graph under the configuration in force, and   *)
(* for every two publishers and every configuration sampled: a request     *)
(* without explicit fields matches them all, the strictness guard names    *)
(* exactly the axes that would keep one from matching, and what it demotes *)
(* to matches and stays (no refresh rebinds for ever).                     *)
RequestsMatch == RequestsFitSamples /\ RequestFits(graph, adapter.conf)

OffersSatisfySamples ==
  \A p, q \in Peers, spec \in Specs : OfferSatisfies({p, q}, spec)

(* The QoS a command topic offers satisfies the subscribers, those with    *)
(* the QoS of the graph's endpoints and the sampled ones, and is never     *)
(* weaker than it is configured.                                           *)
OffersSatisfy == OffersSatisfySamples /\ OfferSatisfies(graph, adapter.conf)

(* The subscription in force is the one that the publishers last seen call *)
(* for, whatever requests were applied, refused or rolled back meanwhile.  *)
AppliedFollowsPeers ==
  adapter.bound /\ adapter.seen # {} =>
    LET resolved == ReconcileObserve(adapter.seen, adapter.conf, adapter.fields)
    IN  adapter.applied = StrictnessGuard(resolved, adapter.seen, mode)

(* A policy that changes the configured QoS was written against the QoS    *)
(* that it replaces: baseRevision lets no accepted change be overwritten   *)
(* unseen.  (One run of the process: the revision starts at 0 again after  *)
(* a restart.)                                                             *)
NoLostUpdate ==
  [][ /\ inbox # <<>> /\ inbox' = Tail(inbox)
      /\ Head(inbox).kind = "policy"
      /\ Head(inbox).born = count["restarts"]
      /\ adapter'.conf # adapter.conf
      => Head(inbox).read = adapter.conf ]_vars

(* What the store holds is what runs, so that a restart neither loses an   *)
(* accepted request nor brings back a refused one.                         *)
SavedIsConfigured ==
  IF saved = {} THEN adapter.conf = InitialConf
  ELSE \A o \in saved : o.conf = adapter.conf
                       /\ adapter.fields = o.fields \union InitialFields

Settled ==
  adapter.bound =>
    /\ adapter.seen = graph
    /\ out = <<>>
    /\ cse.body = Body(adapter)
    /\ cse.mni = adapter.applied["depth"]

(* Once the graph and the clients are quiet the CSE shows the QoS in force *)
(* and nothing more is published, in spite of the minimal interval, the    *)
(* caches and a CSE that lost its resources.  When updates are allowed the *)
(* notifications of the IPE's own publications must not disturb that.      *)
PublicationSettles == [](allow => count["asked"] = 0) => <>[]Settled

=============================================================================
