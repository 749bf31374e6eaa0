---------------------------- MODULE QosPolicies ----------------------------
(***************************************************************************)
(* The QoS engine (qos/engine.py and the policy modules it composes): what *)
(* QoS a subscription requests from the publishers of a topic, what QoS a  *)
(* publisher offers to its subscribers, and which configured values would  *)
(* make the match impossible.                                              *)
(*                                                                         *)
(* A kind (RELIABILITY, DURABILITY, LIVELINESS) is its strength in the     *)
(* table of its policy, a peer's kind may be Unknown to it.  A spec holds  *)
(* its durations in whole milliseconds or NoLimit, a peer in nanoseconds,  *)
(* NsPerMs to the millisecond, with both rmw sentinels: 0 and Forever.     *)
(* The fields of a spec that no axis decides (HISTORY, LIFESPAN) pass.     *)
(***************************************************************************)
EXTENDS Integers, FiniteSets, FiniteSetsExt

CONSTANTS NsPerMs,      \* nanoseconds in a millisecond (1000000 in the code)
          Forever       \* INT64_MAX, RMW_DURATION_INFINITE

ASSUME DurationAssumption ==
  /\ NsPerMs \in Nat \ {0}
  /\ Forever \in Nat \ {0}

Weak    == 0            \* BEST_EFFORT, VOLATILE, AUTOMATIC
Strong  == 1            \* RELIABLE, TRANSIENT_LOCAL, MANUAL_BY_TOPIC
Unknown == -1           \* a name outside the policy's table
NoLimit == -1           \* None: the duration is not set

KindAxes     == {"reliability", "durability", "liveliness"}
DurationAxes == {"deadline", "lease"}
Axes         == KindAxes \union DurationAxes

Values(peers, axis) == {p[axis] : p \in peers}

\* what a peer has, and what a configuration or a request can have: durations
\* that fit a Duration of rclpy
IsPeer(p) ==
  /\ \A a \in KindAxes : p[a] \in {Unknown, Weak, Strong}
  /\ \A a \in DurationAxes : p[a] \in Nat

IsDuration(m) == m = NoLimit \/ (m \in Nat /\ m * NsPerMs < Forever)

IsRequest(r) ==
  /\ \A a \in KindAxes \intersect DOMAIN r : r[a] \in {Weak, Strong}
  /\ \A a \in DurationAxes \intersect DOMAIN r : IsDuration(r[a])

IsSpec(s) ==
  /\ Axes \subseteq DOMAIN s
  /\ IsRequest(s)
  /\ s = [a \in DOMAIN s |-> s[a]]

(***************************************************************************)
(* qos/_shared.py                                                          *)
(***************************************************************************)
DurationMs(d) == IF d = 0 \/ d >= Forever THEN NoLimit ELSE d \div NsPerMs

Milliseconds(peers, axis) == {DurationMs(d) : d \in Values(peers, axis)}

\* _max_or_none: one unlimited duration dominates
MaxOrNone(values) == IF NoLimit \in values THEN NoLimit ELSE Max(values)

\* _min_finite: unlimited durations are left out
MinFinite(values) ==
  IF values \subseteq {NoLimit} THEN NoLimit ELSE Min(values \ {NoLimit})

Known(peers, axis) == Values(peers, axis) \ {Unknown}

\* choose_kind(weakest = True)
WeakestKind(peers, axis, configured, explicit) ==
  LET pool == Known(peers, axis) \union (IF explicit THEN {configured} ELSE {})
  IN  IF pool = {} THEN configured ELSE Min(pool)

\* Mutant: what was requested replaces what was configured.
StrongestKindRequested(peers, axis, configured) ==
  IF Known(peers, axis) = {} THEN configured ELSE Max(Known(peers, axis))

\* choose_kind(weakest = False): never weaker than configured
StrongestKind(peers, axis, configured) ==
  Max(Known(peers, axis) \union {configured})

\* requested_duration
RequestedDuration(peers, axis, configured, explicit) ==
  IF explicit THEN configured ELSE MaxOrNone(Milliseconds(peers, axis))

\* offered_duration
OfferedDuration(peers, axis, configured) ==
  LET needed == MinFinite(Milliseconds(peers, axis))
  IN  IF needed # NoLimit /\ (configured = NoLimit \/ configured > needed)
      THEN needed ELSE configured

\* Mutant: an unlimited offer does not count against the configured value.
StrictDurationFinite(peers, axis, configured) ==
  configured # NoLimit /\ \E v \in Milliseconds(peers, axis) : v > configured

\* guard_duration, its verdict
StrictDuration(peers, axis, configured) ==
  /\ configured # NoLimit
  /\ \E v \in Milliseconds(peers, axis) : v = NoLimit \/ v > configured

\* the guard of a kind policy (reliability.py, durability.py, liveliness.py)
StrictKind(peers, axis, configured) ==
  configured > WeakestKind(peers, axis, configured, FALSE)

(***************************************************************************)
(* qos/engine.py                                                           *)
(***************************************************************************)
ReconcileObserve(offered, configured, fields) ==
  IF offered = {} THEN configured
  ELSE [a \in DOMAIN configured |->
          CASE a \in KindAxes ->
                 WeakestKind(offered, a, configured[a], a \in fields)
            [] a \in DurationAxes ->
                 RequestedDuration(offered, a, configured[a], a \in fields)
            [] OTHER -> configured[a]]

ObserveEvents(offered, configured, fields) ==
  IF offered = {} THEN {"noPublisherFallback"}
  ELSE {e \in {"latchedDowngraded"} :
          /\ configured["durability"] = Strong
          /\ ReconcileObserve(offered, configured, fields)["durability"] = Weak}

ReconcileCommand(requested, configured) ==
  IF requested = {} THEN configured
  ELSE [a \in DOMAIN configured |->
          CASE a \in KindAxes -> StrongestKind(requested, a, configured[a])
            [] a \in DurationAxes -> OfferedDuration(requested, a, configured[a])
            [] OTHER -> configured[a]]

StrictAxes(spec, offered) ==
  IF offered = {} THEN {}
  ELSE {a \in Axes : IF a \in KindAxes THEN StrictKind(offered, a, spec[a])
                                       ELSE StrictDuration(offered, a, spec[a])}

Demote(spec, offered) ==
  [a \in DOMAIN spec |->
     IF a \notin StrictAxes(spec, offered) THEN spec[a]
     ELSE IF a \in KindAxes THEN WeakestKind(offered, a, spec[a], FALSE)
     ELSE MaxOrNone(Milliseconds(offered, a))]

StrictnessGuard(spec, offered, mode) ==
  IF mode = "demote" THEN Demote(spec, offered) ELSE spec

(***************************************************************************)
(* What the DDS middleware matches (adapter/qos.py hands the pair to       *)
(* rclpy.qos.qos_check_compatible): a request must not ask for more than   *)
(* is offered; a duration left out, or 0, is the default and asks nothing. *)
(***************************************************************************)
Nanoseconds(ms) == IF ms = NoLimit THEN 0 ELSE ms * NsPerMs

\* build_qos_profile: the endpoint a spec creates
Profile(spec) ==
  [a \in Axes |-> IF a \in KindAxes THEN spec[a] ELSE Nanoseconds(spec[a])]

CompatibleAxis(a, offer, request) ==
  IF a \in KindAxes
  THEN Unknown \in {offer, request} \/ request <= offer
  ELSE request = 0 \/ (offer # 0 /\ offer <= request)

Compatible(offer, request) ==
  \A a \in Axes : CompatibleAxis(a, offer[a], request[a])

(***************************************************************************)
(* Properties, for one topic with these peers and this configuration.      *)
(***************************************************************************)
WholeMs(peer) ==
  \A a \in DurationAxes : peer[a] < Forever => peer[a] % NsPerMs = 0

(* With nothing configured explicitly the request matches every publisher  *)
(* whose durations are whole milliseconds (the docstring of                *)
(* reconcile_observe promises "a weak-compatible request"; a shorter       *)
(* fraction is cut off, and the request asks for more than is offered).    *)
RequestMatchesWhole(offered, configured) ==
  LET request == Profile(ReconcileObserve(offered, configured, {}))
  IN  \A p \in offered : WholeMs(p) => Compatible(p, request)

(* A duration configured as 0 ms is the middleware's default: it asks for  *)
(* nothing and offers nothing, whatever the policies make of it.           *)
IsDefault(spec, a) == a \in DurationAxes /\ spec[a] = 0

(* The guard reports an axis exactly when that axis would keep some        *)
(* publisher from matching, so that a topic is refused or demoted for a    *)
(* reason and never left deaf without one.                                 *)
GuardIsExact(offered, spec) ==
  (\A p \in offered : WholeMs(p)) =>
    \A a \in Axes : ~ IsDefault(spec, a) =>
      (a \in StrictAxes(spec, offered) <=>
        \E p \in offered : ~ CompatibleAxis(a, p[a], Profile(spec)[a]))

(* A demoted request matches every publisher, and demoting it once more    *)
(* changes nothing: a refresh that compares it with the applied QoS does   *)
(* not rebind for ever.                                                    *)
DemotedMatches(offered, spec) ==
  LET demoted == Demote(spec, offered)
  IN  /\ \A p \in offered : WholeMs(p) => Compatible(p, Profile(demoted))
      /\ Demote(demoted, offered) = demoted

(* An offer satisfies every subscriber, when they ask for whole            *)
(* milliseconds, and offers no axis weaker than it was configured.         *)
OfferSatisfies(requested, configured) ==
  LET offer == ReconcileCommand(requested, configured)
  IN  /\ (\A r \in requested : WholeMs(r)) =>
           \A r \in requested, a \in Axes :
             \/ CompatibleAxis(a, Profile(offer)[a], r[a])
             \/ a \in DurationAxes /\ DurationMs(r[a]) = NoLimit
             \/ IsDefault(configured, a)
      /\ \A a \in KindAxes : offer[a] >= configured[a]
      /\ \A a \in DurationAxes :
           configured[a] # NoLimit => offer[a] \in 0 .. configured[a]
=============================================================================
