------------------------------ MODULE QosProofs ------------------------------
(***************************************************************************)
(* Proofs about QosPolicies and QosControl.  The decisions of the engine   *)
(* are proved for every finite set of peers and every configuration, the   *)
(* control loop for every value of its constants.                          *)
(***************************************************************************)
EXTENDS QosControl, WellFoundedInduction, FiniteSetTheorems, TLAPS

(***************************************************************************)
(* Arithmetic and extrema.                                                 *)
(***************************************************************************)

LEMMA Whole ==
    ASSUME NEW d \in Nat, d % NsPerMs = 0
    PROVE  d \div NsPerMs \in Nat /\ d = (d \div NsPerMs) * NsPerMs
BY DurationAssumption

LEMMA Milli ==
    ASSUME NEW d \in Nat
    PROVE  d \div NsPerMs \in Nat
BY DurationAssumption

LEMMA Scaled ==
    ASSUME NEW m \in Nat, NEW n \in Nat
    PROVE  /\ m * NsPerMs \in Nat
           /\ m <= n <=> m * NsPerMs <= n * NsPerMs
           /\ m * NsPerMs = 0 <=> m = 0
BY DurationAssumption

(* A finite set of numbers that is not empty has a greatest one and a      *)
(* least one.                                                              *)
LEMMA Extrema ==
    ASSUME NEW S, S \subseteq Int, IsFiniteSet(S), S # {}
    PROVE  /\ Max(S) \in S /\ \A n \in S : n <= Max(S)
           /\ Min(S) \in S /\ \A n \in S : Min(S) <= n
<1> DEFINE R == StrictSubsetOrdering(S)
           Above(x) == {y \in S : x <= y}
           Below(x) == {y \in S : y <= x}
           Ups == {Above(x) : x \in S}
           Downs == {Below(x) : x \in S}
<1>1. IsWellFoundedOn(R, SUBSET S)
  BY FS_StrictSubsetOrderingWellFounded, FS_FiniteSubsetsOfFinite
<1>2. Ups \subseteq SUBSET S /\ Ups # {} /\ Downs \subseteq SUBSET S /\ Downs # {}
  OBVIOUS
<1>3. \A T, U \in SUBSET S : T \subseteq U /\ T # U => <<T, U>> \in R
  BY DEF StrictSubsetOrdering
<1> HIDE DEF R, Ups, Downs
<1>4. \E T \in Ups : \A U \in Ups : ~ (<<U, T>> \in R)
  BY <1>1, <1>2, WFMin
<1>5. \E T \in Downs : \A U \in Downs : ~ (<<U, T>> \in R)
  BY <1>1, <1>2, WFMin
<1>6. PICK m \in S : \A U \in Ups : ~ (<<U, Above(m)>> \in R)
  BY <1>4 DEF Ups
<1>7. PICK l \in S : \A U \in Downs : ~ (<<U, Below(l)>> \in R)
  BY <1>5 DEF Downs
<1>8. ASSUME NEW n \in S PROVE n <= m
  <2> SUFFICES ASSUME m < n PROVE FALSE
    BY <1>8
  <2>0. n \in Int /\ m \in Int
    BY <1>8
  <2>a. ASSUME NEW y \in S, n <= y PROVE m <= y
    BY <2>0, <2>a
  <2>b. ~ (n <= m) /\ m <= m
    BY <2>0
  <2>1. Above(n) \subseteq Above(m) /\ m \in Above(m) /\ m \notin Above(n)
    BY <2>a, <2>b
  <2>2. Above(n) \in Ups /\ Above(n) \in SUBSET S /\ Above(m) \in SUBSET S
    BY <1>8 DEF Ups
  <2> QED BY <1>3, <1>6, <2>1, <2>2
<1>9. ASSUME NEW n \in S PROVE l <= n
  <2> SUFFICES ASSUME n < l PROVE FALSE
    BY <1>9
  <2>0. n \in Int /\ l \in Int
    BY <1>9
  <2>a. ASSUME NEW y \in S, y <= n PROVE y <= l
    BY <2>0, <2>a
  <2>b. ~ (l <= n) /\ l <= l
    BY <2>0
  <2>1. Below(n) \subseteq Below(l) /\ l \in Below(l) /\ l \notin Below(n)
    BY <2>a, <2>b
  <2>2. Below(n) \in Downs /\ Below(n) \in SUBSET S /\ Below(l) \in SUBSET S
    BY <1>9 DEF Downs
  <2> QED BY <1>3, <1>7, <2>1, <2>2
<1>10. Max(S) \in S /\ \A n \in S : Max(S) >= n
  BY <1>8 DEF Max
<1>11. Min(S) \in S /\ \A n \in S : Min(S) <= n
  BY <1>9 DEF Min
<1> QED BY <1>10, <1>11

(***************************************************************************)
(* Durations: what the engine makes of a peer's nanoseconds, and what the  *)
(* middleware makes of them.                                               *)
(***************************************************************************)

LEMMA Cut ==
    ASSUME NEW d \in Nat, NEW m \in Nat
    PROVE  /\ d \div NsPerMs \in Nat /\ (d \div NsPerMs) * NsPerMs <= d
           /\ m <= d \div NsPerMs => m * NsPerMs <= d
<1>1. d \div NsPerMs \in Nat /\ (d \div NsPerMs) * NsPerMs <= d
  BY DurationAssumption
<1>2. m <= d \div NsPerMs => m * NsPerMs <= (d \div NsPerMs) * NsPerMs
  BY <1>1, Scaled
<1>3. m * NsPerMs \in Nat /\ (d \div NsPerMs) * NsPerMs \in Nat
  BY <1>1, Scaled
<1> QED BY <1>1, <1>2, <1>3

LEMMA PeerDuration ==
    ASSUME NEW d \in Nat
    PROVE  /\ IsDuration(DurationMs(d))
           /\ DurationMs(d) = NoLimit <=> d = 0 \/ d >= Forever
           /\ DurationMs(d) # NoLimit => /\ DurationMs(d) \in Nat
                                         /\ DurationMs(d) = d \div NsPerMs
<1>1. d \div NsPerMs \in Nat /\ (d \div NsPerMs) * NsPerMs <= d
  BY Cut
<1>2. (d \div NsPerMs) * NsPerMs \in Nat
  BY <1>1, Scaled
<1>3. d < Forever => (d \div NsPerMs) * NsPerMs < Forever
  BY <1>1, <1>2, DurationAssumption
<1> QED BY <1>1, <1>3, DurationAssumption DEF DurationMs, IsDuration, NoLimit

LEMMA Compared ==
    ASSUME NEW a \in DurationAxes, NEW d, NEW q
    PROVE  CompatibleAxis(a, d, q) <=> q = 0 \/ (d # 0 /\ d <= q)
BY DEF CompatibleAxis, KindAxes, DurationAxes

(* A request of m matches an offered duration of whole milliseconds.       *)
LEMMA MatchDuration ==
    ASSUME NEW a \in DurationAxes, NEW d \in Nat, d < Forever => d % NsPerMs = 0,
           NEW m, IsDuration(m)
    PROVE  CompatibleAxis(a, d, Nanoseconds(m))
              <=> \/ m = NoLimit \/ m = 0
                  \/ DurationMs(d) # NoLimit /\ DurationMs(d) <= m
<1>1. CASE m = NoLimit
  BY <1>1, Compared DEF Nanoseconds
<1>2. CASE m # NoLimit
  <2>1. m \in Nat /\ m * NsPerMs < Forever /\ Nanoseconds(m) = m * NsPerMs
    BY <1>2 DEF IsDuration, Nanoseconds
  <2>2. PICK q \in Nat : q = Nanoseconds(m)
    BY <2>1, Scaled
  <2>3. q < Forever /\ (q = 0 <=> m = 0)
    BY <2>1, <2>2, Scaled
  <2>4. CompatibleAxis(a, d, Nanoseconds(m)) <=> q = 0 \/ (d # 0 /\ d <= q)
    BY <2>2, Compared
  <2>5. CASE DurationMs(d) = NoLimit
    <3>1. d = 0 \/ d >= Forever
      BY <2>5, PeerDuration
    <3>2. ~ (d # 0 /\ d <= q)
      BY <2>3, <3>1, DurationAssumption
    <3> QED BY <1>2, <2>3, <2>4, <2>5, <3>2
  <2>6. CASE DurationMs(d) # NoLimit
    <3>1. DurationMs(d) = d \div NsPerMs /\ d # 0 /\ d < Forever
      BY <2>6, PeerDuration, DurationAssumption
    <3>2. d \div NsPerMs \in Nat /\ d = (d \div NsPerMs) * NsPerMs
      BY <3>1, Whole
    <3>3. d \div NsPerMs <= m <=> d <= q
      BY <2>1, <2>2, <3>2, Scaled
    <3> QED BY <1>2, <2>3, <2>4, <2>6, <3>1, <3>3
  <2> QED BY <2>5, <2>6
<1> QED BY <1>1, <1>2

(* An offer of m milliseconds satisfies a requested duration that is not   *)
(* shorter.                                                                *)
LEMMA OfferDuration ==
    ASSUME NEW a \in DurationAxes, NEW d \in Nat, NEW m \in Nat, m # 0,
           DurationMs(d) # NoLimit, m <= DurationMs(d)
    PROVE  CompatibleAxis(a, Nanoseconds(m), d)
<1>1. m <= d \div NsPerMs
  BY PeerDuration
<1>2. m * NsPerMs <= d /\ m * NsPerMs # 0
  BY <1>1, Cut, Scaled
<1>3. Nanoseconds(m) = m * NsPerMs
  BY DEF Nanoseconds, NoLimit
<1>4. CompatibleAxis(a, Nanoseconds(m), d) <=> d = 0 \/ (Nanoseconds(m) # 0 /\ Nanoseconds(m) <= d)
  BY Compared
<1> QED BY <1>2, <1>3, <1>4

(***************************************************************************)
(* Kinds: the weakest and the strongest of what the peers have.            *)
(***************************************************************************)

ArePeers(peers) == IsFiniteSet(peers) /\ \A p \in peers : IsPeer(p)

Levels == {Weak, Strong}

LEMMA KnownLevels ==
    ASSUME NEW peers, ArePeers(peers), NEW axis \in KindAxes
    PROVE  /\ Known(peers, axis) \subseteq Levels
           /\ \A p \in peers : p[axis] \in Levels \/ p[axis] = Unknown
           /\ \A v : v \in Known(peers, axis) <=> \E p \in peers : p[axis] = v /\ v # Unknown
BY DEF ArePeers, IsPeer, Known, Values, Levels

LEMMA LevelExtrema ==
    ASSUME NEW S, S \subseteq Levels, S # {}
    PROVE  /\ Max(S) \in S /\ \A n \in S : n <= Max(S)
           /\ Min(S) \in S /\ \A n \in S : Min(S) <= n
<1>1. Levels = 0 .. 1
  BY DEF Levels, Weak, Strong
<1>2. IsFiniteSet(0 .. 1)
  <2>1. 0 \in Int /\ 1 \in Int
    OBVIOUS
  <2> QED BY <2>1, FS_Interval
<1>3. S \in SUBSET (0 .. 1)
  BY <1>1
<1>4. IsFiniteSet(S)
  BY <1>2, <1>3, FS_Subset
<1>5. S \subseteq Int
  BY <1>3
<1> QED BY <1>4, <1>5, Extrema

LEMMA WeakestFacts ==
    ASSUME NEW peers, ArePeers(peers), NEW axis \in KindAxes,
           NEW c \in Levels, NEW explicit \in BOOLEAN,
           NEW k, k = WeakestKind(peers, axis, c, explicit)
    PROVE  /\ k \in Levels
           /\ \A p \in peers : p[axis] # Unknown => k <= p[axis]
           /\ ~ explicit => k = c \/ k \in Known(peers, axis)
           /\ ~ explicit /\ Known(peers, axis) = {} => k = c
           /\ ~ explicit /\ Known(peers, axis) # {} => k \in Known(peers, axis)
<1> DEFINE pool == Known(peers, axis) \union (IF explicit THEN {c} ELSE {})
<1>1. pool \subseteq Levels
  BY KnownLevels
<1>2. \A p \in peers : p[axis] # Unknown => p[axis] \in pool
  BY KnownLevels
<1>3. CASE pool = {}
  <2>1. k = c
    BY <1>3 DEF WeakestKind
  <2> QED BY <1>2, <1>3, <2>1
<1>4. CASE pool # {}
  <2>1. k = Min(pool)
    BY <1>4 DEF WeakestKind
  <2>2. k \in pool /\ \A n \in pool : k <= n
    BY <1>1, <1>4, <2>1, LevelExtrema
  <2>3. ~ explicit => pool = Known(peers, axis)
    OBVIOUS
  <2> HIDE DEF pool
  <2> QED BY <1>1, <1>2, <1>4, <2>2, <2>3
<1> QED BY <1>3, <1>4

LEMMA StrongestFacts ==
    ASSUME NEW peers, ArePeers(peers), NEW axis \in KindAxes, NEW c \in Levels,
           NEW k, k = StrongestKind(peers, axis, c)
    PROVE  /\ k \in Levels /\ c <= k
           /\ \A p \in peers : p[axis] # Unknown => p[axis] <= k
<1> DEFINE pool == Known(peers, axis) \union {c}
<1>1. pool \subseteq Levels /\ c \in pool
  BY KnownLevels
<1>2. \A p \in peers : p[axis] # Unknown => p[axis] \in pool
  BY KnownLevels
<1>3. k = Max(pool)
  BY DEF StrongestKind
<1> HIDE DEF pool
<1>4. k \in pool /\ \A n \in pool : n <= k
  BY <1>1, <1>3, LevelExtrema
<1> QED BY <1>1, <1>2, <1>4

(* The guard of a kind speaks up for exactly the peers that offer less.    *)
LEMMA StrictKindFacts ==
    ASSUME NEW peers, ArePeers(peers), NEW axis \in KindAxes, NEW c \in Levels
    PROVE  StrictKind(peers, axis, c)
              <=> \E p \in peers : p[axis] # Unknown /\ p[axis] < c
<1> DEFINE k == WeakestKind(peers, axis, c, FALSE)
<1>1. /\ k \in Levels
      /\ \A p \in peers : p[axis] # Unknown => k <= p[axis]
      /\ k = c \/ k \in Known(peers, axis)
  BY WeakestFacts
<1>2. StrictKind(peers, axis, c) <=> k < c
  BY <1>1 DEF StrictKind, Levels, Weak, Strong
<1> HIDE DEF k
<1>3. \A p \in peers : p[axis] # Unknown => p[axis] \in Levels
  BY KnownLevels
<1>4. k \in Known(peers, axis) => \E p \in peers : p[axis] = k /\ k # Unknown
  BY KnownLevels
<1>5. Levels \subseteq Int
  BY DEF Levels, Weak, Strong
<1>6. ASSUME k < c PROVE \E p \in peers : p[axis] # Unknown /\ p[axis] < c
  BY <1>1, <1>4, <1>5, <1>6
<1>7. ASSUME NEW p \in peers, p[axis] # Unknown, p[axis] < c PROVE k < c
  <2>1. k <= p[axis] /\ k \in Int /\ c \in Int /\ p[axis] \in Int
    BY <1>1, <1>3, <1>5, <1>7
  <2> QED BY <1>7, <2>1
<1> QED BY <1>2, <1>6, <1>7

LEMMA MatchKind ==
    ASSUME NEW a \in KindAxes, NEW o \in Levels \union {Unknown}, NEW r \in Levels
    PROVE  CompatibleAxis(a, o, r) <=> o = Unknown \/ r <= o
BY DEF CompatibleAxis, Levels, Weak, Strong, Unknown

(***************************************************************************)
(* Durations: the longest and the shortest of what the peers have.         *)
(***************************************************************************)

LEMMA MillisecondFacts ==
    ASSUME NEW peers, ArePeers(peers), NEW axis \in DurationAxes
    PROVE  /\ IsFiniteSet(Milliseconds(peers, axis))
           /\ \A p \in peers : p[axis] \in Nat /\ DurationMs(p[axis]) \in Milliseconds(peers, axis)
           /\ \A v \in Milliseconds(peers, axis) :
                 /\ \E p \in peers : v = DurationMs(p[axis])
                 /\ IsDuration(v) /\ (v # NoLimit => v \in Nat)
           /\ peers # {} => Milliseconds(peers, axis) # {}
<1> DEFINE f == [p \in peers |-> DurationMs(p[axis])]
<1>1. \A p \in peers : p[axis] \in Nat
  BY DEF ArePeers, IsPeer
<1>2. \A v : v \in Milliseconds(peers, axis) <=> \E p \in peers : v = DurationMs(p[axis])
  BY DEF Milliseconds, Values
<1>3. f \in Surjection(peers, Milliseconds(peers, axis))
  BY <1>2 DEF Surjection
<1>4. IsFiniteSet(Milliseconds(peers, axis))
  <2> HIDE DEF f
  <2> QED BY <1>3, FS_Surjection DEF ArePeers
<1> QED BY <1>1, <1>2, <1>4, PeerDuration

LEMMA LongestFacts ==
    ASSUME NEW peers, ArePeers(peers), NEW axis \in DurationAxes, peers # {},
           NEW m, m = MaxOrNone(Milliseconds(peers, axis))
    PROVE  /\ IsDuration(m)
           /\ m = NoLimit <=> NoLimit \in Milliseconds(peers, axis)
           /\ m # NoLimit => \A v \in Milliseconds(peers, axis) :
                                /\ v # NoLimit /\ v \in Nat /\ v <= m
           /\ m # NoLimit => m \in Nat
<1> DEFINE values == Milliseconds(peers, axis)
<1>1. /\ IsFiniteSet(values) /\ values # {}
      /\ \A v \in values : IsDuration(v) /\ (v # NoLimit => v \in Nat)
  BY MillisecondFacts
<1> HIDE DEF values
<1>2. CASE NoLimit \in values
  BY <1>1, <1>2 DEF MaxOrNone, values
<1>3. CASE NoLimit \notin values
  <2>1. values \subseteq Int
    BY <1>1, <1>3
  <2>2. m = Max(values)
    BY <1>3 DEF MaxOrNone, values
  <2>3. m \in values /\ \A n \in values : n <= m
    BY <1>1, <2>1, <2>2, Extrema
  <2> QED BY <1>1, <1>3, <2>3 DEF values
<1> QED BY <1>2, <1>3

LEMMA ShortestFacts ==
    ASSUME NEW peers, ArePeers(peers), NEW axis \in DurationAxes,
           NEW m, m = MinFinite(Milliseconds(peers, axis))
    PROVE  /\ m = NoLimit => \A v \in Milliseconds(peers, axis) : v = NoLimit
           /\ m # NoLimit => /\ m \in Nat /\ m \in Milliseconds(peers, axis)
                             /\ \A v \in Milliseconds(peers, axis) : v # NoLimit => m <= v
<1> DEFINE values == Milliseconds(peers, axis)
<1>1. /\ IsFiniteSet(values)
      /\ \A v \in values : v # NoLimit => v \in Nat
  BY MillisecondFacts
<1> HIDE DEF values
<1>2. CASE values \subseteq {NoLimit}
  BY <1>2 DEF MinFinite, values
<1>3. CASE ~ (values \subseteq {NoLimit})
  <2> DEFINE finite == values \ {NoLimit}
  <2>1. finite \subseteq Int /\ finite \in SUBSET values /\ finite # {}
    BY <1>1, <1>3
  <2>2. IsFiniteSet(finite)
    BY <1>1, <2>1, FS_Subset
  <2>3. m = Min(finite)
    BY <1>3 DEF MinFinite, values
  <2> HIDE DEF finite
  <2>4. Min(finite) \in finite /\ \A n \in finite : Min(finite) <= n
    BY <2>1, <2>2, Extrema
  <2> QED BY <1>1, <2>1, <2>3, <2>4 DEF finite, values
<1> QED BY <1>2, <1>3

(***************************************************************************)
(* The engine, axis by axis.                                               *)
(***************************************************************************)

LEMMA AxisSplit == \A a \in Axes : a \in KindAxes \/ a \in DurationAxes
BY DEF Axes

LEMMA AxesApart ==
    /\ \A a \in DurationAxes : a \notin KindAxes /\ a \in Axes
    /\ \A a \in KindAxes : a \notin DurationAxes
BY DEF Axes, KindAxes, DurationAxes

LEMMA KindIsAxis == KindAxes \subseteq Axes
BY DEF Axes

LEMMA SpecAxes ==
    ASSUME NEW spec, IsSpec(spec)
    PROVE  /\ Axes \subseteq DOMAIN spec
           /\ \A a \in KindAxes : spec[a] \in Levels
           /\ \A a \in DurationAxes : IsDuration(spec[a])
           /\ spec = [a \in DOMAIN spec |-> spec[a]]
BY DEF IsSpec, IsRequest, Axes, Levels

LEMMA ProfileAxes ==
    ASSUME NEW spec
    PROVE  /\ \A a \in KindAxes : Profile(spec)[a] = spec[a]
           /\ \A a \in DurationAxes : Profile(spec)[a] = Nanoseconds(spec[a])
BY AxesApart, KindIsAxis DEF Profile

LEMMA ObserveKindFree ==
    ASSUME NEW offered, offered # {}, NEW spec, NEW a \in KindAxes, a \in DOMAIN spec
    PROVE  ReconcileObserve(offered, spec, {})[a]
              = WeakestKind(offered, a, spec[a], FALSE)
<1>1. ReconcileObserve(offered, spec, {})[a] = WeakestKind(offered, a, spec[a], a \in {})
  BY AxesApart, Zenon DEF ReconcileObserve
<1>2. WeakestKind(offered, a, spec[a], a \in {}) = WeakestKind(offered, a, spec[a], FALSE)
  BY DEF WeakestKind
<1> QED BY <1>1, <1>2, Zenon

LEMMA ObserveDurationFree ==
    ASSUME NEW offered, offered # {}, NEW spec, NEW a \in DurationAxes, a \in DOMAIN spec
    PROVE  ReconcileObserve(offered, spec, {})[a] = MaxOrNone(Milliseconds(offered, a))
<1>1. ReconcileObserve(offered, spec, {})[a] = RequestedDuration(offered, a, spec[a], a \in {})
  BY AxesApart, Zenon DEF ReconcileObserve
<1>2. RequestedDuration(offered, a, spec[a], a \in {}) = MaxOrNone(Milliseconds(offered, a))
  BY DEF RequestedDuration
<1> QED BY <1>1, <1>2, Zenon

LEMMA CommandKind ==
    ASSUME NEW requested, requested # {}, NEW spec, NEW a \in KindAxes, a \in DOMAIN spec
    PROVE  ReconcileCommand(requested, spec)[a] = StrongestKind(requested, a, spec[a])
BY AxesApart, Zenon DEF ReconcileCommand

LEMMA CommandDuration ==
    ASSUME NEW requested, requested # {}, NEW spec, NEW a \in DurationAxes, a \in DOMAIN spec
    PROVE  ReconcileCommand(requested, spec)[a] = OfferedDuration(requested, a, spec[a])
BY AxesApart, Zenon DEF ReconcileCommand

LEMMA StrictAxesKind ==
    ASSUME NEW spec, IsSpec(spec), NEW offered, ArePeers(offered), NEW a \in KindAxes
    PROVE  a \in StrictAxes(spec, offered)
              <=> \E p \in offered : p[a] # Unknown /\ p[a] < spec[a]
<1>1. CASE offered = {}
  BY <1>1 DEF StrictAxes
<1>2. CASE offered # {}
  <2>1. a \in StrictAxes(spec, offered) <=> StrictKind(offered, a, spec[a])
    BY <1>2, KindIsAxis DEF StrictAxes
  <2> QED BY <2>1, StrictKindFacts, SpecAxes
<1> QED BY <1>1, <1>2

LEMMA StrictAxesDuration ==
    ASSUME NEW spec, NEW offered, ArePeers(offered), NEW a \in DurationAxes
    PROVE  a \in StrictAxes(spec, offered)
              <=> /\ spec[a] # NoLimit
                  /\ \E p \in offered : \/ DurationMs(p[a]) = NoLimit
                                        \/ DurationMs(p[a]) > spec[a]
<1>1. CASE offered = {}
  BY <1>1 DEF StrictAxes
<1>2. CASE offered # {}
  <2>1. a \in StrictAxes(spec, offered) <=> StrictDuration(offered, a, spec[a])
    BY <1>2, AxesApart DEF StrictAxes
  <2> QED BY <2>1 DEF StrictDuration, Milliseconds, Values
<1> QED BY <1>1, <1>2

LEMMA DemoteAxes ==
    ASSUME NEW spec, IsSpec(spec), NEW offered, NEW a \in Axes
    PROVE  /\ a \notin StrictAxes(spec, offered) => Demote(spec, offered)[a] = spec[a]
           /\ a \in StrictAxes(spec, offered) /\ a \in KindAxes
                 => Demote(spec, offered)[a] = WeakestKind(offered, a, spec[a], FALSE)
           /\ a \in StrictAxes(spec, offered) /\ a \in DurationAxes
                 => Demote(spec, offered)[a] = MaxOrNone(Milliseconds(offered, a))
<1>1. a \in DOMAIN spec
  BY SpecAxes
<1> QED BY <1>1, AxesApart DEF Demote

(***************************************************************************)
(* A request matches.                                                      *)
(***************************************************************************)

LEMMA PeerWhole ==
    ASSUME NEW peers, ArePeers(peers), NEW p \in peers
    PROVE  /\ \A a \in DurationAxes : p[a] \in Nat
           /\ WholeMs(p) => \A a \in DurationAxes : p[a] < Forever => p[a] % NsPerMs = 0
           /\ \A a \in KindAxes : p[a] \in Levels \union {Unknown}
BY DEF ArePeers, IsPeer, WholeMs, Levels

LEMMA RequestMatches ==
    ASSUME NEW offered, ArePeers(offered), NEW spec, IsSpec(spec)
    PROVE  RequestMatchesWhole(offered, spec)
<1> DEFINE request == ReconcileObserve(offered, spec, {})
<1> SUFFICES ASSUME NEW p \in offered, WholeMs(p), NEW a \in Axes
             PROVE  CompatibleAxis(a, p[a], Profile(request)[a])
  BY DEF RequestMatchesWhole, Compatible
<1>1. a \in DOMAIN spec /\ offered # {}
  BY SpecAxes
<1>2. a \in KindAxes => request[a] = WeakestKind(offered, a, spec[a], FALSE)
  BY <1>1, ObserveKindFree
<1>3. a \in DurationAxes => request[a] = MaxOrNone(Milliseconds(offered, a))
  BY <1>1, ObserveDurationFree
<1> HIDE DEF request
<1>4. CASE a \in KindAxes
  <2>1. spec[a] \in Levels
    BY <1>4, SpecAxes
  <2>2. request[a] \in Levels /\ (p[a] # Unknown => request[a] <= p[a])
    BY <1>2, <1>4, <2>1, WeakestFacts
  <2>3. Profile(request)[a] = request[a]
    BY <1>4, ProfileAxes
  <2> QED BY <1>4, <2>2, <2>3, MatchKind, PeerWhole
<1>5. CASE a \in DurationAxes
  <2>1. Profile(request)[a] = Nanoseconds(request[a])
    BY <1>5, ProfileAxes
  <2>2. /\ IsDuration(request[a])
        /\ request[a] # NoLimit => \A v \in Milliseconds(offered, a) : v # NoLimit /\ v <= request[a]
    BY <1>1, <1>3, <1>5, LongestFacts
  <2>3. DurationMs(p[a]) \in Milliseconds(offered, a)
    BY <1>5, MillisecondFacts
  <2> QED BY <1>5, <2>1, <2>2, <2>3, MatchDuration, PeerWhole
<1> QED BY <1>4, <1>5, AxisSplit

LEMMA GuardExact ==
    ASSUME NEW offered, ArePeers(offered), NEW spec, IsSpec(spec)
    PROVE  GuardIsExact(offered, spec)
<1> SUFFICES ASSUME \A p \in offered : WholeMs(p), NEW a \in Axes, ~ IsDefault(spec, a)
             PROVE  a \in StrictAxes(spec, offered) <=>
                       \E p \in offered : ~ CompatibleAxis(a, p[a], Profile(spec)[a])
  BY DEF GuardIsExact
<1>2. CASE a \in KindAxes
  <2>1. \A p \in offered : CompatibleAxis(a, p[a], Profile(spec)[a])
                             <=> p[a] = Unknown \/ spec[a] <= p[a]
    BY <1>2, MatchKind, PeerWhole, ProfileAxes, SpecAxes
  <2>2. \A p \in offered : p[a] # Unknown => (p[a] < spec[a] <=> ~ (spec[a] <= p[a]))
    BY <1>2, PeerWhole, SpecAxes DEF Levels, Weak, Strong
  <2> QED BY <1>2, <2>1, <2>2, StrictAxesKind
<1>3. CASE a \in DurationAxes
  <2>1. IsDuration(spec[a]) /\ spec[a] # 0 /\ Profile(spec)[a] = Nanoseconds(spec[a])
    BY <1>3, ProfileAxes, SpecAxes DEF IsDefault
  <2>2. \A p \in offered : CompatibleAxis(a, p[a], Profile(spec)[a])
           <=> \/ spec[a] = NoLimit
               \/ DurationMs(p[a]) # NoLimit /\ DurationMs(p[a]) <= spec[a]
    BY <1>3, <2>1, MatchDuration, PeerWhole
  <2>3. ASSUME NEW p \in offered, DurationMs(p[a]) # NoLimit, spec[a] # NoLimit
        PROVE  DurationMs(p[a]) > spec[a] <=> ~ (DurationMs(p[a]) <= spec[a])
    <3>1. DurationMs(p[a]) \in Nat
      BY <1>3, <2>3, PeerDuration, PeerWhole
    <3>2. spec[a] \in Nat
      BY <2>1, <2>3 DEF IsDuration
    <3> QED BY <3>1, <3>2
  <2> QED BY <1>3, <2>2, <2>3, StrictAxesDuration
<1> QED BY <1>2, <1>3, AxisSplit

(***************************************************************************)
(* A demoted request matches, and demoting it again changes nothing.       *)
(***************************************************************************)

LEMMA DemotedKind ==
    ASSUME NEW spec, IsSpec(spec), NEW offered, ArePeers(offered), NEW a \in KindAxes,
           NEW q, q = Demote(spec, offered)
    PROVE  /\ q[a] \in Levels
           /\ \A p \in offered : p[a] # Unknown => q[a] <= p[a]
<1>1. spec[a] \in Levels /\ a \in DOMAIN spec
  BY SpecAxes, KindIsAxis
<1>2. CASE a \in StrictAxes(spec, offered)
  <2>1. q[a] = WeakestKind(offered, a, spec[a], FALSE)
    BY <1>1, <1>2, KindIsAxis, DemoteAxes
  <2> QED BY <1>1, <2>1, WeakestFacts
<1>3. CASE a \notin StrictAxes(spec, offered)
  <2>1. q[a] = spec[a]
    BY <1>1, <1>3, KindIsAxis, DemoteAxes
  <2>2. \A p \in offered : p[a] # Unknown => ~ (p[a] < spec[a])
    BY <1>3, StrictAxesKind
  <2>3. \A p \in offered : p[a] # Unknown => p[a] \in Levels
    BY PeerWhole
  <2>4. \A p \in offered : p[a] # Unknown => spec[a] <= p[a]
    BY <1>1, <2>2, <2>3 DEF Levels, Weak, Strong
  <2> QED BY <1>1, <2>1, <2>4
<1> QED BY <1>2, <1>3

LEMMA DemotedDuration ==
    ASSUME NEW spec, IsSpec(spec), NEW offered, ArePeers(offered), NEW a \in DurationAxes,
           NEW q, q = Demote(spec, offered)
    PROVE  /\ IsDuration(q[a])
           /\ q[a] # NoLimit => \A p \in offered :
                 /\ DurationMs(p[a]) # NoLimit
                 /\ DurationMs(p[a]) <= q[a] /\ ~ (DurationMs(p[a]) > q[a])
<1>1. IsDuration(spec[a]) /\ a \in DOMAIN spec
  BY SpecAxes, AxesApart
<1>2. \A p \in offered : DurationMs(p[a]) # NoLimit => DurationMs(p[a]) \in Nat
  BY PeerDuration, PeerWhole
<1>3. CASE a \in StrictAxes(spec, offered)
  <2>0. offered # {}
    BY <1>3 DEF StrictAxes
  <2>1. q[a] = MaxOrNone(Milliseconds(offered, a))
    BY <1>3, AxesApart, DemoteAxes
  <2>2. /\ IsDuration(q[a])
        /\ q[a] # NoLimit => q[a] \in Nat
        /\ q[a] # NoLimit => \A v \in Milliseconds(offered, a) : v # NoLimit /\ v <= q[a]
    BY <2>0, <2>1, LongestFacts
  <2>3. \A p \in offered : DurationMs(p[a]) \in Milliseconds(offered, a)
    BY MillisecondFacts
  <2>4. ASSUME q[a] # NoLimit, NEW p \in offered
        PROVE  DurationMs(p[a]) # NoLimit /\ DurationMs(p[a]) <= q[a] /\ q[a] \in Nat
    BY <2>2, <2>3, <2>4
  <2>5. ASSUME q[a] # NoLimit, NEW p \in offered
        PROVE  ~ (DurationMs(p[a]) > q[a])
    <3>1. DurationMs(p[a]) \in Nat /\ q[a] \in Nat /\ DurationMs(p[a]) <= q[a]
      BY <1>2, <2>4, <2>5
    <3> QED BY <3>1
  <2> QED BY <2>2, <2>4, <2>5
<1>4. CASE a \notin StrictAxes(spec, offered)
  <2>1. q[a] = spec[a]
    BY <1>4, AxesApart, DemoteAxes
  <2>2. spec[a] # NoLimit => \A p \in offered :
           DurationMs(p[a]) # NoLimit /\ ~ (DurationMs(p[a]) > spec[a])
    BY <1>4, StrictAxesDuration
  <2>3. spec[a] # NoLimit => spec[a] \in Nat
    BY <1>1 DEF IsDuration
  <2>4. ASSUME spec[a] # NoLimit, NEW p \in offered
        PROVE  DurationMs(p[a]) <= spec[a]
    <3>1. DurationMs(p[a]) \in Nat /\ spec[a] \in Nat /\ ~ (DurationMs(p[a]) > spec[a])
      BY <1>2, <2>2, <2>3, <2>4
    <3> QED BY <3>1
  <2> QED BY <1>1, <2>1, <2>2, <2>4
<1> QED BY <1>3, <1>4

LEMMA DemotedFits ==
    ASSUME NEW offered, ArePeers(offered), NEW spec, IsSpec(spec)
    PROVE  DemotedMatches(offered, spec)
<1> DEFINE q == Demote(spec, offered)
<1>1. DOMAIN q = DOMAIN spec /\ q = [a \in DOMAIN q |-> q[a]]
  BY DEF Demote
<1>2. \A a \in KindAxes : /\ q[a] \in Levels
                          /\ \A p \in offered : p[a] # Unknown => q[a] <= p[a]
  BY DemotedKind
<1>3. \A a \in DurationAxes :
         /\ IsDuration(q[a])
         /\ q[a] # NoLimit => \A p \in offered :
               /\ DurationMs(p[a]) # NoLimit
               /\ DurationMs(p[a]) <= q[a] /\ ~ (DurationMs(p[a]) > q[a])
  BY DemotedDuration
<1> HIDE DEF q
<1>4. IsSpec(q)
  <2>1. Axes \subseteq DOMAIN q
    BY <1>1, SpecAxes
  <2>2. IsRequest(q)
    BY <1>2, <1>3 DEF IsRequest, Levels
  <2> QED BY <1>1, <2>1, <2>2 DEF IsSpec
<1>5. ASSUME NEW p \in offered, WholeMs(p), NEW a \in Axes
      PROVE  CompatibleAxis(a, p[a], Profile(q)[a])
  <2>1. CASE a \in KindAxes
    <3>1. Profile(q)[a] = q[a]
      BY <2>1, ProfileAxes
    <3> QED BY <1>2, <1>5, <2>1, <3>1, MatchKind, PeerWhole
  <2>2. CASE a \in DurationAxes
    <3>1. Profile(q)[a] = Nanoseconds(q[a])
      BY <2>2, ProfileAxes
    <3> QED BY <1>3, <1>5, <2>2, <3>1, MatchDuration, PeerWhole
  <2> QED BY <1>5, <2>1, <2>2, AxisSplit
<1>6. ASSUME NEW a \in KindAxes PROVE a \notin StrictAxes(q, offered)
  <2>1. \A p \in offered : p[a] # Unknown => p[a] \in Levels /\ q[a] \in Levels /\ q[a] <= p[a]
    BY <1>2, <1>6, PeerWhole
  <2>2. \A p \in offered : p[a] # Unknown => ~ (p[a] < q[a])
    BY <2>1 DEF Levels, Weak, Strong
  <2> QED BY <1>4, <1>6, <2>2, StrictAxesKind
<1>7. ASSUME NEW a \in DurationAxes PROVE a \notin StrictAxes(q, offered)
  BY <1>3, <1>7, StrictAxesDuration
<1>8. StrictAxes(q, offered) = {}
  <2>1. StrictAxes(q, offered) \subseteq Axes
    BY DEF StrictAxes
  <2> QED BY <1>6, <1>7, <2>1, AxisSplit
<1>9. Demote(q, offered) = q
  <2>1. Demote(q, offered) = [a \in DOMAIN q |-> q[a]]
    BY <1>8 DEF Demote
  <2> QED BY <1>1, <2>1
<1>10. \A p \in offered : WholeMs(p) => Compatible(p, Profile(q))
  BY <1>5 DEF Compatible
<1> QED BY <1>9, <1>10 DEF DemotedMatches, q

(* The engine's request, for every finite set of peers and every           *)
(* configuration: without explicit fields it matches all publishers of     *)
(* whole milliseconds, the guard names exactly the axes that keep one from *)
(* matching, and a demoted request matches and is not demoted again.       *)
THEOREM QosRequestFits ==
    ASSUME NEW offered, IsFiniteSet(offered), \A p \in offered : IsPeer(p),
           NEW spec, IsSpec(spec)
    PROVE  RequestFits(offered, spec)
<1>1. ArePeers(offered)
  BY DEF ArePeers
<1> QED BY <1>1, RequestMatches, GuardExact, DemotedFits DEF RequestFits

(***************************************************************************)
(* An offer satisfies.                                                     *)
(***************************************************************************)

LEMMA OfferedKind ==
    ASSUME NEW requested, ArePeers(requested), NEW spec, IsSpec(spec), NEW a \in KindAxes,
           NEW offer, offer = ReconcileCommand(requested, spec)
    PROVE  /\ offer[a] \in Levels /\ offer[a] >= spec[a]
           /\ \A r \in requested : CompatibleAxis(a, Profile(offer)[a], r[a])
<1>1. spec[a] \in Levels /\ a \in DOMAIN spec
  BY SpecAxes, KindIsAxis
<1>2. Profile(offer)[a] = offer[a]
  BY ProfileAxes
<1>3. CASE requested = {}
  <2>1. offer = spec
    BY <1>3 DEF ReconcileCommand
  <2> QED BY <1>1, <1>3, <2>1 DEF Levels, Weak, Strong
<1>4. CASE requested # {}
  <2>1. offer[a] = StrongestKind(requested, a, spec[a])
    BY <1>1, <1>4, CommandKind
  <2>2. /\ offer[a] \in Levels /\ spec[a] <= offer[a]
        /\ \A r \in requested : r[a] # Unknown => r[a] <= offer[a]
    BY <1>1, <2>1, StrongestFacts
  <2>3. \A r \in requested : CompatibleAxis(a, offer[a], r[a])
    BY <2>2 DEF CompatibleAxis
  <2>4. offer[a] >= spec[a]
    BY <1>1, <2>2 DEF Levels, Weak, Strong
  <2> QED BY <1>2, <2>2, <2>3, <2>4
<1> QED BY <1>3, <1>4

LEMMA WholeDuration ==
    ASSUME NEW d \in Nat, d < Forever => d % NsPerMs = 0, DurationMs(d) # NoLimit
    PROVE  DurationMs(d) # 0
<1>1. d # 0 /\ d < Forever /\ DurationMs(d) = d \div NsPerMs
  BY PeerDuration, DurationAssumption
<1>2. d \div NsPerMs \in Nat /\ d = (d \div NsPerMs) * NsPerMs
  BY <1>1, Whole
<1>3. ASSUME d \div NsPerMs = 0 PROVE FALSE
  <2>1. d = 0 * NsPerMs
    BY <1>2, <1>3
  <2> QED BY <1>1, <2>1, DurationAssumption
<1> QED BY <1>1, <1>3

LEMMA OfferedDurationFits ==
    ASSUME NEW requested, ArePeers(requested), NEW spec, IsSpec(spec), NEW a \in DurationAxes,
           NEW offer, offer = ReconcileCommand(requested, spec)
    PROVE  /\ spec[a] # NoLimit => offer[a] \in 0 .. spec[a]
           /\ (\A r \in requested : WholeMs(r)) /\ spec[a] # 0 =>
                 \A r \in requested : DurationMs(r[a]) # NoLimit =>
                    CompatibleAxis(a, Profile(offer)[a], r[a])
<1>1. IsDuration(spec[a]) /\ a \in DOMAIN spec /\ (spec[a] # NoLimit => spec[a] \in Nat)
  BY SpecAxes, AxesApart DEF IsDuration
<1>2. Profile(offer)[a] = Nanoseconds(offer[a])
  BY ProfileAxes
<1>3. CASE requested = {}
  <2>1. offer = spec
    BY <1>3 DEF ReconcileCommand
  <2> QED BY <1>1, <1>3, <2>1
<1>4. CASE requested # {}
  <2> DEFINE needed == MinFinite(Milliseconds(requested, a))
  <2>1. offer[a] = OfferedDuration(requested, a, spec[a])
    BY <1>1, <1>4, CommandDuration
  <2>2. offer[a] = IF needed # NoLimit /\ (spec[a] = NoLimit \/ spec[a] > needed)
                   THEN needed ELSE spec[a]
    BY <2>1 DEF OfferedDuration
  <2>3. /\ needed = NoLimit => \A v \in Milliseconds(requested, a) : v = NoLimit
        /\ needed # NoLimit => /\ needed \in Nat /\ needed \in Milliseconds(requested, a)
                               /\ \A v \in Milliseconds(requested, a) : v # NoLimit => needed <= v
    BY ShortestFacts
  <2> HIDE DEF needed
  <2>4. spec[a] # NoLimit => offer[a] \in 0 .. spec[a]
    BY <1>1, <2>2, <2>3
  <2>5. ASSUME \A r \in requested : WholeMs(r), spec[a] # 0,
               NEW r \in requested, DurationMs(r[a]) # NoLimit
        PROVE  CompatibleAxis(a, Profile(offer)[a], r[a])
    <3>1. DurationMs(r[a]) \in Milliseconds(requested, a) /\ r[a] \in Nat
      BY MillisecondFacts
    <3>2. needed \in Nat /\ needed <= DurationMs(r[a]) /\ needed # NoLimit
      BY <2>3, <2>5, <3>1
    <3>3. DurationMs(r[a]) \in Nat
      BY <2>5, <3>1, PeerDuration
    <3>4. needed # 0
      <4>1. PICK s \in requested : needed = DurationMs(s[a])
        BY <2>3, <3>2, MillisecondFacts
      <4> QED BY <2>5, <3>2, <4>1, WholeDuration, PeerWhole
    <3>5. offer[a] \in Nat /\ offer[a] # 0 /\ offer[a] <= needed
      BY <1>1, <2>2, <2>5, <3>2, <3>4
    <3>6. offer[a] <= DurationMs(r[a])
      BY <3>2, <3>3, <3>5
    <3> QED BY <1>2, <2>5, <3>1, <3>5, <3>6, OfferDuration
  <2> QED BY <2>4, <2>5
<1> QED BY <1>3, <1>4

(* The engine's offer, for every finite set of subscribers and every       *)
(* configuration: it satisfies them all, when they ask for whole           *)
(* milliseconds, and is never weaker than it was configured.               *)
THEOREM QosOfferSatisfies ==
    ASSUME NEW requested, IsFiniteSet(requested), \A p \in requested : IsPeer(p),
           NEW spec, IsSpec(spec)
    PROVE  OfferSatisfies(requested, spec)
<1> DEFINE offer == ReconcileCommand(requested, spec)
<1>1. ArePeers(requested)
  BY DEF ArePeers
<1>2. \A a \in KindAxes : /\ offer[a] >= spec[a]
                          /\ \A r \in requested : CompatibleAxis(a, Profile(offer)[a], r[a])
  BY <1>1, OfferedKind
<1>3. \A a \in DurationAxes :
         /\ spec[a] # NoLimit => offer[a] \in 0 .. spec[a]
         /\ (\A r \in requested : WholeMs(r)) /\ spec[a] # 0 =>
               \A r \in requested : DurationMs(r[a]) # NoLimit =>
                  CompatibleAxis(a, Profile(offer)[a], r[a])
  BY <1>1, OfferedDurationFits
<1> HIDE DEF offer
<1>4. ASSUME \A r \in requested : WholeMs(r), NEW r \in requested, NEW a \in Axes
      PROVE  \/ CompatibleAxis(a, Profile(offer)[a], r[a])
             \/ a \in DurationAxes /\ DurationMs(r[a]) = NoLimit
             \/ IsDefault(spec, a)
  BY <1>2, <1>3, <1>4, AxisSplit DEF IsDefault
<1> QED BY <1>2, <1>3, <1>4 DEF OfferSatisfies, offer

(***************************************************************************)
(* The control loop: its records, and the sequences on the way.            *)
(***************************************************************************)

Elems(s) == {s[i] : i \in DOMAIN s}
IsSeq(s) == s \in Seq(Elems(s))

AdapterFields == {"bound", "conf", "fields", "applied", "seen", "events"}
IsAdapter(a) ==
    /\ DOMAIN a = AdapterFields
    /\ a.bound \in BOOLEAN /\ IsSpec(a.conf) /\ InitialFields \subseteq a.fields

PubFields == {"cache", "mapped", "recent", "pending", "revision"}
IsPublished(s) ==
    /\ DOMAIN s = {"p", "out"} /\ DOMAIN s.p = PubFields
    /\ s.p.revision \in Nat /\ IsSeq(s.out)

(* What is on its way to the CSE is a configuration, and what clients ask  *)
(* for is a request.                                                       *)
LoopTypes ==
    /\ IsAdapter(adapter) /\ IsPublished(Published)
    /\ IsSeq(inbox) /\ \A e \in Elems(inbox) : IsRequest(e.request)
    /\ \A m \in Elems(out) : m.op # "mni" => IsSpec(m.body.conf)
    /\ \A o \in saved : IsSpec(o.conf)
    /\ graph \subseteq Offers /\ mode \in Modes
    /\ DOMAIN cse = {"body", "rev", "mni", "born"}
    /\ count \in [Kinds -> Nat]

(* The subscription in force is the one its publishers call for.           *)
Follows(a) ==
    a.bound /\ a.seen # {} =>
        a.applied = StrictnessGuard(ReconcileObserve(a.seen, a.conf, a.fields), a.seen, mode)

(* A revision below RevMax stands for one configuration: the newest for    *)
(* the one in force.                                                       *)
Stands(rev, conf, now, c) == rev <= now /\ (rev = now /\ rev < RevMax => conf = c)

Numbered(s, c) ==
    \A m \in Elems(s.out) : m.op # "mni" =>
        m.rev \in Nat /\ Stands(m.rev, m.body.conf, s.p.revision, c)

RevisionInv ==
    /\ Numbered(Published, adapter.conf)
    /\ cse.rev \in Nat /\ cse.born \in Nat /\ cse.born <= count["restarts"]
    /\ cse.rev # 0 /\ cse.born = count["restarts"]
          => Stands(cse.rev, cse.body.conf, pub.revision, adapter.conf)
    /\ \A e \in Elems(inbox) : e.kind = "policy" =>
          /\ e.born \in Nat /\ e.born <= count["restarts"]
          /\ e.base \in Nat /\ e.base < RevMax
          /\ e.born = count["restarts"]
                => Stands(e.base, e.read, pub.revision, adapter.conf)

LEMMA SeqFacts ==
    ASSUME NEW s, IsSeq(s)
    PROVE  /\ DOMAIN s = 1 .. Len(s) /\ Len(s) \in Nat
           /\ \A i \in 1 .. Len(s) : s[i] \in Elems(s)
BY DEF IsSeq, Elems

LEMMA SeqEmpty == IsSeq(<<>>) /\ Elems(<<>>) = {}
BY DEF IsSeq, Elems

LEMMA SeqAppend ==
    ASSUME NEW s, IsSeq(s), NEW v
    PROVE  /\ IsSeq(Append(s, v))
           /\ \A x : x \in Elems(Append(s, v)) <=> x \in Elems(s) \/ x = v
<1> DEFINE t == Append(s, v)
           S == Elems(s) \union {v}
<1>1. DOMAIN s = 1 .. Len(s) /\ Len(s) \in Nat /\ \A i \in 1 .. Len(s) : s[i] \in Elems(s)
  BY SeqFacts
<1>2. s \in Seq(S)
  <2>1. s \in Seq(Elems(s))
    BY DEF IsSeq
  <2> QED BY <2>1
<1>3. /\ DOMAIN t = 1 .. Len(s) + 1 /\ Len(t) = Len(s) + 1
      /\ \A i \in 1 .. Len(s) : t[i] = s[i]
      /\ t[Len(s) + 1] = v
  BY <1>2
<1>4. t \in Seq(S)
  BY <1>2
<1> HIDE DEF t
<1>5. \A x : x \in Elems(t) <=> x \in Elems(s) \/ x = v
  BY <1>1, <1>3 DEF Elems
<1>6. Elems(t) = S
  BY <1>5
<1> QED BY <1>4, <1>5, <1>6 DEF IsSeq, t

LEMMA SeqTail ==
    ASSUME NEW s, IsSeq(s), s # <<>>
    PROVE  /\ IsSeq(Tail(s)) /\ Head(s) \in Elems(s)
           /\ Elems(Tail(s)) \subseteq Elems(s)
<1> DEFINE t == Tail(s)
<1>0. s \in Seq(Elems(s))
  BY DEF IsSeq
<1>1. DOMAIN s = 1 .. Len(s) /\ Len(s) \in Nat /\ \A i \in 1 .. Len(s) : s[i] \in Elems(s)
  BY SeqFacts
<1>2. Head(s) \in Elems(s) /\ t \in Seq(Elems(s))
  BY <1>0
<1>3. /\ DOMAIN t = 1 .. Len(t) /\ Len(t) = Len(s) - 1 /\ Len(t) \in Nat
      /\ \A i \in 1 .. Len(t) : t[i] = s[i + 1]
  BY <1>0
<1> HIDE DEF t
<1>4. ASSUME NEW x \in Elems(t) PROVE x \in Elems(s)
  <2>1. PICK i \in 1 .. Len(t) : x = t[i]
    BY <1>3, <1>4 DEF Elems
  <2>2. i + 1 \in 1 .. Len(s) /\ x = s[i + 1]
    BY <1>1, <1>3, <2>1
  <2> QED BY <1>1, <2>2
<1>5. t \in Seq(Elems(t))
  <2>1. t = [i \in 1 .. Len(t) |-> t[i]] /\ \A i \in 1 .. Len(t) : t[i] \in Elems(t)
    BY <1>2, <1>3 DEF Elems
  <2> QED BY <1>3, <2>1
<1> QED BY <1>2, <1>4, <1>5 DEF IsSeq, t

(***************************************************************************)
(* What the operations of the adapter make of its record.                  *)
(***************************************************************************)

LEMMA BindFacts ==
    ASSUME NEW a, DOMAIN a = AdapterFields, NEW works, NEW b, b = Bind(a, works)
    PROVE  /\ DOMAIN b = AdapterFields
           /\ b.bound \in BOOLEAN /\ b.conf = a.conf /\ b.fields = a.fields
           /\ b.bound => b.applied = Guarded(a) /\ b.seen = graph
<1>1. CASE ~ works \/ (mode = "reject" /\ Strict(a) # {})
  <2>1. b = [a EXCEPT !.bound = FALSE]
    BY <1>1 DEF Bind
  <2> QED BY <2>1 DEF AdapterFields
<1>2. CASE ~ (~ works \/ (mode = "reject" /\ Strict(a) # {}))
  <2>1. b = [a EXCEPT !.bound = TRUE, !.applied = Guarded(a), !.seen = graph,
                      !.events = ObserveEvents(graph, a.conf, a.fields) \union Strict(a)]
    BY <1>2 DEF Bind
  <2> QED BY <2>1 DEF AdapterFields
<1> QED BY <1>1, <1>2

LEMMA BindFollows ==
    ASSUME NEW a, DOMAIN a = AdapterFields, NEW works
    PROVE  Follows(Bind(a, works))
<1> DEFINE b == Bind(a, works)
<1>1. /\ b.conf = a.conf /\ b.fields = a.fields
      /\ b.bound => b.applied = Guarded(a) /\ b.seen = graph
  BY BindFacts
<1> HIDE DEF b
<1>2. Guarded(a) = StrictnessGuard(ReconcileObserve(graph, a.conf, a.fields), graph, mode)
  BY DEF Guarded, Resolved
<1>3. Follows(b)
  BY <1>1, <1>2 DEF Follows
<1> QED BY <1>3 DEF b

LEMMA RefreshFacts ==
    ASSUME NEW a, IsAdapter(a), Follows(a), NEW works, NEW b, b = Refresh(a, works)
    PROVE  /\ IsAdapter(b) /\ b.conf = a.conf /\ b.fields = a.fields
           /\ Follows(b)
<1>0. DOMAIN a = AdapterFields
  BY DEF IsAdapter
<1>1. CASE ~ a.bound
  BY <1>1 DEF Refresh
<1>2. CASE a.bound /\ graph = {}
  <2>1. b = [a EXCEPT !.seen = {}]
    BY <1>2 DEF Refresh
  <2>2. /\ DOMAIN b = AdapterFields /\ b.bound = a.bound /\ b.seen = {}
        /\ b.conf = a.conf /\ b.fields = a.fields
    BY <1>0, <2>1 DEF AdapterFields
  <2> QED BY <2>2 DEF IsAdapter, Follows
<1>3. CASE a.bound /\ graph # {} /\ Guarded(a) = a.applied
  <2>1. b = [a EXCEPT !.seen = graph,
                 !.events = ObserveEvents(graph, a.conf, a.fields) \union Strict(a)]
    BY <1>3 DEF Refresh
  <2>2. /\ DOMAIN b = AdapterFields /\ b.bound = a.bound /\ b.seen = graph
        /\ b.conf = a.conf /\ b.fields = a.fields /\ b.applied = a.applied
    BY <1>0, <2>1 DEF AdapterFields
  <2>3. Guarded(a) = StrictnessGuard(ReconcileObserve(graph, a.conf, a.fields), graph, mode)
    BY DEF Guarded, Resolved
  <2> QED BY <1>3, <2>2, <2>3 DEF IsAdapter, Follows
<1>4. CASE a.bound /\ graph # {} /\ Guarded(a) # a.applied
  <2> DEFINE c == [a EXCEPT !.seen = graph]
  <2>1. b = Bind(c, works)
    BY <1>4 DEF Refresh
  <2>2. DOMAIN c = AdapterFields /\ c.conf = a.conf /\ c.fields = a.fields
    BY <1>0 DEF AdapterFields
  <2> HIDE DEF c
  <2>3. /\ DOMAIN b = AdapterFields /\ b.bound \in BOOLEAN
        /\ b.conf = a.conf /\ b.fields = a.fields
    BY <2>1, <2>2, BindFacts
  <2>4. Follows(b)
    BY <2>1, <2>2, BindFollows
  <2> QED BY <2>3, <2>4 DEF IsAdapter
<1> QED BY <1>1, <1>2, <1>3, <1>4

LEMMA RebindFacts ==
    ASSUME NEW a, IsAdapter(a), Follows(a), NEW new, IsAdapter(new),
           NEW works, NEW b, b = Rebind(a, new, works)
    PROVE  /\ IsAdapter(b) /\ Follows(b)
           /\ IF a.bound /\ Bind(new, works).bound
              THEN b.bound /\ b.conf = new.conf /\ b.fields = new.fields
              ELSE b.conf = a.conf /\ b.fields = a.fields
<1>0. DOMAIN a = AdapterFields /\ DOMAIN new = AdapterFields
  BY DEF IsAdapter
<1>1. CASE ~ a.bound
  BY <1>1 DEF Rebind
<1>2. CASE a.bound /\ Bind(new, works).bound
  <2>1. b = Bind(new, works)
    BY <1>2 DEF Rebind
  <2>2. /\ DOMAIN b = AdapterFields /\ b.bound \in BOOLEAN
        /\ b.conf = new.conf /\ b.fields = new.fields
    BY <1>0, <2>1, BindFacts
  <2> QED BY <1>0, <1>2, <2>1, <2>2, BindFollows DEF IsAdapter
<1>3. CASE a.bound /\ ~ Bind(new, works).bound
  <2>1. b = Bind(a, TRUE)
    BY <1>3 DEF Rebind
  <2>2. \E w \in BOOLEAN : b = Bind(a, w)
    <3>1. TRUE \in BOOLEAN
      OBVIOUS
    <3> QED BY <2>1, <3>1, Zenon
  <2>3. PICK w \in BOOLEAN : b = Bind(a, w)
    BY <2>2
  <2>4. /\ DOMAIN b = AdapterFields /\ b.bound \in BOOLEAN
        /\ b.conf = a.conf /\ b.fields = a.fields
    BY <1>0, <2>3, BindFacts
  <2> QED BY <1>0, <1>3, <2>3, <2>4, BindFollows DEF IsAdapter
<1> QED BY <1>1, <1>2, <1>3

(***************************************************************************)
(* What the operations of the status publisher make of its state.          *)
(***************************************************************************)

Sends(s, x) == x \in Elems(s.out) /\ x.op # "mni"

Sendable(s) == IsPublished(s) /\ \A m : Sends(s, m) => IsSpec(m.body.conf)

Bounded(s) == \A m : Sends(s, m) => m.rev \in Nat /\ m.rev <= s.p.revision

LEMMA NumberedDef ==
    ASSUME NEW s, NEW c
    PROVE  Numbered(s, c) <=>
              \A m : Sends(s, m) => m.rev \in Nat /\ Stands(m.rev, m.body.conf, s.p.revision, c)
BY DEF Numbered, Sends

LEMMA BumpFacts ==
    ASSUME NEW n \in Nat
    PROVE  /\ Bump(n) \in Nat /\ n <= Bump(n)
           /\ \A k \in Nat : k <= n => k # Bump(n) \/ ~ (k < RevMax)
BY SettingTypes DEF Bump

LEMMA MapHistoryFacts ==
    ASSUME NEW a, NEW s, IsPublished(s), NEW t, t = MapHistory(a, s)
    PROVE  /\ IsPublished(t) /\ t.p.revision = s.p.revision
           /\ t.p.cache = s.p.cache /\ t.p.recent = s.p.recent
           /\ \A m : Sends(t, m) => Sends(s, m)
<1> DEFINE mni == [op |-> "mni", mni |-> a.applied["depth"]]
           q == [s.p EXCEPT !.mapped = {a.applied["depth"]}]
<1>1. CASE s.p.mapped = {a.applied["depth"]}
  <2>1. t = s
    BY <1>1 DEF MapHistory
  <2> QED BY <2>1
<1>2. CASE s.p.mapped # {a.applied["depth"]}
  <2>1. t = [p |-> q, out |-> Append(s.out, mni)]
    BY <1>2 DEF MapHistory
  <2>2. /\ DOMAIN q = PubFields /\ q.revision = s.p.revision
        /\ q.cache = s.p.cache /\ q.recent = s.p.recent
    BY DEF IsPublished, PubFields
  <2>3. mni.op = "mni"
    OBVIOUS
  <2> HIDE DEF q, mni
  <2>4. DOMAIN t = {"p", "out"} /\ t.p = q /\ t.out = Append(s.out, mni)
    BY <2>1
  <2>5. /\ IsSeq(t.out)
        /\ \A x : x \in Elems(t.out) => x \in Elems(s.out) \/ x = mni
    BY <2>4, SeqAppend DEF IsPublished
  <2>6. IsPublished(t)
    BY <2>2, <2>4, <2>5 DEF IsPublished
  <2> QED BY <2>2, <2>3, <2>4, <2>5, <2>6 DEF Sends
<1> QED BY <1>1, <1>2

(* A change of flags only.                                                 *)
LEMMA FlagsFacts ==
    ASSUME NEW s, IsPublished(s), NEW q, DOMAIN q = PubFields, q.revision = s.p.revision,
           NEW t, DOMAIN t = {"p", "out"}, t.p = q, t.out = s.out
    PROVE  /\ IsPublished(t) /\ t.p.revision = s.p.revision
           /\ \A m : Sends(t, m) <=> Sends(s, m)
BY DEF IsPublished, Sends

LEMMA InvalidateFacts ==
    ASSUME NEW s, IsPublished(s), NEW t, t = Invalidate(s)
    PROVE  /\ IsPublished(t) /\ t.p.revision = s.p.revision
           /\ \A m : Sends(t, m) <=> Sends(s, m)
           /\ t.p.cache = {} /\ t.p.recent = FALSE
<1> DEFINE q == [s.p EXCEPT !.cache = {}, !.mapped = {}, !.recent = FALSE, !.pending = FALSE]
<1>1. t = [s EXCEPT !.p = q]
  BY DEF Invalidate, IsPublished, PubFields
<1>2. DOMAIN q = PubFields /\ q.revision = s.p.revision /\ q.cache = {} /\ q.recent = FALSE
  BY DEF IsPublished, PubFields
<1> HIDE DEF q
<1>3. DOMAIN t = {"p", "out"} /\ t.p = q /\ t.out = s.out
  BY <1>1 DEF IsPublished
<1> QED BY <1>2, <1>3, FlagsFacts

LEMMA PublishFacts ==
    ASSUME NEW a, IsSpec(a.conf), NEW s, Sendable(s), NEW t, t = Publish(a, s)
    PROVE  /\ Sendable(t) /\ s.p.revision <= t.p.revision
           /\ Numbered(s, a.conf) => Numbered(t, a.conf)
           /\ a.bound /\ s.p.cache = {} /\ s.p.recent = FALSE
                => /\ t.p.revision = Bump(s.p.revision)
                   /\ Bounded(s) => Numbered(t, a.conf)
<1> DEFINE m == MapHistory(a, s)
           n == Bump(m.p.revision)
           msg == [op |-> "fcnt", body |-> Body(a), rev |-> n]
<1>0. IsPublished(s) /\ s.p.revision \in Nat
  BY DEF Sendable, IsPublished
<1>1. /\ IsPublished(m) /\ m.p.revision = s.p.revision
      /\ m.p.cache = s.p.cache /\ m.p.recent = s.p.recent
      /\ \A x : Sends(m, x) => Sends(s, x)
  BY <1>0, MapHistoryFacts
<1>2. msg.op = "fcnt" /\ msg.rev = n /\ msg.body.conf = a.conf
  BY DEF Body
<1>3. n \in Nat /\ s.p.revision <= n /\ n = Bump(s.p.revision)
      /\ \A k \in Nat : k <= s.p.revision => k # n \/ ~ (k < RevMax)
  BY <1>0, <1>1, BumpFacts
<1>a. CASE ~ a.bound
  <2> DEFINE q == [s.p EXCEPT !.pending = FALSE]
  <2>1. t = [s EXCEPT !.p = q]
    BY <1>a DEF Publish
  <2>2. DOMAIN q = PubFields /\ q.revision = s.p.revision
    BY <1>0 DEF IsPublished, PubFields
  <2> HIDE DEF q
  <2>3. DOMAIN t = {"p", "out"} /\ t.p = q /\ t.out = s.out
    BY <1>0, <2>1 DEF IsPublished
  <2>4. /\ IsPublished(t) /\ t.p.revision = s.p.revision
        /\ \A x : Sends(t, x) <=> Sends(s, x)
    BY <1>0, <2>2, <2>3, FlagsFacts
  <2> QED BY <1>0, <1>a, <2>4, NumberedDef DEF Sendable
<1>b. CASE a.bound /\ m.p.cache = {Body(a)}
  <2> DEFINE q == [m.p EXCEPT !.pending = FALSE]
  <2>1. t = [m EXCEPT !.p = q]
    BY <1>b DEF Publish
  <2>2. DOMAIN q = PubFields /\ q.revision = m.p.revision
    BY <1>1 DEF IsPublished, PubFields
  <2>3. s.p.cache # {}
    BY <1>1, <1>b
  <2> HIDE DEF q, m
  <2>4. DOMAIN t = {"p", "out"} /\ t.p = q /\ t.out = m.out
    BY <1>1, <2>1 DEF IsPublished
  <2>5. /\ IsPublished(t) /\ t.p.revision = s.p.revision
        /\ \A x : Sends(t, x) => Sends(s, x)
    BY <1>1, <2>2, <2>4, FlagsFacts
  <2> QED BY <1>0, <2>3, <2>5, NumberedDef DEF Sendable
<1>c. CASE a.bound /\ m.p.cache # {Body(a)} /\ m.p.recent
  <2> DEFINE q == [m.p EXCEPT !.pending = TRUE]
  <2>1. t = [m EXCEPT !.p = q]
    <3>1. t = HoldBack(m)
      BY <1>c DEF Publish
    <3> QED BY <3>1 DEF HoldBack
  <2>2. DOMAIN q = PubFields /\ q.revision = m.p.revision
    BY <1>1 DEF IsPublished, PubFields
  <2>3. ~ (a.bound /\ s.p.cache = {} /\ s.p.recent = FALSE)
    BY <1>1, <1>c
  <2> HIDE DEF q, m
  <2>4. DOMAIN t = {"p", "out"} /\ t.p = q /\ t.out = m.out
    BY <1>1, <2>1 DEF IsPublished
  <2>5. /\ IsPublished(t) /\ t.p.revision = s.p.revision
        /\ \A x : Sends(t, x) => Sends(s, x)
    BY <1>1, <2>2, <2>4, FlagsFacts
  <2> QED BY <1>0, <2>3, <2>5, NumberedDef DEF Sendable
<1>d. CASE a.bound /\ m.p.cache # {Body(a)} /\ ~ m.p.recent
  <2> DEFINE q == [m.p EXCEPT !.cache = {Body(a)}, !.revision = n, !.recent = TRUE, !.pending = FALSE]
  <2>1. t = [p |-> q, out |-> Append(m.out, msg)]
    BY <1>d DEF Publish
  <2>2. DOMAIN q = PubFields /\ q.revision = n
    BY <1>1 DEF IsPublished, PubFields
  <2> HIDE DEF q, m, n, msg
  <2>3. DOMAIN t = {"p", "out"} /\ t.p = q /\ t.out = Append(m.out, msg)
    BY <2>1
  <2>4. /\ IsSeq(t.out)
        /\ \A x : x \in Elems(t.out) => x \in Elems(m.out) \/ x = msg
    BY <1>1, <2>3, SeqAppend DEF IsPublished
  <2>5. /\ IsPublished(t) /\ t.p.revision = n
        /\ \A x : Sends(t, x) => Sends(s, x) \/ x = msg
    BY <1>1, <1>3, <2>2, <2>3, <2>4 DEF IsPublished, Sends
  <2>6. Sendable(t)
    BY <1>2, <2>5 DEF Sendable
  <2>7. Bounded(s) => Numbered(t, a.conf)
    <3>1. Stands(msg.rev, msg.body.conf, t.p.revision, a.conf) /\ msg.rev \in Nat
      BY <1>2, <1>3, <2>5 DEF Stands
    <3>2. ASSUME NEW x, x.rev \in Nat, x.rev <= s.p.revision
          PROVE  Stands(x.rev, x.body.conf, t.p.revision, a.conf)
      BY <1>0, <1>3, <2>5, <3>2 DEF Stands
    <3> QED BY <2>5, <3>1, <3>2, NumberedDef DEF Bounded
  <2>8. Numbered(s, a.conf) => Bounded(s)
    BY NumberedDef DEF Bounded, Stands
  <2> QED BY <1>3, <2>5, <2>6, <2>7, <2>8
<1> QED BY <1>a, <1>b, <1>c, <1>d

(***************************************************************************)
(* What a handler does to the configuration and to what is published: it   *)
(* keeps the configuration, or it installs another one under a new         *)
(* revision.                                                               *)
(***************************************************************************)

Grows(s, t, c) ==
    /\ Sendable(t) /\ s.p.revision <= t.p.revision
    /\ Numbered(s, c) => Numbered(t, c)

LEMMA GrowsStays ==
    ASSUME NEW s, Sendable(s), NEW c
    PROVE  Grows(s, s, c)
BY DEF Grows, Sendable, IsPublished

LEMMA GrowsOn ==
    ASSUME NEW s, Sendable(s), NEW t, NEW u, NEW c, Grows(s, t, c), Grows(t, u, c)
    PROVE  Grows(s, u, c)
<1>1. s.p.revision \in Nat /\ t.p.revision \in Nat /\ u.p.revision \in Nat
  BY DEF Grows, Sendable, IsPublished
<1> QED BY <1>1 DEF Grows

LEMMA GrowsPublish ==
    ASSUME NEW a, IsSpec(a.conf), NEW s, Sendable(s), NEW t, t = Publish(a, s)
    PROVE  Grows(s, t, a.conf)
BY PublishFacts DEF Grows

LEMMA GrowsQuiet ==
    ASSUME NEW s, Sendable(s), NEW t, IsPublished(t), t.p.revision = s.p.revision,
           \A m : Sends(t, m) => Sends(s, m), NEW c
    PROVE  Grows(s, t, c)
<1>1. Sendable(t)
  BY DEF Sendable
<1>2. s.p.revision <= t.p.revision
  BY DEF Sendable, IsPublished
<1> QED BY <1>1, <1>2, NumberedDef DEF Grows

LEMMA GrowsInvalidate ==
    ASSUME NEW s, Sendable(s), NEW t, t = Invalidate(s), NEW c
    PROVE  Grows(s, t, c)
<1>1. IsPublished(s)
  BY DEF Sendable
<1>2. /\ IsPublished(t) /\ t.p.revision = s.p.revision
      /\ \A m : Sends(t, m) <=> Sends(s, m)
  BY <1>1, InvalidateFacts
<1> QED BY <1>2, GrowsQuiet

Forget(s) == [s EXCEPT !.p.cache = {}, !.p.mapped = {}, !.p.recent = FALSE]

LEMMA GrowsForget ==
    ASSUME NEW s, Sendable(s), NEW c, NEW t, t = Forget(s)
    PROVE  Grows(s, t, c)
<1> DEFINE q == [s.p EXCEPT !.cache = {}, !.mapped = {}, !.recent = FALSE]
<1>0. IsPublished(s)
  BY DEF Sendable
<1>1. t = [s EXCEPT !.p = q]
  BY <1>0 DEF Forget, IsPublished, PubFields
<1>2. DOMAIN q = PubFields /\ q.revision = s.p.revision
  BY <1>0 DEF IsPublished, PubFields
<1> HIDE DEF q
<1>3. DOMAIN t = {"p", "out"} /\ t.p = q /\ t.out = s.out
  BY <1>0, <1>1 DEF IsPublished
<1>4. /\ IsPublished(t) /\ t.p.revision = s.p.revision
      /\ \A m : Sends(t, m) <=> Sends(s, m)
  BY <1>0, <1>2, <1>3, FlagsFacts
<1> QED BY <1>4, GrowsQuiet

KeepsConf(a, s) ==
    /\ IsAdapter(a) /\ Follows(a)
    /\ a.conf = adapter.conf /\ a.fields = adapter.fields
    /\ Grows(Published, s, adapter.conf)

InstallsConf(new, a, s) ==
    /\ IsAdapter(a) /\ Follows(a)
    /\ a.conf = new.conf /\ a.fields = new.fields
    /\ Sendable(s) /\ Numbered(s, a.conf)
    /\ s.p.revision = Bump(pub.revision)

LoopInv == LoopTypes /\ Follows(adapter) /\ RevisionInv /\ SavedIsConfigured

LEMMA LoopFacts ==
    ASSUME LoopInv
    PROVE  /\ Sendable(Published) /\ Bounded(Published)
           /\ Published.p = pub /\ Published.out = out /\ pub.revision \in Nat
           /\ IsAdapter(adapter) /\ IsSpec(adapter.conf) /\ Follows(adapter)
<1>1. Published.p = pub /\ Published.out = out
  BY DEF Published
<1>2. Sendable(Published) /\ pub.revision \in Nat
  BY <1>1 DEF LoopInv, LoopTypes, Sendable, Sends, IsPublished
<1>3. Bounded(Published)
  BY NumberedDef DEF LoopInv, RevisionInv, Bounded, Stands
<1>4. IsAdapter(adapter) /\ IsSpec(adapter.conf) /\ Follows(adapter)
  BY DEF LoopInv, LoopTypes, IsAdapter
<1> QED BY <1>1, <1>2, <1>3, <1>4

LEMMA SetFacts ==
    ASSUME NEW s, SetPublished(s)
    PROVE  pub' = s.p /\ out' = s.out
BY DEF SetPublished

LEMMA PollKeeps ==
    ASSUME LoopInv, NEW works \in BOOLEAN, Poll(works)
    PROVE  \E s : KeepsConf(adapter', s) /\ pub' = s.p /\ out' = s.out
<1>1. adapter' = Refresh(adapter, works)
  BY DEF Poll
<1>2. PICK s : s = IF adapter' # adapter THEN Publish(adapter', Published) ELSE Published
  OBVIOUS
<1>3. pub' = s.p /\ out' = s.out
  BY <1>2, SetFacts DEF Poll
<1>4. /\ IsAdapter(adapter') /\ Follows(adapter')
      /\ adapter'.conf = adapter.conf /\ adapter'.fields = adapter.fields
  BY <1>1, LoopFacts, RefreshFacts
<1>5. Grows(Published, s, adapter.conf)
  <2>1. CASE s = Published
    BY <2>1, LoopFacts, GrowsStays
  <2>2. CASE s = Publish(adapter', Published)
    BY <1>4, <2>2, LoopFacts, GrowsPublish
  <2> QED BY <1>2, <2>1, <2>2
<1> QED BY <1>3, <1>4, <1>5 DEF KeepsConf

LEMMA TickKeeps ==
    ASSUME LoopInv, NEW works \in BOOLEAN, Tick(works)
    PROVE  \E s : KeepsConf(adapter', s) /\ pub' = s.p /\ out' = s.out
<1> DEFINE c == adapter.conf
<1>1. adapter' = IF dirty THEN Refresh(adapter, works) ELSE adapter
  BY DEF Tick
<1>2. /\ IsAdapter(adapter') /\ Follows(adapter') /\ IsSpec(adapter'.conf)
      /\ adapter'.conf = c /\ adapter'.fields = adapter.fields
  <2>1. CASE adapter' = adapter
    BY <2>1, LoopFacts
  <2>2. CASE adapter' = Refresh(adapter, works)
    <3>1. /\ IsAdapter(adapter') /\ Follows(adapter')
          /\ adapter'.conf = c /\ adapter'.fields = adapter.fields
      BY <2>2, LoopFacts, RefreshFacts
    <3> QED BY <3>1, LoopFacts
  <2> QED BY <1>1, <2>1, <2>2
<1>3. PICK due : due = IF pub.pending /\ ~ pub.recent THEN Publish(adapter, Published)
                                                   ELSE Published
  OBVIOUS
<1>4. PICK s : s = IF dirty THEN Publish(adapter', due) ELSE due
  OBVIOUS
<1>5. s = TickPublishes(adapter')
  BY <1>3, <1>4 DEF TickPublishes
<1>6. PICK v : v = Forget(s)
  OBVIOUS
<1>7. PICK u : u = IF republish THEN Publish(adapter', v) ELSE s
  OBVIOUS
<1>8. pub' = u.p /\ out' = u.out
  <2>1. SetPublished(u)
    BY <1>1, <1>5, <1>6, <1>7 DEF Tick, Forget
  <2> QED BY <2>1, SetFacts
<1>9. Grows(Published, due, c)
  <2>1. CASE due = Published
    BY <2>1, LoopFacts, GrowsStays
  <2>2. CASE due = Publish(adapter, Published)
    BY <2>2, LoopFacts, GrowsPublish
  <2> QED BY <1>3, <2>1, <2>2
<1>10. Sendable(Published) /\ Sendable(due)
  BY <1>9, LoopFacts DEF Grows
<1>11. Grows(due, s, c)
  <2>1. CASE s = due
    BY <1>10, <2>1, GrowsStays
  <2>2. CASE s = Publish(adapter', due)
    BY <1>2, <1>10, <2>2, GrowsPublish
  <2> QED BY <1>4, <2>1, <2>2
<1>12. Sendable(s)
  BY <1>11 DEF Grows
<1>13. Grows(s, v, c)
  BY <1>6, <1>12, GrowsForget
<1>14. Sendable(v)
  BY <1>13 DEF Grows
<1>15. Grows(s, u, c)
  <2>1. CASE u = s
    BY <1>12, <2>1, GrowsStays
  <2>2. CASE u = Publish(adapter', v)
    <3>1. Grows(v, u, c)
      BY <1>2, <1>14, <2>2, GrowsPublish
    <3> QED BY <1>12, <1>13, <3>1, GrowsOn
  <2> QED BY <1>7, <2>1, <2>2
<1>16. Grows(Published, s, c)
  BY <1>9, <1>10, <1>11, GrowsOn
<1>17. Grows(Published, u, c)
  BY <1>10, <1>15, <1>16, GrowsOn
<1> QED BY <1>2, <1>8, <1>17 DEF KeepsConf

(***************************************************************************)
(* A request of a client, applied.                                         *)
(***************************************************************************)

LEMMA CountFacts ==
    ASSUME count \in [Kinds -> Nat], NEW kind \in Kinds, Event(kind)
    PROVE  /\ count' \in [Kinds -> Nat]
           /\ kind # "restarts" => count'["restarts"] = count["restarts"]
           /\ kind = "restarts" => count'["restarts"] = count["restarts"] + 1
BY DEF Event, Kinds

LEMMA CreatesFacts ==
    ASSUME count \in [Kinds -> Nat], NEW works, Creates(works)
    PROVE  count' \in [Kinds -> Nat] /\ count'["restarts"] = count["restarts"]
<1>1. CASE works
  BY <1>1 DEF Creates
<1>2. CASE ~ works
  <2>1. Event("broken") /\ "broken" \in Kinds
    BY <1>2 DEF Creates, Kinds
  <2> QED BY <2>1, CountFacts
<1> QED BY <1>1, <1>2

LEMMA CandidateFacts ==
    ASSUME IsAdapter(adapter), NEW request, IsRequest(request)
    PROVE  IsSpec(Candidate(request))
<1> DEFINE c == Candidate(request)
           d == adapter.conf
<1>1. /\ DOMAIN c = DOMAIN d
      /\ \A f \in DOMAIN d : c[f] = IF f \in DOMAIN request THEN request[f] ELSE d[f]
      /\ c = [a \in DOMAIN c |-> c[a]]
  BY DEF Candidate
<1>2. /\ Axes \subseteq DOMAIN d
      /\ \A a \in KindAxes \intersect DOMAIN d : d[a] \in {Weak, Strong}
      /\ \A a \in DurationAxes \intersect DOMAIN d : IsDuration(d[a])
  BY DEF IsAdapter, IsSpec, IsRequest
<1>3. /\ \A a \in KindAxes \intersect DOMAIN request : request[a] \in {Weak, Strong}
      /\ \A a \in DurationAxes \intersect DOMAIN request : IsDuration(request[a])
  BY DEF IsRequest
<1> HIDE DEF c, d
<1>4. ASSUME NEW a \in KindAxes, a \in DOMAIN c PROVE c[a] \in {Weak, Strong}
  BY <1>1, <1>2, <1>3, <1>4
<1>5. ASSUME NEW a \in DurationAxes, a \in DOMAIN c PROVE IsDuration(c[a])
  BY <1>1, <1>2, <1>3, <1>5
<1>6. IsRequest(c)
  BY <1>4, <1>5 DEF IsRequest
<1>7. IsSpec(c)
  BY <1>1, <1>2, <1>6 DEF IsSpec
<1> QED BY <1>7 DEF c

LEMMA AskedFacts ==
    ASSUME IsAdapter(adapter), NEW request, IsRequest(request), NEW new, new = Asked(request)
    PROVE  IsAdapter(new)
<1>1. new = [adapter EXCEPT !.conf = Candidate(request),
                            !.fields = adapter.fields \union DOMAIN request]
  BY DEF Asked, With
<1>2. IsSpec(Candidate(request))
  BY CandidateFacts
<1>3. DOMAIN adapter = AdapterFields
  BY DEF IsAdapter
<1>4. /\ DOMAIN new = AdapterFields /\ new.bound = adapter.bound
      /\ new.conf = Candidate(request)
      /\ new.fields = adapter.fields \union DOMAIN request
  BY <1>1, <1>3 DEF AdapterFields
<1> QED BY <1>2, <1>4 DEF IsAdapter

Override(new) == {[conf |-> new.conf, fields |-> new.fields]}

(* What handling a request does: nothing is installed or saved, or both.   *)
Settles(new, s) ==
    /\ pub' = s.p /\ out' = s.out
    /\ \/ KeepsConf(adapter', s) /\ saved' = saved
       \/ InstallsConf(new, adapter', s) /\ saved' = Override(new)

LEMMA RefuseSettles ==
    ASSUME LoopInv, NEW undo \in BOOLEAN, Refuse(undo), NEW new
    PROVE  \E s : Settles(new, s)
<1>1. PICK s : s = IF undo THEN Publish(adapter, Invalidate(Published)) ELSE Published
  OBVIOUS
<1>2. pub' = s.p /\ out' = s.out /\ adapter' = adapter /\ saved' = saved
  BY <1>1, SetFacts DEF Refuse
<1>3. PICK v : v = Invalidate(Published)
  OBVIOUS
<1>4. Grows(Published, v, adapter.conf)
  BY <1>3, LoopFacts, GrowsInvalidate
<1>5. Grows(Published, s, adapter.conf)
  <2>1. CASE s = Published
    BY <2>1, LoopFacts, GrowsStays
  <2>2. CASE s = Publish(adapter, v)
    <3>1. Sendable(v)
      BY <1>4 DEF Grows
    <3>2. Grows(v, s, adapter.conf)
      BY <2>2, <3>1, LoopFacts, GrowsPublish
    <3> QED BY <1>4, <3>2, LoopFacts, GrowsOn
  <2> QED BY <1>1, <1>3, <2>1, <2>2
<1>6. KeepsConf(adapter', s)
  BY <1>2, <1>5, LoopFacts DEF KeepsConf
<1> QED BY <1>2, <1>6 DEF Settles

LEMMA NoChangeSettles ==
    ASSUME LoopInv, NoChange, NEW new
    PROVE  \E s : Settles(new, s)
<1>1. adapter' = adapter /\ saved' = saved /\ pub' = Published.p /\ out' = Published.out
  BY LoopFacts DEF NoChange
<1>2. KeepsConf(adapter', Published)
  BY <1>1, LoopFacts, GrowsStays DEF KeepsConf
<1> QED BY <1>1, <1>2 DEF Settles

LEMMA ApplySettles ==
    ASSUME LoopInv, NEW new, IsAdapter(new), NEW undo \in BOOLEAN, NEW works \in BOOLEAN,
           Apply(new, undo, works)
    PROVE  \E s : Settles(new, s)
<1>1. CASE ~ Acceptable(new)
  BY <1>1, RefuseSettles DEF Apply
<1>2. CASE Acceptable(new)
  <2> DEFINE done == adapter.bound /\ Bind(new, works).bound
  <2>1. /\ adapter' = Rebind(adapter, new, works)
        /\ saved' = IF done THEN Override(new) ELSE saved
    BY <1>2 DEF Apply, Persist, Override
  <2>2. PICK s : s = IF done \/ undo THEN Publish(adapter', Invalidate(Published)) ELSE Published
    OBVIOUS
  <2>3. pub' = s.p /\ out' = s.out
    <3>1. SetPublished(s)
      BY <1>2, <2>1, <2>2 DEF Apply
    <3> QED BY <3>1, SetFacts
  <2>4. PICK v : v = Invalidate(Published)
    OBVIOUS
  <2>5. /\ IsAdapter(adapter') /\ Follows(adapter')
        /\ IF done THEN adapter'.bound /\ adapter'.conf = new.conf /\ adapter'.fields = new.fields
                   ELSE adapter'.conf = adapter.conf /\ adapter'.fields = adapter.fields
    BY <2>1, LoopFacts, RebindFacts
  <2> HIDE DEF done
  <2>6. IsSpec(adapter'.conf)
    BY <2>5 DEF IsAdapter
  <2>7. Grows(Published, v, adapter.conf) /\ Sendable(v)
    <3>1. Grows(Published, v, adapter.conf)
      BY <2>4, LoopFacts, GrowsInvalidate
    <3> QED BY <3>1 DEF Grows
  <2>8. CASE done
    <3>1. s = Publish(adapter', v)
      BY <2>2, <2>4, <2>8
    <3>2. /\ v.p.revision = pub.revision /\ v.p.cache = {} /\ v.p.recent = FALSE
          /\ \A m : Sends(v, m) <=> Sends(Published, m)
      <4>1. IsPublished(Published) /\ Published.p = pub
        BY LoopFacts DEF Sendable
      <4> QED BY <2>4, <4>1, InvalidateFacts
    <3>3. Bounded(v)
      BY <3>2, LoopFacts DEF Bounded
    <3>4. Sendable(s) /\ s.p.revision = Bump(pub.revision) /\ Numbered(s, adapter'.conf)
      BY <2>5, <2>6, <2>7, <2>8, <3>1, <3>2, <3>3, PublishFacts
    <3>5. InstallsConf(new, adapter', s)
      BY <2>5, <2>8, <3>4 DEF InstallsConf
    <3> QED BY <2>1, <2>3, <2>8, <3>5 DEF Settles
  <2>9. CASE ~ done
    <3>1. Grows(Published, s, adapter.conf)
      <4>1. CASE s = Published
        BY <4>1, LoopFacts, GrowsStays
      <4>2. CASE s = Publish(adapter', v)
        <5>1. Grows(v, s, adapter.conf)
          BY <2>5, <2>6, <2>7, <2>9, <4>2, GrowsPublish
        <5> QED BY <2>7, <5>1, LoopFacts, GrowsOn
      <4> QED BY <2>2, <2>4, <4>1, <4>2
    <3>2. KeepsConf(adapter', s)
      BY <2>5, <2>9, <3>1 DEF KeepsConf
    <3> QED BY <2>1, <2>3, <2>9, <3>2 DEF Settles
  <2> QED BY <2>8, <2>9
<1> QED BY <1>1, <1>2

LEMMA DispatchSettles ==
    ASSUME LoopInv, NEW works \in BOOLEAN, Dispatch(works)
    PROVE  \E new, s : IsAdapter(new) /\ Settles(new, s)
<1> DEFINE e == Head(inbox)
           new == Asked(e.request)
<1>1. IsSeq(inbox) /\ inbox # <<>> /\ \A x \in Elems(inbox) : IsRequest(x.request)
  BY DEF LoopInv, LoopTypes, Dispatch
<1>2. IsRequest(e.request)
  BY <1>1, SeqTail
<1>3. IsAdapter(new)
  BY <1>2, LoopFacts, AskedFacts
<1>4. \/ \E undo \in BOOLEAN : Refuse(undo)
      \/ NoChange
      \/ \E undo \in BOOLEAN : Apply(new, undo, works)
  <2>0. TRUE \in BOOLEAN /\ FALSE \in BOOLEAN
    OBVIOUS
  <2>1. CASE e.kind = "update"
    <3>1. Update(e.request, works)
      BY <2>1 DEF Dispatch
    <3>2. Refuse(TRUE) \/ NoChange \/ Apply(new, TRUE, works)
      BY <3>1, Zenon DEF Update
    <3> QED BY <2>0, <3>2, Zenon
  <2>2. CASE e.kind # "update"
    <3>1. Policy(e, works)
      BY <2>2 DEF Dispatch
    <3>2. Refuse(FALSE) \/ NoChange \/ Apply(new, FALSE, works)
      BY <3>1, Zenon DEF Policy
    <3> QED BY <2>0, <3>2, Zenon
  <2> QED BY <2>1, <2>2
<1> HIDE DEF new
<1>5. \E s : Settles(new, s)
  <2>1. CASE \E undo \in BOOLEAN : Refuse(undo)
    BY <2>1, RefuseSettles
  <2>2. CASE NoChange
    BY <2>2, NoChangeSettles
  <2>3. CASE \E undo \in BOOLEAN : Apply(new, undo, works)
    BY <1>3, <2>3, ApplySettles
  <2> QED BY <1>4, <2>1, <2>2, <2>3
<1> QED BY <1>3, <1>5

(***************************************************************************)
(* Every step keeps the invariant of the loop.                             *)
(***************************************************************************)

LEMMA StandsOn ==
    ASSUME NEW rev \in Nat, NEW now \in Nat, NEW later \in Nat, NEW conf, NEW c,
           Stands(rev, conf, now, c), now <= later
    PROVE  Stands(rev, conf, later, c)
BY SettingTypes DEF Stands

LEMMA StandsBelow ==
    ASSUME NEW rev \in Nat, NEW now \in Nat, NEW conf, NEW c, NEW d,
           Stands(rev, conf, now, c)
    PROVE  Stands(rev, conf, Bump(now), d)
BY BumpFacts, SettingTypes DEF Stands

(* What the steps of the handlers have in common.                          *)
Moves(s) == KeepsConf(adapter', s) \/ \E new : InstallsConf(new, adapter', s)

LEMMA MovesFacts ==
    ASSUME LoopInv, NEW s, Moves(s), pub' = s.p, out' = s.out, mode' = mode
    PROVE  /\ IsAdapter(adapter') /\ Follows(adapter)'
           /\ IsPublished(Published') /\ Numbered(Published', adapter'.conf)
           /\ \A m \in Elems(out') : m.op # "mni" => IsSpec(m.body.conf)
<1>1. /\ IsAdapter(adapter') /\ Follows(adapter')
      /\ Sendable(s) /\ Numbered(s, adapter'.conf)
  <2>1. CASE KeepsConf(adapter', s)
    BY <2>1 DEF KeepsConf, Grows, LoopInv, RevisionInv
  <2>2. CASE \E new : InstallsConf(new, adapter', s)
    BY <2>2 DEF InstallsConf
  <2> QED BY <2>1, <2>2 DEF Moves
<1>2. Published' = [p |-> s.p, out |-> s.out]
  BY DEF Published
<1>3. DOMAIN Published' = {"p", "out"} /\ Published'.p = s.p /\ Published'.out = s.out
  BY <1>2
<1>4. IsPublished(Published')
  BY <1>1, <1>3 DEF Sendable, IsPublished
<1>5. Numbered(Published', adapter'.conf)
  BY <1>1, <1>3 DEF Numbered
<1>6. \A m \in Elems(out') : m.op # "mni" => IsSpec(m.body.conf)
  BY <1>1 DEF Sendable, Sends
<1>7. Follows(adapter)'
  BY <1>1 DEF Follows
<1> QED BY <1>1, <1>4, <1>5, <1>6, <1>7

LEMMA MovesStands ==
    ASSUME LoopInv, NEW s, Moves(s), pub' = s.p, NEW rev \in Nat, NEW conf,
           Stands(rev, conf, pub.revision, adapter.conf)
    PROVE  Stands(rev, conf, pub'.revision, adapter'.conf)
<1>0. pub.revision \in Nat /\ Published.p = pub
  BY LoopFacts
<1>1. CASE KeepsConf(adapter', s)
  <2>1. /\ s.p.revision \in Nat /\ pub.revision <= s.p.revision
        /\ adapter'.conf = adapter.conf
    BY <1>0, <1>1 DEF KeepsConf, Grows, Sendable, IsPublished
  <2> QED BY <1>0, <2>1, StandsOn
<1>2. CASE \E new : InstallsConf(new, adapter', s)
  <2>1. s.p.revision = Bump(pub.revision)
    BY <1>2 DEF InstallsConf
  <2> QED BY <1>0, <2>1, StandsBelow
<1> QED BY <1>1, <1>2 DEF Moves

LEMMA MovesKeep ==
    ASSUME LoopInv, NEW s, Moves(s), pub' = s.p, out' = s.out,
           UNCHANGED <<mode, cse, graph>>,
           count' \in [Kinds -> Nat], count'["restarts"] = count["restarts"],
           IsSeq(inbox'), Elems(inbox') \subseteq Elems(inbox),
           \A o \in saved' : IsSpec(o.conf), SavedIsConfigured'
    PROVE  LoopInv'
<1>1. /\ IsAdapter(adapter') /\ Follows(adapter)'
      /\ IsPublished(Published') /\ Numbered(Published', adapter'.conf)
      /\ \A m \in Elems(out') : m.op # "mni" => IsSpec(m.body.conf)
  BY MovesFacts
<1>2. LoopTypes'
  BY <1>1 DEF LoopInv, LoopTypes
<1>3. cse.rev # 0 /\ cse.born = count["restarts"]
         => Stands(cse.rev, cse.body.conf, pub'.revision, adapter'.conf)
  <2>1. cse.rev \in Nat
    BY DEF LoopInv, RevisionInv
  <2>2. cse.rev # 0 /\ cse.born = count["restarts"]
          => Stands(cse.rev, cse.body.conf, pub.revision, adapter.conf)
    BY DEF LoopInv, RevisionInv
  <2> QED BY <2>1, <2>2, MovesStands
<1>4. ASSUME NEW e \in Elems(inbox'), e.kind = "policy"
      PROVE  /\ e.born \in Nat /\ e.born <= count["restarts"]
             /\ e.base \in Nat /\ e.base < RevMax
             /\ e.born = count["restarts"]
                   => Stands(e.base, e.read, pub'.revision, adapter'.conf)
  <2>1. /\ e.born \in Nat /\ e.born <= count["restarts"]
        /\ e.base \in Nat /\ e.base < RevMax
        /\ e.born = count["restarts"]
              => Stands(e.base, e.read, pub.revision, adapter.conf)
    BY <1>4 DEF LoopInv, RevisionInv
  <2> QED BY <2>1, MovesStands
<1>5. RevisionInv'
  <2>1. cse' = cse
    OBVIOUS
  <2>2. cse.rev \in Nat /\ cse.born \in Nat /\ cse.born <= count["restarts"]
    BY DEF LoopInv, RevisionInv
  <2> QED BY <1>1, <1>3, <1>4, <2>1, <2>2 DEF RevisionInv
<1> QED BY <1>1, <1>2, <1>5 DEF LoopInv

LEMMA HandlersKeep ==
    ASSUME LoopInv, NEW works \in BOOLEAN, Poll(works) \/ Tick(works) \/ Dispatch(works)
    PROVE  LoopInv'
<1>1. /\ UNCHANGED <<mode, cse, graph>>
      /\ count' \in [Kinds -> Nat] /\ count'["restarts"] = count["restarts"]
  <2>1. count \in [Kinds -> Nat]
    BY DEF LoopInv, LoopTypes
  <2>2. Creates(works)
    BY DEF Poll, Tick, Dispatch
  <2>3. UNCHANGED <<mode, cse, graph>>
    BY DEF Poll, Tick, Dispatch
  <2> QED BY <2>1, <2>2, <2>3, CreatesFacts
<1>2. IsSeq(inbox) /\ \A o \in saved : IsSpec(o.conf)
  BY DEF LoopInv, LoopTypes
<1>3. CASE Poll(works) \/ Tick(works)
  <2>1. PICK s : KeepsConf(adapter', s) /\ pub' = s.p /\ out' = s.out
    BY <1>3, PollKeeps, TickKeeps
  <2>2. inbox' = inbox /\ saved' = saved
    BY <1>3 DEF Poll, Tick
  <2>3. SavedIsConfigured'
    BY <2>1, <2>2 DEF KeepsConf, LoopInv, SavedIsConfigured
  <2> QED BY <1>1, <1>2, <2>1, <2>2, <2>3, MovesKeep DEF Moves
<1>4. CASE Dispatch(works)
  <2>1. PICK new : \E s : IsAdapter(new) /\ Settles(new, s)
    BY <1>4, DispatchSettles
  <2>2. PICK s : IsAdapter(new) /\ Settles(new, s)
    BY <2>1
  <2>3. IsSeq(inbox') /\ Elems(inbox') \subseteq Elems(inbox)
    BY <1>2, <1>4, SeqTail DEF Dispatch
  <2>4. Moves(s) /\ pub' = s.p /\ out' = s.out
    BY <2>2 DEF Settles, Moves
  <2>5. (\A o \in saved' : IsSpec(o.conf)) /\ SavedIsConfigured'
    <3>1. CASE KeepsConf(adapter', s) /\ saved' = saved
      BY <1>2, <3>1 DEF KeepsConf, LoopInv, SavedIsConfigured
    <3>2. CASE InstallsConf(new, adapter', s) /\ saved' = Override(new)
      <4>1. /\ adapter'.conf = new.conf /\ adapter'.fields = new.fields
            /\ IsSpec(new.conf) /\ InitialFields \subseteq new.fields
        BY <2>2, <3>2 DEF InstallsConf, IsAdapter
      <4>2. \A o \in saved' : o.conf = new.conf /\ o.fields = new.fields
        BY <3>2 DEF Override
      <4>3. saved' # {}
        BY <3>2 DEF Override
      <4>4. \A o \in saved' : adapter'.fields = o.fields \union InitialFields
        BY <4>1, <4>2
      <4> QED BY <4>1, <4>2, <4>3, <4>4 DEF SavedIsConfigured
    <3> QED BY <2>2, <3>1, <3>2 DEF Settles
  <2> QED BY <1>1, <2>3, <2>4, <2>5, MovesKeep
<1> QED BY <1>3, <1>4

LEMMA StartedFacts ==
    ASSUME NEW conf, IsSpec(conf), NEW fields, InitialFields \subseteq fields,
           NEW new, new = Started(conf, fields)
    PROVE  /\ IsAdapter(new.adapter) /\ Follows(new.adapter)
           /\ new.adapter.conf = conf /\ new.adapter.fields = fields
           /\ Sendable(new.s) /\ Numbered(new.s, conf)
<1> DEFINE a0 == [bound |-> FALSE, conf |-> conf, fields |-> fields,
                  applied |-> <<>>, seen |-> {}, events |-> {}]
           p0 == [cache |-> {}, mapped |-> {}, recent |-> FALSE,
                  pending |-> FALSE, revision |-> 0]
           s0 == [p |-> p0, out |-> <<>>]
           a == Bind(a0, TRUE)
           t == Publish(a, s0)
<1>1. new.adapter = a /\ new.s = t
  BY DEF Started
<1>2. DOMAIN a0 = AdapterFields /\ a0.conf = conf /\ a0.fields = fields
  BY DEF AdapterFields
<1>3. /\ DOMAIN s0 = {"p", "out"} /\ DOMAIN s0.p = PubFields
      /\ s0.p.revision = 0 /\ s0.out = <<>>
  BY DEF PubFields
<1> HIDE DEF a0, s0, p0
<1>4. \E w \in BOOLEAN : a = Bind(a0, w)
  <2>1. TRUE \in BOOLEAN
    OBVIOUS
  <2> QED BY <2>1, Zenon
<1>5. PICK w \in BOOLEAN : a = Bind(a0, w)
  BY <1>4
<1> HIDE DEF a
<1>6. DOMAIN a = AdapterFields /\ a.bound \in BOOLEAN /\ a.conf = conf /\ a.fields = fields
  BY <1>2, <1>5, BindFacts
<1>7. Follows(a)
  BY <1>2, <1>5, BindFollows
<1>8. IsAdapter(a)
  BY <1>6 DEF IsAdapter
<1>9. Sendable(s0) /\ Numbered(s0, conf)
  BY <1>3, SeqEmpty DEF Sendable, IsPublished, Numbered, Sends
<1>10. Sendable(t) /\ Numbered(t, conf)
  BY <1>6, <1>9, PublishFacts
<1> QED BY <1>1, <1>6, <1>7, <1>8, <1>10

LEMMA LoopInit ==
    ASSUME Init
    PROVE  LoopInv
<1>1. PICK new : new = Started(InitialConf, InitialFields)
  OBVIOUS
<1>2. adapter = new.adapter /\ pub = new.s.p /\ out = new.s.out
  BY <1>1 DEF Init
<1>3. IsSpec(InitialConf)
  BY SettingTypes
<1>4. /\ IsAdapter(adapter) /\ Follows(adapter)
      /\ adapter.conf = InitialConf /\ adapter.fields = InitialFields
      /\ Sendable(new.s) /\ Numbered(new.s, InitialConf)
  BY <1>1, <1>2, <1>3, StartedFacts
<1>5. DOMAIN Published = {"p", "out"} /\ Published.p = new.s.p /\ Published.out = new.s.out
  BY <1>2 DEF Published
<1>6. IsPublished(Published) /\ Numbered(Published, adapter.conf)
  BY <1>4, <1>5 DEF Sendable, IsPublished, Numbered
<1>7. \A m \in Elems(out) : m.op # "mni" => IsSpec(m.body.conf)
  BY <1>2, <1>4 DEF Sendable, Sends
<1>8. IsSeq(inbox) /\ Elems(inbox) = {} /\ saved = {}
  BY SeqEmpty DEF Init
<1>9. /\ DOMAIN cse = {"body", "rev", "mni", "born"} /\ cse.rev = 0 /\ cse.born = 0
      /\ count \in [Kinds -> Nat] /\ count["restarts"] = 0
  BY DEF Init, Kinds
<1>10. graph \subseteq Offers /\ mode \in Modes
  BY DEF Init
<1>11. LoopTypes
  BY <1>4, <1>6, <1>7, <1>8, <1>9, <1>10 DEF LoopTypes
<1>12. RevisionInv
  BY <1>6, <1>8, <1>9 DEF RevisionInv
<1>13. SavedIsConfigured
  BY <1>4, <1>8 DEF SavedIsConfigured
<1> QED BY <1>4, <1>11, <1>12, <1>13 DEF LoopInv

LEMMA ElapseKeeps ==
    ASSUME LoopInv, Elapse
    PROVE  LoopInv'
<1> DEFINE q == [pub EXCEPT !.recent = FALSE]
<1>1. pub' = q /\ UNCHANGED <<mode, graph, adapter, out, cse, inbox, saved, count>>
  BY DEF Elapse
<1>2. IsPublished(Published) /\ Published.p = pub /\ Published.out = out
  BY LoopFacts DEF Sendable
<1>3. DOMAIN q = PubFields /\ q.revision = pub.revision
  BY <1>2 DEF IsPublished, PubFields
<1> HIDE DEF q
<1>4. DOMAIN Published' = {"p", "out"} /\ Published'.p = q /\ Published'.out = out
  BY <1>1 DEF Published
<1>5. IsPublished(Published')
  BY <1>2, <1>3, <1>4 DEF IsPublished
<1>6. Numbered(Published', adapter.conf)
  <2>1. Numbered(Published, adapter.conf)
    BY DEF LoopInv, RevisionInv
  <2> QED BY <1>2, <1>3, <1>4, <2>1 DEF Numbered
<1>7. LoopTypes'
  BY <1>1, <1>5 DEF LoopInv, LoopTypes
<1>8. RevisionInv'
  BY <1>1, <1>3, <1>6 DEF LoopInv, RevisionInv
<1>9. SavedIsConfigured' /\ Follows(adapter)'
  BY <1>1 DEF LoopInv, SavedIsConfigured, Follows
<1> QED BY <1>7, <1>8, <1>9 DEF LoopInv

LEMMA GraphKeeps ==
    ASSUME LoopInv, NEW offers \in SUBSET Offers, GraphChanges(offers)
    PROVE  LoopInv'
<1>1. /\ UNCHANGED <<mode, adapter, pub, out, cse, inbox, saved>>
      /\ graph' \subseteq Offers
  BY DEF GraphChanges
<1>2. count' \in [Kinds -> Nat] /\ count'["restarts"] = count["restarts"]
  <2>1. count \in [Kinds -> Nat] /\ Event("graphs") /\ "graphs" \in Kinds
    BY DEF GraphChanges, LoopInv, LoopTypes, Kinds
  <2> QED BY <2>1, CountFacts
<1>3. Published' = Published
  BY <1>1 DEF Published
<1>4. LoopTypes'
  BY <1>1, <1>2, <1>3 DEF LoopInv, LoopTypes
<1>5. RevisionInv'
  BY <1>1, <1>2, <1>3 DEF LoopInv, RevisionInv
<1>6. SavedIsConfigured' /\ Follows(adapter)'
  BY <1>1 DEF LoopInv, SavedIsConfigured, Follows
<1> QED BY <1>4, <1>5, <1>6 DEF LoopInv

LEMMA DeliverKeeps ==
    ASSUME LoopInv, Deliver
    PROVE  LoopInv'
<1> DEFINE m == Head(out)
<1>1. /\ UNCHANGED <<mode, graph, adapter, pub, saved, count>>
      /\ out # <<>> /\ out' = Tail(out)
  BY DEF Deliver
<1>2. /\ IsPublished(Published) /\ Published.p = pub /\ Published.out = out
      /\ Numbered(Published, adapter.conf) /\ pub.revision \in Nat
  BY LoopFacts DEF LoopInv, RevisionInv, LoopTypes
<1>3. IsSeq(out) /\ IsSeq(out') /\ m \in Elems(out) /\ Elems(out') \subseteq Elems(out)
  <2>1. IsSeq(out)
    BY <1>2 DEF IsPublished
  <2> QED BY <1>1, <2>1, SeqTail
<1>4. DOMAIN Published' = {"p", "out"} /\ Published'.p = pub /\ Published'.out = out'
  BY <1>1 DEF Published
<1>5. IsPublished(Published')
  BY <1>2, <1>3, <1>4 DEF IsPublished
<1>6. Numbered(Published', adapter.conf)
  BY <1>2, <1>3, <1>4 DEF Numbered
<1>7. \A e \in Elems(out') : e.op # "mni" => IsSpec(e.body.conf)
  BY <1>3 DEF LoopInv, LoopTypes
<1>8. IsSeq(inbox) /\ DOMAIN cse = {"body", "rev", "mni", "born"}
  BY DEF LoopInv, LoopTypes
<1>9. SavedIsConfigured' /\ Follows(adapter)'
  BY <1>1 DEF LoopInv, SavedIsConfigured, Follows
<1>10. CASE m.op = "mni"
  <2>1. cse' = [cse EXCEPT !.mni = m.mni] /\ inbox' = inbox
    BY <1>10 DEF Deliver
  <2>2. /\ DOMAIN cse' = {"body", "rev", "mni", "born"}
        /\ cse'.body = cse.body /\ cse'.rev = cse.rev /\ cse'.born = cse.born
    BY <1>8, <2>1
  <2>3. LoopTypes'
    BY <1>1, <1>5, <1>7, <2>1, <2>2 DEF LoopInv, LoopTypes
  <2>4. RevisionInv'
    BY <1>1, <1>6, <2>1, <2>2 DEF LoopInv, RevisionInv
  <2> QED BY <1>9, <2>3, <2>4 DEF LoopInv
<1>11. CASE m.op # "mni"
  <2>2. /\ cse' = [cse EXCEPT !.body = m.body, !.rev = m.rev, !.born = count["restarts"]]
        /\ inbox' = IF allow THEN Append(inbox, Notice(m.body.conf)) ELSE inbox
    BY <1>11 DEF Deliver
  <2>3. /\ DOMAIN cse' = {"body", "rev", "mni", "born"}
        /\ cse'.body = m.body /\ cse'.rev = m.rev /\ cse'.born = count["restarts"]
    BY <1>8, <2>2
  <2>4. /\ IsSpec(m.body.conf) /\ m.rev \in Nat
        /\ Stands(m.rev, m.body.conf, pub.revision, adapter.conf)
    BY <1>2, <1>3, <1>11 DEF LoopInv, LoopTypes, Numbered
  <2>5. /\ Notice(m.body.conf).kind = "update"
        /\ IsRequest(Notice(m.body.conf).request)
    BY <2>4 DEF Notice, IsSpec
  <2>6. IsSeq(inbox') /\ \A e \in Elems(inbox') : e \in Elems(inbox) \/ e = Notice(m.body.conf)
    BY <1>8, <2>2, SeqAppend
  <2>7. \A e \in Elems(inbox') : IsRequest(e.request)
    BY <2>5, <2>6 DEF LoopInv, LoopTypes
  <2>8. \A e \in Elems(inbox') : e.kind = "policy" => e \in Elems(inbox)
    BY <2>5, <2>6
  <2>9. LoopTypes'
    BY <1>1, <1>5, <1>7, <2>3, <2>6, <2>7 DEF LoopInv, LoopTypes
  <2>10. count["restarts"] \in Nat
    BY DEF LoopInv, LoopTypes, Kinds
  <2>11. RevisionInv'
    BY <1>1, <1>6, <2>3, <2>4, <2>8, <2>10 DEF LoopInv, RevisionInv
  <2> QED BY <1>9, <2>9, <2>11 DEF LoopInv
<1> QED BY <1>10, <1>11

LEMMA ClientKeeps ==
    ASSUME LoopInv, NEW request \in Changes, ClientUpdates(request) \/ ClientPolicy(request)
    PROVE  LoopInv'
<1>1. UNCHANGED <<mode, graph, adapter, pub, out, saved>>
  BY DEF ClientUpdates, ClientPolicy, ipe
<1>2. count' \in [Kinds -> Nat] /\ count'["restarts"] = count["restarts"]
  <2>1. count \in [Kinds -> Nat] /\ Event("asked") /\ "asked" \in Kinds
    BY DEF ClientUpdates, ClientPolicy, LoopInv, LoopTypes, Kinds
  <2> QED BY <2>1, CountFacts
<1>3. IsRequest(request)
  BY SettingTypes
<1>4. Published' = Published
  BY <1>1 DEF Published
<1>5. SavedIsConfigured' /\ Follows(adapter)'
  BY <1>1 DEF LoopInv, SavedIsConfigured, Follows
<1>6. IsSeq(inbox) /\ DOMAIN cse = {"body", "rev", "mni", "born"}
  BY DEF LoopInv, LoopTypes
<1>7. cse.rev \in Nat /\ cse.born \in Nat /\ cse.born <= count["restarts"]
  BY DEF LoopInv, RevisionInv
<1>8. CASE ClientUpdates(request)
  <2>1. /\ cse' = [cse EXCEPT !.body = Bare(request), !.rev = 0]
        /\ inbox' = Append(inbox, Notice(request))
    BY <1>8 DEF ClientUpdates
  <2>2. DOMAIN cse' = {"body", "rev", "mni", "born"} /\ cse'.rev = 0 /\ cse'.born = cse.born
    BY <1>6, <2>1
  <2>3. Notice(request).kind = "update" /\ Notice(request).request = request
    BY DEF Notice
  <2>4. IsSeq(inbox') /\ \A e \in Elems(inbox') : e \in Elems(inbox) \/ e = Notice(request)
    BY <1>6, <2>1, SeqAppend
  <2>5. \A e \in Elems(inbox') : IsRequest(e.request)
    BY <1>3, <2>3, <2>4 DEF LoopInv, LoopTypes
  <2>6. \A e \in Elems(inbox') : e.kind = "policy" => e \in Elems(inbox)
    BY <2>3, <2>4
  <2>7. LoopTypes'
    BY <1>1, <1>2, <1>4, <2>2, <2>4, <2>5 DEF LoopInv, LoopTypes
  <2>8. RevisionInv'
    BY <1>1, <1>2, <1>4, <1>7, <2>2, <2>6 DEF LoopInv, RevisionInv
  <2> QED BY <1>5, <2>7, <2>8 DEF LoopInv
<1>9. CASE ClientPolicy(request)
  <2> DEFINE event == [kind |-> "policy", request |-> request, base |-> cse.rev,
                       read |-> cse.body.conf, born |-> cse.born]
  <2>1. /\ inbox' = Append(inbox, event) /\ cse' = cse
        /\ cse.rev \in 1 .. RevMax - 1
    BY <1>9 DEF ClientPolicy
  <2>2. /\ event.request = request /\ event.base = cse.rev
        /\ event.read = cse.body.conf /\ event.born = cse.born
    OBVIOUS
  <2> HIDE DEF event
  <2>3. IsSeq(inbox') /\ \A e \in Elems(inbox') : e \in Elems(inbox) \/ e = event
    BY <1>6, <2>1, SeqAppend
  <2>4. \A e \in Elems(inbox') : IsRequest(e.request)
    BY <1>3, <2>2, <2>3 DEF LoopInv, LoopTypes
  <2>5. cse.rev # 0 /\ cse.rev < RevMax
    BY <2>1, SettingTypes
  <2>6. event.born = count["restarts"]
          => Stands(event.base, event.read, pub.revision, adapter.conf)
    BY <2>2, <2>5 DEF LoopInv, RevisionInv
  <2>7. LoopTypes'
    BY <1>1, <1>2, <1>4, <2>1, <2>3, <2>4 DEF LoopInv, LoopTypes
  <2>8. RevisionInv'
    BY <1>1, <1>2, <1>4, <1>7, <2>1, <2>2, <2>3, <2>5, <2>6 DEF LoopInv, RevisionInv
  <2> QED BY <1>5, <2>7, <2>8 DEF LoopInv
<1> QED BY <1>8, <1>9

LEMMA RecoveredKeeps ==
    ASSUME LoopInv, CseRecovered
    PROVE  LoopInv'
<1>1. /\ UNCHANGED <<mode, graph, adapter, pub, out, inbox, saved>>
      /\ cse' = [body |-> Bare(adapter.conf), rev |-> 0, mni |-> 0, born |-> 0]
  BY DEF CseRecovered
<1>2. count' \in [Kinds -> Nat] /\ count'["restarts"] = count["restarts"]
  <2>1. count \in [Kinds -> Nat] /\ Event("lost") /\ "lost" \in Kinds
    BY DEF CseRecovered, LoopInv, LoopTypes, Kinds
  <2> QED BY <2>1, CountFacts
<1>3. DOMAIN cse' = {"body", "rev", "mni", "born"} /\ cse'.rev = 0 /\ cse'.born = 0
  BY <1>1
<1>4. Published' = Published
  BY <1>1 DEF Published
<1>5. SavedIsConfigured' /\ Follows(adapter)'
  BY <1>1 DEF LoopInv, SavedIsConfigured, Follows
<1>6. LoopTypes'
  BY <1>1, <1>2, <1>3, <1>4 DEF LoopInv, LoopTypes
<1>7. count["restarts"] \in Nat
  BY DEF LoopInv, LoopTypes, Kinds
<1>8. RevisionInv'
  BY <1>1, <1>2, <1>3, <1>4, <1>7 DEF LoopInv, RevisionInv
<1> QED BY <1>5, <1>6, <1>8 DEF LoopInv

LEMMA RestartKeeps ==
    ASSUME LoopInv, Restart
    PROVE  LoopInv' /\ adapter'.conf = adapter.conf
<1>1. PICK o \in IF saved = {} THEN {[conf |-> InitialConf, fields |-> InitialFields]} ELSE saved :
         /\ adapter' = Started(o.conf, o.fields \union InitialFields).adapter
         /\ SetPublished(Started(o.conf, o.fields \union InitialFields).s)
  BY DEF Restart
<1>2. PICK fields : fields = o.fields \union InitialFields
  OBVIOUS
<1>3. PICK new : new = Started(o.conf, fields)
  OBVIOUS
<1>4. adapter' = new.adapter /\ pub' = new.s.p /\ out' = new.s.out
  BY <1>1, <1>2, <1>3, SetFacts
<1>5. UNCHANGED <<mode, graph, cse, inbox, saved>>
  BY DEF Restart
<1>6. IsSpec(o.conf) /\ o.conf = adapter.conf
  <2>1. CASE saved = {}
    <3>1. o.conf = InitialConf
      BY <1>1, <2>1
    <3>2. adapter.conf = InitialConf
      BY <2>1 DEF LoopInv, SavedIsConfigured
    <3> QED BY <3>1, <3>2, SettingTypes
  <2>2. CASE saved # {}
    BY <1>1, <2>2 DEF LoopInv, LoopTypes, SavedIsConfigured
  <2> QED BY <2>1, <2>2
<1>7. saved # {} => fields = adapter.fields
  BY <1>1, <1>2 DEF LoopInv, SavedIsConfigured
<1>8. InitialFields \subseteq fields
  BY <1>2
<1>9. /\ IsAdapter(adapter') /\ Follows(adapter')
      /\ adapter'.conf = adapter.conf /\ adapter'.fields = fields
      /\ Sendable(new.s) /\ Numbered(new.s, adapter.conf)
  BY <1>3, <1>4, <1>6, <1>8, StartedFacts
<1>10. count' \in [Kinds -> Nat] /\ count'["restarts"] = count["restarts"] + 1
       /\ count["restarts"] \in Nat
  <2>1. count \in [Kinds -> Nat] /\ Event("restarts") /\ "restarts" \in Kinds
    BY DEF Restart, LoopInv, LoopTypes, Kinds
  <2> QED BY <2>1, CountFacts
<1>11. DOMAIN Published' = {"p", "out"} /\ Published'.p = new.s.p /\ Published'.out = new.s.out
  BY <1>4 DEF Published
<1>12. IsPublished(Published') /\ Numbered(Published', adapter'.conf)
  BY <1>9, <1>11 DEF Sendable, IsPublished, Numbered
<1>13. \A m \in Elems(out') : m.op # "mni" => IsSpec(m.body.conf)
  BY <1>4, <1>9 DEF Sendable, Sends
<1>14. LoopTypes'
  BY <1>5, <1>9, <1>10, <1>12, <1>13 DEF LoopInv, LoopTypes
<1>15. RevisionInv'
  <2>1. /\ cse'.rev \in Nat /\ cse'.born \in Nat /\ cse'.born <= count["restarts"]
        /\ \A e \in Elems(inbox') : e.kind = "policy" =>
              /\ e.born \in Nat /\ e.born <= count["restarts"]
              /\ e.base \in Nat /\ e.base < RevMax
    BY <1>5 DEF LoopInv, RevisionInv
  <2> QED BY <1>10, <1>12, <2>1 DEF RevisionInv
<1>16. SavedIsConfigured'
  BY <1>5, <1>7, <1>9 DEF LoopInv, SavedIsConfigured
<1>17. Follows(adapter)'
  BY <1>5, <1>9 DEF Follows
<1> QED BY <1>9, <1>14, <1>15, <1>16, <1>17 DEF LoopInv

LEMMA LoopNext ==
    ASSUME LoopInv, [Next]_vars
    PROVE  LoopInv'
<1>1. CASE \E works \in BOOLEAN : Poll(works) \/ Tick(works) \/ Dispatch(works)
  BY <1>1, HandlersKeep
<1>2. CASE Elapse
  BY <1>2, ElapseKeeps
<1>3. CASE \E offers \in SUBSET Offers : GraphChanges(offers)
  BY <1>3, GraphKeeps
<1>4. CASE Deliver
  BY <1>4, DeliverKeeps
<1>5. CASE \E request \in Changes : ClientUpdates(request) \/ ClientPolicy(request)
  BY <1>5, ClientKeeps
<1>6. CASE CseRecovered
  BY <1>6, RecoveredKeeps
<1>7. CASE Restart
  BY <1>7, RestartKeeps
<1>8. CASE UNCHANGED vars
  <2>1. Published' = Published
    BY <1>8 DEF vars, Published
  <2> QED BY <1>8, <2>1 DEF vars, LoopInv, LoopTypes, RevisionInv, SavedIsConfigured, Follows
<1> QED BY <1>1, <1>2, <1>3, <1>4, <1>5, <1>6, <1>7, <1>8 DEF Next

(* The records, messages, requests and counters of the control loop keep   *)
(* their shape, what is saved is configured, the subscription follows its  *)
(* peers and a revision stands for one configuration.                      *)
THEOREM QosLoop == Spec => []LoopInv
BY LoopInit, LoopNext, PTL DEF Spec

(* What the store holds is what runs: _apply_qos_candidate saves a request *)
(* when it is bound and nothing when it is refused or rolled back.         *)
THEOREM QosSaved == Spec => []SavedIsConfigured
<1>1. LoopInv => SavedIsConfigured
  BY DEF LoopInv
<1> QED BY <1>1, QosLoop, PTL

(* The subscription in force is the one the publishers last seen call for, *)
(* after every refresh, rebind and rollback of the adapter.                *)
THEOREM QosApplied == Spec => []AppliedFollowsPeers
<1>1. LoopInv => AppliedFollowsPeers
  BY DEF LoopInv, Follows, AppliedFollowsPeers
<1> QED BY <1>1, QosLoop, PTL

LEMMA GraphFacts ==
    ASSUME LoopInv
    PROVE  IsFiniteSet(graph) /\ (\A p \in graph : IsPeer(p)) /\ IsSpec(adapter.conf)
<1>1. graph \subseteq Offers /\ IsSpec(adapter.conf)
  BY DEF LoopInv, LoopTypes, IsAdapter
<1>2. IsFiniteSet(Offers) /\ \A p \in Offers : IsPeer(p)
  BY SettingTypes
<1> QED BY <1>1, <1>2, FS_Subset

LEMMA PairFacts ==
    ASSUME NEW p, NEW q
    PROVE  IsFiniteSet({p, q})
<1>1. IsFiniteSet({p} \union {q})
  BY FS_Singleton, FS_Union
<1>2. {p, q} = {p} \union {q}
  OBVIOUS
<1> QED BY <1>1, <1>2

(* What the adapter requests matches the publishers: of the graph at every *)
(* moment, and of every pair of samples.                                   *)
THEOREM QosRequests == Spec => []RequestsMatch
<1>1. ASSUME NEW p \in Peers, NEW q \in Peers, NEW spec \in Specs
      PROVE  RequestFits({p, q}, spec)
  <2>1. \A r \in {p, q} : IsPeer(r)
    BY SettingTypes
  <2>2. IsSpec(spec)
    BY SettingTypes
  <2> QED BY <2>1, <2>2, PairFacts, QosRequestFits
<1>2. LoopInv => RequestFits(graph, adapter.conf)
  BY GraphFacts, QosRequestFits
<1>3. RequestsFitSamples
  BY <1>1 DEF RequestsFitSamples
<1>4. LoopInv => RequestsMatch
  BY <1>2, <1>3 DEF RequestsMatch
<1> QED BY <1>4, QosLoop, PTL

(* What a command topic offers satisfies its subscribers and is never      *)
(* weaker than configured.                                                 *)
THEOREM QosOffers == Spec => []OffersSatisfy
<1>1. ASSUME NEW p \in Peers, NEW q \in Peers, NEW spec \in Specs
      PROVE  OfferSatisfies({p, q}, spec)
  <2>1. \A r \in {p, q} : IsPeer(r)
    BY SettingTypes
  <2>2. IsSpec(spec)
    BY SettingTypes
  <2> QED BY <2>1, <2>2, PairFacts, QosOfferSatisfies
<1>2. LoopInv => OfferSatisfies(graph, adapter.conf)
  BY GraphFacts, QosOfferSatisfies
<1>3. OffersSatisfySamples
  BY <1>1 DEF OffersSatisfySamples
<1>4. LoopInv => OffersSatisfy
  BY <1>2, <1>3 DEF OffersSatisfy
<1> QED BY <1>4, QosLoop, PTL

LEMMA DispatchAnswers ==
    ASSUME LoopInv, NEW works \in BOOLEAN, Dispatch(works),
           Head(inbox).kind = "policy", Head(inbox).born = count["restarts"],
           adapter'.conf # adapter.conf
    PROVE  Head(inbox).read = adapter.conf
<1> DEFINE e == Head(inbox)
<1>1. Policy(e, works)
  <2>1. ~ (e.kind = "update")
    OBVIOUS
  <2> QED BY <2>1 DEF Dispatch
<1>2. e.base = pub.revision
  <2> SUFFICES ASSUME e.base # pub.revision PROVE FALSE
    OBVIOUS
  <2>1. Refuse(FALSE)
    BY <1>1, Zenon DEF Policy
  <2> QED BY <2>1 DEF Refuse
<1>3. e \in Elems(inbox)
  <2>1. IsSeq(inbox) /\ inbox # <<>>
    BY DEF Dispatch, LoopInv, LoopTypes
  <2> QED BY <2>1, SeqTail
<1>4. e.base < RevMax /\ Stands(e.base, e.read, pub.revision, adapter.conf)
  BY <1>3 DEF LoopInv, RevisionInv
<1> QED BY <1>2, <1>4 DEF Stands

LEMMA OthersKeepConf ==
    ASSUME LoopInv, [Next]_vars, ~ \E works \in BOOLEAN : Dispatch(works)
    PROVE  adapter'.conf = adapter.conf
<1>1. CASE \E works \in BOOLEAN : Poll(works) \/ Tick(works)
  BY <1>1, PollKeeps, TickKeeps DEF KeepsConf
<1>2. CASE Elapse \/ (\E offers \in SUBSET Offers : GraphChanges(offers)) \/ Deliver
  BY <1>2 DEF Elapse, GraphChanges, Deliver
<1>3. CASE \E request \in Changes : ClientUpdates(request) \/ ClientPolicy(request)
  BY <1>3 DEF ClientUpdates, ClientPolicy, ipe
<1>4. CASE CseRecovered
  BY <1>4 DEF CseRecovered
<1>5. CASE Restart
  BY <1>5, RestartKeeps
<1>6. CASE UNCHANGED vars
  BY <1>6 DEF vars
<1> QED BY <1>1, <1>2, <1>3, <1>4, <1>5, <1>6 DEF Next

(* A policy that changes the configured QoS was written against the QoS it *)
(* replaces: within one run of the process baseRevision lets no accepted   *)
(* change be overwritten unseen.                                           *)
THEOREM QosNoLostUpdate == Spec => NoLostUpdate
<1>1. ASSUME LoopInv, [Next]_vars
      PROVE  [/\ inbox # <<>> /\ inbox' = Tail(inbox)
              /\ Head(inbox).kind = "policy"
              /\ Head(inbox).born = count["restarts"]
              /\ adapter'.conf # adapter.conf
              => Head(inbox).read = adapter.conf]_vars
  BY <1>1, DispatchAnswers, OthersKeepConf
<1> QED BY <1>1, QosLoop, PTL DEF Spec, NoLostUpdate
=============================================================================
