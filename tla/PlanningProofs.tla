--------------------------- MODULE PlanningProofs ---------------------------
(***************************************************************************)
(* Theorems about Planning: the collision check covers what provisioning   *)
(* creates, and a narrower pattern has no lower specificity.               *)
(***************************************************************************)
EXTENDS Planning, FiniteSetTheorems, WellFoundedInduction, TLAPS

(***************************************************************************)
(* Collisions.  Whatever a spec owns is claimed or one of its channels.    *)
(***************************************************************************)

\* A branch with channels is one without them, and channels.
LEMMA AtChannels ==
    ASSUME NEW s, NEW branch \in {"topics/command", "services", "actions"},
           NEW children \in SUBSET Channels
    PROVE  At(s, branch, {"qos"} \cup children)
               \subseteq At(s, branch, {"qos"}) \cup ChannelsOf(s)
<1> DEFINE root == <<s.key[2], branch>> \o s.rel
           child(c) == <<s.key[2], branch>> \o s.rel \o << <<c>> >>
<1>1. \A c \in children : child(c) \in ChannelsOf(s)
  <2> DEFINE channel(b, c) == <<s.key[2], b>> \o s.rel \o << <<c>> >>
  <2>1. ChannelsOf(s) =
            {channel(b, c) : b \in {"topics/command", "services", "actions"}, c \in Channels}
    BY DEF ChannelsOf
  <2>2. \A c \in children : child(c) = channel(branch, c)
    OBVIOUS
  <2> HIDE DEF child, channel
  <2> QED BY <2>1, <2>2
<1>2. \A C : At(s, branch, C) = {root} \cup {child(c) : c \in C}
  BY DEF At
<1> HIDE DEF root, child
<1> QED BY <1>1, <1>2

LEMMA Claimed ==
    ASSUME NEW s
    PROVE  Owned(s) \subseteq Claims(s) \cup ChannelsOf(s)
<1>1. Observes(s) =>
          At(s, "topics/observe", {"qos"} \cup (IF s.rep = "both" THEN {"last", "hist"} ELSE {}))
              \subseteq Claims(s)
  BY DEF Claims, At
<1>2. Commands(s) =>
          At(s, "topics/command", {"qos"} \cup {"ipeSub"}) \subseteq Claims(s) \cup ChannelsOf(s)
  <2>1. Commands(s) => At(s, "topics/command", {"qos"}) \subseteq Claims(s)
    BY DEF Claims
  <2> QED BY <2>1, AtChannels DEF Channels
<1>3. KindOf(s) = "services" =>
          At(s, "services", {"qos"} \cup {"request", "response"})
              \subseteq Claims(s) \cup ChannelsOf(s)
  <2>1. KindOf(s) = "services" => At(s, "services", {"qos"}) \subseteq Claims(s)
    BY DEF Claims
  <2> QED BY <2>1, AtChannels DEF Channels
<1>4. KindOf(s) = "actions" =>
          At(s, "actions", {"qos"} \cup {"goal", "feedback", "result", "cancel", "actionStatus"})
              \subseteq Claims(s) \cup ChannelsOf(s)
  <2>1. KindOf(s) = "actions" => At(s, "actions", {"qos"}) \subseteq Claims(s)
    BY DEF Claims
  <2> QED BY <2>1, AtChannels DEF Channels
<1>5. /\ {"qos", "ipeSub"} = {"qos"} \cup {"ipeSub"}
      /\ {"qos", "request", "response"} = {"qos"} \cup {"request", "response"}
      /\ {"qos", "goal", "feedback", "result", "cancel", "actionStatus"} =
             {"qos"} \cup {"goal", "feedback", "result", "cancel", "actionStatus"}
  OBVIOUS
<1> QED BY <1>1, <1>2, <1>3, <1>4, <1>5 DEF Owned

\* Whatever the rules, the graph and the robots, no two interfaces that a
\* resolution returns own one resource, their channels apart.
THEOREM PlanningApart == Spec => []ResourcesApart
<1>1. Apart(Resolved.specs)
  BY DEF Resolved, Checked, Failed, Apart
<1>2. ResourcesApart
  BY <1>1, Claimed DEF ResourcesApart, Apart
<1> QED BY <1>2, PTL
-----------------------------------------------------------------------------
(***************************************************************************)
(* Specificity.  A narrower pattern has every literal of a wider one, at   *)
(* the place where the wider one would look for it; so it has no fewer.    *)
(***************************************************************************)

Literals(p) == {k \in DOMAIN p : p[k] \notin Wild}

\* The place of the "**" of p, or the place after its end.
StarAt(p, d) == /\ d \in 1 .. Len(p) + 1
                /\ \A k \in DOMAIN p : p[k] = "**" <=> k = d

LEMMA StarPlace ==
    ASSUME NEW T, NEW p \in Seq(T), AtMostOneStar(p)
    PROVE  \E d : StarAt(p, d)
<1>1. CASE \E d \in DOMAIN p : p[d] = "**"
  <2>1. PICK d \in DOMAIN p : p[d] = "**"
    BY <1>1
  <2>2. \A k \in DOMAIN p : p[k] = "**" <=> k = d
    BY <2>1 DEF AtMostOneStar
  <2>3. StarAt(p, d)
    BY <2>2 DEF StarAt
  <2> QED BY <2>3
<1>2. CASE ~\E d \in DOMAIN p : p[d] = "**"
  <2>1. StarAt(p, Len(p) + 1)
    BY <1>2 DEF StarAt
  <2> QED BY <2>1
<1> QED BY <1>1, <1>2

\* Where a pattern looks for its token k in a sequence of length l.
PlaceIn(p, d, l, k) == IF k > d THEN l - Len(p) + k ELSE k

LEMMA PlaceByStar ==
    ASSUME NEW T, NEW p \in Seq(T), NEW d, StarAt(p, d), NEW n, NEW k \in DOMAIN p
    PROVE  Place(p, n, k) = PlaceIn(p, d, Len(n), k)
<1>1. d \in Int /\ Len(p) \in Nat /\ k \in 1 .. Len(p)
  BY DEF StarAt
<1>2. \A j \in 1 .. k - 1 : p[j] = "**" <=> j = d
  BY <1>1 DEF StarAt
<1>3. (\E j \in 1 .. k - 1 : p[j] = "**") <=> k > d
  BY <1>1, <1>2 DEF StarAt
<1> QED BY <1>3 DEF Place, PlaceIn

\* The specificity is twice the number of literals, less one for a "**".
LEMMA SpecificityByLiterals ==
    ASSUME NEW T, NEW p \in Seq(T), NEW d, StarAt(p, d)
    PROVE  /\ IsFiniteSet(Literals(p)) /\ Cardinality(Literals(p)) \in Nat
           /\ Specificity(p) = 2 * Cardinality(Literals(p)) - (IF d \in DOMAIN p THEN 1 ELSE 0)
<1> DEFINE L == Literals(p)
           S == {k \in DOMAIN p : p[k] \in Single}
           D == {k \in DOMAIN p : p[k] = "**"}
<1>1. Len(p) \in Nat /\ \A k : k \in DOMAIN p <=> k \in 1 .. Len(p)
  OBVIOUS
<1>2. IsFiniteSet(1 .. Len(p)) /\ Cardinality(1 .. Len(p)) = Len(p)
  <2>1. \A m \in Nat : IsFiniteSet(1 .. m) /\ Cardinality(1 .. m) = m
    BY FS_Interval
  <2> QED BY <1>1, <2>1
<1>3. IsFiniteSet(L) /\ IsFiniteSet(S) /\ IsFiniteSet(D)
  <2>1. L \in SUBSET (1 .. Len(p)) /\ S \in SUBSET (1 .. Len(p)) /\ D \in SUBSET (1 .. Len(p))
    BY <1>1 DEF Literals
  <2> HIDE DEF L, S, D
  <2> QED BY <1>2, <2>1, FS_Subset
<1>4. L \cup S \cup D = 1 .. Len(p) /\ L \cap S = {} /\ (L \cup S) \cap D = {}
  <2>1. \A t : /\ t \notin Wild \/ t \in Single \/ t = "**"
               /\ t \in Single => t \in Wild /\ t # "**"
               /\ t = "**" => t \in Wild
    BY DEF Wild, Single
  <2>2. /\ \A k : k \in L <=> k \in DOMAIN p /\ p[k] \notin Wild
        /\ \A k : k \in S <=> k \in DOMAIN p /\ p[k] \in Single
        /\ \A k : k \in D <=> k \in DOMAIN p /\ p[k] = "**"
    BY DEF Literals
  <2> HIDE DEF L, S, D
  <2> QED BY <1>1, <2>1, <2>2
<1>5. Cardinality(D) = IF d \in DOMAIN p THEN 1 ELSE 0
  <2>1. D = IF d \in DOMAIN p THEN {d} ELSE {}
    BY DEF StarAt
  <2> QED BY <2>1, FS_Singleton, FS_EmptySet
<1>6. /\ Cardinality(L) \in Nat /\ Cardinality(S) \in Nat /\ Cardinality(D) \in Nat
  BY <1>3, FS_CardinalityType
<1>7. Cardinality(L \cup S) = Cardinality(L) + Cardinality(S)
  <2>1. Cardinality(L \cap S) = 0
    BY <1>4, FS_EmptySet
  <2>2. Cardinality(L \cup S) = Cardinality(L) + Cardinality(S) - Cardinality(L \cap S)
    BY <1>3, FS_Union
  <2> QED BY <1>6, <2>1, <2>2
<1>8. Len(p) = Cardinality(L) + Cardinality(S) + Cardinality(D)
  <2>1. Cardinality((L \cup S) \cap D) = 0
    BY <1>4, FS_EmptySet
  <2>2. IsFiniteSet(L \cup S)
    BY <1>3, FS_Union
  <2>3. Cardinality((L \cup S) \cup D) =
            Cardinality(L \cup S) + Cardinality(D) - Cardinality((L \cup S) \cap D)
    BY <1>3, <2>2, FS_Union
  <2>4. Cardinality((L \cup S) \cup D) = Len(p)
    BY <1>2, <1>4, Zenon
  <2> DEFINE all == Cardinality((L \cup S) \cup D)
             both == Cardinality((L \cup S) \cap D)
             union == Cardinality(L \cup S)
  <2>5. all = Len(p) /\ both = 0 /\ all = union + Cardinality(D) - both
        /\ union = Cardinality(L) + Cardinality(S)
    BY <1>7, <2>1, <2>3, <2>4
  <2> HIDE DEF L, S, D, all, both, union
  <2> QED BY <1>6, <2>5
<1>9. Specificity(p) = Len(p) + Cardinality(L) - Cardinality(S) - 2 * Cardinality(D)
  BY DEF Specificity, Literals
<1> HIDE DEF L, S, D
<1>10. Specificity(p) = 2 * Cardinality(L) - Cardinality(D)
  BY <1>6, <1>8, <1>9
<1> QED BY <1>3, <1>5, <1>6, <1>10 DEF L

\* A name that p selects: its literals, and the letter x everywhere else.
Letter(t, x) == IF t \in Wild THEN x ELSE t
NameOf(p, d, l, x) ==
    [i \in 1 .. l |-> IF i < d THEN Letter(p[i], x)
                      ELSE IF i <= l - Len(p) + d THEN x
                      ELSE Letter(p[i - (l - Len(p))], x)]

LEMMA NameSelected ==
    ASSUME NEW Letters, NEW x \in Letters, NEW p \in Seq(Letters \cup Wild),
           NEW d, StarAt(p, d), NEW l \in Nat, Len(p) <= l,
           d = Len(p) + 1 => l = Len(p)
    PROVE  /\ NameOf(p, d, l, x) \in Seq(Letters)
           /\ Len(NameOf(p, d, l, x)) = l
           /\ Matches(p, NameOf(p, d, l, x))
<1> DEFINE n == NameOf(p, d, l, x)
<1>a. d \in 1 .. Len(p) + 1 /\ Len(p) \in Nat
  BY DEF StarAt
<1>b. \A i \in 1 .. Len(p) : Letter(p[i], x) \in Letters
  BY <1>a DEF Letter
<1>1. /\ \A i \in 1 .. l : i < d => i \in 1 .. Len(p)
      /\ \A i \in 1 .. l : i > l - Len(p) + d => i - (l - Len(p)) \in 1 .. Len(p)
  BY <1>a
<1>2. n \in [1 .. l -> Letters]
  <2>1. ASSUME NEW i \in 1 .. l
        PROVE  (IF i < d THEN Letter(p[i], x)
                ELSE IF i <= l - Len(p) + d THEN x
                ELSE Letter(p[i - (l - Len(p))], x)) \in Letters
    BY <1>a, <1>b, <1>1
  <2> QED BY <2>1 DEF NameOf
<1>3. n \in Seq(Letters) /\ Len(n) = l /\ DOMAIN n = 1 .. l
  <2>1. \A f \in [1 .. l -> Letters] :
            f \in Seq(Letters) /\ Len(f) = l /\ DOMAIN f = 1 .. l
    OBVIOUS
  <2> HIDE DEF n
  <2> QED BY <1>2, <2>1
<1>4. ASSUME NEW k \in DOMAIN p PROVE p[k] \in Wild \/ p[k] = n[Place(p, n, k)]
  <2>1. Place(p, n, k) = IF k > d THEN l - Len(p) + k ELSE k
    <3>1. Place(p, n, k) = PlaceIn(p, d, Len(n), k)
      <4> HIDE DEF n
      <4> QED BY PlaceByStar
    <3> QED BY <1>3, <3>1 DEF PlaceIn
  <2>2. CASE k < d
    BY <1>a, <2>1, <2>2 DEF NameOf, Letter
  <2>3. CASE k = d
    BY <2>3 DEF StarAt, Wild
  <2>4. CASE k > d
    <3>1. /\ l - Len(p) + k \in 1 .. l /\ ~(l - Len(p) + k < d)
          /\ ~(l - Len(p) + k <= l - Len(p) + d)
          /\ (l - Len(p) + k) - (l - Len(p)) = k
      BY <1>a, <2>4
    <3> QED BY <2>1, <2>4, <3>1 DEF NameOf, Letter
  <2> QED BY <1>a, <2>2, <2>3, <2>4
<1>5. IF Contains(p, "**") THEN Len(n) >= Len(p) ELSE Len(n) = Len(p)
  BY <1>a, <1>3 DEF Contains, StarAt
<1> QED BY <1>3, <1>4, <1>5 DEF Matches

\* The names that p selects and that are as long as p, or longer by one.
Selected(Letters, p) ==
    {n \in Seq(Letters) : Len(n) \in {Len(p), Len(p) + 1} /\ Matches(p, n)}

\* Two names that p selects differ where p has no literal, so q has none there.
LEMMA Forced ==
    ASSUME NEW Letters, NEW a \in Letters, NEW b \in Letters, a # b,
           NEW p \in Seq(Letters \cup Wild), NEW q \in Seq(Letters \cup Wild),
           NEW d, StarAt(p, d), NEW e, StarAt(q, e),
           \A n \in Selected(Letters, p) : Matches(q, n)
    PROVE  /\ Len(q) <= Len(p)
           /\ d \in DOMAIN p => e \in DOMAIN q
           /\ \A k \in Literals(q) : PlaceIn(q, e, Len(p), k) \in Literals(p)
<1>a. /\ d \in 1 .. Len(p) + 1 /\ e \in 1 .. Len(q) + 1
      /\ Len(p) \in Nat /\ Len(q) \in Nat
      /\ d \in DOMAIN p <=> d # Len(p) + 1
      /\ e \in DOMAIN q <=> e # Len(q) + 1
  BY DEF StarAt
<1>b. Contains(q, "**") <=> e \in DOMAIN q
  <2>1. \A k \in DOMAIN q : q[k] = "**" <=> k = e
    BY DEF StarAt
  <2> QED BY <2>1 DEF Contains
<1>1. ASSUME NEW x \in Letters, NEW m \in {Len(p), Len(p) + 1}, d = Len(p) + 1 => m = Len(p)
      PROVE  /\ Len(NameOf(p, d, m, x)) = m
             /\ Matches(q, NameOf(p, d, m, x))
  <2>1. m \in Nat /\ Len(p) <= m
    BY <1>a
  <2>2. /\ NameOf(p, d, m, x) \in Seq(Letters)
        /\ Len(NameOf(p, d, m, x)) = m
        /\ Matches(p, NameOf(p, d, m, x))
    BY <1>1, <2>1, NameSelected, Zenon
  <2>3. NameOf(p, d, m, x) \in Selected(Letters, p)
    BY <2>2 DEF Selected
  <2> QED BY <2>2, <2>3, Zenon
<1>2. Len(q) <= Len(p)
  <2>1. /\ Len(NameOf(p, d, Len(p), a)) = Len(p)
        /\ Matches(q, NameOf(p, d, Len(p), a))
    BY <1>1
  <2> QED BY <1>a, <2>1 DEF Matches
<1>3. d \in DOMAIN p => e \in DOMAIN q
  <2> SUFFICES ASSUME d \in DOMAIN p PROVE e \in DOMAIN q
    OBVIOUS
  <2> DEFINE l == Len(p) + 1
  <2>1. l \in {Len(p), Len(p) + 1} /\ ~(d = Len(p) + 1) /\ Len(q) < l
    BY <1>a, <1>2
  <2>2. Len(NameOf(p, d, l, a)) = l /\ Matches(q, NameOf(p, d, l, a))
    BY <1>1, <2>1
  <2>3. Contains(q, "**") \/ l = Len(q)
    BY <2>2 DEF Matches
  <2> QED BY <1>a, <1>b, <2>1, <2>3
<1>4. ASSUME NEW k \in Literals(q) PROVE PlaceIn(q, e, Len(p), k) \in Literals(p)
  <2> DEFINE l == Len(p)
             i == PlaceIn(q, e, l, k)
             name(x) == NameOf(p, d, l, x)
  <2>1. k \in 1 .. Len(q) /\ k \in DOMAIN q /\ q[k] \notin Wild
    BY <1>a, <1>4 DEF Literals
  <2>2. i \in 1 .. Len(p)
    BY <1>a, <1>2, <2>1 DEF PlaceIn
  <2>3. ASSUME NEW x \in Letters PROVE name(x)[i] = q[k]
    <3>1. Len(name(x)) = l /\ Matches(q, name(x))
      BY <1>1
    <3>2. q[k] = name(x)[Place(q, name(x), k)]
      BY <2>1, <3>1 DEF Matches
    <3>3. Place(q, name(x), k) = PlaceIn(q, e, Len(name(x)), k)
      <4> HIDE DEF name
      <4> QED BY <2>1, PlaceByStar
    <3> QED BY <3>1, <3>2, <3>3
  <2>4. ASSUME NEW x \in Letters
        PROVE  q[k] = IF i < d THEN Letter(p[i], x)
                      ELSE IF i <= l - Len(p) + d THEN x
                      ELSE Letter(p[i - (l - Len(p))], x)
    <3>1. name(x)[i] = IF i < d THEN Letter(p[i], x)
                       ELSE IF i <= l - Len(p) + d THEN x
                       ELSE Letter(p[i - (l - Len(p))], x)
      <4> HIDE DEF i
      <4> QED BY <2>2 DEF NameOf
    <3> QED BY <2>3, <3>1
  <2>5. ASSUME NEW x \in Letters PROVE q[k] = IF i = d THEN x ELSE Letter(p[i], x)
    <3> HIDE DEF i
    <3>1. i \in Int /\ d \in Int /\ l - Len(p) = 0 /\ i - 0 = i /\ 0 + d = d
      BY <1>a, <2>2
    <3> QED BY <2>4, <3>1
  <2>6. i # d /\ p[i] \notin Wild
    BY <2>5 DEF Letter
  <2> QED BY <2>2, <2>6 DEF Literals
<1> QED BY <1>2, <1>3, <1>4

\* A pattern that selects only what another selects has no lower specificity.
LEMMA SpecificityOfNarrower ==
    ASSUME NEW Letters, NEW a \in Letters, NEW b \in Letters, a # b,
           NEW p \in Seq(Letters \cup Wild), AtMostOneStar(p),
           NEW q \in Seq(Letters \cup Wild), AtMostOneStar(q),
           \A n \in Selected(Letters, p) : Matches(q, n)
    PROVE  Specificity(q) <= Specificity(p) /\ Specificity(p) \in Int /\ Specificity(q) \in Int
<1>1. PICK d : StarAt(p, d)
  BY StarPlace
<1>2. PICK e : StarAt(q, e)
  BY StarPlace
<1>3. /\ Len(q) <= Len(p) /\ (d \in DOMAIN p => e \in DOMAIN q)
      /\ \A k \in Literals(q) : PlaceIn(q, e, Len(p), k) \in Literals(p)
  BY <1>1, <1>2, Forced
<1>4. /\ IsFiniteSet(Literals(p)) /\ Cardinality(Literals(p)) \in Nat
      /\ Specificity(p) = 2 * Cardinality(Literals(p)) - (IF d \in DOMAIN p THEN 1 ELSE 0)
  BY <1>1, SpecificityByLiterals
<1>5. /\ IsFiniteSet(Literals(q)) /\ Cardinality(Literals(q)) \in Nat
      /\ Specificity(q) = 2 * Cardinality(Literals(q)) - (IF e \in DOMAIN q THEN 1 ELSE 0)
  BY <1>2, SpecificityByLiterals
<1>6. Cardinality(Literals(q)) <= Cardinality(Literals(p))
  <2> DEFINE f == [k \in Literals(q) |-> PlaceIn(q, e, Len(p), k)]
  <2>1. ASSUME NEW j \in Literals(q), NEW k \in Literals(q), f[j] = f[k] PROVE j = k
    <3>1. j \in Int /\ k \in Int /\ e \in Int /\ Len(p) \in Nat /\ Len(q) \in Nat
      BY <1>2 DEF Literals, StarAt
    <3>2. PlaceIn(q, e, Len(p), j) = PlaceIn(q, e, Len(p), k)
      BY <2>1
    <3> QED BY <1>3, <3>1, <3>2 DEF PlaceIn
  <2>2. f \in Injection(Literals(q), Literals(p))
    BY <1>3, <2>1 DEF Injection, IsInjective
  <2> HIDE DEF f
  <2> QED BY <1>4, <2>2, FS_Injection
<1> QED BY <1>3, <1>4, <1>5, <1>6

\* The rules of a behaviour are one of the configurations.
LEMMA RulesFixed == Spec => [](rules \in RuleSets)
<1>1. Init => rules \in RuleSets
  BY DEF Init
<1>2. rules \in RuleSets /\ [Next]_vars => (rules \in RuleSets)'
  BY DEF Next, vars, Appear, Vanish, Refresh, RefreshFails
<1> QED BY <1>1, <1>2, PTL DEF Spec

\* "The most specific match" is one: a rule whose pattern selects fewer names
\* than another's has no lower rank, for names over any alphabet of two
\* segments or more and patterns of any length.
THEOREM PlanningNarrower == Spec => []NarrowerIsNotLower
<1>1. ASSUME rules \in RuleSets PROVE NarrowerIsNotLower
  <2> SUFFICES ASSUME NEW kind \in Kinds,
                      NEW j \in {i \in DOMAIN rules[kind] : "match" \in DOMAIN rules[kind][i]},
                      NEW k \in {i \in DOMAIN rules[kind] : "match" \in DOMAIN rules[kind][i]},
                      \A n \in Names : Selects(rules[kind][j], n) => Selects(rules[kind][k], n)
               PROVE  Rank(rules[kind][j]) >= Rank(rules[kind][k])
    BY DEF NarrowerIsNotLower
  <2> DEFINE p == rules[kind][j].match
             q == rules[kind][k].match
  <2>1. /\ "name" \notin DOMAIN rules[kind][j] /\ "name" \notin DOMAIN rules[kind][k]
        /\ p \in Patterns(rules[kind]) /\ q \in Patterns(rules[kind])
    BY <1>1, RuleTypes DEF Patterns
  <2>2. /\ p \in Seq(Segments \cup Wild) /\ AtMostOneStar(p) /\ Len(p) \in 1 .. MaxPattern
        /\ q \in Seq(Segments \cup Wild) /\ AtMostOneStar(q)
    BY <1>1, <2>1, RuleTypes
  <2>3. PICK a, b \in Segments : a # b
    BY SegmentTypes
  <2>4. ASSUME NEW n \in Selected(Segments, p) PROVE Matches(q, n)
    <3>1. n \in Seq(Segments) /\ Len(n) \in 1 .. MaxPattern + 1 /\ Matches(p, n)
      BY <2>2, <2>4, SegmentTypes DEF Selected
    <3>2. n \in [1 .. Len(n) -> Segments]
      BY <3>1
    <3>3. n \in Names
      BY <3>1, <3>2 DEF Names
    <3> QED BY <2>1, <3>1, <3>3 DEF Selects
  <2>5. Specificity(q) <= Specificity(p) /\ Specificity(p) \in Int /\ Specificity(q) \in Int
    <3> HIDE DEF p, q
    <3> QED BY <2>2, <2>3, <2>4, SpecificityOfNarrower
  <2> QED BY <2>1, <2>5 DEF Rank
<1> QED BY <1>1, RulesFixed, PTL
-----------------------------------------------------------------------------
(***************************************************************************)
(* Merging.  The rules are merged along an order that exists; and whatever *)
(* their number, the result keeps the leaves that survive, by induction on *)
(* the number of merged rules: a least number that fails is none.          *)
(***************************************************************************)

LEMMA Least ==
    ASSUME NEW S, S \subseteq Nat, S # {}
    PROVE  \E m \in S : \A n \in S : m <= n
<1> DEFINE R == {ss \in Nat \X Nat : ss[1] < ss[2]}
<1>1. IsWellFoundedOn(R, Nat)
  BY NatLessThanWellFounded DEF OpToRel
<1>2. \A m, n \in Nat : n < m => <<n, m>> \in R
  OBVIOUS
<1> HIDE DEF R
<1>3. PICK m \in S : \A n \in S : ~ (<<n, m>> \in R)
  BY <1>1, WFMin
<1>4. ASSUME NEW n \in S PROVE m <= n
  <2>1. m \in Nat /\ n \in Nat /\ ~ (n < m)
    BY <1>2, <1>3, <1>4
  <2> QED BY <2>1
<1> QED BY <1>3, <1>4

\* Rules of one kind whose ranks are numbers.
AreRules(rs) == rs \in Seq(Range(rs)) /\ \A k \in DOMAIN rs : Rank(rs[k]) \in Int

\* The rules that select n, the least preferred first.
LEMMA OrderedRules ==
    ASSUME NEW rs, AreRules(rs), NEW n, NEW S, S = Selecting(rs, n),
           NEW c, c = Cardinality(S), NEW s, s = Ordered(rs, n)
    PROVE  /\ c \in Nat /\ s \in [1 .. c -> S]
           /\ \A i, j \in 1 .. c : i < j => Before(rs, s[i], s[j])
           /\ \A k \in S : \E i \in 1 .. c : s[i] = k
<1> DEFINE B(k) == {j \in S : Before(rs, j, k)}
           r(k) == Cardinality(B(k))
<1>1. /\ \A k \in S : k \in Nat /\ Rank(rs[k]) \in Int
      /\ S \subseteq 1 .. Len(rs) /\ Len(rs) \in Nat
  BY DEF AreRules, Selecting
<1>2. IsFiniteSet(S) /\ c \in Nat
  <2>1. IsFiniteSet(1 .. Len(rs))
    BY <1>1, FS_Interval
  <2> QED BY <1>1, <2>1, FS_Subset, FS_CardinalityType
<1>3. /\ \A j \in S : ~Before(rs, j, j)
      /\ \A i, j, k \in S : Before(rs, i, j) /\ Before(rs, j, k) => Before(rs, i, k)
      /\ \A j, k \in S : j = k \/ Before(rs, j, k) \/ Before(rs, k, j)
  BY <1>1 DEF Before
<1>4. ASSUME NEW k \in S PROVE r(k) \in Nat /\ r(k) + 1 \in 1 .. c /\ IsFiniteSet(B(k))
  <2>1. B(k) \in SUBSET S /\ k \notin B(k)
    BY <1>3
  <2> HIDE DEF B
  <2>2. IsFiniteSet(B(k)) /\ r(k) \in Nat /\ r(k) <= c /\ r(k) # c
    BY <1>2, <2>1, FS_Subset, FS_CardinalityType
  <2> HIDE DEF r
  <2> QED BY <1>2, <2>2
<1>5. ASSUME NEW j \in S, NEW k \in S, Before(rs, j, k) PROVE r(j) < r(k)
  <2>1. B(j) \in SUBSET B(k) /\ j \in B(k) /\ j \notin B(j)
    BY <1>3, <1>5
  <2>2. IsFiniteSet(B(k)) /\ r(j) \in Nat /\ r(k) \in Nat
    BY <1>4
  <2> HIDE DEF B
  <2>3. r(j) <= r(k) /\ r(j) # r(k)
    BY <2>1, <2>2, FS_Subset
  <2> HIDE DEF r
  <2> QED BY <2>2, <2>3
<1>6. ASSUME NEW i \in 1 .. c PROVE \E k \in S : r(k) = i - 1
  <2> DEFINE f == [k \in S |-> r(k) + 1]
  <2>1. f \in [S -> 1 .. c]
    BY <1>4
  <2>2. \A j, k \in S : f[j] = f[k] => j = k
    <3>1. ASSUME NEW j \in S, NEW k \in S, j # k PROVE r(j) # r(k)
      <4>1. r(j) < r(k) \/ r(k) < r(j)
        BY <1>3, <1>5, <3>1
      <4>2. r(j) \in Nat /\ r(k) \in Nat
        BY <1>4
      <4> HIDE DEF r
      <4> QED BY <4>1, <4>2
    <3>2. \A k \in S : r(k) \in Nat
      BY <1>4
    <3> HIDE DEF r
    <3> QED BY <3>1, <3>2
  <2>3. f \in Injection(S, 1 .. c)
    <3> HIDE DEF f
    <3> QED BY <2>1, <2>2 DEF Injection, IsInjective
  <2>4. IsFiniteSet(1 .. c) /\ Cardinality(1 .. c) = c
    BY <1>2, FS_Interval
  <2>5. f \in Surjection(S, 1 .. c)
    <3> HIDE DEF f
    <3> QED BY <2>3, <2>4, FS_Injection
  <2>6. PICK k \in S : f[k] = i
    <3> HIDE DEF f
    <3> QED BY <2>5 DEF Surjection
  <2>7. r(k) \in Nat /\ r(k) + 1 = i
    BY <1>4, <2>6
  <2> HIDE DEF r
  <2> QED BY <2>7
<1>7. s = [i \in 1 .. c |-> CHOOSE k \in S : r(k) = i - 1]
  BY DEF Ordered
<1> HIDE DEF r
<1>8. \A i \in 1 .. c : s[i] \in S /\ r(s[i]) = i - 1
  BY <1>6, <1>7
<1>9. s \in [1 .. c -> S]
  BY <1>7, <1>8
<1>10. ASSUME NEW i \in 1 .. c, NEW j \in 1 .. c, i < j PROVE Before(rs, s[i], s[j])
  <2>1. s[i] \in S /\ s[j] \in S /\ r(s[i]) = i - 1 /\ r(s[j]) = j - 1
    BY <1>8
  <2>2. ~Before(rs, s[j], s[i]) /\ s[i] # s[j]
    BY <1>2, <1>5, <1>10, <2>1
  <2> QED BY <1>3, <2>1, <2>2
<1>11. ASSUME NEW k \in S PROVE \E i \in 1 .. c : s[i] = k
  <2>1. r(k) + 1 \in 1 .. c /\ r(k) \in Nat
    BY <1>4
  <2>2. s[r(k) + 1] \in S /\ r(s[r(k) + 1]) = r(k)
    BY <1>8, <2>1
  <2>3. s[r(k) + 1] = k
    BY <1>3, <1>5, <2>1, <2>2
  <2> QED BY <2>1, <2>3
<1> QED BY <1>2, <1>9, <1>10, <1>11

\* The recursion of MergeRules: what it has merged after each rule.
LEMMA MergeSteps ==
    ASSUME NEW rs, NEW n, NEW c \in Nat, NEW s, s = Ordered(rs, n), Len(s) = c
    PROVE  \E M : /\ M[0] = <<>>
                  /\ \A i \in 1 .. c : M[i] = DeepMerge(M[i - 1], rs[s[i]].fields)
                  /\ MergeRules(rs, n) = M[c]
<1> DEFINE Steps(m, g) ==
               [i \in 0 .. m |-> IF i = 0 THEN <<>> ELSE DeepMerge(g[i - 1], rs[s[i]].fields)]
           Bad == {m \in 0 .. c : ~\E g : g = Steps(m, g)}
<1>1. Bad = {}
  <2> SUFFICES ASSUME Bad # {} PROVE FALSE
    OBVIOUS
  <2>1. PICK m \in Bad : \A l \in Bad : m <= l
    <3>1. Bad \subseteq Nat
      OBVIOUS
    <3> HIDE DEF Bad
    <3> QED BY <3>1, Least
  <2>2. m # 0
    <3> SUFFICES ASSUME m = 0 PROVE FALSE
      OBVIOUS
    <3> DEFINE g == [i \in 0 .. 0 |-> <<>>]
    <3>1. g = Steps(0, g)
      <4>1. \A i \in 0 .. 0 : i = 0
        OBVIOUS
      <4> QED BY <4>1
    <3> HIDE DEF g
    <3> QED BY <2>1, <3>1
  <2>3. m - 1 \in 0 .. c /\ m - 1 \notin Bad /\ m \in 1 .. c
    BY <2>1, <2>2
  <2>4. PICK g : g = Steps(m - 1, g)
    BY <2>3
  <2> DEFINE h == [i \in 0 .. m |-> IF i < m THEN g[i]
                                    ELSE DeepMerge(g[m - 1], rs[s[m]].fields)]
  <2>5. ASSUME NEW i \in 0 .. m
        PROVE  h[i] = IF i = 0 THEN <<>> ELSE DeepMerge(h[i - 1], rs[s[i]].fields)
    <3>1. CASE i = m
      BY <2>2, <2>3, <3>1
    <3>2. CASE i < m
      <4>1. i \in 0 .. m - 1 /\ (i # 0 => i - 1 \in 0 .. m)
        BY <2>3, <3>2
      <4>2. g[i] = IF i = 0 THEN <<>> ELSE DeepMerge(g[i - 1], rs[s[i]].fields)
        BY <2>4, <4>1
      <4> QED BY <2>3, <3>2, <4>1, <4>2
    <3> QED BY <2>3, <3>1, <3>2
  <2>6. h = Steps(m, h)
    <3>1. h = [i \in 0 .. m |-> h[i]]
      OBVIOUS
    <3> HIDE DEF h
    <3> QED BY <2>5, <3>1
  <2> HIDE DEF h
  <2> QED BY <2>1, <2>6
<1> DEFINE M == CHOOSE g : g = Steps(c, g)
<1>2. M = Steps(c, M)
  <2>1. c \in 0 .. c
    OBVIOUS
  <2> QED BY <1>1, <2>1
<1>3. MergeRules(rs, n) = M[c]
  BY DEF MergeRules
<1> HIDE DEF M
<1>4. \A i \in 0 .. c : M[i] = IF i = 0 THEN <<>> ELSE DeepMerge(M[i - 1], rs[s[i]].fields)
  BY <1>2
<1>5. M[0] = <<>> /\ \A i \in 1 .. c : M[i] = DeepMerge(M[i - 1], rs[s[i]].fields)
  BY <1>4
<1> QED BY <1>3, <1>5
\* One merge, leaf by leaf.
LEMMA DeepMergeFacts ==
    ASSUME NEW a, NEW b, NEW d, d = DeepMerge(a, b), NEW f
    PROVE  /\ Replaces(d, f) <=> Replaces(b, f) \/ (f \notin DOMAIN b /\ Replaces(a, f))
           /\ \A x : Gives(d, f, x) <=> Gives(b, f, x) \/ (Gives(a, f, x) /\ ~Replaces(b, f))
           /\ \A x : Gives(b, f, x) => d[f].block[x] = b[f].block[x]
           /\ \A x : Gives(a, f, x) /\ ~Replaces(b, f) /\ ~Gives(b, f, x) =>
                 d[f].block[x] = a[f].block[x]
<1>1. DOMAIN d = DOMAIN a \cup DOMAIN b
  BY DEF DeepMerge
<1>2. CASE f \notin DOMAIN b
  <2>1. f \in DOMAIN a => d[f] = a[f]
    BY <1>2 DEF DeepMerge
  <2> QED BY <1>1, <1>2, <2>1 DEF Gives, Replaces
<1>3. CASE f \in DOMAIN b /\ f \in DOMAIN a /\ IsBlock(a[f]) /\ IsBlock(b[f])
  <2>1. d[f] = [block |-> Overlay(a[f].block, b[f].block)]
    BY <1>3 DEF DeepMerge
  <2>2. IsBlock(d[f]) /\ d[f].block = Overlay(a[f].block, b[f].block)
    BY <2>1 DEF IsBlock
  <2>3. /\ DOMAIN d[f].block = DOMAIN a[f].block \cup DOMAIN b[f].block
        /\ \A x \in DOMAIN d[f].block :
              d[f].block[x] = IF x \in DOMAIN b[f].block THEN b[f].block[x] ELSE a[f].block[x]
    BY <2>2 DEF Overlay
  <2> QED BY <1>1, <1>3, <2>2, <2>3 DEF Gives, Replaces
<1>4. CASE f \in DOMAIN b /\ ~(f \in DOMAIN a /\ IsBlock(a[f]) /\ IsBlock(b[f]))
  <2>1. d[f] = b[f]
    BY <1>4 DEF DeepMerge
  <2> QED BY <1>1, <1>4, <2>1 DEF Gives, Replaces
<1> QED BY <1>2, <1>3, <1>4

\* Of the first m of a list of fields, the i-th is the last to give the leaf
\* x of f, and nothing after it replaces f; it is the last to name f at all,
\* and gives a plain value.
Tops(R, m, i, f, x) ==
    /\ Gives(R[i], f, x)
    /\ \A j \in (i + 1) .. m : ~Gives(R[j], f, x) /\ ~Replaces(R[j], f)
LastPlain(R, m, i, f) ==
    /\ Replaces(R[i], f)
    /\ \A j \in (i + 1) .. m : f \notin DOMAIN R[j]

\* What a merge of the first m has of f.
Kept(M, R, m, f) ==
    /\ Replaces(M[m], f) <=> \E i \in 1 .. m : LastPlain(R, m, i, f)
    /\ \A x : Gives(M[m], f, x) <=> \E i \in 1 .. m : Tops(R, m, i, f, x)
    /\ \A x : \A i \in 1 .. m : Tops(R, m, i, f, x) => M[m][f].block[x] = R[i][f].block[x]

LEMMA KeptByMerge ==
    ASSUME NEW m \in Nat, m # 0, NEW R, NEW M, NEW f,
           M[m] = DeepMerge(M[m - 1], R[m]), Kept(M, R, m - 1, f)
    PROVE  Kept(M, R, m, f)
<1>1. \A i \in 1 .. m : i = m \/ i \in 1 .. m - 1
  OBVIOUS
<1>2. m \in 1 .. m /\ \A i \in 1 .. m - 1 : i \in 1 .. m
  OBVIOUS
<1>3. \A j : ~(j \in (m + 1) .. m)
  OBVIOUS
<1>4. \A i \in 1 .. m - 1 : \A j : j \in (i + 1) .. m <=> j = m \/ j \in (i + 1) .. m - 1
  OBVIOUS
<1>5. \A x : Tops(R, m, m, f, x) <=> Gives(R[m], f, x)
  BY <1>3 DEF Tops
<1>6. LastPlain(R, m, m, f) <=> Replaces(R[m], f)
  BY <1>3 DEF LastPlain
<1>7. ASSUME NEW i \in 1 .. m - 1, NEW x
      PROVE  Tops(R, m, i, f, x) <=> /\ Tops(R, m - 1, i, f, x)
                                     /\ ~Gives(R[m], f, x) /\ ~Replaces(R[m], f)
  BY <1>4 DEF Tops
<1>8. ASSUME NEW i \in 1 .. m - 1
      PROVE  LastPlain(R, m, i, f) <=> LastPlain(R, m - 1, i, f) /\ f \notin DOMAIN R[m]
  BY <1>4 DEF LastPlain
<1>9. Replaces(M[m], f) <=> \E i \in 1 .. m : LastPlain(R, m, i, f)
  <2>1. Replaces(M[m], f) <=> Replaces(R[m], f) \/ (f \notin DOMAIN R[m] /\ Replaces(M[m - 1], f))
    BY DeepMergeFacts
  <2>2. Replaces(M[m - 1], f) <=> \E i \in 1 .. m - 1 : LastPlain(R, m - 1, i, f)
    BY DEF Kept
  <2> QED BY <1>1, <1>2, <1>6, <1>8, <2>1, <2>2
<1>10. ASSUME NEW x PROVE Gives(M[m], f, x) <=> \E i \in 1 .. m : Tops(R, m, i, f, x)
  <2>1. Gives(M[m], f, x) <=> Gives(R[m], f, x) \/ (Gives(M[m - 1], f, x) /\ ~Replaces(R[m], f))
    BY DeepMergeFacts
  <2>2. Gives(M[m - 1], f, x) <=> \E i \in 1 .. m - 1 : Tops(R, m - 1, i, f, x)
    BY DEF Kept
  <2> QED BY <1>1, <1>2, <1>5, <1>7, <2>1, <2>2
<1>11. ASSUME NEW x, NEW i \in 1 .. m, Tops(R, m, i, f, x)
       PROVE  M[m][f].block[x] = R[i][f].block[x]
  <2>1. CASE i = m
    BY <1>5, <1>11, <2>1, DeepMergeFacts
  <2>2. CASE i \in 1 .. m - 1
    <3>1. /\ Tops(R, m - 1, i, f, x) /\ ~Gives(R[m], f, x) /\ ~Replaces(R[m], f)
      BY <1>7, <1>11, <2>2
    <3>2. Gives(M[m - 1], f, x) /\ M[m - 1][f].block[x] = R[i][f].block[x]
      BY <2>2, <3>1 DEF Kept
    <3>3. M[m][f].block[x] = M[m - 1][f].block[x]
      BY <3>1, <3>2, DeepMergeFacts
    <3> QED BY <3>2, <3>3
  <2> QED BY <1>1, <2>1, <2>2
<1> QED BY <1>9, <1>10, <1>11 DEF Kept

LEMMA KeptByMerges ==
    ASSUME NEW c \in Nat, NEW R, NEW M, M[0] = <<>>,
           \A i \in 1 .. c : M[i] = DeepMerge(M[i - 1], R[i]), NEW f
    PROVE  Kept(M, R, c, f)
<1> DEFINE Bad == {m \in 0 .. c : ~Kept(M, R, m, f)}
<1>1. Bad = {}
  <2> SUFFICES ASSUME Bad # {} PROVE FALSE
    OBVIOUS
  <2>1. PICK m \in Bad : \A l \in Bad : m <= l
    <3>1. Bad \subseteq Nat
      OBVIOUS
    <3> HIDE DEF Bad
    <3> QED BY <3>1, Least
  <2>2. Kept(M, R, 0, f)
    <3>1. f \notin DOMAIN M[0] /\ 1 .. 0 = {}
      OBVIOUS
    <3> QED BY <3>1 DEF Kept, Gives, Replaces
  <2>3. m \in Nat /\ m # 0 /\ m - 1 \in 0 .. c /\ m - 1 \notin Bad /\ m \in 1 .. c
    BY <2>1, <2>2
  <2>4. Kept(M, R, m - 1, f)
    BY <2>3
  <2>5. Kept(M, R, m, f)
    BY <2>3, <2>4, KeptByMerge
  <2> QED BY <2>1, <2>5
<1>2. c \in 0 .. c
  OBVIOUS
<1> QED BY <1>1, <1>2
\* The rules of a configuration are lists of rules with ranks.
LEMMA ConfiguredRules ==
    ASSUME rules \in RuleSets, NEW kind \in Kinds
    PROVE  AreRules(rules[kind])
<1> DEFINE rs == rules[kind]
<1>1. ASSUME NEW k \in DOMAIN rs PROVE Rank(rs[k]) \in Int
  <2>1. CASE "name" \in DOMAIN rs[k]
    BY <2>1 DEF Rank
  <2>2. CASE "name" \notin DOMAIN rs[k]
    <3>1. rs[k].match \in Patterns(rs)
      BY <1>1, <2>2, RuleTypes DEF Patterns
    <3>2. rs[k].match \in Seq(Segments \cup Wild) /\ AtMostOneStar(rs[k].match)
      BY <3>1, RuleTypes
    <3> DEFINE p == rs[k].match
    <3> HIDE DEF p
    <3>3. PICK d : StarAt(p, d)
      BY <3>2, StarPlace DEF p
    <3>4. Specificity(rs[k].match) \in Int
      <4>1. p \in Seq(Segments \cup Wild)
        BY <3>2 DEF p
      <4>2. Specificity(p) \in Int
        BY <3>3, <4>1, SpecificityByLiterals
      <4> QED BY <4>2 DEF p
    <3> QED BY <2>2, <3>4 DEF Rank
  <2> QED BY <2>1, <2>2
<1>2. rs \in Seq(Range(rs))
  BY RuleTypes DEF IsList
<1> QED BY <1>1, <1>2 DEF AreRules

\* The defaults leave the direction open, and a topic's own direction is a
\* plain value where the rules leave it open.
LEMMA NoDefaultDirection ==
    ASSUME NEW kind, NEW fields PROVE "direction" \notin DOMAIN DefaultsOf(kind, fields)
<1> DEFINE command  == Defaults["topic_command"]
           controls == Restrict(command, DOMAIN command \cap {"access", "command"})
<1>1. /\ "direction" \notin DOMAIN Defaults["service"]
      /\ "direction" \notin DOMAIN Defaults["action"]
      /\ "direction" \notin DOMAIN Defaults["topic_observe"]
      /\ "direction" \notin DOMAIN Defaults["topic_command"]
  BY RuleTypes
<1>2. "direction" \notin DOMAIN controls
  BY DEF Restrict
<1>3. "direction" \notin DOMAIN DeepMerge(Defaults["topic_observe"], controls)
  <2> HIDE DEF controls
  <2> QED BY <1>1, <1>2 DEF DeepMerge
<1> HIDE DEF controls
<1>4. DefaultsOf(kind, fields) \in {Defaults["service"], Defaults["action"], command,
          DeepMerge(Defaults["topic_observe"], controls), Defaults["topic_observe"]}
  BY DEF DefaultsOf, controls
<1> QED BY <1>1, <1>3, <1>4

LEMMA DirectedLeaves ==
    ASSUME NEW rs, NEW k, NEW m, m = MergeRules(rs, Universe[k].name), NEW f
    PROVE  /\ \A x : Gives(Directed(rs, k), f, x) <=> Gives(m, f, x)
           /\ \A x : Gives(m, f, x) => Directed(rs, k)[f].block[x] = m[f].block[x]
           /\ f # "direction" => (Replaces(Directed(rs, k), f) <=> Replaces(m, f))
<1> DEFINE open == [direction |-> Plain(DirectionOf[k])]
<1>1. CASE Directed(rs, k) = m
  BY <1>1
<1>2. CASE "direction" \notin DOMAIN m /\ Directed(rs, k) = Overlay(m, open)
  <2>1. DOMAIN open = {"direction"} /\ ~IsBlock(open["direction"])
    BY DEF Plain, IsBlock
  <2> HIDE DEF open
  <2>2. /\ DOMAIN Directed(rs, k) = DOMAIN m \cup {"direction"}
        /\ Directed(rs, k)["direction"] = open["direction"]
        /\ f \in DOMAIN m => Directed(rs, k)[f] = m[f]
    BY <1>2, <2>1 DEF Overlay
  <2>3. CASE f = "direction"
    BY <1>2, <2>1, <2>2, <2>3 DEF Gives
  <2>4. CASE f # "direction"
    BY <2>2, <2>4 DEF Gives, Replaces
  <2> QED BY <2>3, <2>4
<1>3. Directed(rs, k) = m \/ ("direction" \notin DOMAIN m /\ Directed(rs, k) = Overlay(m, open))
  BY DEF Directed
<1> QED BY <1>1, <1>2, <1>3

(* What the code makes of it where precedence leaves it open: of two rules *)
(* of one rank the earlier one is preferred, and a leaf of the defaults is *)
(* hidden only by a rule that gives it or has the last word on the field.  *)
Preferred(rs, j, k) ==
    /\ j # 0
    /\ \/ k = 0
       \/ Rank(rs[j]) > Rank(rs[k])
       \/ Rank(rs[j]) = Rank(rs[k]) /\ j < k
Survives(rs, given, j, f, x) ==
    /\ Gives(given[j], f, x)
    /\ \A i \in DOMAIN given :
          Preferred(rs, i, j) => ~Gives(given[i], f, x) /\ ~Replaces(given[i], f)
ReplacedLast(rs, given, j, f) ==
    /\ Replaces(given[j], f)
    /\ \A i \in DOMAIN given : Preferred(rs, i, j) => f \notin DOMAIN given[i]
Decides(rs, given, j, f, x) ==
    IF j # 0 THEN Survives(rs, given, j, f, x)
    ELSE /\ Gives(given[0], f, x)
         /\ \A i \in DOMAIN given \ {0} :
               ~Survives(rs, given, i, f, x) /\ ~ReplacedLast(rs, given, i, f)

\* The order of the merge is the order of preference.
LEMMA PreferredIsLater ==
    ASSUME NEW rs, AreRules(rs), NEW n, NEW S, S = Selecting(rs, n),
           NEW c, c = Cardinality(S), NEW s, s = Ordered(rs, n)
    PROVE  \A i, j \in 1 .. c : Preferred(rs, s[j], s[i]) <=> i < j
<1>1. /\ c \in Nat /\ s \in [1 .. c -> S]
      /\ \A i, j \in 1 .. c : i < j => Before(rs, s[i], s[j])
  BY OrderedRules
<1>2. \A k \in S : k \in Nat \ {0} /\ Rank(rs[k]) \in Int
  BY DEF AreRules, Selecting
<1>3. \A i, j \in 1 .. c : Preferred(rs, s[j], s[i]) <=> Before(rs, s[i], s[j])
  BY <1>1, <1>2 DEF Preferred, Before
<1>4. ASSUME NEW i \in 1 .. c, NEW j \in 1 .. c, Before(rs, s[i], s[j]) PROVE i < j
  <2>1. ~Before(rs, s[j], s[i]) /\ s[i] # s[j]
    BY <1>1, <1>2, <1>4 DEF Before
  <2> QED BY <1>1, <2>1
<1> QED BY <1>1, <1>3, <1>4

\* The fields of the rules in an order s.
FieldsInOrder(rs, s, c) == [i \in 1 .. c |-> rs[s[i]].fields]

\* What a preference says of the rules, the order of their merge says too.
LEMMA SurvivorsAreTops ==
    ASSUME NEW rs, AreRules(rs), NEW k \in DOMAIN Universe,
           NEW S, S = Selecting(rs, Universe[k].name), NEW c, c = Cardinality(S),
           NEW s, s = Ordered(rs, Universe[k].name),
           NEW R, R = FieldsInOrder(rs, s, c),
           NEW given, given = FieldsGiven(rs, k),
           NEW i \in 1 .. c, NEW f
    PROVE  /\ given[s[i]] = R[i]
           /\ \A x : Survives(rs, given, s[i], f, x) <=> Tops(R, c, i, f, x)
           /\ ReplacedLast(rs, given, s[i], f) <=> LastPlain(R, c, i, f)
<1>1. /\ c \in Nat /\ s \in [1 .. c -> S]
      /\ \A r \in S : \E j \in 1 .. c : s[j] = r
  BY OrderedRules
<1>2. \A j, l \in 1 .. c : Preferred(rs, s[l], s[j]) <=> j < l
  BY PreferredIsLater
<1>3. \A r \in S : r # 0
  BY DEF AreRules, Selecting
<1>4. DOMAIN given = S \cup {0} /\ \A j \in 1 .. c : given[s[j]] = R[j]
  BY <1>1, <1>3 DEF FieldsGiven, FieldsInOrder
<1>5. \A j : j \in (i + 1) .. c <=> j \in 1 .. c /\ i < j
  BY <1>1
<1>6. /\ \A j \in (i + 1) .. c : s[j] \in DOMAIN given /\ Preferred(rs, s[j], s[i])
      /\ \A r \in DOMAIN given : Preferred(rs, r, s[i]) => \E j \in (i + 1) .. c : s[j] = r
  <2>1. ~Preferred(rs, 0, s[i])
    BY DEF Preferred
  <2>2. ASSUME NEW j \in (i + 1) .. c
        PROVE  s[j] \in DOMAIN given /\ Preferred(rs, s[j], s[i])
    <3>1. j \in 1 .. c /\ i < j
      BY <1>5, <2>2
    <3> QED BY <1>1, <1>2, <1>4, <3>1
  <2>3. ASSUME NEW r \in DOMAIN given, Preferred(rs, r, s[i])
        PROVE  \E j \in (i + 1) .. c : s[j] = r
    <3>1. PICK j \in 1 .. c : s[j] = r
      BY <1>1, <1>4, <2>1, <2>3
    <3>2. i < j
      BY <1>2, <2>3, <3>1
    <3> QED BY <1>5, <3>1, <3>2
  <2> QED BY <2>2, <2>3
<1>7. \A j \in (i + 1) .. c : given[s[j]] = R[j]
  BY <1>4, <1>5
<1>8. ASSUME NEW x PROVE Survives(rs, given, s[i], f, x) <=> Tops(R, c, i, f, x)
  <2>1. ASSUME Survives(rs, given, s[i], f, x)
        PROVE  \A j \in (i + 1) .. c : ~Gives(R[j], f, x) /\ ~Replaces(R[j], f)
    <3>1. TAKE j \in (i + 1) .. c
    <3>2. ~Gives(given[s[j]], f, x) /\ ~Replaces(given[s[j]], f)
      BY <1>6, <2>1 DEF Survives
    <3> QED BY <1>7, <3>2
  <2>2. ASSUME Tops(R, c, i, f, x)
        PROVE  \A r \in DOMAIN given : Preferred(rs, r, s[i]) => ~Gives(given[r], f, x) /\ ~Replaces(given[r], f)
    <3>1. TAKE r \in DOMAIN given
    <3>2. HAVE Preferred(rs, r, s[i])
    <3>3. PICK j \in (i + 1) .. c : s[j] = r
      BY <1>6, <3>2
    <3>4. given[r] = R[j]
      BY <1>7, <3>3
    <3>5. ~Gives(R[j], f, x) /\ ~Replaces(R[j], f)
      BY <2>2 DEF Tops
    <3> QED BY <3>4, <3>5
  <2>3. given[s[i]] = R[i]
    BY <1>4
  <2> QED BY <2>1, <2>2, <2>3 DEF Survives, Tops
<1>9. ReplacedLast(rs, given, s[i], f) <=> LastPlain(R, c, i, f)
  <2>1. ASSUME ReplacedLast(rs, given, s[i], f)
        PROVE  \A j \in (i + 1) .. c : f \notin DOMAIN R[j]
    <3>1. TAKE j \in (i + 1) .. c
    <3>2. f \notin DOMAIN given[s[j]]
      BY <1>6, <2>1 DEF ReplacedLast
    <3> QED BY <1>7, <3>2
  <2>2. ASSUME LastPlain(R, c, i, f)
        PROVE  \A r \in DOMAIN given : Preferred(rs, r, s[i]) => f \notin DOMAIN given[r]
    <3>1. TAKE r \in DOMAIN given
    <3>2. HAVE Preferred(rs, r, s[i])
    <3>3. PICK j \in (i + 1) .. c : s[j] = r
      BY <1>6, <3>2
    <3>4. given[r] = R[j]
      BY <1>7, <3>3
    <3>5. f \notin DOMAIN R[j]
      BY <2>2 DEF LastPlain
    <3> QED BY <3>4, <3>5
  <2>3. given[s[i]] = R[i]
    BY <1>4
  <2> QED BY <2>1, <2>2, <2>3 DEF ReplacedLast, LastPlain
<1> QED BY <1>4, <1>8, <1>9
\* The leaf x of the field f is the same in a as in b.
SameLeaf(a, b, f, x) == a[f].block[x] = b[f].block[x]

\* The leaves of one interface.
LEMMA LeavesOfInterface ==
    ASSUME rules \in RuleSets, NEW k \in DOMAIN Universe,
           NEW rs, rs = rules[Universe[k].kind],
           NEW merged, merged = FieldsOf(rs, k), NEW given, given = FieldsGiven(rs, k),
           NEW f, NEW x
    PROVE  /\ \A j \in DOMAIN given : Decides(rs, given, j, f, x) =>
                 Gives(merged, f, x) /\ SameLeaf(merged, given[j], f, x)
           /\ Gives(merged, f, x) => \E j \in DOMAIN given : Decides(rs, given, j, f, x)
<1> DEFINE S == Selecting(rs, Universe[k].name)
           c == Cardinality(S)
           s == Ordered(rs, Universe[k].name)
           R == FieldsInOrder(rs, s, c)
           rule == Directed(rs, k)
           def == DefaultsOf(Universe[k].kind, rule)
<1>0. /\ S = Selecting(rs, Universe[k].name) /\ c = Cardinality(S)
      /\ s = Ordered(rs, Universe[k].name) /\ R = FieldsInOrder(rs, s, c)
      /\ rule = Directed(rs, k) /\ def = DefaultsOf(Universe[k].kind, rule)
  OBVIOUS
<1> HIDE DEF S, c, s, R, rule, def
<1>1. AreRules(rs)
  BY ConstantTypes, ConfiguredRules
<1>2. /\ c \in Nat /\ s \in [1 .. c -> S]
      /\ \A r \in S : \E i \in 1 .. c : s[i] = r
  BY <1>0, <1>1, OrderedRules
<1>3. Len(s) = c /\ \A r \in S : r # 0
  BY <1>0, <1>1, <1>2 DEF AreRules, Selecting
<1>4. DOMAIN given = S \cup {0} /\ given[0] = def
  BY <1>0, <1>3 DEF FieldsGiven
<1>5. ASSUME NEW i \in 1 .. c
      PROVE  /\ given[s[i]] = R[i]
             /\ Survives(rs, given, s[i], f, x) <=> Tops(R, c, i, f, x)
             /\ ReplacedLast(rs, given, s[i], f) <=> LastPlain(R, c, i, f)
  <2>1. given[s[i]] = R[i]
    BY <1>0, <1>2, <1>3 DEF FieldsGiven, FieldsInOrder
  <2>2. Survives(rs, given, s[i], f, x) <=> Tops(R, c, i, f, x)
    BY <1>0, <1>1, SurvivorsAreTops
  <2>3. ReplacedLast(rs, given, s[i], f) <=> LastPlain(R, c, i, f)
    BY <1>0, <1>1, SurvivorsAreTops
  <2> QED BY <2>1, <2>2, <2>3
<1>6. PICK M : /\ M[0] = <<>>
               /\ \A i \in 1 .. c : M[i] = DeepMerge(M[i - 1], rs[s[i]].fields)
               /\ MergeRules(rs, Universe[k].name) = M[c]
  BY <1>0, <1>2, <1>3, MergeSteps
<1>7. \A i \in 1 .. c : M[i] = DeepMerge(M[i - 1], R[i])
  BY <1>0, <1>6 DEF FieldsInOrder
<1>8. merged = DeepMerge(def, rule)
  BY <1>0 DEF FieldsOf
<1>9. "direction" \notin DOMAIN def
  BY <1>0, NoDefaultDirection
<1>10. /\ Gives(rule, f, x) <=> Gives(M[c], f, x)
       /\ Gives(M[c], f, x) => rule[f].block[x] = M[c][f].block[x]
       /\ f # "direction" => (Replaces(rule, f) <=> Replaces(M[c], f))
  BY <1>0, <1>6, DirectedLeaves
<1>11. Kept(M, R, c, f)
  BY <1>2, <1>6, <1>7, KeptByMerges
<1>12. /\ Gives(merged, f, x) <=> Gives(rule, f, x) \/ (Gives(def, f, x) /\ ~Replaces(rule, f))
       /\ Gives(rule, f, x) => merged[f].block[x] = rule[f].block[x]
       /\ Gives(def, f, x) /\ ~Replaces(rule, f) /\ ~Gives(rule, f, x) =>
             merged[f].block[x] = def[f].block[x]
  <2>1. Gives(merged, f, x) <=> Gives(rule, f, x) \/ (Gives(def, f, x) /\ ~Replaces(rule, f))
    BY <1>8, DeepMergeFacts
  <2>2. Gives(rule, f, x) => merged[f].block[x] = rule[f].block[x]
    BY <1>8, DeepMergeFacts
  <2>3. Gives(def, f, x) /\ ~Replaces(rule, f) /\ ~Gives(rule, f, x) =>
            merged[f].block[x] = def[f].block[x]
    BY <1>8, DeepMergeFacts
  <2> QED BY <2>1, <2>2, <2>3
<1>13. Gives(def, f, x) => (Replaces(rule, f) <=> Replaces(M[c], f))
  BY <1>9, <1>10 DEF Gives
<1>14. Gives(rule, f, x) <=> \E i \in 1 .. c : Survives(rs, given, s[i], f, x)
  BY <1>5, <1>10, <1>11 DEF Kept
<1>15. Replaces(M[c], f) <=> \E i \in 1 .. c : ReplacedLast(rs, given, s[i], f)
  BY <1>5, <1>11 DEF Kept
<1>16. \A j \in DOMAIN given : j = 0 \/ \E i \in 1 .. c : s[i] = j
  BY <1>2, <1>4
<1>17. \A i \in 1 .. c : s[i] \in DOMAIN given \ {0}
  BY <1>2, <1>3, <1>4
<1>18. ASSUME NEW i \in 1 .. c, Survives(rs, given, s[i], f, x)
       PROVE  Gives(merged, f, x) /\ merged[f].block[x] = given[s[i]][f].block[x]
  <2>1. Tops(R, c, i, f, x)
    BY <1>5, <1>18
  <2>2. M[c][f].block[x] = R[i][f].block[x] /\ Gives(M[c], f, x)
    BY <1>11, <2>1 DEF Kept
  <2> QED BY <1>5, <1>10, <1>12, <2>2
<1>19. Decides(rs, given, 0, f, x) <=> /\ Gives(def, f, x) /\ ~Gives(rule, f, x)
                                       /\ ~Replaces(rule, f)
  <2>1. Decides(rs, given, 0, f, x) <=>
           /\ Gives(def, f, x)
           /\ \A i \in 1 .. c : /\ ~Survives(rs, given, s[i], f, x)
                                /\ ~ReplacedLast(rs, given, s[i], f)
    BY <1>4, <1>16, <1>17 DEF Decides
  <2> QED BY <1>13, <1>14, <1>15, <2>1
<1>20. \A i \in 1 .. c : Decides(rs, given, s[i], f, x) <=> Survives(rs, given, s[i], f, x)
  BY <1>17 DEF Decides
<1>21. ASSUME NEW j \in DOMAIN given, Decides(rs, given, j, f, x)
       PROVE  Gives(merged, f, x) /\ SameLeaf(merged, given[j], f, x)
  <2>1. CASE j = 0
    BY <1>4, <1>12, <1>19, <1>21, <2>1 DEF SameLeaf
  <2>2. CASE j # 0
    <3>1. PICK i \in 1 .. c : s[i] = j
      BY <1>16, <2>2
    <3> QED BY <1>18, <1>20, <1>21, <3>1 DEF SameLeaf
  <2> QED BY <2>1, <2>2
<1>22. ASSUME Gives(merged, f, x) PROVE \E j \in DOMAIN given : Decides(rs, given, j, f, x)
  <2>1. CASE Gives(rule, f, x)
    <3>1. PICK i \in 1 .. c : Survives(rs, given, s[i], f, x)
      BY <1>14, <2>1
    <3> QED BY <1>17, <1>20, <3>1
  <2>2. CASE ~Gives(rule, f, x)
    <3>1. Decides(rs, given, 0, f, x) /\ 0 \in DOMAIN given
      BY <1>4, <1>12, <1>19, <1>22, <2>2
    <3> QED BY <3>1
  <2> QED BY <2>1, <2>2
<1> QED BY <1>21, <1>22

\* Who has the last word decides, and who decides may have it.
LEMMA LastWordDecides ==
    ASSUME rules \in RuleSets, NEW k \in DOMAIN Universe,
           NEW rs, rs = rules[Universe[k].kind],
           NEW given, given = FieldsGiven(rs, k), NEW j \in DOMAIN given, NEW f, NEW x
    PROVE  /\ HasLastWord(rs, given, j, f, x) => Decides(rs, given, j, f, x)
           /\ Decides(rs, given, j, f, x) => MayHaveIt(rs, given, j, f, x)
<1>1. AreRules(rs)
  BY ConstantTypes, ConfiguredRules
<1>2. \A i \in DOMAIN given \ {0} : i \in Nat /\ Rank(rs[i]) \in Int
  BY <1>1 DEF AreRules, FieldsGiven, Selecting
<1>3. ASSUME HasLastWord(rs, given, j, f, x) PROVE Decides(rs, given, j, f, x)
  <2>1. CASE j = 0
    <3>1. \A i \in DOMAIN given \ {0} : ~Gives(given[i], f, x) /\ ~Replaces(given[i], f)
      BY <1>3, <2>1 DEF HasLastWord, Touches, Above
    <3> QED BY <1>3, <2>1, <3>1 DEF HasLastWord, Decides, Survives, ReplacedLast
  <2>2. CASE j # 0
    <3>1. ASSUME NEW i \in DOMAIN given, Preferred(rs, i, j)
          PROVE  ~Gives(given[i], f, x) /\ ~Replaces(given[i], f)
      <4>1. i # 0 /\ i # j /\ ~Above(rs, j, i)
        BY <1>2, <2>2, <3>1 DEF Preferred, Above
      <4> QED BY <1>3, <4>1 DEF HasLastWord, Touches
    <3> QED BY <1>3, <2>2, <3>1 DEF HasLastWord, Decides, Survives
  <2> QED BY <2>1, <2>2
<1>4. ASSUME Decides(rs, given, j, f, x) PROVE MayHaveIt(rs, given, j, f, x)
  <2>1. \A i \in DOMAIN given : j # 0 /\ Above(rs, i, j) => Preferred(rs, i, j)
    BY DEF Above, Preferred
  <2> QED BY <1>4, <2>1 DEF Decides, Survives, MayHaveIt, Touches
<1> QED BY <1>3, <1>4

\* What LeavesByPrecedence says of one interface.
LeavesDecided(rs, merged, given) ==
    /\ \A j \in DOMAIN given : \A f \in DOMAIN given[j] : IsBlock(given[j][f]) =>
          \A x \in DOMAIN given[j][f].block : HasLastWord(rs, given, j, f, x) =>
              Gives(merged, f, x) /\ merged[f].block[x] = given[j][f].block[x]
    /\ \A f \in DOMAIN merged : IsBlock(merged[f]) =>
          \A x \in DOMAIN merged[f].block : \E j \in DOMAIN given :
              /\ MayHaveIt(rs, given, j, f, x)
              /\ merged[f].block[x] = given[j][f].block[x]

\* "Explicit name > most specific match > defaults", leaf by leaf, whatever
\* the number of rules and the order in which they are listed.
THEOREM PlanningPrecedence == Spec => []LeavesByPrecedence
<1>1. ASSUME rules \in RuleSets, NEW k \in DOMAIN Universe,
             NEW rs, rs = rules[Universe[k].kind],
             NEW merged, merged = FieldsOf(rs, k), NEW given, given = FieldsGiven(rs, k)
      PROVE  LeavesDecided(rs, merged, given)
  <2>1. ASSUME NEW f, NEW x, NEW j \in DOMAIN given, Decides(rs, given, j, f, x)
        PROVE  Gives(merged, f, x) /\ merged[f].block[x] = given[j][f].block[x]
    <3>1. Gives(merged, f, x)
      BY <1>1, <2>1, LeavesOfInterface
    <3>2. SameLeaf(merged, given[j], f, x)
      BY <1>1, <2>1, LeavesOfInterface
    <3> QED BY <3>1, <3>2 DEF SameLeaf
  <2>2. ASSUME NEW j \in DOMAIN given, NEW f, NEW x, HasLastWord(rs, given, j, f, x)
        PROVE  Gives(merged, f, x) /\ merged[f].block[x] = given[j][f].block[x]
    <3>1. Decides(rs, given, j, f, x)
      BY <1>1, <2>2, LastWordDecides
    <3> QED BY <2>1, <3>1
  <2>3. ASSUME NEW f \in DOMAIN merged, IsBlock(merged[f]), NEW x \in DOMAIN merged[f].block
        PROVE  \E j \in DOMAIN given : /\ MayHaveIt(rs, given, j, f, x)
                                      /\ merged[f].block[x] = given[j][f].block[x]
    <3>1. Gives(merged, f, x)
      BY <2>3 DEF Gives
    <3>2. PICK j \in DOMAIN given : Decides(rs, given, j, f, x)
      BY <1>1, <3>1, LeavesOfInterface
    <3>3. MayHaveIt(rs, given, j, f, x)
      BY <1>1, <3>2, LastWordDecides
    <3> QED BY <2>1, <3>2, <3>3
  <2> QED BY <2>2, <2>3 DEF LeavesDecided
<1>2. ASSUME rules \in RuleSets PROVE LeavesByPrecedence
  <2>1. ASSUME NEW k \in DOMAIN Universe
        PROVE  LeavesDecided(rules[Universe[k].kind], FieldsOf(rules[Universe[k].kind], k),
                             FieldsGiven(rules[Universe[k].kind], k))
    BY <1>1, <1>2
  <2> QED BY <2>1 DEF LeavesByPrecedence, LeavesDecided
<1> QED BY <1>2, RulesFixed, PTL
=============================================================================
