------------------------------- MODULE Planning -------------------------------
(***************************************************************************)
(* Which interfaces are bound, and where their resources are: resolve of   *)
(* runtime/planning.py with runtime/naming.py, the resource tree of        *)
(* runtime/provisioning.py, and _reconcile_discovery of bindings.py, whose *)
(* steps of several threads (module Bindings) are one step here.           *)
(*                                                                         *)
(* A name is a sequence of segments of one character each, which           *)
(* sanitize_segment leaves as they are; a pattern is a sequence of         *)
(* segments, "*", "**" and "{robot}".  A path segment, a robot's id and a  *)
(* namespace are sequences of the parts that are joined in them.  A rule's *)
(* field is a block (a dict) or a plain value.                             *)
(***************************************************************************)
EXTENDS Integers, FiniteSets, Sequences, SequencesExt, FiniteSetsExt, Functions

CONSTANTS
    Universe,    \* a sequence of interfaces [kind, name], in the order of the graph
    OwnersOf,    \* [DOMAIN Universe -> SUBSET namespaces]: endpoint namespaces
    DirectionOf, \* [DOMAIN Universe -> directions]: how the endpoints use a topic
    RuleSets,    \* a set of bridge configurations [Kinds -> Seq(rules)]
    Defaults,    \* [{"topic_observe", "topic_command", "service", "action"} -> fields]
    Mode, Strict,        \* discovery.mode, robots_strict
    Allow, Deny,         \* sets of patterns
    Declared,    \* the sequence of declared robots [id, ns]
    Segments, MaxPattern,    \* the literals of patterns, and how long patterns are
    Styles,      \* the path styles to look at
    Grace

Kinds   == {"topics", "services", "actions"}
Wild    == {"*", "**", "{robot}"}
Single  == {"*", "{robot}"}
Plain(v) == [plain |-> v]
IsBlock(v) == "block" \in DOMAIN v
IsList(s)  == s \in Seq(Range(s))
Patterns(rs) == {rs[k].match : k \in {j \in DOMAIN rs : "match" \in DOMAIN rs[j]}}

(* Of a pattern with several "**" Matches would say too little.  *)
AtMostOneStar(p) == \A j, k \in DOMAIN p : p[j] = "**" /\ p[k] = "**" => j = k

ASSUME ConstantTypes ==
    /\ \A n \in DOMAIN Universe : Universe[n].kind \in Kinds
    /\ Mode \in {"config-only", "hybrid", "auto-expose"} /\ Strict \in BOOLEAN
    /\ Styles \subseteq {"nested", "flat"} /\ Grace \in Nat \ {0}
    /\ Len(Declared) > 0

(* A rule has a name or a pattern, and one of them only; a field has a     *)
(* plain value or a block; the defaults leave the direction of a topic     *)
(* open.                                                                   *)
ASSUME RuleTypes ==
    /\ \A r \in RuleSets : \A kind \in Kinds :
          /\ IsList(r[kind])
          /\ \A k \in DOMAIN r[kind] : "name" \in DOMAIN r[kind][k] <=> "match" \notin DOMAIN r[kind][k]
          /\ \A p \in Patterns(r[kind]) :
                p \in Seq(Segments \cup Wild) /\ Len(p) \in 1..MaxPattern /\ AtMostOneStar(p)
    /\ \A d \in DOMAIN Defaults : "direction" \notin DOMAIN Defaults[d]
    /\ {"topic_observe", "topic_command", "service", "action"} \subseteq DOMAIN Defaults

(* What is said of the names of an instance needs enough of them.  *)
ASSUME SegmentTypes ==
    /\ Segments \cap Wild = {} /\ \E a, b \in Segments : a # b
    /\ MaxPattern \in Nat

VARIABLES
    style, rules,    \* the configuration
    graph,    \* what the ROS graph shows, a set of positions in Universe
    plan,     \* the active specs, by key
    misses,   \* _plan_misses
    tree      \* the resources of the CSE

vars == <<style, rules, graph, plan, misses, tree>>

-----------------------------------------------------------------------------
(* Patterns and rules                                                      *)

(* The segment of n at token k of p; there is at most one "**", for one    *)
(* segment or more.                                                        *)
Place(p, n, k) == IF \E d \in 1..(k - 1) : p[d] = "**" THEN Len(n) - Len(p) + k ELSE k
Matches(p, n) ==
    /\ IF Contains(p, "**") THEN Len(n) >= Len(p) ELSE Len(n) = Len(p)
    /\ \A k \in DOMAIN p : p[k] \in Wild \/ p[k] = n[Place(p, n, k)]
Captured(p, n) == {n[Place(p, n, k)] : k \in {j \in DOMAIN p : p[j] = "{robot}"}}

(* Mutant: the separators are not literals, as if names were split first.  *)
SpecificityOfLetters(p) ==
    Cardinality({k \in DOMAIN p : p[k] \notin Wild})
    - Cardinality({k \in DOMAIN p : p[k] \in Single})
    - 2 * Cardinality({k \in DOMAIN p : p[k] = "**"})

(* Literals, the separators included, less the wildcards.  *)
Specificity(p) ==
    Len(p) + Cardinality({k \in DOMAIN p : p[k] \notin Wild})
           - Cardinality({k \in DOMAIN p : p[k] \in Single})
           - 2 * Cardinality({k \in DOMAIN p : p[k] = "**"})

Rank(rule) == IF "name" \in DOMAIN rule THEN 2000 ELSE 1000 + Specificity(rule.match)
Selects(rule, n) == IF "name" \in DOMAIN rule THEN rule.name = n ELSE Matches(rule.match, n)
Selecting(rs, n) == {k \in DOMAIN rs : Selects(rs[k], n)}

(* The entries of over, and those of base that it leaves.  *)
Overlay(base, over) ==
    [x \in DOMAIN base \cup DOMAIN over |-> IF x \in DOMAIN over THEN over[x] ELSE base[x]]

(* Mutant: the merge is not recursive.  *)
DeepMergeShallow(base, over) == Overlay(base, over)

(* over wins, block by block and field by field.  *)
DeepMerge(base, over) ==
    [f \in DOMAIN base \cup DOMAIN over |->
        IF f \notin DOMAIN over THEN base[f]
        ELSE IF f \in DOMAIN base /\ IsBlock(base[f]) /\ IsBlock(over[f])
             THEN [block |-> Overlay(base[f].block, over[f].block)]
             ELSE over[f]]

(* Of two rules of one rank the earlier one comes last, and wins; the rule *)
(* in place i has i - 1 rules before it.                                   *)
Before(rs, j, k) == \/ Rank(rs[j]) < Rank(rs[k])
                    \/ Rank(rs[j]) = Rank(rs[k]) /\ j > k
Ordered(rs, n) ==
    LET S == Selecting(rs, n)
    IN  [i \in 1..Cardinality(S) |->
            CHOOSE k \in S : Cardinality({j \in S : Before(rs, j, k)}) = i - 1]

MergeRules(rs, n) ==
    LET order == Ordered(rs, n)
        merged[i \in 0..Len(order)] ==
            IF i = 0 THEN <<>> ELSE DeepMerge(merged[i - 1], rs[order[i]].fields)
    IN  merged[Len(order)]
RobotCaptures(rs, n) ==
    LET with == SelectSeq(Ordered(rs, n), LAMBDA k : "match" \in DOMAIN rs[k]
                                                  /\ Captured(rs[k].match, n) # {})
    IN  IF with = <<>> THEN {} ELSE Captured(rs[Last(with)].match, n)

Field(fields, f, missing) == IF f \in DOMAIN fields THEN fields[f].plain ELSE missing
Enabled(fields) == "access" \in DOMAIN fields /\ "enabled" \in DOMAIN fields.access.block
                   /\ fields.access.block.enabled

(* The defaults below the rules; a topic's depend on its direction.  *)
DefaultsOf(kind, fields) ==
    LET direction == Field(fields, "direction", "observe")
        command   == Defaults["topic_command"]
        controls  == Restrict(command, DOMAIN command \cap {"access", "command"})
    IN  CASE kind = "services" -> Defaults["service"]
          [] kind = "actions"  -> Defaults["action"]
          [] kind = "topics" /\ direction = "command" -> command
          [] kind = "topics" /\ direction = "both" ->
                DeepMerge(Defaults["topic_observe"], controls)
          [] OTHER -> Defaults["topic_observe"]

(* A topic without a direction takes the one its endpoints show.  *)
Directed(rs, k) ==
    LET merged == MergeRules(rs, Universe[k].name)
    IN  IF Universe[k].kind = "topics" /\ k \in graph /\ "direction" \notin DOMAIN merged
        THEN Overlay(merged, [direction |-> Plain(DirectionOf[k])]) ELSE merged
FieldsOf(rs, k) ==
    LET merged == Directed(rs, k)
    IN  DeepMerge(DefaultsOf(Universe[k].kind, merged), merged)

-----------------------------------------------------------------------------
(* Candidates: explicit names, then what is discovered and let through     *)

Hidden(n) == \E k \in DOMAIN n : n[k] = "_"
Admitted(n) == /\ ~Hidden(n)
               /\ ~\E p \in Deny : Matches(p, n)
               /\ \E p \in Allow : Matches(p, n)

Explicit(rs, n) == \E k \in DOMAIN rs : "name" \in DOMAIN rs[k] /\ rs[k].name = n
Candidate(kind, rs, g, k) ==
    /\ Universe[k].kind = kind
    /\ \/ Explicit(rs, Universe[k].name)
       \/ /\ Mode # "config-only" /\ k \in g /\ Admitted(Universe[k].name)
          /\ Mode = "hybrid" => \E r \in DOMAIN rs : /\ "match" \in DOMAIN rs[r]
                                                     /\ Matches(rs[r].match, Universe[k].name)

(* Explicit names come first, in the order of the rules.  *)
RulePlace(rs, n) == Min({k \in DOMAIN rs : "name" \in DOMAIN rs[k] /\ rs[k].name = n})
Earlier(rs, j, k) ==
    LET m == Universe[j].name
        n == Universe[k].name
    IN  IF Explicit(rs, m) /\ Explicit(rs, n) THEN RulePlace(rs, m) < RulePlace(rs, n)
        ELSE IF Explicit(rs, m) # Explicit(rs, n) THEN Explicit(rs, m) ELSE j < k
Candidates(kind, rs, g) ==
    SetToSortSeq({k \in DOMAIN Universe : Candidate(kind, rs, g, k)},
                 LAMBDA j, k : Earlier(rs, j, k))

-----------------------------------------------------------------------------
(* Robots                                                                  *)

None == [id |-> <<>>, ns |-> <<>>]
ById(robots, id) == SelectSeq(robots, LAMBDA r : r.id = id)
ByNs(robots, ns) == SelectSeq(robots, LAMBDA r : r.ns = ns)
Known(found) == [robot |-> Head(found), new |-> FALSE]
Dynamic(id, ns) == [robot |-> [id |-> id, ns |-> ns], new |-> TRUE]
Unknown == [robot |-> None, new |-> FALSE]

(* The longest namespace that is a prefix of the name; else the catch-all. *)
ResolveRobot(n, robots) ==
    LET inside == {k \in DOMAIN robots : robots[k].ns # <<>> /\ IsPrefix(robots[k].ns, n)}
        longest == {k \in inside : \A j \in inside : Len(robots[j].ns) <= Len(robots[k].ns)}
    IN  IF inside # {} THEN robots[Min(longest)]
        ELSE IF ByNs(robots, <<>>) # <<>> THEN Head(ByNs(robots, <<>>)) ELSE Head(robots)

(* robot: field, then {robot}, then the endpoints' namespace, then the     *)
(* name, for which a robot may be inferred where no rule matches.          *)
RobotFor(fields, n, captured, owners, inferring, robots) ==
    LET spaces   == owners \ {<<>>}
        space    == CHOOSE s \in spaces : TRUE
        fallback == ResolveRobot(n, robots)
        cap      == CHOOSE c \in captured : TRUE
    IN  CASE "robot" \in DOMAIN fields ->
                IF ById(robots, fields.robot.plain) = <<>> THEN Unknown
                ELSE Known(ById(robots, fields.robot.plain))
          [] "robot" \notin DOMAIN fields /\ captured # {} ->
                IF ById(robots, <<cap>>) # <<>> THEN Known(ById(robots, <<cap>>))
                ELSE IF ByNs(robots, <<cap>>) # <<>> THEN Known(ByNs(robots, <<cap>>))
                ELSE IF Strict THEN Unknown
                ELSE Dynamic(<<cap>>, IF n[1] = cap THEN <<cap>> ELSE <<>>)
          [] "robot" \notin DOMAIN fields /\ captured = {} ->
                IF Cardinality(spaces) = 1 /\ ByNs(robots, space) # <<>>
                THEN Known(ByNs(robots, space))
                ELSE IF Cardinality(spaces) = 1 /\ ~Strict
                THEN IF ById(robots, space) # <<>> THEN Known(ById(robots, space))
                     ELSE Dynamic(space, space)
                ELSE IF /\ inferring /\ ~Strict /\ Len(n) > 1
                        /\ fallback.id = <<"robot">> /\ fallback.ns = <<>>
                THEN IF ById(robots, <<n[1]>>) # <<>> THEN Known(ById(robots, <<n[1]>>))
                     ELSE Dynamic(<<n[1]>>, <<n[1]>>)
                ELSE [robot |-> fallback, new |-> FALSE]

-----------------------------------------------------------------------------
(* Paths and resources                                                     *)

(* The segments below the robot's branch.  *)
RelPath(robot, n, fields, st) ==
    LET inside == robot.ns # <<>> /\ IsPrefix(robot.ns, n)
        short  == IF inside THEN SubSeq(n, Len(robot.ns) + 1, Len(n)) ELSE n
        parts  == IF short = <<>> THEN <<n>> ELSE [k \in DOMAIN short |-> <<short[k]>>]
        rest   == IF robot.ns = <<>> /\ Len(parts) > 1 /\ parts[1] = robot.id
                  THEN Tail(parts) ELSE parts
    IN  IF "path" \in DOMAIN fields THEN fields.path.plain
        ELSE IF "alias" \in DOMAIN fields THEN <<fields.alias.plain>>
        ELSE IF st = "flat" THEN <<FlattenSeq(rest)>> ELSE rest

SpecOf(k, robot, fields, st) ==
    [key       |-> <<Universe[k].kind, robot.id, Universe[k].name>>,
     rel       |-> RelPath(robot, Universe[k].name, fields, st),
     direction |-> Field(fields, "direction", "observe"),
     rep       |-> Field(fields, "representation", "latest"),
     access    |-> Enabled(fields),
     typed     |-> k \in graph \/ "type" \in DOMAIN fields]

KindOf(s) == s.key[1]
Observes(s) == KindOf(s) = "topics" /\ s.direction \in {"observe", "both"}
Commands(s) == KindOf(s) = "topics" /\ s.direction \in {"command", "both"}
At(s, branch, children) ==
    {<<s.key[2], branch>> \o s.rel} \cup {<<s.key[2], branch>> \o s.rel \o << <<c>> >> : c \in children}

(* Mutant: the views of a topic that shows both are not claimed.  *)
ClaimsNoViews(s) ==
    (IF Observes(s) THEN At(s, "topics/observe", {"qos"}) ELSE {})
    \cup (IF Commands(s) THEN At(s, "topics/command", {"qos"}) ELSE {})
    \cup (IF KindOf(s) # "topics" THEN At(s, KindOf(s), {"qos"}) ELSE {})

(* What _check_collisions compares.  *)
Claims(s) ==
    (IF Observes(s)
     THEN At(s, "topics/observe", {"qos"} \cup (IF s.rep = "both" THEN {"last", "hist", "state"} ELSE {}))
     ELSE {})
    \cup (IF Commands(s) THEN At(s, "topics/command", {"qos"}) ELSE {})
    \cup (IF KindOf(s) # "topics" THEN At(s, KindOf(s), {"qos"}) ELSE {})

(* What provision_all creates for a spec, apart from the containers on the *)
(* way to it, which interfaces share.                                      *)
Owned(s) ==
    (IF Observes(s)
     THEN At(s, "topics/observe", {"qos"} \cup (IF s.rep = "both" THEN {"last", "hist"} ELSE {}))
     ELSE {})
    \cup (IF Commands(s) /\ s.access THEN At(s, "topics/command", {"qos", "ipeSub"}) ELSE {})
    \cup (IF KindOf(s) = "services" /\ s.access
          THEN At(s, "services", {"qos", "request", "response"}) ELSE {})
    \cup (IF KindOf(s) = "actions" /\ s.access
          THEN At(s, "actions", {"qos", "goal", "feedback", "result", "cancel", "actionStatus"})
          ELSE {})

(* remove_interface deletes the subtrees.  *)
Roots(s) == (IF Observes(s) THEN At(s, "topics/observe", {}) ELSE {})
            \cup (IF Commands(s) THEN At(s, "topics/command", {}) ELSE {})
            \cup (IF KindOf(s) # "topics" THEN At(s, KindOf(s), {}) ELSE {})

-----------------------------------------------------------------------------
(* resolve                                                                 *)

Failed == [ok |-> FALSE, robots |-> Declared, specs |-> {}]

AddCandidate(kind, rs, found, k) ==
    LET n      == Universe[k].name
        fields == FieldsOf(rs, k)
        who    == RobotFor(fields, n, RobotCaptures(rs, n), IF k \in graph THEN OwnersOf[k] ELSE {},
                           Selecting(rs, n) = {}, found.robots)
    IN  IF ~found.ok \/ who = Unknown THEN Failed
        ELSE [ok |-> TRUE,
              robots |-> IF who.new THEN Append(found.robots, who.robot) ELSE found.robots,
              specs |-> found.specs \cup {SpecOf(k, who.robot, fields, style)}]

AddKind(found, kind) ==
    FoldLeft(LAMBDA f, k : AddCandidate(kind, rules[kind], f, k), found,
             Candidates(kind, rules[kind], graph))

Apart(specs) == \A s, t \in specs : s # t => Claims(s) \cap Claims(t) = {}
Found == FoldLeft(AddKind, [Failed EXCEPT !.ok = TRUE], <<"topics", "services", "actions">>)
Checked(found) == IF found.ok /\ Apart(found.specs) THEN found ELSE Failed
Resolved == Checked(Found)

Bindable(s) == s.typed /\ (Observes(s) \/ s.access)
Keys(specs) == {s.key : s \in specs}

-----------------------------------------------------------------------------
(* The rounds of discovery                                                 *)

Init ==
    /\ style \in Styles /\ rules \in RuleSets
    /\ graph \in SUBSET DOMAIN Universe
    /\ plan = {} /\ misses = <<>> /\ tree = {}

Appear == \E k \in DOMAIN Universe \ graph : graph' = graph \cup {k} /\ UNCHANGED <<style, rules, plan, misses, tree>>
Vanish == \E k \in graph : graph' = graph \ {k} /\ UNCHANGED <<style, rules, plan, misses, tree>>

(* The active specs that the new resolution lacks, those whose grace is    *)
(* over, and the plan to be activated.                                     *)
Missed(new)  == {s \in plan : s.key \notin Keys(new)}
MissesOf(key) == IF key \in DOMAIN misses THEN misses[key] ELSE 0
Leaving(new) == {s \in Missed(new) : MissesOf(s.key) + 1 >= Grace}
NextPlan(new) ==
    (plan \ Leaving(new)) \cup {s \in new : Bindable(s) /\ s.key \notin Keys(plan)}

(* What is missed is counted.  *)
Count(new) ==
    misses' = [key \in {s.key : s \in Missed(new)}
                       \cup {y \in DOMAIN misses : y \notin Keys(plan)} |->
                  IF key \notin Keys(plan) THEN misses[key]
                  ELSE Min({MissesOf(key) + 1, Grace})]

(* Resources first, then the plan, then the removal of what left.  *)
Staged(specs)   == tree \cup UNION {Owned(s) : s \in specs}
Below(r, specs) == \E s \in specs : \E root \in Roots(s) : IsPrefix(root, r)

Refresh ==
    \E result \in {Resolved} :
        /\ result.ok
        /\ \E new \in {{s \in result.specs : Bindable(s)}} :
             /\ Count(new)
             /\ plan' = NextPlan(new)
             /\ tree' = IF plan' = plan THEN tree ELSE {r \in Staged(plan') : ~Below(r, Leaving(new))}
        /\ UNCHANGED <<style, rules, graph>>

(* A resolution that fails changes nothing.  *)
RefreshFails == ~Resolved.ok /\ UNCHANGED vars

Next == Appear \/ Vanish \/ Refresh \/ RefreshFails
Spec == Init /\ [][Next]_vars

-----------------------------------------------------------------------------
(* Properties                                                              *)

(* The sources of an interface's configuration: the rules that select it   *)
(* and, at place 0, the defaults.  A rule stands above one of lower rank,  *)
(* and above the defaults; of two rules of one rank none is above.         *)
FieldsGiven(rs, k) ==
    [j \in Selecting(rs, Universe[k].name) \cup {0} |->
        IF j = 0 THEN DefaultsOf(Universe[k].kind, Directed(rs, k)) ELSE rs[j].fields]
Above(rs, i, j) == i # 0 /\ (j = 0 \/ Rank(rs[i]) > Rank(rs[j]))

(* Fields give a leaf, or replace the whole block.  *)
Gives(fields, f, x) ==
    f \in DOMAIN fields /\ IsBlock(fields[f]) /\ x \in DOMAIN fields[f].block
Replaces(fields, f) == f \in DOMAIN fields /\ ~IsBlock(fields[f])
Touches(fields, f, x) == Gives(fields, f, x) \/ Replaces(fields, f)

(* Source j stands above all others that give or replace the leaf: it has  *)
(* the last word.  It may have it if no source stands above it; whether a  *)
(* leaf of the defaults may come back is left open.                        *)
HasLastWord(rs, given, j, f, x) ==
    /\ Gives(given[j], f, x)
    /\ \A i \in DOMAIN given \ {j} : Touches(given[i], f, x) => Above(rs, j, i)
MayHaveIt(rs, given, j, f, x) ==
    /\ Gives(given[j], f, x)
    /\ j # 0 => \A i \in DOMAIN given : Above(rs, i, j) => ~Touches(given[i], f, x)

(* "Explicit name > most specific match > defaults", merged field by field *)
(* (planning.py:4-6): the configuration of an interface has every leaf on  *)
(* which one source has the last word, with that source's value, and in    *)
(* its blocks no leaf but with the value of a source that may have it.     *)
(* Nothing is said of two rules of one rank (LaterOfEqualsWins).           *)
LeavesByPrecedence ==
    \A k \in DOMAIN Universe :
        LET rs     == rules[Universe[k].kind]
            merged == FieldsOf(rs, k)
            given  == FieldsGiven(rs, k)
        IN  /\ \A j \in DOMAIN given : \A f \in DOMAIN given[j] : IsBlock(given[j][f]) =>
                  \A x \in DOMAIN given[j][f].block : HasLastWord(rs, given, j, f, x) =>
                      Gives(merged, f, x) /\ merged[f].block[x] = given[j][f].block[x]
            /\ \A f \in DOMAIN merged : IsBlock(merged[f]) =>
                  \A x \in DOMAIN merged[f].block : \E j \in DOMAIN given :
                      /\ MayHaveIt(rs, given, j, f, x)
                      /\ merged[f].block[x] = given[j][f].block[x]

(* Of two rules of one rank "list order decides (later entry wins)", as    *)
(* the warning of _merge_rules says (planning.py:169-171).  Violated with  *)
(* the constants of Planning.cfg: the sort key (rank, -order) has the      *)
(* earlier entry merged last, and the earlier entry wins.                  *)
LaterOfEqualsWins ==
    \A k \in DOMAIN Universe :
        LET rs     == rules[Universe[k].kind]
            merged == FieldsOf(rs, k)
            given  == FieldsGiven(rs, k)
        IN  \A j \in DOMAIN given \ {0} : \A f \in DOMAIN given[j] : IsBlock(given[j][f]) =>
              \A x \in DOMAIN given[j][f].block :
                (\A i \in DOMAIN given \ {j} : Touches(given[i], f, x) =>
                    Above(rs, j, i) \/ (~Above(rs, i, j) /\ i < j))
                => Gives(merged, f, x) /\ merged[f].block[x] = given[j][f].block[x]

(* A leaf of the defaults shows only where no rule says anything of it:    *)
(* the defaults are below every rule (planning.py:4-6).  Violated with the *)
(* constants of Planning.cfg: the rules are merged with one another first, *)
(* and when a block follows a plain value there, the leaves of the         *)
(* defaults that the plain value had replaced come back.                   *)
DefaultsStayHidden ==
    \A k \in DOMAIN Universe :
        LET rs     == rules[Universe[k].kind]
            merged == FieldsOf(rs, k)
            given  == FieldsGiven(rs, k)
        IN  \A f \in DOMAIN given[0] : IsBlock(given[0][f]) =>
              \A x \in DOMAIN given[0][f].block :
                Gives(merged, f, x) =>
                  \/ \E i \in DOMAIN given \ {0} : Gives(given[i], f, x)
                  \/ \A i \in DOMAIN given \ {0} : ~Replaces(given[i], f)

(* A pattern that selects fewer names than another does not lose to it:    *)
(* "the most specific match" is one.  Patterns with "**" in the middle or  *)
(* more than once are outside, and an equal rank is possible.              *)
Names == UNION {[1..l -> Segments] : l \in 1..(MaxPattern + 1)}
NarrowerIsNotLower ==
    \A kind \in Kinds : \A j, k \in {i \in DOMAIN rules[kind] : "match" \in DOMAIN rules[kind][i]} :
        LET Narrow == {n \in Names : Selects(rules[kind][j], n)}
            Wide   == {n \in Names : Selects(rules[kind][k], n)}
        IN  Narrow \subseteq Wide /\ Narrow # Wide => Rank(rules[kind][j]) >= Rank(rules[kind][k])

(* No two interfaces of a resolution own one resource, except for the      *)
(* channels of services and actions, which the collision check leaves out: *)
(* a channel of one may be a resource of the other.                        *)
Channels == {"request", "response", "goal", "feedback", "result", "cancel", "actionStatus", "ipeSub"}
ChannelsOf(s) ==
    {<<s.key[2], branch>> \o s.rel \o << <<c>> >> :
        branch \in {"topics/command", "services", "actions"}, c \in Channels}
ResourcesApart ==
    LET found == Resolved.specs
    IN  \A s, t \in found : s # t =>
          Owned(s) \cap Owned(t) \subseteq ChannelsOf(s) \cup ChannelsOf(t)

(* The resources of the active interfaces are there: a removal takes       *)
(* nothing of another one ("the uniqueness is checked on the final path"). *)
ActiveKeepsResources == \A s \in plan : Owned(s) \subseteq tree
=============================================================================
