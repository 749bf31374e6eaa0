----------------------------- MODULE MCPlanning -----------------------------
(* Planning for TLC: four interfaces of one robot or two, rules that merge, *)
(* capture and place, and the graph coming and going.                       *)
EXTENDS Planning, TLC

MCUniverse == << [kind |-> "topics",   name |-> <<"a">>],
                 [kind |-> "topics",   name |-> <<"r", "a">>],
                 [kind |-> "services", name |-> <<"r", "a">>],
                 [kind |-> "actions",  name |-> <<"a", "b">>] >>
MCOwnersOf    == << {<<>>}, {}, {<<>>, <<"r">>}, {<<"r">>, <<"s">>} >>
MCDirectionOf == << "observe", "both", "observe", "observe" >>

Off     == [block |-> ("enabled" :> FALSE)]
On      == [block |-> ("enabled" :> TRUE)]
Access(b) == [access |-> b]
MCDefaults == [topic_observe |-> [qos |-> [block |-> [depth |-> 5, kind |-> "best"]]],
               topic_command |-> [access |-> On, qos |-> [block |-> [depth |-> 1]]],
               service       |-> Access(On),
               action        |-> Access(Off)]

Rule(p, fields)  == [match |-> p, fields |-> fields]
Named(n, fields) == [name |-> n, fields |-> fields]

All     == Rule(<<"**">>, [qos |-> [block |-> [depth |-> 9]]])
Robot   == Rule(<<"{robot}", "**">>, [qos |-> Plain("sensor")])
Both    == Rule(<<"*", "*">>, [representation |-> Plain("both")])
Aliased == Rule(<<"r", "*">>, [alias |-> Plain(<<"a">>), qos |-> [block |-> [kind |-> "reliable"]]])
Placed  == Rule(<<"**", "a">>, [path |-> Plain(<< <<"a">>, <<"last">> >>)])
Short   == Rule(<<"*">>, [direction |-> Plain("both"), representation |-> Plain("both")])
NamedRA == Named(<<"r", "a">>, [robot |-> Plain(<<"robot">>),
                                qos |-> [block |-> [kind |-> "reliable", depth |-> 2]]])
NamedA  == Named(<<"a">>, [type |-> Plain("t"), access |-> Off])
NoRobot == Named(<<"a">>, [robot |-> Plain(<<"s">>)])

MCRuleSets ==
    {[topics |-> t, services |-> <<>>, actions |-> << Rule(<<"{robot}", "b">>, Access(On)) >>] :
        t \in {<<>>, <<All, Robot>>, <<Robot, All>>, <<Robot, Both, Aliased, All>>, <<Both, Aliased, All>>,
               <<NamedRA, All>>, <<Placed, All, NamedA>>, <<Short, Placed>>, <<Short, Aliased>>,
               <<NoRobot>>}}

MCAllow    == { <<"**">> }
MCDeny     == {}
MCDeclared == << [id |-> <<"robot">>, ns |-> <<>>] >>
=============================================================================
