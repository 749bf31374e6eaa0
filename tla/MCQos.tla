------------------------------- MODULE MCQos -------------------------------
(* A topic configured RELIABLE with an explicit deadline of one            *)
(* millisecond, a publisher that fits and one that offers less.            *)
EXTENDS QosControl

MCConf == [reliability |-> Strong, durability |-> Weak, liveliness |-> Weak,
           deadline |-> 1, lease |-> NoLimit, depth |-> 1]
MCFields == {"deadline"}

Fitting == [reliability |-> Strong, durability |-> Weak, liveliness |-> Weak,
            deadline |-> 2, lease |-> Forever]
Slack   == [reliability |-> Weak, durability |-> Weak, liveliness |-> Weak,
            deadline |-> Forever, lease |-> Forever]
MCOffers == {Fitting, Slack}

MCChanges == {[deadline |-> NoLimit], [depth |-> 2], [liveliness |-> Strong]}
MCPeers == [reliability : {Unknown, Weak, Strong}, durability : {Weak},
            liveliness : {Weak}, deadline : {0, 2, 4, Forever}, lease : {Forever}]
MCSpecs == [reliability : {Weak, Strong}, durability : {Weak, Strong},
            liveliness : {Weak}, deadline : {NoLimit, 0, 1, 2}, lease : {NoLimit, 1}]

MCLimits == [graphs |-> 2, asked |-> 2, broken |-> 1, lost |-> 1, restarts |-> 1]
=============================================================================
