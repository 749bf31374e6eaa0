----------------------------- MODULE MCCommands -----------------------------
(***************************************************************************)
(* Instances of Commands for TLC: one topic in three configurations.  The  *)
(* bounds let a command and a stop each meet a rejoin, a decision, a       *)
(* failed publication and a restart.                                       *)
(***************************************************************************)
EXTENDS Commands

MCSetups == {[direction |-> "both", confirm |-> "on_first_use"],
             [direction |-> "command", confirm |-> "required"],
             [direction |-> "both", confirm |-> "auto"]}
MCLimits == [commands |-> 2, decisions |-> 2, moves |-> 3, rebinds |-> 1,
             failures |-> 1, restarts |-> 1]
=============================================================================
