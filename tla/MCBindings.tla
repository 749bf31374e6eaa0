------------------------------ MODULE MCBindings ------------------------------
(***************************************************************************)
(* Instances of Bindings for TLC: two interfaces, one ROS type or two.     *)
(***************************************************************************)
EXTENDS Bindings

CONSTANTS a, b, t, u
=============================================================================
