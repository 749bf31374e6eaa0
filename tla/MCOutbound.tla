------------------------------ MODULE MCOutbound ------------------------------
(***************************************************************************)
(* Instances of Outbound for TLC.  Races: a row of an earlier version that *)
(* nobody can read, two values and a bulk observation of one interface and *)
(* an event of another; the CSE refuses the bulk one, and 6 is the event about  *)
(* that.                                                                   *)
(* Live: a row left by an earlier process and an event of one interface.   *)
(***************************************************************************)
EXTENDS Outbound, TLC

CONSTANTS arm, base, w1, w2

RaceClasses  == <<"TERMINAL", "LATEST", "LATEST", "BULK", "TERMINAL", "TERMINAL">>
RaceKeys     == <<arm, arm, arm, arm, base, base>>
RaceReports  == 4 :> 6
LiveClasses  == <<"TERMINAL", "TERMINAL">>
LiveKeys     == <<arm, arm>>
NoReports    == <<>>
=============================================================================
