--------------------------- MODULE MCTransactions ---------------------------
(***************************************************************************)
(* Instances of Transactions for TLC: a service request s and an action    *)
(* goal g at one interface; a goal h at another interface that uses the    *)
(* correlation id of g.                                                    *)
(***************************************************************************)
EXTENDS Transactions, TLC

CONSTANTS s, g, h, cs, cg, arm, base

OwnCorr    == s :> cs @@ g :> cg
OneIface   == s :> arm @@ g :> arm
SharedCorr == OwnCorr @@ h :> cg
TwoIfaces  == OneIface @@ h :> base
=============================================================================
