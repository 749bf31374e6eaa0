---------------------------- MODULE MCAdmission ----------------------------
(***************************************************************************)
(* Instances of Admission for TLC: up to three CINs.  With RetryKeys c1    *)
(* and c3 are one request sent twice (a client's retry), c2 another.       *)
(***************************************************************************)
EXTENDS Admission, TLC

CONSTANTS c1, c2, c3, p1, p2, k1, k2

\* Everything in one container.
OnePath == [c \in CINs |-> p1]
\* The cancel container is a path of its own.
TwoPaths == [c \in CINs |-> IF c = c2 THEN p2 ELSE p1]
\* c3 repeats the correlation id of c1.
RetryKeys == [c \in CINs |-> IF c = c2 THEN k2 ELSE k1]
=============================================================================
