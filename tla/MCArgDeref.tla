------------------------------ MODULE MCArgDeref ------------------------------
(***************************************************************************)
(* An instance of ArgDeref for TLC: a pointer, a number and a pointer.     *)
(***************************************************************************)
EXTENDS ArgDeref

CONSTANT w1

MCWords    == {w1}
MCPointers == {0, 2}
=============================================================================
