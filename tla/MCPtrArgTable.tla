---------------------------- MODULE MCPtrArgTable ----------------------------
(***************************************************************************)
(* An instance of PtrArgTable for TLC: four numbers with a gap, of which   *)
(* one has pointers and no format, lines of two lengths, and a buffer that *)
(* every order fills once and that ends within a line in some orders and   *)
(* between two in others.                                                  *)
(***************************************************************************)
EXTENDS PtrArgTable

MCSyscalls == {0, 1, 2, 4}
MCFormats  == MCSyscalls \ {1}
MCFields   == [no \in MCSyscalls |-> IF no = 4 THEN {0, 2} ELSE {0}]
MCLineLen  == [no \in MCSyscalls |-> IF no < 2 THEN 1 ELSE 2]
=============================================================================
