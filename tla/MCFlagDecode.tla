----------------------------- MODULE MCFlagDecode -----------------------------
(***************************************************************************)
(* Values made of up to three parts: a flag of the field's table, one of   *)
(* its bits, a bit that no table knows, or a bit of the masked part (two   *)
(* of a known number, a third of an unknown one).                          *)
(***************************************************************************)
EXTENDS FlagDecode

FlagsOf(f) == {defs[f][j][2] : j \in DOMAIN defs[f]}

PartsOf(f) ==
  {{}, {40}} \cup FlagsOf(f)
    \cup {{b} : b \in UNION FlagsOf(f) \cup (Mask[f] \cap {0, 1, 3})}

MCRaws == [f \in Fields |-> {p \cup q \cup r : p, q, r \in PartsOf(f)}]
=============================================================================
