----------------------------- MODULE MCCollector -----------------------------
(***************************************************************************)
(* Instances of Collector for TLC: two syscalls that are kept, read, whose *)
(* id is 0, and one that has no name, and one that --target-syscall drops, *)
(* as "--target-syscall read," does.                                       *)
(***************************************************************************)
EXTENDS Collector

CONSTANTS read, nameless, futex

MCIds      == {read, nameless, futex}
MCSelected == {read, nameless}
MCNamed    == {read, futex}
=============================================================================
