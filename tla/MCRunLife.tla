------------------------------ MODULE MCRunLife ------------------------------
(***************************************************************************)
(* The instance of RunLife for TLC: the inodes of the container's cgroup   *)
(* are 1, 2, ..., that of every other process is 9, that of the mount 7.   *)
(***************************************************************************)
EXTENDS RunLife

MCHostGroup == 9
MCRootGroup == 7
=============================================================================
