---------------------------- MODULE MCFindingRules ----------------------------
(***************************************************************************)
(* Five system calls of the table and an id it does not have, with         *)
(* arguments, return values and delays on both sides of each rule and one  *)
(* negative value that errno has no room for, without a filter, with one,  *)
(* and with one that has an empty part.                                    *)
(***************************************************************************)
EXTENDS FindingRules, TLC

MCTable ==
  0 :> "read" @@ 10 :> "mprotect" @@ 41 :> "socket" @@ 101 :> "ptrace"
    @@ 272 :> "unshare"

NoArgs == [f \in {} |-> {}]

C(id, args, ret, delay) == [id |-> id, args |-> args, ret |-> ret, delay |-> delay]

MCTargets == {<<"">>, <<"unshare", "">>, <<"ptrace", "socket">>}

MCCalls ==
  {C(0, NoArgs, errno.EAGAIN, 60), C(0, NoArgs, 0, 1), C(0, NoArgs, -200, 6),
   C(10, [prot |-> {"PROT_EXEC", "PROT_WRITE"}], 0, 1),
   C(10, [prot |-> {"PROT_EXEC", "PROT_READ"}], errno.ENOMEM, 60),
   C(41, [family |-> 2, type |-> {"SOCK_RAW"}], errno.EPERM, 1),
   C(41, [family |-> 16, type |-> {"SOCK_DGRAM"}], errno.EMFILE, 60),
   C(101, [request |-> 16901], 0, 1),
   C(101, [request |-> 16], errno.EPERM, 1),
   C(272, [unshare_flags |-> {"CLONE_NEWUSER", "CLONE_NEWPID"}], errno.EPERM, 1),
   C(272, [unshare_flags |-> {}], 0, 1),
   C(500, NoArgs, -38, 1)}
=============================================================================
