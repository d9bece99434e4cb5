-------------------------- MODULE MCSyscallCapture --------------------------
(***************************************************************************)
(* Instances of SyscallCapture for TLC.                                    *)
(***************************************************************************)
EXTENDS SyscallCapture

CONSTANTS t1, t2, target, other

OneTid    == {t1}
TwoTids   == {t1, t2}
OneCgroup  == {target}
TwoCgroups == {target, other}

\* One id the pointer table covers and the first one beyond it.
MCTableSize == 1
MCIds       == {0, MCTableSize}
=============================================================================
