------------------------------ MODULE CallTrace ------------------------------
(***************************************************************************)
(* What the kernel half of syscap promises of the calls it reports: a      *)
(* trace of intervals.  A thread has at most one call that is remembered;  *)
(* remembering another one forgets it.  A return reports the remembered    *)
(* call and forgets it, and user space is given what was reported, each    *)
(* interval once and those of one thread in the order of their returns.    *)
(* There is no map, no ring, no limit and no loss in this module: what is  *)
(* lost are steps that it does not take.                                   *)
(***************************************************************************)
EXTENDS Integers

CONSTANT Tids

VARIABLES
  time,   \* of the last enter or return
  open,   \* when the call was entered that is remembered for a tid, or 0
  sent,   \* the intervals reported
  given   \* those of them user space has got

traceVars == <<time, open, sent, given>>

Interval == [tid : Tids, enter : Nat, exit : Nat]

TraceInit ==
  /\ time = 0
  /\ open = [t \in Tids |-> 0]
  /\ sent = {}
  /\ given = {}

\* A call of no interest, or one there is no room for.
Pass ==
  /\ time' = time + 1
  /\ UNCHANGED <<open, sent, given>>

Remember(t) ==
  /\ time' = time + 1
  /\ open' = [open EXCEPT ![t] = time + 1]
  /\ UNCHANGED <<sent, given>>

Report(t) ==
  /\ open[t] # 0
  /\ time' = time + 1
  /\ open' = [open EXCEPT ![t] = 0]
  /\ sent' = sent \cup {[tid |-> t, enter |-> open[t], exit |-> time + 1]}
  /\ UNCHANGED given

Give(s) ==
  /\ s \in sent \ given
  /\ \A r \in sent : r.tid = s.tid /\ r.exit < s.exit => r \in given
  /\ given' = given \cup {s}
  /\ UNCHANGED <<time, open, sent>>

TraceNext ==
  \/ Pass
  \/ \E t \in Tids : Remember(t) \/ Report(t)
  \/ \E s \in sent : Give(s)

TraceSpec == TraceInit /\ [][TraceNext]_traceVars
=============================================================================
