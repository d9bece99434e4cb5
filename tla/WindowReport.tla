---------------------------- MODULE WindowReport ----------------------------
(***************************************************************************)
(* What one capture window of syscap promises of its reports.  Events are  *)
(* taken while the window is open and none afterwards.  At most the last   *)
(* of them is late: it was being handled when the window closed.  The      *)
(* reports are about the events taken: each is written at most once, only  *)
(* what it says of the late event's syscall may fall short, by that event, *)
(* and the findings are complete but for that syscall; those of a syscall  *)
(* that has no name are about the one whose id is 0.  There is one actor   *)
(* in this module and no statistics that two goroutines share.             *)
(***************************************************************************)
EXTENDS Integers, Sequences, FiniteSets

CONSTANTS Ids, Named, Zero, Broken

VARIABLES
  taken,     \* the events of the window, by syscall id
  open,      \* whether the window is open
  late,      \* the late event's syscall, if there is a late event
  json,      \* the text of running.json, if it is written
  perf,      \* the numbers printed for a syscall
  findings,  \* what the findings of a syscall were drawn from, first and last
  complete,  \* whether finding.json is written
  fate       \* of the process

windowVars == <<taken, open, late, json, perf, findings, complete, fate>>

Nothing == [called |-> 0, over |-> 0]

CountOf(s, id) == Cardinality({i \in DOMAIN s : s[i] = id})

TakenOf(id) == CountOf(taken, id)

\* What may be said of the number of calls, and of those the percentiles cover.
Counts(id) == {TakenOf(id)} \cup (IF id \in late THEN {TakenOf(id) - 1} ELSE {})
Covers(id) == Counts(id) \cup (IF id \in late THEN {0} ELSE {})

\* The numbers of a line are read more than once.
Reads(values) == (SUBSET values) \ {{}}
Lines(id)     == [called : Reads(Counts(id)), over : Reads(Covers(id))]

Results(id) == [called : Counts(id), over : Covers(id)]
                 \cup (IF id \in late THEN {Nothing} ELSE {})

\* The findings of a syscall without a name look at syscall 0, which may not be
\* summed up yet.
Infos(id) ==
  IF id \in Named
    THEN [running : Counts(id), result : Results(id)]
    ELSE [running : Counts(Zero), result : Results(Zero) \cup {Nothing}]

AllButLast == SubSeq(taken, 1, Len(taken) - 1)
Texts == {taken} \cup (IF late = {} THEN {} ELSE {AllButLast, Append(AllButLast, Broken)})

WindowInit ==
  /\ taken = <<>>
  /\ open = TRUE
  /\ late = {}
  /\ json = {}
  /\ perf = [id \in {} |-> {}]
  /\ findings = [id \in {} |-> {}]
  /\ complete = FALSE
  /\ fate = "running"

Take(id) ==
  /\ open
  /\ taken' = Append(taken, id)
  /\ UNCHANGED <<open, late, json, perf, findings, complete, fate>>

Close ==
  /\ open
  /\ open' = FALSE
  /\ \/ late' = {}
     \/ taken # <<>> /\ late' = {taken[Len(taken)]}
  /\ UNCHANGED <<taken, json, perf, findings, complete, fate>>

WriteTrace ==
  /\ ~open
  /\ json = {}
  /\ \E text \in Texts : json' = {text}
  /\ UNCHANGED <<taken, open, late, perf, findings, complete, fate>>

\* No line without the trace it sums up, and none for a syscall that never came.
PutLine(id) ==
  /\ json # {} /\ ~complete
  /\ id \notin DOMAIN perf
  /\ TakenOf(id) > 0
  /\ \E line \in Lines(id) :
       perf' = [i \in DOMAIN perf \cup {id} |-> IF i = id THEN line ELSE perf[i]]
  /\ UNCHANGED <<taken, open, late, json, findings, complete, fate>>

Draw(id) ==
  /\ ~complete
  /\ id \in DOMAIN perf \ DOMAIN findings
  /\ \E drawn \in [first : Infos(id), last : Infos(id)] :
       findings' = [i \in DOMAIN findings \cup {id} |->
                      IF i = id THEN drawn ELSE findings[i]]
  /\ UNCHANGED <<taken, open, late, json, perf, complete, fate>>

Finish ==
  /\ ~complete
  /\ json # {}
  /\ \A id \in Ids \ late : TakenOf(id) > 0 => id \in DOMAIN findings
  /\ complete' = TRUE
  /\ UNCHANGED <<taken, open, late, json, perf, findings, fate>>

\* The process may end at any time, by a fault only if there is a late event.
End ==
  /\ fate' \in {"exited"} \cup (IF late = {} THEN {} ELSE {"crashed"})
  /\ UNCHANGED <<taken, open, late, json, perf, findings, complete>>

WindowNext ==
  /\ fate = "running"
  /\ \/ \E id \in Ids : Take(id) \/ PutLine(id) \/ Draw(id)
     \/ Close \/ WriteTrace \/ Finish \/ End

WindowSpec == WindowInit /\ [][WindowNext]_windowVars
=============================================================================
