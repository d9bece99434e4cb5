-------------------------- MODULE FindingRulesProofs --------------------------
(***************************************************************************)
(* Proofs about FindingRules, for any table of system calls, any events    *)
(* and any limits.                                                         *)
(***************************************************************************)
EXTENDS FindingRules, FiniteSetTheorems, TLAPS

\* The way from an id to its name and back: a name leads to its own id, and the
\* missing name to system call 0.
LEMMA HomeOfName ==
  ASSUME NEW id \in Ids
  PROVE  /\ Name(id) # "" => id \in DOMAIN SyscallTable /\ Home(id) = id
         /\ Name(id) = "" => Home(id) = 0
         /\ Home(id) \in Ids
<1>1. CASE id \in DOMAIN SyscallTable
  <2>1. Name(id) = SyscallTable[id] /\ Name(id) # ""
    BY <1>1, RulesAssumption DEF Name
  <2>2. \E i \in DOMAIN SyscallTable : SyscallTable[i] = Name(id)
    BY <1>1, <2>1
  <2>3. Home(id) = CHOOSE i \in DOMAIN SyscallTable : SyscallTable[i] = Name(id)
    BY <2>2 DEF Home, Reversed
  <2>4. Home(id) \in DOMAIN SyscallTable /\ SyscallTable[Home(id)] = Name(id)
    BY <2>2, <2>3
  <2>5. Home(id) = id
    BY <1>1, <2>1, <2>4, RulesAssumption
  <2>6. QED
    BY <1>1, <2>1, <2>5
<1>2. CASE id \notin DOMAIN SyscallTable
  <2>1. Name(id) = ""
    BY <1>2 DEF Name
  <2>2. ~\E i \in DOMAIN SyscallTable : SyscallTable[i] = Name(id)
    BY <2>1, RulesAssumption
  <2>3. Home(id) = 0
    BY <2>2 DEF Home, Reversed
  <2>4. QED
    BY <2>1, <2>3, RulesAssumption
<1>3. QED
  BY <1>1, <1>2

\* The rules look at nothing of the results but that of the id's home.
LEMMA RulesSeeHome ==
  ASSUME NEW id, NEW r1, NEW r2, r1[Home(id)] = r2[Home(id)]
  PROVE  generateOverallFinding(id, r1) = generateOverallFinding(id, r2)
<1>1. \A category, level, call, rule :
        Risk(id, category, level, call, rule, r1) = Risk(id, category, level, call, rule, r2)
  BY DEF Risk
<1>2. SensitiveSyscall(id, r1) = SensitiveSyscall(id, r2)
  BY <1>1 DEF SensitiveSyscall
<1>3. HighDelay(id, r1) = HighDelay(id, r2)
  BY <1>1 DEF HighDelay
<1>4. HighFailingRate(id, r1) = HighFailingRate(id, r2)
  BY <1>1 DEF HighFailingRate
<1>5. SensitiveArgs(id, r1) = SensitiveArgs(id, r2)
  <2> DEFINE level == IF Name(id) \in sensitiveSyscalls THEN Critical ELSE High
             found == {n \in (DOMAIN running[Home(id)]) \X sensitiveArgSyscalls[Name(id)] :
                         MatchString(n[2], Name(id), running[Home(id)][n[1]].args)}
  <2> HIDE DEF level, found
  <2>1. {Risk(id, "arg_sensitive", level, m[1], m[2], r1) : m \in found}
          = {Risk(id, "arg_sensitive", level, m[1], m[2], r2) : m \in found}
    BY <1>1
  <2>2. QED
    BY <2>1 DEF SensitiveArgs, level, found
<1>6. AbnormalRetVal(id, r1) = AbnormalRetVal(id, r2)
  BY <1>1 DEF AbnormalRetVal
<1>7. QED
  BY <1>2, <1>3, <1>4, <1>5, <1>6 DEF generateOverallFinding

\* The levels of the abnormal return values.
LEMMA ErrnoLevels ==
  \A x \in sensitiveSyscallsWithErrno : x[3] \in Critical..Low
BY DEF sensitiveSyscallsWithErrno, Abnormal, Critical, High, Low

\* The missing name is in none of the lists.
LEMMA NoNameListed ==
  /\ "" \notin sensitiveSyscalls
  /\ "" \notin DOMAIN sensitiveArgSyscalls
  /\ \A x \in sensitiveSyscallsWithErrno : x[2] # ""
<1>1. "" \notin sensitiveSyscalls
  BY DEF sensitiveSyscalls
<1>2. "" \notin DOMAIN sensitiveArgSyscalls
  BY DEF sensitiveArgSyscalls
<1>3. \A x \in sensitiveSyscallsWithErrno : x[2] # ""
  BY DEF sensitiveSyscallsWithErrno, Abnormal
<1>4. QED
  BY <1>1, <1>2, <1>3

\* What each rule makes its findings of.
LEMMA FindingShape ==
  ASSUME NEW id \in Ids, NEW results, running \in [Ids -> Seq({Recorded(c) : c \in Calls})],
         NEW f \in generateOverallFinding(id, results)
  PROVE  /\ f.id = id
         /\ f.related_syscall = Name(id)
         /\ f.snapshot = results[Home(id)]
         /\ f.risk_level \in Critical..Low
         /\ f.call \in Nat
         /\ f.rule \in Rules \cup {NoRule}
         /\ Name(id) = "" =>
              /\ f.risk_category \in {"failing_too_much", "delay_too_high"}
              /\ FailingTooMuch(results[Home(id)]) \/ DelayTooLong(results[Home(id)])
<1> DEFINE Shape(category) ==
      \E level \in Critical..Low, call \in Nat, rule \in Rules \cup {NoRule} :
        f = Risk(id, category, level, call, rule, results)
<1>1. \A category : Shape(category) =>
        /\ f.id = id
        /\ f.related_syscall = Name(id)
        /\ f.snapshot = results[Home(id)]
        /\ f.risk_level \in Critical..Low
        /\ f.call \in Nat
        /\ f.rule \in Rules \cup {NoRule}
        /\ f.risk_category = category
  BY DEF Risk
<1>2. Critical \in Critical..Low /\ High \in Critical..Low /\ Low \in Critical..Low /\ 0 \in Nat
  BY DEF Critical, High, Low
<1>3. DOMAIN running[Home(id)] \subseteq Nat
  <2>1. running[Home(id)] \in Seq({Recorded(c) : c \in Calls})
    BY HomeOfName
  <2>2. QED
    BY <2>1
<1> HIDE DEF Shape
<1>4. CASE f \in SensitiveSyscall(id, results)
  <2>1. f = Risk(id, "sensitive", High, 0, NoRule, results) /\ Name(id) # ""
    BY <1>4, NoNameListed DEF SensitiveSyscall
  <2>2. Shape("sensitive")
    BY <2>1, <1>2 DEF Shape
  <2>3. QED
    BY <2>1, <2>2, <1>1
<1>5. CASE f \in HighDelay(id, results)
  <2>1. /\ DelayTooLong(results[Home(id)])
        /\ f = Risk(id, "delay_too_high",
                    IF Name(id) \in delayCriticalSyscalls THEN High ELSE Low,
                    0, NoRule, results)
    BY <1>5 DEF HighDelay
  <2>2. Shape("delay_too_high")
    BY <2>1, <1>2 DEF Shape
  <2>3. QED
    BY <2>1, <2>2, <1>1
<1>6. CASE f \in HighFailingRate(id, results)
  <2>1. /\ FailingTooMuch(results[Home(id)])
        /\ f = Risk(id, "failing_too_much",
                    IF Name(id) \in sensitiveFailingSyscalls THEN High ELSE Low,
                    0, NoRule, results)
    BY <1>6 DEF HighFailingRate
  <2>2. Shape("failing_too_much")
    BY <2>1, <1>2 DEF Shape
  <2>3. QED
    BY <2>1, <2>2, <1>1
<1>7. CASE f \in SensitiveArgs(id, results)
  <2>1. Name(id) \in DOMAIN sensitiveArgSyscalls
    BY <1>7 DEF SensitiveArgs
  <2>2. PICK j \in DOMAIN running[Home(id)], rule \in sensitiveArgSyscalls[Name(id)] :
          f = Risk(id, "arg_sensitive",
                   IF Name(id) \in sensitiveSyscalls THEN Critical ELSE High, j, rule, results)
    BY <1>7, <2>1 DEF SensitiveArgs
  <2>3. rule \in Rules
    BY <2>1, <2>2 DEF Rules
  <2>4. Shape("arg_sensitive")
    BY <2>2, <2>3, <1>2, <1>3 DEF Shape
  <2>5. QED
    BY <2>1, <2>4, <1>1, NoNameListed
<1>8. CASE f \in AbnormalRetVal(id, results)
  <2>1. PICK j \in DOMAIN running[Home(id)], x \in sensitiveSyscallsWithErrno :
          /\ Name(id) = x[2]
          /\ f = Risk(id, "abnormal_ret_val", Raised(id, x[3]), j, NoRule, results)
    BY <1>8 DEF AbnormalRetVal
  <2>2. Raised(id, x[3]) \in Critical..Low
    BY <2>1, ErrnoLevels DEF Raised, Critical, Low
  <2>3. Shape("abnormal_ret_val")
    BY <2>1, <2>2, <1>3 DEF Shape
  <2>4. QED
    BY <2>1, <2>3, <1>1, NoNameListed
<1>9. QED
  BY <1>4, <1>5, <1>6, <1>7, <1>8 DEF generateOverallFinding

\* Without a result there is nothing to find for an id without a name.
LEMMA NothingWithoutCalls ==
  ~FailingTooMuch(NoResult) /\ ~DelayTooLong(NoResult)
<1>1. MinCalled \in Nat \ {0} /\ WarningP50 \in Nat
  BY RulesAssumption
<1>2. NoResult.called = 0 /\ NoResult.p50 = 0
  BY DEF NoResult
<1>3. ~(0 >= MinCalled) /\ ~(0 > WarningP50)
  BY <1>1
<1>4. QED
  BY <1>2, <1>3 DEF FailingTooMuch, DelayTooLong
-----------------------------------------------------------------------------
FailedIn(log) == {j \in DOMAIN log : Errno(log[j].ret, Half) > 0}

DelaysOf(log) == [j \in DOMAIN log |-> log[j].delay]

\* One event more: what is logged and what is counted of it.
LEMMA OneMore ==
  ASSUME NEW S, NEW log \in Seq(S), NEW r \in S
  PROVE  /\ Append(log, r) \in Seq(S)
         /\ Len(Append(log, r)) = Len(log) + 1
         /\ Append(log, r) # <<>>
         /\ Errno(r.ret, Half) > 0 =>
              Cardinality(FailedIn(Append(log, r))) = Cardinality(FailedIn(log)) + 1
         /\ ~(Errno(r.ret, Half) > 0) => FailedIn(Append(log, r)) = FailedIn(log)
         /\ DelaysOf(Append(log, r)) = Append(DelaysOf(log), r.delay)
<1> DEFINE more == Append(log, r)
           n == Len(log)
<1>1. /\ n \in Nat /\ DOMAIN log = 1..n
      /\ more \in Seq(S) /\ Len(more) = n + 1 /\ DOMAIN more = 1..(n + 1)
      /\ \A j \in 1..n : more[j] = log[j]
      /\ more[n + 1] = r
  OBVIOUS
<1>2. more # <<>>
  BY <1>1
<1> HIDE DEF more, n
<1>3. FailedIn(log) \subseteq 1..n /\ FailedIn(more) \subseteq 1..(n + 1)
  BY <1>1 DEF FailedIn
<1>4. IsFiniteSet(FailedIn(log)) /\ IsFiniteSet(FailedIn(more))
  <2>1. IsFiniteSet(1..n) /\ IsFiniteSet(1..(n + 1))
    BY <1>1, FS_Interval
  <2>2. QED
    BY <1>3, <2>1, FS_Subset
<1>5. Errno(r.ret, Half) > 0 => Cardinality(FailedIn(more)) = Cardinality(FailedIn(log)) + 1
  <2> HAVE Errno(r.ret, Half) > 0
  <2>1. FailedIn(more) = FailedIn(log) \cup {n + 1}
    BY <1>1 DEF FailedIn
  <2>2. n + 1 \notin FailedIn(log)
    BY <1>1, <1>3
  <2>3. Cardinality(FailedIn(more)) = Cardinality(FailedIn(log)) + 1
    BY <1>4, <2>1, <2>2, FS_AddElement
  <2>4. QED
    BY <2>3
<1>6. ~(Errno(r.ret, Half) > 0) => FailedIn(more) = FailedIn(log)
  BY <1>1 DEF FailedIn
<1>7. DelaysOf(more) = Append(DelaysOf(log), r.delay)
  <2> DEFINE T == {log[j].delay : j \in 1..n} \cup {r.delay}
             longer == Append(DelaysOf(log), r.delay)
             mapped == [j \in 1..(n + 1) |-> more[j].delay]
  <2>1. DelaysOf(log) \in Seq(T) /\ Len(DelaysOf(log)) = n /\ r.delay \in T
    BY <1>1 DEF DelaysOf
  <2>2. \A j \in 1..n : DelaysOf(log)[j] = more[j].delay
    BY <1>1 DEF DelaysOf
  <2> HIDE DEF T
  <2>3. /\ longer = [j \in 1..(n + 1) |-> longer[j]]
        /\ \A j \in 1..n : longer[j] = DelaysOf(log)[j]
        /\ longer[n + 1] = r.delay
    BY <1>1, <2>1
  <2>4. \A j \in 1..(n + 1) : longer[j] = more[j].delay
    BY <1>1, <2>2, <2>3
  <2> HIDE DEF longer
  <2>5. longer = mapped
    BY <2>3, <2>4
  <2>6. QED
    BY <2>5, <1>1 DEF longer, DelaysOf
<1>8. QED
  BY <1>1, <1>2, <1>5, <1>6, <1>7 DEF more, n

LEMMA SummaryCounts ==
  ASSUME NEW record, NEW sorted
  PROVE  /\ Summary(record, sorted).called = record.called
         /\ Summary(record, sorted).failed = record.failed
         /\ Summary(record, sorted).p50 = Middle(sorted)
         /\ Summary(record, sorted).p99 = At(sorted, (99 * Len(sorted)) \div 100)
BY DEF Summary

LEMMA RulesInit == Init => IInv
<1> SUFFICES ASSUME Init PROVE IInv
  OBVIOUS
<1>1. \A id \in Ids : Failed(id) = {}
  BY DEF Init, Failed
<1>2. TypeOK
  <2>1. stats \in [Ids -> [called : Nat, failed : Nat, delays : Seq(Nat)]]
    BY DEF Init
  <2>2. running \in [Ids -> Seq({Recorded(c) : c \in Calls})]
    BY DEF Init
  <2>3. DOMAIN result = Ids /\ \A id \in Ids : {result[id].called, result[id].failed} \subseteq Nat
    BY DEF Init, NoResult
  <2>4. /\ targetSyscall \in TargetSyscalls /\ reporting \in BOOLEAN
        /\ seen = {} /\ reported = {} /\ findings = {}
    BY DEF Init
  <2>5. QED
    BY <2>1, <2>2, <2>3, <2>4 DEF TypeOK
<1>3. BooksAgree
  <2> SUFFICES ASSUME NEW id \in Ids
               PROVE  /\ stats[id].called = Len(running[id])
                      /\ stats[id].failed = Cardinality(Failed(id))
                      /\ id \notin reported => stats[id].delays = LoggedDelays(id)
                      /\ id \in seen <=> running[id] # <<>>
    BY DEF BooksAgree
  <2>1. Cardinality(Failed(id)) = 0
    BY <1>1, FS_EmptySet
  <2>2. stats[id].called = 0 /\ stats[id].failed = 0 /\ stats[id].delays = <<>> /\ running[id] = <<>>
    BY DEF Init
  <2>3. <<>> = [j \in DOMAIN <<>> |-> <<>>[j].delay]
    OBVIOUS
  <2>4. QED
    BY <2>1, <2>2, <2>3 DEF Init, LoggedDelays
<1>4. ResultsFinal
  BY DEF Init, ResultsFinal
<1>5. SeenSelected
  BY DEF Init, SeenSelected
<1>6. FindingsGenerated
  BY DEF Init, FindingsGenerated
<1>7. QED
  BY <1>2, <1>3, <1>4, <1>5, <1>6 DEF IInv

LEMMA CaptureStep ==
  ASSUME IInv, NEW c \in Calls, Capture(c)
  PROVE  IInv'
<1> DEFINE id == c.id
           r == Recorded(c)
           S == {Recorded(d) : d \in Calls}
<1>1. id \in Ids /\ c.ret \in Int /\ c.delay \in Nat
  BY RulesAssumption
<1>2. r.ret = c.ret /\ r.delay = c.delay
  BY DEF Recorded
<1>3. reported = {} /\ findings = {}
  BY DEF Capture, IInv, ResultsFinal, FindingsGenerated
<1>4. running \in [Ids -> Seq(S)] /\ running[id] \in Seq(S) /\ r \in S
  BY <1>1 DEF IInv, TypeOK
<1>5. stats[id].called \in Nat /\ stats[id].failed \in Nat /\ stats[id].delays \in Seq(Nat)
  BY <1>1 DEF IInv, TypeOK
<1>6. /\ running' = [running EXCEPT ![id] = Append(running[id], r)]
      /\ stats' = [stats EXCEPT ![id] = [called |-> stats[id].called + 1,
                                        failed |-> FailedCount(stats[id], c),
                                        delays |-> Append(stats[id].delays, c.delay)]]
      /\ seen' = seen \cup {id}
      /\ UNCHANGED <<targetSyscall, reporting, result, reported, findings>>
  BY DEF Capture
<1> HIDE DEF r, id, S
<1>7. TypeOK'
  <2>1. running' \in [Ids -> Seq(S)]
    BY <1>1, <1>4, <1>6
  <2>2. FailedCount(stats[id], c) \in Nat
    BY <1>5 DEF FailedCount
  <2>3. stats' \in [Ids -> [called : Nat, failed : Nat, delays : Seq(Nat)]]
    BY <1>1, <1>5, <1>6, <2>2 DEF IInv, TypeOK
  <2>4. QED
    BY <1>1, <1>3, <1>6, <2>1, <2>3 DEF IInv, TypeOK, S
<1>8. BooksAgree'
  <2> SUFFICES ASSUME NEW i \in Ids
               PROVE  /\ stats'[i].called = Len(running'[i])
                      /\ stats'[i].failed = Cardinality(Failed(i)')
                      /\ i \notin reported' => stats'[i].delays = LoggedDelays(i)'
                      /\ i \in seen' <=> running'[i] # <<>>
    BY DEF BooksAgree
  <2>1. /\ stats[i].called = Len(running[i])
        /\ stats[i].failed = Cardinality(Failed(i))
        /\ stats[i].delays = [j \in DOMAIN running[i] |-> running[i][j].delay]
        /\ i \in seen <=> running[i] # <<>>
    BY <1>3 DEF IInv, BooksAgree, LoggedDelays
  <2>2. CASE i # id
    <3>1. stats'[i] = stats[i] /\ running'[i] = running[i] /\ (i \in seen' <=> i \in seen)
      BY <1>6, <2>2 DEF IInv, TypeOK
    <3>2. Failed(i)' = Failed(i)
      BY <3>1 DEF Failed
    <3>3. QED
      BY <2>1, <3>1, <3>2 DEF LoggedDelays
  <2>3. CASE i = id
    <3> DEFINE log == running[id]
               more == Append(log, r)
    <3>1. /\ running'[id] = more
          /\ stats'[id].called = stats[id].called + 1
          /\ stats'[id].failed = FailedCount(stats[id], c)
          /\ stats'[id].delays = Append(stats[id].delays, r.delay)
          /\ id \in seen'
      BY <1>1, <1>2, <1>6 DEF IInv, TypeOK
    <3>2. Failed(id) = FailedIn(log) /\ Failed(id)' = FailedIn(more)
      BY <3>1 DEF Failed, FailedIn
    <3>3. /\ Len(more) = Len(log) + 1 /\ more # <<>>
          /\ Errno(r.ret, Half) > 0 => Cardinality(FailedIn(more)) = Cardinality(FailedIn(log)) + 1
          /\ ~(Errno(r.ret, Half) > 0) => FailedIn(more) = FailedIn(log)
          /\ DelaysOf(more) = Append(DelaysOf(log), r.delay)
      BY <1>4, OneMore
    <3> HIDE DEF log, more
    <3>4. stats'[id].failed = Cardinality(FailedIn(more))
      <4>1. stats[id].failed = Cardinality(FailedIn(log))
        BY <2>1, <2>3, <3>2
      <4>2. CASE Errno(c.ret, Half) > 0
        BY <1>2, <3>1, <3>3, <4>1, <4>2 DEF FailedCount
      <4>3. CASE ~(Errno(c.ret, Half) > 0)
        BY <1>2, <3>1, <3>3, <4>1, <4>3 DEF FailedCount
      <4>4. QED
        BY <4>2, <4>3
    <3>5. stats'[id].delays = [j \in DOMAIN more |-> more[j].delay]
      <4>1. stats[id].delays = DelaysOf(log)
        BY <2>1, <2>3 DEF log, DelaysOf
      <4>2. stats'[id].delays = DelaysOf(more)
        BY <3>1, <3>3, <4>1
      <4>3. QED
        BY <4>2 DEF DelaysOf
    <3>6. stats'[id].called = Len(more)
      BY <2>1, <2>3, <3>1, <3>3 DEF log
    <3>7. QED
      BY <2>3, <3>1, <3>2, <3>3, <3>4, <3>5, <3>6 DEF LoggedDelays
  <2>4. QED
    BY <2>2, <2>3
<1>9. ResultsFinal'
  BY <1>3, <1>6 DEF IInv, ResultsFinal, Capture
<1>10. SeenSelected'
  BY <1>6 DEF IInv, SeenSelected, Selected, Capture, id
<1>11. FindingsGenerated'
  BY <1>3, <1>6 DEF FindingsGenerated
<1>12. QED
  BY <1>7, <1>8, <1>9, <1>10, <1>11 DEF IInv

LEMMA EndCaptureStep ==
  ASSUME IInv, EndCapture
  PROVE  IInv'
<1>1. /\ reporting' = TRUE /\ reported = {} /\ findings = {}
      /\ UNCHANGED <<targetSyscall, seen, stats, running, result, reported, findings>>
  <2>1. ~reporting => reported = {}
    BY DEF IInv, ResultsFinal
  <2>2. \A f \in findings : f.id \in reported
    BY DEF IInv, FindingsGenerated
  <2>3. QED
    BY <2>1, <2>2 DEF EndCapture
<1>2. TypeOK'
  BY <1>1 DEF IInv, TypeOK
<1>3. BooksAgree'
  BY <1>1 DEF IInv, BooksAgree, Failed, LoggedDelays
<1>4. ResultsFinal'
  BY <1>1 DEF IInv, ResultsFinal, LoggedDelays
<1>5. SeenSelected'
  BY <1>1 DEF IInv, SeenSelected, Selected
<1>6. FindingsGenerated'
  BY <1>1 DEF FindingsGenerated
<1>7. QED
  BY <1>2, <1>3, <1>4, <1>5, <1>6 DEF IInv

\* The rules read the log, which the report leaves alone.
LEMMA RulesReadLog ==
  ASSUME running' = running, NEW id
  PROVE  generateOverallFinding(id, result)' = generateOverallFinding(id, result')
<1>1. SensitiveSyscall(id, result)' = SensitiveSyscall(id, result')
  BY DEF SensitiveSyscall, Risk
<1>2. HighDelay(id, result)' = HighDelay(id, result')
  BY DEF HighDelay, DelayTooLong, Risk
<1>3. HighFailingRate(id, result)' = HighFailingRate(id, result')
  BY DEF HighFailingRate, FailingTooMuch, Risk
<1>4. SensitiveArgs(id, result)' = SensitiveArgs(id, result')
  BY DEF SensitiveArgs, Risk, MatchString
<1>5. AbnormalRetVal(id, result)' = AbnormalRetVal(id, result')
  BY DEF AbnormalRetVal, Risk, Raised
<1>6. QED
  BY <1>1, <1>2, <1>3, <1>4, <1>5 DEF generateOverallFinding

\* An ordering of delays is as long as they are.
LEMMA OrderingType ==
  ASSUME NEW d \in Seq(Nat), NEW s \in Orderings(d)
  PROVE  s \in Seq(Nat) /\ Len(s) = Len(d)
<1>1. PICK n \in Nat : n = Len(d) /\ DOMAIN d = 1..n /\ \A j \in 1..n : d[j] \in Nat
  OBVIOUS
<1>2. PICK f \in Moves(n) : s = Moved(d, f)
  BY <1>1 DEF Orderings
<1>3. s = [j \in 1..n |-> d[f[j]]] /\ \A j \in 1..n : f[j] \in 1..n
  BY <1>1, <1>2 DEF Moved, Moves
<1>4. s \in [1..n -> Nat]
  BY <1>1, <1>3
<1>5. QED
  BY <1>1, <1>4

\* The sort is all that a report changes of the statistics.
LEMMA ReportedRecord ==
  ASSUME stats \in [Ids -> [called : Nat, failed : Nat, delays : Seq(Nat)]], NEW id \in Ids,
         NEW sorted \in Orderings(stats[id].delays),
         stats' = [stats EXCEPT ![id].delays = sorted]
  PROVE  /\ stats' \in [Ids -> [called : Nat, failed : Nat, delays : Seq(Nat)]]
         /\ stats'[id].delays = sorted
         /\ stats'[id].called = stats[id].called /\ stats'[id].failed = stats[id].failed
         /\ Summary(stats'[id], sorted) = Summary(stats[id], sorted)
         /\ \A i \in Ids : i # id => stats'[i] = stats[i]
<1>1. stats[id].called \in Nat /\ stats[id].failed \in Nat /\ stats[id].delays \in Seq(Nat)
  OBVIOUS
<1>2. sorted \in Seq(Nat)
  BY <1>1, OrderingType
<1>3. /\ stats'[id] = [stats[id] EXCEPT !.delays = sorted]
      /\ \A i \in Ids : i # id => stats'[i] = stats[i]
  OBVIOUS
<1>4. /\ stats'[id].delays = sorted
      /\ stats'[id].called = stats[id].called /\ stats'[id].failed = stats[id].failed
  BY <1>3
<1>5. stats' \in [Ids -> [called : Nat, failed : Nat, delays : Seq(Nat)]]
  BY <1>2
<1>6. Summary(stats'[id], sorted) = Summary(stats[id], sorted)
  BY <1>4 DEF Summary
<1>7. QED
  BY <1>3, <1>4, <1>5, <1>6

LEMMA ReportStep ==
  ASSUME IInv, NEW id \in Ids, Report(id)
  PROVE  IInv'
<1> PICK sorted \in Orderings(stats[id].delays) :
      /\ stats' = [stats EXCEPT ![id].delays = sorted]
      /\ result' = [result EXCEPT ![id] = Summary(stats[id], sorted)]
      /\ findings' = findings \cup generateOverallFinding(id, Results(id, sorted))
  BY DEF Report
<1>1. /\ reporting /\ id \in seen /\ id \notin reported
      /\ result' = [result EXCEPT ![id] = Summary(stats[id], sorted)]
      /\ findings' = findings \cup generateOverallFinding(id, result')
      /\ reported' = reported \cup {id}
      /\ UNCHANGED <<targetSyscall, reporting, seen, running>>
  BY DEF Report, Results
<1>0. /\ stats' \in [Ids -> [called : Nat, failed : Nat, delays : Seq(Nat)]]
      /\ stats[id].delays = LoggedDelays(id)
      /\ stats'[id].delays = sorted
      /\ stats'[id].called = stats[id].called /\ stats'[id].failed = stats[id].failed
      /\ Summary(stats'[id], sorted) = Summary(stats[id], sorted)
      /\ \A i \in Ids : i # id => stats'[i] = stats[i]
  BY <1>1, ReportedRecord DEF IInv, TypeOK, BooksAgree
<1>2. /\ DOMAIN result = Ids
      /\ result'[id] = Summary(stats[id], sorted)
      /\ \A i \in Ids : i # id => result'[i] = result[i]
  <2>1. DOMAIN result = Ids
    BY DEF IInv, TypeOK
  <2>2. result' = [result EXCEPT ![id] = Summary(stats[id], sorted)]
    BY <1>1
  <2>3. QED
    BY <2>1, <2>2
<1>3. BooksAgree'
  <2> SUFFICES ASSUME NEW i \in Ids
               PROVE  /\ stats'[i].called = Len(running'[i])
                      /\ stats'[i].failed = Cardinality(Failed(i)')
                      /\ i \notin reported' => stats'[i].delays = LoggedDelays(i)'
                      /\ i \in seen' <=> running'[i] # <<>>
    BY DEF BooksAgree
  <2>1. /\ stats[i].called = Len(running[i])
        /\ stats[i].failed = Cardinality(Failed(i))
        /\ i \notin reported => stats[i].delays = LoggedDelays(i)
        /\ i \in seen <=> running[i] # <<>>
    BY DEF IInv, BooksAgree
  <2>2. Failed(i)' = Failed(i) /\ LoggedDelays(i)' = LoggedDelays(i)
    BY <1>1 DEF Failed, LoggedDelays
  <2>3. stats'[i].called = stats[i].called /\ stats'[i].failed = stats[i].failed
    BY <1>0
  <2>4. i \notin reported' => i \notin reported /\ stats'[i] = stats[i]
    BY <1>0, <1>1
  <2>5. seen' = seen /\ running' = running
    BY <1>1
  <2>6. QED
    BY <2>1, <2>2, <2>3, <2>4, <2>5
<1>4. ResultsFinal'
  <2>1. reported \subseteq Ids
    BY DEF IInv, TypeOK
  <2>2. \A i \in Ids \ reported' : result'[i] = NoResult
    BY <1>1, <1>2 DEF IInv, ResultsFinal
  <2>3. ASSUME NEW i \in reported'
        PROVE  \E order \in Orderings(LoggedDelays(i)) :
                 stats'[i].delays = order /\ result'[i] = Summary(stats'[i], order)
    <3>1. CASE i = id
      <4>1. sorted \in Orderings(LoggedDelays(id))
        BY <1>0
      <4>2. result'[id] = Summary(stats'[id], sorted)
        BY <1>0, <1>2
      <4>3. QED
        BY <1>0, <3>1, <4>1, <4>2
    <3>2. CASE i # id
      <4>1. i \in reported /\ i \in Ids
        BY <1>1, <2>1, <2>3, <3>2
      <4>2. stats'[i] = stats[i] /\ result'[i] = result[i]
        BY <1>0, <1>2, <3>2, <4>1
      <4>3. \E order \in Orderings(LoggedDelays(i)) :
              stats[i].delays = order /\ result[i] = Summary(stats[i], order)
        BY <4>1 DEF IInv, ResultsFinal
      <4>4. QED
        BY <4>2, <4>3
    <3>3. QED
      BY <3>1, <3>2
  <2>4. \A i : LoggedDelays(i)' = LoggedDelays(i)
    BY <1>1 DEF LoggedDelays
  <2>5. reporting'
    BY <1>1
  <2>6. QED
    BY <2>2, <2>3, <2>4, <2>5 DEF ResultsFinal, NoResult, Summary
<1>5. SeenSelected'
  BY <1>1 DEF IInv, SeenSelected, Selected
<1>6. FindingsGenerated'
  <2>1. running \in [Ids -> Seq({Recorded(c) : c \in Calls})] /\ reported \subseteq Ids
    BY DEF IInv, TypeOK
  <2>2. \A x : generateOverallFinding(x, result)' = generateOverallFinding(x, result')
    BY <1>1, RulesReadLog
  <2>3. ASSUME NEW x \in Ids, Home(x) # id
        PROVE  generateOverallFinding(x, result') = generateOverallFinding(x, result)
    <3>1. result'[Home(x)] = result[Home(x)]
      BY <1>2, <2>3, HomeOfName
    <3>2. QED
      BY <3>1, RulesSeeHome
  <2>4. ASSUME NEW f \in findings
        PROVE  f.id \in reported' /\ f \in generateOverallFinding(f.id, result')
    <3>1. f.id \in reported /\ f.id \in Ids /\ f \in generateOverallFinding(f.id, result)
      BY <2>1 DEF IInv, FindingsGenerated
    <3>2. Home(f.id) # id
      <4>1. CASE Name(f.id) # ""
        BY <1>1, <3>1, <4>1, HomeOfName
      <4>2. CASE Name(f.id) = ""
        <5>1. FailingTooMuch(result[Home(f.id)]) \/ DelayTooLong(result[Home(f.id)])
          BY <2>1, <3>1, <4>2, FindingShape
        <5>2. Home(f.id) \in reported
          BY <3>1, <5>1, HomeOfName, NothingWithoutCalls DEF IInv, ResultsFinal
        <5>3. QED
          BY <1>1, <5>2
      <4>3. QED
        BY <4>1, <4>2
    <3>3. QED
      BY <1>1, <2>3, <3>1, <3>2
  <2>5. ASSUME NEW f \in generateOverallFinding(id, result')
        PROVE  f.id \in reported' /\ f \in generateOverallFinding(f.id, result')
    <3>1. f.id = id
      BY <2>1, <2>5, FindingShape
    <3>2. QED
      BY <1>1, <2>5, <3>1
  <2>6. ASSUME NEW x \in reported', Name(x) # ""
        PROVE  generateOverallFinding(x, result') \subseteq findings'
    <3>1. CASE x = id
      BY <1>1, <3>1
    <3>2. CASE x # id
      <4>1. x \in reported /\ x \in Ids
        BY <1>1, <2>1, <3>2
      <4>2. Home(x) # id
        BY <2>6, <3>2, <4>1, HomeOfName
      <4>3. generateOverallFinding(x, result') = generateOverallFinding(x, result)
        BY <2>3, <4>1, <4>2
      <4>4. generateOverallFinding(x, result) \subseteq findings
        BY <2>6, <4>1 DEF IInv, FindingsGenerated
      <4>5. QED
        BY <1>1, <4>3, <4>4
    <3>3. QED
      BY <3>1, <3>2
  <2>7. \A f \in findings' : f.id \in reported' /\ f \in generateOverallFinding(f.id, result')
    BY <1>1, <2>4, <2>5
  <2>8. \A x : Name(x)' = Name(x)
    BY DEF Name
  <2>9. QED
    BY <2>2, <2>6, <2>7, <2>8 DEF FindingsGenerated
<1>7. TypeOK'
  <2>1. Summary(stats[id], sorted).called \in Nat /\ Summary(stats[id], sorted).failed \in Nat
    BY SummaryCounts DEF IInv, TypeOK
  <2>2. DOMAIN result' = Ids /\ \A i \in Ids : {result'[i].called, result'[i].failed} \subseteq Nat
    BY <1>1, <1>2, <2>1 DEF IInv, TypeOK
  <2>3. running' \in [Ids -> Seq({Recorded(c) : c \in Calls})] /\ reported' \subseteq Ids
    BY <1>1 DEF IInv, TypeOK
  <2>4. \A f \in findings' :
          /\ f.id \in Ids
          /\ f.risk_level \in Critical..Low
          /\ f.call \in Nat
          /\ f.rule \in Rules \cup {NoRule}
    <3>1. running \in [Ids -> Seq({Recorded(c) : c \in Calls})] /\ reported \subseteq Ids
            /\ FindingsGenerated
      BY DEF IInv, TypeOK
    <3>2. ASSUME NEW f \in findings'
          PROVE  /\ f.id \in Ids
                 /\ f.risk_level \in Critical..Low
                 /\ f.call \in Nat
                 /\ f.rule \in Rules \cup {NoRule}
      <4>1. CASE f \in findings
        <5>1. f.id \in Ids /\ f \in generateOverallFinding(f.id, result)
          BY <3>1, <4>1 DEF FindingsGenerated
        <5>2. QED
          BY <3>1, <5>1, FindingShape
      <4>2. CASE f \in generateOverallFinding(id, result')
        <5>1. running \in [Ids -> Seq({Recorded(c) : c \in Calls})]
          BY <3>1
        <5>2. f.id = id /\ f.risk_level \in Critical..Low /\ f.call \in Nat
                /\ f.rule \in Rules \cup {NoRule}
          BY <5>1, <4>2, FindingShape
        <5>3. QED
          BY <5>2
      <4>3. QED
        BY <1>1, <3>2, <4>1, <4>2
    <3>3. QED
      BY <3>2
  <2>5. QED
    BY <1>0, <1>1, <2>2, <2>4 DEF IInv, TypeOK
<1>8. QED
  BY <1>3, <1>4, <1>5, <1>6, <1>7 DEF IInv
-----------------------------------------------------------------------------
(***************************************************************************)
(* The theorems.                                                           *)
(***************************************************************************)

\* In every state the books agree with the log, and the findings are those the
\* rules make of the final results.
THEOREM RulesInvariant == Spec => []IInv
<1>1. Init => IInv
  BY RulesInit
<1>2. IInv /\ [Next]_vars => IInv'
  <2> SUFFICES ASSUME IInv, [Next]_vars
               PROVE  IInv'
    OBVIOUS
  <2>1. ASSUME NEW c \in Calls, Capture(c)
        PROVE  IInv'
    BY <2>1, CaptureStep
  <2>2. CASE EndCapture
    BY <2>2, EndCaptureStep
  <2>3. ASSUME NEW id \in Ids, Report(id)
        PROVE  IInv'
    BY <2>3, ReportStep
  <2>4. CASE vars' = vars
    <3>1. UNCHANGED <<targetSyscall, reporting, seen, stats, running, result, reported, findings>>
      BY <2>4 DEF vars
    <3>2. TypeOK'
      BY <3>1 DEF IInv, TypeOK
    <3>3. BooksAgree'
      BY <3>1 DEF IInv, BooksAgree, Failed, LoggedDelays
    <3>4. ResultsFinal'
      BY <3>1 DEF IInv, ResultsFinal, LoggedDelays
    <3>5. SeenSelected'
      BY <3>1 DEF IInv, SeenSelected, Selected
    <3>6. FindingsGenerated'
      <4>1. \A x : generateOverallFinding(x, result)' = generateOverallFinding(x, result)
        <5>1. result' = result /\ \A x : generateOverallFinding(x, result)' = generateOverallFinding(x, result')
          BY <3>1, RulesReadLog
        <5>2. QED
          BY <5>1
      <4>2. \A x : Name(x)' = Name(x)
        BY DEF Name
      <4>3. QED
        BY <3>1, <4>1, <4>2 DEF IInv, FindingsGenerated
    <3>7. QED
      BY <3>2, <3>3, <3>4, <3>5, <3>6 DEF IInv
  <2>5. QED
    BY <2>1, <2>2, <2>3, <2>4 DEF Next, Done
<1>3. QED
  BY <1>1, <1>2, PTL DEF Spec

\* Every variable has its type, and no level is below Low or above Critical.
THEOREM RulesTypeCorrect == Spec => []TypeOK
<1>1. IInv => TypeOK
  BY DEF IInv
<1>2. QED
  BY <1>1, RulesInvariant, PTL

\* Where the calls of a finding come from.
LEMMA HomeReported ==
  ASSUME IInv, NEW f \in findings
  PROVE  /\ f.id \in Ids /\ Home(f.id) \in reported /\ Home(f.id) \in Ids
         /\ f.related_syscall = Name(f.id)
         /\ f.snapshot = result[Home(f.id)]
         /\ f.snapshot.called = Len(running[Home(f.id)])
         /\ f.related_syscall = "" => f.risk_category \in {"failing_too_much", "delay_too_high"}
<1>1. running \in [Ids -> Seq({Recorded(c) : c \in Calls})] /\ reported \subseteq Ids
  BY DEF IInv, TypeOK
<1>2. f.id \in Ids /\ f.id \in reported /\ f \in generateOverallFinding(f.id, result)
  BY <1>1 DEF IInv, FindingsGenerated
<1>3. /\ f.related_syscall = Name(f.id)
      /\ f.snapshot = result[Home(f.id)]
      /\ Name(f.id) = "" =>
           /\ f.risk_category \in {"failing_too_much", "delay_too_high"}
           /\ FailingTooMuch(result[Home(f.id)]) \/ DelayTooLong(result[Home(f.id)])
  BY <1>1, <1>2, FindingShape
<1>4. Home(f.id) \in Ids
  BY <1>2, HomeOfName
<1>5. Home(f.id) \in reported
  <2>1. CASE Name(f.id) # ""
    BY <1>2, <2>1, HomeOfName
  <2>2. CASE Name(f.id) = ""
    <3>1. result[Home(f.id)] # NoResult
      BY <1>3, <2>2, NothingWithoutCalls
    <3>2. QED
      BY <1>4, <3>1 DEF IInv, ResultsFinal
  <2>3. QED
    BY <2>1, <2>2
<1>6. result[Home(f.id)].called = Len(running[Home(f.id)])
  <2>1. \E sorted : result[Home(f.id)] = Summary(stats[Home(f.id)], sorted)
    BY <1>5 DEF IInv, ResultsFinal
  <2>2. stats[Home(f.id)].called = Len(running[Home(f.id)])
    BY <1>4 DEF IInv, BooksAgree
  <2>3. QED
    BY <2>1, <2>2, SummaryCounts
<1>7. QED
  BY <1>2, <1>3, <1>4, <1>5, <1>6

\* Findings are about the calls of their own system call; those of ids without a
\* name about system call 0.
THEOREM RulesOwnCalls == Spec => []FindingsOfOwnCalls
<1>1. IInv => FindingsOfOwnCalls
  <2> SUFFICES ASSUME IInv, NEW f \in findings
               PROVE  LET id == IF f.related_syscall = "" THEN 0 ELSE f.id
                      IN  /\ f.related_syscall = Name(f.id)
                          /\ f.snapshot = result[id]
                          /\ f.snapshot.called = Len(running[id])
                          /\ f.related_syscall = "" =>
                               f.risk_category \in {"failing_too_much", "delay_too_high"}
    BY DEF FindingsOfOwnCalls
  <2>1. Home(f.id) = IF f.related_syscall = "" THEN 0 ELSE f.id
    BY HomeReported, HomeOfName
  <2>2. QED
    BY <2>1, HomeReported
<1>2. QED
  BY <1>1, RulesInvariant, PTL

\* With a filter, findings show calls of the names in it only.
THEOREM RulesOfSelected == Spec => []FindingsOfSelected
<1>1. IInv => FindingsOfSelected
  <2> SUFFICES ASSUME IInv, NEW f \in findings
               PROVE  \/ targetSyscall = <<"">>
                      \/ \E j \in DOMAIN targetSyscall : targetSyscall[j] = Name(Home(f.id))
    BY DEF FindingsOfSelected
  <2>1. Home(f.id) \in seen
    BY HomeReported DEF IInv, TypeOK
  <2>2. QED
    BY <2>1 DEF IInv, SeenSelected, Selected
<1>2. QED
  BY <1>1, RulesInvariant, PTL

\* The category of a finding tells the rule that made it.
LEMMA RuleOfCategory ==
  ASSUME NEW id, NEW results, NEW f \in generateOverallFinding(id, results)
  PROVE  /\ f.risk_category = "arg_sensitive" => f \in SensitiveArgs(id, results)
         /\ f.risk_category = "abnormal_ret_val" => f \in AbnormalRetVal(id, results)
         /\ f.risk_category = "failing_too_much" => f \in HighFailingRate(id, results)
         /\ f.risk_category = "delay_too_high" => f \in HighDelay(id, results)
<1>1. f \in SensitiveSyscall(id, results) => f.risk_category = "sensitive"
  BY DEF SensitiveSyscall, Risk
<1>2. f \in HighDelay(id, results) => f.risk_category = "delay_too_high"
  BY DEF HighDelay, Risk
<1>3. f \in HighFailingRate(id, results) => f.risk_category = "failing_too_much"
  BY DEF HighFailingRate, Risk
<1>4. f \in SensitiveArgs(id, results) => f.risk_category = "arg_sensitive"
  BY DEF SensitiveArgs, Risk
<1>5. f \in AbnormalRetVal(id, results) => f.risk_category = "abnormal_ret_val"
  BY DEF AbnormalRetVal, Risk
<1>6. QED
  BY <1>1, <1>2, <1>3, <1>4, <1>5 DEF generateOverallFinding

\* A call is quoted for a rule if and only if the pattern matches its text.
LEMMA QuotedIfMatched ==
  ASSUME IInv, NEW id \in reported, Name(id) \in DOMAIN sensitiveArgSyscalls,
         NEW j \in DOMAIN running[id], NEW rule \in sensitiveArgSyscalls[Name(id)]
  PROVE  Quoted(id, j, rule) <=> MatchString(rule, Name(id), running[id][j].args)
<1>1. id \in Ids
  BY DEF IInv, TypeOK
<1>2. Name(id) # "" /\ Home(id) = id
  BY <1>1, NoNameListed, HomeOfName
<1> DEFINE level == IF Name(id) \in sensitiveSyscalls THEN Critical ELSE High
           found == {n \in (DOMAIN running[id]) \X sensitiveArgSyscalls[Name(id)] :
                       MatchString(n[2], Name(id), running[id][n[1]].args)}
<1>3. SensitiveArgs(id, result)
        = {Risk(id, "arg_sensitive", level, m[1], m[2], result) : m \in found}
  BY <1>2 DEF SensitiveArgs
<1>4. ASSUME MatchString(rule, Name(id), running[id][j].args)
      PROVE  Quoted(id, j, rule)
  <2> DEFINE f == Risk(id, "arg_sensitive", level, j, rule, result)
  <2>1. <<j, rule>> \in found
    BY <1>4
  <2>2. f = Risk(id, "arg_sensitive", level, <<j, rule>>[1], <<j, rule>>[2], result)
    OBVIOUS
  <2> HIDE DEF level, found, f
  <2>3. f \in SensitiveArgs(id, result)
    BY <1>3, <2>1, <2>2
  <2>4. f \in findings
    BY <1>2, <2>3 DEF IInv, FindingsGenerated, generateOverallFinding
  <2>5. f.id = id /\ f.risk_category = "arg_sensitive" /\ f.call = j /\ f.rule = rule
    BY DEF f, Risk
  <2>6. QED
    BY <2>4, <2>5 DEF Quoted
<1>5. ASSUME Quoted(id, j, rule)
      PROVE  MatchString(rule, Name(id), running[id][j].args)
  <2>1. PICK f \in findings :
          f.id = id /\ f.risk_category = "arg_sensitive" /\ f.call = j /\ f.rule = rule
    BY <1>5 DEF Quoted
  <2>2. f \in SensitiveArgs(id, result)
    BY <2>1, RuleOfCategory DEF IInv, FindingsGenerated
  <2> HIDE DEF level, found
  <2>3. PICK m \in found : f = Risk(id, "arg_sensitive", level, m[1], m[2], result)
    BY <1>3, <2>2
  <2>4. m[1] = j /\ m[2] = rule
    BY <2>1, <2>3 DEF Risk
  <2>5. QED
    BY <2>3, <2>4 DEF found
<1>6. QED
  BY <1>4, <1>5

\* Where a pattern may match at all, it finds the flags it is for in every call,
\* and no others but the two names that are the beginning of another.
THEOREM RulesVisibleFlags == Spec => []VisibleFlagsFound
<1>1. IInv => VisibleFlagsFound
  <2> SUFFICES ASSUME IInv, NEW id \in reported, Name(id) \in DOMAIN sensitiveArgSyscalls,
                      NEW j \in DOMAIN running[id],
                      NEW rule \in sensitiveArgSyscalls[Name(id)],
                      rule.field = LastField(Name(id)) \/ ~rule.atEnd
               PROVE  /\ Shows(rule, running[id][j]) => Quoted(id, j, rule)
                      /\ Quoted(id, j, rule) =>
                           /\ rule.field \in DOMAIN running[id][j].args
                           /\ rule.names \subseteq running[id][j].args[rule.field]
                                \cup {"PTRACE_SETREGS", "SECCOMP_FILTER_FLAG_TSYNC"}
    BY DEF VisibleFlagsFound
  <2> DEFINE args == running[id][j].args
  <2>1. Quoted(id, j, rule) <=> MatchString(rule, Name(id), args)
    BY QuotedIfMatched
  <2>2. \A name : name \in Containing(name)
    BY DEF Containing
  <2>3. \A name : Containing(name) = {name}
                  \/ name \in {"PTRACE_SETREGS", "SECCOMP_FILTER_FLAG_TSYNC"}
    BY DEF Containing
  <2> HIDE DEF args
  <2>4. Shows(rule, running[id][j]) => MatchString(rule, Name(id), args)
    BY <2>2 DEF Shows, MatchString, args
  <2>5. MatchString(rule, Name(id), args) =>
          /\ rule.field \in DOMAIN args
          /\ rule.names \subseteq args[rule.field]
               \cup {"PTRACE_SETREGS", "SECCOMP_FILTER_FLAG_TSYNC"}
    BY <2>3 DEF MatchString
  <2>6. QED
    BY <2>1, <2>4, <2>5 DEF args
<1>2. QED
  BY <1>1, RulesInvariant, PTL

\* A call with an abnormal return value counts as failed, and the value has one
\* level.
LEMMA AbnormalIsError ==
  /\ \A x \in sensitiveSyscallsWithErrno : Errno(x[1], Half) > 0
  /\ \A x, y \in sensitiveSyscallsWithErrno : x[1] = y[1] => x[3] = y[3]
<1>1. \A x \in sensitiveSyscallsWithErrno :
        \/ x[1] = -1 /\ x[3] = Critical
        \/ x[1] \in {-2, -11, -12, -23, -24} /\ x[3] = High
        \/ x[1] \in {-101, -110, -111, -113} /\ x[3] = Low
  BY DEF sensitiveSyscallsWithErrno, Abnormal, errno
<1>2. MaxErrno \in Nat /\ Half \in Nat /\ MaxErrno < Half /\ -113 \in -MaxErrno .. -1
  BY RulesAssumption DEF errno
<1>3. ASSUME NEW n \in -113 .. -1 PROVE Errno(n, Half) > 0
  <2>1. Half > 113 /\ n < 0
    BY <1>2
  <2>2. -n + Half \in 0..(2 * Half - 1) /\ -n > 0
    BY <1>2, <2>1
  <2>3. (-n + Half) % (2 * Half) = -n + Half
    BY <1>2, <2>2
  <2>4. QED
    BY <1>2, <2>1, <2>2, <2>3 DEF Errno, Truncated
<1>4. \A x \in sensitiveSyscallsWithErrno : x[1] \in -113 .. -1
  BY <1>1
<1>5. \A x, y \in sensitiveSyscallsWithErrno : x[1] = y[1] => x[3] = y[3]
  BY <1>1
<1>6. QED
  BY <1>3, <1>4, <1>5

LEMMA FailedFinite ==
  ASSUME IInv, NEW id \in Ids
  PROVE  IsFiniteSet(Failed(id))
<1> DEFINE S == {Recorded(c) : c \in Calls}
           log == running[id]
<1>1. running \in [Ids -> Seq(S)]
  BY DEF IInv, TypeOK
<1> HIDE DEF S
<1>2. log \in Seq(S)
  BY <1>1
<1> HIDE DEF log
<1>3. DOMAIN log = 1..Len(log) /\ Len(log) \in Nat
  BY <1>2
<1>4. Failed(id) \subseteq 1..Len(log)
  BY <1>3 DEF Failed, log
<1>5. IsFiniteSet(1..Len(log))
  BY <1>3, FS_Interval
<1>6. QED
  BY <1>4, <1>5, FS_Subset

\* The abnormal findings of an id are no more than its failed calls, and it is
\* found to fail too much exactly if the log says so.
THEOREM RulesFailures == Spec => []FailuresAgree
<1>1. IInv => FailuresAgree
  <2> SUFFICES ASSUME IInv, NEW id \in reported, Name(id) # ""
               PROVE  /\ Cardinality({f \in findings : f.id = id /\ f.risk_category = "abnormal_ret_val"})
                           <= result[id].failed
                      /\ (\E f \in findings : f.id = id /\ f.risk_category = "failing_too_much") <=>
                           /\ Len(running[id]) >= MinCalled
                           /\ RateWhole * Cardinality(Failed(id)) >= RatePart * Len(running[id])
    BY DEF FailuresAgree
  <2>1. id \in Ids /\ Home(id) = id
    BY HomeOfName DEF IInv, TypeOK
  <2>2. result[id].failed = Cardinality(Failed(id)) /\ result[id].called = Len(running[id])
    <3>1. PICK sorted : result[id] = Summary(stats[id], sorted)
      BY DEF IInv, ResultsFinal
    <3>2. stats[id].failed = Cardinality(Failed(id)) /\ stats[id].called = Len(running[id])
      BY <2>1 DEF IInv, BooksAgree
    <3>3. /\ Summary(stats[id], sorted).called = stats[id].called
          /\ Summary(stats[id], sorted).failed = stats[id].failed
      BY SummaryCounts
    <3>4. QED
      BY <3>1, <3>2, <3>3, Zenon
  <2>3. generateOverallFinding(id, result) \subseteq findings
    BY DEF IInv, FindingsGenerated
  <2>4. \A f \in findings : f.id = id => f \in generateOverallFinding(id, result)
    BY DEF IInv, FindingsGenerated
  <2> DEFINE A == {f \in findings : f.id = id /\ f.risk_category = "abnormal_ret_val"}
             E == Failed(id)
  <2>5. ASSUME NEW f \in A
        PROVE  \E x \in sensitiveSyscallsWithErrno :
                 /\ f.call \in DOMAIN running[id]
                 /\ running[id][f.call].ret = x[1]
                 /\ f = Risk(id, "abnormal_ret_val", Raised(id, x[3]), f.call, NoRule, result)
    <3>1. f \in AbnormalRetVal(id, result)
      BY <2>4, <2>5, RuleOfCategory
    <3>2. PICK j \in DOMAIN running[id], x \in sensitiveSyscallsWithErrno :
            /\ running[id][j].ret = x[1]
            /\ f = Risk(id, "abnormal_ret_val", Raised(id, x[3]), j, NoRule, result)
      BY <2>1, <3>1 DEF AbnormalRetVal
    <3>3. f.call = j
      BY <3>2 DEF Risk
    <3>4. QED
      BY <3>2, <3>3
  <2>6. Cardinality(A) <= Cardinality(E)
    <3> DEFINE g == [f \in A |-> f.call]
    <3> HIDE DEF A
    <3>1. \A f \in A : f.call \in E
      BY <2>5, AbnormalIsError DEF Failed
    <3>2. ASSUME NEW f \in A, NEW h \in A, f.call = h.call
          PROVE  f = h
      <4>1. PICK x \in sensitiveSyscallsWithErrno :
              /\ running[id][f.call].ret = x[1]
              /\ f = Risk(id, "abnormal_ret_val", Raised(id, x[3]), f.call, NoRule, result)
        BY <2>5
      <4>2. PICK y \in sensitiveSyscallsWithErrno :
              /\ running[id][h.call].ret = y[1]
              /\ h = Risk(id, "abnormal_ret_val", Raised(id, y[3]), h.call, NoRule, result)
        BY <2>5
      <4>3. x[3] = y[3]
        BY <3>2, <4>1, <4>2, AbnormalIsError
      <4>4. QED
        BY Zenon, <3>2, <4>1, <4>2, <4>3
    <3> HIDE DEF E
    <3>3. g \in Injection(A, E)
      BY <3>1, <3>2 DEF Injection, IsInjective
    <3>4. IsFiniteSet(E)
      BY <2>1, FailedFinite DEF E
    <3>5. QED
      BY <3>3, <3>4, FS_Injection
  <2>7. (\E f \in findings : f.id = id /\ f.risk_category = "failing_too_much")
          <=> FailingTooMuch(result[id])
    <3>1. ASSUME FailingTooMuch(result[id])
          PROVE  \E f \in findings : f.id = id /\ f.risk_category = "failing_too_much"
      <4> DEFINE f == Risk(id, "failing_too_much",
                           IF Name(id) \in sensitiveFailingSyscalls THEN High ELSE Low,
                           0, NoRule, result)
      <4>1. f \in HighFailingRate(id, result)
        BY <2>1, <3>1 DEF HighFailingRate
      <4>2. f.id = id /\ f.risk_category = "failing_too_much"
        BY DEF Risk
      <4> HIDE DEF f
      <4>3. f \in findings
        BY <2>3, <4>1 DEF generateOverallFinding
      <4>4. QED
        BY <4>2, <4>3
    <3>2. ASSUME NEW f \in findings, f.id = id, f.risk_category = "failing_too_much"
          PROVE  FailingTooMuch(result[id])
      <4>1. f \in HighFailingRate(id, result)
        BY <2>4, <3>2, RuleOfCategory
      <4>2. QED
        BY <2>1, <4>1 DEF HighFailingRate
    <3>3. QED
      BY <3>1, <3>2
  <2>8. QED
    BY <2>2, <2>6, <2>7 DEF FailingTooMuch
<1>2. QED
  BY <1>1, RulesInvariant, PTL

\* What a function makes of an interval is no larger than the interval.
LEMMA ImageBound ==
  ASSUME NEW n \in Nat, NEW f, NEW T, \A t \in T : \E k \in 1..n : f[k] = t
  PROVE  IsFiniteSet(T) /\ Cardinality(T) <= n
<1> DEFINE U == {f[k] : k \in 1..n}
           g == [k \in 1..n |-> f[k]]
<1>1. g \in Surjection(1..n, U)
  BY DEF Surjection
<1>2. IsFiniteSet(1..n) /\ Cardinality(1..n) = n
  BY FS_Interval
<1>3. IsFiniteSet(U) /\ Cardinality(U) <= Cardinality(1..n)
  BY <1>1, <1>2, FS_Surjection
<1>4. T \in SUBSET U
  OBVIOUS
<1>5. IsFiniteSet(T) /\ Cardinality(T) <= Cardinality(U)
  BY <1>3, <1>4, FS_Subset
<1>6. Cardinality(T) \in Nat /\ Cardinality(U) \in Nat
  BY <1>3, <1>5, FS_CardinalityType
<1>7. QED
  BY <1>2, <1>3, <1>5, <1>6

\* The middle of a sorted sequence is not above what comes after its first half.
LEMMA MiddleBound ==
  ASSUME NEW n \in Nat, n > 0, NEW s, DOMAIN s = 1..n, Len(s) = n,
         \A j \in 1..n : s[j] \in Nat, Sorted(s)
  PROVE  /\ Middle(s) \in Nat
         /\ n \div 2 \in 0..n
         /\ 2 * (n - n \div 2) >= n
         /\ \A k \in (n \div 2 + 1)..n : Middle(s) <= s[k]
<1> DEFINE h == n \div 2
<1>1. h \in Nat /\ h < n /\ 2 * h <= n /\ 2 * (n - h) >= n
  OBVIOUS
<1>2. \A k \in (h + 1)..n : s[h + 1] <= s[k]
  BY <1>1 DEF Sorted
<1>3. s[h + 1] \in Nat
  BY <1>1
<1>4. CASE n % 2 = 0
  <2>1. n = 2 * h /\ h \in 1..n /\ h - 1 + 1 = h
    BY <1>1, <1>4
  <2>2. s[h] \in Nat /\ s[h] <= s[h + 1]
    BY <1>1, <2>1 DEF Sorted
  <2>3. Middle(s) = (s[h] + s[h + 1]) \div 2
    BY <1>4, <2>1 DEF Middle, At
  <2>4. \A a, b \in Nat : a <= b => (a + b) \div 2 \in Nat /\ (a + b) \div 2 <= b
    OBVIOUS
  <2>5. Middle(s) \in Nat /\ Middle(s) <= s[h + 1]
    BY <1>3, <2>2, <2>3, <2>4
  <2>6. QED
    BY <1>1, <1>2, <1>3, <2>5
<1>5. CASE n % 2 # 0
  <2>1. Middle(s) = s[h + 1]
    BY <1>5 DEF Middle, At
  <2>2. QED
    BY <1>1, <1>2, <1>3, <2>1
<1>6. QED
  BY <1>1, <1>4, <1>5

\* What the percentiles of a sorted slice say of the slice before the sort: if
\* the middle is above a limit, half of the delays are, and what P99 is above is
\* exceeded by a delay.
LEMMA SlowDelays ==
  ASSUME NEW d \in Seq(Nat), d # <<>>, NEW s \in Orderings(d), NEW w \in Nat, NEW v \in Nat,
         Middle(s) > w, At(s, (99 * Len(s)) \div 100) > v
  PROVE  /\ 2 * Cardinality({j \in DOMAIN d : d[j] > w}) >= Len(d)
         /\ \E j \in DOMAIN d : d[j] > v
<1>1. PICK n \in Nat : n = Len(d) /\ n > 0 /\ DOMAIN d = 1..n /\ \A j \in 1..n : d[j] \in Nat
  OBVIOUS
<1>2. PICK g \in Moves(n) : s = Moved(d, g) /\ Sorted(s)
  BY <1>1 DEF Orderings, InOrder
<1>3. g \in [1..n -> 1..n] /\ \A j \in 1..n : \E k \in 1..n : g[k] = j
  BY <1>2 DEF Moves
<1>4. s = [j \in 1..n |-> d[g[j]]]
  BY <1>1, <1>2 DEF Moved
<1>5. \A j \in 1..n : s[j] \in Nat /\ s[j] = d[g[j]]
  BY <1>1, <1>3, <1>4
<1>6. DOMAIN s = 1..n /\ Len(s) = n
  BY <1>1, <1>4
<1>7. PICK h \in 0..n :
        /\ Middle(s) \in Nat
        /\ 2 * (n - h) >= n
        /\ \A k \in (h + 1)..n : Middle(s) <= s[k]
  <2>1. /\ Middle(s) \in Nat
        /\ n \div 2 \in 0..n
        /\ 2 * (n - n \div 2) >= n
        /\ \A k \in (n \div 2 + 1)..n : Middle(s) <= s[k]
    BY <1>1, <1>2, <1>5, <1>6, MiddleBound
  <2>2. QED
    BY <2>1
<1> DEFINE slow == {j \in 1..n : d[j] > w}
           quick == (1..n) \ slow
<1>8. IsFiniteSet(quick) /\ Cardinality(quick) <= h
  <2>1. ASSUME NEW j \in quick
        PROVE  \E k \in 1..h : g[k] = j
    <3>1. j \in 1..n /\ ~(d[j] > w)
      BY <2>1
    <3>2. PICK k \in 1..n : g[k] = j
      BY <1>3, <3>1
    <3>3. s[k] \in Nat /\ ~(s[k] > w)
      BY <1>5, <3>1, <3>2
    <3>4. k \notin (h + 1)..n
      BY <1>7, <3>3
    <3>5. k \in 1..h
      BY <1>1, <3>4
    <3>6. QED
      BY <3>2, <3>5
  <2>2. h \in Nat
    BY <1>1
  <2> HIDE DEF quick
  <2>3. QED
    BY <2>1, <2>2, ImageBound
<1>9. Cardinality(slow) \in Nat /\ Cardinality(quick) \in Nat
        /\ Cardinality(quick) = n - Cardinality(slow)
  <2>1. IsFiniteSet(1..n) /\ Cardinality(1..n) = n
    <3>1. n \in Int /\ n > 0
      BY <1>1
    <3>2. QED
      BY <3>1, FS_Interval
  <2>2. (1..n) \cap slow = slow /\ slow \in SUBSET (1..n)
    OBVIOUS
  <2> HIDE DEF slow
  <2>3. Cardinality((1..n) \ slow) = Cardinality(1..n) - Cardinality((1..n) \cap slow)
    BY <2>1, FS_Difference
  <2>4. IsFiniteSet(slow)
    BY <2>1, <2>2, FS_Subset
  <2>5. Cardinality(slow) \in Nat /\ Cardinality(quick) \in Nat
    BY <1>8, <2>4, FS_CardinalityType
  <2>6. QED
    BY <2>1, <2>2, <2>3, <2>5
<1>10. 2 * Cardinality(slow) >= n
  <2> HIDE DEF slow, quick
  <2>1. QED
    BY <1>1, <1>7, <1>8, <1>9
<1>11. PICK q \in 1..n : s[q] > v
  <2>1. (99 * n) \div 100 \in Nat /\ (99 * n) \div 100 < n
    BY <1>1
  <2>2. s[(99 * n) \div 100 + 1] > v
    BY <1>6 DEF At
  <2>3. QED
    BY <2>1, <2>2
<1>12. g[q] \in 1..n /\ d[g[q]] > v
  BY <1>3, <1>5, <1>11
<1>13. QED
  BY <1>1, <1>10, <1>12

LEMMA SlowLog ==
  ASSUME NEW T, NEW log \in Seq(T), log # <<>>,
         NEW d \in Seq(Nat), d = [j \in DOMAIN log |-> log[j].delay],
         NEW s \in Orderings(d), NEW w \in Nat, NEW v \in Nat,
         Middle(s) > w, At(s, (99 * Len(s)) \div 100) > v
  PROVE  /\ 2 * Cardinality({j \in DOMAIN log : log[j].delay > w}) >= Len(log)
         /\ {j \in DOMAIN log : log[j].delay > v} # {}
<1>1. DOMAIN d = DOMAIN log /\ \A j \in DOMAIN log : d[j] = log[j].delay
  OBVIOUS
<1>2. /\ DOMAIN d = 1..Len(d) /\ Len(d) \in Nat
      /\ DOMAIN log = 1..Len(log) /\ Len(log) \in Nat /\ Len(log) > 0
  OBVIOUS
<1>3. Len(d) = Len(log) /\ d # <<>>
  BY <1>1, <1>2
<1>4. /\ 2 * Cardinality({j \in DOMAIN d : d[j] > w}) >= Len(d)
      /\ \E j \in DOMAIN d : d[j] > v
  BY <1>3, SlowDelays
<1>5. {j \in DOMAIN d : d[j] > w} = {j \in DOMAIN log : log[j].delay > w}
  BY <1>1
<1>6. \E j \in DOMAIN log : log[j].delay > v
  BY <1>1, <1>4
<1>7. QED
  BY <1>3, <1>4, <1>5, <1>6

LEMMA LoggedDelaysType ==
  ASSUME IInv, NEW id \in Ids
  PROVE  LoggedDelays(id) \in Seq(Nat)
<1> DEFINE S == {Recorded(c) : c \in Calls}
<1>1. running[id] \in Seq(S)
  BY DEF IInv, TypeOK
<1>2. \A r \in S : r.delay \in Nat
  <2>1. ASSUME NEW c \in Calls
        PROVE  Recorded(c).delay \in Nat
    <3>1. c.delay \in Nat
      BY RulesAssumption
    <3>2. Recorded(c).delay = c.delay
      BY DEF Recorded
    <3>3. QED
      BY <3>1, <3>2
  <2>2. QED
    BY <2>1
<1> HIDE DEF S
<1>3. PICK n \in Nat : DOMAIN running[id] = 1..n /\ \A j \in 1..n : running[id][j] \in S
  BY <1>1
<1>4. LoggedDelays(id) \in [1..n -> Nat]
  BY <1>2, <1>3 DEF LoggedDelays
<1>5. QED
  BY <1>4

\* What delay_too_high is found for shows in the log: half of its calls took
\* longer than the one warning delay, and a call longer than the other.
THEOREM RulesSlowCalls == Spec => []SlowCallsLogged
<1>1. IInv => SlowCallsLogged
  <2> SUFFICES ASSUME IInv, NEW f \in findings,
                      f.risk_category = "delay_too_high", f.related_syscall # ""
               PROVE  /\ 2 * Cardinality(Slower(f.id, WarningP50)) >= Len(running[f.id])
                      /\ Slower(f.id, WarningP99) # {}
    BY DEF SlowCallsLogged
  <2>1. PICK id \in reported :
          id = f.id /\ id \in Ids /\ Home(id) = id /\ f \in generateOverallFinding(id, result)
    <3>1. f.id \in reported /\ f.id \in Ids /\ f \in generateOverallFinding(f.id, result)
      BY DEF IInv, FindingsGenerated, TypeOK
    <3>2. Name(f.id) # ""
      BY HomeReported
    <3>3. Home(f.id) = f.id
      BY <3>1, <3>2, HomeOfName
    <3>4. QED
      BY <3>1, <3>3
  <2>2. DelayTooLong(result[id])
    <3>1. f \in HighDelay(id, result)
      BY <2>1, RuleOfCategory
    <3>2. QED
      BY <2>1, <3>1 DEF HighDelay
  <2>3. PICK T : running \in [Ids -> Seq(T)]
    BY DEF IInv, TypeOK
  <2>4. PICK log \in Seq(T), d \in Seq(Nat) :
          /\ log = running[id] /\ d = LoggedDelays(id)
          /\ d = [j \in DOMAIN log |-> log[j].delay] /\ log # <<>>
    <3>1. id \in seen /\ running[id] # <<>>
      BY <2>1 DEF IInv, TypeOK, BooksAgree
    <3>2. running[id] \in Seq(T)
      BY <2>1, <2>3
    <3>3. LoggedDelays(id) \in Seq(Nat)
      BY <2>1, LoggedDelaysType
    <3>4. QED
      BY <3>1, <3>2, <3>3 DEF LoggedDelays
  <2>5. PICK s \in Orderings(d) : result[id] = Summary(stats[id], s)
    BY <2>4 DEF IInv, ResultsFinal
  <2>6. Middle(s) > WarningP50 /\ At(s, (99 * Len(s)) \div 100) > WarningP99
    <3>1. /\ Summary(stats[id], s).p50 = Middle(s)
          /\ Summary(stats[id], s).p99 = At(s, (99 * Len(s)) \div 100)
      BY SummaryCounts
    <3>2. result[id].p50 = Middle(s) /\ result[id].p99 = At(s, (99 * Len(s)) \div 100)
      BY <2>5, <3>1, Zenon
    <3>3. result[id].p50 > WarningP50 /\ result[id].p99 > WarningP99
      BY <2>2 DEF DelayTooLong
    <3>4. QED
      BY <3>2, <3>3
  <2>7. /\ Slower(id, WarningP50) = {j \in DOMAIN log : log[j].delay > WarningP50}
        /\ Slower(id, WarningP99) = {j \in DOMAIN log : log[j].delay > WarningP99}
    BY <2>4 DEF Slower
  <2>8. WarningP50 \in Nat /\ WarningP99 \in Nat
    BY RulesAssumption
  <2>9. /\ 2 * Cardinality({j \in DOMAIN log : log[j].delay > WarningP50}) >= Len(log)
        /\ {j \in DOMAIN log : log[j].delay > WarningP99} # {}
    <3>1. log # <<>> /\ d = [j \in DOMAIN log |-> log[j].delay]
      BY <2>4
    <3>2. \A w, v \in Nat : Middle(s) > w /\ At(s, (99 * Len(s)) \div 100) > v =>
            /\ 2 * Cardinality({j \in DOMAIN log : log[j].delay > w}) >= Len(log)
            /\ {j \in DOMAIN log : log[j].delay > v} # {}
      BY <3>1, SlowLog
    <3>3. QED
      BY <2>6, <2>8, <3>2
  <2>10. QED
    BY <2>1, <2>4, <2>7, <2>9
<1>2. QED
  BY <1>1, RulesInvariant, PTL
-----------------------------------------------------------------------------
(***************************************************************************)
(* The report implements LatencySummary for every id.                      *)
(***************************************************************************)

LEMMA AppendAsFunction ==
  ASSUME NEW T, NEW q \in Seq(T), NEW e \in T
  PROVE  /\ Append(q, e) = [j \in 1..(Len(q) + 1) |-> Append(q, e)[j]]
         /\ \A j \in 1..Len(q) : Append(q, e)[j] = q[j]
         /\ Append(q, e)[Len(q) + 1] = e
<1> DEFINE r == Append(q, e)
<1>1. r \in Seq(T) /\ Len(r) = Len(q) + 1
  OBVIOUS
<1>2. (\A j \in 1..Len(q) : r[j] = q[j]) /\ r[Len(q) + 1] = e
  OBVIOUS
<1> HIDE DEF r
<1>3. r \in [1..Len(r) -> T]
  BY <1>1
<1>4. r = [j \in 1..Len(r) |-> r[j]]
  BY <1>3
<1>5. QED
  BY <1>1, <1>2, <1>4 DEF r

CallsOf(log) == [j \in DOMAIN log |-> [ret |-> log[j].ret, delay |-> log[j].delay]]

\* One event more in the history of the calls.
LEMMA OneCallMore ==
  ASSUME NEW S, NEW log \in Seq(S), NEW r \in S
  PROVE  CallsOf(Append(log, r)) = Append(CallsOf(log), [ret |-> r.ret, delay |-> r.delay])
<1> DEFINE call == [ret |-> r.ret, delay |-> r.delay]
           T == {CallsOf(log)[j] : j \in DOMAIN log} \cup {call}
           more == Append(log, r)
           longer == Append(CallsOf(log), call)
           mapped == CallsOf(more)
<1>1. PICK n \in Nat : n = Len(log) /\ DOMAIN log = 1..n
  OBVIOUS
<1>2. /\ DOMAIN more = 1..(n + 1)
      /\ \A j \in 1..n : more[j] = log[j]
      /\ more[n + 1] = r
  BY <1>1
<1>3. CallsOf(log) \in [1..n -> T] /\ call \in T
  BY <1>1 DEF CallsOf
<1>4. CallsOf(log) \in Seq(T) /\ Len(CallsOf(log)) = n
  <2> HIDE DEF T
  <2>1. CallsOf(log) \in Seq(T)
    BY <1>3
  <2>2. DOMAIN CallsOf(log) = 1..n
    BY <1>3
  <2>3. QED
    BY <2>1, <2>2
<1> HIDE DEF T, call, more
<1>5. /\ longer = [j \in 1..(n + 1) |-> longer[j]]
      /\ \A j \in 1..n : longer[j] = CallsOf(log)[j]
      /\ longer[n + 1] = call
  BY <1>3, <1>4, AppendAsFunction
<1> HIDE DEF longer
<1>6. mapped = [j \in 1..(n + 1) |-> [ret |-> more[j].ret, delay |-> more[j].delay]]
  BY <1>2 DEF CallsOf
<1>7. ASSUME NEW j \in 1..(n + 1)
      PROVE  longer[j] = [ret |-> more[j].ret, delay |-> more[j].delay]
  <2>1. CASE j \in 1..n
    BY <1>1, <1>2, <1>5, <2>1 DEF CallsOf
  <2>2. CASE j = n + 1
    BY <1>2, <1>5, <2>2 DEF call
  <2>3. QED
    BY <1>1, <2>1, <2>2
<1> HIDE DEF mapped
<1>8. longer = mapped
  BY <1>5, <1>6, <1>7
<1>9. QED
  BY <1>8 DEF longer, mapped, call, more

\* The events of one id are no more than those of all.
LEMMA CalledBelowEvents ==
  ASSUME IInv, NEW id \in Ids
  PROVE  /\ EventCount \in Nat
         /\ stats[id].called <= EventCount
<1> DEFINE Of(i) == {<<i, j>> : j \in DOMAIN running[i]}
           All == UNION {Of(i) : i \in Ids}
<1>1. PICK T : running \in [Ids -> Seq(T)]
  BY DEF IInv, TypeOK
<1>2. \A i \in Ids : IsFiniteSet(Of(i))
  <2> SUFFICES ASSUME NEW i \in Ids
               PROVE  IsFiniteSet(Of(i))
    OBVIOUS
  <2>1. PICK n \in Nat : DOMAIN running[i] = 1..n
    BY <1>1
  <2>2. IsFiniteSet(1..n)
    BY <2>1, FS_Interval
  <2> DEFINE f == [j \in 1..n |-> <<i, j>>]
  <2>3. f \in Surjection(1..n, Of(i))
    BY <2>1 DEF Surjection
  <2> HIDE DEF Of, f
  <2>4. QED
    BY <2>2, <2>3, FS_Surjection
<1>3. IsFiniteSet(All)
  <2> DEFINE Sets == {Of(i) : i \in Ids}
             g == [i \in Ids |-> Of(i)]
  <2> HIDE DEF Of
  <2>1. g \in Surjection(Ids, Sets)
    BY DEF Surjection
  <2>2. IsFiniteSet(Ids)
    BY RulesAssumption
  <2> HIDE DEF g
  <2>3. \A s \in Sets : IsFiniteSet(s)
    BY <1>2
  <2> HIDE DEF Sets
  <2>4. IsFiniteSet(Sets)
    BY <2>1, <2>2, FS_Surjection
  <2>5. IsFiniteSet(UNION Sets)
    BY <2>3, <2>4, FS_UNION
  <2>6. QED
    BY <2>5 DEF Sets
<1>4. PICK n \in Nat : n = Len(running[id]) /\ DOMAIN running[id] = 1..n
  BY <1>1
<1>5. IsFiniteSet(Of(id)) /\ Cardinality(Of(id)) = n
  <2> DEFINE f == [j \in 1..n |-> <<id, j>>]
  <2>1. f \in Bijection(1..n, Of(id))
    BY <1>4 DEF Bijection, Injection, Surjection, IsInjective
  <2>2. n \in Int
    BY <1>4
  <2>3. IsFiniteSet(1..n) /\ Cardinality(1..n) = n
    BY <2>2, FS_Interval
  <2> HIDE DEF Of, f
  <2>4. QED
    BY <2>1, <2>3, FS_Bijection DEF ExistsBijection
<1>6. Of(id) \in SUBSET All
  OBVIOUS
<1> HIDE DEF Of, All
<1>7. Cardinality(Of(id)) <= Cardinality(All) /\ Cardinality(All) \in Nat
  BY <1>3, <1>6, FS_Subset, FS_CardinalityType
<1>8. EventCount = Cardinality(All)
  BY DEF EventCount, All, Of
<1>9. stats[id].called = n
  BY <1>4 DEF IInv, BooksAgree
<1>10. QED
  BY <1>5, <1>7, <1>8, <1>9

\* The history of a record is the log, call by call.
LEMMA RecordVars ==
  ASSUME NEW id
  PROVE  Record(id)!vars = <<CallsOf(running[id]), stats[id].called, stats[id].failed,
                             stats[id].delays, result[id].p50, result[id].p99,
                             result[id].called>>
BY DEF Record!vars, CallsOf

LEMMA RecordInit ==
  ASSUME Init, NEW id \in Ids
  PROVE  Record(id)!Init
<1>1. /\ stats[id] = [called |-> 0, failed |-> 0, delays |-> <<>>]
      /\ running[id] = <<>>
      /\ result[id] = NoResult
  BY DEF Init
<1>2. CallsOf(<<>>) = <<>>
  BY DEF CallsOf
<1>3. result[id].called = 0 /\ result[id].p50 = 0 /\ result[id].p99 = 0
  BY <1>1 DEF NoResult
<1>4. QED
  BY <1>1, <1>2, <1>3 DEF Record!Init, CallsOf

\* An event is a call of the record it is logged for, and of no other.
LEMMA RecordCapture ==
  ASSUME IInv, NEW c \in Calls, Capture(c), NEW id \in Ids
  PROVE  [Record(id)!Next]_(Record(id)!vars)
<1>1. /\ running' = [running EXCEPT ![c.id] = Append(@, Recorded(c))]
      /\ stats' = [stats EXCEPT ![c.id] = [called |-> @.called + 1,
                                          failed |-> FailedCount(@, c),
                                          delays |-> Append(@.delays, c.delay)]]
      /\ result' = result
      /\ EventCount < MaxEvents
  BY DEF Capture
<1>2. c.id \in Ids /\ MaxEvents \in Nat
  BY RulesAssumption
<1>3. CASE id # c.id
  <2>1. running'[id] = running[id] /\ stats'[id] = stats[id] /\ result'[id] = result[id]
    BY <1>1, <1>2, <1>3 DEF IInv, TypeOK
  <2>2. UNCHANGED Record(id)!vars
    BY <2>1, RecordVars DEF Record!vars
  <2>3. QED
    BY <2>2
<1>4. CASE id = c.id
  <2> DEFINE S == {Recorded(d) : d \in Calls}
  <2>1. Recorded(c).ret = c.ret /\ Recorded(c).delay = c.delay
    BY DEF Recorded
  <2>2. running[id] \in Seq(S) /\ Recorded(c) \in S
    BY DEF IInv, TypeOK
  <2>3. /\ running'[id] = Append(running[id], Recorded(c))
        /\ stats'[id].called = stats[id].called + 1
        /\ stats'[id].failed = FailedCount(stats[id], c)
        /\ stats'[id].delays = Append(stats[id].delays, c.delay)
        /\ result'[id] = result[id]
    BY <1>1, <1>2, <1>4 DEF IInv, TypeOK
  <2>4. CallsOf(running'[id])
          = Append(CallsOf(running[id]), [ret |-> c.ret, delay |-> c.delay])
    <3> HIDE DEF S
    <3>1. CallsOf(Append(running[id], Recorded(c)))
            = Append(CallsOf(running[id]), [ret |-> Recorded(c).ret, delay |-> Recorded(c).delay])
      BY <2>2, OneCallMore
    <3>2. QED
      BY <2>1, <2>3, <3>1
  <2>5. stats[id].called < MaxEvents
    <3>1. EventCount \in Nat /\ stats[id].called <= EventCount
      BY CalledBelowEvents
    <3>2. stats[id].called \in Nat
      BY DEF IInv, TypeOK
    <3>3. QED
      BY <1>1, <1>2, <3>1, <3>2
  <2>6. stats'[id].failed = IF Record(id)!Errno(c.ret, Half) > 0 THEN stats[id].failed + 1
                                                          ELSE stats[id].failed
    BY <2>3 DEF FailedCount, Record!Errno, Record!Truncated, Errno, Truncated
  <2>7. Record(id)!updateStatistics(c.ret, c.delay)
    BY <2>3, <2>4, <2>5, <2>6 DEF Record!updateStatistics, CallsOf
  <2>8. QED
    BY <2>7 DEF Record!Next
<1>5. QED
  BY <1>3, <1>4

\* A round of the range loop summarizes the record of its id, and no other.
LEMMA RecordReport ==
  ASSUME IInv, NEW i \in Ids, Report(i), NEW id \in Ids
  PROVE  [Record(id)!Next]_(Record(id)!vars)
<1> PICK sorted \in Orderings(stats[i].delays) :
      /\ stats' = [stats EXCEPT ![i].delays = sorted]
      /\ result' = [result EXCEPT ![i] = Summary(stats[i], sorted)]
  BY DEF Report
<1>1. running' = running /\ i \in seen /\ i \notin reported
  BY DEF Report
<1>2. /\ stats'[i].delays = sorted
      /\ stats'[i].called = stats[i].called /\ stats'[i].failed = stats[i].failed
      /\ \A k \in Ids : k # i => stats'[k] = stats[k]
  BY ReportedRecord DEF IInv, TypeOK
<1>3. result'[i] = Summary(stats[i], sorted) /\ \A k \in Ids : k # i => result'[k] = result[k]
  BY DEF IInv, TypeOK
<1>4. CASE id # i
  <2>1. running'[id] = running[id] /\ stats'[id] = stats[id] /\ result'[id] = result[id]
    BY <1>1, <1>2, <1>3, <1>4
  <2>2. UNCHANGED Record(id)!vars
    BY <2>1, RecordVars DEF Record!vars
  <2>3. QED
    BY <2>2
<1>5. CASE id = i
  <2>1. sorted # <<>>
    <3>1. stats[i].delays \in Seq(Nat) /\ stats[i].delays = LoggedDelays(i) /\ running[i] # <<>>
      BY <1>1 DEF IInv, TypeOK, BooksAgree
    <3>2. PICK T : running[i] \in Seq(T)
      BY DEF IInv, TypeOK
    <3>3. DOMAIN stats[i].delays = DOMAIN running[i]
      BY <3>1 DEF LoggedDelays
    <3>4. stats[i].delays # <<>>
      BY <3>1, <3>2, <3>3
    <3>5. sorted \in Seq(Nat) /\ Len(sorted) = Len(stats[i].delays)
      BY <3>1, OrderingType
    <3>6. QED
      BY <3>1, <3>4, <3>5
  <2>2. /\ result'[i].called = stats[i].called
        /\ result'[i].p50 = Middle(sorted)
        /\ result'[i].p99 = At(sorted, (99 * Len(sorted)) \div 100)
    BY <1>3, SummaryCounts
  <2>3. Record(i)!Percentiles(sorted)
    BY <2>1, <2>2 DEF Record!Percentiles, Record!TailIndex, Record!Middle, Record!At, Middle, At
  <2>4. sorted \in Record(i)!Orderings(stats[i].delays)
    BY DEF Orderings, Record!Orderings, Moved, Record!Moved, Moves, Record!Moves,
           InOrder, Record!InOrder, Sorted, Record!Sorted
  <2>5. Record(i)!summarizeOneSyscall
    BY <1>1, <1>2, <2>2, <2>3, <2>4 DEF Record!summarizeOneSyscall
  <2>6. QED
    BY <1>5, <2>5 DEF Record!Next
<1>6. QED
  BY <1>4, <1>5

\* Whatever the calls, the filter and the order of the report, what happens to
\* the record of an id is what LatencySummary lets happen to the statistics of
\* one system call: no call of another id is in its percentiles, and none of its
\* own is missing.
THEOREM RulesImplementRecords == Spec => ImplementsRecords
<1>1. Init => \A id \in Ids : Record(id)!Init
  BY RecordInit
<1>2. IInv /\ [Next]_vars => [\A id \in Ids : [Record(id)!Next]_(Record(id)!vars)]_vars
  <2> SUFFICES ASSUME IInv, [Next]_vars, NEW id \in Ids
               PROVE  [Record(id)!Next]_(Record(id)!vars)
    OBVIOUS
  <2>1. ASSUME NEW c \in Calls, Capture(c)
        PROVE  [Record(id)!Next]_(Record(id)!vars)
    BY <2>1, RecordCapture
  <2>2. ASSUME NEW i \in Ids, Report(i)
        PROVE  [Record(id)!Next]_(Record(id)!vars)
    BY <2>2, RecordReport
  <2>3. CASE EndCapture \/ Done \/ UNCHANGED vars
    <3>1. UNCHANGED <<running, stats, result>>
      BY <2>3 DEF EndCapture, Done, vars
    <3>2. UNCHANGED Record(id)!vars
      BY <3>1, RecordVars DEF Record!vars
    <3>3. QED
      BY <3>2
  <2>4. QED
    BY <2>1, <2>2, <2>3 DEF Next
<1>3. QED
  BY <1>1, <1>2, RulesInvariant, PTL DEF Spec, ImplementsRecords
=============================================================================
