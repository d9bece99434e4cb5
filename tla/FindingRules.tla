----------------------------- MODULE FindingRules -----------------------------
(***************************************************************************)
(* risk.go: what generateOverallFinding makes of the calls that were       *)
(* logged.  run() fills syscallStatistics and syscallOverallInfo by id;    *)
(* at the end each seen id gets its summary and its findings, in the order *)
(* Go ranges over a map.  The rules go by name, and find their way back to *)
(* the calls through reversedSyscallTable.  What the two goroutines do to  *)
(* each other is in Collector; here capture has ended before the report.   *)
(*                                                                         *)
(* Only events whose name is one of --target-syscall are logged, all if it *)
(* is empty.  The argument text of a call is that of ArgText; the evidence *)
(* of a finding is represented by the call and the rule it quotes.         *)
(***************************************************************************)
EXTENDS ArgText, SortedDelays, FiniteSets

CONSTANTS
  Ids,           \* syscall ids of the events, 0 among them
  SyscallTable,  \* the names of those the table has
  Calls,         \* the events that may arrive
  TargetSyscalls, \* values of --target-syscall, split at the commas
  MinCalled,     \* minRecordedCalled: 20
  RatePart,      \* failingRateCeil, 0.4, is RatePart / RateWhole
  RateWhole,
  WarningP50,    \* warningP50delay: 5 ms
  WarningP99,    \* warningP99delay: 50 ms
  Half,          \* errno holds -Half .. Half - 1: 2^31
  MaxErrno,      \* the kernel returns an error as -errno: 4095
  MaxEvents      \* bound on the events that are captured

errno ==
  [EPERM |-> -1, ENOENT |-> -2, EAGAIN |-> -11, ENOMEM |-> -12, ENFILE |-> -23,
   EMFILE |-> -24, ENETUNREACH |-> -101, ETIMEDOUT |-> -110,
   ECONNREFUSED |-> -111, EHOSTUNREACH |-> -113]

ASSUME RulesAssumption ==
  /\ 0 \in Ids /\ Ids \subseteq Nat /\ IsFiniteSet(Ids)
  /\ 0 \in DOMAIN SyscallTable /\ DOMAIN SyscallTable \subseteq Ids
  /\ SyscallTable[0] = "read"
  /\ \A i, j \in DOMAIN SyscallTable :
       SyscallTable[i] # "" /\ (SyscallTable[i] = SyscallTable[j] => i = j)
  /\ \A c \in Calls :
       c.id \in Ids /\ c.ret \in Int /\ c.delay \in Nat
  /\ \A parts \in TargetSyscalls : parts # <<>> /\ parts \in Seq(STRING)
  /\ {MinCalled, RatePart, RateWhole} \subseteq Nat \ {0}
  /\ {WarningP50, WarningP99, MaxEvents} \subseteq Nat
  /\ {Half, MaxErrno} \subseteq Nat /\ MaxErrno < Half
  /\ \A name \in DOMAIN errno : errno[name] \in -MaxErrno .. -1

Critical == 0
High     == 1
Low      == 2

sensitiveSyscalls ==
  {"setns", "unshare", "mount", "umount2", "pivot_root", "move_mount",
   "open_tree", "mount_setattr", "fsmount", "fspick", "bpf", "ptrace",
   "process_vm_readv", "process_vm_writev", "init_module", "finit_module",
   "delete_module", "kexec_load", "kexec_file_load", "perf_event_open", "mknod",
   "mknodat", "reboot", "swapon", "swapoff", "capset"}

sensitiveFailingSyscalls ==
  {"mount", "umount2", "setns", "unshare", "ptrace", "process_vm_readv",
   "process_vm_writev", "bpf", "perf_event_open", "mknod", "mknodat",
   "init_module", "finit_module", "execve", "connect", "open", "openat", "chmod",
   "chown", "unlink", "unlinkat", "rename", "renameat", "renameat2"}

delayCriticalSyscalls ==
  {"open", "openat", "connect", "accept", "read", "write", "fsync", "fdatasync",
   "futex", "epoll_wait", "ppoll", "pselect6", "execve", "clone", "mmap",
   "mprotect", "mount", "umount2", "rename", "renameat", "unlink", "unlinkat",
   "bpf", "perf_event_open"}

Abnormal(values, names, level) == values \X names \X {level}

\* Return values, the calls for which they are abnormal, and how much so.
sensitiveSyscallsWithErrno ==
  Abnormal({errno.EPERM}, {"mount", "unshare", "setns", "ptrace", "bpf",
           "perf_event_open", "mknod", "process_vm_writev"}, Critical)
    \cup Abnormal({errno.ENOENT}, {"open", "openat", "execve", "unlink",
                  "unlinkat", "rename", "renameat", "renameat2"}, High)
    \cup Abnormal({errno.EMFILE, errno.ENFILE}, {"open", "openat", "socket"}, High)
    \cup Abnormal({errno.ENOMEM}, {"mmap"}, High)
    \cup Abnormal({errno.EAGAIN}, {"clone"}, High)
    \cup Abnormal({errno.ECONNREFUSED, errno.ETIMEDOUT, errno.ENETUNREACH,
                   errno.EHOSTUNREACH}, {"connect"}, Low)
-----------------------------------------------------------------------------
(***************************************************************************)
(* Argument rules.  A pattern names a field and the names its value must   *)
(* contain; most of them are anchored to the end of the text, so that      *)
(* nothing but the rest of that value may follow.                          *)
(***************************************************************************)

Anywhere(field, names) == {[field |-> field, names |-> {n}, atEnd |-> FALSE] : n \in names}
AtEnd(field, names)    == {[field |-> field, names |-> {n}, atEnd |-> TRUE] : n \in names}
AllAtEnd(field, names) == {[field |-> field, names |-> names, atEnd |-> TRUE]}

Namespaces ==
  {"CLONE_NEWCGROUP", "CLONE_NEWIPC", "CLONE_NEWNET", "CLONE_NEWNS",
   "CLONE_NEWPID", "CLONE_NEWUSER", "CLONE_NEWUTS"}

ProtRules == AtEnd("prot", {"PROT_EXEC"}) \cup AllAtEnd("prot", {"PROT_EXEC", "PROT_WRITE"})

OpenRules ==
  AtEnd("flags", {"O_PATH", "O_TMPFILE"})
    \cup AllAtEnd("flags", {"O_CREAT", "O_TRUNC", "O_WRONLY"})

sensitiveArgSyscalls ==
  [socket   |-> Anywhere("family", {"AF_PACKET", "AF_NETLINK"}) \cup AtEnd("type", {"SOCK_RAW"}),
   clone    |-> AtEnd("clone_flags", Namespaces),
   unshare  |-> AtEnd("unshare_flags", Namespaces),
   mmap     |-> ProtRules,
   mprotect |-> ProtRules,
   open     |-> OpenRules,
   openat   |-> OpenRules,
   ptrace   |-> Anywhere("request", {"PTRACE_ATTACH", "PTRACE_SEIZE", "PTRACE_POKEDATA",
                                     "PTRACE_POKETEXT", "PTRACE_SETREGS"}),
   bpf      |-> Anywhere("cmd", {"BPF_MAP_CREATE", "BPF_PROG_LOAD", "BPF_LINK_CREATE"}),
   seccomp  |-> Anywhere("op", {"SECCOMP_SET_MODE_FILTER", "SECCOMP_SET_MODE_STRICT"})
                  \cup AtEnd("flags", {"SECCOMP_FILTER_FLAG_LOG", "SECCOMP_FILTER_FLAG_TSYNC",
                                       "SECCOMP_FILTER_FLAG_NEW_LISTENER"}),
   prctl    |-> Anywhere("option", {"PR_SET_SECCOMP", "PR_SET_NO_NEW_PRIVS",
                                    "PR_SET_PTRACER", "PR_SET_DUMPABLE"})]

\* The names that contain this one.
Containing(name) ==
  {name} \cup (IF name = "PTRACE_SETREGS" THEN {"PTRACE_SETREGSET"} ELSE {})
         \cup (IF name = "SECCOMP_FILTER_FLAG_TSYNC" THEN {"SECCOMP_FILTER_FLAG_TSYNC_ESRCH"} ELSE {})

\* Faulty variant: one of the names is enough.
MatchStringAny(rule, syscall, args) ==
  /\ rule.field \in DOMAIN args
  /\ \E name \in rule.names : Containing(name) \cap args[rule.field] # {}
  /\ rule.atEnd => LastField(syscall) = rule.field

\* cond.Pattern.MatchString(args)
MatchString(rule, syscall, args) ==
  /\ rule.field \in DOMAIN args
  /\ \A name \in rule.names : Containing(name) \cap args[rule.field] # {}
  /\ rule.atEnd => LastField(syscall) = rule.field
-----------------------------------------------------------------------------
\* syscallTable[id]
Name(id) == IF id \in DOMAIN SyscallTable THEN SyscallTable[id] ELSE ""

VARIABLES
  targetSyscall, \* the parts of --target-syscall
  reporting,  \* the capture window is over
  seen,       \* seenSyscalls
  stats,      \* syscallStatistics: CalledCount, FailedCount, Delays
  running,    \* syscallOverallInfo: Running
  result,     \* syscallOverallInfo: Result
  reported,   \* the ids the range loop is done with
  findings    \* findings

vars == <<targetSyscall, reporting, seen, stats, running, result, reported, findings>>

NoResult == [called |-> 0, failed |-> 0, p50 |-> 0, p99 |-> 0]

Init ==
  /\ targetSyscall \in TargetSyscalls
  /\ reporting = FALSE
  /\ seen = {}
  /\ stats = [id \in Ids |-> [called |-> 0, failed |-> 0, delays |-> <<>>]]
  /\ running = [id \in Ids |-> <<>>]
  /\ result = [id \in Ids |-> NoResult]
  /\ reported = {}
  /\ findings = {}

\* event.Errno > 0
FailedCount(record, c) ==
  IF Errno(c.ret, Half) > 0 THEN record.failed + 1 ELSE record.failed

EventCount == Cardinality(UNION {{<<id, j>> : j \in DOMAIN running[id]} : id \in Ids})

\* Faulty variant: an empty part stands for all.
SelectedEmpty(id) ==
  \E j \in DOMAIN targetSyscall : targetSyscall[j] \in {"", Name(id)}

\* targetSyscall is "", or Name(id) is in splitSupportedSyscallFilter of it.
Selected(id) ==
  targetSyscall = <<"">> \/ \E j \in DOMAIN targetSyscall : targetSyscall[j] = Name(id)

\* recordLogMetadata
Recorded(c) == [c EXCEPT !.args = FormatParsedArguments(Name(c.id), c.args)]

\* One event in the main loop: updateStatistics, appendRunningMetadata...
Capture(c) ==
  /\ ~reporting
  /\ EventCount < MaxEvents
  /\ Selected(c.id)
  /\ seen' = seen \cup {c.id}
  /\ stats' = [stats EXCEPT ![c.id] = [called |-> @.called + 1,
                                       failed |-> FailedCount(@, c),
                                       delays |-> Append(@.delays, c.delay)]]
  /\ running' = [running EXCEPT ![c.id] = Append(@, Recorded(c))]
  /\ UNCHANGED <<targetSyscall, reporting, result, reported, findings>>

EndCapture ==
  /\ ~reporting
  /\ reporting' = TRUE
  /\ UNCHANGED <<targetSyscall, seen, stats, running, result, reported, findings>>
-----------------------------------------------------------------------------
(***************************************************************************)
(* The rules of generateOverallFinding.  They see the calls of the id that *)
(* the name leads back to, with the result it has at that time.            *)
(***************************************************************************)

\* reversedSyscallTable[name]; the value for a name that is not there is 0.
Reversed(name) ==
  IF \E id \in DOMAIN SyscallTable : SyscallTable[id] = name
    THEN CHOOSE id \in DOMAIN SyscallTable : SyscallTable[id] = name ELSE 0

\* Faulty variant: the percentiles of the delays as they came.
SummaryUnsorted(record, sorted) ==
  [called |-> record.called,
   failed |-> record.failed,
   p50 |-> Middle(record.delays),
   p99 |-> At(record.delays, (99 * Len(record.delays)) \div 100)]

\* summarizeOneSyscall; the sort is in Report.
Summary(record, sorted) ==
  [called |-> record.called,
   failed |-> record.failed,
   p50 |-> Middle(sorted),
   p99 |-> At(sorted, (99 * Len(sorted)) \div 100)]

Home(id) == Reversed(Name(id))

\* call is the place in Running of the event that is quoted, or 0.
Risk(id, category, level, call, rule, results) ==
  [id |-> id, related_syscall |-> Name(id), risk_category |-> category,
   risk_level |-> level, call |-> call, rule |-> rule,
   snapshot |-> results[Home(id)]]

NoRule == [field |-> "", names |-> {}, atEnd |-> FALSE]

SensitiveSyscall(id, results) ==
  IF Name(id) \in sensitiveSyscalls
    THEN {Risk(id, "sensitive", High, 0, NoRule, results)} ELSE {}

\* Faulty variant: either percentile is enough.
DelayTooLongEither(r) == r.p50 > WarningP50 \/ r.p99 > WarningP99

DelayTooLong(r) == r.p50 > WarningP50 /\ r.p99 > WarningP99

HighDelay(id, results) ==
  IF DelayTooLong(results[Home(id)])
    THEN {Risk(id, "delay_too_high",
               IF Name(id) \in delayCriticalSyscalls THEN High ELSE Low,
               0, NoRule, results)}
    ELSE {}

\* Faulty variant: the number of calls is not looked at.
FailingTooMuchFew(r) == RateWhole * r.failed >= RatePart * r.called

\* float64(FailedCount) / float64(CalledCount) < failingRateCeil: exact, as two
\* such quotients differ by far more than their rounding, or not at all.
FailingTooMuch(r) ==
  r.called >= MinCalled /\ RateWhole * r.failed >= RatePart * r.called

HighFailingRate(id, results) ==
  IF FailingTooMuch(results[Home(id)])
    THEN {Risk(id, "failing_too_much",
               IF Name(id) \in sensitiveFailingSyscalls THEN High ELSE Low,
               0, NoRule, results)}
    ELSE {}

SensitiveArgs(id, results) ==
  IF Name(id) \notin DOMAIN sensitiveArgSyscalls THEN {} ELSE
  {Risk(id, "arg_sensitive",
        IF Name(id) \in sensitiveSyscalls THEN Critical ELSE High,
        m[1], m[2], results) :
     m \in {n \in (DOMAIN running[Home(id)]) \X sensitiveArgSyscalls[Name(id)] :
              MatchString(n[2], Name(id), running[Home(id)][n[1]].args)}}

\* Faulty variant: one level up wherever it leads.
RaisedPast(id, level) ==
  IF Name(id) \in sensitiveSyscalls THEN level - 1 ELSE level

\* One level up for a sensitive system call, but not above Critical.
Raised(id, level) ==
  IF Name(id) \in sensitiveSyscalls /\ level > Critical THEN level - 1 ELSE level

AbnormalRetVal(id, results) ==
  {Risk(id, "abnormal_ret_val", Raised(id, m[2][3]), m[1], NoRule, results) :
     m \in {n \in (DOMAIN running[Home(id)]) \X sensitiveSyscallsWithErrno :
              /\ running[Home(id)][n[1]].ret = n[2][1]
              /\ Name(id) = n[2][2]}}

generateOverallFinding(id, results) ==
  SensitiveSyscall(id, results) \cup HighDelay(id, results)
    \cup HighFailingRate(id, results) \cup SensitiveArgs(id, results)
    \cup AbnormalRetVal(id, results)

\* Faulty variant: the findings are generated before the result is assigned.
ResultsOld(id, sorted) == result

\* assignResultToOverallInfo
Results(id, sorted) == [result EXCEPT ![id] = Summary(stats[id], sorted)]

\* One round of the range loop.  The sort is in place: the copied record's slice
\* and the map's are one array.
Report(id) ==
  /\ reporting
  /\ id \in seen \ reported
  /\ \E sorted \in Orderings(stats[id].delays) :
       /\ stats' = [stats EXCEPT ![id].delays = sorted]
       /\ result' = [result EXCEPT ![id] = Summary(stats[id], sorted)]
       /\ findings' = findings \cup generateOverallFinding(id, Results(id, sorted))
  /\ reported' = reported \cup {id}
  /\ UNCHANGED <<targetSyscall, reporting, seen, running>>

\* finding.json is written.
Done == reporting /\ reported = seen /\ UNCHANGED vars

Next ==
  \/ \E c \in Calls : Capture(c)
  \/ EndCapture
  \/ \E id \in Ids : Report(id)
  \/ Done

Spec == Init /\ [][Next]_vars
-----------------------------------------------------------------------------
(***************************************************************************)
(* Properties.                                                             *)
(***************************************************************************)

Rules == UNION {sensitiveArgSyscalls[name] : name \in DOMAIN sensitiveArgSyscalls}

\* Every variable is of its type; no finding has a level below Low.
TypeOK ==
  /\ reporting \in BOOLEAN
  /\ seen \subseteq Ids
  /\ stats \in [Ids -> [called : Nat, failed : Nat, delays : Seq(Nat)]]
  /\ targetSyscall \in TargetSyscalls
  /\ running \in [Ids -> Seq({Recorded(c) : c \in Calls})]
  /\ DOMAIN result = Ids
  /\ \A id \in Ids : {result[id].called, result[id].failed} \subseteq Nat
  /\ reported \subseteq seen
  /\ \A f \in findings :
       /\ f.id \in Ids
       /\ f.risk_level \in Critical..Low
       /\ f.call \in Nat
       /\ f.rule \in Rules \cup {NoRule}

\* A finding is about the calls of the system call it names: the snapshot is of
\* that one's final result and covers every event that was logged for it.  The
\* exception are ids without a name, to which the result of syscall 0 is
\* attributed, if that one was reported before.
FindingsOfOwnCalls ==
  \A f \in findings :
    LET id == IF f.related_syscall = "" THEN 0 ELSE f.id
    IN  /\ f.related_syscall = Name(f.id)
        /\ f.snapshot = result[id]
        /\ f.snapshot.called = Len(running[id])
        /\ f.related_syscall = "" => f.risk_category \in {"failing_too_much", "delay_too_high"}

\* README.md:71 "Capture only selected syscall names": what a finding shows are
\* calls of a selected name, also where it is that of another id.
FindingsOfSelected ==
  \A f \in findings :
    targetSyscall = <<"">> \/ \E j \in DOMAIN targetSyscall : targetSyscall[j] = Name(Home(f.id))

Failed(id) == {j \in DOMAIN running[id] : Errno(running[id][j].ret, Half) > 0}

\* Each abnormal return value quotes a call that is counted as failed, so that
\* there are never more of them than performance.log has failed calls; and a
\* failing rate is found exactly if the errnos of the logged calls have it.
FailuresAgree ==
  \A id \in reported : Name(id) # "" =>
    /\ Cardinality({f \in findings : f.id = id /\ f.risk_category = "abnormal_ret_val"})
         <= result[id].failed
    /\ (\E f \in findings : f.id = id /\ f.risk_category = "failing_too_much") <=>
         /\ Len(running[id]) >= MinCalled
         /\ RateWhole * Cardinality(Failed(id)) >= RatePart * Len(running[id])

Slower(id, delay) == {j \in DOMAIN running[id] : running[id][j].delay > delay}

\* delay_too_high says that half of the calls in the log took longer than the
\* one warning delay and some call longer than the other.
SlowCallsLogged ==
  \A f \in findings :
    f.risk_category = "delay_too_high" /\ f.related_syscall # "" =>
      /\ 2 * Cardinality(Slower(f.id, WarningP50)) >= Len(running[f.id])
      /\ Slower(f.id, WarningP99) # {}

\* What a rule is for: its flags are set in a call's field.
Shows(rule, c) == rule.field \in DOMAIN c.args /\ rule.names \subseteq c.args[rule.field]

Quoted(id, j, rule) ==
  \E f \in findings :
    f.id = id /\ f.risk_category = "arg_sensitive" /\ f.call = j /\ f.rule = rule

\* Where a pattern may match at all, anywhere in the text or in its last field,
\* every call with the flags gets its finding, and only PTRACE_SETREGSET and
\* SECCOMP_FILTER_FLAG_TSYNC_ESRCH pass for flags they are not.
VisibleFlagsFound ==
  \A id \in reported : Name(id) \in DOMAIN sensitiveArgSyscalls =>
    \A j \in DOMAIN running[id], rule \in sensitiveArgSyscalls[Name(id)] :
      rule.field = LastField(Name(id)) \/ ~rule.atEnd =>
        /\ Shows(rule, running[id][j]) => Quoted(id, j, rule)
        /\ Quoted(id, j, rule) =>
             /\ rule.field \in DOMAIN running[id][j].args
             /\ rule.names \subseteq running[id][j].args[rule.field]
                  \cup {"PTRACE_SETREGS", "SECCOMP_FILTER_FLAG_TSYNC"}

\* The record of one system call, as LatencySummary has it: the log is the
\* history of its calls, the result what the percentiles are of.
Record(id) == INSTANCE LatencySummary WITH
  Rets     <- {c.ret : c \in Calls},
  Delays   <- {c.delay : c \in Calls},
  Part     <- 99,
  Whole    <- 100,
  MaxCalls <- MaxEvents,
  calls    <- [j \in DOMAIN running[id] |->
                 [ret |-> running[id][j].ret, delay |-> running[id][j].delay]],
  called   <- stats[id].called,
  failed   <- stats[id].failed,
  delays   <- stats[id].delays,
  p50      <- result[id].p50,
  p99      <- result[id].p99,
  covered  <- result[id].called

\* What the filter, the log and the report do to the record of an id, all ids
\* together, are the steps of LatencySummary for each of them: a call is added
\* to the record whose log it is in and no other, an id is summarized after its
\* last call, and what a finding is made of are percentiles of sorted delays.
ImplementsRecords ==
  /\ \A id \in Ids : Record(id)!Init
  /\ [][\A id \in Ids : [Record(id)!Next]_(Record(id)!vars)]_vars

\* risk.go:180 "SOCK_RAW allows raw packet construction or inspection and
\* usually deserves extra review", and the like: each call that has the flags of
\* a rule gets its finding.
SensitiveArgsFound ==
  \A id \in reported : Name(id) \in DOMAIN sensitiveArgSyscalls =>
    \A j \in DOMAIN running[id], rule \in sensitiveArgSyscalls[Name(id)] :
      Shows(rule, running[id][j]) => Quoted(id, j, rule)
-----------------------------------------------------------------------------
(***************************************************************************)
(* The inductive invariant: what run() adds up is what it logs.            *)
(***************************************************************************)

LoggedDelays(id) == [j \in DOMAIN running[id] |-> running[id][j].delay]

BooksAgree ==
  \A id \in Ids :
    /\ stats[id].called = Len(running[id])
    /\ stats[id].failed = Cardinality(Failed(id))
    /\ id \notin reported => stats[id].delays = LoggedDelays(id)
    /\ id \in seen <=> running[id] # <<>>

\* Results are assigned in the report, by which time nothing is added.
ResultsFinal ==
  /\ ~reporting => reported = {}
  /\ \A id \in Ids \ reported : result[id] = NoResult
  /\ \A id \in reported :
       \E sorted \in Orderings(LoggedDelays(id)) :
         stats[id].delays = sorted /\ result[id] = Summary(stats[id], sorted)

\* What the filter drops is not counted anywhere.
SeenSelected == \A id \in seen : Selected(id)

\* The findings are those of the final results.  For an id without a name they
\* may be missing, if it was reported before syscall 0.
FindingsGenerated ==
  /\ \A f \in findings : f.id \in reported /\ f \in generateOverallFinding(f.id, result)
  /\ \A id \in reported : Name(id) # "" => generateOverallFinding(id, result) \subseteq findings

IInv ==
  /\ TypeOK
  /\ BooksAgree
  /\ ResultsFinal
  /\ SeenSelected
  /\ FindingsGenerated
=============================================================================
