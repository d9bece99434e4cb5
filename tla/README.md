# syscap: a TLA+ model of the capture, its reports and its tables

syscap observes the system calls of one container. Two eBPF programs join each
`sys_enter` to its `sys_exit`, a ring buffer carries the joined events to user
space, a Go program logs and counts them for at most 60 seconds, and at the end
of that window it writes a summary and a list of findings. This directory holds
a model of that program: TLA+ modules, configurations for the model checker TLC,
and proofs for the proof system TLAPS.

## 1. The system and its parts

| Part | Source | State it keeps | Operations |
|---|---|---|---|
| kernel capture programs | `bpf/program.bpf.c` | `inflight` (hash map, tid to `enter_state`, 10240 entries), `events` (ring buffer, 16 MiB), `cgroup_id_map`, `syscall_ptr_args` | `capture_sys_enter`, `capture_sys_exit` |
| startup and teardown | `main.go` `main`, `run` 237-321 | which programs are attached, the open reader, the defers | resolve the cgroup, load, store the cgroup id, attach, open the reader; the defers in reverse |
| main loop | `main.go` 369-413, 75-120, 200-215 | `running.log`, `datas`, `seenSyscalls`, `syscallStatistics`, `syscallOverallInfo` | read, decode, filter, count, log, append |
| shutdown goroutine | `main.go` 323-367 | the three report files, the same maps | wait for the end of the window, close the reader, write `running.json`, summarise each syscall, write `performance.log` and `finding.json` |
| latency statistics | `main.go` 93-121 | one `StatisticalRes` per syscall id | `updateStatistics`, `summarizeOneSyscall` |
| command line and filter | `main.go` 123-173, 384 | `targetSyscalls` | `parseArgs`, `validateArgs`, `splitSupportedSyscallFilter`, `checkIfExistInMap` |
| risk rules | `risk.go` | none of its own; reads `syscallOverallInfo` | `generateOverallFinding` and its five rules |
| argument formatting | `parse_arg.go` | none | decoding of flags, modes and enumerations |
| pointer tables | `bpf/map.c`, `ebpf.go` `fillPtrArgs` | `syscall_ptr_args`, one entry per number up to the largest; the Go copy overrides the C one at load time | looked up by both programs |
| syscall tables | `internal/syscalls.go` | id to name, name to id, name to field names | looked up everywhere |
| generators | `scripts/*.go` | text files pasted into the tables | `getSyscallFields`, `fillSysPtrArgTable`, `fillSysPtrArgTableForGo`, `outputSyscallNumber`, `processSyscallNameToIDMapping` |
| container resolution | `main.go` 416-477 | none; what it finds out may be out of date at once | `docker inspect`, `/proc/<pid>/cgroup`, `stat` |
| bindings | `program_bpfel.go`, `program_bpfeb.go` | none | generated loader code |

How they interact: the threads of the container and the BPF programs run
concurrently on every CPU and share `inflight` and `events`; the ring's consumer
is `rd.Read` in the main loop. The main loop and the shutdown goroutine share the
reader (which has a mutex), and `datas` and three maps (which have none). The
process ends when the main loop returns, wherever the goroutine is. The tables
connect the three numberings: the ids of the kernel, the names users give to
`--target-syscall`, and the names the risk rules are written for.

What is hard to test here:

* two halves of a call that are joined by thread id only, although a `sys_exit`
  may have no `sys_enter` and a `sys_enter` no `sys_exit`;
* reservations of the ring that overlap between threads and are settled out of
  order;
* the shutdown goroutine against the main loop: the reader's close, and every
  unlocked access to the statistics;
* the resolution of a container to a cgroup in five steps, each of which may look
  at something else than the one before: the container stops, its pid goes to
  another process, it starts again under a new inode;
* a `run()` whose every call may fail with some of its defers registered, and two
  contexts, signals and reader errors that may end it at the same time;
* writes whose errors nobody looks at, in the middle of the handling of an event;
* tables that were generated by a program and pasted by hand, from tables that were
  pasted by hand, whose gaps are not visible in any run;
* percentiles and rates at small counts, and ids no table knows.

What makes each part correct, and where it is stated:

| Part | Correct when | Properties |
|---|---|---|
| kernel capture programs | the two halves of an event are of one call unless its own return was lost; nothing is reported twice or out of order; nothing of another cgroup is reported; each ring reservation is settled once | `MispairedOnlyAfterLoss`, `EntryOfPresentCall`, `ImplementsTrace`, `TidIntervalsInOrder`, `EventsFromTarget`, `ReservationsSettled`, `CompletedCallIsRead` |
| startup and teardown, container resolution, command line | no program runs without a target, which on a unified host is the container's cgroup if the container has not stopped since; the programs are attached and detached in one order on every way through; the window ends | `CapturesContainer`, `ImplementsPhases`, `WindowBounded` |
| dereferencing | a reported word was behind its pointer during the call; a zero is explained by both reads | `ReportedWasThere`, `EnterWordKept`, `ZeroIsExplained` |
| main loop and shutdown goroutine | what was taken is logged, or tried to be; the report files agree with what was taken; the window ends | `NothingInHandAtReturn`, `JsonIsTakenButOne`, `QuietReportsExact`, `ImplementsReport`, `WindowEnds` |
| latency statistics | P50 and P99 are percentiles of the calls they were made from, errors are failures | `MedianInTheMiddle`, `FewAboveTail`, `FailedAreErrors` |
| argument formatting | the text keeps the value and names its flags once | `TextKeepsValue`, `NoBitTwice`, `SetFlagIsNamed` |
| risk rules and filter | findings are about the calls they name, agree with the log, show selected calls only, no flag a rule can see is missed, and the record behind them is that of the one system call | `FindingsOfOwnCalls`, `FindingsOfSelected`, `FailuresAgree`, `SlowCallsLogged`, `VisibleFlagsFound`, `ImplementsRecords` |
| pointer tables, generators | the programs run with the right masks, or with none where there were no fields or a line was lost | `UnmarkedIsExplained`, `RunsWithLargest` |

## 2. The modules

| Module | Models | Extends |
|---|---|---|
| `CallTrace` | what the kernel half promises: calls that are remembered, reported and given to user space; abstract, no code of its own | |
| `WindowReport` | what a window promises of its reports; abstract, no code of its own | |
| `CapturePhases` | which programs are attached and whether the ring has a reader | |
| `SyscallCapture` | both BPF programs, `inflight`, the ring, the threads of the container | `CapturePhases` |
| `RunLife` | `main` and `run()` as a whole: the command line, the container's cgroup, every call that may fail, the defers, the window | |
| `ArgDeref` | the two loops that read behind pointer arguments, for one call | |
| `Collector` | main loop, shutdown goroutine, the reader they share, the way out of `run()` | |
| `SortedDelays` | the sort of the delays, as a choice among all orders, and what is read at its middle; the narrowing of `errno` | |
| `LatencySummary` | `updateStatistics` and `summarizeOneSyscall` for one system call | `SortedDelays` |
| `FlagDecode` | the flag decoders of `parse_arg.go`, bit by bit | |
| `ArgText` | which decoder a field has, the tables of single values, `FormatParsedArguments` | |
| `FindingRules` | the filter, what is logged per id, the report and the five rules of `risk.go` | `ArgText`, `SortedDelays` |
| `PtrArgTable` | three generators, their buffers, the tables they are compiled with, and the table that is loaded | |
| `MC...` | instances for TLC: constants only | the module of that name |
| `...Proofs` | theorems for every value of the constants | the module of that name |

Four pairs of modules are tied by a refinement. `SyscallCapture` implements
`CallTrace`, `Collector` implements `WindowReport`, and `RunLife` implements
`CapturePhases`, the part of `SyscallCapture` that moves the programs' attachment: the
phases that `SyscallCapture` is checked and proved with are those that `run()` goes
through, whatever fails. `FindingRules` implements `LatencySummary` once for each id:
what is proved of the statistics of one system call holds of each of the records the
findings are drawn from.

The other modules meet at values one hands to the next. `SyscallCapture` ends with the
records the reader takes, `Collector` begins with them; a `Usable` call of
`SyscallCapture` is one that runs through `ArgDeref` between reserve and submit;
`Collector` counts calls and asks how many of them percentiles cover, what the
percentiles are is `LatencySummary`; `FindingRules` summarises a record when nothing
is added to it any more, which is what `QuietReportsExact` of `Collector` is about.

In each module, an operator whose comment begins with "Faulty variant" is not
part of the model. It has the form of the operator after it, with a plausible
mistake in it. Putting it in that operator's place makes TLC find a
counterexample: that is how each property was tried out.

### SyscallCapture

One thread per tid. `pc` says where it is: `user`, `kernel` (in a call),
`exiting` (its sys_exit program has reserved a position of the ring) or `dead`.

| Code | Action |
|---|---|
| `capture_sys_enter` up to the map update | `SysEnterStore`, or `SysEnterSkip` for the early returns and a failed update |
| `capture_sys_exit`: `bpf_ringbuf_reserve` | `ExitReserve`, `ExitRingFull` |
| the early returns after it, and the end | `ExitDiscard`, `ExitSubmit` |
| `run`: attach, `NewReader`, and the defers | `Advance`, along `PhaseSteps` |
| `rd.Read` | `Read`, `SkipDiscarded` |
| the kernel: seccomp, clone, exit, cgroup.procs, execve | `EnterUnseen`, `Spawn`, `Die`, `Migrate`, `ExecTakeover` |

sys_enter is one step because its one shared effect is the update of the map.
sys_exit is two, since other threads and the reader run between reserve and
submit. In the code the lookup comes after the reservation too, and only the
program of this tid touches the tid's entry in between, so that lookup, delete
and submit may be one step. What an entry holds apart from id, cgroup and time
is fixed by the call that wrote it, and `ts_ns_enter` stands for it. A BPF
program that has begun is not interrupted by the death of its thread, which is
why `Die` is not for `exiting`. `stored` and `lost` are history variables.

`CallTrace` is what is left of this without map, ring and limits: `open` is when the
call was entered that is remembered for a tid, `sent` are the intervals reported and
`given` those user space has. The refinement mapping (`Trace`) takes `open` from
`inflight`, `sent` from the records submitted and `given` from those behind the reader.
`SysEnterStore` is `Remember`, `ExitSubmit` is `Report`, `Read` is `Give`, a sys_enter that
is dropped is `Pass`; everything else leaves the trace as it is. `CallTrace` asks of
`Give` that the earlier intervals of the tid were given and of `Report` that the call
is forgotten, so the refinement says at once that nothing is reported twice, that
a thread's intervals come in order, and that each starts at the last sys_enter that was
stored under its tid.

### RunLife and CapturePhases

`pc` is the next call of `run()`; an action is one call, `Fails` its error. `held` is what
the defers registered so far will give back, in the order of `Rank`.

| Code | Action |
|---|---|
| `parseArgs`, `validateArgs` | `Parse`, or `Fails` |
| `extractPID` | `Inspect`: the pid of the container's main process, 0 if it is stopped |
| `resolveCgroupPath` | `OpenCgroup` (the process that has the pid now), `ReadCgroup` (the line of the first hierarchy, looked for under `/sys/fs/cgroup`) |
| `resolveCgroupID` | `StatPath` |
| `rlimit.RemoveMemlock`, `CgroupIdMap.Update` | `RemoveMemlock`, `StoreTarget` |
| the calls followed by a `defer` | `Acquire`, with `Acquired` |
| the goroutine's `select` and `rd.Close` | `CloseReader`; the rest of it is in `Collector` |
| the loop's `return` | `LoopEnds` after `ErrClosed`, `LoopFails` after another error |
| the timer, a signal that is caught | `TimeUp`, `Interrupt` |
| the defers, the return of `main()` | `Unwind`, `Exit` |
| a signal that is not caught, SIGKILL | `Killed` |
| docker and the rest of the host | `ContainerStarts`, `ContainerStops`, `OtherStarts`, `OtherEnds` |

An inode of the container's cgroup is the number of its start: docker makes the
directory anew each time. `asked` and `opened` are history variables: the start that
`docker inspect` told of, and the one whose time it was when the file was opened. With the
unified hierarchy the first line is the only one and leads to the process's directory. On
a host with several (`~unified`) the code uses the first line all the same: mostly there is
no directory of that name under `/sys/fs/cgroup` and the stat fails, but with a line like
`12:rdma:/` the path is `/sys/fs/cgroup` itself, whose inode is `RootGroup`.

`CapturesContainer` says what the target is in each of these cases, and `Leads` is the list
of them: on a unified host it is the container's cgroup if the container has not stopped
since `docker inspect` answered, never that of an earlier start, and another process's only
if the container had stopped before the open; on another host it is the root, never a
container's. So the model has runs that capture the cgroup of another process, runs that
wait for an inode that is gone and runs that wait for that of the mount; `run()` notices none
of them.
Processes outside the container are in one other cgroup, and cgroups below the
container's (which the programs do not capture) do not occur.

`CapturePhases` is the part `SyscallCapture` extends. `PhaseOf` maps the state of `run()`
to its phases; `ImplementsPhases` says that every step of `run()` is a step of it.

### ArgDeref

One call, up to `NumArgs` arguments, `Pointers` being the bits of its mask.
`EnterRead` and `ExitRead` are one round of a loop each, and `MemoryChanges` may
happen between any two rounds: an argument's memory is a word, zero or `Fault`.
Two arguments with the same address are two contents that may be equal; what they
share is not needed by the properties.

### Collector

One step per access to something shared: `mainPc` is the next one of `run()`,
`shutPc` that of the goroutine. `updateStatistics` is `StatsGet`, `StatsPut`;
`appendRunningMetadataToOverallInfo` is `InfoGet`, `InfoPut`; summarising is
`SummarizeGet` to `AssignPut`. `rd.Close` is `ClosePoller` and then `CloseRing`,
which waits for the mutex that a `Read` under way holds.

The lines of `performance.log` read the statistics six times, `PrintCalled` to `PrintP99`:
`called`, `failed`, `failed` and `called` again for the rate, P50 and P99, so `perf` has the
set of the numbers each line was made from. The rules of `risk.go` read
`syscallOverallInfo` many times; `run()` assigns to it at most once more after the close,
so what they can see is told by the first read and the last (`Generate`, `ApplyRules`). They
are given a name and go back from it to an id: an id without a name, 336 to 423 for one, is
looked up as system call 0 (`Home`).

`MayFail` is whether files fail to open or to be written and reads return errors other
than `ErrClosed`. A write to `running.log` that fails is not noticed: the text has then
what is left of the event, if anything (`Broken`), and the handling goes on. What the reports are
compared with is therefore `taken`, not the log.

`datas` is assigned a slice header of three words. `append` has stored the element before
that, so `WriteJSON` sees the old slice, the new one, or the new length with the old array,
whose last element is then whatever memory holds (`Broken` again) or a fault. `Fault` is that, and the
runtime's "concurrent map" abort: it may come wherever the next accesses of both
goroutines conflict, and need not.

`WindowReport` is what is left of this without the second goroutine, the reader and the
shared statistics: events are taken while the window is `open`, at most the last of them
is `late`, and `json`, `perf` and `findings` are written once each, from the events
taken. What they say of the late event's syscall may be short by that one event
(`Counts`), its percentiles may cover no call (`Covers`), its result may be the zero
record (`Results`), the numbers of one line need not agree (`Reads`), `running.json` may lack
the event or have it broken (`Texts`), and the process may crash; without a late event none
of this happens. The findings of a syscall without a name are about syscall 0 (`Infos`),
late event or not. `Finish` asks that every syscall but the late one's has findings. The refinement mapping (`Promise`):

| `WindowReport` | `Collector` |
|---|---|
| `open` | `rd.Close` has not returned to the goroutine |
| `late` | the syscall in hand, if `busyAtClose` |
| `json`, `complete` | the two JSON files among those `written` |
| `perf`, `findings` | the lines whose last number is printed, the findings whose rules have read for the last time |
| `Take`, `Close` | `ReadSelected`, the last step of `rd.Close` |
| `WriteTrace`, `PutLine`, `Draw`, `Finish` | `WriteJSON`, `PrintP99`, `ApplyRules`, `WriteFinding` |
| `End` | `Leave`, `Fault` |

Every other step, the writes to the shared statistics among them, leaves the promise as
it is. Nothing in `WindowReport` is allowed in vain: with any one of the alternatives of
the late event taken away, TLC finds a run of `Collector` that needs it.

### SortedDelays and LatencySummary

`updateStatistics(ret, delay)` counts a call and appends its delay;
`summarizeOneSyscall` sorts in place, by any of the orders a sort may give, and
takes the percentiles at the indices of the code. `SortedDelays` has the sort and the
middle, which `FindingRules` uses as well. 99/100 is the pair of constants
`Part` and `Whole`, so that its boundary is reached with few calls. `Truncated` is
the narrowing of the 64-bit value to the 32-bit `errno`, and a call is counted as failed if
what is left is positive. A return value is any number: `rt_sigreturn` returns the register
it restores, `F_GETOWN` the negative number of a process group. For the errors, -4095 to -1, nothing
is lost; of the other negative values some become positive and count, others do not.

`covered` is the number of calls the last summary is of. The percentiles are compared with
those calls, also when others have been counted since.

### FlagDecode and ArgText

A value is the set of its bits. `CutMasked` is what the decoders do before their
loop (socket type, access mode, exit signal), `Take` and `Pass` are one entry of
the table, `Join` is the end with the rest as a number. The tables are those of
the source. `ArgText` has the fields of the system calls that have a decoder and
the tables of single values; it gives `FindingRules` the text of a call as a
function from fields to the names in it, and the order of the fields, which the
patterns depend on.

### FindingRules

`Capture` is one event that passes the filter, `EndCapture` the end of the window,
`Report(id)` one round of the goroutine's loop over `seenSyscalls` in any order:
`assignResultToOverallInfo` and `generateOverallFinding`. A regular expression of
`risk.go` is a rule: a field, the names it looks for, and whether it is anchored to
the end of the text. The concurrency of the two goroutines is left to `Collector`.
The sort in `Report` is in place, as in the code: the record that was copied out of the
map and the one in it share the array of delays.

`Record(id)` is the refinement mapping to `LatencySummary`: the calls are those logged for
the id, the counters and the delays its statistics, the percentiles those of its result.
`Capture` of a call is `updateStatistics` for the call's id, `Report(id)` is
`summarizeOneSyscall` for `id`, and each leaves the records of all other ids alone. 99 and
100 are the code's own here; `Half` and `MaxErrno` are 2^31 and 4095 in the code, 128 and
127 in the runs, because 2^31 is out of the range of TLC's integers. Both modules take
`Errno` from `SortedDelays`.

### PtrArgTable

`WriteLine` is one round of a generator's loop over the map of system calls, in any
order, through a `bufio.Writer` of `BufSize` bytes; `EndC` flushes, `EndGo` does
not. `Load` is `run()` replacing the C table by the Go one: `Set` of the collection's
variable fails unless the two have one size, which is that of the largest number.
That the texts were pasted into the sources unchanged is taken from comparing
`bpf/map.c` with `ebpf.go`.

`GetFields` is `getSyscallFields`: it adds an entry for each name whose format it could
open to a file it does not truncate. `sourced` is what the running generators have
compiled in, which is what an earlier run has written: `RunAgain` is a run after the
text was pasted, `PasteFails` the attempt to compile a text with a key that is there
twice. The first run has no fields yet, so all its masks are empty.

## 3. The runs

| Run | Instance | Distinct states | Shows |
|---|---|---|---|
| `capture` | 2 tids, 2 cgroups, a table of one id and an id beyond it, `inflight` of 1 entry, ring of 2 slots, 2 traced calls, 3 reservations, with fairness | 483,772 | the safety properties of the kernel half, that it implements `CallTrace`, and `CompletedCallIsRead` |
| `capture_pairing` | 1 tid | stops at the violation | `PairedWithOwnEnter` does not hold |
| `runlife` | 2 pids, 2 starts of the container, every command line, both kinds of host, with fairness | 19,336 | the cgroup that is captured, the order of attach and detach (`CapturePhases`), and that the window ends |
| `collector` | 3 ids of which 2 are selected, one of these without a name, 2 events, all failures, with fairness | 318,063 | the reports against the events taken, that they are those `WindowReport` promises, and that the window ends |
| `collector_summary` | 1 event, no failures | stops | `SummaryBeforeExit` does not hold |
| `argderef` | 3 arguments, 2 of them pointers around a number | 101,184 | what reported words and zeros say |
| `ptrtable` | 4 numbers with a gap, lines of 1 and 2 bytes, a buffer of 3, 2 runs of the generators, a number without a format | 223,065 | the masks the programs run with |
| `ptrtable_marked` | the same | stops | `PointersMarked` does not hold |
| `latency` | up to 4 calls, 3 delays, 4 return values, 2/3 for 99/100, an errno of three bits | 111,049 | percentiles and failures |
| `decode` | every union of three flags, single bits, masked or unknown bits, for seven fields | 126,198 | what a text keeps |
| `findings` | up to 4 events of 12 kinds, 6 ids of which one has no name, 3 filters; 2 calls and 1/2 for 20 and 0.4 | 21,169 | the findings against the log, and that each id's record takes the steps of `LatencySummary` |
| `findings_args` | up to 2 events of the same | stops | `SensitiveArgsFound` does not hold |

Deadlock is checked in every run. Where a component is done it has an explicit
step that changes nothing (`Gone`, `Done`, `Submitted`).

Why the bounds are enough to see the interesting cases:

* `capture`: a map of one entry is full while another thread enters; a ring of two
  slots is full while two programs hold reservations, and positions are settled in
  both orders; two calls are enough for one that is lost and one after it under the
  same tid, because calls that are not traced (`EnterUnseen`, `Spawn`), which store
  nothing in between, do not count against the bound; two cgroups for moves between
  enter and exit. The properties were also found to hold with three calls, without
  the temporal ones. The theorems remove all of these bounds.
* `runlife`: two pids, so that the container's next start has the same pid or another
  one and each may be another process's in between; two starts, so that an inode can be
  stale; a first line that leads nowhere and one that leads to the mount, on hosts with
  several hierarchies. Nothing else in the module is bounded.
* `collector`: with two events a system call has one event that is late and one that was
  counted before, or the late event is of another one; the two goroutines overlap in at most one
  event, the last, because the reader is closed first. The two syscalls that are kept are
  0 and one without a name, whose findings are drawn from 0: a late event of the one
  meets the findings of the other. With three events there are 1.8 million states and the same
  properties hold. The theorems remove the bound.
* `argderef`: the number between two pointers is what an index error would hit; one
  word is enough since words are only compared with what was found.
* `ptrtable`: every order fills the buffer; in some the boundary is within a line,
  in others between two, and in some the largest number is among the lines lost. The
  second run of the generators is the first with fields, and the first whose text has
  keys twice; a third one differs from it in nothing.
* `latency`: even and odd counts, one call, equal delays, and the first count at which
  P99 is not the longest; calls after a summary and summaries after these; of the return values
  one is an error, one a success that `errno` has no room for, and of two negative ones
  beyond the errors one is counted as failed and one is not.
* `decode`: every flag, alone and with two others, every part of a combined flag,
  the masks with known and unknown values.
* `findings`: counts on both sides of the minimum, rates on both sides of the ceiling and
  at it exactly, a negative value that is not counted as failed, delays on both sides of both warnings, each id reported before and after each
  other one, and a call for each of the two names that pass for others.

### Fairness

`capture` assumes that a BPF program that has started comes to its end (the
verifier guarantees it) and that the reader goes on reading. Nothing is assumed of
the threads. `CompletedCallIsRead` ends with the reader's close, because what is in
the ring then is never read.

`collector` assumes that both goroutines are scheduled, and that the window ends:
`run()` sets a timeout of 60 seconds. It does not assume that events arrive.
`CloseReader` has strong fairness: it waits for a mutex that the main loop takes
anew for each event, and Go's `sync.Mutex` goes to a waiter that has been waiting
for a millisecond. With weak fairness alone a busy ring could keep the window open
on paper; in the code the closed poller also ends the next `Read` that has to wait.

`runlife` assumes that the timer expires, that the calls of `run()` after the timer was
set return or fail (`ringbuf.NewReader`, `os.OpenFile` and the start of the goroutine),
that both goroutines are scheduled and that the deferred calls return. It assumes nothing of
`docker inspect`, which `run()` starts without a timeout, and nothing of signals. So
`WindowBounded` begins with the timer, not with the process.

## 4. Findings

Four statements of the repository do not hold. Each has a run with a
counterexample of at most 25 states.

* **Two calls in one event** (`capture_pairing`). The README says the two sides are
  correlated by a per-thread map. When the ring is full `capture_sys_exit` returns
  before it looks at `inflight`, and calls that never return have no sys_exit, so an
  entry stays behind. The next sys_exit of that tid that has no entry of its own
  takes it. `MispairedOnlyAfterLoss` says that nothing else leads to it.
* **The process ends before its reports** (`collector_summary`). Closing the reader
  makes `run()` return, and nothing waits for the goroutine that has yet to write
  `running.json`, `performance.log` and `finding.json`.
* **Pointers that are not marked** (`ptrtable_marked`). `fillSysPtrArgTableForGo` has
  no `Flush`. `fillPtrArgs` in `ebpf.go` has 346 of the 385 entries of `map.c`, 4093
  bytes of a buffer of 4096, and it is the one that is loaded. 20 system calls have
  pointer arguments that are never read.
* **Rules that never match** (`findings_args`). Patterns with `$` expect a field at
  the end of the text that is followed by others in `SyscallFields`: the type of
  `socket`, and the flags of `clone`, `mmap`, `open`, `openat` and `seccomp`.

What else differs, without a run of its own:

* The repository's `README.md:65` says "Capture all observed syscalls". An element
  stays in `inflight` for each thread that died in a call, and once 10240 are there
  the calls of new threads are not recorded, which nothing tells (`HasRoom`).
* `main.go:454-455` takes the first line of `/proc/<pid>/cgroup` for the unified hierarchy.
  On a host with several a line like `12:rdma:/` makes the root cgroup the target, and the
  run waits for 60 seconds for calls of nobody; there is no error (`ReadCgroup`).
* `main.go:393-409` ignores the errors of its writes: a full disk breaks `running.log` silently,
  while `running.json` and the summary go on counting (`WriteLog`).
* A negative return value that is no error, of `rt_sigreturn` or `F_GETOWN`, is counted as
  failed; one that `errno` has no room for may be missed (the two bounds of
  `FailedAreErrors`).
* `main.go:323` announces an elegant exit; the runtime may abort the process on the
  conflicting map accesses of the two goroutines, or on a slice header read in
  halves (`Fault`).
* `main.go:389` marks an id as seen before it is counted, so that a summary in
  between prints a call that was called 0 times, with a success rate of NaN.
* The comment at `program.bpf.c:18` has the opposite sign of `errno`, and the one at
  `:168` expects a word that was zero to be zero again, which it need not be;
  `FailedAreErrors` and `ZeroIsExplained` say what the code does.
* `decodeSocketType` drops a base type it has no name for if SOCK_NONBLOCK or
  SOCK_CLOEXEC is set (the exception in `TextKeepsValue`).
* An id without a name takes the result of system call 0 for its own, if that was
  reported before (the exception in `FindingsOfOwnCalls`; `Home` in `Collector`).
* `PTRACE_SETREGSET` passes for `PTRACE_SETREGS`, and `SECCOMP_FILTER_FLAG_TSYNC_ESRCH`
  for `SECCOMP_FILTER_FLAG_TSYNC` (the exception in `VisibleFlagsFound`).
* `--target-syscall "read, write"` is accepted and selects `read` only; an empty part
  selects the ids without a name.

## 5. The proofs

Each `...Proofs` module has the same plan: a lemma for `Init`, one lemma per action
(or per action and conjunct), the theorem that `IInv` is invariant, and the
theorems that follow from it. They hold for every value of the constants that
satisfies the module's one `ASSUME`: any number of threads, any size of map, ring
and buffer, any table, mask and set of calls. The bounds `MaxClock`, `MaxPos`,
`MaxEvents` and `MaxCalls` are any numbers too.

`IInv` has in each case the properties that are inductive and what these need:

* `SyscallCapture`. The refinement theorem needs no invariant beyond `IInv`: that an
  entry is of a call before the clock, that records of one tid have different return
  times and positions in the same order, and that nothing submitted is discarded.
  `MispairedOnlyAfterLoss` is not inductive: when a program submits,
  one must know that a stored call that is not lost still has its entry
  (`StoredCallHasEntry`), that an entry that is not of the present call is of a lost
  one (`EntryOfPresentCall`), and that no two tids hold one call's entry
  (`EntriesDistinct`). `TidIntervalsInOrder` needs that a tid's records precede its
  entry and its reservation (`RecordsPrecede`); `ReservationExclusive` that a position
  is held exactly in `exiting` (`ThreadsConsistent`); `EventsFromTarget` that entries
  passed the filter (`EntriesWellFormed`). `RecordsWellFormed` ties times and positions to
  the counters.
* `Collector`. `BooksFollowHandler` says for each `mainPc` how `taken`, `datas` and `log`
  relate, the log up to what failing writes have left of its events (`Logged`).
  `ReaderClosed` says that the main loop is not in `Read` once the
  goroutine is past `Close`, so that no event is taken any more.
  `JsonAfterClose` and it make `JsonIsTakenButOne` inductive: nothing is taken after
  `running.json` is written, and `datas` had all but the event in hand.
  `CountInv` is a second invariant, inductive together with `IInv`, about the two
  goroutines' reads and writes of one record: until `run()` has counted the event in hand
  every copy of its record is one short (`HandNotCounted`), after that a copy may still be
  one short and may overwrite the right one, but never more (`CountsClose`), and for all
  other syscalls, or when no event was in hand at the close (`Quiet`), every copy is
  right: the counts (`CountsRight`), the calls findings are drawn from (`RunningRight`), the
  calls percentiles cover (`OverRight`) and the results (`ResultRight`). Each of these
  follows a value from where it is read to where it is written or printed, for each
  system call by itself and each read of a line by itself, so that an event in hand spoils
  nothing but what is said of its own; what findings say of a syscall without a name is
  followed for `Home` instead, whose result may still be the zero record. `LinesMade` says
  which numbers of the present line are there. Counting is done in a lemma about the
  cardinality of the positions of an id (`CountAppend`).
  `WindowInv` is the third, about what is reported and when: the event in hand is the last
  one taken (`HandIsLast`), what was seen is what was taken but for it (`SeenTaken`), the
  range loop visits all that was seen when it began (`RangeVisits`), a syscall's line
  precedes its findings and neither is written twice (`LinesBeforeFindings`), and
  the files come in order (`FilesInOrder`). With the three, each action of `Collector` is
  shown to be the one of `WindowReport` in the table of section 2, or to leave it alone.
  `CollectorEndsInSteps` is the part of `WindowEnds` that needs no fairness: once the reader is
  closed, every step, a failing one too, lowers the natural number `StepsLeft`. It counts
  what is left of the main loop and of the goroutine, and fourteen steps for each system call
  that may still get a line in `performance.log` (`Pending`); it does not grow again because nothing is
  taken any more (`ReaderClosed`) and no line is written twice (`LinesBeforeFindings`).
* `RunLife`. `HeldInOrder`: what `run()` holds is what the calls before `pc` acquired, and on
  the way out an initial part of it. `TargetInOrder`: what is known before each call.
  `AskedBefore`: the pid is of a start that had been, and is the container's as long as it is
  in that start. `ResolvedFrom`: what the resolution has found by now, on a unified host and
  on any other. `StrangersAfterStop`: another process is met only if the container had
  stopped before the open. `WaiterInLoop` ties the goroutine to the loop.
* `ArgDeref`. `EnterProgress` and `ExitProgress` say what the loops have done to the
  arguments below `i`; `MemoryIsHeld` that `held` follows `mem`.
* `PtrArgTable`. `WrittenIsSomewhere`: a line the loop has passed is in the file or in
  the buffer, byte by byte. `CFlushed`, `GoEnded` and `LoadedFromGo` carry it to the load.
* `LatencySummary`. `DelaysOfCalls` (the record holds the delays of the calls in some
  order, and its first `covered` ones are those of the calls the summary is of) and
  `SummaryOfSorted` (these are sorted, and the percentiles are theirs) let the percentiles be counted over the calls; the
  counting of a sorted sequence is done in lemmas about cardinalities. `LatencySortDetermined`
  is about the sort itself: every slice has an order (by induction on its length, over the
  least length without one; `InsertOne` adds a last element to a sorted slice), and it has
  only one (`OrderingUnique`: if two differed at an index, one of them would have more
  elements up to the smaller of the two values). So the choice among the orders, as which
  `SortedDelays` models the sort, is a choice of one, and `summarizeOneSyscall` is never
  stuck.
* `FlagDecode`. `BitsAccounted` says where each bit is; `PassedOver` that a flag the loop
  has passed was taken or shares a bit with one that was.
* `FindingRules`. `BooksAgree` (the statistics are those of the log, their delays until
  the id is reported), `ResultsFinal` (a result is assigned once capture has ended, the delays
  are then a sorted order of those logged and the percentiles are of that order) and
  `FindingsGenerated` (the findings are those of the results as they are at the end) give the
  properties; that half of the calls are slower than P50 follows by counting the ones
  that are not (`SlowDelays`). The refinement (`RulesImplementRecords`) needs the two first: the
  sort of the array in place must lose no call, and an id that is summarised must not have
  been before. That the ids are finitely many is assumed for one conjunct of it, the bound of
  `LatencySummary` on the calls of one id.
Proved, by module: type correctness of all eight; the other safety properties of
`capture` and that it implements `CallTrace` (`CaptureImplementsTrace`);
`CapturesContainer` of `runlife` and that it implements `CapturePhases`
(`RunImplementsPhases`); all properties of `collector` but the liveness, with its
refinement of `WindowReport` (`CollectorImplementsReport`); all of `argderef`, `ptrtable`,
`latency`, `decode` and `findings`, the last with its refinement of `LatencySummary`
(`RulesImplementRecords`). Some theorems are about more than the runs check:
`CaptureAtMostOnce` (no sys_enter is reported twice, which the refinement implies),
`CollectorCounts` (a printed count is at most one call short, for any number of events),
`CollectorEndsInSteps` (nothing goes on for ever after the close), `TableC` (the C table is
whole), `LatencyOrder` (P50 is not above P99), `LatencyLongest` (P99 of up to a hundred
calls is the longest) and `LatencySortDetermined` (a slice has exactly one order).

Only model-checked:

* `CompletedCallIsRead`, `WindowEnds` and `WindowBounded`: liveness under fairness and
  `ENABLED` are beyond this prover. Of `WindowEnds` the half without fairness is proved
  (`CollectorEndsInSteps`); that a step is always possible before the end, and taken, is
  TLC's part.

## 6. What is left

Not modelled, and why:

* The digits of numbers, the types before field names, timestamps, the layout of the
  files and the wording of evidence.
* The syntax of the command line, which is the `flag` package's; whether a command line
  is accepted is in `RunLife`, what its filter selects in `FindingRules`.
* Cgroups below the container's, and processes of the host in cgroups of different
  inodes: the programs compare one number, and for a process outside the container
  any number other than the container's is the same to them.
* Values of a map that are read while they are assigned to, a word at a time, and the sort
  in place of a slice that `append` may be adding to: in `Collector` a value is read as it was before
  an assignment or after it, and where two accesses conflict the process may also end.
* `processSyscallNameToIDMapping` and `outputSyscallNumber`: they turn a header and a
  table into text once, and nothing they write is read by another generator.
* The generated bindings.

Plan, in this order:

1. `Syscap`, which composes `SyscallCapture`'s ring with `Collector`'s reader, so that
   the records read are those that are logged, and the close of the reader is that
   of both. The phases tie `RunLife` to the ring already; the events are still tied by
   the words of section 2 only.
