--------------------------- MODULE SyscallCapture ---------------------------
(***************************************************************************)
(* The kernel half of syscap: capture_sys_enter and capture_sys_exit of    *)
(* bpf/program.bpf.c, the inflight hash map that joins them and the events *)
(* ring buffer between them and user space.                                *)
(*                                                                         *)
(* Threads run concurrently, one per tid.  Everything one sys_enter        *)
(* program does is a single step (its one shared effect is the map         *)
(* update); a sys_exit program takes two, because other threads and the    *)
(* reader run between bpf_ringbuf_reserve and bpf_ringbuf_submit.  The     *)
(* payload of an enter_state (comm, uid, ppid, args, deref_args) is fixed  *)
(* by the call that wrote it, so it is represented by that call's          *)
(* ts_ns_enter.                                                            *)
(***************************************************************************)
EXTENDS Integers, FiniteSets, CapturePhases

CONSTANTS
  Tids,         \* thread ids; a dead thread's id may be given to a new one
  Cgroups,      \* cgroup inodes the threads may live in
  Target,       \* the value user space stored in cgroup_id_map
  Ids,          \* syscall numbers the threads use
  TableSize,    \* sizeof(syscall_ptr_args)
  MaxInflight,  \* max_entries of inflight
  RingSlots,    \* how many events fit into the ring buffer
  MaxClock,     \* bound: no thread enters a traced syscall after this time
  MaxPos        \* bound: ring positions reserved in one behaviour

ASSUME CaptureAssumption ==
  /\ Target \in Cgroups
  /\ Ids \subseteq Nat
  /\ TableSize \in Nat
  /\ MaxInflight \in Nat \ {0}
  /\ RingSlots \in Nat \ {0}
  /\ MaxClock \in Nat
  /\ MaxPos \in Nat

VARIABLES
  pc,         \* where each thread is
  cg,         \* the cgroup each thread is in
  call,       \* ts_ns_enter of the thread's present call, 0 if it was not traced
  inflight,   \* the hash map: a function from the tids that have an entry
  clock,      \* bpf_ktime_get_ns
  prodPos,    \* ring positions reserved so far
  consPos,    \* ring positions the reader is done with
  event,      \* the position reserved by the thread's running sys_exit program
  discarded,  \* unread positions that were discarded
  records,    \* every event submitted so far; those above consPos are unread
  stored,     \* history: calls whose enter_state was put into inflight
  lost        \* history: calls whose sys_exit can no longer find their entry

vars == <<phase, pc, cg, call, inflight, clock, prodPos, consPos, event,
          discarded, records, stored, lost>>

threadVars == <<pc, cg, call>>
ringVars   == <<prodPos, consPos, event, discarded, records>>

EnterState ==
  [syscall_id : Nat, cgroup_id : Cgroups, ts_ns_enter : Nat]

Event ==
  [pos : Nat, tid : Tids, syscall_id : Nat, cgroup_id : Cgroups,
   ts_ns_enter : Nat, ts_ns_exit : Nat,
   call : Nat]    \* history: the call that was returning, the owner of ret
-----------------------------------------------------------------------------
(***************************************************************************)
(* The inflight map.                                                       *)
(***************************************************************************)

\* A new key needs a free element; an existing entry is replaced (BPF_ANY).
HasRoom(t) ==
  t \in DOMAIN inflight \/ Cardinality(DOMAIN inflight) < MaxInflight

\* Faulty variant: an entry that is there already is not replaced (BPF_NOEXIST).
WithEntryNoReplace(t, state) ==
  [k \in DOMAIN inflight \cup {t} |->
     IF k = t /\ t \notin DOMAIN inflight THEN state ELSE inflight[k]]

WithEntry(t, state) ==
  [k \in DOMAIN inflight \cup {t} |-> IF k = t THEN state ELSE inflight[k]]

\* Faulty variant: capture_sys_exit does not delete what it reported.
WithoutEntryKept(t) == inflight

WithoutEntry(t) == [k \in DOMAIN inflight \ {t} |-> inflight[k]]

(***************************************************************************)
(* run() attaches and detaches the programs; RunLife has all its steps.    *)
(***************************************************************************)
EnterAttached == phase \notin {"off", "closed"}
ExitAttached  == phase \in {"both", "reading", "closing"}

Advance ==
  /\ PhaseNext
  /\ UNCHANGED <<threadVars, inflight, clock, ringVars, stored, lost>>
-----------------------------------------------------------------------------
(***************************************************************************)
(* sys_enter.                                                              *)
(***************************************************************************)

\* Faulty variant: the cgroup is not compared.
WantedAnyCgroup(t, id, commOk) == commOk /\ id < TableSize

\* The program reaches bpf_map_update_elem: the cgroup is the target's,
\* bpf_get_current_comm succeeded and the table has a byte for this id.
Wanted(t, id, commOk) == cg[t] = Target /\ commOk /\ id < TableSize

EnterProgram(t, id, commOk) ==
  /\ pc[t] = "user"
  /\ EnterAttached
  /\ clock < MaxClock
  /\ clock' = clock + 1
  /\ call' = [call EXCEPT ![t] = clock + 1]
  /\ pc' = [pc EXCEPT ![t] = "kernel"]
  /\ UNCHANGED <<phase, cg, ringVars, lost>>

SysEnterStore(t, id, commOk) ==
  /\ EnterProgram(t, id, commOk)
  /\ Wanted(t, id, commOk)
  /\ HasRoom(t)
  /\ inflight' = WithEntry(t, [syscall_id  |-> id,
                               cgroup_id   |-> cg[t],
                               ts_ns_enter |-> clock + 1])
  /\ stored' = stored \cup {clock + 1}

\* An early return, or a map update that failed: its result is not looked at.
SysEnterSkip(t, id, commOk) ==
  /\ EnterProgram(t, id, commOk)
  /\ ~(Wanted(t, id, commOk) /\ HasRoom(t))
  /\ UNCHANGED <<inflight, stored>>

\* A call whose sys_enter the program does not see: it is not attached, or
\* seccomp turned the call down before the tracepoint.
EnterUnseen(t) ==
  /\ pc[t] = "user"
  /\ pc' = [pc EXCEPT ![t] = "kernel"]
  /\ UNCHANGED <<phase, cg, call, inflight, clock, ringVars, stored, lost>>
-----------------------------------------------------------------------------
(***************************************************************************)
(* sys_exit.                                                               *)
(***************************************************************************)

ReturnToUser(t) ==
  /\ pc' = [pc EXCEPT ![t] = "user"]
  /\ call' = [call EXCEPT ![t] = 0]

RingFull == prodPos - consPos >= RingSlots

\* bpf_ringbuf_reserve found room.
ExitReserve(t) ==
  /\ pc[t] = "kernel"
  /\ ExitAttached
  /\ ~RingFull
  /\ prodPos < MaxPos
  /\ prodPos' = prodPos + 1
  /\ event' = [event EXCEPT ![t] = prodPos + 1]
  /\ pc' = [pc EXCEPT ![t] = "exiting"]
  /\ UNCHANGED <<phase, cg, call, inflight, clock, consPos, discarded,
                 records, stored, lost>>

\* bpf_ringbuf_reserve failed: the program returns before it has looked at
\* inflight, and the entry stays there.
ExitRingFull(t) ==
  /\ pc[t] = "kernel"
  /\ ExitAttached
  /\ RingFull
  /\ ReturnToUser(t)
  /\ lost' = lost \cup {call[t]}
  /\ UNCHANGED <<phase, cg, inflight, clock, ringVars, stored>>

\* The call returns while the sys_exit program is not attached.
ExitUnseen(t) ==
  /\ pc[t] = "kernel"
  /\ ~ExitAttached
  /\ ReturnToUser(t)
  /\ lost' = lost \cup {call[t]}
  /\ UNCHANGED <<phase, cg, inflight, clock, ringVars, stored>>

\* What the two early returns after the reservation leave: this tid has an
\* entry and the entry's id is within the table.
Usable(t) ==
  /\ t \in DOMAIN inflight
  /\ inflight[t].syscall_id < TableSize

\* Faulty variant: an early return without bpf_ringbuf_discard.
DiscardForgotten(t) == UNCHANGED discarded

\* Faulty variant: the position after the reserved one is discarded.
DiscardNext(t) == discarded' = discarded \cup {event[t] + 1}

\* bpf_ringbuf_discard(event, 0)
Discard(t) == discarded' = discarded \cup {event[t]}

ExitDiscard(t) ==
  /\ pc[t] = "exiting"
  /\ ~Usable(t)
  /\ Discard(t)
  /\ event' = [event EXCEPT ![t] = 0]
  /\ ReturnToUser(t)
  /\ UNCHANGED <<phase, cg, inflight, clock, prodPos, consPos, records,
                 stored, lost>>

ExitSubmit(t) ==
  /\ pc[t] = "exiting"
  /\ Usable(t)
  /\ clock' = clock + 1
  /\ records' = records \cup
       {[pos         |-> event[t],
         tid         |-> t,
         syscall_id  |-> inflight[t].syscall_id,
         cgroup_id   |-> inflight[t].cgroup_id,
         ts_ns_enter |-> inflight[t].ts_ns_enter,
         ts_ns_exit  |-> clock + 1,
         call        |-> call[t]]}
  /\ inflight' = WithoutEntry(t)
  /\ event' = [event EXCEPT ![t] = 0]
  /\ ReturnToUser(t)
  /\ UNCHANGED <<phase, cg, prodPos, consPos, discarded, stored, lost>>
-----------------------------------------------------------------------------
(***************************************************************************)
(* The reader.  It takes the positions in order, waits at one that is      *)
(* reserved and not yet submitted, and skips discarded ones.               *)
(***************************************************************************)

Read ==
  /\ phase = "reading"
  /\ \E e \in records : e.pos = consPos + 1
  /\ consPos' = consPos + 1
  /\ UNCHANGED <<phase, threadVars, inflight, clock, prodPos, event,
                 discarded, records, stored, lost>>

SkipDiscarded ==
  /\ phase = "reading"
  /\ consPos + 1 \in discarded
  /\ consPos' = consPos + 1
  /\ discarded' = discarded \ {consPos + 1}
  /\ UNCHANGED <<phase, threadVars, inflight, clock, prodPos, event,
                 records, stored, lost>>
-----------------------------------------------------------------------------
(***************************************************************************)
(* What the kernel does with the threads themselves.                       *)
(***************************************************************************)

\* A new thread's first kernel exit is the return of its parent's clone: a
\* sys_exit under a tid that had no sys_enter.
Spawn(t, g) ==
  /\ pc[t] = "dead"
  /\ pc' = [pc EXCEPT ![t] = "kernel"]
  /\ cg' = [cg EXCEPT ![t] = g]
  /\ UNCHANGED <<phase, call, inflight, clock, ringVars, stored, lost>>

\* exit, exit_group or a fatal signal: no sys_exit follows a call under way.
Die(t) ==
  /\ pc[t] \in {"user", "kernel"}
  /\ pc' = [pc EXCEPT ![t] = "dead"]
  /\ call' = [call EXCEPT ![t] = 0]
  /\ lost' = lost \cup {call[t]}
  /\ UNCHANGED <<phase, cg, inflight, clock, ringVars, stored>>

\* A write to cgroup.procs moves the thread.
Migrate(t, g) ==
  /\ pc[t] \in {"user", "kernel"}
  /\ g # cg[t]
  /\ cg' = [cg EXCEPT ![t] = g]
  /\ UNCHANGED <<phase, pc, call, inflight, clock, ringVars, stored, lost>>

\* execve in a thread t that is not the leader u of its process: u is killed
\* and t goes on under u's tid, so its call returns under another tid.
ExecTakeover(t, u) ==
  /\ t # u
  /\ pc[t] = "kernel"
  /\ pc[u] \in {"user", "kernel"}
  /\ cg[u] = cg[t]
  /\ pc' = [pc EXCEPT ![t] = "dead", ![u] = "kernel"]
  /\ call' = [call EXCEPT ![t] = 0, ![u] = call[t]]
  /\ lost' = lost \cup {call[t], call[u]}
  /\ UNCHANGED <<phase, cg, inflight, clock, ringVars, stored>>
-----------------------------------------------------------------------------
Init ==
  /\ PhaseInit
  /\ pc \in [Tids -> {"dead", "user", "kernel"}]
  /\ cg \in [Tids -> Cgroups]
  /\ call = [t \in Tids |-> 0]
  /\ inflight = [t \in {} |-> [syscall_id |-> 0, cgroup_id |-> Target,
                               ts_ns_enter |-> 0]]
  /\ clock = 0
  /\ prodPos = 0
  /\ consPos = 0
  /\ event = [t \in Tids |-> 0]
  /\ discarded = {}
  /\ records = {}
  /\ stored = {}
  /\ lost = {}

SysEnter(t) ==
  \E id \in Ids, commOk \in BOOLEAN :
    SysEnterStore(t, id, commOk) \/ SysEnterSkip(t, id, commOk)

SysExit(t) == ExitDiscard(t) \/ ExitSubmit(t)

Next ==
  \/ Advance
  \/ \E t \in Tids :
       \/ SysEnter(t)
       \/ EnterUnseen(t)
       \/ ExitReserve(t)
       \/ ExitRingFull(t)
       \/ ExitUnseen(t)
       \/ SysExit(t)
       \/ Die(t)
  \/ \E t \in Tids, g \in Cgroups : Spawn(t, g) \/ Migrate(t, g)
  \/ \E t, u \in Tids : ExecTakeover(t, u)
  \/ Read
  \/ SkipDiscarded

Spec == Init /\ [][Next]_vars

\* A BPF program that has started runs to its end, and the main loop of run()
\* does nothing but call rd.Read again.  Nothing is assumed of the threads.
Fairness ==
  /\ \A t \in Tids : WF_vars(SysExit(t))
  /\ WF_vars(Read)
  /\ WF_vars(SkipDiscarded)

FairSpec == Spec /\ Fairness
-----------------------------------------------------------------------------
(***************************************************************************)
(* Properties.                                                             *)
(***************************************************************************)

\* Every variable is of its type.
TypeOK ==
  /\ phase \in Phases
  /\ pc \in [Tids -> {"dead", "user", "kernel", "exiting"}]
  /\ cg \in [Tids -> Cgroups]
  /\ call \in [Tids -> 0..clock]
  /\ DOMAIN inflight \subseteq Tids
  /\ inflight \in [DOMAIN inflight -> EnterState]
  /\ clock \in Nat
  /\ prodPos \in Nat
  /\ consPos \in 0..prodPos
  /\ event \in [Tids -> 0..prodPos]
  /\ discarded \subseteq 1..prodPos
  /\ records \subseteq Event
  /\ stored \subseteq 1..clock
  /\ lost \subseteq 0..clock

\* An entry of inflight either belongs to the call its thread is in, or to one
\* whose sys_exit will not find it: nothing else is ever left in the map.
EntryOfPresentCall ==
  \A t \in DOMAIN inflight :
    \/ inflight[t].ts_ns_enter = call[t]
    \/ inflight[t].ts_ns_enter \in lost

\* sys_exit joins a sys_enter to another call's return only where that enter's
\* own return was lost (ring full, thread gone, program not attached) and the
\* returning call put no entry of its own into the map.
MispairedOnlyAfterLoss ==
  \A e \in records : e.ts_ns_enter # e.call =>
    /\ e.ts_ns_enter \in lost
    /\ e.call \notin stored \/ e.call \in lost

\* A sys_enter is reported at most once, also when tids are reused, calls have
\* no return or the ring is full in between: capture_sys_exit deletes the entry
\* it reports.
ReportedAtMostOnce ==
  /\ \A e, f \in records : e.ts_ns_enter = f.ts_ns_enter => e = f
  /\ \A e \in records, t \in DOMAIN inflight :
       e.ts_ns_enter # inflight[t].ts_ns_enter

\* The events of one tid reach the reader in the order in which they happened
\* and their intervals do not overlap, even the mispaired ones.
TidIntervalsInOrder ==
  \A e, f \in records :
    e.tid = f.tid /\ e.pos < f.pos => e.ts_ns_exit < f.ts_ns_enter

\* Every event was entered in the target cgroup and before it returned, with an
\* id the table covers: user space sees nothing of an unrelated sys_enter.
EventsFromTarget ==
  \A e \in records :
    /\ e.cgroup_id = Target
    /\ e.syscall_id < TableSize
    /\ e.ts_ns_enter < e.ts_ns_exit

\* No path through capture_sys_exit forgets its reservation: each position the
\* reader has before it holds a record, is discarded, or is still in the hands
\* of a running program.
NoReservationForgotten ==
  \A p \in (consPos + 1)..prodPos :
    \/ p \in discarded
    \/ \E e \in records : e.pos = p
    \/ \E t \in Tids : event[t] = p /\ pc[t] = "exiting"

\* A running program's position is its alone, is ahead of the reader and has
\* not been settled, so that its submit is the only one and is seen.
ReservationExclusive ==
  \A t \in Tids : pc[t] = "exiting" =>
    /\ event[t] > consPos
    /\ event[t] \notin discarded
    /\ \A e \in records : e.pos # event[t]
    /\ \A u \in Tids : event[u] = event[t] => u = t

\* What was submitted is neither discarded nor overwritten.
SettledOnce ==
  /\ \A e \in records : e.pos \notin discarded
  /\ \A e, f \in records : e.pos = f.pos => e = f

\* However many programs hold positions at once, each is settled by its own
\* program, once and before the reader gets there.
ReservationsSettled ==
  NoReservationForgotten /\ ReservationExclusive /\ SettledOnce

\* A call that has its entry and a ring position is read, however many other
\* programs hold earlier positions, unless run() closes the reader.
CompletedCallIsRead ==
  \A t \in Tids, p \in 1..MaxPos :
    (/\ phase = "reading"
     /\ pc[t] = "exiting"
     /\ event[t] = p
     /\ Usable(t))
    ~> \/ phase # "reading"
       \/ consPos >= p /\ \E e \in records : e.pos = p

(***************************************************************************)
(* The refinement mapping to the trace that module CallTrace describes.    *)
(***************************************************************************)

Remembered ==
  [t \in Tids |-> IF t \in DOMAIN inflight THEN inflight[t].ts_ns_enter ELSE 0]

IntervalOf(e) == [tid |-> e.tid, enter |-> e.ts_ns_enter, exit |-> e.ts_ns_exit]

Submitted == {IntervalOf(e) : e \in records}

Taken == {IntervalOf(e) : e \in {f \in records : f.pos <= consPos}}

Trace == INSTANCE CallTrace WITH
  time <- clock, open <- Remembered, sent <- Submitted, given <- Taken

\* The two programs, the map and the ring implement a trace: whatever is lost,
\* reused, denied or discarded, each interval starts at the last sys_enter that
\* was stored under its tid, is reported once, and is read after the earlier
\* ones of its tid, although the ring is shared and settled in any order.
ImplementsTrace == Trace!TraceSpec

\* README.md:5 "correlates the two sides of a syscall with a per-thread
\* in-flight map": the two halves of an event are of one call.
PairedWithOwnEnter == \A e \in records : e.ts_ns_enter = e.call
-----------------------------------------------------------------------------
(***************************************************************************)
(* The inductive invariant behind the safety properties.                   *)
(***************************************************************************)

\* What a thread's program counter says of its call and its reservation.
ThreadsConsistent ==
  \A t \in Tids :
    /\ pc[t] \in {"dead", "user"} => call[t] = 0
    /\ pc[t] = "exiting" <=> event[t] # 0

\* Entries are of stored calls and passed the filter.
EntriesWellFormed ==
  \A t \in DOMAIN inflight :
    /\ inflight[t].ts_ns_enter \in stored
    /\ inflight[t].cgroup_id = Target
    /\ inflight[t].syscall_id < TableSize

\* So are records, which are older than the clock and the last reservation.
RecordsWellFormed ==
  \A e \in records :
    /\ e.ts_ns_enter \in stored
    /\ e.ts_ns_exit <= clock
    /\ e.call <= clock
    /\ e.pos \in 1..prodPos

\* A stored call that is not lost finds its entry when it returns.
StoredCallHasEntry ==
  \A t \in Tids :
    call[t] \in stored \ lost =>
      t \in DOMAIN inflight /\ inflight[t].ts_ns_enter = call[t]

\* No two entries are of the same call.
EntriesDistinct ==
  \A t, u \in DOMAIN inflight :
    inflight[t].ts_ns_enter = inflight[u].ts_ns_enter => t = u

\* A tid's records precede its entry and the position its program holds.
RecordsPrecede ==
  /\ \A e \in records :
       e.tid \in DOMAIN inflight => e.ts_ns_exit < inflight[e.tid].ts_ns_enter
  /\ \A e \in records : pc[e.tid] = "exiting" => e.pos < event[e.tid]

IInv ==
  /\ TypeOK
  /\ ThreadsConsistent
  /\ EntriesWellFormed
  /\ RecordsWellFormed
  /\ EntryOfPresentCall
  /\ StoredCallHasEntry
  /\ MispairedOnlyAfterLoss
  /\ EntriesDistinct
  /\ ReportedAtMostOnce
  /\ RecordsPrecede
  /\ TidIntervalsInOrder
  /\ EventsFromTarget
  /\ NoReservationForgotten
  /\ ReservationExclusive
  /\ SettledOnce
=============================================================================
