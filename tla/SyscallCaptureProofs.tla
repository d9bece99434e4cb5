------------------------ MODULE SyscallCaptureProofs ------------------------
(***************************************************************************)
(* Theorems about SyscallCapture, for any set of threads and any size of   *)
(* the map, the ring and the table.  IInv is the inductive invariant; its  *)
(* preservation is one lemma per actor, one step per action.               *)
(***************************************************************************)
EXTENDS SyscallCapture, TLAPS

\* IInv holds initially: the map, the ring and the history are empty.
LEMMA InitIInv == Init => IInv
<1> SUFFICES ASSUME Init PROVE IInv
  OBVIOUS
<1> USE CaptureAssumption DEF Init, PhaseInit
<1>1. TypeOK
  BY DEF TypeOK, Phases, EnterState, Event
<1>2. ThreadsConsistent /\ EntriesWellFormed /\ RecordsWellFormed
  BY DEF ThreadsConsistent, EntriesWellFormed, RecordsWellFormed
<1>3. EntryOfPresentCall /\ StoredCallHasEntry /\ MispairedOnlyAfterLoss
  BY DEF EntryOfPresentCall, StoredCallHasEntry, MispairedOnlyAfterLoss
<1>4. EntriesDistinct /\ ReportedAtMostOnce /\ RecordsPrecede
  BY DEF EntriesDistinct, ReportedAtMostOnce, RecordsPrecede
<1>5. TidIntervalsInOrder /\ EventsFromTarget
  BY DEF TidIntervalsInOrder, EventsFromTarget
<1>6. NoReservationForgotten /\ ReservationExclusive /\ SettledOnce
  BY DEF NoReservationForgotten, ReservationExclusive, SettledOnce
<1>7. QED
  BY <1>1, <1>2, <1>3, <1>4, <1>5, <1>6 DEF IInv
-----------------------------------------------------------------------------
\* The sys_enter program, and calls it does not see.
LEMMA EnterStep ==
  ASSUME IInv,
         \E t \in Tids : SysEnter(t) \/ EnterUnseen(t)
  PROVE  IInv'
<1> USE CaptureAssumption DEF IInv, threadVars, ringVars
<1>1. ASSUME NEW t \in Tids, NEW id \in Ids, NEW commOk \in BOOLEAN,
             SysEnterStore(t, id, commOk)
      PROVE  IInv'
  <2> USE <1>1 DEF SysEnterStore, EnterProgram, Wanted, WithEntry
  <2>1. TypeOK'
    BY DEF TypeOK, ThreadsConsistent, RecordsWellFormed, EnterState, Event, Phases
  <2>2. ThreadsConsistent'
    BY DEF TypeOK, ThreadsConsistent
  <2>3. EntriesWellFormed' /\ EntriesDistinct'
    BY DEF TypeOK, EntriesWellFormed, EntriesDistinct
  <2>4. RecordsWellFormed' /\ EventsFromTarget'
    BY DEF TypeOK, ThreadsConsistent, EntriesWellFormed, RecordsWellFormed,
            EventsFromTarget, Event, EnterState
  <2>5. EntryOfPresentCall'
    BY DEF TypeOK, ThreadsConsistent, EntriesWellFormed, EntryOfPresentCall
  <2>6. StoredCallHasEntry'
    BY DEF TypeOK, StoredCallHasEntry, EntriesWellFormed
  <2>7. MispairedOnlyAfterLoss'
    BY DEF TypeOK, RecordsWellFormed, EntryOfPresentCall, StoredCallHasEntry,
            MispairedOnlyAfterLoss
  <2>8. ReportedAtMostOnce'
    BY DEF TypeOK, EntriesWellFormed, RecordsWellFormed, EntriesDistinct,
            ReportedAtMostOnce
  <2>9. RecordsPrecede' /\ TidIntervalsInOrder'
    BY DEF TypeOK, ThreadsConsistent, EntriesWellFormed, RecordsWellFormed,
            RecordsPrecede, TidIntervalsInOrder, ReservationExclusive, SettledOnce, Event
  <2>10. NoReservationForgotten' /\ ReservationExclusive' /\ SettledOnce'
    BY DEF TypeOK, ThreadsConsistent, RecordsWellFormed, NoReservationForgotten,
            ReservationExclusive, SettledOnce, Event
  <2>20. QED
    BY <2>1, <2>2, <2>3, <2>4, <2>5, <2>6, <2>7, <2>8, <2>9, <2>10
<1>2. ASSUME NEW t \in Tids, NEW id \in Ids, NEW commOk \in BOOLEAN,
             SysEnterSkip(t, id, commOk)
      PROVE  IInv'
  <2> USE <1>2 DEF SysEnterSkip, EnterProgram
  <2>1. TypeOK'
    BY DEF TypeOK, ThreadsConsistent, RecordsWellFormed, EnterState, Event, Phases
  <2>2. ThreadsConsistent'
    BY DEF TypeOK, ThreadsConsistent
  <2>3. EntriesWellFormed' /\ EntriesDistinct'
    BY DEF TypeOK, EntriesWellFormed, EntriesDistinct
  <2>4. RecordsWellFormed' /\ EventsFromTarget'
    BY DEF TypeOK, ThreadsConsistent, EntriesWellFormed, RecordsWellFormed,
            EventsFromTarget, Event, EnterState
  <2>5. ReportedAtMostOnce'
    BY DEF TypeOK, EntriesWellFormed, RecordsWellFormed, EntriesDistinct,
            ReportedAtMostOnce
  <2>6. EntryOfPresentCall' /\ StoredCallHasEntry' /\ MispairedOnlyAfterLoss'
    BY DEF TypeOK, ThreadsConsistent, EntriesWellFormed, RecordsWellFormed,
            EntryOfPresentCall, StoredCallHasEntry, MispairedOnlyAfterLoss
  <2>7. RecordsPrecede' /\ TidIntervalsInOrder' /\ NoReservationForgotten'
       /\ ReservationExclusive' /\ SettledOnce'
    BY DEF TypeOK, ThreadsConsistent, RecordsWellFormed, RecordsPrecede,
            TidIntervalsInOrder, NoReservationForgotten, ReservationExclusive, SettledOnce, Event
  <2>20. QED
    BY <2>1, <2>2, <2>3, <2>4, <2>5, <2>6, <2>7
<1>3. ASSUME NEW t \in Tids, EnterUnseen(t)
      PROVE  IInv'
  <2> USE <1>3 DEF EnterUnseen
  <2>1. TypeOK'
    BY DEF TypeOK, ThreadsConsistent, RecordsWellFormed, EnterState, Event, Phases
  <2>2. ThreadsConsistent'
    BY DEF TypeOK, ThreadsConsistent
  <2>3. EntriesWellFormed' /\ EntriesDistinct' /\ RecordsWellFormed'
       /\ EventsFromTarget' /\ ReportedAtMostOnce'
    BY DEF TypeOK, EntriesWellFormed, EntriesDistinct, RecordsWellFormed,
            EventsFromTarget, ReportedAtMostOnce
  <2>4. EntryOfPresentCall' /\ StoredCallHasEntry' /\ MispairedOnlyAfterLoss'
    BY DEF TypeOK, ThreadsConsistent, EntriesWellFormed, RecordsWellFormed,
            EntryOfPresentCall, StoredCallHasEntry, MispairedOnlyAfterLoss
  <2>5. RecordsPrecede' /\ TidIntervalsInOrder' /\ NoReservationForgotten'
       /\ ReservationExclusive' /\ SettledOnce'
    BY DEF TypeOK, ThreadsConsistent, RecordsWellFormed, RecordsPrecede,
            TidIntervalsInOrder, NoReservationForgotten, ReservationExclusive, SettledOnce, Event
  <2>20. QED
    BY <2>1, <2>2, <2>3, <2>4, <2>5
<1>4. QED
  BY <1>1, <1>2, <1>3 DEF SysEnter

\* The sys_exit program, and returns it does not see.
LEMMA ExitStep ==
  ASSUME IInv,
         \E t \in Tids : ExitReserve(t) \/ ExitRingFull(t) \/ ExitUnseen(t)
                           \/ SysExit(t)
  PROVE  IInv'
<1> USE CaptureAssumption DEF IInv, threadVars, ringVars
<1>1. ASSUME NEW t \in Tids, ExitReserve(t)
      PROVE  IInv'
  <2> USE <1>1 DEF ExitReserve, RingFull
  <2>1. TypeOK'
    BY DEF TypeOK, ThreadsConsistent, RecordsWellFormed, EnterState, Event, Phases
  <2>2. ThreadsConsistent'
    BY DEF TypeOK, ThreadsConsistent
  <2>3. EntriesWellFormed' /\ EntriesDistinct' /\ RecordsWellFormed'
       /\ EventsFromTarget' /\ ReportedAtMostOnce'
    BY DEF TypeOK, EntriesWellFormed, EntriesDistinct, RecordsWellFormed,
            EventsFromTarget, ReportedAtMostOnce
  <2>4. EntryOfPresentCall' /\ StoredCallHasEntry' /\ MispairedOnlyAfterLoss'
    BY DEF TypeOK, ThreadsConsistent, EntriesWellFormed, RecordsWellFormed,
            EntryOfPresentCall, StoredCallHasEntry, MispairedOnlyAfterLoss
  <2>5. RecordsPrecede' /\ TidIntervalsInOrder'
    BY DEF TypeOK, ThreadsConsistent, EntriesWellFormed, RecordsWellFormed,
            RecordsPrecede, TidIntervalsInOrder, ReservationExclusive, SettledOnce, Event
  <2>6. NoReservationForgotten'
    BY DEF TypeOK, ThreadsConsistent, NoReservationForgotten
  <2>7. ReservationExclusive' /\ SettledOnce'
    BY DEF TypeOK, ThreadsConsistent, RecordsWellFormed, ReservationExclusive, SettledOnce,
            Event
  <2>20. QED
    BY <2>1, <2>2, <2>3, <2>4, <2>5, <2>6, <2>7
<1>2. ASSUME NEW t \in Tids, ExitRingFull(t)
      PROVE  IInv'
  <2> USE <1>2 DEF ExitRingFull, ReturnToUser
  <2>1. TypeOK'
    BY DEF TypeOK, ThreadsConsistent, RecordsWellFormed, EnterState, Event, Phases
  <2>2. ThreadsConsistent'
    BY DEF TypeOK, ThreadsConsistent
  <2>3. EntriesWellFormed' /\ EntriesDistinct' /\ RecordsWellFormed'
       /\ EventsFromTarget' /\ ReportedAtMostOnce'
    BY DEF TypeOK, EntriesWellFormed, EntriesDistinct, RecordsWellFormed,
            EventsFromTarget, ReportedAtMostOnce
  <2>4. EntryOfPresentCall' /\ StoredCallHasEntry' /\ MispairedOnlyAfterLoss'
    BY DEF TypeOK, ThreadsConsistent, EntriesWellFormed, RecordsWellFormed,
            EntryOfPresentCall, StoredCallHasEntry, MispairedOnlyAfterLoss
  <2>5. RecordsPrecede' /\ TidIntervalsInOrder' /\ NoReservationForgotten'
       /\ ReservationExclusive' /\ SettledOnce'
    BY DEF TypeOK, ThreadsConsistent, RecordsWellFormed, RecordsPrecede,
            TidIntervalsInOrder, NoReservationForgotten, ReservationExclusive, SettledOnce, Event
  <2>20. QED
    BY <2>1, <2>2, <2>3, <2>4, <2>5
<1>3. ASSUME NEW t \in Tids, ExitUnseen(t)
      PROVE  IInv'
  <2> USE <1>3 DEF ExitUnseen, ReturnToUser
  <2>1. TypeOK'
    BY DEF TypeOK, ThreadsConsistent, RecordsWellFormed, EnterState, Event, Phases
  <2>2. ThreadsConsistent'
    BY DEF TypeOK, ThreadsConsistent
  <2>3. EntriesWellFormed' /\ EntriesDistinct' /\ RecordsWellFormed'
       /\ EventsFromTarget' /\ ReportedAtMostOnce'
    BY DEF TypeOK, EntriesWellFormed, EntriesDistinct, RecordsWellFormed,
            EventsFromTarget, ReportedAtMostOnce
  <2>4. EntryOfPresentCall' /\ StoredCallHasEntry' /\ MispairedOnlyAfterLoss'
    BY DEF TypeOK, ThreadsConsistent, EntriesWellFormed, RecordsWellFormed,
            EntryOfPresentCall, StoredCallHasEntry, MispairedOnlyAfterLoss
  <2>5. RecordsPrecede' /\ TidIntervalsInOrder' /\ NoReservationForgotten'
       /\ ReservationExclusive' /\ SettledOnce'
    BY DEF TypeOK, ThreadsConsistent, RecordsWellFormed, RecordsPrecede,
            TidIntervalsInOrder, NoReservationForgotten, ReservationExclusive, SettledOnce, Event
  <2>20. QED
    BY <2>1, <2>2, <2>3, <2>4, <2>5
<1>4. ASSUME NEW t \in Tids, ExitDiscard(t)
      PROVE  IInv'
  <2> USE <1>4 DEF ExitDiscard, Usable, Discard, ReturnToUser
  <2>1. TypeOK'
    BY DEF TypeOK, ThreadsConsistent, RecordsWellFormed, EnterState, Event, Phases
  <2>2. ThreadsConsistent'
    BY DEF TypeOK, ThreadsConsistent
  <2>3. EntriesWellFormed' /\ EntriesDistinct' /\ RecordsWellFormed'
       /\ EventsFromTarget' /\ ReportedAtMostOnce'
    BY DEF TypeOK, EntriesWellFormed, EntriesDistinct, RecordsWellFormed,
            EventsFromTarget, ReportedAtMostOnce
  <2>4. EntryOfPresentCall' /\ StoredCallHasEntry' /\ MispairedOnlyAfterLoss'
    BY DEF TypeOK, ThreadsConsistent, EntriesWellFormed, RecordsWellFormed,
            EntryOfPresentCall, StoredCallHasEntry, MispairedOnlyAfterLoss
  <2>5. RecordsPrecede' /\ TidIntervalsInOrder'
    BY DEF TypeOK, ThreadsConsistent, EntriesWellFormed, RecordsWellFormed,
            RecordsPrecede, TidIntervalsInOrder, ReservationExclusive, SettledOnce, Event
  <2>6. NoReservationForgotten'
    BY DEF TypeOK, ThreadsConsistent, NoReservationForgotten
  <2>7. ReservationExclusive' /\ SettledOnce'
    BY DEF TypeOK, ThreadsConsistent, RecordsWellFormed, ReservationExclusive, SettledOnce,
            Event
  <2>20. QED
    BY <2>1, <2>2, <2>3, <2>4, <2>5, <2>6, <2>7
<1>5. ASSUME NEW t \in Tids, ExitSubmit(t)
      PROVE  IInv'
  <2> USE <1>5 DEF ExitSubmit, Usable, WithoutEntry, ReturnToUser
  <2>1. TypeOK'
    BY DEF TypeOK, ThreadsConsistent, RecordsWellFormed, EnterState, Event, Phases
  <2>2. ThreadsConsistent'
    BY DEF TypeOK, ThreadsConsistent
  <2>3. EntriesWellFormed' /\ EntriesDistinct'
    BY DEF TypeOK, EntriesWellFormed, EntriesDistinct
  <2>4. RecordsWellFormed' /\ EventsFromTarget'
    BY DEF TypeOK, ThreadsConsistent, EntriesWellFormed, RecordsWellFormed,
            EventsFromTarget, Event, EnterState
  <2>5. EntryOfPresentCall'
    BY DEF TypeOK, ThreadsConsistent, EntriesWellFormed, EntryOfPresentCall
  <2>6. StoredCallHasEntry'
    BY DEF TypeOK, StoredCallHasEntry, EntriesWellFormed
  <2>7. MispairedOnlyAfterLoss'
    BY DEF TypeOK, RecordsWellFormed, EntryOfPresentCall, StoredCallHasEntry,
            MispairedOnlyAfterLoss
  <2>8. ReportedAtMostOnce'
    BY DEF TypeOK, EntriesWellFormed, RecordsWellFormed, EntriesDistinct,
            ReportedAtMostOnce
  <2>9. RecordsPrecede' /\ TidIntervalsInOrder'
    BY DEF TypeOK, ThreadsConsistent, EntriesWellFormed, RecordsWellFormed,
            RecordsPrecede, TidIntervalsInOrder, ReservationExclusive, SettledOnce, Event
  <2>10. NoReservationForgotten'
    <3> DEFINE new == [pos         |-> event[t],
                       tid         |-> t,
                       syscall_id  |-> inflight[t].syscall_id,
                       cgroup_id   |-> inflight[t].cgroup_id,
                       ts_ns_enter |-> inflight[t].ts_ns_enter,
                       ts_ns_exit  |-> clock + 1,
                       call        |-> call[t]]
    <3>1. /\ new \in records' /\ new.pos = event[t]
          /\ records \subseteq records'
      BY Zenon
    <3> HIDE DEF new
    <3>2. ASSUME NEW p \in (consPos + 1)..prodPos, NEW u \in Tids,
                 event[u] = p, pc[u] = "exiting"
          PROVE  \/ \E e \in records' : e.pos = p
                 \/ \E v \in Tids : event'[v] = p /\ pc'[v] = "exiting"
      BY <3>1, <3>2 DEF TypeOK
    <3>3. QED
      BY <3>1, <3>2 DEF NoReservationForgotten
  <2>11. ReservationExclusive' /\ SettledOnce'
    BY DEF TypeOK, ThreadsConsistent, RecordsWellFormed, ReservationExclusive, SettledOnce,
            Event
  <2>20. QED
    BY <2>1, <2>2, <2>3, <2>4, <2>5, <2>6, <2>7, <2>8, <2>9, <2>10, <2>11
<1>6. QED
  BY <1>1, <1>2, <1>3, <1>4, <1>5 DEF SysExit

\* What happens to the threads.
LEMMA ThreadStep ==
  ASSUME IInv,
         \/ \E t \in Tids : Die(t)
         \/ \E t \in Tids, g \in Cgroups : Spawn(t, g) \/ Migrate(t, g)
         \/ \E t, u \in Tids : ExecTakeover(t, u)
  PROVE  IInv'
<1> USE CaptureAssumption DEF IInv, threadVars, ringVars
<1>1. ASSUME NEW t \in Tids, NEW g \in Cgroups, Spawn(t, g)
      PROVE  IInv'
  <2> USE <1>1 DEF Spawn
  <2>1. TypeOK'
    BY DEF TypeOK, ThreadsConsistent, RecordsWellFormed, EnterState, Event, Phases
  <2>2. ThreadsConsistent'
    BY DEF TypeOK, ThreadsConsistent
  <2>3. EntriesWellFormed' /\ EntriesDistinct' /\ RecordsWellFormed'
       /\ EventsFromTarget' /\ ReportedAtMostOnce'
    BY DEF TypeOK, EntriesWellFormed, EntriesDistinct, RecordsWellFormed,
            EventsFromTarget, ReportedAtMostOnce
  <2>4. EntryOfPresentCall' /\ StoredCallHasEntry' /\ MispairedOnlyAfterLoss'
    BY DEF TypeOK, ThreadsConsistent, EntriesWellFormed, RecordsWellFormed,
            EntryOfPresentCall, StoredCallHasEntry, MispairedOnlyAfterLoss
  <2>5. RecordsPrecede' /\ TidIntervalsInOrder' /\ NoReservationForgotten'
       /\ ReservationExclusive' /\ SettledOnce'
    BY DEF TypeOK, ThreadsConsistent, RecordsWellFormed, RecordsPrecede,
            TidIntervalsInOrder, NoReservationForgotten, ReservationExclusive, SettledOnce, Event
  <2>20. QED
    BY <2>1, <2>2, <2>3, <2>4, <2>5
<1>2. ASSUME NEW t \in Tids, Die(t)
      PROVE  IInv'
  <2> USE <1>2 DEF Die
  <2>1. TypeOK'
    BY DEF TypeOK, ThreadsConsistent, RecordsWellFormed, EnterState, Event, Phases
  <2>2. ThreadsConsistent'
    BY DEF TypeOK, ThreadsConsistent
  <2>3. EntriesWellFormed' /\ EntriesDistinct' /\ RecordsWellFormed'
       /\ EventsFromTarget' /\ ReportedAtMostOnce'
    BY DEF TypeOK, EntriesWellFormed, EntriesDistinct, RecordsWellFormed,
            EventsFromTarget, ReportedAtMostOnce
  <2>4. EntryOfPresentCall' /\ StoredCallHasEntry' /\ MispairedOnlyAfterLoss'
    BY DEF TypeOK, ThreadsConsistent, EntriesWellFormed, RecordsWellFormed,
            EntryOfPresentCall, StoredCallHasEntry, MispairedOnlyAfterLoss
  <2>5. RecordsPrecede' /\ TidIntervalsInOrder' /\ NoReservationForgotten'
       /\ ReservationExclusive' /\ SettledOnce'
    BY DEF TypeOK, ThreadsConsistent, RecordsWellFormed, RecordsPrecede,
            TidIntervalsInOrder, NoReservationForgotten, ReservationExclusive, SettledOnce, Event
  <2>20. QED
    BY <2>1, <2>2, <2>3, <2>4, <2>5
<1>3. ASSUME NEW t \in Tids, NEW g \in Cgroups, Migrate(t, g)
      PROVE  IInv'
  <2> USE <1>3 DEF Migrate
  <2>1. TypeOK'
    BY DEF TypeOK, ThreadsConsistent, RecordsWellFormed, EnterState, Event, Phases
  <2>2. ThreadsConsistent'
    BY DEF TypeOK, ThreadsConsistent
  <2>3. EntriesWellFormed' /\ EntriesDistinct' /\ RecordsWellFormed'
       /\ EventsFromTarget' /\ ReportedAtMostOnce'
    BY DEF TypeOK, EntriesWellFormed, EntriesDistinct, RecordsWellFormed,
            EventsFromTarget, ReportedAtMostOnce
  <2>4. EntryOfPresentCall' /\ StoredCallHasEntry' /\ MispairedOnlyAfterLoss'
    BY DEF TypeOK, ThreadsConsistent, EntriesWellFormed, RecordsWellFormed,
            EntryOfPresentCall, StoredCallHasEntry, MispairedOnlyAfterLoss
  <2>5. RecordsPrecede' /\ TidIntervalsInOrder' /\ NoReservationForgotten'
       /\ ReservationExclusive' /\ SettledOnce'
    BY DEF TypeOK, ThreadsConsistent, RecordsWellFormed, RecordsPrecede,
            TidIntervalsInOrder, NoReservationForgotten, ReservationExclusive, SettledOnce, Event
  <2>20. QED
    BY <2>1, <2>2, <2>3, <2>4, <2>5
<1>4. ASSUME NEW t \in Tids, NEW u \in Tids, ExecTakeover(t, u)
      PROVE  IInv'
  <2> USE <1>4 DEF ExecTakeover
  <2>1. TypeOK'
    BY DEF TypeOK, ThreadsConsistent, RecordsWellFormed, EnterState, Event, Phases
  <2>2. ThreadsConsistent'
    BY DEF TypeOK, ThreadsConsistent
  <2>3. EntriesWellFormed' /\ EntriesDistinct' /\ RecordsWellFormed'
       /\ EventsFromTarget' /\ ReportedAtMostOnce'
    BY DEF TypeOK, EntriesWellFormed, EntriesDistinct, RecordsWellFormed,
            EventsFromTarget, ReportedAtMostOnce
  <2>4. EntryOfPresentCall' /\ StoredCallHasEntry' /\ MispairedOnlyAfterLoss'
    BY DEF TypeOK, ThreadsConsistent, EntriesWellFormed, RecordsWellFormed,
            EntryOfPresentCall, StoredCallHasEntry, MispairedOnlyAfterLoss
  <2>5. RecordsPrecede' /\ TidIntervalsInOrder' /\ NoReservationForgotten'
       /\ ReservationExclusive' /\ SettledOnce'
    BY DEF TypeOK, ThreadsConsistent, RecordsWellFormed, RecordsPrecede,
            TidIntervalsInOrder, NoReservationForgotten, ReservationExclusive, SettledOnce, Event
  <2>20. QED
    BY <2>1, <2>2, <2>3, <2>4, <2>5
<1>5. QED
  BY <1>1, <1>2, <1>3, <1>4

\* run() and its reader.
LEMMA RunStep ==
  ASSUME IInv,
         Advance \/ Read \/ SkipDiscarded
  PROVE  IInv'
<1> USE CaptureAssumption DEF IInv, threadVars, ringVars
<1>1. CASE Advance
  <2> USE <1>1 DEF Advance, PhaseNext
  <2>1. TypeOK'
    BY DEF TypeOK, ThreadsConsistent, RecordsWellFormed, EnterState, Event, Phases
  <2>2. ThreadsConsistent'
    BY DEF TypeOK, ThreadsConsistent
  <2>3. EntriesWellFormed' /\ EntriesDistinct' /\ RecordsWellFormed'
       /\ EventsFromTarget' /\ ReportedAtMostOnce'
    BY DEF TypeOK, EntriesWellFormed, EntriesDistinct, RecordsWellFormed,
            EventsFromTarget, ReportedAtMostOnce
  <2>4. EntryOfPresentCall' /\ StoredCallHasEntry' /\ MispairedOnlyAfterLoss'
    BY DEF TypeOK, ThreadsConsistent, EntriesWellFormed, RecordsWellFormed,
            EntryOfPresentCall, StoredCallHasEntry, MispairedOnlyAfterLoss
  <2>5. RecordsPrecede' /\ TidIntervalsInOrder' /\ NoReservationForgotten'
       /\ ReservationExclusive' /\ SettledOnce'
    BY DEF TypeOK, ThreadsConsistent, RecordsWellFormed, RecordsPrecede,
            TidIntervalsInOrder, NoReservationForgotten, ReservationExclusive, SettledOnce, Event
  <2>20. QED
    BY <2>1, <2>2, <2>3, <2>4, <2>5
<1>2. CASE Read
  <2> USE <1>2 DEF Read
  <2>1. TypeOK'
    BY DEF TypeOK, ThreadsConsistent, RecordsWellFormed, EnterState, Event, Phases
  <2>2. ThreadsConsistent'
    BY DEF TypeOK, ThreadsConsistent
  <2>3. EntriesWellFormed' /\ EntriesDistinct' /\ RecordsWellFormed'
       /\ EventsFromTarget' /\ ReportedAtMostOnce'
    BY DEF TypeOK, EntriesWellFormed, EntriesDistinct, RecordsWellFormed,
            EventsFromTarget, ReportedAtMostOnce
  <2>4. EntryOfPresentCall' /\ StoredCallHasEntry' /\ MispairedOnlyAfterLoss'
    BY DEF TypeOK, ThreadsConsistent, EntriesWellFormed, RecordsWellFormed,
            EntryOfPresentCall, StoredCallHasEntry, MispairedOnlyAfterLoss
  <2>5. RecordsPrecede' /\ TidIntervalsInOrder'
    BY DEF TypeOK, ThreadsConsistent, EntriesWellFormed, RecordsWellFormed,
            RecordsPrecede, TidIntervalsInOrder, ReservationExclusive, SettledOnce, Event
  <2>6. NoReservationForgotten'
    BY DEF TypeOK, ThreadsConsistent, NoReservationForgotten
  <2>7. ReservationExclusive' /\ SettledOnce'
    BY DEF TypeOK, ThreadsConsistent, RecordsWellFormed, ReservationExclusive, SettledOnce,
            Event
  <2>20. QED
    BY <2>1, <2>2, <2>3, <2>4, <2>5, <2>6, <2>7
<1>3. CASE SkipDiscarded
  <2> USE <1>3 DEF SkipDiscarded
  <2>1. TypeOK'
    BY DEF TypeOK, ThreadsConsistent, RecordsWellFormed, EnterState, Event, Phases
  <2>2. ThreadsConsistent'
    BY DEF TypeOK, ThreadsConsistent
  <2>3. EntriesWellFormed' /\ EntriesDistinct' /\ RecordsWellFormed'
       /\ EventsFromTarget' /\ ReportedAtMostOnce'
    BY DEF TypeOK, EntriesWellFormed, EntriesDistinct, RecordsWellFormed,
            EventsFromTarget, ReportedAtMostOnce
  <2>4. EntryOfPresentCall' /\ StoredCallHasEntry' /\ MispairedOnlyAfterLoss'
    BY DEF TypeOK, ThreadsConsistent, EntriesWellFormed, RecordsWellFormed,
            EntryOfPresentCall, StoredCallHasEntry, MispairedOnlyAfterLoss
  <2>5. RecordsPrecede' /\ TidIntervalsInOrder'
    BY DEF TypeOK, ThreadsConsistent, EntriesWellFormed, RecordsWellFormed,
            RecordsPrecede, TidIntervalsInOrder, ReservationExclusive, SettledOnce, Event
  <2>6. NoReservationForgotten'
    BY DEF TypeOK, ThreadsConsistent, NoReservationForgotten
  <2>7. ReservationExclusive' /\ SettledOnce'
    BY DEF TypeOK, ThreadsConsistent, RecordsWellFormed, ReservationExclusive, SettledOnce,
            Event
  <2>20. QED
    BY <2>1, <2>2, <2>3, <2>4, <2>5, <2>6, <2>7
<1>4. QED
  BY <1>1, <1>2, <1>3

-----------------------------------------------------------------------------
\* Every step, and every stuttering step, preserves the inductive invariant.
LEMMA NextIInv == IInv /\ [Next]_vars => IInv'
<1> SUFFICES ASSUME IInv, [Next]_vars PROVE IInv'
  OBVIOUS
<1>1. CASE Next
  BY <1>1, EnterStep, ExitStep, ThreadStep, RunStep DEF Next
<1>2. CASE UNCHANGED vars
  <2> USE <1>2 DEF vars, threadVars, ringVars, IInv
  <2>1. TypeOK' /\ ThreadsConsistent'
    BY DEF TypeOK, ThreadsConsistent
  <2>2. EntriesWellFormed' /\ EntriesDistinct' /\ RecordsWellFormed'
    BY DEF EntriesWellFormed, EntriesDistinct, RecordsWellFormed
  <2>3. EntryOfPresentCall' /\ StoredCallHasEntry' /\ MispairedOnlyAfterLoss'
    BY DEF EntryOfPresentCall, StoredCallHasEntry, MispairedOnlyAfterLoss
  <2>4. ReportedAtMostOnce' /\ RecordsPrecede' /\ TidIntervalsInOrder'
    BY DEF ReportedAtMostOnce, RecordsPrecede, TidIntervalsInOrder
  <2>5. EventsFromTarget' /\ NoReservationForgotten' /\ ReservationExclusive' /\ SettledOnce'
    BY DEF EventsFromTarget, NoReservationForgotten, ReservationExclusive,
           SettledOnce
  <2>6. QED
    BY <2>1, <2>2, <2>3, <2>4, <2>5
<1>3. QED
  BY <1>1, <1>2

\* The inductive invariant holds in every reachable state.
THEOREM CaptureInvariant == Spec => []IInv
  BY InitIInv, NextIInv, PTL DEF Spec

\* Every variable keeps its type (the maps, the ring positions, the clock).
THEOREM CaptureTypeCorrect == Spec => []TypeOK
<1>1. IInv => TypeOK
  BY DEF IInv
<1>2. QED
  BY <1>1, CaptureInvariant, PTL

\* capture_sys_exit joins the halves of two different calls only when the
\* enter's own return was lost and the returning call has no entry.
THEOREM CapturePairing == Spec => []MispairedOnlyAfterLoss
<1>1. IInv => MispairedOnlyAfterLoss
  BY DEF IInv
<1>2. QED
  BY <1>1, CaptureInvariant, PTL

\* What stays in inflight is an entry of the present call or of a lost one.
THEOREM CaptureEntries == Spec => []EntryOfPresentCall
<1>1. IInv => EntryOfPresentCall
  BY DEF IInv
<1>2. QED
  BY <1>1, CaptureInvariant, PTL

\* No sys_enter is reported twice.
THEOREM CaptureAtMostOnce == Spec => []ReportedAtMostOnce
<1>1. IInv => ReportedAtMostOnce
  BY DEF IInv
<1>2. QED
  BY <1>1, CaptureInvariant, PTL

\* The reader gets the calls of one tid in order and without overlap.
THEOREM CaptureOrder == Spec => []TidIntervalsInOrder
<1>1. IInv => TidIntervalsInOrder
  BY DEF IInv
<1>2. QED
  BY <1>1, CaptureInvariant, PTL

\* Only calls entered in the target cgroup reach user space.
THEOREM CaptureScope == Spec => []EventsFromTarget
<1>1. IInv => EventsFromTarget
  BY DEF IInv
<1>2. QED
  BY <1>1, CaptureInvariant, PTL

\* Every reservation of the ring is settled, once, ahead of the reader.
THEOREM CaptureReservations == Spec => []ReservationsSettled
<1>1. IInv => ReservationsSettled
  BY DEF IInv, ReservationsSettled
<1>2. QED
  BY <1>1, CaptureInvariant, PTL
-----------------------------------------------------------------------------
(***************************************************************************)
(* The refinement: every step of the programs, the threads and the reader  *)
(* is a step of CallTrace or leaves its variables alone.                   *)
(***************************************************************************)

\* An enter remembers a call or passes.
LEMMA EnterRefines ==
  ASSUME IInv, NEW t \in Tids, SysEnter(t)
  PROVE  Trace!TraceNext
<1>1. PICK id \in Ids, commOk \in BOOLEAN :
        SysEnterStore(t, id, commOk) \/ SysEnterSkip(t, id, commOk)
  BY DEF SysEnter
<1>2. UNCHANGED <<Submitted, Taken>> /\ clock' = clock + 1
  BY <1>1 DEF SysEnterStore, SysEnterSkip, EnterProgram, ringVars, Submitted,
              Taken
<1>3. CASE SysEnterStore(t, id, commOk)
  <2>1. Remembered' = [Remembered EXCEPT ![t] = clock + 1]
    BY <1>3 DEF SysEnterStore, WithEntry, Remembered
  <2>2. QED
    BY <1>2, <2>1 DEF Trace!TraceNext, Trace!Remember
<1>4. CASE SysEnterSkip(t, id, commOk)
  BY <1>2, <1>4 DEF SysEnterSkip, Remembered, Trace!TraceNext, Trace!Pass
<1>5. QED
  BY <1>1, <1>3, <1>4

\* A submit reports the remembered call.
LEMMA SubmitRefines ==
  ASSUME IInv, NEW t \in Tids, ExitSubmit(t)
  PROVE  Trace!Report(t)
<1>1. t \in DOMAIN inflight /\ pc[t] = "exiting"
  BY DEF ExitSubmit, Usable
<1>2. Remembered[t] = inflight[t].ts_ns_enter /\ Remembered[t] # 0
  BY <1>1 DEF IInv, TypeOK, EntriesWellFormed, Remembered
<1>3. Remembered' = [Remembered EXCEPT ![t] = 0]
  BY DEF ExitSubmit, WithoutEntry, Remembered
<1> DEFINE new == [pos         |-> event[t],
                   tid         |-> t,
                   syscall_id  |-> inflight[t].syscall_id,
                   cgroup_id   |-> inflight[t].cgroup_id,
                   ts_ns_enter |-> inflight[t].ts_ns_enter,
                   ts_ns_exit  |-> clock + 1,
                   call        |-> call[t]]
<1>4. records' = records \cup {new} /\ UNCHANGED consPos /\ clock' = clock + 1
  BY DEF ExitSubmit
<1>5. /\ new.pos = event[t]
      /\ IntervalOf(new) = [tid |-> t, enter |-> Remembered[t], exit |-> clock + 1]
  BY <1>2 DEF IntervalOf
<1> HIDE DEF new
<1>6. Submitted' = Submitted \cup
        {[tid |-> t, enter |-> Remembered[t], exit |-> clock + 1]}
  BY <1>4, <1>5 DEF Submitted, IntervalOf
<1>7. ~(new.pos <= consPos)
  BY <1>1, <1>5 DEF IInv, TypeOK, ReservationExclusive
<1>8. Taken' = Taken
  BY <1>4, <1>7 DEF Taken, IntervalOf
<1>9. QED
  BY <1>2, <1>3, <1>4, <1>6, <1>8 DEF Trace!Report

\* A read gives user space an interval it has not got, after the earlier ones
\* of the same tid.
LEMMA ReadRefines ==
  ASSUME IInv, Read
  PROVE  Trace!TraceNext
<1> USE DEF IInv
<1>1. PICK e \in records : e.pos = consPos + 1
  BY DEF Read
<1>2. /\ consPos' = consPos + 1
      /\ UNCHANGED <<clock, Remembered, Submitted, records>>
  BY DEF Read, Remembered, Submitted
<1>3. IntervalOf(e) \in Submitted
  BY DEF Submitted
<1>4. IntervalOf(e) \notin Taken
  <2>1. SUFFICES ASSUME NEW f \in records, f.pos <= consPos,
                        IntervalOf(f) = IntervalOf(e)
                 PROVE  FALSE
    BY DEF Taken
  <2>2. f = e
    BY <2>1 DEF IntervalOf, ReportedAtMostOnce
  <2>3. QED
    BY <1>1, <2>1, <2>2 DEF TypeOK
<1>5. ASSUME NEW r \in Submitted, r.tid = IntervalOf(e).tid,
             r.exit < IntervalOf(e).exit
      PROVE  r \in Taken
  <2>1. PICK f \in records : r = IntervalOf(f)
    BY DEF Submitted
  <2>2. f.tid = e.tid /\ f.ts_ns_exit < e.ts_ns_exit
    BY <1>5, <2>1 DEF IntervalOf
  <2>3. f \in Event /\ e \in Event
    BY DEF TypeOK
  <2>4. f.pos < e.pos
    BY <2>2, <2>3 DEF TidIntervalsInOrder, EventsFromTarget, SettledOnce, Event
  <2>5. f.pos <= consPos
    BY <1>1, <2>3, <2>4 DEF TypeOK, Event
  <2>6. QED
    BY <2>1, <2>5 DEF Taken
<1>6. Taken' = Taken \cup {IntervalOf(e)}
  <2>1. {f \in records' : f.pos <= consPos'} = {f \in records : f.pos <= consPos} \cup {e}
    BY <1>1, <1>2 DEF TypeOK, Event, SettledOnce
  <2>2. QED
    BY <2>1 DEF Taken, IntervalOf
<1>7. Trace!Give(IntervalOf(e))
  BY <1>2, <1>3, <1>4, <1>5, <1>6 DEF Trace!Give
<1>8. QED
  BY <1>3, <1>7 DEF Trace!TraceNext

\* Nothing else is seen in the trace.
LEMMA OtherRefines ==
  ASSUME IInv,
         \/ Advance
         \/ \E t \in Tids : \/ EnterUnseen(t)
                            \/ ExitReserve(t)
                            \/ ExitRingFull(t)
                            \/ ExitUnseen(t)
                            \/ ExitDiscard(t)
                            \/ Die(t)
         \/ \E t \in Tids, g \in Cgroups : Spawn(t, g) \/ Migrate(t, g)
         \/ \E t, u \in Tids : ExecTakeover(t, u)
         \/ SkipDiscarded
  PROVE  UNCHANGED Trace!traceVars
<1>1. UNCHANGED <<clock, inflight, records>>
  BY DEF Advance, EnterUnseen, ExitReserve, ExitRingFull, ExitUnseen,
         ExitDiscard, Die, Spawn, Migrate, ExecTakeover, SkipDiscarded,
         threadVars, ringVars
<1>2. UNCHANGED Remembered /\ UNCHANGED Submitted
  BY <1>1 DEF Remembered, Submitted
<1>3. UNCHANGED {f \in records : f.pos <= consPos}
  <2>1. CASE SkipDiscarded
    BY <1>1, <2>1 DEF SkipDiscarded, IInv, TypeOK, Event, SettledOnce
  <2>2. CASE ~SkipDiscarded
    <3>1. UNCHANGED consPos
      BY <2>2 DEF Advance, EnterUnseen, ExitReserve, ExitRingFull, ExitUnseen,
                  ExitDiscard, Die, Spawn, Migrate, ExecTakeover, threadVars,
                  ringVars
    <3>2. QED
      BY <1>1, <3>1
  <2>3. QED
    BY <2>1, <2>2
<1>4. UNCHANGED Taken
  BY <1>3 DEF Taken
<1>5. QED
  BY <1>1, <1>2, <1>4 DEF Trace!traceVars

\* The capture programs, the inflight map and the ring buffer implement the
\* trace of intervals, for any number of threads and any sizes.
THEOREM CaptureImplementsTrace == Spec => ImplementsTrace
<1>1. Init => Trace!TraceInit
  BY DEF Init, Trace!TraceInit, Remembered, Submitted, Taken
<1>2. IInv /\ [Next]_vars => [Trace!TraceNext]_(Trace!traceVars)
  <2> SUFFICES ASSUME IInv, [Next]_vars
               PROVE  Trace!TraceNext \/ UNCHANGED Trace!traceVars
    OBVIOUS
  <2>1. CASE \E t \in Tids : SysEnter(t)
    BY <2>1, EnterRefines
  <2>2. CASE \E t \in Tids : ExitSubmit(t)
    BY <2>2, SubmitRefines DEF Trace!TraceNext
  <2>3. CASE Read
    BY <2>3, ReadRefines
  <2>4. CASE UNCHANGED vars
    BY <2>4 DEF vars, Trace!traceVars, Remembered, Submitted, Taken
  <2>5. QED
    BY <2>1, <2>2, <2>3, <2>4, OtherRefines DEF Next, SysExit
<1>3. QED
  BY <1>1, <1>2, CaptureInvariant, PTL
     DEF Spec, ImplementsTrace, Trace!TraceSpec
=============================================================================
