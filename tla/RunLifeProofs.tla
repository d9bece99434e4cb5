---------------------------- MODULE RunLifeProofs ----------------------------
(***************************************************************************)
(* Theorems about RunLife, for any pids, any number of restarts and every  *)
(* interleaving of run() with the host: one lemma per actor.               *)
(***************************************************************************)
EXTENDS RunLife, TLAPS

\* The empty process, before its first call.
LEMMA InitIInv == Init => IInv
<1> SUFFICES ASSUME Init PROVE IInv
  OBVIOUS
<1> USE RunLifeAssumption DEF Init
<1>1. TypeOK
  <2>1. args \in [id : BOOLEAN, blank : BOOLEAN, rest : BOOLEAN]
    OBVIOUS
  <2>2. timedOut \in BOOLEAN /\ signalled \in BOOLEAN /\ unified \in BOOLEAN
    OBVIOUS
  <2>3. owner \in [Pids -> Processes \cup {"nobody"}]
    BY DEF Processes
  <2>4. QED
    BY <2>1, <2>2, <2>3 DEF TypeOK, Labels, Processes
<1>2. HeldInOrder /\ TargetInOrder
  BY DEF HeldInOrder, TargetInOrder, Level, Resources, Rank, Attached
<1>3. HostConsistent /\ AskedBefore /\ ResolvedFrom /\ StrangersAfterStop /\ WaiterInLoop
  BY DEF HostConsistent, AskedBefore, ResolvedFrom, StrangersAfterStop, Processes, WaiterInLoop
<1>4. QED
  BY <1>1, <1>2, <1>3 DEF IInv

\* A call of run() that succeeds.
LEMMA SetupStep ==
  ASSUME IInv, Setup
  PROVE  IInv'
<1> USE RunLifeAssumption
    DEF IInv, givenVars, resolveVars, windowVars, hostVars, history, At, After, Successor,
        Labels, Processes, Resources, Rank, Level, Attached, Group
<1>1. ASSUME Parse
      PROVE  IInv'
  <2> USE <1>1 DEF Parse
  <2>1. TypeOK'
    BY DEF TypeOK
  <2>2. HeldInOrder'
    BY DEF TypeOK, HeldInOrder
  <2>3. TargetInOrder'
    BY DEF TypeOK, TargetInOrder, HeldInOrder
  <2>4. HostConsistent' /\ WaiterInLoop'
    BY DEF TypeOK, HostConsistent, WaiterInLoop
  <2>5. AskedBefore'
    BY DEF TypeOK, AskedBefore, HostConsistent, TargetInOrder
  <2>6. ResolvedFrom'
    BY DEF TypeOK, ResolvedFrom, HostConsistent, AskedBefore, TargetInOrder
  <2>7. StrangersAfterStop'
    BY DEF TypeOK, StrangersAfterStop, ResolvedFrom, HostConsistent, AskedBefore, TargetInOrder
  <2>8. QED
    BY <2>1, <2>2, <2>3, <2>4, <2>5, <2>6, <2>7
<1>2. ASSUME Inspect
      PROVE  IInv'
  <2> USE <1>2 DEF Inspect
  <2>1. TypeOK'
    BY DEF TypeOK
  <2>2. HeldInOrder'
    BY DEF TypeOK, HeldInOrder
  <2>3. TargetInOrder'
    BY DEF TypeOK, TargetInOrder, HeldInOrder
  <2>4. HostConsistent' /\ WaiterInLoop'
    BY DEF TypeOK, HostConsistent, WaiterInLoop
  <2>5. AskedBefore'
    BY DEF TypeOK, AskedBefore, HostConsistent, TargetInOrder
  <2>6. ResolvedFrom'
    BY DEF TypeOK, ResolvedFrom, HostConsistent, AskedBefore, TargetInOrder
  <2>7. StrangersAfterStop'
    BY DEF TypeOK, StrangersAfterStop, ResolvedFrom, HostConsistent, AskedBefore, TargetInOrder
  <2>8. QED
    BY <2>1, <2>2, <2>3, <2>4, <2>5, <2>6, <2>7
<1>3. ASSUME OpenCgroup
      PROVE  IInv'
  <2> USE <1>3 DEF OpenCgroup, CanOpen
  <2>1. TypeOK'
    BY DEF TypeOK
  <2>2. HeldInOrder'
    BY DEF TypeOK, HeldInOrder
  <2>3. TargetInOrder'
    BY DEF TypeOK, TargetInOrder, HeldInOrder
  <2>4. HostConsistent' /\ WaiterInLoop'
    BY DEF TypeOK, HostConsistent, WaiterInLoop
  <2>5. AskedBefore'
    BY DEF TypeOK, AskedBefore, HostConsistent, TargetInOrder
  <2>6. ResolvedFrom'
    BY DEF TypeOK, ResolvedFrom, HostConsistent, AskedBefore, TargetInOrder
  <2>7. StrangersAfterStop'
    BY DEF TypeOK, StrangersAfterStop, ResolvedFrom, HostConsistent, AskedBefore, TargetInOrder
  <2>8. QED
    BY <2>1, <2>2, <2>3, <2>4, <2>5, <2>6, <2>7
<1>4. ASSUME ReadCgroup
      PROVE  IInv'
  <2> USE <1>4 DEF ReadCgroup
  <2>1. TypeOK'
    BY DEF TypeOK
  <2>2. HeldInOrder'
    BY DEF TypeOK, HeldInOrder
  <2>3. TargetInOrder'
    BY DEF TypeOK, TargetInOrder, HeldInOrder
  <2>4. HostConsistent' /\ WaiterInLoop'
    BY DEF TypeOK, HostConsistent, WaiterInLoop
  <2>5. AskedBefore'
    BY DEF TypeOK, AskedBefore, HostConsistent, TargetInOrder
  <2>6. ResolvedFrom'
    <3>1. UNCHANGED <<unified, asked, starts, cgroupID, target>> /\ cgroupID = 0
      BY DEF TargetInOrder
    <3>2. file' = "none" /\ (path' = "none" \/ file # "none" \/ ~unified)
      OBVIOUS
    <3>3. CASE unified
      <4>1. path' = file /\ file \in {"container", "other", "none"}
        BY <3>3 DEF TypeOK
      <4>2. QED
        BY <3>1, <3>2, <3>3, <4>1 DEF ResolvedFrom
    <3>4. CASE ~unified
      <4>1. path' \in {"nowhere", "root"}
        BY <3>4
      <4>2. asked # 0
        BY DEF TargetInOrder, ResolvedFrom
      <4>3. QED
        BY <3>1, <3>2, <3>4, <4>1, <4>2 DEF ResolvedFrom
    <3>5. QED
      BY <3>3, <3>4
  <2>7. StrangersAfterStop'
    BY DEF TypeOK, StrangersAfterStop, ResolvedFrom, HostConsistent, AskedBefore, TargetInOrder
  <2>8. QED
    BY <2>1, <2>2, <2>3, <2>4, <2>5, <2>6, <2>7
<1>5. ASSUME StatPath
      PROVE  IInv'
  <2> USE <1>5 DEF StatPath, Inode
  <2>1. TypeOK'
    BY DEF TypeOK
  <2>2. HeldInOrder'
    BY DEF TypeOK, HeldInOrder
  <2>3. TargetInOrder'
    BY DEF TypeOK, TargetInOrder, HeldInOrder
  <2>4. HostConsistent' /\ WaiterInLoop'
    BY DEF TypeOK, HostConsistent, WaiterInLoop
  <2>5. AskedBefore'
    BY DEF TypeOK, AskedBefore, HostConsistent, TargetInOrder
  <2>6. ResolvedFrom'
    BY DEF TypeOK, ResolvedFrom, HostConsistent, AskedBefore, TargetInOrder
  <2>7. StrangersAfterStop'
    BY DEF TypeOK, StrangersAfterStop, ResolvedFrom, HostConsistent, AskedBefore, TargetInOrder
  <2>8. QED
    BY <2>1, <2>2, <2>3, <2>4, <2>5, <2>6, <2>7
<1>6. ASSUME RemoveMemlock
      PROVE  IInv'
  <2> USE <1>6 DEF RemoveMemlock
  <2>1. TypeOK'
    BY DEF TypeOK
  <2>2. HeldInOrder'
    BY DEF TypeOK, HeldInOrder
  <2>3. TargetInOrder'
    BY DEF TypeOK, TargetInOrder, HeldInOrder
  <2>4. HostConsistent' /\ WaiterInLoop'
    BY DEF TypeOK, HostConsistent, WaiterInLoop
  <2>5. AskedBefore'
    BY DEF TypeOK, AskedBefore, HostConsistent, TargetInOrder
  <2>6. ResolvedFrom'
    BY DEF TypeOK, ResolvedFrom, HostConsistent, AskedBefore, TargetInOrder
  <2>7. StrangersAfterStop'
    BY DEF TypeOK, StrangersAfterStop, ResolvedFrom, HostConsistent, AskedBefore, TargetInOrder
  <2>8. QED
    BY <2>1, <2>2, <2>3, <2>4, <2>5, <2>6, <2>7
<1>7. ASSUME StoreTarget
      PROVE  IInv'
  <2> USE <1>7 DEF StoreTarget
  <2>1. TypeOK'
    BY DEF TypeOK
  <2>2. HeldInOrder'
    BY DEF TypeOK, HeldInOrder
  <2>3. TargetInOrder'
    BY DEF TypeOK, TargetInOrder, HeldInOrder
  <2>4. HostConsistent' /\ WaiterInLoop'
    BY DEF TypeOK, HostConsistent, WaiterInLoop
  <2>5. AskedBefore'
    BY DEF TypeOK, AskedBefore, HostConsistent, TargetInOrder
  <2>6. ResolvedFrom'
    BY DEF TypeOK, ResolvedFrom, HostConsistent, AskedBefore, TargetInOrder
  <2>7. StrangersAfterStop'
    BY DEF TypeOK, StrangersAfterStop, ResolvedFrom, HostConsistent, AskedBefore, TargetInOrder
  <2>8. QED
    BY <2>1, <2>2, <2>3, <2>4, <2>5, <2>6, <2>7
<1>8. ASSUME Go
      PROVE  IInv'
  <2> USE <1>8 DEF Go
  <2>1. TypeOK'
    BY DEF TypeOK
  <2>2. HeldInOrder'
    BY DEF TypeOK, HeldInOrder
  <2>3. TargetInOrder'
    BY DEF TypeOK, TargetInOrder, HeldInOrder
  <2>4. HostConsistent' /\ WaiterInLoop'
    BY DEF TypeOK, HostConsistent, WaiterInLoop
  <2>5. AskedBefore'
    BY DEF TypeOK, AskedBefore, HostConsistent, TargetInOrder
  <2>6. ResolvedFrom'
    BY DEF TypeOK, ResolvedFrom, HostConsistent, AskedBefore, TargetInOrder
  <2>7. StrangersAfterStop'
    BY DEF TypeOK, StrangersAfterStop, ResolvedFrom, HostConsistent, AskedBefore, TargetInOrder
  <2>8. QED
    BY <2>1, <2>2, <2>3, <2>4, <2>5, <2>6, <2>7
<1>9. ASSUME NEW label \in DOMAIN Acquired, At(label),
             held' = held \cup {Acquired[label]},
             UNCHANGED <<givenVars, resolveVars, target, windowVars, hostVars, history>>
      PROVE  IInv'
  <2> USE <1>9 DEF Acquired
  <2>1. TypeOK'
    <3>1. Acquired[label] \in Resources /\ pc' \in Labels
      OBVIOUS
    <3>2. held' \subseteq Resources
      BY <3>1, Zenon DEF TypeOK
    <3>3. QED
      BY <3>1, <3>2 DEF TypeOK
  <2>2. HeldInOrder'
    BY DEF TypeOK, HeldInOrder
  <2>3. TargetInOrder'
    BY DEF TypeOK, TargetInOrder, HeldInOrder
  <2>4. HostConsistent' /\ WaiterInLoop'
    BY DEF TypeOK, HostConsistent, WaiterInLoop
  <2>5. AskedBefore'
    BY DEF TypeOK, AskedBefore, HostConsistent, TargetInOrder
  <2>6. ResolvedFrom'
    BY DEF TypeOK, ResolvedFrom, HostConsistent, AskedBefore, TargetInOrder
  <2>7. StrangersAfterStop'
    BY DEF TypeOK, StrangersAfterStop, ResolvedFrom, HostConsistent, AskedBefore, TargetInOrder
  <2>8. QED
    BY <2>1, <2>2, <2>3, <2>4, <2>5, <2>6, <2>7
<1>10. QED
  BY <1>1, <1>2, <1>3, <1>4, <1>5, <1>6, <1>7, <1>8, <1>9 DEF Setup, Acquire

\* An error, the window and the way out.
LEMMA LeaveStep ==
  ASSUME IInv,
         \/ Fails \/ CloseReader \/ LoopEnds \/ LoopFails \/ TimeUp \/ Interrupt
         \/ WayOut \/ Killed
  PROVE  IInv'
<1> USE RunLifeAssumption
    DEF IInv, givenVars, resolveVars, windowVars, hostVars, history,
        Labels, Processes, Resources, Rank, Level, Attached, Group
<1>1. ASSUME Fails
      PROVE  IInv'
  <2> USE <1>1 DEF Fails
  <2>1. TypeOK'
    BY DEF TypeOK
  <2>2. HeldInOrder'
    BY DEF TypeOK, HeldInOrder
  <2>3. TargetInOrder'
    BY DEF TypeOK, TargetInOrder, HeldInOrder
  <2>4. HostConsistent' /\ WaiterInLoop'
    BY DEF TypeOK, HostConsistent, WaiterInLoop
  <2>5. AskedBefore'
    BY DEF TypeOK, AskedBefore, HostConsistent, TargetInOrder
  <2>6. ResolvedFrom'
    BY DEF TypeOK, ResolvedFrom, HostConsistent, AskedBefore, TargetInOrder
  <2>7. StrangersAfterStop'
    BY DEF TypeOK, StrangersAfterStop, ResolvedFrom, HostConsistent, AskedBefore, TargetInOrder
  <2>8. QED
    BY <2>1, <2>2, <2>3, <2>4, <2>5, <2>6, <2>7
<1>2. ASSUME CloseReader
      PROVE  IInv'
  <2> USE <1>2 DEF CloseReader
  <2>1. TypeOK'
    BY DEF TypeOK
  <2>2. HeldInOrder'
    BY DEF TypeOK, HeldInOrder
  <2>3. TargetInOrder'
    BY DEF TypeOK, TargetInOrder, HeldInOrder
  <2>4. HostConsistent' /\ WaiterInLoop'
    BY DEF TypeOK, HostConsistent, WaiterInLoop
  <2>5. AskedBefore'
    BY DEF TypeOK, AskedBefore, HostConsistent, TargetInOrder
  <2>6. ResolvedFrom'
    BY DEF TypeOK, ResolvedFrom, HostConsistent, AskedBefore, TargetInOrder
  <2>7. StrangersAfterStop'
    BY DEF TypeOK, StrangersAfterStop, ResolvedFrom, HostConsistent, AskedBefore, TargetInOrder
  <2>8. QED
    BY <2>1, <2>2, <2>3, <2>4, <2>5, <2>6, <2>7
<1>3. ASSUME LoopEnds \/ LoopFails
      PROVE  IInv'
  <2> USE <1>3 DEF LoopEnds, LoopFails
  <2>1. TypeOK'
    <3>1. pc' = "return"
      OBVIOUS
    <3>2. UNCHANGED <<args, unified, pid, file, path, cgroupID, target, held,
                      timedOut, signalled, waiter, main, owner, starts, asked, opened>>
      OBVIOUS
    <3>3. QED
      BY <3>1, <3>2 DEF TypeOK
  <2>2. HeldInOrder'
    BY DEF TypeOK, HeldInOrder
  <2>3. TargetInOrder'
    BY DEF TypeOK, TargetInOrder, HeldInOrder
  <2>4. HostConsistent' /\ WaiterInLoop'
    BY DEF TypeOK, HostConsistent, WaiterInLoop
  <2>5. AskedBefore'
    BY DEF TypeOK, AskedBefore, HostConsistent, TargetInOrder
  <2>6. ResolvedFrom'
    BY DEF TypeOK, ResolvedFrom, HostConsistent, AskedBefore, TargetInOrder
  <2>7. StrangersAfterStop'
    BY DEF TypeOK, StrangersAfterStop, ResolvedFrom, HostConsistent, AskedBefore, TargetInOrder
  <2>8. QED
    BY <2>1, <2>2, <2>3, <2>4, <2>5, <2>6, <2>7
<1>4. ASSUME TimeUp \/ Interrupt
      PROVE  IInv'
  <2> USE <1>4 DEF TimeUp, Interrupt
  <2>1. TypeOK'
    <3>1. UNCHANGED <<args, unified, pc, pid, file, path, cgroupID, target, held,
                      waiter, main, owner, starts, asked, opened>>
      OBVIOUS
    <3>2. timedOut' \in BOOLEAN /\ signalled' \in BOOLEAN
      BY DEF TypeOK
    <3>3. QED
      BY <3>1, <3>2 DEF TypeOK
  <2>2. HeldInOrder'
    BY DEF TypeOK, HeldInOrder
  <2>3. TargetInOrder'
    BY DEF TypeOK, TargetInOrder, HeldInOrder
  <2>4. HostConsistent' /\ WaiterInLoop'
    BY DEF TypeOK, HostConsistent, WaiterInLoop
  <2>5. AskedBefore'
    BY DEF TypeOK, AskedBefore, HostConsistent, TargetInOrder
  <2>6. ResolvedFrom'
    BY DEF TypeOK, ResolvedFrom, HostConsistent, AskedBefore, TargetInOrder
  <2>7. StrangersAfterStop'
    BY DEF TypeOK, StrangersAfterStop, ResolvedFrom, HostConsistent, AskedBefore, TargetInOrder
  <2>8. QED
    BY <2>1, <2>2, <2>3, <2>4, <2>5, <2>6, <2>7
<1>5. ASSUME NEW r \in held, Unwind(r)
      PROVE  IInv'
  <2> USE <1>5 DEF Unwind, IsNext
  <2>1. TypeOK'
    <3>1. UNCHANGED <<args, unified, pc, pid, file, path, cgroupID, target, waiter,
                      main, owner, starts, asked, opened>>
      OBVIOUS
    <3>2. held' \subseteq Resources /\ timedOut' \in BOOLEAN /\ signalled' \in BOOLEAN
      BY DEF TypeOK
    <3>3. QED
      BY <3>1, <3>2 DEF TypeOK
  <2>2. HeldInOrder'
    <3>1. pc' = "return" /\ pc' \notin DOMAIN Level
      OBVIOUS
    <3>2. held' = held \ {r} /\ \A q \in held : Rank(q) <= Rank(r)
      OBVIOUS
    <3>3. held \subseteq Resources /\ \A q \in held, t \in Resources : Rank(t) <= Rank(q) => t \in held
      BY DEF TypeOK, HeldInOrder
    <3>4. ASSUME NEW q \in held', NEW t \in Resources, Rank(t) <= Rank(q)
          PROVE  t \in held'
      BY <3>2, <3>3, <3>4
    <3>5. QED
      BY <3>1, <3>4 DEF HeldInOrder
  <2>3. TargetInOrder'
    BY DEF TypeOK, TargetInOrder, HeldInOrder
  <2>4. HostConsistent' /\ WaiterInLoop'
    BY DEF TypeOK, HostConsistent, WaiterInLoop
  <2>5. AskedBefore'
    BY DEF TypeOK, AskedBefore, HostConsistent, TargetInOrder
  <2>6. ResolvedFrom'
    BY DEF TypeOK, ResolvedFrom, HostConsistent, AskedBefore, TargetInOrder
  <2>7. StrangersAfterStop'
    BY DEF TypeOK, StrangersAfterStop, ResolvedFrom, HostConsistent, AskedBefore, TargetInOrder
  <2>8. QED
    BY <2>1, <2>2, <2>3, <2>4, <2>5, <2>6, <2>7
<1>6. ASSUME Exit \/ Killed
      PROVE  IInv'
  <2> USE <1>6 DEF Exit, Killed, Gone
  <2>1. TypeOK'
    BY DEF TypeOK
  <2>2. HeldInOrder'
    BY DEF TypeOK, HeldInOrder
  <2>3. TargetInOrder'
    BY DEF TypeOK, TargetInOrder, HeldInOrder
  <2>4. HostConsistent' /\ WaiterInLoop'
    BY DEF TypeOK, HostConsistent, WaiterInLoop
  <2>5. AskedBefore'
    BY DEF TypeOK, AskedBefore, HostConsistent, TargetInOrder
  <2>6. ResolvedFrom'
    BY DEF TypeOK, ResolvedFrom, HostConsistent, AskedBefore, TargetInOrder
  <2>7. StrangersAfterStop'
    BY DEF TypeOK, StrangersAfterStop, ResolvedFrom, HostConsistent, AskedBefore, TargetInOrder
  <2>8. QED
    BY <2>1, <2>2, <2>3, <2>4, <2>5, <2>6, <2>7
<1>7. QED
  BY <1>1, <1>2, <1>3, <1>4, <1>5, <1>6 DEF WayOut

\* The container and the other processes.
LEMMA HostStep ==
  ASSUME IInv, Host
  PROVE  IInv'
<1> USE RunLifeAssumption
    DEF IInv, givenVars, resolveVars, windowVars, hostVars, history,
        Labels, Processes, Resources, Rank, Level, Attached, Group, FileAfterEndOf
<1>1. ASSUME ContainerStops
      PROVE  IInv'
  <2> USE <1>1 DEF ContainerStops
  <2>1. TypeOK'
    BY DEF TypeOK
  <2>2. HeldInOrder'
    BY DEF TypeOK, HeldInOrder
  <2>3. TargetInOrder'
    BY DEF TypeOK, TargetInOrder, HeldInOrder
  <2>4. HostConsistent' /\ WaiterInLoop'
    BY DEF TypeOK, HostConsistent, WaiterInLoop
  <2>5. AskedBefore'
    BY DEF TypeOK, AskedBefore, HostConsistent, TargetInOrder
  <2>6. ResolvedFrom'
    BY DEF TypeOK, ResolvedFrom, HostConsistent, AskedBefore, TargetInOrder
  <2>7. StrangersAfterStop'
    BY DEF TypeOK, StrangersAfterStop, ResolvedFrom, HostConsistent, AskedBefore, TargetInOrder
  <2>8. QED
    BY <2>1, <2>2, <2>3, <2>4, <2>5, <2>6, <2>7
<1>2. ASSUME NEW p \in Pids, ContainerStarts(p)
      PROVE  IInv'
  <2> USE <1>2 DEF ContainerStarts
  <2>1. TypeOK'
    BY DEF TypeOK
  <2>2. HeldInOrder'
    BY DEF TypeOK, HeldInOrder
  <2>3. TargetInOrder'
    BY DEF TypeOK, TargetInOrder, HeldInOrder
  <2>4. HostConsistent' /\ WaiterInLoop'
    BY DEF TypeOK, HostConsistent, WaiterInLoop
  <2>5. AskedBefore'
    BY DEF TypeOK, AskedBefore, HostConsistent, TargetInOrder
  <2>6. ResolvedFrom'
    BY DEF TypeOK, ResolvedFrom, HostConsistent, AskedBefore, TargetInOrder
  <2>7. StrangersAfterStop'
    BY DEF TypeOK, StrangersAfterStop, ResolvedFrom, HostConsistent, AskedBefore, TargetInOrder
  <2>8. QED
    BY <2>1, <2>2, <2>3, <2>4, <2>5, <2>6, <2>7
<1>3. ASSUME NEW p \in Pids, OtherStarts(p)
      PROVE  IInv'
  <2> USE <1>3 DEF OtherStarts
  <2>1. TypeOK'
    BY DEF TypeOK
  <2>2. HeldInOrder'
    BY DEF TypeOK, HeldInOrder
  <2>3. TargetInOrder'
    BY DEF TypeOK, TargetInOrder, HeldInOrder
  <2>4. HostConsistent' /\ WaiterInLoop'
    BY DEF TypeOK, HostConsistent, WaiterInLoop
  <2>5. AskedBefore'
    BY DEF TypeOK, AskedBefore, HostConsistent, TargetInOrder
  <2>6. ResolvedFrom'
    BY DEF TypeOK, ResolvedFrom, HostConsistent, AskedBefore, TargetInOrder
  <2>7. StrangersAfterStop'
    BY DEF TypeOK, StrangersAfterStop, ResolvedFrom, HostConsistent, AskedBefore, TargetInOrder
  <2>8. QED
    BY <2>1, <2>2, <2>3, <2>4, <2>5, <2>6, <2>7
<1>4. ASSUME NEW p \in Pids, OtherEnds(p)
      PROVE  IInv'
  <2> USE <1>4 DEF OtherEnds
  <2>1. TypeOK'
    BY DEF TypeOK
  <2>2. HeldInOrder'
    BY DEF TypeOK, HeldInOrder
  <2>3. TargetInOrder'
    BY DEF TypeOK, TargetInOrder, HeldInOrder
  <2>4. HostConsistent' /\ WaiterInLoop'
    BY DEF TypeOK, HostConsistent, WaiterInLoop
  <2>5. AskedBefore'
    BY DEF TypeOK, AskedBefore, HostConsistent, TargetInOrder
  <2>6. ResolvedFrom'
    BY DEF TypeOK, ResolvedFrom, HostConsistent, AskedBefore, TargetInOrder
  <2>7. StrangersAfterStop'
    BY DEF TypeOK, StrangersAfterStop, ResolvedFrom, HostConsistent, AskedBefore, TargetInOrder
  <2>8. QED
    BY <2>1, <2>2, <2>3, <2>4, <2>5, <2>6, <2>7
<1>5. QED
  BY <1>1, <1>2, <1>3, <1>4 DEF Host

\* Every step, and every stuttering step, preserves the inductive invariant.
LEMMA NextIInv == IInv /\ [Next]_vars => IInv'
<1> SUFFICES ASSUME IInv, [Next]_vars PROVE IInv'
  OBVIOUS
<1>1. CASE Next
  BY <1>1, SetupStep, LeaveStep, HostStep DEF Next
<1>2. CASE UNCHANGED vars
  BY <1>2 DEF vars, givenVars, resolveVars, windowVars, hostVars, history, IInv, TypeOK,
     HeldInOrder, TargetInOrder, HostConsistent, AskedBefore, ResolvedFrom,
     StrangersAfterStop, WaiterInLoop, Attached, Group
<1>3. QED
  BY <1>1, <1>2

\* The inductive invariant holds in every reachable state.
THEOREM RunInvariant == Spec => []IInv
  BY InitIInv, NextIInv, PTL DEF Spec

\* Every variable keeps its type.
THEOREM RunTypeCorrect == Spec => []TypeOK
<1>1. IInv => TypeOK
  BY DEF IInv
<1>2. QED
  BY <1>1, RunInvariant, PTL

\* While a program is attached it has a target, and the target is explained by
\* the host and by what the container did since docker inspect answered.
THEOREM RunCapturesContainer == Spec => []CapturesContainer
<1>1. IInv => CapturesContainer
  <2> SUFFICES ASSUME IInv, Attached
               PROVE  /\ "obj" \in held
                      /\ asked # 0
                      /\ target \in Leads
                      /\ unified /\ asked = Group => target = Group
    BY DEF CapturesContainer
  <2>1. "obj" \in held
    BY DEF IInv, HeldInOrder, Attached, Rank, Resources
  <2>2. target # 0 /\ target = cgroupID /\ asked # 0
    BY DEF IInv, TargetInOrder, ResolvedFrom
  <2>3. target \in Leads
    BY <2>2 DEF IInv, ResolvedFrom, StrangersAfterStop, Leads
  <2>4. ASSUME unified, asked = Group PROVE target = Group
    <3>1. starts = asked /\ starts \in Nat
      BY <2>2, <2>4, RunLifeAssumption DEF Group, IInv, TypeOK
    <3>2. target \in asked..starts
      BY <2>2, <2>4 DEF IInv, ResolvedFrom, StrangersAfterStop
    <3>3. QED
      BY <2>4, <3>1, <3>2
  <2>5. QED
    BY <2>1, <2>2, <2>3, <2>4
<1>2. QED
  BY <1>1, RunInvariant, PTL
-----------------------------------------------------------------------------
(***************************************************************************)
(* The refinement: what the kernel half sees of run().                     *)
(***************************************************************************)

\* run() never holds tpExit without tpEnter.
LEMMA PhaseType ==
  ASSUME IInv
  PROVE  PhaseOf \in Kernel!Phases
  BY DEF IInv, HeldInOrder, TypeOK, PhaseOf, Kernel!Phases, Resources, Rank

\* Every step is a step of CapturePhases or one it does not see.
LEMMA PhaseStep ==
  ASSUME IInv, IInv', Next
  PROVE  Kernel!PhaseNext \/ UNCHANGED PhaseOf
<1> SUFFICES ASSUME PhaseOf' # PhaseOf
             PROVE  <<PhaseOf, PhaseOf'>> \in Kernel!PhaseSteps
  <2>1. PhaseOf \in Kernel!Phases
    BY PhaseType
  <2>2. PhaseOf' \in Kernel!Phases
    BY DEF IInv, HeldInOrder, TypeOK, PhaseOf, Kernel!Phases, Resources, Rank
  <2>3. QED
    BY <2>1, <2>2 DEF Kernel!PhaseNext
<1>1. CASE PhaseOf' = "closed"
  BY <1>1, PhaseType DEF Kernel!PhaseSteps
<1> USE DEF IInv, HeldInOrder, TypeOK, Resources, Rank, Level, PhaseOf, ReaderOpen,
            Kernel!PhaseSteps, At, After, Successor
<1>2. CASE Setup
  <2>1. CASE Acquire
    BY <2>1 DEF Acquire, Acquired, windowVars, WaiterInLoop
  <2>2. CASE Go
    BY <2>2 DEF Go, WaiterInLoop
  <2>3. CASE /\ UNCHANGED <<held, waiter>>
             /\ pc \in {"parse", "inspect", "open", "read", "stat", "memlock", "store"}
             /\ pc' \in {"inspect", "open", "read", "stat", "memlock", "load", "enter"}
    BY <2>3
  <2>4. QED
    BY <1>2, <2>1, <2>2, <2>3
       DEF Setup, Parse, Inspect, OpenCgroup, ReadCgroup, StatPath, RemoveMemlock,
           StoreTarget, windowVars
<1>3. CASE Fails
  <2>1. pc' = "return" /\ UNCHANGED <<held, waiter>>
    BY <1>3 DEF Fails, windowVars
  <2>2. pc \in {"exit", "reader", "log"} \/ "tpEnter" \notin held
    BY <1>3 DEF Fails, Labels
  <2>3. CASE "tpEnter" \notin held
    BY <1>1, <2>1, <2>3
  <2>4. CASE pc = "exit"
    BY <2>1, <2>4
  <2>5. CASE pc = "reader"
    BY <2>1, <2>5
  <2>6. CASE pc = "log"
    BY <2>1, <2>6 DEF WaiterInLoop
  <2>7. QED
    BY <2>2, <2>3, <2>4, <2>5, <2>6
<1>4. CASE CloseReader \/ LoopEnds \/ LoopFails
  BY <1>4 DEF CloseReader, LoopEnds, LoopFails, windowVars, WaiterInLoop
<1>5. CASE TimeUp \/ Interrupt \/ Host
  BY <1>5 DEF TimeUp, Interrupt, Host, ContainerStops, ContainerStarts, OtherStarts,
              OtherEnds, windowVars
<1>6. CASE Exit \/ Killed
  BY <1>1, <1>6 DEF Exit, Killed, Gone
<1>7. ASSUME NEW r \in held, Unwind(r)
      PROVE  <<PhaseOf, PhaseOf'>> \in Kernel!PhaseSteps
  BY <1>7 DEF Unwind, IsNext
<1>8. QED
  BY <1>2, <1>3, <1>4, <1>5, <1>6, <1>7 DEF Next, WayOut

\* run() attaches and detaches the programs as CapturePhases says.
THEOREM RunImplementsPhases == Spec => ImplementsPhases
<1>1. Init => Kernel!PhaseInit
  BY DEF Init, Kernel!PhaseInit, PhaseOf
<1>2. IInv /\ IInv' /\ [Next]_vars => [Kernel!PhaseNext]_PhaseOf
  <2>1. CASE Next
    BY <2>1, PhaseStep
  <2>2. CASE UNCHANGED vars
    BY <2>2 DEF vars, windowVars, PhaseOf, ReaderOpen
  <2>3. QED
    BY <2>1, <2>2
<1>3. QED
  BY <1>1, <1>2, RunInvariant, PTL DEF Spec, ImplementsPhases, Kernel!PhaseSpec
=============================================================================
