--------------------------- MODULE ArgDerefProofs ---------------------------
(***************************************************************************)
(* Proofs about ArgDeref, for any number of arguments, any pointer mask    *)
(* and any contents of memory.                                             *)
(***************************************************************************)
EXTENDS ArgDeref, TLAPS

\* What a read leaves behind is a word or zero, and a word only if it was there.
LEMMA ProbedType ==
  ASSUME NEW word \in Contents
  PROVE  /\ Probed(word) \in Words \cup {0}
         /\ Probed(word) # 0 => Probed(word) = word
         /\ Probed(word) = 0 => word \in {0, Fault}
  BY DerefAssumption DEF Probed, Contents

\* Before the first round everything is zero and nothing was looked at.
LEMMA InitIInv == Init => IInv
<1> SUFFICES ASSUME Init PROVE IInv
  OBVIOUS
<1> USE DerefAssumption DEF Init, Args
<1>1. TypeOK
  BY DEF TypeOK, Contents
<1>2. MemoryIsHeld
  BY DEF MemoryIsHeld
<1>3. EnterProgress
  BY DEF EnterProgress
<1>4. ExitProgress
  BY DEF ExitProgress
<1>5. ReportedWasThere
  BY DEF ReportedWasThere
<1>6. QED
  BY <1>1, <1>2, <1>3, <1>4, <1>5 DEF IInv

\* Every step keeps the record of what the two loops have done.
LEMMA StepIInv == IInv /\ [Next]_vars => IInv'
<1> SUFFICES ASSUME IInv, [Next]_vars PROVE IInv'
  OBVIOUS
<1>t. TypeOK /\ MemoryIsHeld /\ EnterProgress /\ ExitProgress /\ ReportedWasThere
  BY DEF IInv
<1>p. \A word \in Contents :
        /\ Probed(word) \in Words \cup {0}
        /\ Probed(word) # 0 => Probed(word) = word
        /\ Probed(word) = 0 => word \in {0, Fault}
  BY ProbedType
<1>1. CASE EnterRead
  <2>1. TypeOK'
    <3>1. CASE i \in Pointers
      <4>1. i \in Args /\ mem[i] \in Contents /\ Probed(mem[i]) \in Words \cup {0}
        BY <1>t, <1>p, <1>1, DerefAssumption DEF EnterRead, TypeOK, Args
      <4>2. /\ i' \in 0..NumArgs
            /\ UNCHANGED <<pc, mem, second, held>>
        BY <1>t, <1>1, DerefAssumption DEF EnterRead, TypeOK
      <4>3. /\ deref' = [deref EXCEPT ![i] = Probed(mem[i])]
            /\ first' = [first EXCEPT ![i] = mem[i]]
        BY <1>1, <3>1 DEF EnterRead
      <4>4. deref' \in [Args -> Words \cup {0}]
        BY <1>t, <4>1, <4>3 DEF TypeOK
      <4>5. first' \in [Args -> Contents \cup {Unread}]
        BY <1>t, <4>1, <4>3 DEF TypeOK
      <4>6. QED
        BY <1>t, <4>2, <4>4, <4>5 DEF TypeOK
    <3>2. CASE i \notin Pointers
      BY <1>t, <1>p, <1>1, <3>2, DerefAssumption DEF EnterRead, TypeOK, Args, Contents
    <3>3. QED
      BY <3>1, <3>2
  <2>2. MemoryIsHeld'
    BY <1>t, <1>1, DerefAssumption DEF EnterRead, TypeOK, MemoryIsHeld, Contents, Args
  <2>3. EnterProgress'
    <3>1. CASE i \in Pointers
      BY <1>t, <1>p, <1>1, <3>1, DerefAssumption DEF EnterRead, TypeOK, EnterProgress, ExitProgress, Contents, Args
    <3>2. CASE i \notin Pointers
      BY <1>t, <1>p, <1>1, <3>2, DerefAssumption DEF EnterRead, TypeOK, EnterProgress, ExitProgress, Contents, Args
    <3>3. QED
      BY <3>1, <3>2
  <2>4. ExitProgress'
    <3>1. CASE i \in Pointers
      BY <1>t, <1>p, <1>1, <3>1, DerefAssumption DEF EnterRead, TypeOK, EnterProgress, ExitProgress, Contents, Args
    <3>2. CASE i \notin Pointers
      BY <1>t, <1>p, <1>1, <3>2, DerefAssumption DEF EnterRead, TypeOK, EnterProgress, ExitProgress, Contents, Args
    <3>3. QED
      BY <3>1, <3>2
  <2>5. ReportedWasThere'
    <3>1. CASE i \in Pointers
      BY <1>t, <1>p, <1>1, <3>1, DerefAssumption DEF EnterRead, TypeOK, MemoryIsHeld, ReportedWasThere, Contents, Args
    <3>2. CASE i \notin Pointers
      BY <1>t, <1>p, <1>1, <3>2, DerefAssumption DEF EnterRead, TypeOK, MemoryIsHeld, ReportedWasThere, Contents, Args
    <3>3. QED
      BY <3>1, <3>2
  <2>6. QED
    BY <2>1, <2>2, <2>3, <2>4, <2>5 DEF IInv
<1>2. CASE EnterDone
  <2>1. TypeOK'
    BY <1>t, <1>2, DerefAssumption DEF EnterDone, TypeOK, Args, Contents
  <2>2. MemoryIsHeld'
    BY <1>t, <1>2, DerefAssumption DEF EnterDone, TypeOK, MemoryIsHeld, Contents, Args
  <2>3. EnterProgress'
    BY <1>t, <1>2, DerefAssumption DEF EnterDone, TypeOK, EnterProgress, ExitProgress, Contents, Args
  <2>4. ExitProgress'
    BY <1>t, <1>2, DerefAssumption DEF EnterDone, TypeOK, EnterProgress, ExitProgress, Contents, Args
  <2>5. ReportedWasThere'
    BY <1>t, <1>2, DerefAssumption DEF EnterDone, TypeOK, MemoryIsHeld, ReportedWasThere, Contents, Args
  <2>6. QED
    BY <2>1, <2>2, <2>3, <2>4, <2>5 DEF IInv
<1>3. CASE ExitStart
  <2>1. TypeOK'
    BY <1>t, <1>3, DerefAssumption DEF ExitStart, TypeOK, Args, Contents
  <2>2. MemoryIsHeld'
    BY <1>t, <1>3, DerefAssumption DEF ExitStart, TypeOK, MemoryIsHeld, Contents, Args
  <2>3. EnterProgress'
    BY <1>t, <1>3, DerefAssumption DEF ExitStart, TypeOK, EnterProgress, ExitProgress, Contents, Args
  <2>4. ExitProgress'
    BY <1>t, <1>3, DerefAssumption DEF ExitStart, TypeOK, EnterProgress, ExitProgress, Contents, Args
  <2>5. ReportedWasThere'
    BY <1>t, <1>3, DerefAssumption DEF ExitStart, TypeOK, MemoryIsHeld, ReportedWasThere, Contents, Args
  <2>6. QED
    BY <2>1, <2>2, <2>3, <2>4, <2>5 DEF IInv
<1>4. CASE ExitRead
  <2>1. TypeOK'
    <3>1. CASE ReadAgain(i)
      <4>1. i \in Args /\ mem[i] \in Contents /\ Probed(mem[i]) \in Words \cup {0}
        BY <1>t, <1>p, <1>4, DerefAssumption DEF ExitRead, TypeOK, Args
      <4>2. /\ i' \in 0..NumArgs
            /\ UNCHANGED <<pc, mem, first, held>>
        BY <1>t, <1>4, DerefAssumption DEF ExitRead, TypeOK
      <4>3. /\ deref' = [deref EXCEPT ![i] = Probed(mem[i])]
            /\ second' = [second EXCEPT ![i] = mem[i]]
        BY <1>4, <3>1 DEF ExitRead
      <4>4. deref' \in [Args -> Words \cup {0}]
        BY <1>t, <4>1, <4>3 DEF TypeOK
      <4>5. second' \in [Args -> Contents \cup {Unread}]
        BY <1>t, <4>1, <4>3 DEF TypeOK
      <4>6. QED
        BY <1>t, <4>2, <4>4, <4>5 DEF TypeOK
    <3>2. CASE ~ReadAgain(i)
      BY <1>t, <1>p, <1>4, <3>2, DerefAssumption DEF ExitRead, ReadAgain, TypeOK, Args, Contents
    <3>3. QED
      BY <3>1, <3>2
  <2>2. MemoryIsHeld'
    BY <1>t, <1>4, DerefAssumption DEF ExitRead, ReadAgain, TypeOK, MemoryIsHeld, Contents, Args
  <2>3. EnterProgress'
    <3>1. CASE ReadAgain(i)
      BY <1>t, <1>p, <1>4, <3>1, DerefAssumption DEF ExitRead, ReadAgain, TypeOK, EnterProgress, ExitProgress, Contents, Args
    <3>2. CASE ~ReadAgain(i)
      BY <1>t, <1>p, <1>4, <3>2, DerefAssumption DEF ExitRead, ReadAgain, TypeOK, EnterProgress, ExitProgress, Contents, Args
    <3>3. QED
      BY <3>1, <3>2
  <2>4. ExitProgress'
    <3>1. CASE ReadAgain(i)
      BY <1>t, <1>p, <1>4, <3>1, DerefAssumption DEF ExitRead, ReadAgain, TypeOK, EnterProgress, ExitProgress, Contents, Args
    <3>2. CASE ~ReadAgain(i)
      BY <1>t, <1>p, <1>4, <3>2, DerefAssumption DEF ExitRead, ReadAgain, TypeOK, EnterProgress, ExitProgress, Contents, Args
    <3>3. QED
      BY <3>1, <3>2
  <2>5. ReportedWasThere'
    <3>1. CASE ReadAgain(i)
      BY <1>t, <1>p, <1>4, <3>1, DerefAssumption DEF ExitRead, ReadAgain, TypeOK, MemoryIsHeld, ReportedWasThere, Contents, Args
    <3>2. CASE ~ReadAgain(i)
      BY <1>t, <1>p, <1>4, <3>2, DerefAssumption DEF ExitRead, ReadAgain, TypeOK, MemoryIsHeld, ReportedWasThere, Contents, Args
    <3>3. QED
      BY <3>1, <3>2
  <2>6. QED
    BY <2>1, <2>2, <2>3, <2>4, <2>5 DEF IInv
<1>5. CASE Submit
  <2>1. TypeOK'
    BY <1>t, <1>5, DerefAssumption DEF Submit, TypeOK, Args, Contents
  <2>2. MemoryIsHeld'
    BY <1>t, <1>5, DerefAssumption DEF Submit, TypeOK, MemoryIsHeld, Contents, Args
  <2>3. EnterProgress'
    BY <1>t, <1>5, DerefAssumption DEF Submit, TypeOK, EnterProgress, ExitProgress, Contents, Args
  <2>4. ExitProgress'
    BY <1>t, <1>5, DerefAssumption DEF Submit, TypeOK, EnterProgress, ExitProgress, Contents, Args
  <2>5. ReportedWasThere'
    BY <1>t, <1>5, DerefAssumption DEF Submit, TypeOK, MemoryIsHeld, ReportedWasThere, Contents, Args
  <2>6. QED
    BY <2>1, <2>2, <2>3, <2>4, <2>5 DEF IInv
<1>6. ASSUME NEW a \in Args, NEW word \in Contents, MemoryChanges(a, word) PROVE IInv'
  <2>1. TypeOK'
    BY <1>t, <1>6, DerefAssumption DEF MemoryChanges, TypeOK, Args, Contents
  <2>2. MemoryIsHeld'
    BY <1>t, <1>6, DerefAssumption DEF MemoryChanges, TypeOK, MemoryIsHeld, Contents, Args
  <2>3. EnterProgress'
    BY <1>t, <1>6, DerefAssumption DEF MemoryChanges, TypeOK, EnterProgress, ExitProgress, Contents, Args
  <2>4. ExitProgress'
    BY <1>t, <1>6, DerefAssumption DEF MemoryChanges, TypeOK, EnterProgress, ExitProgress, Contents, Args
  <2>5. ReportedWasThere'
    BY <1>t, <1>6, DerefAssumption DEF MemoryChanges, TypeOK, MemoryIsHeld, ReportedWasThere, Contents, Args
  <2>6. QED
    BY <2>1, <2>2, <2>3, <2>4, <2>5 DEF IInv
<1>7. CASE UNCHANGED vars
  BY <1>t, <1>7 DEF IInv, vars, TypeOK, MemoryIsHeld, EnterProgress, ExitProgress, ReportedWasThere
<1>8. QED
  BY <1>1, <1>2, <1>3, <1>4, <1>5, <1>6, <1>7 DEF Next, Submitted

\* The loops' progress implies what the events promise.
LEMMA Implied == IInv => EnterWordKept /\ ZeroIsExplained
<1> SUFFICES ASSUME IInv PROVE EnterWordKept /\ ZeroIsExplained
  OBVIOUS
<1> USE DerefAssumption DEF IInv, TypeOK, EnterProgress, ExitProgress, Contents, Args
<1>1. EnterWordKept
  BY DEF EnterWordKept, Probed
<1>2. ZeroIsExplained
  BY DEF ZeroIsExplained
<1>3. QED
  BY <1>1, <1>2

\* What the loops of the two programs have done so far, in every state.
THEOREM DerefInvariant == Spec => []IInv
<1>1. Init => IInv
  BY InitIInv
<1>2. IInv /\ [Next]_vars => IInv'
  BY StepIInv
<1>3. QED
  BY <1>1, <1>2, PTL DEF Spec

\* Every variable keeps its type: an event never holds an error code for a word.
THEOREM DerefTypeCorrect == Spec => []TypeOK
<1>1. IInv => TypeOK
  BY DEF IInv
<1>2. QED
  BY <1>1, DerefInvariant, PTL

\* No event reports a word that was never behind that pointer during the call.
THEOREM DerefReported == Spec => []ReportedWasThere
<1>1. IInv => ReportedWasThere
  BY DEF IInv
<1>2. QED
  BY <1>1, DerefInvariant, PTL

\* A word found at the enter is the one reported.
THEOREM DerefKept == Spec => []EnterWordKept
<1>1. IInv => EnterWordKept
  BY Implied
<1>2. QED
  BY <1>1, DerefInvariant, PTL

\* A reported zero means that both attempts found zero or could not read.
THEOREM DerefZero == Spec => []ZeroIsExplained
<1>1. IInv => ZeroIsExplained
  BY Implied
<1>2. QED
  BY <1>1, DerefInvariant, PTL
=============================================================================
