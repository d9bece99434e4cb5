-------------------------- MODULE PtrArgTableProofs --------------------------
(***************************************************************************)
(* Proofs about PtrArgTable, for any table of system calls, any lengths of *)
(* the lines and any buffer that holds a line.                             *)
(***************************************************************************)
EXTENDS PtrArgTable, TLAPS

\* A line is a sequence of its bytes.
LEMMA LineBytes ==
  ASSUME NEW no \in Syscalls
  PROVE  /\ Line(no) \in Seq(Bytes)
         /\ Len(Line(no)) = LineLen[no]
         /\ \A k \in 1..LineLen[no] : Line(no)[k] = <<no, k>>
<1>1. LineLen[no] \in Nat /\ LineLen[no] <= BufSize /\ BufSize \in Nat
  BY TableAssumption
<1>2. \A k \in 1..LineLen[no] : <<no, k>> \in Bytes
  BY <1>1 DEF Bytes
<1>3. QED
  BY <1>1, <1>2 DEF Line

\* What has been appended is found in what it was appended to.
LEMMA HasConcat ==
  ASSUME NEW S, NEW s \in Seq(S), NEW t \in Seq(S), NEW byte
  PROVE  Has(s, byte) \/ Has(t, byte) => Has(s \o t, byte)
<1>1. ASSUME NEW j \in 1..Len(s), s[j] = byte PROVE Has(s \o t, byte)
  <2>1. j \in 1..Len(s \o t) /\ (s \o t)[j] = byte
    BY <1>1
  <2>2. QED
    BY <2>1 DEF Has
<1>2. ASSUME NEW j \in 1..Len(t), t[j] = byte PROVE Has(s \o t, byte)
  <2>1. Len(s) + j \in 1..Len(s \o t) /\ (s \o t)[Len(s) + j] = byte
    BY <1>2
  <2>2. QED
    BY <2>1 DEF Has
<1>3. QED
  BY <1>1, <1>2 DEF Has

\* Cutting a sequence in two loses none of its elements.
LEMMA HasCut ==
  ASSUME NEW S, NEW s \in Seq(S), NEW n \in 0..Len(s), NEW byte, Has(s, byte)
  PROVE  Has(SubSeq(s, 1, n), byte) \/ Has(SubSeq(s, n + 1, Len(s)), byte)
<1>1. PICK j \in 1..Len(s) : s[j] = byte
  BY DEF Has
<1>2. CASE j <= n
  <2>1. j \in 1..Len(SubSeq(s, 1, n)) /\ SubSeq(s, 1, n)[j] = byte
    BY <1>1, <1>2
  <2>2. QED
    BY <2>1 DEF Has
<1>3. CASE j > n
  <2>1. j - n \in 1..Len(SubSeq(s, n + 1, Len(s))) /\ SubSeq(s, n + 1, Len(s))[j - n] = byte
    BY <1>1, <1>3
  <2>2. QED
    BY <2>1 DEF Has
<1>4. QED
  BY <1>1, <1>2, <1>3

\* The length of what is written at once is that of a buffer, or nothing.
LEMMA SpilledRange ==
  ASSUME NEW bytes \in Seq(Bytes)
  PROVE  Spilled(bytes) \in 0..Len(bytes)
  BY TableAssumption DEF Spilled

\* The masks of a table are sets of arguments.
LEMMA TableType ==
  ASSUME NEW nos
  PROVE  Table(nos) \in [Syscalls -> SUBSET Args]
  BY TableAssumption DEF Table, MaskOf

LEMMA InitIInv == Init => IInv
<1> SUFFICES ASSUME Init PROVE IInv
  OBVIOUS
<1>1. TypeOK
  BY DEF Init, TypeOK, Generators
<1>2. WrittenIsSomewhere
  BY DEF Init, WrittenIsSomewhere, Generators
<1>3. CFlushed /\ GoEnded /\ LoadedFromGo
  BY DEF Init, CFlushed, GoEnded, LoadedFromGo, CNumbers, GoNumbers, Generators
<1>4. QED
  BY <1>1, <1>2, <1>3 DEF IInv

\* A round of a generator's loop.
LEMMA WriteLineIInv ==
  ASSUME IInv, NEW f \in Generators, NEW no \in Syscalls, WriteLine(f, no)
  PROVE  IInv'
<1> DEFINE bytes == buffered[f] \o Line(no)
<1> DEFINE n == Spilled(bytes)
<1>t. TypeOK /\ WrittenIsSomewhere /\ CFlushed /\ GoEnded /\ LoadedFromGo
  BY DEF IInv
<1>0. /\ buffered[f] \in Seq(Bytes) /\ file[f] \in Seq(Bytes)
      /\ Line(no) \in Seq(Bytes) /\ bytes \in Seq(Bytes)
  BY <1>t, LineBytes DEF TypeOK
<1>n. n \in 0..Len(bytes)
  BY <1>0, SpilledRange
<1>a. /\ pc = f /\ no \in left[f]
      /\ left' = [left EXCEPT ![f] = @ \ {no}]
      /\ file' = [file EXCEPT ![f] = @ \o SubSeq(bytes, 1, n)]
      /\ buffered' = [buffered EXCEPT ![f] = SubSeq(bytes, n + 1, Len(bytes))]
      /\ UNCHANGED <<pc, fieldVars, loaded>>
  BY DEF WriteLine
<1>s. SubSeq(bytes, 1, n) \in Seq(Bytes) /\ SubSeq(bytes, n + 1, Len(bytes)) \in Seq(Bytes)
  <2> HIDE DEF bytes, n
  <2>1. QED
    BY <1>0, <1>n
<1> HIDE DEF bytes, n
<1>1. TypeOK'
  <2>1. left' \in [Generators -> SUBSET Syscalls]
    BY <1>t, <1>a DEF TypeOK
  <2>2. file[f] \o SubSeq(bytes, 1, n) \in Seq(Bytes)
    BY <1>0, <1>s
  <2>3. file' \in [Generators -> Seq(Bytes)]
    BY <1>t, <1>a, <2>2 DEF TypeOK
  <2>4. buffered' \in [Generators -> Seq(Bytes)]
    BY <1>t, <1>a, <1>s DEF TypeOK
  <2>5. QED
    BY <1>t, <1>a, <2>1, <2>3, <2>4 DEF TypeOK, fieldVars
<1>2. WrittenIsSomewhere'
  <2>1. SUFFICES ASSUME NEW g \in Generators, NEW m \in Syscalls \ left'[g], NEW k \in 1..LineLen[m]
                 PROVE  Has(file'[g], <<m, k>>) \/ Has(buffered'[g], <<m, k>>)
    BY DEF WrittenIsSomewhere
  <2>2. CASE g # f
    <3>1. left'[g] = left[g] /\ file'[g] = file[g] /\ buffered'[g] = buffered[g]
      BY <1>t, <1>a, <2>2 DEF TypeOK
    <3>2. QED
      BY <1>t, <2>1, <3>1 DEF WrittenIsSomewhere
  <2>3. CASE g = f
    <3>1. /\ file'[g] = file[f] \o SubSeq(bytes, 1, n)
          /\ buffered'[g] = SubSeq(bytes, n + 1, Len(bytes))
          /\ left'[g] = left[f] \ {no}
      BY <1>t, <1>a, <2>3 DEF TypeOK
    <3>2. Has(file[f], <<m, k>>) \/ Has(bytes, <<m, k>>)
      <4>1. CASE m = no
        <5>1. Has(Line(no), <<m, k>>)
          BY <4>1, LineBytes DEF Has
        <5>2. QED
          BY <5>1, <1>0, HasConcat DEF bytes
      <4>2. CASE m # no
        <5>1. Has(file[f], <<m, k>>) \/ Has(buffered[f], <<m, k>>)
          BY <1>t, <2>1, <3>1, <4>2 DEF WrittenIsSomewhere
        <5>2. QED
          BY <5>1, <1>0, HasConcat DEF bytes
      <4>3. QED
        BY <4>1, <4>2
    <3>3. Has(bytes, <<m, k>>) => Has(SubSeq(bytes, 1, n), <<m, k>>) \/ Has(buffered'[g], <<m, k>>)
      BY <1>0, <1>n, <3>1, HasCut
    <3>4. Has(file[f], <<m, k>>) \/ Has(SubSeq(bytes, 1, n), <<m, k>>) => Has(file'[g], <<m, k>>)
      <4>1. Has(file[f], <<m, k>>) \/ Has(SubSeq(bytes, 1, n), <<m, k>>)
              => Has(file[f] \o SubSeq(bytes, 1, n), <<m, k>>)
        BY <1>0, <1>s, HasConcat
      <4>2. QED
        BY <3>1, <4>1, Zenon
    <3>5. QED
      BY <3>2, <3>3, <3>4
  <2>4. QED
    BY <2>2, <2>3
<1>3. CFlushed'
  <2>1. f # "c" => left'["c"] = left["c"] /\ buffered'["c"] = buffered["c"]
    BY <1>t, <1>a DEF TypeOK, Generators
  <2>2. QED
    BY <1>t, <1>a, <2>1 DEF CFlushed
<1>4. GoEnded' /\ LoadedFromGo'
  BY <1>a DEF GoEnded, LoadedFromGo, CNumbers, GoNumbers, Generators, fieldVars
<1>5. QED
  BY <1>1, <1>2, <1>3, <1>4 DEF IInv

\* The C generator flushes before it ends.
LEMMA EndCIInv == IInv /\ EndC => IInv'
<1> SUFFICES ASSUME IInv, EndC PROVE IInv'
  OBVIOUS
<1>t. TypeOK /\ WrittenIsSomewhere /\ CFlushed /\ GoEnded /\ LoadedFromGo
  BY DEF IInv
<1>0. buffered["c"] \in Seq(Bytes) /\ file["c"] \in Seq(Bytes) /\ "c" \in Generators
  BY <1>t DEF TypeOK, Generators
<1>1. TypeOK'
  <2>1. file["c"] \o buffered["c"] \in Seq(Bytes) /\ <<>> \in Seq(Bytes)
    BY <1>0
  <2>2. QED
    BY <1>t, <1>0, <2>1 DEF EndC, TypeOK, Generators, fieldVars
<1>2. WrittenIsSomewhere'
  <2>1. SUFFICES ASSUME NEW g \in Generators, NEW m \in Syscalls \ left[g], NEW k \in 1..LineLen[m]
                 PROVE  Has(file'[g], <<m, k>>) \/ Has(buffered'[g], <<m, k>>)
    BY DEF WrittenIsSomewhere, EndC
  <2>2. Has(file[g], <<m, k>>) \/ Has(buffered[g], <<m, k>>)
    BY <1>t DEF WrittenIsSomewhere
  <2>3. CASE g = "c"
    <3>1. file'[g] = file[g] \o buffered[g]
      BY <1>t, <1>0, <2>3 DEF EndC, TypeOK
    <3>2. QED
      BY <1>0, <2>2, <2>3, <3>1, HasConcat
  <2>4. CASE g # "c"
    <3>1. file'[g] = file[g] /\ buffered'[g] = buffered[g]
      BY <1>t, <2>4 DEF EndC, TypeOK
    <3>2. QED
      BY <2>2, <3>1
  <2>5. QED
    BY <2>3, <2>4
<1>3. CFlushed'
  BY <1>t, <1>0 DEF EndC, CFlushed, TypeOK
<1>4. GoEnded' /\ LoadedFromGo'
  BY DEF EndC, GoEnded, LoadedFromGo, CNumbers, GoNumbers, Generators
<1>5. QED
  BY <1>1, <1>2, <1>3, <1>4 DEF IInv

\* Every step loses at most what it leaves in a buffer.
LEMMA StepIInv == IInv /\ [Next]_vars => IInv'
<1> SUFFICES ASSUME IInv, [Next]_vars PROVE IInv'
  OBVIOUS
<1>t. TypeOK /\ WrittenIsSomewhere /\ CFlushed /\ GoEnded /\ LoadedFromGo
  BY DEF IInv
<1>1. ASSUME NEW f \in Generators, NEW no \in Syscalls, WriteLine(f, no) PROVE IInv'
  BY <1>1, WriteLineIInv
<1>2. CASE EndC
  BY <1>2, EndCIInv
<1>3. CASE EndGo
  BY <1>t, <1>3 DEF EndGo, fieldVars, IInv, TypeOK, WrittenIsSomewhere, CFlushed, GoEnded, LoadedFromGo, CNumbers, GoNumbers, Generators
<1>4. CASE Load
  <2>1. TypeOK'
    BY <1>t, <1>4, TableType DEF Load, TypeOK, fieldVars
  <2>2. WrittenIsSomewhere' /\ CFlushed' /\ GoEnded'
    BY <1>t, <1>4 DEF Load, WrittenIsSomewhere, CFlushed, GoEnded, Generators
  <2>3. LoadedFromGo'
    BY <1>4 DEF Load, Loadable, LoadedFromGo, CNumbers, GoNumbers, Table, MaskOf, fieldVars
  <2>4. QED
    BY <2>1, <2>2, <2>3 DEF IInv
<1>5. CASE LoadFails
  BY <1>t, <1>5 DEF LoadFails, fieldVars, IInv, TypeOK, WrittenIsSomewhere, CFlushed, GoEnded, LoadedFromGo, CNumbers, GoNumbers, Generators
<1>6. ASSUME NEW f \in Generators, OpenFails(f) PROVE IInv'
  BY <1>t, <1>6 DEF OpenFails, fieldVars, IInv, TypeOK, WrittenIsSomewhere, CFlushed, GoEnded, LoadedFromGo, CNumbers, GoNumbers, Generators
<1>7. ASSUME NEW got \in SUBSET Formats, GetFields(got) PROVE IInv'
  <2>1. entries' \in [Syscalls -> Nat]
    BY <1>t, <1>7 DEF GetFields, TypeOK
  <2>2. TypeOK'
    BY <1>t, <1>7, <2>1 DEF GetFields, TypeOK, Generators
  <2>3. WrittenIsSomewhere' /\ CFlushed' /\ GoEnded' /\ LoadedFromGo'
    BY <1>t, <1>7 DEF GetFields, WrittenIsSomewhere, CFlushed, GoEnded, LoadedFromGo
  <2>4. QED
    BY <2>2, <2>3 DEF IInv
<1>8. CASE RunAgain
  <2>1. TypeOK'
    BY <1>t, <1>8 DEF RunAgain, TypeOK
  <2>2. WrittenIsSomewhere' /\ CFlushed' /\ GoEnded' /\ LoadedFromGo'
    BY <1>8 DEF RunAgain, WrittenIsSomewhere, CFlushed, GoEnded, LoadedFromGo
  <2>3. QED
    BY <2>1, <2>2 DEF IInv
<1>9. CASE PasteFails
  BY <1>t, <1>9 DEF PasteFails, fieldVars, IInv, TypeOK, WrittenIsSomewhere, CFlushed, GoEnded, LoadedFromGo
<1>10. CASE UNCHANGED vars
  BY <1>t, <1>10 DEF IInv, fieldVars, Table, MaskOf, vars, TypeOK, WrittenIsSomewhere, CFlushed, GoEnded, LoadedFromGo,
         CNumbers, GoNumbers
<1>11. QED
  BY <1>1, <1>2, <1>3, <1>4, <1>5, <1>6, <1>7, <1>8, <1>9, <1>10 DEF Next, Done

\* With an empty buffer and an ended loop, every line is whole.
LEMMA CompleteC == IInv => CTextComplete
<1> SUFFICES ASSUME IInv, pc \notin {"fields", "c", "unchanged"} PROVE CNumbers = Syscalls
  BY DEF CTextComplete
<1>1. left["c"] = {} /\ buffered["c"] = <<>> /\ WrittenIsSomewhere /\ "c" \in Generators
  BY DEF IInv, CFlushed, Generators
<1>2. \A byte : ~Has(buffered["c"], byte)
  BY <1>1 DEF Has
<1>3. QED
  BY <1>1, <1>2 DEF WrittenIsSomewhere, Complete, CNumbers

\* The invariant gives the loaded masks.
LEMMA Unmarked == IInv => UnmarkedIsExplained
<1> SUFFICES ASSUME IInv, pc = "running", NEW no \in Syscalls, loaded[no] # Fields[no]
             PROVE  /\ loaded[no] = {}
                    /\ \/ no \notin sourced
                       \/ \E k \in 1..LineLen[no] : Has(buffered["go"], <<no, k>>)
  BY DEF UnmarkedIsExplained
<1>1. loaded = Table(GoNumbers) /\ left["go"] = {} /\ WrittenIsSomewhere
  BY DEF IInv, LoadedFromGo, GoEnded, Generators
<1>2. loaded[no] = {} /\ (no \in sourced => no \notin GoNumbers)
  BY <1>1 DEF Table, MaskOf
<1>3. ASSUME no \notin GoNumbers
      PROVE  \E k \in 1..LineLen[no] : Has(buffered["go"], <<no, k>>)
  <2>1. PICK k \in 1..LineLen[no] : ~Has(file["go"], <<no, k>>)
    BY <1>3 DEF Complete, GoNumbers
  <2>2. Has(buffered["go"], <<no, k>>)
    BY <1>1, <2>1 DEF WrittenIsSomewhere, Generators
  <2>3. QED
    BY <2>2
<1>4. QED
  BY <1>2, <1>3

\* Tables of one size end at one number, and the C table has the largest.
LEMMA Largest == IInv => RunsWithLargest
<1> SUFFICES ASSUME IInv, pc = "running" PROVE \A no \in Syscalls : \E m \in GoNumbers : no <= m
  BY DEF RunsWithLargest
<1>1. SameSize(CNumbers, GoNumbers)
  BY DEF IInv, LoadedFromGo
<1>2. CNumbers = Syscalls
  BY CompleteC DEF CTextComplete
<1>3. QED
  BY <1>1, <1>2 DEF SameSize

\* Between the loop and the file, nothing is lost but what is still buffered.
THEOREM TableInvariant == Spec => []IInv
<1>1. Init => IInv
  BY InitIInv
<1>2. IInv /\ [Next]_vars => IInv'
  BY StepIInv
<1>3. QED
  BY <1>1, <1>2, PTL DEF Spec

\* Every variable keeps its type.
THEOREM TableTypeCorrect == Spec => []TypeOK
<1>1. IInv => TypeOK
  BY DEF IInv
<1>2. QED
  BY <1>1, TableInvariant, PTL

\* The C table is whole for every order of the loop and every buffer size.
THEOREM TableC == Spec => []CTextComplete
<1>1. IInv => CTextComplete
  BY CompleteC
<1>2. QED
  BY <1>1, TableInvariant, PTL

\* A loaded mask is right or empty, and empty only if its line stayed behind or
\* its name had no fields.
THEOREM TableUnmarked == Spec => []UnmarkedIsExplained
<1>1. IInv => UnmarkedIsExplained
  BY Unmarked
<1>2. QED
  BY <1>1, TableInvariant, PTL

\* The programs run only if the line of the largest number was not lost.
THEOREM TableLargest == Spec => []RunsWithLargest
<1>1. IInv => RunsWithLargest
  BY Largest
<1>2. QED
  BY <1>1, TableInvariant, PTL
=============================================================================
