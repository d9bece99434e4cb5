--------------------------- MODULE FlagDecodeProofs ---------------------------
(***************************************************************************)
(* Proofs about FlagDecode, for every value of every field.                *)
(***************************************************************************)
EXTENDS FlagDecode, TLAPS

\* What the loop asks of a table: a flag that shares a bit with one before it
\* is a part of that one.
Nested(table) ==
  /\ Len(table) \in Nat
  /\ DOMAIN table = 1..Len(table)
  /\ \A i, j \in DOMAIN table :
       i < j /\ table[i][2] \cap table[j][2] # {} => table[j][2] \subseteq table[i][2]

\* The tables of parse_arg.go are like that: only O_TMPFILE and O_SYNC share
\* bits with other flags, and they are tried first.
LEMMA TablesNested == \A f \in Fields : Nested(defs[f])
<1>1. Nested(socketBits)
  BY DEF Nested, socketBits
<1>2. Nested(cloneFlags)
  BY SMTT(60) DEF Nested, cloneFlags
<1>3. Nested(namespaceFlags)
  BY DEF Nested, namespaceFlags
<1>4. Nested(mmapProtections)
  BY DEF Nested, mmapProtections
<1>5. Nested(mmapFlags)
  BY SMTT(60) DEF Nested, mmapFlags
<1>6. Nested(openCombined \o openFlagBits)
  BY SMTT(60) DEF Nested, openCombined, openFlagBits
<1>7. Nested(seccompFlags)
  BY DEF Nested, seccompFlags
<1>8. /\ defs["type"] = socketBits /\ defs["clone_flags"] = cloneFlags
      /\ defs["unshare_flags"] = namespaceFlags /\ defs["prot"] = mmapProtections
      /\ defs["mmap_flags"] = mmapFlags /\ defs["seccomp_flags"] = seccompFlags
      /\ defs["open_flags"] = openCombined \o openFlagBits
  BY DEF defs
<1>9. QED
  BY <1>1, <1>2, <1>3, <1>4, <1>5, <1>6, <1>7, <1>8, Zenon DEF Fields

\* Before the first step every bit remains.
LEMMA InitIInv == Init => IInv
BY DecodeAssumption
   DEF Init, IInv, TypeOK, BitsAccounted, NoBitTwice, PassedOver, TextKeepsValue, NamedBits

\* Every step leaves each bit in one place.
LEMMA StepIInv == IInv /\ [Next]_vars => IInv'
<1> SUFFICES ASSUME IInv, [Next]_vars PROVE IInv'
  OBVIOUS
<1>t. TypeOK /\ BitsAccounted /\ NoBitTwice /\ PassedOver /\ TextKeepsValue
  BY DEF IInv
<1>n. Nested(defs[field])
  BY <1>t, TablesNested DEF TypeOK
<1>1. CASE ReturnZeroName
  <2>1. TypeOK'
    BY <1>t, <1>1 DEF ReturnZeroName, TypeOK
  <2>2. BitsAccounted'
    BY <1>1 DEF ReturnZeroName, BitsAccounted
  <2>3. NoBitTwice'
    BY <1>t, <1>1 DEF ReturnZeroName, NoBitTwice, NamedBits
  <2>4. PassedOver'
    BY <1>1 DEF ReturnZeroName, PassedOver, Considered, IsSet
  <2>5. TextKeepsValue'
    BY <1>t, <1>1 DEF ReturnZeroName, TextKeepsValue, BitsAccounted, NamedBits
  <2>6. QED
    BY <2>1, <2>2, <2>3, <2>4, <2>5 DEF IInv
<1>2. CASE CutMasked
  <2>0. names = {} /\ names' = {} /\ NamedBits' = {} /\ idx' = 1
    BY <1>t, <1>2 DEF CutMasked, BitsAccounted, NamedBits
  <2>1. TypeOK'
    BY <1>t, <1>2 DEF CutMasked, TypeOK
  <2>2. BitsAccounted'
    BY <1>t, <1>2, <2>0 DEF CutMasked, BitsAccounted, TypeOK
  <2>3. NoBitTwice'
    BY <2>0 DEF NoBitTwice
  <2>4. PassedOver'
    BY <1>n, <1>2, <2>0 DEF CutMasked, PassedOver, Nested
  <2>5. TextKeepsValue'
    BY <1>2 DEF CutMasked, TextKeepsValue
  <2>6. QED
    BY <2>1, <2>2, <2>3, <2>4, <2>5 DEF IInv
<1>3. CASE Take
  <2> DEFINE e == defs[field][idx]
  <2>0. /\ idx \in 1..Len(defs[field])
        /\ e[2] # {} /\ e[2] \subseteq remaining
        /\ names' = names \cup {e} /\ remaining' = remaining \ e[2]
        /\ idx' = idx + 1
        /\ UNCHANGED <<pc, field, raw, numbers>> /\ pc = "loop"
    <3>1. idx \in 1..Len(defs[field])
      BY <1>t, <1>n, <1>3 DEF Take, TypeOK, Nested
    <3>2. QED
      BY <1>3, <3>1 DEF Take, Has, Without
  <2> HIDE DEF e
  <2>1. TypeOK'
    <3>1. idx \in Nat \ {0} /\ names \subseteq {defs[field][j] : j \in 1..(idx - 1)}
      BY <1>t DEF TypeOK
    <3>2. e \in {defs[field][j] : j \in 1..idx}
      BY <3>1 DEF e
    <3>3. names' \subseteq {defs[field][j] : j \in 1..idx}
      BY <2>0, <3>1, <3>2
    <3>4. idx' - 1 = idx /\ idx' \in Nat \ {0}
      BY <2>0, <3>1
    <3>5. names' \subseteq {(defs[field][j])' : j \in 1..(idx' - 1)}
      BY <2>0, <3>3, <3>4
    <3>6. /\ pc' \in {"start", "loop", "done"} /\ field' \in Fields /\ raw' \subseteq Nat
          /\ remaining' \subseteq raw' /\ numbers' \subseteq raw'
      BY <1>t, <2>0 DEF TypeOK
    <3>7. QED
      BY <3>4, <3>5, <3>6 DEF TypeOK
  <2>2. NamedBits' = NamedBits \cup e[2]
    BY <2>0 DEF NamedBits
  <2>3. BitsAccounted'
    BY <1>t, <2>0, <2>2 DEF BitsAccounted
  <2>4. NoBitTwice'
    <3>1. \A f \in names : f[2] \cap e[2] = {}
      BY <1>t, <2>0 DEF NoBitTwice, NamedBits
    <3>2. e[2] \cap numbers = {}
      BY <1>t, <2>0 DEF BitsAccounted
    <3>3. \A f, g \in names' : f # g => f[2] \cap g[2] = {}
      BY <1>t, <2>0, <3>1 DEF NoBitTwice
    <3>4. (NamedBits \cap (numbers \cup remaining))' = {}
      BY <1>t, <2>0, <2>2, <3>2 DEF NoBitTwice
    <3>5. QED
      BY <3>3, <3>4 DEF NoBitTwice
  <2>5. PassedOver'
    <3> SUFFICES ASSUME NEW j \in DOMAIN defs[field], j < idx + 1
                 PROVE  Considered(j)'
      BY <2>0 DEF PassedOver
    <3>1. j \in Nat /\ idx \in Nat
      BY <1>t, <1>n DEF Nested, TypeOK
    <3>2. CASE j < idx
      <4>1. Considered(j)
        BY <1>t, <2>0, <3>2 DEF PassedOver
      <4>2. QED
        BY <2>0, <4>1 DEF Considered, IsSet
    <3>3. CASE j = idx
      <4>1. defs[field][j] \in names' /\ j \in 1..j
        BY <1>n, <2>0, <3>1, <3>3 DEF e, Nested
      <4>2. QED
        BY <2>0, <4>1 DEF Considered, IsSet
    <3>4. QED
      BY <3>1, <3>2, <3>3
  <2>6. TextKeepsValue'
    BY <2>0 DEF TextKeepsValue
  <2>7. QED
    BY <2>1, <2>3, <2>4, <2>5, <2>6 DEF IInv
<1>4. CASE Pass
  <2>1. TypeOK'
    BY <1>t, <1>4 DEF Pass, TypeOK
  <2>2. BitsAccounted'
    BY <1>t, <1>4 DEF Pass, BitsAccounted, NamedBits
  <2>3. NoBitTwice'
    BY <1>t, <1>4 DEF Pass, NoBitTwice, NamedBits
  <2>4. PassedOver'
    <3> SUFFICES ASSUME NEW j \in DOMAIN defs[field], j < idx + 1
                 PROVE  Considered(j)'
      BY <1>4 DEF Pass, PassedOver
    <3>1. j \in 1..Len(defs[field]) /\ Len(defs[field]) \in Nat /\ idx \in Nat
      BY <1>t, <1>n DEF Nested, TypeOK
    <3>2. CASE j < idx
      <4>1. Considered(j)
        BY <1>t, <1>4, <3>2 DEF PassedOver, Pass
      <4>2. QED
        BY <1>4, <4>1 DEF Considered, IsSet, Pass
    <3>3. CASE j = idx
      <4> SUFFICES ASSUME IsSet(defs[field][j])
                   PROVE  \E i \in 1..j : /\ defs[field][i] \in names
                                          /\ defs[field][i][2] \cap defs[field][j][2] # {}
        BY <1>4 DEF Considered, IsSet, Pass
      <4>1. ~(defs[field][j][2] \subseteq remaining)
        BY <1>4, <3>3 DEF Pass, Has, IsSet
      <4>2. PICK f \in names : f[2] \cap defs[field][j][2] # {}
        BY <1>t, <1>4, <4>1 DEF BitsAccounted, NamedBits, IsSet, Pass
      <4>3. PICK i \in 1..(idx - 1) : f = defs[field][i]
        BY <1>t DEF TypeOK
      <4>4. i \in 1..j
        BY <3>1, <3>3
      <4>5. QED
        BY <4>2, <4>3, <4>4
    <3>4. QED
      BY <3>1, <3>2, <3>3
  <2>5. TextKeepsValue'
    BY <1>4 DEF Pass, TextKeepsValue
  <2>6. QED
    BY <2>1, <2>2, <2>3, <2>4, <2>5 DEF IInv
<1>5. CASE Join
  <2>1. TypeOK'
    BY <1>t, <1>5 DEF Join, Rest, TypeOK
  <2>2. BitsAccounted'
    BY <1>5 DEF Join, BitsAccounted
  <2>3. NoBitTwice'
    BY <1>t, <1>5 DEF Join, Rest, NoBitTwice, NamedBits
  <2>4. PassedOver'
    <3> SUFFICES ASSUME NEW j \in DOMAIN defs[field]
                 PROVE  Considered(j)'
      BY <1>5 DEF Join, PassedOver
    <3>1. j < idx
      BY <1>t, <1>n, <1>5 DEF Join, Nested, TypeOK
    <3>2. Considered(j)
      BY <1>t, <1>5, <3>1 DEF Join, PassedOver
    <3>3. QED
      BY <1>5, <3>2 DEF Join, Considered, IsSet
  <2>5. TextKeepsValue'
    <3>1. /\ raw \ Mask[field] = NamedBits \cup remaining
          /\ numbers = {b \in raw \cap Mask[field] : MaskedPrinted(field, raw)}
      BY <1>t, <1>5 DEF Join, BitsAccounted
    <3>2. NamedBits' = NamedBits /\ numbers' = Rest /\ UNCHANGED <<field, raw>>
      BY <1>5 DEF Join, NamedBits
    <3>3. CASE MaskedPrinted(field, raw)
      <4>1. numbers = raw \cap Mask[field] /\ Rest = numbers \cup remaining
        BY <3>1, <3>3 DEF Rest
      <4>2. NamedBits \cup Rest = raw
        BY <3>1, <4>1
      <4>3. QED
        BY <3>2, <4>2 DEF TextKeepsValue
    <3>4. CASE ~MaskedPrinted(field, raw) /\ names = {} /\ remaining = {}
      BY <3>2, <3>4 DEF TextKeepsValue, Rest, NamedBits
    <3>5. CASE ~MaskedPrinted(field, raw) /\ ~(names = {} /\ remaining = {})
      <4>1. numbers = {} /\ Rest = remaining
        BY <3>1, <3>5 DEF Rest
      <4>2. field = "type" \/ raw \ Mask[field] = raw
        BY <1>t, <3>5 DEF MaskedPrinted, Mask, Fields, TypeOK
      <4>3. (MaskedPrinted(field, raw))' <=> MaskedPrinted(field, raw)
        BY <3>2 DEF MaskedPrinted, Mask
      <4>4. QED
        BY <3>1, <3>2, <3>5, <4>1, <4>2, <4>3 DEF TextKeepsValue, Mask
    <3>6. QED
      BY <3>3, <3>4, <3>5
  <2>6. QED
    BY <2>1, <2>2, <2>3, <2>4, <2>5 DEF IInv
<1>6. CASE UNCHANGED vars
  BY <1>t, <1>6 DEF vars, IInv, TypeOK, BitsAccounted, NoBitTwice, NamedBits,
                    PassedOver, Considered, IsSet, TextKeepsValue
<1>7. QED
  BY <1>1, <1>2, <1>3, <1>4, <1>5, <1>6 DEF Next, Done

\* Every bit of a value is accounted for at every step of its decoding.
THEOREM DecodeInvariant == Spec => []IInv
<1>1. Init => IInv
  BY InitIInv
<1>2. IInv /\ [Next]_vars => IInv'
  BY StepIInv
<1>3. QED
  BY <1>1, <1>2, PTL DEF Spec

\* Type correctness of the decoders.
THEOREM DecodeTypeCorrect == Spec => []TypeOK
<1>1. IInv => TypeOK
  BY DEF IInv
<1>2. QED
  BY DecodeInvariant, <1>1, PTL

\* The text gives every value back but for unnamed socket types.
THEOREM DecodeKeepsValue == Spec => []TextKeepsValue
<1>1. IInv => TextKeepsValue
  BY DEF IInv
<1>2. QED
  BY DecodeInvariant, <1>1, PTL

\* No bit appears twice in a text.
THEOREM DecodeNoBitTwice == Spec => []NoBitTwice
<1>1. IInv => NoBitTwice
  BY DEF IInv
<1>2. QED
  BY DecodeInvariant, <1>1, PTL

\* A flag that was considered and is set is named, or a flag it is part of is.
LEMMA ConsideredNamed == IInv => SetFlagIsNamed
<1> SUFFICES ASSUME IInv, pc = "done", NEW e \in Entries(field), IsSet(e)
             PROVE  \E f \in names : e[2] \subseteq f[2]
  BY DEF SetFlagIsNamed
<1>1. Nested(defs[field])
  BY TablesNested DEF IInv, TypeOK
<1>2. PICK j \in DOMAIN defs[field] : e = defs[field][j]
  BY DEF Entries
<1>3. PICK i \in 1..j : /\ defs[field][i] \in names
                        /\ i = j \/ defs[field][i][2] \cap defs[field][j][2] # {}
  BY <1>2 DEF IInv, PassedOver, Considered
<1>4. i = j \/ defs[field][j][2] \subseteq defs[field][i][2]
  BY <1>1, <1>3 DEF Nested
<1>5. QED
  BY <1>2, <1>3, <1>4

\* Whatever else is set, a set flag has its name, or that of a flag it is part
\* of, in the text.
THEOREM DecodeNamesFlags == Spec => []SetFlagIsNamed
BY DecodeInvariant, ConsideredNamed, PTL
=============================================================================
