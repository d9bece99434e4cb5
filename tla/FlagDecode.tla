------------------------------ MODULE FlagDecode ------------------------------
(***************************************************************************)
(* How parse_arg.go turns a raw argument into text: part of the value is   *)
(* cut out with a mask and printed on its own, the flags of a table are    *)
(* then taken out of what remains, first come first served, and what is    *)
(* left at the end is printed as a number.  A value is the set of its      *)
(* bits; an entry of a table is a name and the bits of its value.          *)
(***************************************************************************)
EXTENDS Integers, Sequences

CONSTANT Raws   \* per field: the values to decode

\* The fields that have a decoder: type is that of socket, prot that of mmap,
\* mprotect and pkey_mprotect.
Fields == {"type", "clone_flags", "unshare_flags", "prot", "mmap_flags",
           "open_flags", "seccomp_flags"}

ASSUME DecodeAssumption == \A f \in Fields : \A value \in Raws[f] : value \subseteq Nat

socketTypes == {{0}, {1}, {0, 1}, {2}, {0, 2}, {1, 2}, {1, 3}}

socketBits == << <<"SOCK_NONBLOCK", {11}>>, <<"SOCK_CLOEXEC", {19}>> >>

openFlagBits ==
  << <<"O_APPEND", {10}>>, <<"O_ASYNC", {13}>>, <<"O_CLOEXEC", {19}>>,
     <<"O_CREAT", {6}>>, <<"O_DIRECT", {14}>>, <<"O_DIRECTORY", {16}>>,
     <<"O_DSYNC", {12}>>, <<"O_EXCL", {7}>>, <<"O_LARGEFILE", {15}>>,
     <<"O_NOATIME", {18}>>, <<"O_NOCTTY", {8}>>, <<"O_NOFOLLOW", {17}>>,
     <<"O_NONBLOCK", {11}>>, <<"O_PATH", {21}>>, <<"O_TRUNC", {9}>> >>

openCombined == << <<"O_TMPFILE", {16, 22}>>, <<"O_SYNC", {12, 20}>> >>

namespaceFlags ==
  << <<"CLONE_NEWCGROUP", {25}>>, <<"CLONE_NEWIPC", {27}>>,
     <<"CLONE_NEWNET", {30}>>, <<"CLONE_NEWNS", {17}>>, <<"CLONE_NEWPID", {29}>>,
     <<"CLONE_NEWUSER", {28}>>, <<"CLONE_NEWUTS", {26}>> >>

cloneFlags ==
  << <<"CLONE_CHILD_CLEARTID", {21}>>, <<"CLONE_CHILD_SETTID", {24}>>,
     <<"CLONE_FILES", {10}>>, <<"CLONE_FS", {9}>>, <<"CLONE_IO", {31}>>,
     <<"CLONE_NEWCGROUP", {25}>>, <<"CLONE_NEWIPC", {27}>>,
     <<"CLONE_NEWNET", {30}>>, <<"CLONE_NEWNS", {17}>>, <<"CLONE_NEWPID", {29}>>,
     <<"CLONE_NEWUSER", {28}>>, <<"CLONE_NEWUTS", {26}>>, <<"CLONE_PARENT", {15}>>,
     <<"CLONE_PARENT_SETTID", {20}>>, <<"CLONE_PTRACE", {13}>>,
     <<"CLONE_SETTLS", {19}>>, <<"CLONE_SIGHAND", {11}>>, <<"CLONE_SYSVSEM", {18}>>,
     <<"CLONE_THREAD", {16}>>, <<"CLONE_UNTRACED", {23}>>, <<"CLONE_VFORK", {14}>>,
     <<"CLONE_VM", {8}>> >>

mmapProtections ==
  << <<"PROT_EXEC", {2}>>, <<"PROT_GROWSDOWN", {24}>>, <<"PROT_GROWSUP", {25}>>,
     <<"PROT_READ", {0}>>, <<"PROT_SEM", {3}>>, <<"PROT_WRITE", {1}>> >>

mmapFlags ==
  << <<"MAP_32BIT", {6}>>, <<"MAP_ANONYMOUS", {5}>>, <<"MAP_DENYWRITE", {11}>>,
     <<"MAP_EXECUTABLE", {12}>>, <<"MAP_FAILED", {}>>, <<"MAP_FIXED", {4}>>,
     <<"MAP_FIXED_NOREPLACE", {20}>>, <<"MAP_GROWSDOWN", {8}>>,
     <<"MAP_HUGETLB", {18}>>, <<"MAP_LOCKED", {13}>>, <<"MAP_NONBLOCK", {16}>>,
     <<"MAP_NORESERVE", {14}>>, <<"MAP_POPULATE", {15}>>, <<"MAP_PRIVATE", {1}>>,
     <<"MAP_SHARED", {0}>>, <<"MAP_STACK", {17}>>, <<"MAP_SYNC", {19}>> >>

seccompFlags ==
  << <<"SECCOMP_FILTER_FLAG_LOG", {1}>>, <<"SECCOMP_FILTER_FLAG_NEW_LISTENER", {3}>>,
     <<"SECCOMP_FILTER_FLAG_SPEC_ALLOW", {2}>>, <<"SECCOMP_FILTER_FLAG_TSYNC", {0}>>,
     <<"SECCOMP_FILTER_FLAG_TSYNC_ESRCH", {4}>>,
     <<"SECCOMP_FILTER_FLAG_WAIT_KILLABLE_RECV", {5}>> >>

\* Faulty variant: O_DSYNC and O_DIRECTORY before the flags that contain them.
defsSingleFirst ==
  [type          |-> socketBits,
   clone_flags   |-> cloneFlags,
   unshare_flags |-> namespaceFlags,
   prot          |-> mmapProtections,
   mmap_flags    |-> mmapFlags,
   open_flags    |-> openFlagBits \o openCombined,
   seccomp_flags |-> seccompFlags]

\* What the loop, and the tests before it, take out of the value, in this order.
defs ==
  [type          |-> socketBits,
   clone_flags   |-> cloneFlags,
   unshare_flags |-> namespaceFlags,
   prot          |-> mmapProtections,
   mmap_flags    |-> mmapFlags,
   open_flags    |-> openCombined \o openFlagBits,
   seccomp_flags |-> seccompFlags]

\* sockTypeMask, oAccmode, exitSignalMask; decodeBitmask has none.
Mask ==
  [f \in Fields |-> IF f = "type" THEN 0..3
                    ELSE IF f = "open_flags" THEN 0..1
                    ELSE IF f = "clone_flags" THEN 0..7
                    ELSE {}]

\* The masked part is printed if it is a socket type, an access mode, known or
\* not, or a signal other than 0.
MaskedPrinted(f, value) ==
  \/ f = "type" /\ value \cap Mask[f] \in socketTypes
  \/ f = "open_flags"
  \/ f = "clone_flags" /\ value \cap Mask[f] # {}

\* zeroName: decodeBitmask has a name for the value 0 as a whole.
ZeroNamed == {"prot", "seccomp_flags"}

VARIABLES
  pc,         \* "start", "loop", "done"
  field,      \* the field that is decoded
  raw,        \* its value
  idx,        \* the entry of defs[field] the loop has come to
  names,      \* the entries taken
  remaining,  \* the bits not taken yet
  numbers     \* the bits the text has as numbers, or as the name of a number

vars == <<pc, field, raw, idx, names, remaining, numbers>>
-----------------------------------------------------------------------------
Init ==
  /\ pc = "start"
  /\ field \in Fields
  /\ raw \in Raws[field]
  /\ idx = 1
  /\ names = {}
  /\ remaining = raw
  /\ numbers = {}

\* decodeBitmask returns zeroName.
ReturnZeroName ==
  /\ pc = "start"
  /\ raw = {} /\ field \in ZeroNamed
  /\ pc' = "done"
  /\ UNCHANGED <<field, raw, idx, names, remaining, numbers>>

\* Faulty variant: ^ for &^, which sets the mask's other bits.
CutMaskedXor ==
  /\ pc = "start"
  /\ ~(raw = {} /\ field \in ZeroNamed)
  /\ pc' = "loop"
  /\ remaining' = (raw \ Mask[field]) \cup (Mask[field] \ raw)
  /\ numbers' = {b \in raw \cap Mask[field] : MaskedPrinted(field, raw)}
  /\ UNCHANGED <<field, raw, idx, names>>

\* The masked part is cut out, and printed or not.
CutMasked ==
  /\ pc = "start"
  /\ ~(raw = {} /\ field \in ZeroNamed)
  /\ pc' = "loop"
  /\ remaining' = raw \ Mask[field]
  /\ numbers' = {b \in raw \cap Mask[field] : MaskedPrinted(field, raw)}
  /\ UNCHANGED <<field, raw, idx, names>>

\* Faulty variant: one common bit is enough.
HasAny(value) == value \cap remaining # {}

\* def.Value is 0 or remaining & def.Value == def.Value.
Has(value) == value # {} /\ value \subseteq remaining

\* Faulty variant: the bits of a flag stay.
WithoutNot(value) == remaining

\* remaining &^= def.Value
Without(value) == remaining \ value

Take ==
  /\ pc = "loop"
  /\ idx <= Len(defs[field])
  /\ Has(defs[field][idx][2])
  /\ names' = names \cup {defs[field][idx]}
  /\ remaining' = Without(defs[field][idx][2])
  /\ idx' = idx + 1
  /\ UNCHANGED <<pc, field, raw, numbers>>

Pass ==
  /\ pc = "loop"
  /\ idx <= Len(defs[field])
  /\ ~Has(defs[field][idx][2])
  /\ idx' = idx + 1
  /\ UNCHANGED <<pc, field, raw, names, remaining, numbers>>

\* What remains is printed as a number; if nothing has been printed, all of raw.
Rest ==
  IF names = {} /\ remaining = {} /\ ~MaskedPrinted(field, raw)
    THEN raw ELSE numbers \cup remaining

Join ==
  /\ pc = "loop"
  /\ idx > Len(defs[field])
  /\ pc' = "done"
  /\ numbers' = Rest
  /\ UNCHANGED <<field, raw, idx, names, remaining>>

\* The text has been returned.
Done == pc = "done" /\ UNCHANGED vars

Next ==
  \/ ReturnZeroName
  \/ CutMasked
  \/ Take
  \/ Pass
  \/ Join
  \/ Done

Spec == Init /\ [][Next]_vars
-----------------------------------------------------------------------------
Entries(f) == {defs[f][j] : j \in DOMAIN defs[f]}

NamedBits == UNION {entry[2] : entry \in names}

\* All bits of the flag are set in what the mask leaves.
IsSet(entry) == entry[2] # {} /\ entry[2] \subseteq raw \ Mask[field]

\* Every variable is of its type.
TypeOK ==
  /\ pc \in {"start", "loop", "done"}
  /\ field \in Fields
  /\ raw \subseteq Nat
  /\ idx \in Nat \ {0}
  /\ names \subseteq {defs[field][j] : j \in 1..(idx - 1)}
  /\ remaining \subseteq raw
  /\ numbers \subseteq raw

\* The text gives the value back: nothing of it is lost and nothing is added by
\* a name.  The one exception is a socket type that is not in socketTypes next
\* to something that is printed: decodeSocketType drops it.
TextKeepsValue ==
  pc = "done" =>
    \/ NamedBits \cup numbers = raw
    \/ /\ field = "type"
       /\ ~MaskedPrinted(field, raw)
       /\ NamedBits \cup numbers = raw \ Mask[field]

\* No bit is named twice or named and numbered too.
NoBitTwice ==
  /\ \A e, f \in names : e # f => e[2] \cap f[2] = {}
  /\ NamedBits \cap (numbers \cup remaining) = {}

\* A flag whose bits are all set is named in the text, or is part of a flag that
\* is: the rules of risk.go look for the names only.
SetFlagIsNamed ==
  pc = "done" =>
    \A e \in Entries(field) : IsSet(e) => \E f \in names : e[2] \subseteq f[2]
-----------------------------------------------------------------------------
(***************************************************************************)
(* The inductive invariant: where every bit of the value is while the loop *)
(* runs.                                                                   *)
(***************************************************************************)

\* Before the loop nothing is taken; in it a bit is masked, named or remains.
BitsAccounted ==
  /\ pc = "start" => names = {} /\ numbers = {} /\ idx = 1
  /\ pc = "loop" =>
       /\ raw \ Mask[field] = NamedBits \cup remaining
       /\ numbers = {b \in raw \cap Mask[field] : MaskedPrinted(field, raw)}

\* A flag the loop has passed over lacks a bit, was taken, or shares a bit with
\* one before it that was taken.
Considered(j) ==
  IsSet(defs[field][j]) =>
    \E i \in 1..j :
      /\ defs[field][i] \in names
      /\ i = j \/ defs[field][i][2] \cap defs[field][j][2] # {}

PassedOver ==
  pc # "start" =>
    \A j \in DOMAIN defs[field] : j < idx \/ pc = "done" => Considered(j)

IInv ==
  /\ TypeOK
  /\ BitsAccounted
  /\ NoBitTwice
  /\ PassedOver
  /\ TextKeepsValue
=============================================================================
