----------------------------- MODULE PtrArgTable -----------------------------
(***************************************************************************)
(* Where the BPF programs get their knowledge of pointer arguments from.   *)
(* scripts/ writes one line per system call, in the order Go ranges over a *)
(* map, once as C (map.c) and once as Go (ebpf.go); both texts were pasted *)
(* into the sources.  run() then replaces the C table by the Go one, and   *)
(* capture_sys_enter reads an argument as an address where its bit is set. *)
(*                                                                         *)
(* The masks come from SyscallFields, which getSyscallFields writes from   *)
(* the formats in tracefs.  Its text is pasted as well, and only the next  *)
(* run of the generators has it compiled in.                               *)
(***************************************************************************)
EXTENDS Integers, Sequences, FiniteSets

CONSTANTS
  Syscalls,   \* the numbers of SyscallTable
  NumArgs,    \* 6
  Fields,     \* per number: the arguments whose type in its format has a "*"
  Formats,    \* the numbers whose name is that of a sys_enter event of tracefs
  LineLen,    \* per number: the length of its line
  BufSize,    \* of a bufio.Writer: 4096
  MaxRuns     \* bound: how often the generators are run

Args == 0..(NumArgs - 1)

ASSUME TableAssumption ==
  /\ Syscalls # {}
  /\ Syscalls \subseteq Nat
  /\ IsFiniteSet(Syscalls)
  /\ NumArgs \in Nat
  /\ BufSize \in Nat \ {0}
  /\ Fields \in [Syscalls -> SUBSET Args]
  /\ Formats \subseteq Syscalls
  /\ MaxRuns \in Nat
  /\ LineLen \in [Syscalls -> 1..BufSize]

VARIABLES
  pc,        \* "fields", "c", "go": the generator that runs; "load": all have;
             \* "running", "failed": run() has, or has not, loaded the table;
             \* "unchanged": the sources cannot get a text and keep their tables
  runs,      \* how often main() of the generators was started
  entries,   \* per number: how often syscall_fields.txt has an entry for it
  sourced,   \* the numbers with an entry in the SyscallFields compiled in
  left,      \* per generator: numbers its loop has not come to
  buffered,  \* per generator: bytes in its bufio.Writer
  file,      \* per generator: bytes in its text file
  loaded     \* the mask of each number in the table the programs are loaded with

fieldVars == <<runs, entries, sourced>>
vars == <<pc, fieldVars, left, buffered, file, loaded>>

Generators == {"c", "go"}

\* A byte is known by its line and its place in it; the last one ends the line.
Bytes == Syscalls \X (1..BufSize)

Line(no) == [k \in 1..LineLen[no] |-> <<no, k>>]

\* bufio.Writer: a full buffer goes to the file when the next byte arrives.
Spilled(bytes) == IF Len(bytes) > BufSize THEN BufSize ELSE 0

Has(text, byte) == \E j \in 1..Len(text) : text[j] = byte

\* The numbers whose line is in the text from its first byte to its last.
Complete(text) ==
  {no \in Syscalls : \A k \in 1..LineLen[no] : Has(text, <<no, k>>)}

\* Faulty variant: bits counted from one.
MaskOfShifted(no) == {a + 1 : a \in Fields[no]}

\* mask |= 1 << i for the arguments whose type has a "*"; a name without an
\* entry in SyscallFields has no arguments.
MaskOf(no) == IF no \in sourced THEN Fields[no] ELSE {}

\* [no] = mask or no: mask for the numbers in nos; the other elements are 0.
Table(nos) == [no \in Syscalls |-> IF no \in nos THEN MaskOf(no) ELSE {}]

\* Both tables end at the largest number they name.
SameSize(nos, others) ==
  /\ \A n \in nos : \E m \in others : n <= m
  /\ \A m \in others : \E n \in nos : m <= n
-----------------------------------------------------------------------------
Init ==
  /\ pc = "fields"
  /\ runs = 1
  /\ entries = [no \in Syscalls |-> 0]
  /\ sourced = {}
  /\ left = [f \in Generators |-> Syscalls]
  /\ buffered = [f \in Generators |-> <<>>]
  /\ file = [f \in Generators |-> <<>>]
  /\ loaded = [no \in Syscalls |-> {}]

\* getSyscallFields appends to what an earlier run has left.  A name without a
\* format is skipped, and so is every name once too many files are open, since
\* the loop closes none of them; an error of OpenFile ends it.
GetFields(got) ==
  /\ pc = "fields"
  /\ got \subseteq Formats
  /\ pc' = "c"
  /\ entries' = [no \in Syscalls |-> entries[no] + (IF no \in got THEN 1 ELSE 0)]
  /\ UNCHANGED <<runs, sourced, left, buffered, file, loaded>>

\* os.OpenFile fails: the generator returns and leaves no text.
OpenFails(f) ==
  /\ pc = f
  /\ left[f] = Syscalls
  /\ pc' = "unchanged"
  /\ UNCHANGED <<fieldVars, left, buffered, file, loaded>>

\* One round of the loop over syscallTable: WriteString, Fprintf.
WriteLine(f, no) ==
  LET bytes == buffered[f] \o Line(no)
      n == Spilled(bytes)
  IN  /\ pc = f
      /\ no \in left[f]
      /\ left' = [left EXCEPT ![f] = @ \ {no}]
      /\ file' = [file EXCEPT ![f] = @ \o SubSeq(bytes, 1, n)]
      /\ buffered' = [buffered EXCEPT ![f] = SubSeq(bytes, n + 1, Len(bytes))]
      /\ UNCHANGED <<pc, fieldVars, loaded>>

\* fillSysPtrArgTable ends with w.Flush and f.Close.
EndC ==
  /\ pc = "c"
  /\ left["c"] = {}
  /\ pc' = "go"
  /\ file' = [file EXCEPT !["c"] = @ \o buffered["c"]]
  /\ buffered' = [buffered EXCEPT !["c"] = <<>>]
  /\ UNCHANGED <<fieldVars, left, loaded>>

\* fillSysPtrArgTableForGo ends with f.Close alone.
EndGo ==
  /\ pc = "go"
  /\ left["go"] = {}
  /\ pc' = "load"
  /\ UNCHANGED <<fieldVars, left, buffered, file, loaded>>

\* Go does not compile a map literal with a key that is there twice.
Pastable == \A no \in Syscalls : entries[no] <= 1

\* The fields are pasted and the generators run again: two of the three texts
\* are truncated, syscall_fields.txt is not.
RunAgain ==
  /\ pc = "load"
  /\ runs < MaxRuns
  /\ Pastable
  /\ pc' = "fields"
  /\ runs' = runs + 1
  /\ sourced' = {no \in Syscalls : entries[no] # 0}
  /\ left' = [f \in Generators |-> Syscalls]
  /\ buffered' = [f \in Generators |-> <<>>]
  /\ file' = [f \in Generators |-> <<>>]
  /\ UNCHANGED <<entries, loaded>>

\* The sources do not compile with what two runs have appended.
PasteFails ==
  /\ pc = "load"
  /\ ~Pastable
  /\ pc' = "unchanged"
  /\ UNCHANGED <<fieldVars, left, buffered, file, loaded>>

\* The elements map.c gives a value to, and those of fillPtrArgs.
CNumbers  == Complete(file["c"])
GoNumbers == Complete(file["go"])

\* Faulty variant: no comparison of the sizes.
LoadableAny == TRUE

\* SyscallPtrArgs.Set wants a slice of the size of the C array.
Loadable == SameSize(CNumbers, GoNumbers)

Load ==
  /\ pc = "load"
  /\ Loadable
  /\ pc' = "running"
  /\ loaded' = Table(GoNumbers)
  /\ UNCHANGED <<fieldVars, left, buffered, file>>

LoadFails ==
  /\ pc = "load"
  /\ ~Loadable
  /\ pc' = "failed"
  /\ UNCHANGED <<fieldVars, left, buffered, file, loaded>>

Done == pc \in {"running", "failed", "unchanged"} /\ UNCHANGED vars

Next ==
  \/ \E f \in Generators, no \in Syscalls : WriteLine(f, no)
  \/ \E f \in Generators : OpenFails(f)
  \/ \E got \in SUBSET Formats : GetFields(got)
  \/ EndC
  \/ EndGo
  \/ RunAgain
  \/ PasteFails
  \/ Load
  \/ LoadFails
  \/ Done

Spec == Init /\ [][Next]_vars
-----------------------------------------------------------------------------
TypeOK ==
  /\ pc \in Generators \cup {"fields", "load", "running", "failed", "unchanged"}
  /\ runs \in Nat
  /\ entries \in [Syscalls -> Nat]
  /\ sourced \subseteq Syscalls
  /\ left \in [Generators -> SUBSET Syscalls]
  /\ buffered \in [Generators -> Seq(Bytes)]
  /\ file \in [Generators -> Seq(Bytes)]
  /\ loaded \in [Syscalls -> SUBSET Args]

\* The C table has the line of every system call, whatever the order in which
\* the loop met them and wherever the buffer was full.
CTextComplete == pc \notin {"fields", "c", "unchanged"} => CNumbers = Syscalls

\* A mask the programs are loaded with is the one of the format, or empty: it
\* is empty only for a name that had no entry in the SyscallFields the
\* generators were compiled with (none has in the first run), and for a line
\* that had not left the Go generator's buffer when it ended.
UnmarkedIsExplained ==
  pc = "running" =>
    \A no \in Syscalls : loaded[no] # Fields[no] =>
      /\ loaded[no] = {}
      /\ \/ no \notin sourced
         \/ \E k \in 1..LineLen[no] : Has(buffered["go"], <<no, k>>)

\* Programs run only with a table of the C table's size: the largest number is
\* never among those that were lost, or run() had stopped at Set.
RunsWithLargest ==
  pc = "running" =>
    \A no \in Syscalls : \E m \in GoNumbers : no <= m

\* program.bpf.c:96 "check syscall_ptr_args here, and fill real data in that
\* address if the argument is actually a pointer": all that SyscallFields has
\* are marked.
PointersMarked ==
  pc = "running" => \A no \in sourced : Fields[no] \subseteq loaded[no]
-----------------------------------------------------------------------------
(***************************************************************************)
(* The inductive invariant: nothing is lost between the loop and the file  *)
(* but what is still buffered.                                             *)
(***************************************************************************)

WrittenIsSomewhere ==
  \A f \in Generators : \A no \in Syscalls \ left[f] : \A k \in 1..LineLen[no] :
    Has(file[f], <<no, k>>) \/ Has(buffered[f], <<no, k>>)

CFlushed == pc \notin {"fields", "c", "unchanged"} => left["c"] = {} /\ buffered["c"] = <<>>

GoEnded == pc \in {"load", "running", "failed"} => left["go"] = {}

LoadedFromGo ==
  pc = "running" =>
    /\ loaded = Table(GoNumbers)
    /\ SameSize(CNumbers, GoNumbers)

IInv ==
  /\ TypeOK
  /\ WrittenIsSomewhere
  /\ CFlushed
  /\ GoEnded
  /\ LoadedFromGo
=============================================================================
