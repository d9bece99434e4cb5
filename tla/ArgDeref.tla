------------------------------- MODULE ArgDeref -------------------------------
(***************************************************************************)
(* How the two BPF programs find the words behind a call's pointer         *)
(* arguments: capture_sys_enter reads each of them, capture_sys_exit reads *)
(* those again that are still zero.  The memory belongs to the container:  *)
(* the call itself, other threads and the kernel's paging change it in     *)
(* between, and an address may be unreadable.                              *)
(***************************************************************************)
EXTENDS Integers

CONSTANTS
  NumArgs,    \* 6: the arguments of a system call
  Pointers,   \* those whose bit is set in syscall_ptr_args[syscall_id]
  Words,      \* what memory may hold besides zero
  Fault,      \* what an address gives that cannot be read
  Unread      \* no attempt was made

Args == 0..(NumArgs - 1)

ASSUME DerefAssumption ==
  /\ NumArgs \in Nat
  /\ Pointers \subseteq Args
  /\ 0 \notin Words
  /\ Fault \notin Words \cup {0}
  /\ Unread \notin Words \cup {0, Fault}

VARIABLES
  pc,      \* "enter", "kernel", "exit", "submitted"
  i,       \* the loop variable of the running program
  deref,   \* state.deref_args, later event->deref_args
  mem,     \* what each argument points to
  first,   \* history: what sys_enter found there
  second,  \* history: what sys_exit found there, if it looked
  held     \* history: what was there at some time since the call was entered

vars == <<pc, i, deref, mem, first, second, held>>

Contents == Words \cup {0, Fault}

\* Faulty variant: a failed read leaves its error behind.
ProbedRaw(word) == word

\* bpf_probe_read_user leaves zero behind when it fails.
Probed(word) == IF word = Fault THEN 0 ELSE word
-----------------------------------------------------------------------------
Init ==
  /\ pc = "enter"
  /\ i = 0
  /\ deref = [a \in Args |-> 0]
  /\ mem \in [Args -> Contents]
  /\ first = [a \in Args |-> Unread]
  /\ second = [a \in Args |-> Unread]
  /\ held = [a \in Args |-> {mem[a]}]

\* One round of the loop in capture_sys_enter.
EnterRead ==
  /\ pc = "enter"
  /\ i < NumArgs
  /\ i' = i + 1
  /\ \/ /\ i \in Pointers
        /\ deref' = [deref EXCEPT ![i] = Probed(mem[i])]
        /\ first' = [first EXCEPT ![i] = mem[i]]
     \/ /\ i \notin Pointers
        /\ UNCHANGED <<deref, first>>
  /\ UNCHANGED <<pc, mem, second, held>>

\* The enter_state is in inflight; the call itself runs.
EnterDone ==
  /\ pc = "enter"
  /\ i = NumArgs
  /\ pc' = "kernel"
  /\ UNCHANGED <<i, deref, mem, first, second, held>>

\* capture_sys_exit copies deref_args into the event.
ExitStart ==
  /\ pc = "kernel"
  /\ pc' = "exit"
  /\ i' = 0
  /\ UNCHANGED <<deref, mem, first, second, held>>

\* Faulty variant: what sys_enter found is read again too.
AlwaysAgain(a) == a \in Pointers

\* Faulty variant: the pointer table is not asked.
AnyZeroAgain(a) == deref[a] = 0

\* Faulty variant: no second attempt.
NeverAgain(a) == FALSE

ReadAgain(a) == deref[a] = 0 /\ a \in Pointers

\* One round of the loop in capture_sys_exit.
ExitRead ==
  /\ pc = "exit"
  /\ i < NumArgs
  /\ i' = i + 1
  /\ \/ /\ ReadAgain(i)
        /\ deref' = [deref EXCEPT ![i] = Probed(mem[i])]
        /\ second' = [second EXCEPT ![i] = mem[i]]
     \/ /\ ~ReadAgain(i)
        /\ UNCHANGED <<deref, second>>
  /\ UNCHANGED <<pc, mem, first, held>>

Submit ==
  /\ pc = "exit"
  /\ i = NumArgs
  /\ pc' = "submitted"
  /\ UNCHANGED <<i, deref, mem, first, second, held>>

\* A write, a page that is brought in or taken away.
MemoryChanges(a, word) ==
  /\ pc # "submitted"
  /\ mem' = [mem EXCEPT ![a] = word]
  /\ held' = [held EXCEPT ![a] = @ \cup {word}]
  /\ UNCHANGED <<pc, i, deref, first, second>>

\* The event is on its way: nothing changes it any more.
Submitted == pc = "submitted" /\ UNCHANGED vars

Next ==
  \/ EnterRead
  \/ EnterDone
  \/ ExitStart
  \/ ExitRead
  \/ Submit
  \/ \E a \in Args, word \in Contents : MemoryChanges(a, word)
  \/ Submitted

Spec == Init /\ [][Next]_vars
-----------------------------------------------------------------------------
TypeOK ==
  /\ pc \in {"enter", "kernel", "exit", "submitted"}
  /\ i \in 0..NumArgs
  /\ deref \in [Args -> Words \cup {0}]
  /\ mem \in [Args -> Contents]
  /\ first \in [Args -> Contents \cup {Unread}]
  /\ second \in [Args -> Contents \cup {Unread}]
  /\ held \in [Args -> SUBSET Contents]

\* A word that an event reports for an argument stood behind that argument, a
\* pointer, at some time between the call's enter and its exit; nothing is
\* carried over from one argument to the next when a read fails.
ReportedWasThere ==
  \A a \in Args : deref[a] # 0 => a \in Pointers /\ deref[a] \in held[a]

\* The word of the enter is kept: a call that overwrites its argument, or a
\* thread that does while the call runs, does not change what was captured.
EnterWordKept ==
  \A a \in Args : first[a] \in Words => deref[a] = first[a]

\* A zero in an event is never the result of a word that could be read: a
\* pointer to memory that held only words during the call is not reported as 0,
\* and neither is one whose memory was filled, or mapped, before the exit.
ZeroIsExplained ==
  pc = "submitted" =>
    \A a \in Pointers :
      deref[a] = 0 => first[a] \in {0, Fault} /\ second[a] \in {0, Fault}
-----------------------------------------------------------------------------
(***************************************************************************)
(* The inductive invariant: what the loops have done so far.               *)
(***************************************************************************)

MemoryIsHeld == \A a \in Args : mem[a] \in held[a]

\* sys_enter has looked at the pointers below i, and only at those.
EnterProgress ==
  /\ \A a \in Args : first[a] = Unread =>
       deref[a] = 0 /\ (a \notin Pointers \/ (pc = "enter" /\ a >= i))
  /\ \A a \in Args : pc = "enter" /\ a >= i => first[a] = Unread
  /\ \A a \in Args : second[a] = Unread /\ first[a] # Unread =>
       deref[a] = Probed(first[a])

\* sys_exit has looked again at those below i that were zero.
ExitProgress ==
  /\ \A a \in Pointers :
       deref[a] = 0 /\ (pc = "submitted" \/ (pc = "exit" /\ a < i)) =>
         second[a] \in {0, Fault}
  /\ \A a \in Args : pc \in {"enter", "kernel"} => second[a] = Unread
  /\ \A a \in Args : second[a] # Unread => first[a] \in {0, Fault}

IInv ==
  /\ TypeOK
  /\ MemoryIsHeld
  /\ EnterProgress
  /\ ExitProgress
  /\ ReportedWasThere
=============================================================================
