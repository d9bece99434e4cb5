------------------------------- MODULE RunLife -------------------------------
(***************************************************************************)
(* The life of one syscap process: the command line, the resolution of a   *)
(* container id to a cgroup, loading, attaching, the window of 60 seconds  *)
(* and the way out through the defers of run().                            *)
(*                                                                         *)
(* Around it the container stops and starts, the pids it leaves go to      *)
(* other processes, and signals come at any time.  A cgroup directory that *)
(* is made anew has a new inode.  What the main loop and the goroutine do  *)
(* with events is module Collector; here the loop only ends.               *)
(***************************************************************************)
EXTENDS Integers

CONSTANTS
  Pids,       \* process ids
  HostGroup,  \* the inode of the cgroup of processes outside the container
  RootGroup,  \* the inode of /sys/fs/cgroup
  MaxStarts   \* bound: how often the container is started

ASSUME RunLifeAssumption ==
  /\ Pids \subseteq Nat \ {0}
  /\ MaxStarts \in Nat
  /\ {HostGroup, RootGroup} \subseteq Nat \ (0..MaxStarts)
  /\ HostGroup # RootGroup

VARIABLES
  args,      \* os.Args
  unified,   \* whether the host has the one cgroup hierarchy (v2) only
  pc,        \* the next call of run()
  pid,       \* extractPID: pid
  file,      \* resolveCgroupPath: whose cgroup file is open
  path,      \* resolveCgroupPath: whose directory the path names
  cgroupID,  \* resolveCgroupID: st.Ino
  target,    \* cgroup_id_map[0]
  held,      \* what run() has to give back with a defer
  timedOut,  \* ctx.Done()
  signalled, \* ctxSignal.Done()
  waiter,    \* the goroutine that waits for the two
  main,      \* the container's main process, 0 when it is stopped
  owner,     \* whose process each pid is
  starts,    \* how often the container was started
  asked,     \* history: the start docker inspect answered about, or 0
  opened     \* history: the start whose time it was when the file was opened

givenVars   == <<args, unified>>
resolveVars == <<pid, file, path, cgroupID>>
windowVars  == <<timedOut, signalled, waiter>>
hostVars    == <<main, owner, starts>>
history     == <<asked, opened>>

vars == <<givenVars, pc, resolveVars, target, held, windowVars, hostVars, history>>

Labels == {"parse", "inspect", "open", "read", "stat", "memlock", "load", "store",
           "enter", "exit", "notify", "timeout", "reader", "log", "go", "loop",
           "return", "exited"}

Processes == {"container", "other"}

\* The inode of the container's cgroup directory, 0 when there is none.
Group == IF main = 0 THEN 0 ELSE starts
-----------------------------------------------------------------------------
(***************************************************************************)
(* One call of run() after the other.                                      *)
(***************************************************************************)

Successor ==
  [parse |-> "inspect", inspect |-> "open", open |-> "read", read |-> "stat",
   stat |-> "memlock", memlock |-> "load", load |-> "store", store |-> "enter",
   enter |-> "exit", exit |-> "notify", notify |-> "timeout",
   timeout |-> "reader", reader |-> "log", log |-> "go", go |-> "loop"]

\* Faulty variant: the programs are attached before the id is stored.
AfterLate(label) ==
  [Successor EXCEPT !["load"] = "enter", !["exit"] = "store",
                    !["store"] = "notify"][label]

After(label) == Successor[label]

At(label) == pc = label /\ pc' = After(label)

\* An error of any call but notify, timeout and go makes run() return.
Fails ==
  /\ pc \notin {"notify", "timeout", "go", "loop", "return", "exited"}
  /\ pc' = "return"
  /\ file' = "none"
  /\ UNCHANGED <<givenVars, pid, path, cgroupID, target, held, windowVars, hostVars, history>>

\* parseArgs and validateArgs: an id, no tab or line end in the filter,
\* no other argument.
Parse ==
  /\ At("parse")
  /\ args.id /\ ~args.blank /\ ~args.rest
  /\ UNCHANGED <<givenVars, resolveVars, target, held, windowVars, hostVars, history>>

\* docker inspect prints the pid of the main process, 0 for a stopped container.
Inspect ==
  /\ At("inspect")
  /\ pid' = main
  /\ asked' = Group
  /\ UNCHANGED <<givenVars, file, path, cgroupID, target, held, windowVars, hostVars, opened>>

\* Faulty variant: the error of os.Open is not looked at.
CanOpenAlways(p) == p # 0

\* /proc/<p> is there.
CanOpen(p) == p # 0 /\ owner[p] # "nobody"

\* The file belongs to the process that has the pid now.
OpenCgroup ==
  /\ At("open")
  /\ CanOpen(pid)
  /\ file' = owner[pid]
  /\ opened' = Group
  /\ UNCHANGED <<givenVars, pid, path, cgroupID, target, held, windowVars, hostVars, asked>>

\* The first line names the process's cgroup in the first hierarchy, and what it
\* names is looked for under /sys/fs/cgroup.  That is where it is if there is no
\* hierarchy but the unified one.  Otherwise there is nothing of that name, or it
\* is "/", as in 12:rdma:/, and leads to /sys/fs/cgroup itself.
ReadCgroup ==
  /\ At("read")
  /\ file # "gone"
  /\ \/ unified /\ path' = file
     \/ ~unified /\ path' \in {"nowhere", "root"}
  /\ file' = "none"
  /\ UNCHANGED <<givenVars, pid, cgroupID, target, held, windowVars, hostVars, history>>

Inode(p) ==
  CASE p = "container" -> Group
    [] p = "other" -> HostGroup
    [] p = "root" -> RootGroup
    [] OTHER -> 0

StatPath ==
  /\ At("stat")
  /\ Inode(path) # 0
  /\ cgroupID' = Inode(path)
  /\ UNCHANGED <<givenVars, pid, file, path, target, held, windowVars, hostVars, history>>

RemoveMemlock ==
  /\ At("memlock")
  /\ UNCHANGED <<givenVars, resolveVars, target, held, windowVars, hostVars, history>>

StoreTarget ==
  /\ At("store")
  /\ target' = cgroupID
  /\ UNCHANGED <<givenVars, resolveVars, held, windowVars, hostVars, history>>

(***************************************************************************)
(* The calls that register a defer, each with what it gives run() to hold. *)
(***************************************************************************)
Acquired ==
  [load |-> "obj", enter |-> "tpEnter", exit |-> "tpExit", notify |-> "stop",
   timeout |-> "cancel", reader |-> "rd", log |-> "recordFile"]

Acquire ==
  \E label \in DOMAIN Acquired :
    /\ At(label)
    /\ held' = held \cup {Acquired[label]}
    /\ UNCHANGED <<givenVars, resolveVars, target, windowVars, hostVars, history>>

Go ==
  /\ At("go")
  /\ waiter' = "waiting"
  /\ UNCHANGED <<givenVars, resolveVars, target, held, timedOut, signalled, hostVars, history>>
-----------------------------------------------------------------------------
(***************************************************************************)
(* The window and the way out.                                             *)
(***************************************************************************)

\* Faulty variant: the select has no case for the timeout.
WokenBySignal == signalled

Woken == timedOut \/ signalled

\* The goroutine closes the reader; the rest of it is in Collector.
CloseReader ==
  /\ waiter = "waiting"
  /\ Woken
  /\ waiter' = "closed"
  /\ UNCHANGED <<givenVars, pc, resolveVars, target, held, timedOut, signalled, hostVars,
                 history>>

\* rd.Read returns ErrClosed.
LoopEnds ==
  /\ pc = "loop"
  /\ waiter = "closed"
  /\ pc' = "return"
  /\ UNCHANGED <<givenVars, resolveVars, target, held, windowVars, hostVars, history>>

\* rd.Read or binary.Read returns another error.
LoopFails ==
  /\ pc = "loop"
  /\ pc' = "return"
  /\ UNCHANGED <<givenVars, resolveVars, target, held, windowVars, hostVars, history>>

TimeUp ==
  /\ "cancel" \in held
  /\ timedOut' = TRUE
  /\ UNCHANGED <<givenVars, pc, resolveVars, target, held, signalled, waiter, hostVars, history>>

\* SIGINT or SIGTERM while they are caught.
Interrupt ==
  /\ "stop" \in held
  /\ signalled' = TRUE
  /\ UNCHANGED <<givenVars, pc, resolveVars, target, held, timedOut, waiter, hostVars, history>>

Resources == {"obj", "tpEnter", "tpExit", "stop", "cancel", "rd", "recordFile"}

\* The order in which the defers are registered.
Rank(r) ==
  [obj |-> 1, tpEnter |-> 2, tpExit |-> 3, stop |-> 4, cancel |-> 5, rd |-> 6,
   recordFile |-> 7][r]

\* Faulty variant: first in, first out.
IsNextFirst(r) == \A s \in held : Rank(r) <= Rank(s)

IsNext(r) == \A s \in held : Rank(s) <= Rank(r)

\* One deferred call.  stop and cancel end their contexts, which wakes the
\* goroutine if nothing has before.
Unwind(r) ==
  /\ pc = "return"
  /\ IsNext(r)
  /\ held' = held \ {r}
  /\ timedOut' = (timedOut \/ r = "cancel")
  /\ signalled' = (signalled \/ r = "stop")
  /\ UNCHANGED <<givenVars, pc, resolveVars, target, waiter, hostVars, history>>

\* The process is gone, and the kernel takes back what it held.
Gone ==
  /\ pc' = "exited"
  /\ held' = {}
  /\ file' = "none"
  /\ waiter' = "none"
  /\ UNCHANGED <<givenVars, pid, path, cgroupID, target, timedOut, signalled, hostVars, history>>

\* main() returns after run().
Exit == pc = "return" /\ held = {} /\ Gone

\* SIGKILL, or SIGINT or SIGTERM while nothing catches them.
Killed == pc # "exited" /\ Gone
-----------------------------------------------------------------------------
(***************************************************************************)
(* The host.                                                               *)
(***************************************************************************)

\* An open cgroup file of a process that is gone cannot be read any more.
FileAfterEndOf(p) == IF p = pid /\ file \in Processes THEN "gone" ELSE file

ContainerStarts(p) ==
  /\ main = 0
  /\ owner[p] = "nobody"
  /\ starts < MaxStarts
  /\ starts' = starts + 1
  /\ main' = p
  /\ owner' = [owner EXCEPT ![p] = "container"]
  /\ UNCHANGED <<givenVars, pc, resolveVars, target, held, windowVars, history>>

ContainerStops ==
  /\ main # 0
  /\ main' = 0
  /\ owner' = [owner EXCEPT ![main] = "nobody"]
  /\ file' = FileAfterEndOf(main)
  /\ UNCHANGED <<givenVars, pc, pid, path, cgroupID, target, held, windowVars, starts, history>>

OtherStarts(p) ==
  /\ owner[p] = "nobody"
  /\ owner' = [owner EXCEPT ![p] = "other"]
  /\ UNCHANGED <<givenVars, pc, resolveVars, target, held, windowVars, main, starts, history>>

OtherEnds(p) ==
  /\ owner[p] = "other"
  /\ owner' = [owner EXCEPT ![p] = "nobody"]
  /\ file' = FileAfterEndOf(p)
  /\ UNCHANGED <<givenVars, pc, pid, path, cgroupID, target, held, windowVars, main, starts,
                 history>>
-----------------------------------------------------------------------------
Init ==
  /\ args \in [id : BOOLEAN, blank : BOOLEAN, rest : BOOLEAN]
  /\ unified \in BOOLEAN
  /\ pc = "parse"
  /\ pid = 0
  /\ file = "none"
  /\ path = "none"
  /\ cgroupID = 0
  /\ target = 0
  /\ held = {}
  /\ timedOut = FALSE
  /\ signalled = FALSE
  /\ waiter = "none"
  /\ main = 0
  /\ owner \in [Pids -> {"nobody", "other"}]
  /\ starts = 0
  /\ asked = 0
  /\ opened = 0

Setup ==
  \/ Parse \/ Inspect \/ OpenCgroup \/ ReadCgroup \/ StatPath \/ RemoveMemlock
  \/ StoreTarget \/ Acquire \/ Go

WayOut == Exit \/ \E r \in held : Unwind(r)

Host ==
  \/ ContainerStops
  \/ \E p \in Pids : ContainerStarts(p) \/ OtherStarts(p) \/ OtherEnds(p)

Next ==
  \/ Setup \/ Fails
  \/ CloseReader \/ LoopEnds \/ LoopFails \/ TimeUp \/ Interrupt
  \/ WayOut \/ Killed
  \/ Host

Spec == Init /\ [][Next]_vars

\* Both goroutines are scheduled, the timer expires, and the calls after it was
\* set return.  Nothing is assumed of docker, signals, errors and the host.
Fairness ==
  /\ WF_vars("cancel" \in held /\ Setup)
  /\ WF_vars(CloseReader)
  /\ WF_vars(LoopEnds)
  /\ WF_vars(TimeUp)
  /\ WF_vars(WayOut)

FairSpec == Spec /\ Fairness
-----------------------------------------------------------------------------
(***************************************************************************)
(* Properties.                                                             *)
(***************************************************************************)

\* Every variable is of its type.
TypeOK ==
  /\ args \in [id : BOOLEAN, blank : BOOLEAN, rest : BOOLEAN]
  /\ unified \in BOOLEAN
  /\ pc \in Labels
  /\ pid \in Pids \cup {0}
  /\ file \in Processes \cup {"none", "gone"}
  /\ path \in Processes \cup {"none", "nowhere", "root"}
  /\ cgroupID \in 0..MaxStarts \cup {HostGroup, RootGroup}
  /\ target \in 0..MaxStarts \cup {HostGroup, RootGroup}
  /\ held \subseteq Resources
  /\ timedOut \in BOOLEAN
  /\ signalled \in BOOLEAN
  /\ waiter \in {"none", "waiting", "closed"}
  /\ main \in Pids \cup {0}
  /\ owner \in [Pids -> Processes \cup {"nobody"}]
  /\ starts \in 0..MaxStarts
  /\ asked \in 0..MaxStarts
  /\ opened \in 0..MaxStarts

Attached == {"tpEnter", "tpExit"} \cap held # {}

\* What resolveCgroupID may lead to, by the host and by what happened since
\* docker inspect answered: the start it answered about, a later one if the
\* container was started again before the stat, and another process's cgroup if
\* the pid had changed hands before the open.
Leads ==
  IF ~unified THEN {RootGroup}
  ELSE asked..starts \cup (IF opened = asked THEN {} ELSE {HostGroup})

\* No program runs without a cgroup to look for, and that one is explained: with
\* the unified hierarchy it is the container's as long as the container has not
\* stopped since docker inspect answered, and never that of an earlier start; on
\* another host, where run() does not notice, it is never a container's.
CapturesContainer ==
  Attached =>
    /\ "obj" \in held
    /\ asked # 0
    /\ target \in Leads
    /\ unified /\ asked = Group => target = Group

\* The window is bounded: once the timer runs the process ends, whether or not
\* there are events, errors or signals.
WindowBounded == "cancel" \in held ~> pc = "exited"

(***************************************************************************)
(* What the kernel half sees of all this.                                  *)
(***************************************************************************)

ReaderOpen == pc \in {"log", "go", "loop"} /\ waiter # "closed"

PhaseOf ==
  CASE {"tpEnter", "tpExit"} \subseteq held ->
         IF "rd" \in held /\ ReaderOpen THEN "reading"
         ELSE IF pc = "return" \/ "rd" \in held THEN "closing" ELSE "both"
    [] "tpEnter" \in held /\ "tpExit" \notin held ->
         IF pc = "return" THEN "enterOnly" ELSE "enter"
    [] "tpExit" \in held /\ "tpEnter" \notin held -> "exitOnly"
    [] OTHER -> IF pc \in {"return", "exited"} THEN "closed" ELSE "off"

Kernel == INSTANCE CapturePhases WITH phase <- PhaseOf

\* Whichever call fails and whatever signal comes, the programs are attached
\* and detached in the order SyscallCapture takes for granted: sys_exit only
\* ever runs while sys_enter does, and each way out ends with both detached.
ImplementsPhases == Kernel!PhaseSpec
-----------------------------------------------------------------------------
(***************************************************************************)
(* The inductive invariant.                                                *)
(***************************************************************************)

\* How many resources run() holds before each call.
Level ==
  [parse |-> 0, inspect |-> 0, open |-> 0, read |-> 0, stat |-> 0, memlock |-> 0,
   load |-> 0, store |-> 1, enter |-> 1, exit |-> 2, notify |-> 3, timeout |-> 4,
   reader |-> 5, log |-> 6, go |-> 7, loop |-> 7, exited |-> 0]

\* They are held in their order, on the way in and on the way out.
HeldInOrder ==
  /\ pc \in DOMAIN Level =>
       \A r \in Resources : r \in held <=> Rank(r) <= Level[pc]
  /\ \A r \in held, s \in Resources : Rank(s) <= Rank(r) => s \in held

\* What is known of the target before each call.
TargetInOrder ==
  /\ pc \in {"parse", "inspect"} => pid = 0 /\ file = "none" /\ asked = 0
  /\ pc \in {"parse", "inspect", "open", "read"} => path = "none"
  /\ pc = "read" => file # "none"
  /\ pc \in {"parse", "inspect", "open", "read", "stat"} =>
       cgroupID = 0 /\ target = 0
  /\ pc \in {"memlock", "load", "store"} => cgroupID # 0 /\ target = 0
  /\ pc \in {"enter", "exit", "notify", "timeout", "reader", "log", "go", "loop"} =>
       target # 0
  /\ Attached => target # 0

\* The container has one main process.
HostConsistent ==
  /\ main # 0 => owner[main] = "container" /\ starts # 0
  /\ \A p \in Pids : owner[p] = "container" => p = main

\* docker inspect told of a start that had been, and of its process.
AskedBefore ==
  /\ asked <= starts
  /\ asked # 0 <=> pid # 0
  /\ asked # 0 /\ asked = Group => pid = main

\* Without a process nothing is resolved, and without the unified hierarchy no
\* process's directory is found.
ResolvedFrom ==
  /\ file # "none" \/ path # "none" \/ cgroupID # 0 => asked # 0
  /\ path \in Processes => unified
  /\ path \in {"nowhere", "root"} => ~unified
  /\ cgroupID # 0 =>
       cgroupID \in IF unified THEN asked..starts \cup {HostGroup} ELSE {RootGroup}
  /\ target \in {0, cgroupID}

\* Another process is met only if the container had stopped before the open.
StrangersAfterStop ==
  "other" \in {file, path} \/ HostGroup = cgroupID => opened # asked /\ asked # Group

WaiterInLoop == waiter # "none" => pc \in {"loop", "return"}

IInv ==
  /\ TypeOK
  /\ HeldInOrder
  /\ TargetInOrder
  /\ HostConsistent
  /\ AskedBefore
  /\ ResolvedFrom
  /\ StrangersAfterStop
  /\ WaiterInLoop
=============================================================================
