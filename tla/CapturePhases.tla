---------------------------- MODULE CapturePhases ----------------------------
(***************************************************************************)
(* What the kernel half sees of run(): which of the two programs are       *)
(* attached, and whether the ring buffer has a reader.                     *)
(***************************************************************************)

VARIABLE phase

Phases == {"off", "enter", "both", "reading", "closing", "enterOnly", "closed"}

(***************************************************************************)
(* The calls run() makes to attach and detach the programs and to open and *)
(* close the reader, in the order of its code and its defers; an error in  *)
(* between takes the shorter way out, and so does a signal that kills the  *)
(* process.                                                                *)
(***************************************************************************)
PhaseSteps ==
  { <<"off", "enter">>,                                \* Tracepoint(sys_enter)
    <<"enter", "both">>, <<"enter", "enterOnly">>,     \* Tracepoint(sys_exit)
    <<"both", "reading">>, <<"both", "closing">>,      \* ringbuf.NewReader
    <<"reading", "closing">>,                          \* rd.Close
    <<"closing", "enterOnly">>,                        \* tpExit.Close
    <<"enterOnly", "closed">> }                        \* tpEnter.Close
  \cup (Phases \X {"closed"})

PhaseInit == phase = "off"

PhaseNext == \E next \in Phases \ {phase} : <<phase, next>> \in PhaseSteps /\ phase' = next

PhaseSpec == PhaseInit /\ [][PhaseNext]_phase
=============================================================================
