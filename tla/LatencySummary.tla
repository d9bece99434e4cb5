---------------------------- MODULE LatencySummary ----------------------------
(***************************************************************************)
(* The statistics of one system call: what updateStatistics collects from  *)
(* the events and what summarizeOneSyscall makes of it.  The percentile is *)
(* a fraction Part / Whole, 99 / 100 in the code, so that its boundary can *)
(* be reached with few calls.  A return value is any number of 64 bits:    *)
(* rt_sigreturn returns the restored register, F_GETOWN a negative group.  *)
(***************************************************************************)
EXTENDS SortedDelays, FiniteSets

CONSTANTS
  Rets,      \* return values, 64 bits wide
  Delays,    \* ts_ns_exit - ts_ns_enter
  Half,      \* errno holds -Half .. Half - 1: 2^31
  MaxErrno,  \* the kernel returns an error as -errno: 4095
  Part,      \* 99
  Whole,     \* 100
  MaxCalls   \* bound on the calls that are counted

ASSUME LatencyAssumption ==
  /\ MaxErrno \in Nat /\ Half \in Nat
  /\ MaxErrno < Half
  /\ Rets \subseteq Int
  /\ Delays \subseteq Nat
  /\ Part \in Nat /\ Whole \in Nat \ {0}
  /\ Part < Whole
  /\ Whole <= 2 * Part
  /\ MaxCalls \in Nat

VARIABLES
  calls,    \* history: the events in the order of their arrival
  called,   \* record.CalledCount
  failed,   \* record.FailedCount
  delays,   \* record.Delays
  p50,      \* record.P50Delay
  p99,      \* record.P99Delay
  covered   \* history: how many calls the percentiles are of

vars == <<calls, called, failed, delays, p50, p99, covered>>

Call == [ret : Rets, delay : Delays]
-----------------------------------------------------------------------------
\* Faulty variant: the fraction taken first, in integers.
TailIndexEarly(n) == (Part \div Whole) * n

TailIndex(n) == (Part * n) \div Whole
-----------------------------------------------------------------------------
Init ==
  /\ calls = <<>>
  /\ called = 0
  /\ failed = 0
  /\ delays = <<>>
  /\ p50 = 0
  /\ p99 = 0
  /\ covered = 0

updateStatistics(ret, delay) ==
  /\ called < MaxCalls
  /\ calls' = Append(calls, [ret |-> ret, delay |-> delay])
  /\ called' = called + 1
  /\ failed' = IF Errno(ret, Half) > 0 THEN failed + 1 ELSE failed
  /\ delays' = Append(delays, delay)
  /\ UNCHANGED <<p50, p99, covered>>

\* The percentiles are set if there is a call.
Percentiles(sorted) ==
  \/ /\ sorted # <<>>
     /\ p50' = Middle(sorted)
     /\ p99' = At(sorted, TailIndex(Len(sorted)))
  \/ /\ sorted = <<>>
     /\ UNCHANGED <<p50, p99>>

\* The sort is in place: the record's slice and the map's are one array.
summarizeOneSyscall ==
  /\ \E sorted \in Orderings(delays) :
       /\ delays' = sorted
       /\ Percentiles(sorted)
  /\ covered' = called
  /\ UNCHANGED <<calls, called, failed>>

Next ==
  \/ \E ret \in Rets, delay \in Delays : updateStatistics(ret, delay)
  \/ summarizeOneSyscall

Spec == Init /\ [][Next]_vars
-----------------------------------------------------------------------------
TypeOK ==
  /\ calls \in Seq(Call)
  /\ called \in 0..MaxCalls
  /\ failed \in 0..called
  /\ delays \in Seq(Delays)
  /\ p50 \in Nat
  /\ p99 \in Nat
  /\ covered \in 0..called

\* The calls a summary is of are those that were counted when it was made; calls
\* that come later leave it as it is.
Above(d) == {j \in 1..covered : calls[j].delay > d}
Below(d) == {j \in 1..covered : calls[j].delay < d}

Summarized == covered > 0

\* The percentiles of the last summary, against the calls it is of in the order
\* they came, whatever has come since: P50 has no more than half of them on
\* either side.
MedianInTheMiddle ==
  Summarized => 2 * Cardinality(Above(p50)) <= covered /\ 2 * Cardinality(Below(p50)) <= covered

\* P99 has no more than the hundredth part of them above it.
FewAboveTail == Summarized => Whole * Cardinality(Above(p99)) <= (Whole - Part) * covered

\* And it does not lie below P50.
MedianBelowTail == Summarized => p50 <= p99

\* Of no more than a hundred calls P99 is the longest: one slow call decides it,
\* and so the finding that risk.go makes of it.
TailIsLongest ==
  Summarized /\ covered * (Whole - Part) <= Whole =>
    Above(p99) = {} /\ \E j \in 1..covered : calls[j].delay = p99

\* What is printed as the number of failed calls counts every call that returned
\* an error, and none whose return value is not negative.  In between are the
\* negative values that are no errors: errno's width decides.
FailedAreErrors ==
  /\ Cardinality({j \in DOMAIN calls : calls[j].ret \in -MaxErrno .. -1}) <= failed
  /\ failed <= Cardinality({j \in DOMAIN calls : calls[j].ret < 0})
-----------------------------------------------------------------------------
(***************************************************************************)
(* The inductive invariant: the record holds the delays of the calls, in   *)
(* some order, the first of them are those the last summary is of, sorted, *)
(* and its percentiles are taken of those.                                 *)
(***************************************************************************)

OnePerCall == Len(calls) = called /\ Len(delays) = called

\* The first n delays are those of the first n calls.
Rearranged(n) ==
  \E f \in Moves(n) : \A j \in 1..n : delays[j] = calls[f[j]].delay

DelaysOfCalls == Rearranged(called) /\ Rearranged(covered)

Counted == SubSeq(delays, 1, covered)

SummaryOfSorted ==
  Summarized =>
    Sorted(Counted) /\ p50 = Middle(Counted) /\ p99 = At(Counted, TailIndex(covered))

FailedCounted == failed = Cardinality({j \in DOMAIN calls : Errno(calls[j].ret, Half) > 0})

IInv ==
  /\ TypeOK
  /\ OnePerCall
  /\ DelaysOfCalls
  /\ SummaryOfSorted
  /\ FailedCounted
=============================================================================
