----------------------------- MODULE SortedDelays -----------------------------
(***************************************************************************)
(* The delays of one system call as summarizeOneSyscall sorts them, and    *)
(* what it reads of them.  LatencySummary has the statistics they come     *)
(* from, FindingRules the findings that are made of them; both count the  *)
(* failed calls by their errno.                                            *)
(***************************************************************************)
EXTENDS Integers, Sequences

\* What is left of a 64-bit value when it is assigned to an integer that holds
\* -half .. half - 1.
Truncated(x, half) == ((x + half) % (2 * half)) - half

\* Faulty variant: errno as the comment at its declaration has it.
ErrnoCommented(ret, half) == IF ret < 0 THEN Truncated(ret, half) ELSE 0

\* event->errno = event->ret < 0 ? -event->ret : 0
Errno(ret, half) == IF ret < 0 THEN Truncated(-ret, half) ELSE 0

\* Indices as in Go: elements are counted from zero.
At(s, j) == s[j + 1]

\* Faulty variant: the middle taken from the wrong end.
MiddleWrong(s) ==
  LET n == Len(s)
  IN  IF n % 2 = 0 THEN At(s, n \div 2 - 1) + (At(s, n \div 2 - 1) - At(s, n \div 2)) \div 2
      ELSE At(s, n \div 2)

Middle(s) ==
  LET n == Len(s)
  IN  IF n % 2 = 0 THEN (At(s, n \div 2 - 1) + At(s, n \div 2)) \div 2
      ELSE At(s, n \div 2)

Sorted(s) == \A j, k \in DOMAIN s : j <= k => s[j] <= s[k]

\* The ways to move the elements of a sequence of length n.
Moves(n) == {f \in [1..n -> 1..n] : \A k \in 1..n : \E j \in 1..n : f[j] = k}

Moved(s, f) == [j \in DOMAIN s |-> s[f[j]]]

\* Faulty variant: no sort.
InOrderNot(s) == TRUE

\* sort.Slice by <.
InOrder(s) == Sorted(s)

\* What sort.Slice may leave of a slice.
Orderings(s) == {m \in {Moved(s, f) : f \in Moves(Len(s))} : InOrder(m)}
=============================================================================
