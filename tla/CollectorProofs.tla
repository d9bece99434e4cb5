---------------------------- MODULE CollectorProofs ----------------------------
(***************************************************************************)
(* Theorems about Collector, for any set of syscalls, any selection of     *)
(* them, with names or without, and any number of events: IInv is          *)
(* inductive, and from it follows what running.log, datas and running.json *)
(* hold.  CountInv is inductive with it, and from both follows how far the *)
(* printed counts can be off, and when not at all.  With WindowInv each    *)
(* step of Collector is one of WindowReport.  One lemma per group of       *)
(* actions.                                                                *)
(***************************************************************************)
EXTENDS Collector, FiniteSetTheorems, TLAPS

(***************************************************************************)
(* The inductive invariants: IInv says where an event is, CountInv what    *)
(* the statistics and the reports count, WindowInv in what order the       *)
(* reports are written.                                                    *)
(***************************************************************************)

\* The text of these events, with what failing writes may have left of it.
Logged(text, events) == EntersAll(text, events) /\ (~MayFail => text = events)

\* Where the handler is says which of its books hold the event in hand.
BooksFollowHandler ==
  /\ taken = datas \/ taken = Append(datas, hand)
  /\ mainPc \in {"seen", "statsGet", "statsPut", "log"} =>
       taken = Append(datas, hand) /\ Logged(log, datas)
  /\ mainPc = "datas" => taken = Append(datas, hand) /\ Logged(log, taken)
  /\ mainPc \notin {"seen", "statsGet", "statsPut", "log", "datas", "crashed"} =>
       taken = datas /\ Logged(log, taken)

\* Once the goroutine is past Close, run() is not in Read and gets no further
\* than the closed ring.
ReaderClosed ==
  /\ shutPc \notin BeforeClose =>
       /\ mainPc # "inRead"
       /\ ringClosed \/ mainPc \in {"cancel", "leave", "exited", "crashed"}
  /\ shutPc \in {"wait", "close"} /\ pollerClosed =>
       mainPc \in {"cancel", "leave", "exited"}

\* running.json is written when no event will be taken any more.
JsonAfterClose == "running.json" \in written => shutPc \notin BeforeClose

IInv ==
  /\ TypeOK
  /\ BooksFollowHandler
  /\ ReaderClosed
  /\ JsonAfterClose
  /\ JsonIsTakenButOne

(***************************************************************************)
(* Only the event in hand can be missing from a count, and from a report   *)
(* only if it was in hand when the reader was closed: what is said of any  *)
(* other syscall's events is right.                                        *)
(***************************************************************************)

TakenOf(id) == CountOf(taken, id)

Uncounted == mainPc \in {"seen", "statsGet", "statsPut"}

Handled(id) == mainPc \in Handling /\ id = hand

Quiet(id) == shutPc \in BeforeClose \/ ~busyAtClose \/ id # hand

Short(n, id) == n \in (TakenOf(id) - 1)..TakenOf(id)
Cover(n, id) == n \in {0, TakenOf(id) - 1, TakenOf(id)}
Full(id)     == [called |-> TakenOf(id), over |-> TakenOf(id)]

Running(n, id) ==
  /\ Short(n, id)
  /\ Handled(id) => n = TakenOf(id) - 1
  /\ Quiet(id) /\ ~Handled(id) => n = TakenOf(id)

\* What findings are drawn from is read after the close, when an event may
\* still be on its way into the counts; id is the syscall that is looked at.
RunningDrawn(drawn, id) ==
  /\ Short(drawn.running, id)
  /\ Quiet(id) => drawn.running = TakenOf(id)

Result(r, id) == r = ZeroStats \/ (Short(r.called, id) /\ Cover(r.over, id))

ResultDrawn(drawn, id, isNamed) ==
  /\ Result(drawn.result, id)
  /\ Quiet(id) => drawn.result = Full(id) \/ (~isNamed /\ drawn.result = ZeroStats)

\* The event in hand is not counted yet, and nobody counts it but run().
HandNotCounted ==
  Uncounted =>
    /\ stats[hand].called = TakenOf(hand) - 1
    /\ mainPc = "statsPut" => lastRecord.called = TakenOf(hand) - 1
    /\ shutPc = "sumPut" /\ syscallID = hand => record.called = TakenOf(hand) - 1

\* A count of one less may be written over the right one, only for that event.
CountsClose ==
  \A id \in Ids :
    /\ Short(stats[id].called, id)
    /\ shutPc = "sumPut" /\ syscallID = id => Short(record.called, id)
    /\ id \in DOMAIN perf => \A n \in perf[id].called : Short(n, id)

CountsRight ==
  \A id \in Ids : Quiet(id) /\ ~(Uncounted /\ id = hand) =>
    /\ stats[id].called = TakenOf(id)
    /\ shutPc = "sumPut" /\ syscallID = id => record.called = TakenOf(id)
    /\ id \in DOMAIN perf => \A n \in perf[id].called : n = TakenOf(id)

\* The same for the calls that findings are drawn from.
RunningRight ==
  /\ mainPc = "infoPut" => info.running = TakenOf(hand) - 1
  /\ \A id \in Ids :
       /\ Running(overall[id].running, id)
       /\ shutPc \in {"asgResult", "asgPut"} /\ syscallID = id =>
            Running(shutInfo.running, id)
       /\ id \in DOMAIN findings =>
            /\ RunningDrawn(findings[id].first, Home(id))
            /\ RunningDrawn(findings[id].last, Home(id))

\* And for the calls that percentiles cover.
OverRight ==
  \A id \in Ids :
    /\ Cover(stats[id].over, id)
    /\ shutPc \in BeforeClose => stats[id].over = 0
    /\ mainPc = "statsPut" /\ id = hand =>
         /\ Cover(lastRecord.over, id)
         /\ shutPc \in BeforeClose => lastRecord.over = 0
    /\ id \in DOMAIN perf => \A n \in perf[id].over : Cover(n, id)
    /\ Quiet(id) =>
         /\ id = syscallID /\ shutPc \in {"asgInfo", "asgResult", "asgPut"} \cup Printing =>
              stats[id].over = TakenOf(id)
         /\ id \in DOMAIN perf => \A n \in perf[id].over : n = TakenOf(id)

\* And for the results that findings are drawn from.
ResultRight ==
  \A id \in Ids :
    /\ Result(overall[id].result, id)
    /\ shutPc \in BeforeClose => overall[id].result = ZeroStats
    /\ mainPc = "infoPut" /\ id = hand =>
         /\ Result(info.result, id)
         /\ shutPc \in BeforeClose => info.result = ZeroStats
    /\ id = syscallID /\ shutPc \in {"asgResult", "asgPut"} =>
         Result(shutInfo.result, id)
    /\ id \in DOMAIN findings =>
         /\ ResultDrawn(findings[id].first, Home(id), id \in Named)
         /\ ResultDrawn(findings[id].last, Home(id), id \in Named)
    /\ Quiet(id) =>
         /\ overall[id].result = ZeroStats \/ overall[id].result = Full(id)
         /\ id = syscallID /\ shutPc = "asgPut" => shutInfo.result = Full(id)
         /\ id = syscallID /\ shutPc \in Printing \cup {"generate", "rules"} =>
              overall[id].result = Full(id)

\* A line has its counts from its first number on, its percentiles from the fifth.
LinesMade ==
  \A id \in DOMAIN perf :
    /\ perf[id].called # {}
    /\ perf[id].over # {} \/
         (id = syscallID /\ shutPc \in {"failed", "rateFailed", "rateCalled", "p50"})

\* There is no event in hand after a quiet close, and no report before any.
QuietMain ==
  /\ shutPc \notin BeforeClose /\ ~busyAtClose =>
       /\ mainPc \notin Handling \cup {"crashed"}
       /\ "running.json" \in written => json = taken
  /\ shutPc \in BeforeClose =>
       DOMAIN perf = {} /\ DOMAIN findings = {} /\ mainPc # "crashed" /\ written = {}

CountInv ==
  /\ HandNotCounted
  /\ CountsClose
  /\ CountsRight
  /\ RunningRight
  /\ OverRight
  /\ ResultRight
  /\ LinesMade
  /\ QuietMain

(***************************************************************************)
(* The order of the reports, and which syscalls the range loop visits: all *)
(* that were seen before it began, which are those of all events but the   *)
(* one in hand.                                                            *)
(***************************************************************************)

InBody    == Summarizing \ {"range"}
Reporting == {"openPerf", "rangeStart", "writeFinding"} \cup Summarizing

HandIsLast == mainPc \in Handling => taken # <<>> /\ hand = taken[Len(taken)]

SeenTaken ==
  /\ \A id \in seen : TakenOf(id) > 0
  /\ \A id \in Ids : TakenOf(id) > 0 =>
       id \in seen \/ (mainPc \in {"seen", "crashed"} /\ id = hand)

RangeVisits ==
  /\ rangeKeys \subseteq seen
  /\ shutPc \in Summarizing \cup {"writeFinding"} =>
       \A id \in Ids : TakenOf(id) > 0 /\ Quiet(id) => id \in rangeKeys
  /\ shutPc = "writeFinding" => rangeKeys \subseteq DOMAIN findings

LinesBeforeFindings ==
  /\ shutPc \in InBody => syscallID \in seen
  /\ shutPc \in InBody \ {"rules"} => syscallID \notin DOMAIN findings
  /\ shutPc = "rules" => syscallID \in DOMAIN findings
  /\ DOMAIN perf = DOMAIN findings \cup
       (IF shutPc \in (Printing \ {"called"}) \cup {"generate"} THEN {syscallID} ELSE {})

FilesInOrder ==
  /\ shutPc \in Reporting => "running.json" \in written
  /\ "running.json" \in written => shutPc \in Reporting \cup {"done"}
  /\ "finding.json" \in written => shutPc = "done"

WindowInv ==
  /\ HandIsLast
  /\ SeenTaken
  /\ RangeVisits
  /\ LinesBeforeFindings
  /\ FilesInOrder
-----------------------------------------------------------------------------
\* The next operations of run() and of the goroutine, as one set each.
LEMMA Labels ==
  /\ MainLabels = {"call", "inRead", "seen", "statsGet", "statsPut", "log",
                   "datas", "infoGet", "infoPut", "close", "cancel", "leave",
                   "exited", "crashed"}
  /\ ShutLabels = {"wait", "close", "closeRing", "openJSON", "openFinding",
                   "writeJSON", "openPerf", "rangeStart", "range", "sumGet",
                   "sumPut", "asgInfo", "asgResult", "asgPut", "called",
                   "failed", "rateFailed", "rateCalled", "p50", "p99",
                   "generate", "rules", "writeFinding", "done"}
BY DEF MainLabels, ShutLabels, Handling, BeforeClose, Opening, Summarizing, Printing

\* Membership in Handling is a Boolean.
LEMMA HandlingOrNot == (mainPc \in Handling) \in BOOLEAN
OBVIOUS

\* The rules look at the record of one of the system calls.
LEMMA HomeIsId == \A id \in Ids : Home(id) \in Ids
BY CollectorAssumption DEF CollectorAssumption, Home

\* A slice of events, also with a broken last element, is one of running.json's.
LEMMA WithBroken ==
  ASSUME NEW s \in Seq(Ids)
  PROVE  s \in Texts /\ Append(s, Broken) \in Texts
<1>1. Len(s) \in Nat /\ s \in [1..Len(s) -> Ids \cup {Broken}]
  OBVIOUS
<1>2. s \in Seq(Ids \cup {Broken})
  BY <1>1
<1>3. QED
  BY <1>2 DEF Texts

\* What WriteLog appends is the entry of the event in hand.
LEMMA LogWritten ==
  ASSUME NEW text \in Texts, NEW s \in Seq(Ids), NEW x \in Ids, Logged(text, s),
         NEW new \in {Append(text, x)} \cup (IF MayFail THEN {Append(text, Broken)} ELSE {})
  PROVE  new \in Texts /\ Logged(new, Append(s, x))
<1>1. PICK e \in {x, Broken} : new = Append(text, e) /\ (~MayFail => e = x)
  OBVIOUS
<1>2. text \in Seq(Ids \cup {Broken}) /\ e \in Ids \cup {Broken}
  BY <1>1 DEF Texts
<1>3. Len(text) = Len(s) /\ \A i \in 1..Len(text) : text[i] \in {s[i], Broken}
  BY DEF Logged, EntersAll
<1>4. EntersAll(new, Append(s, x))
  BY <1>1, <1>2, <1>3 DEF EntersAll
<1>5. ~MayFail => new = Append(s, x)
  BY <1>1 DEF Logged
<1>6. QED
  BY <1>1, <1>2, <1>4, <1>5 DEF Texts, Logged

\* IInv holds initially: nothing was taken from the ring.
LEMMA InitIInv == Init => IInv
<1> SUFFICES ASSUME Init PROVE IInv
  OBVIOUS
<1> USE CollectorAssumption, Labels DEF Init
<1>1. TypeOK
  <2>1. hand \in Ids
    BY DEF CollectorAssumption
  <2>2. ZeroStats \in Stats /\ ZeroInfo \in Info
    BY DEF Stats, Info, ZeroStats, ZeroInfo
  <2>3. perf \in [DOMAIN perf -> Line] /\ DOMAIN perf = {}
    OBVIOUS
  <2>4. findings \in [DOMAIN findings -> Drawn] /\ DOMAIN findings = {}
    OBVIOUS
  <2>5. /\ stats \in [Ids -> Stats] /\ lastRecord \in Stats /\ record \in Stats
        /\ overall \in [Ids -> Info] /\ info \in Info /\ shutInfo \in Info
    BY <2>2
  <2>6. /\ log \in Texts /\ datas \in Seq(Ids) /\ taken \in Seq(Ids)
        /\ json \in Texts
    BY DEF Texts
  <2>7. /\ mainPc \in MainLabels /\ shutPc \in ShutLabels /\ syscallID \in Ids
        /\ seen \subseteq Ids /\ rangeKeys \subseteq Ids
    BY <2>1
  <2>8. /\ stopRequested \in BOOLEAN /\ pollerClosed \in BOOLEAN
        /\ ringClosed \in BOOLEAN /\ busyAtClose \in BOOLEAN
    OBVIOUS
  <2>9. /\ files \subseteq {"running.json", "finding.json", "performance.log"}
        /\ written \subseteq {"running.json", "finding.json"}
    OBVIOUS
  <2>10. DOMAIN perf \subseteq Ids /\ DOMAIN findings \subseteq Ids
    BY <2>3, <2>4
  <2>11. QED
    BY <2>1, <2>3, <2>4, <2>5, <2>6, <2>7, <2>8, <2>9, <2>10, Zenon DEF TypeOK
<1>2. BooksFollowHandler /\ ReaderClosed /\ JsonAfterClose /\ JsonIsTakenButOne
  BY DEF BooksFollowHandler, ReaderClosed, JsonAfterClose, JsonIsTakenButOne,
         BeforeClose, Logged, EntersAll
<1>3. QED
  BY <1>1, <1>2 DEF IInv
-----------------------------------------------------------------------------
\* rd.Read: run() enters it and returns with an event or with an error.
LEMMA ReadStep ==
  ASSUME IInv,
         \/ EnterRead
         \/ \E id \in Ids : ReadSelected(id) \/ ReadDropped(id)
         \/ ReadClosed
         \/ ReadFails
  PROVE  IInv'
<1> USE CollectorAssumption, Labels DEF CollectorAssumption, IInv, Run, NothingHandled,
         mainVars, shutVars, localVars, ringVars, bookVars, fileVars, reportVars
<1>1. CASE EnterRead
  <2> USE <1>1 DEF EnterRead
  <2>1. TypeOK'
    BY DEF TypeOK, Stats, Info
  <2>2. BooksFollowHandler'
    BY DEF TypeOK, BooksFollowHandler, Handling
  <2>3. ReaderClosed'
    BY DEF TypeOK, ReaderClosed, BeforeClose
  <2>4. JsonAfterClose' /\ JsonIsTakenButOne'
    BY DEF TypeOK, BooksFollowHandler, ReaderClosed, JsonAfterClose,
           JsonIsTakenButOne, BeforeClose, Handling
  <2>5. QED
    BY <2>1, <2>2, <2>3, <2>4
<1>2. ASSUME NEW id \in Ids, ReadSelected(id) PROVE IInv'
  <2> USE <1>2 DEF ReadSelected
  <2>1. TypeOK'
    <3>1. taken' \in Seq(Ids) /\ hand' \in Ids
      BY DEF TypeOK
    <3>2. QED
      BY <3>1 DEF TypeOK
  <2>2. BooksFollowHandler'
    BY DEF TypeOK, BooksFollowHandler, Handling
  <2>3. ReaderClosed'
    BY DEF TypeOK, ReaderClosed, BeforeClose
  <2>4. JsonAfterClose' /\ JsonIsTakenButOne'
    BY DEF TypeOK, BooksFollowHandler, ReaderClosed, JsonAfterClose,
           JsonIsTakenButOne, BeforeClose, Handling
  <2>5. QED
    BY <2>1, <2>2, <2>3, <2>4
<1>3. ASSUME NEW id \in Ids, ReadDropped(id) PROVE IInv'
  <2> USE <1>3 DEF ReadDropped
  <2>1. TypeOK'
    BY DEF TypeOK, Stats, Info
  <2>2. BooksFollowHandler'
    BY DEF TypeOK, BooksFollowHandler, Handling
  <2>3. ReaderClosed'
    BY DEF TypeOK, ReaderClosed, BeforeClose
  <2>4. JsonAfterClose' /\ JsonIsTakenButOne'
    BY DEF TypeOK, BooksFollowHandler, ReaderClosed, JsonAfterClose,
           JsonIsTakenButOne, BeforeClose, Handling
  <2>5. QED
    BY <2>1, <2>2, <2>3, <2>4
<1>4. CASE ReadClosed
  <2> USE <1>4 DEF ReadClosed
  <2>1. TypeOK'
    BY DEF TypeOK, Stats, Info
  <2>2. BooksFollowHandler'
    BY DEF TypeOK, BooksFollowHandler, Handling
  <2>3. ReaderClosed'
    BY DEF TypeOK, ReaderClosed, BeforeClose
  <2>4. JsonAfterClose' /\ JsonIsTakenButOne'
    BY DEF TypeOK, BooksFollowHandler, ReaderClosed, JsonAfterClose,
           JsonIsTakenButOne, BeforeClose, Handling
  <2>5. QED
    BY <2>1, <2>2, <2>3, <2>4
<1>5. CASE ReadFails
  <2> USE <1>5 DEF ReadFails
  <2>1. TypeOK'
    BY DEF TypeOK, Stats, Info
  <2>2. BooksFollowHandler'
    BY DEF TypeOK, BooksFollowHandler, Handling
  <2>3. ReaderClosed'
    BY DEF TypeOK, ReaderClosed, BeforeClose
  <2>4. JsonAfterClose' /\ JsonIsTakenButOne'
    BY DEF TypeOK, BooksFollowHandler, ReaderClosed, JsonAfterClose,
           JsonIsTakenButOne, BeforeClose, Handling
  <2>5. QED
    BY <2>1, <2>2, <2>3, <2>4
<1>6. QED
  BY <1>1, <1>2, <1>3, <1>4, <1>5
-----------------------------------------------------------------------------
\* The handling of one event.
LEMMA HandleStep ==
  ASSUME IInv,
         Handle
  PROVE  IInv'
<1> USE CollectorAssumption, Labels DEF CollectorAssumption, IInv, Handle, Run,
         mainVars, shutVars, localVars, ringVars, bookVars, fileVars, reportVars
<1>1. CASE MarkSeen
  <2> USE <1>1 DEF MarkSeen
  <2>1. TypeOK'
    BY DEF TypeOK, Stats, Info
  <2>2. BooksFollowHandler'
    BY DEF TypeOK, BooksFollowHandler, Handling
  <2>3. ReaderClosed'
    BY DEF TypeOK, ReaderClosed, BeforeClose
  <2>4. JsonAfterClose' /\ JsonIsTakenButOne'
    BY DEF TypeOK, BooksFollowHandler, ReaderClosed, JsonAfterClose,
           JsonIsTakenButOne, BeforeClose, Handling
  <2>5. QED
    BY <2>1, <2>2, <2>3, <2>4
<1>2. CASE StatsGet
  <2> USE <1>2 DEF StatsGet
  <2>1. TypeOK'
    BY DEF TypeOK, Stats, Info
  <2>2. BooksFollowHandler'
    BY DEF TypeOK, BooksFollowHandler, Handling
  <2>3. ReaderClosed'
    BY DEF TypeOK, ReaderClosed, BeforeClose
  <2>4. JsonAfterClose' /\ JsonIsTakenButOne'
    BY DEF TypeOK, BooksFollowHandler, ReaderClosed, JsonAfterClose,
           JsonIsTakenButOne, BeforeClose, Handling
  <2>5. QED
    BY <2>1, <2>2, <2>3, <2>4
<1>3. CASE StatsPut
  <2> USE <1>3 DEF StatsPut, Counted
  <2>1. TypeOK'
    <3>1. Counted(lastRecord) \in Stats
      BY DEF TypeOK, Stats
    <3>2. stats' \in [Ids -> Stats]
      BY <3>1 DEF TypeOK
    <3>3. QED
      BY <3>1, <3>2 DEF TypeOK
  <2>2. BooksFollowHandler'
    BY DEF TypeOK, BooksFollowHandler, Handling
  <2>3. ReaderClosed'
    BY DEF TypeOK, ReaderClosed, BeforeClose
  <2>4. JsonAfterClose' /\ JsonIsTakenButOne'
    BY DEF TypeOK, BooksFollowHandler, ReaderClosed, JsonAfterClose,
           JsonIsTakenButOne, BeforeClose, Handling
  <2>5. QED
    BY <2>1, <2>2, <2>3, <2>4
<1>4. CASE WriteLog
  <2> USE <1>4 DEF WriteLog
  <2>1. TypeOK'
    <3>1. log' \in Texts
      BY LogWritten DEF TypeOK, BooksFollowHandler
    <3>2. QED
      BY <3>1 DEF TypeOK
  <2>2. BooksFollowHandler'
    <3>1. Logged(log', Append(datas, hand)) /\ taken = Append(datas, hand)
      BY LogWritten DEF TypeOK, BooksFollowHandler
    <3>2. QED
      BY <3>1 DEF BooksFollowHandler
  <2>3. ReaderClosed'
    BY DEF TypeOK, ReaderClosed, BeforeClose
  <2>4. JsonAfterClose' /\ JsonIsTakenButOne'
    BY DEF TypeOK, BooksFollowHandler, ReaderClosed, JsonAfterClose,
           JsonIsTakenButOne, BeforeClose, Handling
  <2>5. QED
    BY <2>1, <2>2, <2>3, <2>4
<1>5. CASE AppendDatas
  <2> USE <1>5 DEF AppendDatas, Recorded
  <2>1. TypeOK'
    <3>1. datas' \in Seq(Ids)
      BY DEF TypeOK
    <3>2. QED
      BY <3>1 DEF TypeOK
  <2>2. BooksFollowHandler'
    BY DEF TypeOK, BooksFollowHandler, Handling
  <2>3. ReaderClosed'
    BY DEF TypeOK, ReaderClosed, BeforeClose
  <2>4. JsonAfterClose' /\ JsonIsTakenButOne'
    BY DEF TypeOK, BooksFollowHandler, ReaderClosed, JsonAfterClose,
           JsonIsTakenButOne, BeforeClose, Handling
  <2>5. QED
    BY <2>1, <2>2, <2>3, <2>4
<1>6. CASE InfoGet
  <2> USE <1>6 DEF InfoGet
  <2>1. TypeOK'
    BY DEF TypeOK, Stats, Info
  <2>2. BooksFollowHandler'
    BY DEF TypeOK, BooksFollowHandler, Handling
  <2>3. ReaderClosed'
    BY DEF TypeOK, ReaderClosed, BeforeClose
  <2>4. JsonAfterClose' /\ JsonIsTakenButOne'
    BY DEF TypeOK, BooksFollowHandler, ReaderClosed, JsonAfterClose,
           JsonIsTakenButOne, BeforeClose, Handling
  <2>5. QED
    BY <2>1, <2>2, <2>3, <2>4
<1>7. CASE InfoPut
  <2> USE <1>7 DEF InfoPut
  <2>1. TypeOK'
    <3>1. [running |-> info.running + 1, result |-> info.result] \in Info
      BY DEF TypeOK, Info
    <3>2. overall' \in [Ids -> Info]
      BY <3>1 DEF TypeOK
    <3>3. QED
      BY <3>1, <3>2 DEF TypeOK
  <2>2. BooksFollowHandler'
    BY DEF TypeOK, BooksFollowHandler, Handling
  <2>3. ReaderClosed'
    BY DEF TypeOK, ReaderClosed, BeforeClose
  <2>4. JsonAfterClose' /\ JsonIsTakenButOne'
    BY DEF TypeOK, BooksFollowHandler, ReaderClosed, JsonAfterClose,
           JsonIsTakenButOne, BeforeClose, Handling
  <2>5. QED
    BY <2>1, <2>2, <2>3, <2>4
<1>8. QED
  BY <1>1, <1>2, <1>3, <1>4, <1>5, <1>6, <1>7
-----------------------------------------------------------------------------
\* The defers of run().
LEMMA ReturnStep ==
  ASSUME IInv,
         Return
  PROVE  IInv'
<1> USE CollectorAssumption, Labels DEF CollectorAssumption, IInv, Return, Run,
         mainVars, shutVars, localVars, ringVars, bookVars, fileVars, reportVars
<1>1. CASE MainClose
  <2> USE <1>1 DEF MainClose
  <2>1. TypeOK'
    BY DEF TypeOK, Stats, Info
  <2>2. BooksFollowHandler'
    BY DEF TypeOK, BooksFollowHandler, Handling
  <2>3. ReaderClosed'
    BY DEF TypeOK, ReaderClosed, BeforeClose
  <2>4. JsonAfterClose' /\ JsonIsTakenButOne'
    BY DEF TypeOK, BooksFollowHandler, ReaderClosed, JsonAfterClose,
           JsonIsTakenButOne, BeforeClose, Handling
  <2>5. QED
    BY <2>1, <2>2, <2>3, <2>4
<1>2. CASE Cancel
  <2> USE <1>2 DEF Cancel
  <2>1. TypeOK'
    BY DEF TypeOK, Stats, Info
  <2>2. BooksFollowHandler'
    BY DEF TypeOK, BooksFollowHandler, Handling
  <2>3. ReaderClosed'
    BY DEF TypeOK, ReaderClosed, BeforeClose
  <2>4. JsonAfterClose' /\ JsonIsTakenButOne'
    BY DEF TypeOK, BooksFollowHandler, ReaderClosed, JsonAfterClose,
           JsonIsTakenButOne, BeforeClose, Handling
  <2>5. QED
    BY <2>1, <2>2, <2>3, <2>4
<1>3. CASE Leave
  <2> USE <1>3 DEF Leave
  <2>1. TypeOK'
    BY DEF TypeOK, Stats, Info
  <2>2. BooksFollowHandler'
    BY DEF TypeOK, BooksFollowHandler, Handling
  <2>3. ReaderClosed'
    BY DEF TypeOK, ReaderClosed, BeforeClose
  <2>4. JsonAfterClose' /\ JsonIsTakenButOne'
    BY DEF TypeOK, BooksFollowHandler, ReaderClosed, JsonAfterClose,
           JsonIsTakenButOne, BeforeClose, Handling
  <2>5. QED
    BY <2>1, <2>2, <2>3, <2>4
<1>4. QED
  BY <1>1, <1>2, <1>3
-----------------------------------------------------------------------------
\* The goroutine closes the reader.
LEMMA CloseStep ==
  ASSUME IInv,
         CloseReader
  PROVE  IInv'
<1> USE CollectorAssumption, Labels DEF CollectorAssumption, IInv, CloseReader, Shut, Alive,
         mainVars, shutVars, localVars, ringVars, bookVars, fileVars, reportVars
<1>1. CASE Wake
  <2> USE <1>1 DEF Wake
  <2>1. TypeOK'
    BY DEF TypeOK, Stats, Info
  <2>2. BooksFollowHandler'
    BY DEF TypeOK, BooksFollowHandler, Handling
  <2>3. ReaderClosed'
    BY DEF TypeOK, ReaderClosed, BeforeClose
  <2>4. JsonAfterClose' /\ JsonIsTakenButOne'
    BY DEF TypeOK, BooksFollowHandler, ReaderClosed, JsonAfterClose,
           JsonIsTakenButOne, BeforeClose, Handling
  <2>5. QED
    BY <2>1, <2>2, <2>3, <2>4
<1>2. CASE ClosePoller
  <2> USE <1>2 DEF ClosePoller, ClosedPoller
  <2>1. TypeOK'
    <3>1. busyAtClose \in BOOLEAN
      BY DEF TypeOK
    <3>2. busyAtClose' = busyAtClose \/ busyAtClose' = (mainPc \in Handling)
      BY Zenon
    <3>3. busyAtClose' \in BOOLEAN
      BY <3>1, <3>2, HandlingOrNot, Zenon
    <3>4. QED
      BY <3>1, <3>2, <3>3 DEF TypeOK
  <2>2. BooksFollowHandler'
    BY DEF TypeOK, BooksFollowHandler, Handling
  <2>3. ReaderClosed'
    BY DEF TypeOK, ReaderClosed, BeforeClose
  <2>4. JsonAfterClose' /\ JsonIsTakenButOne'
    BY DEF TypeOK, BooksFollowHandler, ReaderClosed, JsonAfterClose,
           JsonIsTakenButOne, BeforeClose, Handling
  <2>5. QED
    BY <2>1, <2>2, <2>3, <2>4
<1>3. CASE CloseRing
  <2> USE <1>3 DEF CloseRing, MutexFree
  <2>1. TypeOK'
    <3>1. busyAtClose \in BOOLEAN
      BY DEF TypeOK
    <3>2. busyAtClose' = busyAtClose \/ busyAtClose' = (mainPc \in Handling)
      BY Zenon
    <3>3. busyAtClose' \in BOOLEAN
      BY <3>1, <3>2, HandlingOrNot, Zenon
    <3>4. QED
      BY <3>1, <3>2, <3>3 DEF TypeOK
  <2>2. BooksFollowHandler'
    BY DEF TypeOK, BooksFollowHandler, Handling
  <2>3. ReaderClosed'
    BY DEF TypeOK, ReaderClosed, BeforeClose
  <2>4. JsonAfterClose' /\ JsonIsTakenButOne'
    BY DEF TypeOK, BooksFollowHandler, ReaderClosed, JsonAfterClose,
           JsonIsTakenButOne, BeforeClose, Handling
  <2>5. QED
    BY <2>1, <2>2, <2>3, <2>4
<1>4. QED
  BY <1>1, <1>2, <1>3
-----------------------------------------------------------------------------
\* The goroutine opens the report files and writes running.json.
LEMMA OpenStep ==
  ASSUME IInv,
         OpenReports
  PROVE  IInv'
<1> USE CollectorAssumption, Labels DEF CollectorAssumption, IInv, OpenReports, Shut, Alive,
         mainVars, shutVars, localVars, ringVars, bookVars, fileVars, reportVars
<1>1. CASE OpenJSON \/ OpenFinding \/ OpenPerf
  <2> USE <1>1 DEF OpenJSON, OpenFinding, OpenPerf, OpenFile
  <2>1. TypeOK'
    BY DEF TypeOK, Stats, Info
  <2>2. BooksFollowHandler'
    BY DEF TypeOK, BooksFollowHandler, Handling
  <2>3. ReaderClosed'
    BY DEF TypeOK, ReaderClosed, BeforeClose
  <2>4. JsonAfterClose' /\ JsonIsTakenButOne'
    BY DEF TypeOK, BooksFollowHandler, ReaderClosed, JsonAfterClose,
           JsonIsTakenButOne, BeforeClose, Handling
  <2>5. QED
    BY <2>1, <2>2, <2>3, <2>4
<1>2. CASE ShutFails
  <2> USE <1>2 DEF ShutFails, Opening
  <2>1. TypeOK'
    BY DEF TypeOK, Stats, Info
  <2>2. BooksFollowHandler'
    BY DEF TypeOK, BooksFollowHandler, Handling
  <2>3. ReaderClosed'
    BY DEF TypeOK, ReaderClosed, BeforeClose
  <2>4. JsonAfterClose' /\ JsonIsTakenButOne'
    BY DEF TypeOK, BooksFollowHandler, ReaderClosed, JsonAfterClose,
           JsonIsTakenButOne, BeforeClose, Handling
  <2>5. QED
    BY <2>1, <2>2, <2>3, <2>4
<1>3. CASE OpenPerfFails
  <2> USE <1>3 DEF OpenPerfFails
  <2>1. TypeOK'
    BY DEF TypeOK, Stats, Info
  <2>2. BooksFollowHandler'
    BY DEF TypeOK, BooksFollowHandler, Handling
  <2>3. ReaderClosed'
    BY DEF TypeOK, ReaderClosed, BeforeClose
  <2>4. JsonAfterClose' /\ JsonIsTakenButOne'
    BY DEF TypeOK, BooksFollowHandler, ReaderClosed, JsonAfterClose,
           JsonIsTakenButOne, BeforeClose, Handling
  <2>5. QED
    BY <2>1, <2>2, <2>3, <2>4
<1>4. CASE WriteJSON
  <2> USE <1>4 DEF WriteJSON, Snapshots
  <2>1. TypeOK'
    <3>1. json' \in Texts
      BY WithBroken DEF TypeOK
    <3>2. written' \subseteq {"running.json", "finding.json"}
      BY DEF TypeOK
    <3>3. QED
      BY <3>1, <3>2 DEF TypeOK
  <2>2. BooksFollowHandler'
    BY DEF TypeOK, BooksFollowHandler, Handling
  <2>3. ReaderClosed'
    BY DEF TypeOK, ReaderClosed, BeforeClose
  <2>4. JsonAfterClose' /\ JsonIsTakenButOne'
    <3>1. \/ json' = datas
          \/ json' = Append(datas, Broken) /\ taken = Append(datas, hand)
      BY DEF BooksFollowHandler
    <3>2. CASE taken = Append(datas, hand)
      <4>1. /\ Len(taken) = Len(datas) + 1
            /\ \A i \in 1..Len(datas) : taken[i] = datas[i]
        BY <3>2 DEF TypeOK
      <4>2. JsonIsTakenButOne'
        BY <3>1, <4>1 DEF TypeOK, JsonIsTakenButOne
      <4>3. QED
        BY <4>2 DEF JsonAfterClose, BeforeClose
    <3>3. CASE taken = datas
      <4>1. taken # Append(datas, hand)
        <5>1. Len(Append(datas, hand)) = Len(datas) + 1 /\ Len(datas) \in Nat
          BY DEF TypeOK
        <5>2. QED
          BY <3>3, <5>1
      <4>2. json' = taken
        BY <3>1, <3>3, <4>1
      <4>3. QED
        BY <4>2 DEF TypeOK, JsonIsTakenButOne, JsonAfterClose, BeforeClose
    <3>4. QED
      BY <3>2, <3>3 DEF BooksFollowHandler
  <2>5. QED
    BY <2>1, <2>2, <2>3, <2>4
<1>5. QED
  BY <1>1, <1>2, <1>3, <1>4
-----------------------------------------------------------------------------
\* A number is printed: what it leaves alone, and the types it keeps.
LEMMA PrintKeeps ==
  ASSUME TypeOK,
         PrintFailed \/ PrintRateFailed \/ PrintRateCalled \/ PrintP50 \/ PrintP99
  PROVE  /\ shutPc \in Printing \ {"called"} /\ shutPc' \in Printing \cup {"generate"}
         /\ shutPc' \in ShutLabels /\ Alive
         /\ UNCHANGED <<localVars, stats, overall, findings, written>>
         /\ DOMAIN perf' = DOMAIN perf
         /\ perf' \in [DOMAIN perf' -> Line]
<1> USE DEF PrintFailed, PrintRateFailed, PrintRateCalled, PrintP50, PrintP99
<1>1. /\ shutPc \in Printing \ {"called"} /\ shutPc' \in Printing \cup {"generate"}
      /\ shutPc' \in ShutLabels /\ Alive
  BY Labels DEF PrintCount, PrintDelay, Shut, Printing
<1>2. /\ UNCHANGED <<localVars, stats, overall, findings, written>>
      /\ DOMAIN perf' = DOMAIN perf
  BY DEF PrintCount, PrintDelay, TypeOK
<1>3. \A id \in DOMAIN perf : perf'[id] \in Line
  <2>1. syscallID \in Ids /\ stats[syscallID].called \in Nat /\ stats[syscallID].over \in Nat
    BY DEF TypeOK, Stats
  <2>2. SUFFICES ASSUME NEW id \in DOMAIN perf PROVE perf'[id] \in Line
    OBVIOUS
  <2>3. perf[id] \in Line
    BY DEF TypeOK
  <2>4. CASE id # syscallID
    BY <2>3, <2>4 DEF PrintCount, PrintDelay, TypeOK
  <2>5. CASE id = syscallID
    <3>1. \/ perf'[id] = [perf[id] EXCEPT !.called = @ \cup {stats[syscallID].called}]
          \/ perf'[id] = [perf[id] EXCEPT !.over = @ \cup {stats[syscallID].over}]
      BY <2>5 DEF PrintCount, PrintDelay, TypeOK
    <3>2. QED
      BY <2>1, <2>3, <3>1 DEF Line
  <2>6. QED
    BY <2>4, <2>5
<1>4. perf' = [id \in DOMAIN perf' |-> perf'[id]]
  BY DEF PrintCount, PrintDelay, TypeOK
<1>5. QED
  BY <1>1, <1>2, <1>3, <1>4

\* The rules read: what that leaves alone, and the types it keeps.
LEMMA RulesKeep ==
  ASSUME TypeOK, Generate \/ ApplyRules
  PROVE  /\ shutPc \in {"generate", "rules"} /\ shutPc' \in {"rules", "range"}
         /\ shutPc' \in ShutLabels /\ Alive
         /\ UNCHANGED <<localVars, stats, overall, perf, written>>
         /\ DOMAIN findings' \subseteq Ids
         /\ findings' \in [DOMAIN findings' -> Drawn]
<1>1. overall[Home(syscallID)] \in Info /\ syscallID \in Ids
  BY HomeIsId DEF TypeOK
<1>2. CASE Generate
  <2>1. [first |-> overall[Home(syscallID)], last |-> overall[Home(syscallID)]] \in Drawn
    BY <1>1 DEF Drawn
  <2>2. DOMAIN findings' \subseteq Ids /\ findings' \in [DOMAIN findings' -> Drawn]
    BY <1>1, <1>2, <2>1 DEF Generate, TypeOK
  <2>3. QED
    BY <1>2, <2>2, Labels DEF Generate, Shut
<1>3. CASE ApplyRules
  <2>1. DOMAIN findings' \subseteq Ids /\ findings' \in [DOMAIN findings' -> Drawn]
    BY <1>1, <1>3 DEF ApplyRules, TypeOK, Drawn
  <2>2. QED
    BY <1>3, <2>1, Labels DEF ApplyRules, Shut
<1>4. QED
  BY <1>2, <1>3

\* The goroutine's summary of each syscall.
LEMMA SummarizeStep ==
  ASSUME IInv,
         Summarize
  PROVE  IInv'
<1> USE CollectorAssumption, Labels DEF CollectorAssumption, IInv, Summarize, Shut, Alive,
         mainVars, shutVars, localVars, ringVars, bookVars, fileVars, reportVars
<1>1. CASE RangeStart
  <2> USE <1>1 DEF RangeStart
  <2>1. TypeOK'
    BY DEF TypeOK, Stats, Info
  <2>2. BooksFollowHandler'
    BY DEF TypeOK, BooksFollowHandler, Handling
  <2>3. ReaderClosed'
    BY DEF TypeOK, ReaderClosed, BeforeClose
  <2>4. JsonAfterClose' /\ JsonIsTakenButOne'
    BY DEF TypeOK, BooksFollowHandler, ReaderClosed, JsonAfterClose,
           JsonIsTakenButOne, BeforeClose, Handling
  <2>5. QED
    BY <2>1, <2>2, <2>3, <2>4
<1>2. CASE \E id \in Ids : RangeNext(id)
  <2> USE <1>2 DEF RangeNext
  <2>1. TypeOK'
    BY DEF TypeOK, Stats, Info
  <2>2. BooksFollowHandler'
    BY DEF TypeOK, BooksFollowHandler, Handling
  <2>3. ReaderClosed'
    BY DEF TypeOK, ReaderClosed, BeforeClose
  <2>4. JsonAfterClose' /\ JsonIsTakenButOne'
    BY DEF TypeOK, BooksFollowHandler, ReaderClosed, JsonAfterClose,
           JsonIsTakenButOne, BeforeClose, Handling
  <2>5. QED
    BY <2>1, <2>2, <2>3, <2>4
<1>3. CASE RangeEnd
  <2> USE <1>3 DEF RangeEnd
  <2>1. TypeOK'
    BY DEF TypeOK, Stats, Info
  <2>2. BooksFollowHandler'
    BY DEF TypeOK, BooksFollowHandler, Handling
  <2>3. ReaderClosed'
    BY DEF TypeOK, ReaderClosed, BeforeClose
  <2>4. JsonAfterClose' /\ JsonIsTakenButOne'
    BY DEF TypeOK, BooksFollowHandler, ReaderClosed, JsonAfterClose,
           JsonIsTakenButOne, BeforeClose, Handling
  <2>5. QED
    BY <2>1, <2>2, <2>3, <2>4
<1>4. CASE SummarizeGet
  <2> USE <1>4 DEF SummarizeGet
  <2>1. TypeOK'
    BY DEF TypeOK, Stats, Info
  <2>2. BooksFollowHandler'
    BY DEF TypeOK, BooksFollowHandler, Handling
  <2>3. ReaderClosed'
    BY DEF TypeOK, ReaderClosed, BeforeClose
  <2>4. JsonAfterClose' /\ JsonIsTakenButOne'
    BY DEF TypeOK, BooksFollowHandler, ReaderClosed, JsonAfterClose,
           JsonIsTakenButOne, BeforeClose, Handling
  <2>5. QED
    BY <2>1, <2>2, <2>3, <2>4
<1>5. CASE SummarizePut
  <2> USE <1>5 DEF SummarizePut, Summarized
  <2>1. TypeOK'
    <3>1. Summarized(record) \in Stats
      BY DEF TypeOK, Stats
    <3>2. stats' \in [Ids -> Stats]
      BY <3>1 DEF TypeOK
    <3>3. QED
      BY <3>1, <3>2 DEF TypeOK
  <2>2. BooksFollowHandler'
    BY DEF TypeOK, BooksFollowHandler, Handling
  <2>3. ReaderClosed'
    BY DEF TypeOK, ReaderClosed, BeforeClose
  <2>4. JsonAfterClose' /\ JsonIsTakenButOne'
    BY DEF TypeOK, BooksFollowHandler, ReaderClosed, JsonAfterClose,
           JsonIsTakenButOne, BeforeClose, Handling
  <2>5. QED
    BY <2>1, <2>2, <2>3, <2>4
<1>6. CASE AssignInfo
  <2> USE <1>6 DEF AssignInfo
  <2>1. TypeOK'
    BY DEF TypeOK, Stats, Info
  <2>2. BooksFollowHandler'
    BY DEF TypeOK, BooksFollowHandler, Handling
  <2>3. ReaderClosed'
    BY DEF TypeOK, ReaderClosed, BeforeClose
  <2>4. JsonAfterClose' /\ JsonIsTakenButOne'
    BY DEF TypeOK, BooksFollowHandler, ReaderClosed, JsonAfterClose,
           JsonIsTakenButOne, BeforeClose, Handling
  <2>5. QED
    BY <2>1, <2>2, <2>3, <2>4
<1>7. CASE AssignResult
  <2> USE <1>7 DEF AssignResult, ResultOf
  <2>1. TypeOK'
    BY DEF TypeOK, Stats, Info
  <2>2. BooksFollowHandler'
    BY DEF TypeOK, BooksFollowHandler, Handling
  <2>3. ReaderClosed'
    BY DEF TypeOK, ReaderClosed, BeforeClose
  <2>4. JsonAfterClose' /\ JsonIsTakenButOne'
    BY DEF TypeOK, BooksFollowHandler, ReaderClosed, JsonAfterClose,
           JsonIsTakenButOne, BeforeClose, Handling
  <2>5. QED
    BY <2>1, <2>2, <2>3, <2>4
<1>8. CASE AssignPut
  <2> USE <1>8 DEF AssignPut
  <2>1. TypeOK'
    BY DEF TypeOK, Stats, Info
  <2>2. BooksFollowHandler'
    BY DEF TypeOK, BooksFollowHandler, Handling
  <2>3. ReaderClosed'
    BY DEF TypeOK, ReaderClosed, BeforeClose
  <2>4. JsonAfterClose' /\ JsonIsTakenButOne'
    BY DEF TypeOK, BooksFollowHandler, ReaderClosed, JsonAfterClose,
           JsonIsTakenButOne, BeforeClose, Handling
  <2>5. QED
    BY <2>1, <2>2, <2>3, <2>4
<1>9. CASE PrintCalled
  <2> USE <1>9 DEF PrintCalled
  <2>1. TypeOK'
    <3>1. [called |-> {stats[syscallID].called}, over |-> {}] \in Line
      BY DEF TypeOK, Line, Stats
    <3>2. DOMAIN perf' \subseteq Ids /\ perf' \in [DOMAIN perf' -> Line]
      BY <3>1 DEF TypeOK
    <3>3. QED
      BY <3>2 DEF TypeOK
  <2>2. BooksFollowHandler'
    BY DEF TypeOK, BooksFollowHandler, Handling
  <2>3. ReaderClosed'
    BY DEF TypeOK, ReaderClosed, BeforeClose
  <2>4. JsonAfterClose' /\ JsonIsTakenButOne'
    BY DEF TypeOK, BooksFollowHandler, ReaderClosed, JsonAfterClose,
           JsonIsTakenButOne, BeforeClose, Handling
  <2>5. QED
    BY <2>1, <2>2, <2>3, <2>4
<1>10. CASE PrintFailed \/ PrintRateFailed \/ PrintRateCalled \/ PrintP50 \/ PrintP99
  <2> USE <1>10, PrintKeeps
  <2>1. TypeOK'
    BY DEF TypeOK
  <2>2. BooksFollowHandler'
    BY DEF TypeOK, BooksFollowHandler, Handling
  <2>3. ReaderClosed'
    BY DEF TypeOK, ReaderClosed, BeforeClose, Printing
  <2>4. JsonAfterClose' /\ JsonIsTakenButOne'
    BY DEF TypeOK, BooksFollowHandler, ReaderClosed, JsonAfterClose,
           JsonIsTakenButOne, BeforeClose, Handling, Printing
  <2>5. QED
    BY <2>1, <2>2, <2>3, <2>4
<1>11. CASE Generate \/ ApplyRules
  <2> USE <1>11, RulesKeep
  <2>1. TypeOK'
    BY DEF TypeOK
  <2>2. BooksFollowHandler'
    BY DEF TypeOK, BooksFollowHandler, Handling
  <2>3. ReaderClosed'
    BY DEF TypeOK, ReaderClosed, BeforeClose
  <2>4. JsonAfterClose' /\ JsonIsTakenButOne'
    BY DEF TypeOK, BooksFollowHandler, ReaderClosed, JsonAfterClose,
           JsonIsTakenButOne, BeforeClose, Handling
  <2>5. QED
    BY <2>1, <2>2, <2>3, <2>4
<1>12. CASE WriteFinding
  <2> USE <1>12 DEF WriteFinding
  <2>1. TypeOK'
    BY DEF TypeOK, Stats, Info
  <2>2. BooksFollowHandler'
    BY DEF TypeOK, BooksFollowHandler, Handling
  <2>3. ReaderClosed'
    BY DEF TypeOK, ReaderClosed, BeforeClose
  <2>4. JsonAfterClose' /\ JsonIsTakenButOne'
    BY DEF TypeOK, BooksFollowHandler, ReaderClosed, JsonAfterClose,
           JsonIsTakenButOne, BeforeClose, Handling
  <2>5. QED
    BY <2>1, <2>2, <2>3, <2>4
<1>13. QED
  BY <1>1, <1>2, <1>3, <1>4, <1>5, <1>6, <1>7, <1>8, <1>9, <1>10, <1>11, <1>12
-----------------------------------------------------------------------------
\* Every step preserves IInv.
LEMMA NextIInv == IInv /\ [Next]_vars => IInv'
<1> SUFFICES ASSUME IInv, [Next]_vars PROVE IInv'
  OBVIOUS
<1> USE DEF mainVars, shutVars, localVars, ringVars, bookVars, fileVars, reportVars
<1>1. CASE Stop
  <2>1. TypeOK'
    BY <1>1 DEF IInv, TypeOK, Stop
  <2>2. QED
    BY <1>1, <2>1 DEF IInv, Stop, BooksFollowHandler, ReaderClosed,
                      JsonAfterClose, JsonIsTakenButOne
<1>2. CASE Main
  BY <1>2, ReadStep, HandleStep, ReturnStep DEF Main
<1>3. CASE Shutdown
  BY <1>3, CloseStep, OpenStep, SummarizeStep DEF Shutdown
<1>4. CASE Fault
  <2> USE <1>4, Labels DEF IInv, Fault
  <2>1. mainPc \in Handling
    BY DEF TypeOK, MapConflict, MapsWritten, MapsRead, SliceConflict, Printing, Handling
  <2>2. TypeOK'
    BY DEF TypeOK
  <2>3. BooksFollowHandler' /\ JsonAfterClose' /\ JsonIsTakenButOne'
    BY DEF BooksFollowHandler, JsonAfterClose, JsonIsTakenButOne
  <2>4. ReaderClosed'
    BY <2>1 DEF ReaderClosed, Handling
  <2>5. QED
    BY <2>2, <2>3, <2>4
<1>5. CASE Gone \/ UNCHANGED vars
  <2>1. UNCHANGED vars
    BY <1>5 DEF Gone
  <2>2. TypeOK'
    BY <2>1 DEF IInv, TypeOK, vars
  <2>3. QED
    BY <2>1, <2>2 DEF IInv, BooksFollowHandler, ReaderClosed, JsonAfterClose,
                      JsonIsTakenButOne, vars
<1>6. QED
  BY <1>1, <1>2, <1>3, <1>4, <1>5 DEF Next
-----------------------------------------------------------------------------
\* The inductive invariant of the two goroutines.
THEOREM CollectorInvariant == Spec => []IInv
<1>1. QED
  BY InitIInv, NextIInv, PTL DEF Spec

\* Every variable keeps its type, whatever the goroutines overwrite.
THEOREM CollectorTypeCorrect == Spec => []TypeOK
<1>1. IInv => TypeOK
  BY DEF IInv
<1>2. QED
  BY <1>1, CollectorInvariant, PTL

\* run() does not return with an event that it has not written to running.log and
\* added to datas, whichever of its writes failed.
THEOREM CollectorReturn == Spec => []NothingInHandAtReturn
<1>1. IInv => NothingInHandAtReturn
  BY DEF IInv, BooksFollowHandler, NothingInHandAtReturn, Logged
<1>2. QED
  BY <1>1, CollectorInvariant, PTL

\* running.json has the events taken from the ring but for the last one.
THEOREM CollectorJson == Spec => []JsonIsTakenButOne
<1>1. IInv => JsonIsTakenButOne
  BY DEF IInv
<1>2. QED
  BY <1>1, CollectorInvariant, PTL
-----------------------------------------------------------------------------
\* An event more counts once for its own syscall.
LEMMA CountAppend ==
  ASSUME NEW s \in Seq(Ids), NEW x \in Ids, NEW id \in Ids
  PROVE  /\ CountOf(s, id) \in Nat
         /\ CountOf(Append(s, x), id) =
              IF x = id THEN CountOf(s, id) + 1 ELSE CountOf(s, id)
<1> DEFINE at == {i \in DOMAIN s : s[i] = id}
           more == {i \in DOMAIN Append(s, x) : Append(s, x)[i] = id}
           n == Len(s)
<1>1. n \in Nat /\ DOMAIN s = 1..n
  OBVIOUS
<1>2. IsFiniteSet(at) /\ Cardinality(at) \in Nat
  <2>1. IsFiniteSet(1..n)
    BY <1>1, FS_Interval
  <2>2. at \subseteq 1..n
    BY <1>1
  <2>3. QED
    BY <2>1, <2>2, FS_Subset, FS_CardinalityType
<1>3. /\ DOMAIN Append(s, x) = 1..(n + 1)
      /\ \A i \in 1..n : Append(s, x)[i] = s[i]
      /\ Append(s, x)[n + 1] = x
  BY <1>1
<1>4. CASE x = id
  <2>1. more = at \cup {n + 1}
    BY <1>1, <1>3, <1>4
  <2>2. n + 1 \notin at
    BY <1>1
  <2>3. QED
    BY <1>2, <1>4, <2>1, <2>2, FS_AddElement DEF CountOf
<1>5. CASE x # id
  <2>1. more = at
    BY <1>1, <1>3, <1>5
  <2>2. QED
    BY <1>2, <1>5, <2>1 DEF CountOf
<1>6. QED
  BY <1>4, <1>5

\* CountInv holds initially: nothing was taken, counted or reported.
LEMMA InitCount == Init => CountInv
<1> SUFFICES ASSUME Init PROVE CountInv
  OBVIOUS
<1>1. \A id \in Ids : TakenOf(id) = 0
  <2>1. \A id \in Ids : {i \in DOMAIN taken : taken[i] = id} = {}
    BY DEF Init
  <2>2. QED
    BY <2>1, FS_EmptySet DEF TakenOf, CountOf
<1>2. QED
  BY <1>1 DEF Init, CountInv, HandNotCounted, CountsClose, CountsRight, RunningRight,
         OverRight, ResultRight, LinesMade, QuietMain, Uncounted, Handled, Quiet, Short,
         Cover, Full, Running, Result, Handling, BeforeClose, ZeroStats, ZeroInfo
-----------------------------------------------------------------------------
\* rd.Read without an event to keep: run() enters it, or returns from it.
LEMMA ReadCount ==
  ASSUME IInv, CountInv, 
         EnterRead \/ ReadClosed \/ ReadFails \/ \E id \in Ids : ReadDropped(id)
  PROVE  CountInv'
<1> USE CollectorAssumption, Labels
    DEF CollectorAssumption, IInv, CountInv, Run, NothingHandled,
        mainVars, shutVars, localVars, ringVars,
        bookVars, fileVars, reportVars
<1>1. \A id \in Ids : CountOf(taken, id) \in Nat
  BY CountAppend DEF TypeOK
<1> USE <1>1
    DEF TakenOf, Handled, Quiet, Uncounted, Handling, BeforeClose, Short, Cover,
        Full, Running, Result, RunningDrawn, ResultDrawn, ZeroStats, Stats, Info,
        Printing
<1>2. CASE EnterRead \/ ReadClosed \/ ReadFails
  <2> USE <1>2 DEF EnterRead, ReadClosed, ReadFails
  <2>1. HandNotCounted'
    BY DEF HandNotCounted
  <2>2. CountsClose'
    BY DEF CountsClose
  <2>3. CountsRight'
    BY DEF CountsRight
  <2>4. RunningRight'
    BY DEF RunningRight
  <2>5. OverRight'
    BY DEF OverRight
  <2>6. ResultRight'
    BY DEF ResultRight
  <2>7. LinesMade' /\ QuietMain'
    BY DEF LinesMade, QuietMain
  <2>8. QED
    BY <2>1, <2>2, <2>3, <2>4, <2>5, <2>6, <2>7
<1>3. CASE \E id \in Ids : ReadDropped(id)
  <2> USE <1>3 DEF ReadDropped
  <2>1. HandNotCounted'
    BY DEF HandNotCounted
  <2>2. CountsClose'
    BY DEF CountsClose
  <2>3. CountsRight'
    BY DEF CountsRight
  <2>4. RunningRight'
    BY DEF RunningRight
  <2>5. OverRight'
    BY DEF OverRight
  <2>6. ResultRight'
    BY DEF ResultRight
  <2>7. LinesMade' /\ QuietMain'
    BY DEF LinesMade, QuietMain
  <2>8. QED
    BY <2>1, <2>2, <2>3, <2>4, <2>5, <2>6, <2>7
<1>4. QED
  BY <1>2, <1>3
-----------------------------------------------------------------------------
\* An event that is taken from the ring counts once more, and is in hand; the
\* goroutine is before Close then.
LEMMA SelectedCount ==
  ASSUME IInv, CountInv, NEW e \in Ids, ReadSelected(e)
  PROVE  CountInv'
<1> USE CollectorAssumption, Labels
    DEF IInv, CountInv, ReadSelected, Run, NothingHandled, shutVars, localVars,
        ringVars, bookVars, fileVars, reportVars
<1>1. \A id \in Ids :
        /\ CountOf(taken, id) \in Nat
        /\ CountOf(taken', id) =
             IF e = id THEN CountOf(taken, id) + 1 ELSE CountOf(taken, id)
  BY CountAppend DEF TypeOK
<1>2. shutPc \in BeforeClose /\ mainPc = "inRead" /\ mainPc' = "seen" /\ hand' = e
  BY DEF ReaderClosed
<1>3. \A id \in Ids : /\ stats[id].called = CountOf(taken, id)
                      /\ overall[id].running = CountOf(taken, id)
  BY <1>2 DEF TakenOf, CountsRight, RunningRight, Running, Handled, Quiet, Uncounted,
              Handling
<1>4. \A id \in Ids : stats[id].over = 0 /\ overall[id].result = ZeroStats
  BY <1>2 DEF OverRight, ResultRight
<1>5. DOMAIN perf' = {} /\ DOMAIN findings' = {}
  BY <1>2 DEF QuietMain
<1> USE <1>1, <1>2, <1>3, <1>4, <1>5 DEF TakenOf, Short, Cover
<1>6. HandNotCounted'
  BY DEF HandNotCounted, BeforeClose
<1>7. CountsClose'
  BY DEF CountsClose, BeforeClose
<1>8. CountsRight'
  BY DEF CountsRight, Quiet, Uncounted, BeforeClose
<1>9. RunningRight'
  BY DEF RunningRight, Running, Handled, Handling, BeforeClose
<1>10. OverRight'
  BY DEF OverRight, BeforeClose, Printing
<1>11. ResultRight'
  BY DEF ResultRight, Result, BeforeClose, Printing
<1>12. LinesMade' /\ QuietMain'
  BY DEF LinesMade, QuietMain
<1>13. QED
  BY <1>6, <1>7, <1>8, <1>9, <1>10, <1>11, <1>12
-----------------------------------------------------------------------------
\* The handling of one event.
LEMMA HandleCount ==
  ASSUME IInv, CountInv, Handle
  PROVE  CountInv'
<1> USE CollectorAssumption, Labels
    DEF CollectorAssumption, IInv, CountInv, Handle, Run,
        mainVars, shutVars, localVars, ringVars,
        bookVars, fileVars, reportVars
<1>1. \A id \in Ids : CountOf(taken, id) \in Nat
  BY CountAppend DEF TypeOK
<1> USE <1>1
    DEF TakenOf, Handled, Quiet, Uncounted, Handling, BeforeClose, Short, Cover,
        Full, Running, Result, RunningDrawn, ResultDrawn, ZeroStats, Stats, Info,
        Printing
<1>2. CASE MarkSeen
  <2> USE <1>2 DEF MarkSeen
  <2>1. HandNotCounted'
    BY DEF HandNotCounted
  <2>2. CountsClose'
    BY DEF CountsClose
  <2>3. CountsRight'
    BY DEF CountsRight
  <2>4. RunningRight'
    BY DEF RunningRight
  <2>5. OverRight'
    BY DEF OverRight
  <2>6. ResultRight'
    BY DEF ResultRight
  <2>7. LinesMade' /\ QuietMain'
    BY DEF LinesMade, QuietMain
  <2>8. QED
    BY <2>1, <2>2, <2>3, <2>4, <2>5, <2>6, <2>7
<1>3. CASE StatsGet
  <2> USE <1>3 DEF StatsGet
  <2>1. HandNotCounted'
    BY DEF HandNotCounted
  <2>2. CountsClose'
    BY DEF CountsClose
  <2>3. CountsRight'
    BY DEF CountsRight
  <2>4. RunningRight'
    BY DEF RunningRight
  <2>5. OverRight'
    BY DEF OverRight, TypeOK
  <2>6. ResultRight'
    BY DEF ResultRight
  <2>7. LinesMade' /\ QuietMain'
    BY DEF LinesMade, QuietMain
  <2>8. QED
    BY <2>1, <2>2, <2>3, <2>4, <2>5, <2>6, <2>7
<1>4. CASE StatsPut
  <2> USE <1>4 DEF StatsPut, Counted
  <2>1. HandNotCounted'
    BY DEF HandNotCounted
  <2>2. CountsClose'
    <3>1. stats'[hand].called = CountOf(taken, hand)
      <4>1. hand \in Ids /\ CountOf(taken, hand) \in Nat
        BY DEF TypeOK
      <4>2. stats'[hand].called = lastRecord.called + 1
        BY <4>1 DEF TypeOK
      <4>3. lastRecord.called = CountOf(taken, hand) - 1
        BY DEF HandNotCounted
      <4>4. QED
        BY <4>1, <4>2, <4>3
    <3>2. \A id \in Ids : id # hand => stats'[id] = stats[id]
      BY DEF TypeOK
    <3>3. hand \in Ids
      BY DEF TypeOK
    <3>4. QED
      BY <3>1, <3>2, <3>3 DEF CountsClose
  <2>3. CountsRight'
    <3>1. stats'[hand].called = CountOf(taken, hand)
      <4>1. hand \in Ids /\ CountOf(taken, hand) \in Nat
        BY DEF TypeOK
      <4>2. stats'[hand].called = lastRecord.called + 1
        BY <4>1 DEF TypeOK
      <4>3. lastRecord.called = CountOf(taken, hand) - 1
        BY DEF HandNotCounted
      <4>4. QED
        BY <4>1, <4>2, <4>3
    <3>2. \A id \in Ids : id # hand => stats'[id] = stats[id]
      BY DEF TypeOK
    <3>3. shutPc \notin BeforeClose => ~Quiet(hand)
      BY DEF QuietMain
    <3>4. QED
      BY <3>1, <3>2, <3>3 DEF CountsRight, QuietMain
  <2>4. RunningRight'
    BY DEF RunningRight
  <2>5. OverRight'
    BY DEF OverRight, TypeOK, QuietMain
  <2>6. ResultRight'
    BY DEF ResultRight
  <2>7. LinesMade' /\ QuietMain'
    BY DEF LinesMade, QuietMain
  <2>8. QED
    BY <2>1, <2>2, <2>3, <2>4, <2>5, <2>6, <2>7
<1>5. CASE WriteLog
  <2> USE <1>5 DEF WriteLog
  <2>1. HandNotCounted'
    BY DEF HandNotCounted
  <2>2. CountsClose'
    BY DEF CountsClose
  <2>3. CountsRight'
    BY DEF CountsRight
  <2>4. RunningRight'
    BY DEF RunningRight
  <2>5. OverRight'
    BY DEF OverRight
  <2>6. ResultRight'
    BY DEF ResultRight
  <2>7. LinesMade' /\ QuietMain'
    BY DEF LinesMade, QuietMain
  <2>8. QED
    BY <2>1, <2>2, <2>3, <2>4, <2>5, <2>6, <2>7
<1>6. CASE AppendDatas
  <2> USE <1>6 DEF AppendDatas, Recorded
  <2>1. HandNotCounted'
    BY DEF HandNotCounted
  <2>2. CountsClose'
    BY DEF CountsClose
  <2>3. CountsRight'
    BY DEF CountsRight
  <2>4. RunningRight'
    BY DEF RunningRight
  <2>5. OverRight'
    BY DEF OverRight
  <2>6. ResultRight'
    BY DEF ResultRight
  <2>7. LinesMade' /\ QuietMain'
    BY DEF LinesMade, QuietMain
  <2>8. QED
    BY <2>1, <2>2, <2>3, <2>4, <2>5, <2>6, <2>7
<1>7. CASE InfoGet
  <2> USE <1>7 DEF InfoGet
  <2>1. HandNotCounted'
    BY DEF HandNotCounted
  <2>2. CountsClose'
    BY DEF CountsClose
  <2>3. CountsRight'
    BY DEF CountsRight
  <2>4. RunningRight'
    BY DEF RunningRight, TypeOK
  <2>5. OverRight'
    BY DEF OverRight
  <2>6. ResultRight'
    BY DEF ResultRight, TypeOK
  <2>7. LinesMade' /\ QuietMain'
    BY DEF LinesMade, QuietMain
  <2>8. QED
    BY <2>1, <2>2, <2>3, <2>4, <2>5, <2>6, <2>7
<1>8. CASE InfoPut
  <2> USE <1>8 DEF InfoPut
  <2>1. HandNotCounted'
    BY DEF HandNotCounted
  <2>2. CountsClose'
    BY DEF CountsClose
  <2>3. CountsRight'
    BY DEF CountsRight
  <2>4. RunningRight'
    <3>1. overall'[hand].running = CountOf(taken, hand)
      <4>1. hand \in Ids /\ CountOf(taken, hand) \in Nat
        BY DEF TypeOK
      <4>2. overall'[hand].running = info.running + 1
        BY <4>1 DEF TypeOK
      <4>3. info.running = CountOf(taken, hand) - 1
        BY DEF RunningRight
      <4>4. QED
        BY <4>1, <4>2, <4>3
    <3>2. \A id \in Ids : id # hand => overall'[id] = overall[id]
      BY DEF TypeOK
    <3>3. shutPc \in {"asgResult", "asgPut"} => ~Quiet(hand)
      BY DEF QuietMain
    <3>4. QED
      BY <3>1, <3>2, <3>3 DEF RunningRight, QuietMain
  <2>5. OverRight'
    BY DEF OverRight
  <2>6. ResultRight'
    BY DEF ResultRight, TypeOK, QuietMain
  <2>7. LinesMade' /\ QuietMain'
    BY DEF LinesMade, QuietMain
  <2>8. QED
    BY <2>1, <2>2, <2>3, <2>4, <2>5, <2>6, <2>7
<1>9. QED
  BY <1>2, <1>3, <1>4, <1>5, <1>6, <1>7, <1>8
-----------------------------------------------------------------------------
\* The defers of run().
LEMMA ReturnCount ==
  ASSUME IInv, CountInv, Return
  PROVE  CountInv'
<1> USE CollectorAssumption, Labels
    DEF CollectorAssumption, IInv, CountInv, Return, Run,
        mainVars, shutVars, localVars, ringVars,
        bookVars, fileVars, reportVars
<1>1. \A id \in Ids : CountOf(taken, id) \in Nat
  BY CountAppend DEF TypeOK
<1> USE <1>1
    DEF TakenOf, Handled, Quiet, Uncounted, Handling, BeforeClose, Short, Cover,
        Full, Running, Result, RunningDrawn, ResultDrawn, ZeroStats, Stats, Info,
        Printing
<1>2. CASE MainClose \/ Cancel \/ Leave
  <2> USE <1>2 DEF MainClose, Cancel, Leave
  <2>1. HandNotCounted'
    BY DEF HandNotCounted
  <2>2. CountsClose'
    BY DEF CountsClose
  <2>3. CountsRight'
    BY DEF CountsRight
  <2>4. RunningRight'
    BY DEF RunningRight
  <2>5. OverRight'
    BY DEF OverRight
  <2>6. ResultRight'
    BY DEF ResultRight
  <2>7. LinesMade' /\ QuietMain'
    BY DEF LinesMade, QuietMain
  <2>8. QED
    BY <2>1, <2>2, <2>3, <2>4, <2>5, <2>6, <2>7
<1>3. QED
  BY <1>2
-----------------------------------------------------------------------------
\* The goroutine closes the reader.
LEMMA CloseCount ==
  ASSUME IInv, CountInv, CloseReader
  PROVE  CountInv'
<1> USE CollectorAssumption, Labels
    DEF CollectorAssumption, IInv, CountInv, CloseReader, Shut,
        Alive, mainVars, shutVars, localVars, ringVars,
        bookVars, fileVars, reportVars
<1>1. \A id \in Ids : CountOf(taken, id) \in Nat
  BY CountAppend DEF TypeOK
<1> USE <1>1
    DEF TakenOf, Handled, Quiet, Uncounted, Handling, BeforeClose, Short, Cover,
        Full, Running, Result, RunningDrawn, ResultDrawn, ZeroStats, Stats, Info,
        Printing
<1>2. CASE Wake
  <2> USE <1>2 DEF Wake
  <2>1. HandNotCounted'
    BY DEF HandNotCounted
  <2>2. CountsClose'
    BY DEF CountsClose
  <2>3. CountsRight'
    BY DEF CountsRight
  <2>4. RunningRight'
    BY DEF RunningRight
  <2>5. OverRight'
    BY DEF OverRight
  <2>6. ResultRight'
    BY DEF ResultRight
  <2>7. LinesMade' /\ QuietMain'
    BY DEF LinesMade, QuietMain
  <2>8. QED
    BY <2>1, <2>2, <2>3, <2>4, <2>5, <2>6, <2>7
<1>3. CASE ClosePoller
  <2> USE <1>3 DEF ClosePoller, ClosedPoller
  <2>1. HandNotCounted'
    BY DEF HandNotCounted, QuietMain
  <2>2. CountsClose'
    BY DEF CountsClose, QuietMain
  <2>3. CountsRight'
    BY DEF CountsRight, QuietMain
  <2>4. RunningRight'
    BY DEF RunningRight, QuietMain
  <2>5. OverRight'
    BY DEF OverRight, QuietMain
  <2>6. ResultRight'
    BY DEF ResultRight, QuietMain
  <2>7. LinesMade' /\ QuietMain'
    BY DEF LinesMade, QuietMain
  <2>8. QED
    BY <2>1, <2>2, <2>3, <2>4, <2>5, <2>6, <2>7
<1>4. CASE CloseRing
  <2> USE <1>4 DEF CloseRing, MutexFree
  <2>1. HandNotCounted'
    BY DEF HandNotCounted, QuietMain
  <2>2. CountsClose'
    BY DEF CountsClose, QuietMain
  <2>3. CountsRight'
    BY DEF CountsRight, QuietMain
  <2>4. RunningRight'
    BY DEF RunningRight, QuietMain
  <2>5. OverRight'
    BY DEF OverRight, QuietMain
  <2>6. ResultRight'
    BY DEF ResultRight, QuietMain
  <2>7. LinesMade' /\ QuietMain'
    BY DEF LinesMade, QuietMain
  <2>8. QED
    BY <2>1, <2>2, <2>3, <2>4, <2>5, <2>6, <2>7
<1>5. QED
  BY <1>2, <1>3, <1>4
-----------------------------------------------------------------------------
\* The goroutine opens the report files and writes running.json.
LEMMA OpenCount ==
  ASSUME IInv, CountInv, OpenReports
  PROVE  CountInv'
<1> USE CollectorAssumption, Labels
    DEF CollectorAssumption, IInv, CountInv, OpenReports, Shut,
        Alive, mainVars, shutVars, localVars, ringVars,
        bookVars, fileVars, reportVars
<1>1. \A id \in Ids : CountOf(taken, id) \in Nat
  BY CountAppend DEF TypeOK
<1> USE <1>1
    DEF TakenOf, Handled, Quiet, Uncounted, Handling, BeforeClose, Short, Cover,
        Full, Running, Result, RunningDrawn, ResultDrawn, ZeroStats, Stats, Info,
        Printing
<1>2. CASE OpenJSON \/ OpenFinding \/ OpenPerf
  <2> USE <1>2 DEF OpenJSON, OpenFinding, OpenPerf, OpenFile
  <2>1. HandNotCounted'
    BY DEF HandNotCounted
  <2>2. CountsClose'
    BY DEF CountsClose
  <2>3. CountsRight'
    BY DEF CountsRight
  <2>4. RunningRight'
    BY DEF RunningRight
  <2>5. OverRight'
    BY DEF OverRight
  <2>6. ResultRight'
    BY DEF ResultRight
  <2>7. LinesMade' /\ QuietMain'
    BY DEF LinesMade, QuietMain
  <2>8. QED
    BY <2>1, <2>2, <2>3, <2>4, <2>5, <2>6, <2>7
<1>3. CASE ShutFails \/ OpenPerfFails
  <2> USE <1>3 DEF ShutFails, OpenPerfFails, Opening
  <2>1. HandNotCounted'
    BY DEF HandNotCounted
  <2>2. CountsClose'
    BY DEF CountsClose
  <2>3. CountsRight'
    BY DEF CountsRight
  <2>4. RunningRight'
    BY DEF RunningRight
  <2>5. OverRight'
    BY DEF OverRight
  <2>6. ResultRight'
    BY DEF ResultRight
  <2>7. LinesMade' /\ QuietMain'
    BY DEF LinesMade, QuietMain
  <2>8. QED
    BY <2>1, <2>2, <2>3, <2>4, <2>5, <2>6, <2>7
<1>4. CASE WriteJSON
  <2> USE <1>4 DEF WriteJSON, Snapshots
  <2>1. HandNotCounted'
    BY DEF HandNotCounted
  <2>2. CountsClose'
    BY DEF CountsClose
  <2>3. CountsRight'
    BY DEF CountsRight
  <2>4. RunningRight'
    BY DEF RunningRight
  <2>5. OverRight'
    BY DEF OverRight
  <2>6. ResultRight'
    BY DEF ResultRight
  <2>7. LinesMade' /\ QuietMain'
    BY DEF LinesMade, QuietMain, BooksFollowHandler
  <2>8. QED
    BY <2>1, <2>2, <2>3, <2>4, <2>5, <2>6, <2>7
<1>5. QED
  BY <1>2, <1>3, <1>4
-----------------------------------------------------------------------------
\* The numbers that a line is made from come from the record as it is.
LEMMA PrintAdds ==
  ASSUME TypeOK,
         PrintFailed \/ PrintRateFailed \/ PrintRateCalled \/ PrintP50 \/ PrintP99
  PROVE  /\ \A id \in DOMAIN perf \ {syscallID} : perf'[id] = perf[id]
         /\ syscallID \in DOMAIN perf =>
              /\ perf[syscallID].called \subseteq perf'[syscallID].called
              /\ perf[syscallID].over \subseteq perf'[syscallID].over
              /\ perf'[syscallID].called
                   \subseteq perf[syscallID].called \cup {stats[syscallID].called}
              /\ perf'[syscallID].over
                   \subseteq perf[syscallID].over \cup {stats[syscallID].over}
              /\ PrintP50 \/ PrintP99 => perf'[syscallID].over # {}
         /\ PrintFailed => shutPc' = "rateFailed"
         /\ PrintRateFailed => shutPc' = "rateCalled"
         /\ PrintRateCalled => shutPc' = "p50"
<1> USE DEF PrintFailed, PrintRateFailed, PrintRateCalled, PrintP50, PrintP99, PrintCount,
            PrintDelay, Shut
<1>1. \A id \in DOMAIN perf \ {syscallID} : perf'[id] = perf[id]
  BY DEF TypeOK
<1>2. ASSUME syscallID \in DOMAIN perf
      PROVE  \/ /\ PrintFailed \/ PrintRateFailed \/ PrintRateCalled
                /\ perf'[syscallID] = [called |-> perf[syscallID].called
                                                    \cup {stats[syscallID].called},
                                       over   |-> perf[syscallID].over]
             \/ /\ PrintP50 \/ PrintP99
                /\ perf'[syscallID] = [called |-> perf[syscallID].called,
                                       over   |-> perf[syscallID].over
                                                    \cup {stats[syscallID].over}]
  <2>1. perf[syscallID] \in Line
    BY <1>2 DEF TypeOK
  <2>2. QED
    BY <1>2, <2>1 DEF Line, TypeOK
<1>3. ~((PrintFailed \/ PrintRateFailed \/ PrintRateCalled) /\ (PrintP50 \/ PrintP99))
  OBVIOUS
<1>4. QED
  BY <1>1, <1>2, <1>3

\* What the rules read of a system call is right of the one they look up.
LEMMA RulesRead ==
  ASSUME IInv, CountInv, Generate \/ ApplyRules
  PROVE  \A id \in DOMAIN findings' : \A d \in {findings'[id].first, findings'[id].last} :
           \/ /\ id = syscallID
              /\ RunningDrawn(d, Home(id)) /\ ResultDrawn(d, Home(id), id \in Named)
           \/ id \in DOMAIN findings /\ d \in {findings[id].first, findings[id].last}
<1> DEFINE read == overall[Home(syscallID)]
<1>1. syscallID \in Ids /\ Home(syscallID) \in Ids
  BY HomeIsId DEF IInv, TypeOK
<1>2. /\ shutPc \in {"generate", "rules"} /\ shutPc \notin BeforeClose
      /\ Quiet(Home(syscallID)) => ~Handled(Home(syscallID))
  BY RulesKeep DEF IInv, CountInv, QuietMain, Quiet, Handled, BeforeClose
<1>3. RunningDrawn(read, Home(syscallID))
  BY <1>1, <1>2 DEF CountInv, RunningRight, Running, RunningDrawn
<1>4. ResultDrawn(read, Home(syscallID), syscallID \in Named)
  <2>1. CASE syscallID \in Named
    <3>1. Home(syscallID) = syscallID
      BY <2>1 DEF Home
    <3>2. QED
      BY <1>1, <1>2, <2>1, <3>1 DEF CountInv, ResultRight, ResultDrawn
  <2>2. CASE syscallID \notin Named
    BY <1>1, <2>2 DEF CountInv, ResultRight, ResultDrawn
  <2>3. QED
    BY <2>1, <2>2
<1>5. \A id \in DOMAIN findings' : \A d \in {findings'[id].first, findings'[id].last} :
        \/ id = syscallID /\ d = read
        \/ id \in DOMAIN findings /\ d \in {findings[id].first, findings[id].last}
  <2>1. CASE Generate
    BY <2>1 DEF Generate
  <2>2. CASE ApplyRules
    <3>1. DOMAIN findings' = DOMAIN findings
            /\ \A id \in DOMAIN findings \ {syscallID} : findings'[id] = findings[id]
      BY <2>2 DEF ApplyRules, IInv, TypeOK
    <3>2. syscallID \in DOMAIN findings =>
            findings'[syscallID] = [first |-> findings[syscallID].first, last |-> read]
      <4>1. syscallID \in DOMAIN findings => findings[syscallID] \in Drawn
        BY DEF IInv, TypeOK
      <4>2. QED
        BY <2>2, <4>1 DEF ApplyRules, Drawn
    <3>3. QED
      BY <3>1, <3>2
  <2>3. QED
    BY <2>1, <2>2
<1>6. QED
  BY <1>3, <1>4, <1>5

\* The goroutine's summary of each syscall.
LEMMA SummarizeCount ==
  ASSUME IInv, CountInv, Summarize
  PROVE  CountInv'
<1> USE CollectorAssumption, Labels
    DEF CollectorAssumption, IInv, CountInv, Summarize, Shut,
        Alive, mainVars, shutVars, localVars, ringVars,
        bookVars, fileVars, reportVars
<1>1. \A id \in Ids : CountOf(taken, id) \in Nat
  BY CountAppend DEF TypeOK
<1> USE <1>1
    DEF TakenOf, Handled, Quiet, Uncounted, Handling, BeforeClose, Short, Cover,
        Full, Running, Result, RunningDrawn, ResultDrawn, ZeroStats, Stats, Info,
        Printing
<1>2. CASE RangeStart \/ RangeEnd
  <2> USE <1>2 DEF RangeStart, RangeEnd
  <2>1. HandNotCounted'
    BY DEF HandNotCounted
  <2>2. CountsClose'
    BY DEF CountsClose
  <2>3. CountsRight'
    BY DEF CountsRight
  <2>4. RunningRight'
    BY DEF RunningRight
  <2>5. OverRight'
    BY DEF OverRight
  <2>6. ResultRight'
    BY DEF ResultRight
  <2>7. LinesMade' /\ QuietMain'
    BY DEF LinesMade, QuietMain
  <2>8. QED
    BY <2>1, <2>2, <2>3, <2>4, <2>5, <2>6, <2>7
<1>3. CASE \E id \in Ids : RangeNext(id)
  <2> USE <1>3 DEF RangeNext
  <2>1. HandNotCounted'
    BY DEF HandNotCounted
  <2>2. CountsClose'
    BY DEF CountsClose
  <2>3. CountsRight'
    BY DEF CountsRight
  <2>4. RunningRight'
    BY DEF RunningRight
  <2>5. OverRight'
    BY DEF OverRight
  <2>6. ResultRight'
    BY DEF ResultRight
  <2>7. LinesMade' /\ QuietMain'
    BY DEF LinesMade, QuietMain
  <2>8. QED
    BY <2>1, <2>2, <2>3, <2>4, <2>5, <2>6, <2>7
<1>4. CASE SummarizeGet
  <2> USE <1>4 DEF SummarizeGet
  <2>1. HandNotCounted'
    BY DEF HandNotCounted
  <2>2. CountsClose'
    BY DEF CountsClose
  <2>3. CountsRight'
    BY DEF CountsRight
  <2>4. RunningRight'
    BY DEF RunningRight
  <2>5. OverRight'
    BY DEF OverRight
  <2>6. ResultRight'
    BY DEF ResultRight
  <2>7. LinesMade' /\ QuietMain'
    BY DEF LinesMade, QuietMain
  <2>8. QED
    BY <2>1, <2>2, <2>3, <2>4, <2>5, <2>6, <2>7
<1>5. CASE SummarizePut
  <2> USE <1>5 DEF SummarizePut, Summarized
  <2>1. HandNotCounted'
    BY DEF HandNotCounted
  <2>2. CountsClose'
    BY DEF CountsClose, TypeOK
  <2>3. CountsRight'
    BY DEF CountsRight, TypeOK
  <2>4. RunningRight'
    BY DEF RunningRight
  <2>5. OverRight'
    <3>1. \A id \in Ids :
            stats'[id].over = IF id = syscallID THEN record.called ELSE stats[id].over
      BY DEF TypeOK
    <3>2. Short(record.called, syscallID)
      BY DEF TypeOK, CountsClose
    <3>3. Quiet(syscallID) => record.called = TakenOf(syscallID)
      BY DEF TypeOK, CountsRight, QuietMain
    <3>4. syscallID \in Ids /\ shutPc \notin BeforeClose
      BY DEF TypeOK
    <3>5. QED
      BY <3>1, <3>2, <3>3, <3>4 DEF OverRight
  <2>6. ResultRight'
    BY DEF ResultRight
  <2>7. LinesMade' /\ QuietMain'
    BY DEF LinesMade, QuietMain
  <2>8. QED
    BY <2>1, <2>2, <2>3, <2>4, <2>5, <2>6, <2>7
<1>6. CASE AssignInfo
  <2> USE <1>6 DEF AssignInfo
  <2>1. HandNotCounted'
    BY DEF HandNotCounted
  <2>2. CountsClose'
    BY DEF CountsClose
  <2>3. CountsRight'
    BY DEF CountsRight
  <2>4. RunningRight'
    BY DEF RunningRight, TypeOK
  <2>5. OverRight'
    BY DEF OverRight
  <2>6. ResultRight'
    BY DEF ResultRight, TypeOK
  <2>7. LinesMade' /\ QuietMain'
    BY DEF LinesMade, QuietMain
  <2>8. QED
    BY <2>1, <2>2, <2>3, <2>4, <2>5, <2>6, <2>7
<1>7. CASE AssignResult
  <2> USE <1>7 DEF AssignResult, ResultOf
  <2>1. HandNotCounted'
    BY DEF HandNotCounted
  <2>2. CountsClose'
    BY DEF CountsClose
  <2>3. CountsRight'
    BY DEF CountsRight
  <2>4. RunningRight'
    BY DEF RunningRight, TypeOK
  <2>5. OverRight'
    BY DEF OverRight
  <2>6. ResultRight'
    <3>1. syscallID \in Ids /\ shutInfo'.result = stats[syscallID]
      BY DEF TypeOK
    <3>2. Result(stats[syscallID], syscallID)
      BY <3>1 DEF OverRight, CountsClose
    <3>3. Quiet(syscallID) => stats[syscallID] = Full(syscallID)
      <4>1. Quiet(syscallID) => /\ stats[syscallID].called = TakenOf(syscallID)
                                /\ stats[syscallID].over = TakenOf(syscallID)
        BY <3>1 DEF OverRight, CountsRight, QuietMain
      <4>2. stats[syscallID] \in [called : Nat, over : Nat]
        BY <3>1 DEF TypeOK
      <4>3. QED
        BY <4>1, <4>2
    <3>4. QED
      BY <3>1, <3>2, <3>3 DEF ResultRight
  <2>7. LinesMade' /\ QuietMain'
    BY DEF LinesMade, QuietMain
  <2>8. QED
    BY <2>1, <2>2, <2>3, <2>4, <2>5, <2>6, <2>7
<1>8. CASE AssignPut
  <2> USE <1>8 DEF AssignPut
  <2>1. HandNotCounted'
    BY DEF HandNotCounted
  <2>2. CountsClose'
    BY DEF CountsClose
  <2>3. CountsRight'
    BY DEF CountsRight
  <2>4. RunningRight'
    BY DEF RunningRight, TypeOK
  <2>5. OverRight'
    BY DEF OverRight
  <2>6. ResultRight'
    BY DEF ResultRight, TypeOK
  <2>7. LinesMade' /\ QuietMain'
    BY DEF LinesMade, QuietMain
  <2>8. QED
    BY <2>1, <2>2, <2>3, <2>4, <2>5, <2>6, <2>7
<1>9. CASE PrintCalled
  <2> USE <1>9 DEF PrintCalled
  <2>1. HandNotCounted'
    BY DEF HandNotCounted
  <2>2. CountsClose'
    BY DEF CountsClose, TypeOK
  <2>3. CountsRight'
    BY DEF CountsRight, TypeOK, QuietMain
  <2>4. RunningRight'
    BY DEF RunningRight
  <2>5. OverRight'
    BY DEF OverRight, TypeOK
  <2>6. ResultRight'
    BY DEF ResultRight
  <2>7. LinesMade' /\ QuietMain'
    BY DEF LinesMade, QuietMain
  <2>8. QED
    BY <2>1, <2>2, <2>3, <2>4, <2>5, <2>6, <2>7
<1>10. CASE PrintFailed \/ PrintRateFailed \/ PrintRateCalled \/ PrintP50 \/ PrintP99
  <2> USE <1>10, PrintKeeps
  <2>1. HandNotCounted'
    BY DEF HandNotCounted
  <2>2. CountsClose'
    BY PrintAdds DEF CountsClose
  <2>3. CountsRight'
    BY PrintAdds DEF CountsRight, QuietMain
  <2>4. RunningRight'
    BY DEF RunningRight
  <2>5. OverRight'
    <3>1. \A id \in DOMAIN perf : \A n \in perf'[id].over :
            n \in perf[id].over \/ (id = syscallID /\ n = stats[id].over)
      BY PrintAdds
    <3>2. syscallID \in Ids
            /\ (Quiet(syscallID) => stats[syscallID].over = TakenOf(syscallID))
            /\ Cover(stats[syscallID].over, syscallID)
      BY DEF OverRight, TypeOK
    <3>3. \A id \in DOMAIN perf : \A n \in perf'[id].over :
            Cover(n, id) /\ (Quiet(id) => n = TakenOf(id))
      <4>1. SUFFICES ASSUME NEW id \in DOMAIN perf, NEW n \in perf'[id].over
                     PROVE  Cover(n, id) /\ (Quiet(id) => n = TakenOf(id))
        OBVIOUS
      <4>2. CASE n \in perf[id].over
        <5>1. id \in Ids
          BY DEF TypeOK
        <5>2. QED
          BY <4>2, <5>1 DEF OverRight
      <4>3. CASE id = syscallID /\ n = stats[id].over
        BY <3>2, <4>3
      <4>4. QED
        BY <3>1, <4>2, <4>3
    <3>4. QED
      BY <3>3 DEF OverRight
  <2>6. ResultRight'
    BY DEF ResultRight
  <2>7. LinesMade' /\ QuietMain'
    BY PrintAdds DEF LinesMade, QuietMain
  <2>8. QED
    BY <2>1, <2>2, <2>3, <2>4, <2>5, <2>6, <2>7
<1>11. CASE Generate \/ ApplyRules
  <2> USE <1>11, RulesKeep
  <2>1. HandNotCounted'
    BY DEF HandNotCounted
  <2>2. CountsClose'
    BY DEF CountsClose
  <2>3. CountsRight'
    BY DEF CountsRight
  <2>4. RunningRight'
    BY RulesRead DEF RunningRight
  <2>5. OverRight'
    BY DEF OverRight
  <2>6. ResultRight'
    BY RulesRead DEF ResultRight
  <2>7. LinesMade' /\ QuietMain'
    BY DEF LinesMade, QuietMain
  <2>8. QED
    BY <2>1, <2>2, <2>3, <2>4, <2>5, <2>6, <2>7
<1>12. CASE WriteFinding
  <2> USE <1>12 DEF WriteFinding
  <2>1. HandNotCounted'
    BY DEF HandNotCounted
  <2>2. CountsClose'
    BY DEF CountsClose
  <2>3. CountsRight'
    BY DEF CountsRight
  <2>4. RunningRight'
    BY DEF RunningRight
  <2>5. OverRight'
    BY DEF OverRight
  <2>6. ResultRight'
    BY DEF ResultRight
  <2>7. LinesMade' /\ QuietMain'
    BY DEF LinesMade, QuietMain
  <2>8. QED
    BY <2>1, <2>2, <2>3, <2>4, <2>5, <2>6, <2>7
<1>13. QED
  BY <1>2, <1>3, <1>4, <1>5, <1>6, <1>7, <1>8, <1>9, <1>10, <1>11, <1>12
-----------------------------------------------------------------------------
\* Every step preserves CountInv.
LEMMA NextCount == IInv /\ CountInv /\ [Next]_vars => CountInv'
<1> SUFFICES ASSUME IInv, CountInv, [Next]_vars PROVE CountInv'
  OBVIOUS
<1>1. CASE Main
  BY <1>1, ReadCount, SelectedCount, HandleCount, ReturnCount DEF Main
<1>2. CASE Shutdown
  BY <1>2, CloseCount, OpenCount, SummarizeCount DEF Shutdown
<1>3. CASE Stop \/ Gone \/ UNCHANGED vars
  <2>1. /\ UNCHANGED <<mainPc, shutPc, hand, stats, overall, json, perf, findings>>
        /\ UNCHANGED <<lastRecord, info, syscallID, record, shutInfo, written>>
        /\ UNCHANGED <<taken, busyAtClose>>
    BY <1>3 DEF Stop, Gone, vars, mainVars, shutVars, localVars, ringVars,
                bookVars, fileVars, reportVars
  <2>2. QED
    BY <2>1 DEF CountInv, HandNotCounted, CountsClose, CountsRight, RunningRight,
                OverRight, ResultRight, LinesMade, QuietMain, TakenOf, Uncounted, Handled,
                Quiet, Short, Cover, Full, Running, Result, RunningDrawn, ResultDrawn
<1>4. CASE Fault
  <2> USE <1>4, Labels DEF IInv, CountInv, Fault, shutVars, localVars, ringVars,
                           bookVars, fileVars, reportVars
  <2>1. mainPc \in Handling /\ shutPc \notin BeforeClose
    BY DEF TypeOK, MapConflict, MapsWritten, MapsRead, SliceConflict, Printing, Handling,
           BeforeClose
  <2>2. busyAtClose
    BY <2>1 DEF TypeOK, QuietMain
  <2> USE <2>1, <2>2 DEF TakenOf, Uncounted, Handled, Quiet, Short, Cover, Full
  <2>3. HandNotCounted' /\ CountsClose' /\ CountsRight'
    BY DEF HandNotCounted, CountsClose, CountsRight
  <2>4. RunningRight' /\ OverRight' /\ ResultRight'
    BY DEF RunningRight, OverRight, ResultRight, Running, Result, RunningDrawn, ResultDrawn
  <2>5. LinesMade' /\ QuietMain'
    BY DEF LinesMade, QuietMain
  <2>6. QED
    BY <2>3, <2>4, <2>5
<1>5. QED
  BY <1>1, <1>2, <1>3, <1>4 DEF Next

\* The counts of the statistics and of the reports, at every step.
THEOREM CollectorCountInvariant == Spec => []CountInv
<1>1. Init => IInv /\ CountInv
  BY InitIInv, InitCount
<1>2. IInv /\ CountInv /\ [Next]_vars => (IInv /\ CountInv)'
  BY NextIInv, NextCount
<1>3. QED
  BY <1>1, <1>2, PTL DEF Spec

CountOffByAtMostOne ==
  \A id \in DOMAIN perf : \A n \in perf[id].called :
    n \in (CountOf(taken, id) - 1)..CountOf(taken, id)

\* No count printed in performance.log is too large, and none lacks more than one
\* call, however the writes of run() and of the goroutine overwrite each other.
THEOREM CollectorCounts == Spec => []CountOffByAtMostOne
<1>1. IInv /\ CountInv => CountOffByAtMostOne
  BY DEF IInv, TypeOK, CountInv, CountsClose, Short, TakenOf, CountOffByAtMostOne
<1>2. QED
  BY <1>1, CollectorInvariant, CollectorCountInvariant, PTL

\* When run() held no event as the reader was closed, the reports are exact.
THEOREM CollectorQuiet == Spec => []QuietReportsExact
<1>1. IInv /\ CountInv => QuietReportsExact
  <2> SUFFICES ASSUME IInv, CountInv, ~busyAtClose, shutPc \notin BeforeClose
               PROVE  QuietReportsExact
    BY DEF QuietReportsExact
  <2>1. "running.json" \in written => json = taken
    BY DEF CountInv, QuietMain
  <2>2. ASSUME NEW id \in DOMAIN perf
        PROVE  /\ perf[id].called = {CountOf(taken, id)}
               /\ perf[id].over \subseteq {CountOf(taken, id)}
               /\ id # syscallID \/ shutPc \notin Printing => perf[id].over # {}
    <3>1. id \in Ids /\ Quiet(id) /\ ~Uncounted
      BY DEF IInv, CountInv, TypeOK, QuietMain, Quiet, Uncounted, Handling
    <3>2. /\ \A n \in perf[id].called : n = CountOf(taken, id)
          /\ \A n \in perf[id].over : n = CountOf(taken, id)
      BY <3>1 DEF CountInv, CountsRight, OverRight, TakenOf
    <3>3. perf[id].called # {}
            /\ (id # syscallID \/ shutPc \notin Printing => perf[id].over # {})
      BY DEF CountInv, LinesMade, Printing
    <3>4. QED
      BY <3>2, <3>3
  <2>3. ASSUME NEW id \in DOMAIN findings,
               NEW drawn \in {findings[id].first, findings[id].last}
        PROVE  /\ drawn.running = CountOf(taken, Home(id))
               /\ \/ drawn.result = Exact(CountOf(taken, Home(id)))
                  \/ id \notin Named /\ drawn.result = ZeroStats
    <3>1. id \in Ids /\ Quiet(Home(id))
      BY DEF IInv, TypeOK, Quiet
    <3>2. RunningDrawn(drawn, Home(id)) /\ ResultDrawn(drawn, Home(id), id \in Named)
      BY <3>1 DEF CountInv, RunningRight, ResultRight
    <3>3. QED
      BY <3>1, <3>2 DEF RunningDrawn, ResultDrawn, TakenOf, Full, Exact
  <2>4. QED
    BY <2>1, <2>2, <2>3 DEF QuietReportsExact
<1>2. QED
  BY <1>1, CollectorInvariant, CollectorCountInvariant, PTL
-----------------------------------------------------------------------------
\* WindowInv holds initially: nothing was seen and no report is written.
LEMMA InitWindow == Init => WindowInv
<1> SUFFICES ASSUME Init PROVE WindowInv
  OBVIOUS
<1>1. \A id \in Ids : TakenOf(id) = 0
  <2>1. \A id \in Ids : {i \in DOMAIN taken : taken[i] = id} = {}
    BY DEF Init
  <2>2. QED
    BY <2>1, FS_EmptySet DEF TakenOf, CountOf
<1>2. QED
  BY <1>1 DEF Init, WindowInv, HandIsLast, SeenTaken, RangeVisits, LinesBeforeFindings,
              FilesInOrder, Handling, InBody, Reporting, Summarizing, Printing

\* What run() leaves alone: the goroutine's variables and the reports, and the
\* event in hand unless it takes another one from the ring.
LEMMA MainKeeps ==
  ASSUME IInv, Main
  PROVE  /\ UNCHANGED <<shutPc, syscallID, rangeKeys, busyAtClose>>
         /\ UNCHANGED <<json, perf, findings, written>>
         /\ seen \subseteq seen'
         /\ \/ UNCHANGED <<taken, hand, seen>>
               /\ mainPc # "seen" /\ mainPc' \notin {"seen", "crashed"}
               /\ (mainPc' \in Handling => mainPc \in Handling)
            \/ MarkSeen /\ UNCHANGED <<taken, hand>>
            \/ \E id \in Ids : ReadSelected(id)
<1> USE DEF mainVars, shutVars, localVars, ringVars, bookVars, fileVars, reportVars,
            Handling
<1>1. CASE Handle
  BY <1>1 DEF Handle, Run, MarkSeen, StatsGet, StatsPut, WriteLog, AppendDatas, InfoGet,
              InfoPut
<1>2. CASE Return
  BY <1>2 DEF Return, Run, MainClose, Cancel, Leave
<1>3. CASE EnterRead \/ ReadClosed \/ ReadFails \/ \E id \in Ids : ReadDropped(id)
  BY <1>3 DEF EnterRead, ReadClosed, ReadFails, ReadDropped, NothingHandled, Run
<1>4. CASE \E id \in Ids : ReadSelected(id)
  BY <1>4 DEF ReadSelected, NothingHandled
<1>5. QED
  BY <1>1, <1>2, <1>3, <1>4 DEF Main

\* An event that is taken from the ring is the last one, and its syscall is the
\* one that may not be marked as seen.
LEMMA SelectedWindow ==
  ASSUME IInv, WindowInv, NEW e \in Ids, ReadSelected(e)
  PROVE  WindowInv'
<1> USE DEF IInv, WindowInv, ReadSelected, Run, NothingHandled, shutVars, localVars,
            bookVars, fileVars, reportVars
<1>1. shutPc \in BeforeClose
  BY DEF ReaderClosed
<1>2. \A id \in Ids :
        /\ CountOf(taken, id) \in Nat
        /\ CountOf(taken', id) =
             IF e = id THEN CountOf(taken, id) + 1 ELSE CountOf(taken, id)
  BY CountAppend DEF TypeOK
<1>3. HandIsLast'
  <2>1. taken \in Seq(Ids) /\ taken' = Append(taken, e) /\ hand' = e
    BY DEF TypeOK
  <2>2. taken' # <<>> /\ taken'[Len(taken')] = e
    BY <2>1
  <2>3. QED
    BY <2>1, <2>2 DEF HandIsLast
<1>4. SeenTaken'
  <2>1. ASSUME NEW id \in seen'
        PROVE  CountOf(taken', id) > 0
    <3>1. id \in seen /\ id \in Ids
      BY <2>1 DEF TypeOK
    <3>2. CountOf(taken, id) > 0
      BY <3>1 DEF SeenTaken, TakenOf
    <3>3. QED
      BY <3>1, <3>2, <1>2
  <2>2. ASSUME NEW id \in Ids, CountOf(taken', id) > 0
        PROVE  id \in seen' \/ id = e
    BY <1>2, <2>2 DEF SeenTaken, TakenOf
  <2>3. QED
    BY <2>1, <2>2 DEF SeenTaken, TakenOf
<1>5. RangeVisits'
  BY <1>1 DEF RangeVisits, BeforeClose, Summarizing, Printing
<1>6. LinesBeforeFindings' /\ FilesInOrder'
  BY DEF LinesBeforeFindings, FilesInOrder
<1>7. QED
  BY <1>3, <1>4, <1>5, <1>6

\* run()'s steps preserve WindowInv.
LEMMA MainWindow ==
  ASSUME IInv, CountInv, WindowInv, Main
  PROVE  WindowInv'
<1> USE MainKeeps DEF IInv, WindowInv
<1>1. LinesBeforeFindings' /\ FilesInOrder'
  BY DEF LinesBeforeFindings, FilesInOrder
<1>2. CASE UNCHANGED <<taken, hand, seen>> /\ mainPc # "seen"
             /\ mainPc' \notin {"seen", "crashed"}
             /\ (mainPc' \in Handling => mainPc \in Handling)
  <2> USE <1>2 DEF TakenOf, Quiet
  <2>1. mainPc # "crashed"
    BY DEF Main, EnterRead, ReadSelected, ReadDropped, ReadClosed, ReadFails, Handle,
           MarkSeen, StatsGet, StatsPut, WriteLog, AppendDatas, InfoGet, InfoPut,
           Return, MainClose, Cancel, Leave, Run
  <2>2. HandIsLast' /\ SeenTaken'
    BY <2>1 DEF HandIsLast, SeenTaken
  <2>3. RangeVisits'
    BY DEF RangeVisits
  <2>4. QED
    BY <1>1, <2>2, <2>3
<1>3. CASE MarkSeen /\ UNCHANGED <<taken, hand>>
  <2> USE <1>3 DEF MarkSeen, Run, TakenOf, Quiet
  <2>1. CountOf(taken, hand) > 0
    <3>1. CountOf(taken, hand) \in Nat /\ hand \in Ids /\ stats[hand].called \in Nat
      BY CountAppend DEF TypeOK, Stats
    <3>2. stats[hand].called = CountOf(taken, hand) - 1
      BY DEF CountInv, HandNotCounted, Uncounted
    <3>3. QED
      BY <3>1, <3>2
  <2>2. HandIsLast' /\ SeenTaken'
    BY <2>1 DEF HandIsLast, SeenTaken, Handling
  <2>3. RangeVisits'
    BY DEF RangeVisits
  <2>4. QED
    BY <1>1, <2>2, <2>3
<1>4. CASE \E id \in Ids : ReadSelected(id)
  BY <1>4, SelectedWindow
<1>5. QED
  BY <1>2, <1>3, <1>4

\* The goroutine's steps preserve WindowInv.
LEMMA ShutdownWindow ==
  ASSUME IInv, CountInv, WindowInv, Shutdown
  PROVE  WindowInv'
<1> USE Labels
    DEF IInv, WindowInv, Shut, mainVars, shutVars, localVars, ringVars, bookVars,
        fileVars, reportVars, TakenOf, Quiet, InBody, Reporting, Summarizing, Printing,
        BeforeClose, Opening
<1>1. CASE CloseReader
  <2> USE <1>1 DEF CloseReader, Wake, ClosePoller, CloseRing
  <2>1. HandIsLast' /\ SeenTaken'
    BY DEF HandIsLast, SeenTaken
  <2>2. RangeVisits'
    BY DEF RangeVisits
  <2>3. LinesBeforeFindings' /\ FilesInOrder'
    BY DEF LinesBeforeFindings, FilesInOrder
  <2>4. QED
    BY <2>1, <2>2, <2>3
<1>2. CASE OpenReports
  <2> USE <1>2 DEF OpenReports, OpenJSON, OpenFinding, OpenPerf, OpenFile, ShutFails,
                   OpenPerfFails, WriteJSON
  <2>1. HandIsLast' /\ SeenTaken'
    BY DEF HandIsLast, SeenTaken
  <2>2. RangeVisits'
    BY DEF RangeVisits
  <2>3. LinesBeforeFindings'
    BY DEF LinesBeforeFindings
  <2>4. FilesInOrder'
    BY DEF FilesInOrder
  <2>5. QED
    BY <2>1, <2>2, <2>3, <2>4
<1>3. CASE Summarize
  <2> USE <1>3 DEF Summarize, RangeStart, RangeNext, RangeEnd, SummarizeGet,
                   SummarizePut, AssignInfo, AssignResult, AssignPut, PrintCalled,
                   PrintFailed, PrintRateFailed, PrintRateCalled, PrintP50, PrintP99,
                   PrintCount, PrintDelay, Generate, ApplyRules, WriteFinding
  <2>1. HandIsLast' /\ SeenTaken'
    BY DEF HandIsLast, SeenTaken
  <2>2. RangeVisits'
    <3>1. CASE RangeStart
      BY <3>1 DEF RangeVisits, SeenTaken, CountInv, QuietMain, Handling
    <3>2. CASE RangeEnd
      BY <3>2 DEF RangeVisits, LinesBeforeFindings
    <3>3. CASE ~RangeStart /\ ~RangeEnd
      BY <3>3 DEF RangeVisits
    <3>4. QED
      BY <3>1, <3>2, <3>3
  <2>3. LinesBeforeFindings'
    BY DEF LinesBeforeFindings
  <2>4. FilesInOrder'
    BY DEF FilesInOrder
  <2>5. QED
    BY <2>1, <2>2, <2>3, <2>4
<1>4. QED
  BY <1>1, <1>2, <1>3 DEF Shutdown

\* Every step preserves WindowInv.
LEMMA NextWindow == IInv /\ CountInv /\ WindowInv /\ [Next]_vars => WindowInv'
<1> SUFFICES ASSUME IInv, CountInv, WindowInv, [Next]_vars PROVE WindowInv'
  OBVIOUS
<1>1. CASE Main
  BY <1>1, MainWindow
<1>2. CASE Shutdown
  BY <1>2, ShutdownWindow
<1>3. CASE Stop \/ Fault \/ Gone \/ UNCHANGED vars
  <2>1. /\ UNCHANGED <<shutPc, hand, seen, syscallID, rangeKeys, busyAtClose, taken>>
        /\ UNCHANGED <<perf, findings, written>>
        /\ mainPc' = mainPc \/ mainPc' = "crashed"
    BY <1>3 DEF Stop, Fault, Gone, vars, mainVars, shutVars, localVars, ringVars,
                bookVars, fileVars, reportVars
  <2>2. QED
    BY <2>1 DEF WindowInv, HandIsLast, SeenTaken, RangeVisits, LinesBeforeFindings,
                FilesInOrder, TakenOf, Quiet, Handling
<1>4. QED
  BY <1>1, <1>2, <1>3 DEF Next

\* The order of the reports and the syscalls they cover, at every step.
THEOREM CollectorWindowInvariant == Spec => []WindowInv
<1>1. Init => IInv /\ CountInv /\ WindowInv
  BY InitIInv, InitCount, InitWindow
<1>2. IInv /\ CountInv /\ WindowInv /\ [Next]_vars => (IInv /\ CountInv /\ WindowInv)'
  BY NextIInv, NextCount, NextWindow
<1>3. QED
  BY <1>1, <1>2, PTL DEF Spec
-----------------------------------------------------------------------------
(***************************************************************************)
(* The refinement: every step of the two goroutines is a step of           *)
(* WindowReport or leaves its variables alone.                             *)
(***************************************************************************)

\* Both modules count the events of a syscall alike, and WindowReport allows of
\* a report what the invariants bound.
LEMMA PromisedCounts ==
  ASSUME IInv, NEW id \in Ids, shutPc \notin BeforeClose
  PROVE  /\ Promise!TakenOf(id) = TakenOf(id)
         /\ TakenOf(id) \in Nat
         /\ id \in Late <=> ~Quiet(id)
         /\ \A n : Short(n, id) /\ (Quiet(id) => n = TakenOf(id)) => n \in Promise!Counts(id)
         /\ \A n : Cover(n, id) /\ (Quiet(id) => n = TakenOf(id)) => n \in Promise!Covers(id)
<1>1. Promise!TakenOf(id) = TakenOf(id) /\ TakenOf(id) \in Nat
  <2>1. Promise!TakenOf(id) = TakenOf(id)
    BY DEF Promise!TakenOf, Promise!CountOf, Promise!Cardinality, TakenOf, CountOf,
           Cardinality
  <2>2. CountOf(taken, id) \in Nat
    BY CountAppend DEF IInv, TypeOK
  <2>3. QED
    BY <2>1, <2>2 DEF TakenOf
<1>2. id \in Late <=> ~Quiet(id)
  BY DEF Late, Quiet
<1>3. QED
  BY <1>1, <1>2 DEF Promise!Counts, Promise!Covers, Short, Cover

\* The same for a result that findings are drawn from.
LEMMA PromisedResult ==
  ASSUME IInv, NEW id \in Ids, shutPc \notin BeforeClose, NEW r \in Stats,
         Result(r, id), Quiet(id) => r = Full(id)
  PROVE  r \in Promise!Results(id)
<1>1. CASE Quiet(id)
  <2>1. TakenOf(id) \in Promise!Counts(id) /\ TakenOf(id) \in Promise!Covers(id)
    BY <1>1, PromisedCounts DEF Short, Cover
  <2>2. QED
    BY <1>1, <2>1 DEF Promise!Results, Full
<1>2. CASE ~Quiet(id)
  <2>1. CASE r = ZeroStats
    BY <1>2, <2>1, PromisedCounts DEF Promise!Results, Promise!Nothing, ZeroStats
  <2>2. CASE Short(r.called, id) /\ Cover(r.over, id)
    <3>1. r.called \in Promise!Counts(id) /\ r.over \in Promise!Covers(id)
      BY <1>2, <2>2, PromisedCounts
    <3>2. QED
      BY <3>1 DEF Promise!Results, Stats
  <2>3. QED
    BY <2>1, <2>2 DEF Result
<1>3. QED
  BY <1>1, <1>2

\* Nothing of the promise changes if these do not.
LEMMA Unpromised ==
  ASSUME UNCHANGED <<taken, hand, busyAtClose, json, perf, findings, written, syscallID>>,
         (shutPc \in BeforeClose) = (shutPc' \in BeforeClose),
         (shutPc \in Printing) = (shutPc' \in Printing),
         (shutPc = "rules") = (shutPc' = "rules"),
         (Alive /\ Alive') \/ UNCHANGED mainPc
  PROVE  UNCHANGED Promise!windowVars
<1>1. UNCHANGED <<Late, Trace, Printed, Judged, Fate>>
  BY DEF Late, Trace, Printed, Judged, Fate, Alive
<1>2. UNCHANGED <<Summary, Verdicts>>
  BY <1>1 DEF Summary, Verdicts
<1>3. QED
  BY <1>1, <1>2 DEF Promise!windowVars

\* Initially the window is open and nothing is reported.
LEMMA InitRefines == Init => Promise!WindowInit
<1> SUFFICES ASSUME Init PROVE Promise!WindowInit
  OBVIOUS
<1>1. Late = {} /\ Trace = {} /\ Fate = "running" /\ Printed = {} /\ Judged = {}
  BY DEF Init, Late, Trace, Fate, Printed, Judged, Alive, BeforeClose
<1>2. Summary = [id \in {} |-> {}] /\ Verdicts = [id \in {} |-> {}]
  BY <1>1 DEF Summary, Verdicts
<1>3. QED
  BY <1>1, <1>2 DEF Init, Promise!WindowInit, BeforeClose

\* run() takes an event while the window is open, or ends the process.
LEMMA MainRefines ==
  ASSUME IInv, WindowInv, Main
  PROVE  [Promise!WindowNext]_Promise!windowVars
<1>1. CASE \E id \in Ids : ReadSelected(id)
  <2>1. PICK e \in Ids : ReadSelected(e)
    BY <1>1
  <2>2. /\ UNCHANGED <<shutPc, busyAtClose, json, perf, findings, written, syscallID>>
        /\ taken' = Append(taken, e) /\ mainPc = "inRead" /\ mainPc' = "seen"
        /\ shutPc \in BeforeClose
    BY <2>1 DEF ReadSelected, Run, NothingHandled, shutVars, localVars, ringVars,
                fileVars, reportVars, IInv, ReaderClosed
  <2>3. UNCHANGED <<Late, Trace, Printed, Judged, Fate>> /\ Fate = "running"
    BY <2>2 DEF Late, Trace, Printed, Judged, Fate, Alive
  <2>4. UNCHANGED <<Summary, Verdicts>>
    BY <2>2, <2>3 DEF Summary, Verdicts
  <2>5. Promise!Take(e)
    BY <2>2, <2>3, <2>4 DEF Promise!Take
  <2>6. QED
    BY <2>3, <2>5 DEF Promise!WindowNext
<1>2. CASE ~(\E id \in Ids : ReadSelected(id)) /\ ~Leave
  <2>1. Alive /\ Alive'
    BY <1>2 DEF Main, EnterRead, ReadDropped, ReadClosed, ReadFails, Handle, MarkSeen,
                StatsGet, StatsPut, WriteLog, AppendDatas, InfoGet, InfoPut, Return,
                MainClose, Cancel, Run, Alive
  <2>2. UNCHANGED <<taken, hand>>
    BY <1>2, MainKeeps
  <2>3. QED
    BY <2>1, <2>2, MainKeeps, Unpromised
<1>3. CASE Leave /\ ~(\E id \in Ids : ReadSelected(id))
  <2>1. UNCHANGED <<taken, hand, shutPc, busyAtClose, json, perf, findings, written,
                    syscallID>>
    BY <1>3, MainKeeps
  <2>2. UNCHANGED <<Late, Trace, Printed, Judged>> /\ Fate = "running" /\ Fate' = "exited"
    BY <1>3, <2>1 DEF Late, Trace, Printed, Judged, Fate, Alive, Leave, Run
  <2>3. UNCHANGED <<Summary, Verdicts>>
    BY <2>1, <2>2 DEF Summary, Verdicts
  <2>4. Promise!End
    BY <2>1, <2>2, <2>3 DEF Promise!End
  <2>5. QED
    BY <2>2, <2>4 DEF Promise!WindowNext
<1>4. QED
  BY <1>1, <1>2, <1>3

\* The window closes when rd.Close returns; the event in hand then is late.
LEMMA CloseRefines ==
  ASSUME IInv, CountInv, WindowInv, CloseReader
  PROVE  [Promise!WindowNext]_Promise!windowVars
<1>1. /\ UNCHANGED <<mainPc, taken, hand, json, perf, findings, written, syscallID>>
      /\ Alive /\ Alive' /\ shutPc \in BeforeClose
  BY DEF CloseReader, Wake, ClosePoller, CloseRing, Shut, Alive, mainVars, localVars,
         fileVars, reportVars, BeforeClose
<1>2. CASE shutPc' \in BeforeClose
  <2>1. UNCHANGED busyAtClose /\ shutPc' \notin Printing \cup {"rules"}
          /\ shutPc \notin Printing \cup {"rules"}
    BY <1>2 DEF CloseReader, Wake, ClosePoller, CloseRing, Shut, BeforeClose, ringVars,
                Printing
  <2>2. QED
    BY <1>1, <1>2, <2>1, Unpromised
<1>3. CASE shutPc' \notin BeforeClose
  <2>1. /\ shutPc' = "openJSON" /\ busyAtClose' = (mainPc \in Handling)
        /\ shutPc \notin Printing \cup {"rules"} /\ shutPc' \notin Printing \cup {"rules"}
    BY <1>3 DEF CloseReader, Wake, ClosePoller, CloseRing, Shut, BeforeClose, Printing
  <2>2. UNCHANGED <<Trace, Printed, Judged, Fate>> /\ Fate = "running" /\ Late = {}
    BY <1>1, <2>1 DEF Trace, Printed, Judged, Fate, Late, Alive
  <2>3. UNCHANGED <<Summary, Verdicts>>
    BY <1>1, <2>2 DEF Summary, Verdicts
  <2>4. Late' = {} \/ (taken # <<>> /\ Late' = {taken[Len(taken)]})
    <3>1. CASE mainPc \in Handling
      BY <1>1, <1>3, <2>1, <3>1 DEF Late, WindowInv, HandIsLast
    <3>2. CASE mainPc \notin Handling
      BY <1>3, <2>1, <3>2 DEF Late
    <3>3. QED
      BY <3>1, <3>2
  <2>5. Promise!Close
    BY <1>1, <1>3, <2>2, <2>3, <2>4 DEF Promise!Close
  <2>6. QED
    BY <2>2, <2>5 DEF Promise!WindowNext
<1>4. QED
  BY <1>2, <1>3

\* What precedes the last element of a sequence.
LEMMA AppendedFront ==
  ASSUME NEW S, NEW s \in Seq(S), NEW x
  PROVE  SubSeq(Append(s, x), 1, Len(Append(s, x)) - 1) = s
<1>1. Len(s) \in Nat /\ Len(Append(s, x)) = Len(s) + 1
  OBVIOUS
<1>2. SubSeq(Append(s, x), 1, Len(s)) = s
  BY <1>1
<1>3. QED
  BY <1>1, <1>2

\* What datas can be read as is the events taken but perhaps the late one, or
\* with that one broken.
LEMMA SnapshotPromised ==
  ASSUME IInv, CountInv, WindowInv, shutPc \notin BeforeClose, Alive,
         NEW text \in Snapshots
  PROVE  text \in Promise!Texts
<1> USE DEF IInv, BooksFollowHandler
<1>1. CASE mainPc \in {"seen", "statsGet", "statsPut", "log", "datas"}
  <2>1. taken = Append(datas, hand) /\ datas \in Seq(Ids)
    BY <1>1 DEF TypeOK
  <2>2. Promise!AllButLast = datas
    BY <2>1, AppendedFront DEF Promise!AllButLast
  <2>3. Late = {hand}
    BY <1>1 DEF Late, CountInv, QuietMain, Handling
  <2>4. QED
    BY <2>2, <2>3 DEF Snapshots, Promise!Texts
<1>2. CASE mainPc \notin {"seen", "statsGet", "statsPut", "log", "datas"}
  <2>1. datas = taken
    BY <1>2 DEF Alive, Handling
  <2>2. QED
    BY <1>2, <2>1 DEF Snapshots, Promise!Texts
<1>3. QED
  BY <1>1, <1>2

\* running.json holds the events taken, but perhaps the late one.
LEMMA OpenRefines ==
  ASSUME IInv, CountInv, WindowInv, OpenReports
  PROVE  [Promise!WindowNext]_Promise!windowVars
<1>1. /\ UNCHANGED <<mainPc, taken, hand, busyAtClose, perf, findings, syscallID>>
      /\ Alive /\ Alive'
      /\ shutPc \notin BeforeClose \cup Printing \cup {"rules"}
      /\ shutPc' \notin BeforeClose \cup Printing \cup {"rules"}
  BY DEF OpenReports, OpenJSON, OpenFinding, OpenPerf, OpenFile, ShutFails, OpenPerfFails,
         WriteJSON, Shut, Alive, mainVars, localVars, ringVars, BeforeClose, Opening, Printing
<1>2. CASE ~WriteJSON
  <2>1. UNCHANGED <<json, written>>
    BY <1>2 DEF OpenReports, OpenJSON, OpenFinding, OpenPerf, OpenFile, ShutFails,
                OpenPerfFails
  <2>2. QED
    BY <1>1, <2>1, Unpromised
<1>3. CASE WriteJSON
  <2>1. shutPc = "writeJSON" /\ json' \in Snapshots
          /\ written' = written \cup {"running.json"}
    BY <1>3 DEF WriteJSON, Shut
  <2>2. /\ "running.json" \notin written /\ "finding.json" \notin written
        /\ "running.json" \in written' /\ "finding.json" \notin written'
    BY <2>1 DEF WindowInv, FilesInOrder, Reporting, Summarizing, Printing
  <2>3. /\ UNCHANGED <<Late, Printed, Judged, Fate>> /\ Fate = "running"
        /\ Trace = {} /\ Trace' = {json'}
    BY <1>1, <2>2 DEF Late, Printed, Judged, Fate, Alive, Trace
  <2>4. UNCHANGED <<Summary, Verdicts>>
    BY <1>1, <2>3 DEF Summary, Verdicts
  <2>5. json' \in Promise!Texts
    BY <1>1, <2>1, SnapshotPromised
  <2>6. Promise!WriteTrace
    BY <1>1, <2>2, <2>3, <2>4, <2>5 DEF Promise!WriteTrace
  <2>7. QED
    BY <2>3, <2>6 DEF Promise!WindowNext
<1>4. QED
  BY <1>2, <1>3

\* What a line says of a syscall is promised of it.
LEMMA PrintRefines ==
  ASSUME IInv, CountInv, WindowInv, PrintP99,
         UNCHANGED <<mainPc, hand, taken, busyAtClose, json>>
  PROVE  Promise!WindowNext
<1>1. /\ shutPc = "p99" /\ shutPc' = "generate" /\ Alive
      /\ perf' = [perf EXCEPT ![syscallID].over = @ \cup {stats[syscallID].over}]
      /\ UNCHANGED <<syscallID, stats, findings, written>>
  BY DEF PrintP99, PrintDelay, Shut, localVars
<1>2. /\ syscallID \in DOMAIN perf /\ syscallID \in Ids /\ TakenOf(syscallID) > 0
      /\ "running.json" \in written /\ "finding.json" \notin written
  BY <1>1 DEF WindowInv, LinesBeforeFindings, SeenTaken, FilesInOrder, IInv, TypeOK, InBody,
              Reporting, Summarizing, Printing
<1>3. /\ DOMAIN perf' = DOMAIN perf
      /\ \A id \in DOMAIN perf \ {syscallID} : perf'[id] = perf[id]
      /\ perf'[syscallID] = [called |-> perf[syscallID].called,
                             over   |-> perf[syscallID].over \cup {stats[syscallID].over}]
  <2>1. perf[syscallID] \in Line
    BY <1>2 DEF IInv, TypeOK
  <2>2. QED
    BY <1>1, <1>2, <2>1 DEF Line
<1>4. /\ UNCHANGED <<Late, Trace, Judged, Fate>> /\ Fate = "running" /\ Trace # {}
      /\ Printed = DOMAIN perf \ {syscallID} /\ Printed' = DOMAIN perf
  BY <1>1, <1>2, <1>3 DEF Late, Trace, Judged, Fate, Alive, Printed, Printing, BeforeClose
<1>5. perf'[syscallID] \in Promise!Lines(syscallID)
  <2>1. shutPc \notin BeforeClose
    BY <1>1 DEF BeforeClose
  <2>2. ASSUME NEW n \in perf[syscallID].called
        PROVE  n \in Promise!Counts(syscallID)
    <3>1. Short(n, syscallID)
      BY <1>2 DEF CountInv, CountsClose
    <3>2. Quiet(syscallID) => n = TakenOf(syscallID)
      BY <1>2, <2>1 DEF CountInv, CountsRight, QuietMain, Quiet, Uncounted, Handling
    <3>3. QED
      BY <1>2, <2>1, <3>1, <3>2, PromisedCounts
  <2>3. ASSUME NEW n \in perf[syscallID].over \cup {stats[syscallID].over}
        PROVE  n \in Promise!Covers(syscallID)
    <3>1. /\ Cover(n, syscallID)
          /\ Quiet(syscallID) => n = TakenOf(syscallID)
      BY <1>1, <1>2 DEF CountInv, OverRight, Printing
    <3>2. QED
      BY <1>2, <2>1, <3>1, PromisedCounts
  <2>4. perf[syscallID].called # {}
    BY <1>2 DEF CountInv, LinesMade
  <2>5. /\ perf[syscallID].called \in Promise!Reads(Promise!Counts(syscallID))
        /\ perf[syscallID].over \cup {stats[syscallID].over}
             \in Promise!Reads(Promise!Covers(syscallID))
    BY <2>2, <2>3, <2>4 DEF Promise!Reads
  <2>6. QED
    BY <1>3, <2>5 DEF Promise!Lines
<1>6. DOMAIN Summary = Printed /\ syscallID \notin DOMAIN Summary
  BY <1>4 DEF Summary
<1>7. Summary' = [id \in DOMAIN Summary \cup {syscallID} |->
                    IF id = syscallID THEN perf'[syscallID] ELSE Summary[id]]
  BY <1>2, <1>3, <1>4 DEF Summary
<1>8. UNCHANGED Verdicts
  BY <1>1, <1>4 DEF Verdicts
<1>9. Promise!TakenOf(syscallID) > 0
  BY <1>1, <1>2, PromisedCounts DEF BeforeClose
<1>10. Promise!PutLine(syscallID)
  BY <1>1, <1>2, <1>4, <1>5, <1>6, <1>7, <1>8, <1>9 DEF Promise!PutLine, BeforeClose
<1>11. QED
  BY <1>2, <1>4, <1>10 DEF Promise!WindowNext

\* A record is of a smaller type if its fields are.
LEMMA InfoNarrowed ==
  ASSUME NEW A, NEW B, NEW C, NEW D, NEW r \in [running : A, result : B],
         r.running \in C, r.result \in D
  PROVE  r \in [running : C, result : D]
OBVIOUS

\* What the rules may read of a syscall is promised, of the one they look up.
LEMMA PromisedDrawn ==
  ASSUME IInv, NEW id \in Ids, shutPc \notin BeforeClose, NEW d \in Info,
         RunningDrawn(d, Home(id)), ResultDrawn(d, Home(id), id \in Named)
  PROVE  d \in Promise!Infos(id)
<1>1. Home(id) \in Ids /\ d \in [running : Nat, result : Stats]
  BY HomeIsId DEF Info
<1>2. d.running \in Promise!Counts(Home(id))
  BY <1>1, PromisedCounts DEF RunningDrawn
<1>3. d.result \in Promise!Results(Home(id)) \/ (id \notin Named /\ d.result = ZeroStats)
  BY <1>1, PromisedResult DEF ResultDrawn
<1>4. CASE id \in Named
  <2>1. Home(id) = id
    BY <1>4 DEF Home
  <2>2. d \in [running : Promise!Counts(id), result : Promise!Results(id)]
    BY <1>1, <1>2, <1>3, <1>4, <2>1, InfoNarrowed
  <2>3. QED
    BY <1>4, <2>2 DEF Promise!Infos
<1>5. CASE id \notin Named
  <2>1. Home(id) = Zero
    BY <1>5 DEF Home
  <2>2. d.result \in Promise!Results(Zero) \cup {Promise!Nothing}
    BY <1>3, <2>1 DEF Promise!Nothing, ZeroStats
  <2>3. d \in [running : Promise!Counts(Zero),
              result : Promise!Results(Zero) \cup {Promise!Nothing}]
    BY <1>1, <1>2, <2>1, <2>2, InfoNarrowed
  <2>4. QED
    BY <1>5, <2>3 DEF Promise!Infos
<1>6. QED
  BY <1>4, <1>5

\* What findings are drawn from is promised of their syscall.
LEMMA RulesRefine ==
  ASSUME IInv, CountInv, WindowInv, ApplyRules,
         UNCHANGED <<mainPc, hand, taken, busyAtClose, json>>
  PROVE  Promise!WindowNext
<1>1. /\ shutPc = "rules" /\ shutPc' = "range" /\ Alive
      /\ findings' = [findings EXCEPT ![syscallID].last = overall[Home(syscallID)]]
      /\ UNCHANGED <<syscallID, overall, perf, written>>
  BY DEF ApplyRules, Shut, localVars
<1>2. /\ syscallID \in DOMAIN perf /\ syscallID \in DOMAIN findings /\ syscallID \in Ids
      /\ "finding.json" \notin written
  BY <1>1 DEF WindowInv, LinesBeforeFindings, FilesInOrder, IInv, TypeOK
<1>3. /\ UNCHANGED <<Late, Trace, Printed, Fate>> /\ Fate = "running" /\ Printed = DOMAIN perf
      /\ DOMAIN findings' = DOMAIN findings
      /\ Judged = DOMAIN findings \ {syscallID} /\ Judged' = DOMAIN findings
  BY <1>1 DEF Late, Trace, Fate, Alive, Printed, Judged, Printing, BeforeClose
<1>4. UNCHANGED Summary /\ DOMAIN Summary = DOMAIN perf
  BY <1>1, <1>3 DEF Summary
<1>5. shutPc \notin BeforeClose /\ shutPc' \notin BeforeClose
  BY <1>1 DEF BeforeClose
<1>6. /\ DOMAIN findings' = DOMAIN findings /\ findings'[syscallID] \in Drawn
      /\ \A id \in DOMAIN findings \ {syscallID} : findings'[id] = findings[id]
  BY <1>1, <1>2, <1>3, RulesKeep DEF IInv, TypeOK
<1>7. findings'[syscallID] \in [first : Promise!Infos(syscallID),
                               last  : Promise!Infos(syscallID)]
  <2>1. ASSUME NEW d \in {findings'[syscallID].first, findings'[syscallID].last}
        PROVE  d \in Promise!Infos(syscallID)
    <3>1. RunningDrawn(d, Home(syscallID)) /\ ResultDrawn(d, Home(syscallID), syscallID \in Named)
      BY <1>2, <1>6, RulesRead DEF CountInv, RunningRight, ResultRight
    <3>2. d \in Info
      BY <1>6 DEF Drawn
    <3>3. QED
      BY <1>2, <1>5, <3>1, <3>2, PromisedDrawn
  <2>2. QED
    BY <1>6, <2>1 DEF Drawn
<1>8. DOMAIN Verdicts = Judged /\ syscallID \notin DOMAIN Verdicts
  BY <1>3 DEF Verdicts
<1>9. Verdicts' = [id \in DOMAIN Verdicts \cup {syscallID} |->
                     IF id = syscallID THEN findings'[syscallID] ELSE Verdicts[id]]
  BY <1>2, <1>3, <1>6, <1>8 DEF Verdicts
<1>10. Promise!Draw(syscallID)
  BY <1>1, <1>2, <1>3, <1>4, <1>5, <1>7, <1>8, <1>9 DEF Promise!Draw
<1>11. QED
  BY <1>2, <1>3, <1>10 DEF Promise!WindowNext

\* finding.json covers every syscall but the late one's.
LEMMA FinishRefines ==
  ASSUME IInv, CountInv, WindowInv, WriteFinding, written' # written,
         UNCHANGED <<mainPc, hand, taken, busyAtClose, json>>
  PROVE  Promise!WindowNext
<1>1. /\ shutPc = "writeFinding" /\ shutPc' = "done" /\ Alive
      /\ written' = written \cup {"finding.json"}
      /\ UNCHANGED <<syscallID, perf, findings>>
  BY DEF WriteFinding, Shut, localVars
<1>2. /\ "running.json" \in written /\ "finding.json" \notin written
      /\ "running.json" \in written' /\ "finding.json" \in written'
  BY <1>1 DEF WindowInv, FilesInOrder, Reporting
<1>3. /\ UNCHANGED <<Late, Trace, Printed, Judged, Fate>> /\ Fate = "running" /\ Trace # {}
      /\ Judged = DOMAIN findings
  BY <1>1, <1>2 DEF Late, Trace, Fate, Alive, Printed, Judged, Printing, BeforeClose
<1>4. UNCHANGED <<Summary, Verdicts>> /\ DOMAIN Verdicts = DOMAIN findings
  BY <1>1, <1>3 DEF Summary, Verdicts
<1>5. ASSUME NEW id \in Ids \ Late, Promise!TakenOf(id) > 0
      PROVE  id \in DOMAIN Verdicts
  <2>1. TakenOf(id) > 0 /\ Quiet(id)
    BY <1>1, <1>5, PromisedCounts DEF BeforeClose
  <2>2. QED
    BY <1>1, <1>4, <2>1 DEF WindowInv, RangeVisits
<1>6. shutPc \notin BeforeClose /\ shutPc' \notin BeforeClose
  BY <1>1 DEF BeforeClose
<1>7. Promise!Finish
  BY <1>1, <1>2, <1>3, <1>4, <1>5, <1>6 DEF Promise!Finish
<1>8. QED
  BY <1>3, <1>7 DEF Promise!WindowNext

\* The rest of the summary shows in no report: a line that lacks a number does
\* not count, nor do findings before the last rule.
LEMMA SummarizeRefines ==
  ASSUME IInv, CountInv, WindowInv, Summarize
  PROVE  [Promise!WindowNext]_Promise!windowVars
<1>1. /\ UNCHANGED <<mainPc, hand, taken, busyAtClose, json>> /\ Alive /\ Alive'
      /\ shutPc \notin BeforeClose /\ shutPc' \notin BeforeClose
  BY DEF Summarize, RangeStart, RangeNext, RangeEnd, SummarizeGet, SummarizePut,
         AssignInfo, AssignResult, AssignPut, PrintCalled, PrintFailed, PrintRateFailed,
         PrintRateCalled, PrintP50, PrintP99, PrintCount, PrintDelay, Generate, ApplyRules,
         WriteFinding, Shut, Alive, mainVars, ringVars, BeforeClose
<1>2. CASE PrintP99 \/ ApplyRules \/ (WriteFinding /\ written' # written)
  BY <1>1, <1>2, PrintRefines, RulesRefine, FinishRefines
<1>3. CASE RangeStart \/ (\E id \in Ids : RangeNext(id)) \/ RangeEnd \/ SummarizeGet
             \/ SummarizePut \/ AssignInfo \/ AssignResult \/ AssignPut
             \/ (WriteFinding /\ written' = written)
  <2>1. /\ UNCHANGED <<perf, findings, written>>
        /\ shutPc = "asgPut" \/ shutPc' \notin Printing
        /\ shutPc \notin Printing
        /\ shutPc # "rules" /\ shutPc' # "rules"
        /\ shutPc = "asgPut" => syscallID \notin DOMAIN perf /\ UNCHANGED syscallID
    BY <1>3 DEF RangeStart, RangeNext, RangeEnd, SummarizeGet, SummarizePut, AssignInfo,
                AssignResult, AssignPut, WriteFinding, Shut, localVars, reportVars, Printing,
                WindowInv, LinesBeforeFindings, InBody, Summarizing
  <2>2. UNCHANGED <<Late, Trace, Printed, Judged, Fate>>
    BY <1>1, <2>1 DEF Late, Trace, Printed, Judged, Fate
  <2>3. UNCHANGED <<Summary, Verdicts>>
    BY <2>1, <2>2 DEF Summary, Verdicts
  <2>4. QED
    BY <1>1, <2>1, <2>2, <2>3 DEF Promise!windowVars
<1>4. CASE PrintCalled \/ PrintFailed \/ PrintRateFailed \/ PrintRateCalled \/ PrintP50
  <2>1. /\ shutPc \in Printing /\ shutPc' \in Printing
        /\ \A id \in DOMAIN perf \ {syscallID} : perf'[id] = perf[id]
        /\ DOMAIN perf' \cup {syscallID} = DOMAIN perf \cup {syscallID}
        /\ UNCHANGED <<syscallID, findings, written>>
    BY <1>4 DEF PrintCalled, PrintFailed, PrintRateFailed, PrintRateCalled, PrintP50,
                PrintCount, PrintDelay, Shut, localVars, Printing, IInv, TypeOK
  <2>2. UNCHANGED <<Late, Trace, Printed, Judged, Fate>> /\ Printed = DOMAIN perf \ {syscallID}
    BY <1>1, <2>1 DEF Late, Trace, Printed, Judged, Fate, Printing
  <2>3. UNCHANGED <<Summary, Verdicts>>
    BY <2>1, <2>2 DEF Summary, Verdicts
  <2>4. QED
    BY <1>1, <2>1, <2>2, <2>3 DEF Promise!windowVars
<1>5. CASE Generate
  <2>1. /\ shutPc = "generate" /\ shutPc' = "rules"
        /\ DOMAIN findings' = DOMAIN findings \cup {syscallID}
        /\ \A id \in DOMAIN findings \ {syscallID} : findings'[id] = findings[id]
        /\ UNCHANGED <<syscallID, perf, written>>
    BY <1>5 DEF Generate, Shut, localVars
  <2>2. syscallID \notin DOMAIN findings
    BY <2>1 DEF WindowInv, LinesBeforeFindings, InBody, Summarizing
  <2>3. UNCHANGED <<Late, Trace, Printed, Judged, Fate>> /\ Judged = DOMAIN findings
    BY <1>1, <2>1, <2>2 DEF Late, Trace, Printed, Judged, Fate, Printing
  <2>4. UNCHANGED <<Summary, Verdicts>>
    BY <2>1, <2>2, <2>3 DEF Summary, Verdicts
  <2>5. QED
    BY <1>1, <2>1, <2>3, <2>4 DEF Promise!windowVars
<1>6. QED
  BY <1>2, <1>3, <1>4, <1>5 DEF Summarize

\* The process ends by a fault only with an event in hand.
LEMMA FaultRefines ==
  ASSUME IInv, CountInv, Fault
  PROVE  Promise!WindowNext
<1>1. /\ mainPc \in Handling /\ shutPc \notin BeforeClose /\ mainPc' = "crashed"
      /\ UNCHANGED <<shutPc, taken, hand, busyAtClose, json, perf, findings, written,
                     syscallID>>
  BY Labels DEF Fault, MapConflict, MapsWritten, MapsRead, SliceConflict, Printing,
                Handling, BeforeClose, IInv,
                TypeOK, shutVars, localVars, ringVars, fileVars, reportVars
<1>2. busyAtClose
  BY <1>1 DEF CountInv, QuietMain, IInv, TypeOK
<1>3. /\ UNCHANGED <<Late, Trace, Printed, Judged>> /\ Late = {hand}
      /\ Fate = "running" /\ Fate' = "crashed"
  BY <1>1, <1>2 DEF Late, Trace, Printed, Judged, Fate, Alive, Handling
<1>4. UNCHANGED <<Summary, Verdicts>>
  BY <1>1, <1>3 DEF Summary, Verdicts
<1>5. Promise!End
  BY <1>1, <1>3, <1>4 DEF Promise!End
<1>6. QED
  BY <1>3, <1>5 DEF Promise!WindowNext

\* Every step is one of WindowReport, or is not seen there.
LEMMA StepRefines ==
  ASSUME IInv, CountInv, WindowInv, [Next]_vars
  PROVE  [Promise!WindowNext]_Promise!windowVars
<1>1. CASE Main
  BY <1>1, MainRefines
<1>2. CASE Shutdown
  BY <1>2, CloseRefines, OpenRefines, SummarizeRefines DEF Shutdown
<1>3. CASE Fault
  BY <1>3, FaultRefines
<1>4. CASE Stop \/ Gone \/ UNCHANGED vars
  <2>1. UNCHANGED <<mainPc, shutPc, taken, hand, busyAtClose, json, perf, findings,
                    written, syscallID>>
    BY <1>4 DEF Stop, Gone, vars, mainVars, shutVars, localVars, ringVars, fileVars,
                reportVars
  <2>2. QED
    BY <2>1, Unpromised
<1>5. QED
  BY <1>1, <1>2, <1>3, <1>4 DEF Next

\* Whatever the two goroutines overwrite of each other's, the window's reports are
\* what WindowReport promises.
THEOREM CollectorImplementsReport == Spec => ImplementsReport
<1>1. IInv /\ CountInv /\ WindowInv /\ [Next]_vars
        => [Promise!WindowNext]_Promise!windowVars
  BY StepRefines
<1>2. QED
  BY <1>1, InitRefines, CollectorInvariant, CollectorCountInvariant,
     CollectorWindowInvariant, PTL DEF Spec, ImplementsReport, Promise!WindowSpec
-----------------------------------------------------------------------------
(***************************************************************************)
(* The end of a window: what is left to do once the reader is closed.      *)
(***************************************************************************)

\* The operations of run() until main() returns, and of the goroutine until it
\* returns; a round of the range loop has its own steps in StepsLeft.
MainLeft ==
  [call |-> 5, inRead |-> 13, seen |-> 12, statsGet |-> 11, statsPut |-> 10,
   log |-> 9, datas |-> 8, infoGet |-> 7, infoPut |-> 6, close |-> 4,
   cancel |-> 3, leave |-> 2, exited |-> 0, crashed |-> 0]

ShutLeft ==
  [wait |-> 24, close |-> 23, closeRing |-> 22, openJSON |-> 21, openFinding |-> 20,
   writeJSON |-> 19, openPerf |-> 18, rangeStart |-> 17, failed |-> 16, rateFailed |-> 15,
   rateCalled |-> 14, p50 |-> 13, p99 |-> 12, generate |-> 11, rules |-> 10, range |-> 9,
   sumGet |-> 8, sumPut |-> 7, asgInfo |-> 6, asgResult |-> 5, asgPut |-> 4, called |-> 3,
   writeFinding |-> 2, done |-> 0]

\* The system calls that may yet get a line, the one in hand among them if it is
\* a new one.
Pending ==
  (seen \cup (IF mainPc = "seen" THEN {hand} ELSE {})) \ DOMAIN perf

\* What the two goroutines may still do, a line that is pending for fourteen steps.
StepsLeft ==
  MainLeft[mainPc] + ShutLeft[shutPc] + (IF stopRequested THEN 0 ELSE 1)
    + 14 * Cardinality(Pending)

\* After the reader is closed, each step leaves fewer steps: the main loop's Read,
\* the handling of its last event, the files and the range loop over seenSyscalls
\* all come to an end, however they interleave and whichever of them fails.
EndsInSteps ==
  [][shutPc \notin BeforeClose =>
       StepsLeft \in Nat /\ StepsLeft' \in Nat /\ StepsLeft' < StepsLeft]_vars

\* The two tables do not change with the state.
LEMMA LeftSteady ==
  /\ MainLeft[mainPc]' = MainLeft[mainPc']
  /\ ShutLeft[shutPc]' = ShutLeft[shutPc']
<1>1. MainLeft[mainPc]' = MainLeft[mainPc']
  BY DEF MainLeft
<1>2. ShutLeft[shutPc]' = ShutLeft[shutPc']
  BY DEF ShutLeft
<1>3. QED
  BY <1>1, <1>2

\* The number of steps left is a number.
LEMMA LeftTypes ==
  /\ \A p \in MainLabels : MainLeft[p] \in Nat
  /\ \A p \in ShutLabels : ShutLeft[p] \in Nat
<1>1. ASSUME NEW p \in MainLabels PROVE MainLeft[p] \in Nat
  BY Labels DEF MainLeft
<1>2. ASSUME NEW p \in ShutLabels PROVE ShutLeft[p] \in Nat
  BY Labels DEF ShutLeft
<1>3. QED
  BY <1>1, <1>2

LEMMA LeftNat ==
  ASSUME IInv, IInv'
  PROVE  /\ MainLeft[mainPc] \in Nat /\ ShutLeft[shutPc] \in Nat
         /\ MainLeft[mainPc'] \in Nat /\ ShutLeft[shutPc'] \in Nat
<1>1. mainPc \in MainLabels /\ shutPc \in ShutLabels
  BY DEF IInv, TypeOK
<1>2. mainPc' \in MainLabels /\ shutPc' \in ShutLabels
  BY DEF IInv, TypeOK
<1>3. QED
  BY <1>1, <1>2, LeftTypes

\* What was seen was taken, and only so much was taken.
LEMMA PendingFinite ==
  ASSUME IInv, WindowInv
  PROVE  IsFiniteSet(Pending)
<1> DEFINE came == {taken[i] : i \in DOMAIN taken}
<1>1. PICK n \in Nat : DOMAIN taken = 1..n
  BY DEF IInv, TypeOK
<1>2. IsFiniteSet(came)
  <2>1. n \in Int
    BY <1>1
  <2>2. IsFiniteSet(1..n)
    BY <2>1, FS_Interval
  <2> DEFINE f == [i \in 1..n |-> taken[i]]
  <2>3. f \in Surjection(1..n, came)
    BY <1>1 DEF Surjection
  <2> HIDE DEF f, came
  <2>4. QED
    BY <2>2, <2>3, FS_Surjection
<1>3. seen \subseteq came
  <2> SUFFICES ASSUME NEW id \in seen PROVE \E i \in DOMAIN taken : taken[i] = id
    OBVIOUS
  <2>1. CountOf(taken, id) > 0
    BY DEF WindowInv, SeenTaken, TakenOf
  <2>2. {i \in DOMAIN taken : taken[i] = id} # {}
    <3>1. SUFFICES ASSUME {i \in DOMAIN taken : taken[i] = id} = {} PROVE FALSE
      OBVIOUS
    <3>2. CountOf(taken, id) = 0
      BY <3>1, FS_EmptySet DEF CountOf
    <3>3. QED
      BY <2>1, <3>2
  <2>3. QED
    BY <2>2
<1>4. IsFiniteSet(came \cup {hand})
  BY <1>2, FS_AddElement
<1>5. Pending \in SUBSET (came \cup {hand})
  BY <1>3 DEF Pending
<1>6. QED
  BY <1>4, <1>5, FS_Subset

\* Steps that make nothing pending get the window nearer to its end.
LEMMA FewerSteps ==
  ASSUME IInv, WindowInv, IInv',
         Pending' \subseteq Pending,
         MainLeft[mainPc]' + ShutLeft[shutPc]' + (IF stopRequested' THEN 0 ELSE 1)
           < MainLeft[mainPc] + ShutLeft[shutPc] + (IF stopRequested THEN 0 ELSE 1)
  PROVE  StepsLeft \in Nat /\ StepsLeft' \in Nat /\ StepsLeft' < StepsLeft
<1>1. IsFiniteSet(Pending) /\ Pending' \in SUBSET Pending
  BY PendingFinite
<1>2. Cardinality(Pending') <= Cardinality(Pending) /\ IsFiniteSet(Pending')
  BY <1>1, FS_Subset
<1>3. Cardinality(Pending) \in Nat /\ Cardinality(Pending') \in Nat
  BY <1>1, <1>2, FS_CardinalityType
<1>4. /\ MainLeft[mainPc] \in Nat /\ ShutLeft[shutPc] \in Nat
      /\ MainLeft[mainPc]' \in Nat /\ ShutLeft[shutPc]' \in Nat
  BY LeftNat, LeftSteady
<1>5. QED
  BY <1>2, <1>3, <1>4 DEF StepsLeft

LEMMA MainEnds ==
  ASSUME IInv, WindowInv, IInv', Main, shutPc \notin BeforeClose
  PROVE  StepsLeft \in Nat /\ StepsLeft' \in Nat /\ StepsLeft' < StepsLeft
<1>1. mainPc # "inRead" /\ (ringClosed \/ mainPc \in {"cancel", "leave", "exited", "crashed"})
  BY DEF IInv, ReaderClosed
<1>2. /\ shutPc' = shutPc /\ perf' = perf
      /\ ShutLeft[shutPc]' = ShutLeft[shutPc]
  <2>1. shutPc' = shutPc /\ perf' = perf
    BY DEF Main, EnterRead, ReadSelected, ReadDropped, ReadClosed, ReadFails, NothingHandled,
           Handle, Return, shutVars, localVars, fileVars, reportVars
  <2>2. QED
    BY <2>1 DEF ShutLeft
<1>3. /\ Pending' \subseteq Pending
      /\ MainLeft[mainPc'] < MainLeft[mainPc]
      /\ stopRequested' = stopRequested \/ stopRequested' = TRUE
  <2>1. CASE ReadClosed
    <3>1. mainPc = "call" /\ mainPc' = "close" /\ seen' = seen /\ stopRequested' = stopRequested
      BY <1>1, <2>1 DEF ReadClosed, NothingHandled, bookVars
    <3>2. QED
      BY <1>2, <3>1 DEF Pending, MainLeft
  <2>2. CASE Handle
    <3>1. hand' = hand /\ stopRequested' = stopRequested
      BY <2>2 DEF Handle
    <3>2. \/ mainPc = "seen" /\ mainPc' = "statsGet" /\ seen' = seen \cup {hand}
          \/ /\ seen' = seen
             /\ \/ mainPc = "statsGet" /\ mainPc' = "statsPut"
                \/ mainPc = "statsPut" /\ mainPc' = "log"
                \/ mainPc = "log" /\ mainPc' = "datas"
                \/ mainPc = "datas" /\ mainPc' = "infoGet"
                \/ mainPc = "infoGet" /\ mainPc' = "infoPut"
                \/ mainPc = "infoPut" /\ mainPc' = "call"
      BY <2>2 DEF Handle, Run, MarkSeen, StatsGet, StatsPut, WriteLog, AppendDatas, InfoGet,
                  InfoPut, bookVars
    <3>3. MainLeft[mainPc'] < MainLeft[mainPc]
      BY <3>2 DEF MainLeft
    <3>4. Pending' \subseteq Pending
      BY <1>2, <3>1, <3>2 DEF Pending
    <3>5. QED
      BY <3>1, <3>3, <3>4
  <2>3. CASE Return
    <3>1. /\ seen' = seen
          /\ \/ mainPc = "close" /\ mainPc' = "cancel" /\ stopRequested' = stopRequested
             \/ mainPc = "cancel" /\ mainPc' = "leave" /\ stopRequested' = TRUE
             \/ mainPc = "leave" /\ mainPc' = "exited" /\ stopRequested' = stopRequested
      BY <2>3 DEF Return, Run, MainClose, Cancel, Leave, bookVars
    <3>2. MainLeft[mainPc'] < MainLeft[mainPc]
      BY <3>1 DEF MainLeft
    <3>3. Pending' \subseteq Pending
      BY <1>2, <3>1 DEF Pending
    <3>4. QED
      BY <3>1, <3>2, <3>3
  <2>4. ~EnterRead
    BY <1>1 DEF EnterRead, Run
  <2>5. ~ReadFails /\ \A id \in Ids : ~ReadSelected(id) /\ ~ReadDropped(id)
    BY <1>1 DEF ReadFails, ReadSelected, ReadDropped, Run
  <2>6. QED
    BY <2>1, <2>2, <2>3, <2>4, <2>5 DEF Main
<1>4. MainLeft[mainPc]' = MainLeft[mainPc']
  BY LeftSteady
<1>5. /\ MainLeft[mainPc] \in Nat /\ ShutLeft[shutPc] \in Nat /\ MainLeft[mainPc'] \in Nat
      /\ stopRequested \in BOOLEAN
  BY LeftNat DEF IInv, TypeOK
<1>6. MainLeft[mainPc]' + ShutLeft[shutPc]' + (IF stopRequested' THEN 0 ELSE 1)
        < MainLeft[mainPc] + ShutLeft[shutPc] + (IF stopRequested THEN 0 ELSE 1)
  <2>1. (IF stopRequested' THEN 0 ELSE 1) \in {0, 1} /\ (IF stopRequested THEN 0 ELSE 1) \in {0, 1}
        /\ (IF stopRequested' THEN 0 ELSE 1) <= (IF stopRequested THEN 0 ELSE 1)
    <3>1. CASE stopRequested' = TRUE
      BY <3>1
    <3>2. CASE stopRequested' = stopRequested
      BY <3>2
    <3>3. QED
      BY <1>3, <3>1, <3>2
  <2>2. QED
    BY <1>2, <1>3, <1>4, <1>5, <2>1
<1>7. QED
  BY <1>3, <1>6, FewerSteps

\* A line that is printed is one pending system call less.
LEMMA PrintEnds ==
  ASSUME IInv, WindowInv, IInv', PrintCalled,
         UNCHANGED <<mainVars, taken, stopRequested, ringVars, seen, log, datas, files, json>>
  PROVE  StepsLeft \in Nat /\ StepsLeft' \in Nat /\ StepsLeft' < StepsLeft
<1>1. /\ shutPc = "called" /\ shutPc' = "failed"
      /\ DOMAIN perf' = DOMAIN perf \cup {syscallID}
      /\ mainPc' = mainPc /\ hand' = hand /\ seen' = seen /\ stopRequested' = stopRequested
  BY DEF PrintCalled, Shut, mainVars
<1>2. syscallID \in seen /\ syscallID \notin DOMAIN perf
  BY <1>1 DEF WindowInv, LinesBeforeFindings, InBody, Summarizing, Printing
<1>3. syscallID \in Pending /\ syscallID \notin Pending' /\ Pending' \in SUBSET Pending
  BY <1>1, <1>2 DEF Pending
<1>4. IsFiniteSet(Pending)
  BY PendingFinite
<1>5. IsFiniteSet(Pending') /\ Cardinality(Pending') < Cardinality(Pending)
  BY <1>3, <1>4, FS_Subset, FS_CardinalityType
<1>6. Cardinality(Pending) \in Nat /\ Cardinality(Pending') \in Nat
  BY <1>4, <1>5, FS_CardinalityType
<1>7. /\ MainLeft[mainPc]' = MainLeft[mainPc]
      /\ ShutLeft[shutPc]' = 16 /\ ShutLeft[shutPc] = 3
      /\ MainLeft[mainPc] \in Nat
  BY <1>1, LeftNat DEF ShutLeft, MainLeft
<1>8. QED
  BY <1>1, <1>5, <1>6, <1>7 DEF StepsLeft

LEMMA ShutdownEnds ==
  ASSUME IInv, WindowInv, IInv', Shutdown, shutPc \notin BeforeClose
  PROVE  StepsLeft \in Nat /\ StepsLeft' \in Nat /\ StepsLeft' < StepsLeft
<1>1. ~CloseReader
  BY DEF CloseReader, Wake, ClosePoller, CloseRing, Shut, BeforeClose
<1>2. /\ mainPc' = mainPc /\ hand' = hand /\ stopRequested' = stopRequested
      /\ seen' = seen
      /\ shutPc # shutPc'
  BY <1>1 DEF Shutdown, OpenReports, Summarize, mainVars, bookVars, OpenJSON, OpenFinding,
      OpenPerf, OpenFile, ShutFails, OpenPerfFails, WriteJSON, Opening, RangeStart, RangeNext,
      RangeEnd, SummarizeGet, SummarizePut, AssignInfo, AssignResult, AssignPut, PrintCalled,
      PrintFailed, PrintRateFailed, PrintRateCalled, PrintP50, PrintP99, PrintCount, PrintDelay,
      Generate, ApplyRules, WriteFinding, Shut
<1>3. CASE Summarize /\ PrintCalled
  BY <1>3, PrintEnds DEF Summarize
<1>4. CASE ~(Summarize /\ PrintCalled)
  <2>1. /\ DOMAIN perf' = DOMAIN perf
        /\ ShutLeft[shutPc'] < ShutLeft[shutPc]
    <3>1. CASE OpenReports
      <4>1. perf' = perf
        BY <3>1 DEF OpenReports
      <4>2. \/ shutPc = "openJSON" /\ shutPc' \in {"openFinding", "done"}
            \/ shutPc = "openFinding" /\ shutPc' \in {"writeJSON", "done"}
            \/ shutPc = "writeJSON" /\ shutPc' \in {"openPerf", "done"}
            \/ shutPc = "openPerf" /\ shutPc' = "rangeStart"
        BY <3>1 DEF OpenReports, OpenJSON, OpenFinding, OpenPerf, OpenFile, ShutFails,
                    OpenPerfFails, WriteJSON, Opening, Shut
      <4>3. QED
        BY <4>1, <4>2 DEF ShutLeft
    <3>2. CASE Summarize
      <4>1. DOMAIN perf' = DOMAIN perf
        BY <1>4, <3>2 DEF Summarize, reportVars, RangeStart, RangeNext, RangeEnd, SummarizeGet,
           SummarizePut, AssignInfo, AssignResult, AssignPut, PrintFailed, PrintRateFailed,
           PrintRateCalled, PrintP50, PrintP99, PrintCount, PrintDelay, Generate, ApplyRules,
           WriteFinding, IInv, TypeOK
      <4>2. \/ shutPc = "rangeStart" /\ shutPc' = "range"
            \/ shutPc = "range" /\ shutPc' \in {"sumGet", "writeFinding"}
            \/ shutPc = "sumGet" /\ shutPc' = "sumPut"
            \/ shutPc = "sumPut" /\ shutPc' = "asgInfo"
            \/ shutPc = "asgInfo" /\ shutPc' = "asgResult"
            \/ shutPc = "asgResult" /\ shutPc' = "asgPut"
            \/ shutPc = "asgPut" /\ shutPc' = "called"
            \/ shutPc = "failed" /\ shutPc' = "rateFailed"
            \/ shutPc = "rateFailed" /\ shutPc' = "rateCalled"
            \/ shutPc = "rateCalled" /\ shutPc' = "p50"
            \/ shutPc = "p50" /\ shutPc' = "p99"
            \/ shutPc = "p99" /\ shutPc' = "generate"
            \/ shutPc = "generate" /\ shutPc' = "rules"
            \/ shutPc = "rules" /\ shutPc' = "range"
            \/ shutPc = "writeFinding" /\ shutPc' = "done"
        BY <1>4, <3>2 DEF Summarize, Shut, RangeStart, RangeNext, RangeEnd, SummarizeGet,
           SummarizePut, AssignInfo, AssignResult, AssignPut, PrintFailed, PrintRateFailed,
           PrintRateCalled, PrintP50, PrintP99, PrintCount, PrintDelay, Generate, ApplyRules,
           WriteFinding
      <4>3. QED
        BY <4>1, <4>2 DEF ShutLeft
    <3>3. QED
      BY <1>1, <3>1, <3>2 DEF Shutdown
  <2>2. Pending' \subseteq Pending
    BY <1>2, <2>1 DEF Pending
  <2>3. /\ MainLeft[mainPc]' = MainLeft[mainPc] /\ ShutLeft[shutPc]' = ShutLeft[shutPc']
        /\ MainLeft[mainPc] \in Nat /\ ShutLeft[shutPc] \in Nat /\ ShutLeft[shutPc'] \in Nat
    BY <1>2, LeftNat, LeftSteady
  <2>4. MainLeft[mainPc]' + ShutLeft[shutPc]' + (IF stopRequested' THEN 0 ELSE 1)
          < MainLeft[mainPc] + ShutLeft[shutPc] + (IF stopRequested THEN 0 ELSE 1)
    BY <1>2, <2>1, <2>3
  <2>5. QED
    BY <2>2, <2>4, FewerSteps
<1>5. QED
  BY <1>3, <1>4

\* Once the reader is closed, each step of either goroutine brings the end
\* nearer, whatever fails, however often they overwrite each other's records and
\* however many system calls were seen: there is no way to go on for ever.
THEOREM CollectorEndsInSteps == Spec => EndsInSteps
<1>1. IInv /\ WindowInv /\ IInv' /\ [Next]_vars =>
        [shutPc \notin BeforeClose =>
           StepsLeft \in Nat /\ StepsLeft' \in Nat /\ StepsLeft' < StepsLeft]_vars
  <2> SUFFICES ASSUME IInv, WindowInv, IInv', Next, shutPc \notin BeforeClose, vars' # vars
               PROVE  StepsLeft \in Nat /\ StepsLeft' \in Nat /\ StepsLeft' < StepsLeft
    OBVIOUS
  <2>1. CASE Stop
    <3>1. /\ Pending' \subseteq Pending
          /\ MainLeft[mainPc]' = MainLeft[mainPc] /\ ShutLeft[shutPc]' = ShutLeft[shutPc]
          /\ stopRequested = FALSE /\ stopRequested' = TRUE
      BY <2>1 DEF Stop, mainVars, shutVars, bookVars, fileVars, reportVars, Pending, MainLeft,
                  ShutLeft, IInv, TypeOK
    <3>2. QED
      BY <3>1, LeftNat, FewerSteps
  <2>2. CASE Main
    BY <2>2, MainEnds
  <2>3. CASE Shutdown
    BY <2>3, ShutdownEnds
  <2>4. CASE Fault
    <3>1. /\ mainPc' = "crashed" /\ seen' = seen /\ perf' = perf
          /\ stopRequested' = stopRequested /\ shutPc' = shutPc
      BY <2>4 DEF Fault, shutVars, bookVars, fileVars, reportVars
    <3>2. mainPc \in Handling
      BY <2>4, Labels DEF Fault, MapConflict, MapsWritten, MapsRead, SliceConflict, Printing,
                          Handling, IInv, TypeOK
    <3>3. MainLeft[mainPc] \in Nat /\ MainLeft[mainPc] > 0 /\ MainLeft[mainPc'] = 0
      BY <3>1, <3>2 DEF MainLeft, Handling
    <3>4. MainLeft[mainPc]' = MainLeft[mainPc'] /\ ShutLeft[shutPc]' = ShutLeft[shutPc]
      BY <3>1 DEF MainLeft, ShutLeft
    <3>5. Pending' \subseteq Pending
      BY <3>1 DEF Pending
    <3>6. QED
      BY <3>1, <3>3, <3>4, <3>5, LeftNat, FewerSteps
  <2>5. CASE Gone
    BY <2>5 DEF Gone
  <2>6. QED
    BY <2>1, <2>2, <2>3, <2>4, <2>5 DEF Next
<1>2. QED
  BY <1>1, CollectorInvariant, CollectorWindowInvariant, PTL DEF Spec, EndsInSteps
=============================================================================
