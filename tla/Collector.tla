------------------------------- MODULE Collector -------------------------------
(***************************************************************************)
(* The user half of syscap once capture has begun: the main loop of run()  *)
(* in main.go, the goroutine that waits for the end of the capture window, *)
(* and the ring buffer reader they share.                                  *)
(*                                                                         *)
(* The two run concurrently and share datas, seenSyscalls,                 *)
(* syscallStatistics and syscallOverallInfo without a lock, so every       *)
(* access to one of these is a step of its own.  An event is represented   *)
(* by its syscall id.  A StatisticalRes is the number of calls it counts   *)
(* (CalledCount and Delays grow together, FailedCount in the same write)   *)
(* and over how many of them P50Delay and P99Delay were computed.  A value *)
(* of a map is read as it was before an assignment or as it is after it.   *)
(***************************************************************************)
EXTENDS Integers, Sequences, FiniteSets

CONSTANTS
  Ids,          \* syscall ids of the events in the ring
  Selected,     \* those whose names --target-syscall lets through
  Named,        \* those that syscallTable has a name for
  Zero,         \* the syscall whose id is 0
  Broken,       \* text that is no event's: what is left, if anything, of one
                \* whose write failed, or that of memory that holds none
  MaxEvents,    \* bound: selected events taken from the ring
  MayFail       \* whether reads fail, and files to open or to be written

ASSUME CollectorAssumption ==
  /\ Ids # {}
  /\ Selected \subseteq Ids
  /\ Named \subseteq Ids
  /\ Zero \in Named
  /\ Broken \notin Ids
  /\ MaxEvents \in Nat
  /\ MayFail \in BOOLEAN

VARIABLES
  mainPc,        \* the next operation of run()
  shutPc,        \* the next operation of the shutdown goroutine
  stopRequested, \* ctx or ctxSignal is done
  pollerClosed,  \* Reader.Close has closed the epoll instance
  ringClosed,    \* Reader.Close has dropped the ring
  hand,          \* event: the one run() is handling
  seen,          \* seenSyscalls
  stats,         \* syscallStatistics; an absent key reads as the zero record
  overall,       \* syscallOverallInfo
  log,           \* running.log, event by event
  datas,         \* datas
  lastRecord,    \* updateStatistics: lastRecord
  info,          \* appendRunningMetadataToOverallInfo: info
  syscallID,     \* the key of the goroutine's range loop
  rangeKeys,     \* the keys that were there when the range loop began
  record,        \* summarizeOneSyscall: record
  shutInfo,      \* assignResultToOverallInfo: info
  files,         \* the report files opened, and truncated, so far
  json,          \* what was written to running.json
  perf,          \* by syscall id, the numbers its printed lines were made from
  findings,      \* by syscall id, what generateOverallFinding read first and last
  written,       \* the JSON files that were written
  taken,         \* history: the selected events taken from the ring
  busyAtClose    \* history: run() held an event when the reader was closed

mainVars == <<mainPc, hand, lastRecord, info>>
localVars == <<syscallID, rangeKeys, record, shutInfo>>
shutVars == <<shutPc, localVars>>
ringVars == <<pollerClosed, ringClosed, busyAtClose>>
bookVars == <<seen, stats, overall, log, datas>>
reportVars == <<perf, findings, written>>
fileVars == <<files, json, reportVars>>

vars == <<mainVars, shutVars, stopRequested, ringVars, bookVars, fileVars, taken>>

ZeroStats == [called |-> 0, over |-> 0]
ZeroInfo  == [running |-> 0, result |-> ZeroStats]

Handling   == {"seen", "statsGet", "statsPut", "log", "datas", "infoGet", "infoPut"}
MainLabels == {"call", "inRead"} \cup Handling
                \cup {"close", "cancel", "leave", "exited", "crashed"}

BeforeClose == {"wait", "close", "closeRing"}
Opening     == {"openJSON", "openFinding"}
Printing    == {"called", "failed", "rateFailed", "rateCalled", "p50", "p99"}
Summarizing == {"range", "sumGet", "sumPut", "asgInfo", "asgResult", "asgPut"}
                 \cup Printing \cup {"generate", "rules"}
ShutLabels  == BeforeClose \cup Opening \cup {"writeJSON", "openPerf", "rangeStart"}
                \cup Summarizing \cup {"writeFinding", "done"}

Alive == mainPc \notin {"exited", "crashed"}
-----------------------------------------------------------------------------
(***************************************************************************)
(* The main loop.  rd.Read holds the reader's mutex from its call to its   *)
(* return, which is when mainPc = "inRead".                                *)
(***************************************************************************)

Run(from, to) == mainPc = from /\ mainPc' = to

NothingHandled ==
  UNCHANGED <<lastRecord, info, shutVars, stopRequested, ringVars, bookVars,
              fileVars>>

EnterRead ==
  /\ Run("call", "inRead")
  /\ ~ringClosed
  /\ NothingHandled /\ UNCHANGED <<hand, taken>>

\* The ring has a record and its syscall is one to keep.
ReadSelected(id) ==
  /\ Run("inRead", "seen")
  /\ id \in Selected
  /\ Len(taken) < MaxEvents
  /\ taken' = Append(taken, id)
  /\ hand' = id
  /\ NothingHandled

\* continue: the filter drops the event.
ReadDropped(id) ==
  /\ Run("inRead", "call")
  /\ id \notin Selected
  /\ NothingHandled /\ UNCHANGED <<hand, taken>>

\* ErrClosed: the ring is gone, or the poller is and no data was pending.
ReadClosed ==
  /\ \/ mainPc = "call" /\ ringClosed
     \/ mainPc = "inRead" /\ pollerClosed
  /\ mainPc' = "close"
  /\ NothingHandled /\ UNCHANGED <<hand, taken>>

\* Any other error of rd.Read or binary.Read.
ReadFails ==
  /\ MayFail
  /\ Run("inRead", "close")
  /\ NothingHandled /\ UNCHANGED <<hand, taken>>

MarkSeen ==
  /\ Run("seen", "statsGet")
  /\ seen' = seen \cup {hand}
  /\ UNCHANGED <<lastRecord, info, stats, overall, log, datas>>

StatsGet ==
  /\ Run("statsGet", "statsPut")
  /\ lastRecord' = stats[hand]
  /\ UNCHANGED <<info, bookVars>>

Counted(r) == [called |-> r.called + 1, over |-> r.over]

StatsPut ==
  /\ Run("statsPut", "log")
  /\ stats' = [stats EXCEPT ![hand] = Counted(lastRecord)]
  /\ UNCHANGED <<lastRecord, info, seen, overall, log, datas>>

\* No error of these writes is looked at.
WriteLog ==
  /\ Run("log", "datas")
  /\ log' \in {Append(log, hand)} \cup (IF MayFail THEN {Append(log, Broken)} ELSE {})
  /\ UNCHANGED <<lastRecord, info, seen, stats, overall, datas>>

\* Faulty variant: the result of append is not assigned.
RecordedNot(id) == datas

Recorded(id) == Append(datas, id)

AppendDatas ==
  /\ Run("datas", "infoGet")
  /\ datas' = Recorded(hand)
  /\ UNCHANGED <<lastRecord, info, seen, stats, overall, log>>

InfoGet ==
  /\ Run("infoGet", "infoPut")
  /\ info' = overall[hand]
  /\ UNCHANGED <<lastRecord, bookVars>>

InfoPut ==
  /\ Run("infoPut", "call")
  /\ overall' = [overall EXCEPT ![hand] = [running |-> info.running + 1,
                                            result  |-> info.result]]
  /\ UNCHANGED <<lastRecord, info, seen, stats, log, datas>>

(***************************************************************************)
(* run() returns: its defers close the reader, cancel ctx, which wakes the *)
(* goroutine if nothing has yet, and detach the programs.  Then main()     *)
(* returns and the process ends, wherever the goroutine is.                *)
(***************************************************************************)

\* A second Close finds the poller closed and returns at once.
MainClose ==
  /\ Run("close", "cancel")
  /\ pollerClosed' = TRUE
  /\ ringClosed' = (ringClosed \/ ~pollerClosed)
  /\ UNCHANGED stopRequested

Cancel ==
  /\ Run("cancel", "leave")
  /\ stopRequested' = TRUE
  /\ UNCHANGED <<pollerClosed, ringClosed>>

Leave ==
  /\ Run("leave", "exited")
  /\ UNCHANGED <<stopRequested, pollerClosed, ringClosed>>
-----------------------------------------------------------------------------
(***************************************************************************)
(* The shutdown goroutine.                                                 *)
(***************************************************************************)

\* The 60 seconds are over, or SIGINT or SIGTERM arrives.
Stop ==
  /\ Alive
  /\ ~stopRequested
  /\ stopRequested' = TRUE
  /\ UNCHANGED <<mainVars, shutVars, ringVars, bookVars, fileVars, taken>>

Shut(from, to) == Alive /\ shutPc = from /\ shutPc' = to

Wake ==
  /\ Shut("wait", "close")
  /\ stopRequested
  /\ UNCHANGED ringVars

\* Faulty variant: rd.Close is not called.
ClosedPollerNot == pollerClosed

\* rd.Close, first half.
ClosedPoller == TRUE

ClosePoller ==
  /\ \/ /\ pollerClosed
        /\ Shut("close", "openJSON")
        /\ busyAtClose' = (mainPc \in Handling)
     \/ /\ ~pollerClosed
        /\ Shut("close", "closeRing")
        /\ UNCHANGED busyAtClose
  /\ pollerClosed' = ClosedPoller
  /\ UNCHANGED ringClosed

\* Faulty variant: Close does not take the mutex.
MutexIgnored == TRUE

\* The reader's mutex: a Read under way keeps Close waiting.
MutexFree == mainPc # "inRead"

\* rd.Close, second half.
CloseRing ==
  /\ Shut("closeRing", "openJSON")
  /\ MutexFree
  /\ ringClosed' = TRUE
  /\ busyAtClose' = (mainPc \in Handling)
  /\ UNCHANGED pollerClosed

OpenFile(from, file, to) ==
  /\ Shut(from, to)
  /\ files' = files \cup {file}
  /\ UNCHANGED <<json, written>>

OpenJSON    == OpenFile("openJSON", "running.json", "openFinding")
OpenFinding == OpenFile("openFinding", "finding.json", "writeJSON")
OpenPerf    == OpenFile("openPerf", "performance.log", "rangeStart")

\* The goroutine returns at the first of these errors ...
ShutFails ==
  /\ MayFail
  /\ \E label \in Opening \cup {"writeJSON"} : Shut(label, "done")
  /\ UNCHANGED <<files, json, written>>

\* ... but goes on without performance.log.
OpenPerfFails ==
  /\ MayFail
  /\ Shut("openPerf", "rangeStart")
  /\ UNCHANGED <<files, json, written>>

\* The header of datas is read while run() may be assigning it, a word at a
\* time: the new length with the old array has an element past that array's end.
\* If the array did not have to grow, it is the new one, as after AppendDatas.
Snapshots ==
  {datas} \cup (IF mainPc = "datas" THEN {Append(datas, Broken)} ELSE {})

WriteJSON ==
  /\ Shut("writeJSON", "openPerf")
  /\ json' \in Snapshots
  /\ written' = written \cup {"running.json"}
  /\ UNCHANGED files

RangeStart ==
  /\ Shut("rangeStart", "range")
  /\ rangeKeys' = seen
  /\ UNCHANGED <<syscallID, record, shutInfo, stats, overall, reportVars>>

\* The order of a map's keys is random; a key that is added while the loop
\* runs may be visited or not.
RangeNext(id) ==
  /\ Shut("range", "sumGet")
  /\ id \in seen \ DOMAIN perf
  /\ syscallID' = id
  /\ UNCHANGED <<rangeKeys, record, shutInfo, stats, overall, reportVars>>

RangeEnd ==
  /\ Shut("range", "writeFinding")
  /\ rangeKeys \subseteq DOMAIN perf
  /\ UNCHANGED <<localVars, stats, overall, reportVars>>

SummarizeGet ==
  /\ Shut("sumGet", "sumPut")
  /\ record' = stats[syscallID]
  /\ UNCHANGED <<syscallID, rangeKeys, shutInfo, stats, overall, reportVars>>

\* Faulty variant: one delay more than there are.
SummarizedBeyond(r) == [called |-> r.called, over |-> r.called + 1]

\* P50Delay and P99Delay are computed over all delays of the record.
Summarized(r) == [called |-> r.called, over |-> r.called]

SummarizePut ==
  /\ Shut("sumPut", "asgInfo")
  /\ stats' = [stats EXCEPT ![syscallID] = Summarized(record)]
  /\ UNCHANGED <<localVars, overall, reportVars>>

AssignInfo ==
  /\ Shut("asgInfo", "asgResult")
  /\ shutInfo' = overall[syscallID]
  /\ UNCHANGED <<syscallID, rangeKeys, record, stats, overall, reportVars>>

\* Faulty variant: the result of before the summary is assigned.
ResultOfRecord(id) == record

ResultOf(id) == stats[id]

AssignResult ==
  /\ Shut("asgResult", "asgPut")
  /\ shutInfo' = [shutInfo EXCEPT !.result = ResultOf(syscallID)]
  /\ UNCHANGED <<syscallID, rangeKeys, record, stats, overall, reportVars>>

AssignPut ==
  /\ Shut("asgPut", "called")
  /\ overall' = [overall EXCEPT ![syscallID] = shutInfo]
  /\ UNCHANGED <<localVars, stats, reportVars>>

\* Every number that is printed is read from syscallStatistics again: the count
\* of calls, that of failed ones, both for the rate ...
PrintCalled ==
  /\ Shut("called", "failed")
  /\ perf' = [id \in DOMAIN perf \cup {syscallID} |->
                IF id = syscallID THEN [called |-> {stats[id].called}, over |-> {}]
                                  ELSE perf[id]]
  /\ UNCHANGED <<localVars, stats, overall, findings, written>>

PrintCount(from, to) ==
  /\ Shut(from, to)
  /\ perf' = [perf EXCEPT ![syscallID].called = @ \cup {stats[syscallID].called}]
  /\ UNCHANGED <<localVars, stats, overall, findings, written>>

\* ... and the percentiles.
PrintDelay(from, to) ==
  /\ Shut(from, to)
  /\ perf' = [perf EXCEPT ![syscallID].over = @ \cup {stats[syscallID].over}]
  /\ UNCHANGED <<localVars, stats, overall, findings, written>>

PrintFailed     == PrintCount("failed", "rateFailed")
PrintRateFailed == PrintCount("rateFailed", "rateCalled")
PrintRateCalled == PrintCount("rateCalled", "p50")
PrintP50        == PrintDelay("p50", "p99")
PrintP99        == PrintDelay("p99", "generate")

\* The rules are given the name of the syscall and go back from it to the id; a
\* syscall without a name is looked up as the one whose id is 0.
Home(id) == IF id \in Named THEN id ELSE Zero

\* They read syscallOverallInfo again and again, the first time ...
Generate ==
  /\ Shut("generate", "rules")
  /\ findings' = [id \in DOMAIN findings \cup {syscallID} |->
                    IF id = syscallID
                      THEN [first |-> overall[Home(id)], last |-> overall[Home(id)]]
                      ELSE findings[id]]
  /\ UNCHANGED <<localVars, stats, overall, perf, written>>

\* ... and the last time; run() assigns to it at most once in between.
ApplyRules ==
  /\ Shut("rules", "range")
  /\ findings' = [findings EXCEPT ![syscallID].last = overall[Home(syscallID)]]
  /\ UNCHANGED <<localVars, stats, overall, perf, written>>

\* The result of the write is not looked at.
WriteFinding ==
  /\ Shut("writeFinding", "done")
  /\ \/ written' = written \cup {"finding.json"}
     \/ MayFail /\ UNCHANGED written
  /\ UNCHANGED <<localVars, stats, overall, perf, findings>>
-----------------------------------------------------------------------------
(***************************************************************************)
(* The Go runtime ends the process when it sees a map written while it is  *)
(* read, ranged over or written by another goroutine.  It does not always  *)
(* see it.                                                                 *)
(***************************************************************************)

MapsWritten(label) ==
  CASE label = "seen" -> {"seen"}
    [] label \in {"statsPut", "sumPut"} -> {"stats"}
    [] label \in {"infoPut", "asgPut"} -> {"overall"}
    [] OTHER -> {}

MapsRead(label) ==
  CASE label = "range" -> {"seen"}
    [] label \in {"statsGet", "sumGet", "asgResult"} \cup Printing -> {"stats"}
    [] label \in {"infoGet", "asgInfo", "generate", "rules"} -> {"overall"}
    [] OTHER -> {}

MapConflict ==
  LET a == MapsWritten(mainPc)  b == MapsRead(mainPc)
      c == MapsWritten(shutPc)  d == MapsRead(shutPc)
  IN (a \cap (c \cup d)) \cup (b \cap c) # {}

\* What the header of datas promises past the end of its array may not be there.
SliceConflict == mainPc = "datas" /\ shutPc = "writeJSON"

Fault ==
  /\ MapConflict \/ SliceConflict
  /\ mainPc' = "crashed"
  /\ UNCHANGED <<hand, lastRecord, info, shutVars, stopRequested, ringVars, bookVars,
                 fileVars, taken>>
-----------------------------------------------------------------------------
Init ==
  /\ mainPc = "call"
  /\ shutPc = "wait"
  /\ stopRequested = FALSE
  /\ pollerClosed = FALSE
  /\ ringClosed = FALSE
  /\ hand = CHOOSE id \in Ids : TRUE
  /\ seen = {}
  /\ stats = [id \in Ids |-> ZeroStats]
  /\ overall = [id \in Ids |-> ZeroInfo]
  /\ log = <<>>
  /\ datas = <<>>
  /\ lastRecord = ZeroStats
  /\ info = ZeroInfo
  /\ syscallID = hand
  /\ rangeKeys = {}
  /\ record = ZeroStats
  /\ shutInfo = ZeroInfo
  /\ files = {}
  /\ json = <<>>
  /\ perf = [id \in {} |-> [called |-> {}, over |-> {}]]
  /\ findings = [id \in {} |-> [first |-> ZeroInfo, last |-> ZeroInfo]]
  /\ written = {}
  /\ taken = <<>>
  /\ busyAtClose = FALSE

Handle ==
  /\ MarkSeen \/ StatsGet \/ StatsPut \/ WriteLog \/ AppendDatas \/ InfoGet \/ InfoPut
  /\ UNCHANGED <<hand, taken, shutVars, stopRequested, ringVars, fileVars>>

Return ==
  /\ MainClose \/ Cancel \/ Leave
  /\ UNCHANGED <<hand, lastRecord, info, taken, shutVars, busyAtClose, bookVars, fileVars>>

CloseReader ==
  /\ Wake \/ ClosePoller \/ CloseRing
  /\ UNCHANGED <<mainVars, taken, localVars, stopRequested, bookVars, fileVars>>

OpenReports ==
  /\ OpenJSON \/ OpenFinding \/ OpenPerf \/ ShutFails \/ OpenPerfFails \/ WriteJSON
  /\ UNCHANGED <<mainVars, taken, localVars, stopRequested, ringVars, bookVars, perf, findings>>

Summarize ==
  /\ \/ RangeStart
     \/ \E id \in Ids : RangeNext(id)
     \/ RangeEnd
     \/ SummarizeGet \/ SummarizePut
     \/ AssignInfo \/ AssignResult \/ AssignPut
     \/ PrintCalled \/ PrintFailed \/ PrintRateFailed \/ PrintRateCalled
     \/ PrintP50 \/ PrintP99
     \/ Generate \/ ApplyRules
     \/ WriteFinding
  /\ UNCHANGED <<mainVars, taken, stopRequested, ringVars, seen, log, datas, files, json>>

Main ==
  \/ EnterRead
  \/ \E id \in Ids : ReadSelected(id) \/ ReadDropped(id)
  \/ ReadClosed
  \/ ReadFails
  \/ Handle
  \/ Return

Shutdown == CloseReader \/ OpenReports \/ Summarize

\* The process has gone.
Gone == ~Alive /\ UNCHANGED vars

Next == Stop \/ Main \/ Shutdown \/ Fault \/ Gone

Spec == Init /\ [][Next]_vars

\* Both goroutines are scheduled.  Events need not arrive, but a Read whose
\* poller is closed returns.  Close gets the reader's mutex even if run() takes
\* it again and again: a sync.Mutex is handed to a waiter that starves.  The
\* window ends, after 60 seconds at the latest.
Fairness ==
  /\ WF_vars(EnterRead)
  /\ WF_vars(ReadClosed)
  /\ WF_vars(Handle)
  /\ WF_vars(Return)
  /\ SF_vars(CloseReader)
  /\ WF_vars(OpenReports)
  /\ WF_vars(Summarize)
  /\ WF_vars(Stop)

FairSpec == Spec /\ Fairness
-----------------------------------------------------------------------------
(***************************************************************************)
(* Properties.                                                             *)
(***************************************************************************)

CountOf(s, id) == Cardinality({i \in DOMAIN s : s[i] = id})

Line  == [called : SUBSET Nat, over : SUBSET Nat]
Stats == {r \in [called : Nat, over : Nat] : r.over <= r.called}
Info  == [running : Nat, result : Stats]
Drawn == [first : Info, last : Info]
Texts == Seq(Ids \cup {Broken})

\* Every variable is of its type; percentiles cover no more calls than counted.
TypeOK ==
  /\ mainPc \in MainLabels
  /\ shutPc \in ShutLabels
  /\ stopRequested \in BOOLEAN /\ pollerClosed \in BOOLEAN
  /\ ringClosed \in BOOLEAN /\ busyAtClose \in BOOLEAN
  /\ hand \in Ids
  /\ seen \subseteq Ids
  /\ stats \in [Ids -> Stats]
  /\ overall \in [Ids -> Info]
  /\ log \in Texts
  /\ datas \in Seq(Ids)
  /\ lastRecord \in Stats
  /\ info \in Info
  /\ syscallID \in Ids
  /\ rangeKeys \subseteq Ids
  /\ record \in Stats
  /\ shutInfo \in Info
  /\ files \subseteq {"running.json", "finding.json", "performance.log"}
  /\ json \in Texts
  /\ DOMAIN perf \subseteq Ids
  /\ perf \in [DOMAIN perf -> Line]
  /\ DOMAIN findings \subseteq Ids
  /\ findings \in [DOMAIN findings -> Drawn]
  /\ written \subseteq {"running.json", "finding.json"}
  /\ taken \in Seq(Ids)

\* A text has an entry for each of these events, once and in order, its own or
\* what is left of it.
EntersAll(text, events) ==
  /\ Len(text) = Len(events)
  /\ \A i \in 1..Len(text) : text[i] \in {events[i], Broken}

\* What run() returns with, even after an error: each event it took from the
\* ring was written to running.log, once and in order, whether or not the writes
\* before it failed, and is in datas.
NothingInHandAtReturn ==
  mainPc \in {"close", "cancel", "leave", "exited"} =>
    /\ datas = taken
    /\ EntersAll(log, taken)
    /\ ~MayFail => log = taken

\* running.json has every event taken from the ring, even one that running.log
\* lost, but may lack the last, the one run() was still handling when the reader
\* was closed, or have it broken.
JsonIsTakenButOne ==
  "running.json" \in written =>
    /\ Len(taken) - Len(json) <= 1
    /\ Len(json) <= Len(taken)
    /\ \A i \in 1..Len(json) :
         json[i] = taken[i] \/ (i = Len(taken) /\ json[i] = Broken)

Exact(n) == [called |-> n, over |-> n]

\* If run() held no event when the reader was closed, the reports are exact and
\* agree: running.json has the events taken, each count is theirs and the
\* percentiles are over all of these calls.  The findings of a syscall that has
\* a name are drawn from the same numbers; those of any other from the events of
\* syscall 0, whose results may not be assigned yet.
QuietReportsExact ==
  ~busyAtClose /\ shutPc \notin BeforeClose =>
    /\ "running.json" \in written => json = taken
    /\ \A id \in DOMAIN perf :
         /\ perf[id].called = {CountOf(taken, id)}
         /\ perf[id].over \subseteq {CountOf(taken, id)}
         /\ id # syscallID \/ shutPc \notin Printing => perf[id].over # {}
    /\ \A id \in DOMAIN findings :
         \A drawn \in {findings[id].first, findings[id].last} :
           /\ drawn.running = CountOf(taken, Home(id))
           /\ \/ drawn.result = Exact(CountOf(taken, Home(id)))
              \/ id \notin Named /\ drawn.result = ZeroStats

\* The end of the window ends the process, whatever fails, however busy the
\* ring is and wherever the two goroutines are.
WindowEnds == <>~Alive

\* README.md:103 "At shutdown, syscap prints and stores a per-syscall summary in
\* performance.log": the process does not end before it has.
SummaryBeforeExit ==
  mainPc = "exited" =>
    "performance.log" \in files /\ \A id \in seen : id \in DOMAIN perf
-----------------------------------------------------------------------------
(***************************************************************************)
(* The refinement mapping to the promise that module WindowReport states.  *)
(* The window closes when rd.Close returns to the goroutine; a line of     *)
(* performance.log is there once its last number is printed, findings once *)
(* the rules have read for the last time.                                  *)
(***************************************************************************)

Late     == IF shutPc \in BeforeClose \/ ~busyAtClose THEN {} ELSE {hand}
Trace    == IF "running.json" \in written THEN {json} ELSE {}
Printed  == DOMAIN perf \ (IF shutPc \in Printing THEN {syscallID} ELSE {})
Summary  == [id \in Printed |-> perf[id]]
Judged   == DOMAIN findings \ (IF shutPc = "rules" THEN {syscallID} ELSE {})
Verdicts == [id \in Judged |-> findings[id]]
Fate     == IF Alive THEN "running" ELSE mainPc

Promise == INSTANCE WindowReport WITH
  open     <- shutPc \in BeforeClose,
  late     <- Late,
  json     <- Trace,
  perf     <- Summary,
  findings <- Verdicts,
  complete <- "finding.json" \in written,
  fate     <- Fate

\* The reports of a window are about the events taken until rd.Close has waited
\* for the Read under way, each of them complete but for the one event run() may
\* hold then, although statistics are shared without a lock.
ImplementsReport == Promise!WindowSpec
=============================================================================
