----------------------------- MODULE UsageReport -----------------------------
(***************************************************************************)
(* The log of model calls and the usage report read from it.  Every call   *)
(* through a recording provider leaves one row, written by a goroutine of  *)
(* its own after the call ended; a stream ends when its channel closes or  *)
(* its reader goes away.  The report is a series of reads, not a snapshot: *)
(* rows are written and midnight passes between them.                      *)
(***************************************************************************)
EXTENDS Integers, FiniteSets, FiniteSetsExt, Sequences, SequencesExt

CONSTANTS
    Request,                   \* calls of a model, numbered as they come
    Vendor, Configured,        \* who answers, and whom the company's agent names
    HTTPStatus,                \* statuses providers fail with; 0 = failed without one
    DayLength,                 \* in ticks of the database clock
    DefaultDays, MaxDays,
    LatencyLimit, RecentLimit, \* LIMITs of two of the reads
    Quotas                     \* bounds: how many calls of which kind and company (0 = none in the
                               \* context), reports of how many days, ticks and faults

ASSUME UsageAssumption ==
    /\ {DayLength, DefaultDays, MaxDays, LatencyLimit, RecentLimit} \subseteq Nat \ {0}
    /\ Request \subseteq Nat /\ Configured \in Vendor /\ HTTPStatus \subseteq Nat
    /\ Quotas \subseteq [may : [{"request", "report", "tick", "fault"} -> Nat],
                         ops : SUBSET {"generate", "stream"}, companies : SUBSET Nat,
                         asked : SUBSET Int]

VARIABLES
    clock,     \* of the database
    requests,  \* what each call is doing
    detached,  \* entries on their way to the log, each with a goroutine of its own
    logs,      \* ai_request_logs, oldest first
    unlogged,  \* calls whose entry was refused, timed out or died with the process
    report,    \* the usage report being read
    quota

usageVars == <<clock, requests, detached, logs, unlogged, report, quota>>
calling == <<requests, detached, unlogged>>

NotAsked == [pc |-> "none"]
NoReport == [pc |-> "none"]

UsageInit ==
    /\ clock = 2 * DayLength - 1
    /\ requests = [q \in Request |-> NotAsked]
    /\ detached = <<>> /\ logs = <<>> /\ unlogged = {}
    /\ report = NoReport
    /\ quota \in Quotas

Draw(kind) ==
    /\ quota.may[kind] > 0
    /\ quota' = [quota EXCEPT !.may[kind] = @ - 1]

-----------------------------------------------------------------------------
(***************************************************************************)
(* The recording provider.                                                 *)
(***************************************************************************)
NoCompletion == [vendor |-> "", tokens |-> 0]
NoError == -1

\* record(): the entry leaves with a goroutine of its own, whatever became of the call.
\* The database sets "at" when it inserts the row.
Entry(q, completion, err) ==
    [request |-> q, company |-> requests[q].company,
     vendor |-> IF completion.vendor = "" THEN Configured ELSE completion.vendor,
     status |-> IF err = NoError THEN "ok" ELSE "error",
     http |-> IF err = NoError THEN 0 ELSE err,
     tokens |-> completion.tokens, latency |-> clock - requests[q].began,
     at |-> 0]

RecordEntry(q, completion, err) == detached' = Append(detached, Entry(q, completion, err))

Ended(q) == requests' = [requests EXCEPT ![q].pc = "ended"]

StartRequest(q) ==
    /\ requests[q] = NotAsked /\ \A earlier \in Request : earlier < q => requests[earlier] # NotAsked
    /\ Draw("request")
    /\ \E op \in quota.ops, company \in quota.companies :
          requests' = [requests EXCEPT ![q] =
              [pc |-> op, company |-> company, began |-> clock, live |-> TRUE,
               last |-> NoCompletion]]
    /\ UNCHANGED <<clock, detached, logs, unlogged, report>>

\* Another vendor than the configured one answers after a failover.
RecordGenerate(q) ==
    /\ requests[q].pc = "generate"
    /\ \/ \E vendor \in Vendor : RecordEntry(q, [vendor |-> vendor, tokens |-> 1], NoError)
       \/ \E err \in HTTPStatus : RecordEntry(q, NoCompletion, err)
    /\ Ended(q)
    /\ UNCHANGED <<clock, logs, unlogged, report, quota>>

OpenStreamGoesOn(q) ==
    /\ requests[q].pc = "stream"
    /\ \/ requests' = [requests EXCEPT ![q].pc = "open"] /\ UNCHANGED detached
       \/ \E err \in HTTPStatus : /\ RecordEntry(q, NoCompletion, err)
                                  /\ requests' = [requests EXCEPT ![q].pc = "open"]
    /\ UNCHANGED <<clock, logs, unlogged, report, quota>>

\* A stream that does not open is recorded right away.
OpenStream(q) ==
    /\ requests[q].pc = "stream"
    /\ \/ requests' = [requests EXCEPT ![q].pc = "open"] /\ UNCHANGED detached
       \/ \E err \in HTTPStatus : RecordEntry(q, NoCompletion, err) /\ Ended(q)
    /\ UNCHANGED <<clock, logs, unlogged, report, quota>>

\* The chunk that tells who answered and at what cost.
UsageChunk(q) ==
    /\ requests[q].pc = "open" /\ requests[q].last = NoCompletion
    /\ \E vendor \in Vendor :
          requests' = [requests EXCEPT ![q].last = [vendor |-> vendor, tokens |-> 1]]
    /\ UNCHANGED <<clock, detached, logs, unlogged, report, quota>>

HangUp(q) ==
    /\ requests[q].pc = "open" /\ requests[q].live
    /\ requests' = [requests EXCEPT ![q].live = FALSE]
    /\ UNCHANGED <<clock, detached, logs, unlogged, report, quota>>

\* The channel closes, be the answer complete or broken off, or the reader is gone.
CloseStream(q) ==
    /\ requests[q].pc = "open"
    /\ RecordEntry(q, requests[q].last, IF requests[q].live THEN NoError ELSE 0)
    /\ Ended(q)
    /\ UNCHANGED <<clock, logs, unlogged, report, quota>>

-----------------------------------------------------------------------------
(***************************************************************************)
(* RequestLogRepo.                                                         *)
(***************************************************************************)
\* An entry without a company is refused, one that fails or takes too long is dropped.
Record(i) ==
    LET entry == detached[i]
    IN  /\ detached' = RemoveAt(detached, i)
        /\ \/ /\ entry.company > 0
              /\ logs' = Append(logs, [entry EXCEPT !.at = clock])
              /\ UNCHANGED <<unlogged, quota>>
           \/ /\ entry.company > 0 => Draw("fault")
              /\ entry.company <= 0 => UNCHANGED quota
              /\ unlogged' = unlogged \union {entry.request}
              /\ UNCHANGED logs
        /\ UNCHANGED <<clock, requests, report>>

\* The process ends with its goroutines.
ProcessExit ==
    /\ Draw("fault")
    /\ LET cut == {q \in Request : requests[q].pc \in {"generate", "stream", "open"}}
       IN  /\ requests' = [q \in Request |-> IF q \in cut THEN [requests[q] EXCEPT !.pc = "ended"]
                                             ELSE requests[q]]
           /\ unlogged' = unlogged \union cut \union {detached[i].request : i \in DOMAIN detached}
    /\ detached' = <<>>
    /\ report' = NoReport
    /\ UNCHANGED <<clock, logs>>

DayOf(tick) == tick \div DayLength
Rows(company, from) == {i \in DOMAIN logs : logs[i].company = company /\ logs[i].at >= from}
OnDay(rows, day) == {i \in rows : DayOf(logs[i].at) = day}
OfVendor(rows, vendor) == {i \in rows : logs[i].vendor = vendor}
Failed(rows) == {i \in rows : logs[i].status = "error"}

\* The sum of the numbers f gives, as many pairs as there are ones in it.
Total(f) == Cardinality(UNION {{x} \X (1..f[x]) : x \in DOMAIN f})

Tally(rows) ==
    [requests |-> Cardinality(rows), errors |-> Cardinality(Failed(rows)),
     tokens |-> Total([i \in rows |-> logs[i].tokens])]

\* The latency that "rank" of the rows, sorted by it, do not exceed.
Latency(rows, rank) ==
    Min({l \in {logs[i].latency : i \in rows} :
            Cardinality({i \in rows : logs[i].latency <= l}) >= rank})

\* The LIMIT keeps the fastest calls.
Limited(rows) == IF Cardinality(rows) <= LatencyLimit THEN Cardinality(rows) ELSE LatencyLimit

\* Nearest rank, ceil(p / 100 * n), of the rows that were kept.
Rank(n, p) ==
    LET rank == (p * n + 99) \div 100
    IN  IF rank < 1 THEN 1 ELSE IF rank > n THEN n ELSE rank

Percentile(rows, p) == IF rows = {} THEN 0 ELSE Latency(rows, Rank(Limited(rows), p))

DailyDateRange(from, days) == DayOf(from)..DayOf(from) + days - 1

\* Days without rows are filled in, days outside the range are dropped.
DailyRange == DailyDateRange(report.started, report.days)

StatusKey(i) == logs[i].http

Keyed(rows, key) == {i \in rows : StatusKey(i) = key}

ClampDays(days) == IF days < 1 THEN DefaultDays ELSE Min({days, MaxDays})

\* since has the time of day of the request and, unlike created_at, fractions of a
\* second: of the rows of that very second all or none are old enough.
BeginReport ==
    /\ report = NoReport
    /\ Draw("report")
    /\ \E company \in quota.companies \ {0}, asked \in quota.asked, fraction \in {0, 1} :
          LET started == clock - (ClampDays(asked) - 1) * DayLength
          IN  report' = [pc |-> "totals", company |-> company, days |-> ClampDays(asked),
                         started |-> started, from |-> started + fraction,
                         rows |-> Len(logs), day |-> DayOf(clock)]
    /\ UNCHANGED <<clock, calling, logs>>

InWindow == Rows(report.company, report.from)

\* The report with what was read, which waits for the next read.
Noted(result, next) ==
    [name \in DOMAIN report \union DOMAIN result |->
        IF name = "pc" THEN next ELSE IF name \in DOMAIN result THEN result[name] ELSE report[name]]

\* One read of the report, which fails as a whole when one of them does.
Read(pc, result, next) ==
    /\ report.pc = pc
    /\ \/ report' = Noted(result, next) /\ UNCHANGED quota
       \/ Draw("fault") /\ report' = NoReport
    /\ UNCHANGED <<clock, calling, logs>>

UsageTotals == Read("totals", [totals |-> Tally(InWindow)], "latencies")

UsageLatencies ==
    Read("latencies",
         [p50 |-> Percentile(InWindow, 50), p95 |-> Percentile(InWindow, 95)], "today")

UsageToday ==
    Read("today", [today |-> Tally(OnDay(Rows(report.company, 0), DayOf(clock)))], "daily")

UsageDaily ==
    Read("daily", [daily |-> [d \in DailyRange |-> Tally(OnDay(InWindow, d))]], "by vendor")

UsageDailyByVendor ==
    Read("by vendor", [by_vendor |-> [d \in DailyRange |-> [v \in Vendor |->
                          Cardinality(OfVendor(OnDay(InWindow, d), v))]]], "by status")

UsageDailyByHTTPStatus ==
    Read("by status", [by_status |-> [d \in DailyRange |-> [s \in HTTPStatus \ {0} |->
                          Cardinality(Keyed(Failed(OnDay(InWindow, d)), s))]]], "by model")

\* Failures without a status are counted under "error".
UsageDailyByStatus ==
    Read("by status", [by_status |-> [d \in DailyRange |-> [s \in HTTPStatus \union {0} |->
                          Cardinality(Keyed(Failed(OnDay(InWindow, d)), s))]]], "by model")

UsageByModel ==
    Read("by model", [by_model |-> [v \in Vendor |-> Tally(OfVendor(InWindow, v))]], "models daily")

UsageModelsDaily ==
    Read("models daily", [models_daily |-> [v \in Vendor |-> [d \in DailyRange |->
                             Tally(OnDay(OfVendor(InWindow, v), d))]]], "recent")

\* The latest rows, however old, and the end of the report.
UsageRecent ==
    Read("recent",
         LET mine == SelectSeq(logs, LAMBDA row : row.company = report.company)
         IN  [recent |-> SubSeq(Reverse(mine), 1, Min({RecentLimit, Len(mine)})),
              rows_after |-> Len(logs), day_after |-> DayOf(clock)], "answered")

\* The handler sends it.
Usage ==
    /\ report.pc = "answered"
    /\ report' = NoReport
    /\ UNCHANGED <<clock, calling, logs, quota>>

Advance ==
    /\ Draw("tick")
    /\ clock' = clock + 1
    /\ UNCHANGED <<calling, logs, report>>

Calling(q) == StartRequest(q) \/ RecordGenerate(q) \/ OpenStream(q) \/ UsageChunk(q) \/ HangUp(q)
              \/ CloseStream(q)

UsageNext ==
    \/ \E q \in Request : Calling(q)
    \/ \E i \in DOMAIN detached : Record(i)
    \/ BeginReport \/ UsageTotals \/ UsageLatencies \/ UsageToday \/ UsageDaily
    \/ UsageDailyByVendor \/ UsageDailyByStatus \/ UsageByModel \/ UsageModelsDaily \/ UsageRecent
    \/ Usage \/ Advance \/ ProcessExit

UsageSpec == UsageInit /\ [][UsageNext]_usageVars

-----------------------------------------------------------------------------
(***************************************************************************)
(* Properties.                                                             *)
(***************************************************************************)
Companies == UNION {q.companies : q \in Quotas}

EntryType ==
    [request : Request, company : Companies, vendor : Vendor, status : {"ok", "error"},
     http : HTTPStatus \union {0}, tokens : Nat, latency : Nat, at : Nat]

\* The state has its type.
UsageTypeOK ==
    /\ clock \in Nat
    /\ \A q \in Request : requests[q] # NotAsked =>
          /\ requests[q].pc \in {"generate", "stream", "open", "ended"}
          /\ requests[q].company \in Companies
          /\ requests[q].last \in [vendor : Vendor \union {""}, tokens : Nat]
    /\ \A i \in DOMAIN detached : detached[i] \in EntryType
    /\ \A i \in DOMAIN logs : logs[i] \in EntryType /\ logs[i].company > 0
    /\ unlogged \subseteq Request
    /\ report.pc \in {"none", "totals", "latencies", "today", "daily", "by vendor", "by status",
                      "by model", "models daily", "recent", "answered"}

\* A call that ended is logged once, is about to be, or was given up: never twice,
\* although a stream ends in one of several goroutines and in several ways, and never
\* while it is still running.
LoggedOnce ==
    \A q \in Request :
        Cardinality({i \in DOMAIN logs : logs[i].request = q})
        + Cardinality({i \in DOMAIN detached : detached[i].request = q})
        + Cardinality({q} \intersect unlogged)
        = (IF requests[q].pc = "ended" THEN 1 ELSE 0)

\* Sum of one column over the days or the models of a report.
Column(f, name) == Total([x \in DOMAIN f |-> f[x][name]])

\* What is read later counts no less, and as much when the log was quiet meanwhile.
Accords(earlier, later, quiet) == earlier <= later /\ (quiet => earlier = later)

\* The parts of a report fit each other however many rows were written between the
\* reads: what is read later counts no less, and as much when nothing was written.
\* Only a midnight meanwhile may take rows out of the days.
ReportAddsUp ==
    report.pc = "answered" =>
        LET quiet == report.rows = report.rows_after
        IN  /\ \A d \in DailyRange :
                  /\ Accords(report.daily[d].requests, Total(report.by_vendor[d]), quiet)
                  /\ Accords(report.daily[d].errors, Total(report.by_status[d]), quiet)
                  /\ Accords(report.daily[d].tokens,
                          Column([v \in Vendor |-> report.models_daily[v][d]], "tokens"), quiet)
            /\ \A name \in {"requests", "errors", "tokens"} :
                  /\ Accords(report.totals[name], Column(report.by_model, name), quiet)
                  /\ report.day = report.day_after =>
                        /\ Accords(report.totals[name], Column(report.daily, name), quiet)
                        /\ \A v \in Vendor :
                              Accords(report.by_model[v][name], Column(report.models_daily[v], name), quiet)
            /\ report.p50 <= report.p95

\* Both: every call is counted, and counted the same wherever a report shows it.
UsageIsCounted == LoggedOnce /\ ReportAddsUp
===============================================================================
