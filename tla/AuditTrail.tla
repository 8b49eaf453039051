----------------------------- MODULE AuditTrail -----------------------------
(***************************************************************************)
(* The audit log - writes that may fail, retention classes, the daily      *)
(* sweep, the manual flush - and the Logs page that tails it by polling.   *)
(***************************************************************************)
EXTENDS Telemetry, FiniteSets, Sequences, SequencesExt

CONSTANTS Categories,            \* the categories written, a subset of AuditCategory
          Filters,               \* the page's choices, "" for all
          PAGE_SIZE, MAX_ROWS,
          KeepDays,              \* THIRTY_DAYS_MS in days
          Micros,                \* instants of created_at in a millisecond
          MaxWrites, MaxAsks, MaxDay, MaxFlushes

ASSUME AuditTrailConstants ==
    /\ PAGE_SIZE \in Nat \ {0} /\ MAX_ROWS \in Nat \ {0} /\ KeepDays \in Nat /\ Micros \in Nat \ {0}
    /\ MaxWrites \in Nat /\ MaxAsks \in Nat /\ MaxDay \in Nat /\ MaxFlushes \in Nat

VARIABLES
    log,      \* rows [at, category, day]; `at` is created_at, in microseconds
    clock, day,
    flushes,  \* flushes that deleted and have not been recorded yet
    flushed,  \* flushes begun
    traceable, \* no write of a flush's own row failed
    entries,  \* the page: rows, of whose `at` it knows the millisecond
    filter,   \* its category, "" for all
    live,     \* tailing and visible
    timer,    \* a poll is scheduled
    asks,     \* requests in flight: [n, kind, filter, cursor, served, answer]
    pageAsks,
    cursors,   \* the cursors sent, with the kind of their request
    disturbed, \* two requests were in flight at once, or a reload failed
    burst      \* one poll met more news than a page

auditVars == <<log, clock, day, flushes, flushed, traceable, entries, filter, live, timer, asks, pageAsks,
               cursors, disturbed, burst>>
pageVars == <<entries, filter, live, timer, asks, pageAsks, cursors, disturbed, burst>>

AUDIT_DEFAULT_RETENTION(category) ==
    CASE category \in {"auth", "organization", "event", "retention", "subscription"} -> "never"
      [] category \in {"gpu", "job"} -> "thirty_days"
      [] category = "system" -> "same_day"

Class(row) == AUDIT_DEFAULT_RETENTION(row.category)

(***************************************************************************)
(* The table.                                                              *)
(***************************************************************************)
Row(category, at) == [at |-> at, category |-> category, day |-> day]

\* A write that succeeds; one that fails leaves nothing, and nobody is told.
record(category) ==
    /\ clock' \in clock + 1 .. MaxWrites
    /\ log' = log \cup {Row(category, clock')}
    /\ UNCHANGED <<day, flushes, flushed, traceable, pageVars>>

NextDay ==
    /\ day < MaxDay
    /\ day' = day + 1
    /\ UNCHANGED <<log, clock, flushes, flushed, traceable, pageVars>>

Swept == {r \in log : \/ Class(r) = "same_day" /\ r.day < day
                      \/ Class(r) = "thirty_days" /\ r.day < day - KeepDays}

handleAuditRetentionSweep ==
    /\ Swept # {}
    /\ log' = log \ Swept
    /\ UNCHANGED <<clock, day, flushes, flushed, traceable, pageVars>>

\* flush deletes a class, or everything, ...
flush(retention) ==
    /\ flushed < MaxFlushes
    /\ log' = {r \in log : retention # "all" /\ Class(r) # retention}
    /\ flushes' = flushes + 1
    /\ flushed' = flushed + 1
    /\ UNCHANGED <<clock, day, traceable, pageVars>>

\* ... and then records itself under a class no sweep removes.
RecordedAs == "retention"

recordFlush ==
    /\ flushes > 0
    /\ flushes' = flushes - 1
    /\ clock' \in clock + 1 .. MaxWrites + MaxFlushes
    /\ \/ log' = log \cup {Row(RecordedAs, clock')} /\ UNCHANGED traceable
       \/ UNCHANGED log /\ traceable' = FALSE
    /\ UNCHANGED <<day, flushed, pageVars>>

(***************************************************************************)
(* The page.                                                               *)
(***************************************************************************)
NewestFirst(S) ==
    CHOOSE s \in [1..Cardinality(S) -> S] : \A i, j \in DOMAIN s : i < j => s[i].at > s[j].at

\* A Date holds milliseconds: what the page is sent, and sends back, of a created_at.
Ms(at) == Micros * (at \div Micros)

Matching(f) == {r \in log : f = "" \/ r.category = f}

\* list(): rows after or before the cursor, newest first, at most PAGE_SIZE.
list(ask) ==
    LET rows == {r \in Matching(ask.filter) :
                     /\ ask.kind = "tail" => r.at > ask.cursor
                     /\ ask.kind = "older" => r.at < ask.cursor}
    IN SubSeq(NewestFirst(rows), 1, IF Cardinality(rows) < PAGE_SIZE THEN Cardinality(rows) ELSE PAGE_SIZE)

Ask(kind, f, cursor) ==
    /\ pageAsks < MaxAsks
    /\ pageAsks' = pageAsks + 1
    /\ asks' = asks \cup {[n |-> pageAsks, kind |-> kind, filter |-> f, cursor |-> cursor, served |-> FALSE, answer |-> <<>>]}
    /\ cursors' = cursors \cup {<<kind, cursor>>}
    /\ disturbed' = (disturbed \/ asks # {})

\* The newest row held; a page with none asks for everything.
tail ==
    /\ Ask("tail", filter, IF entries = <<>> THEN 0 ELSE Ms(Head(entries).at))
    /\ timer' = FALSE

Poll ==
    /\ timer /\ tail
    /\ UNCHANGED <<log, clock, day, flushes, flushed, traceable, entries, filter, live, burst>>

\* On opening, on another filter, and after a flush.
loadFresh(f) ==
    /\ f # filter \/ pageAsks = 0 \/ flushed > 0
    /\ filter' = f
    /\ Ask("fresh", f, 0)
    /\ UNCHANGED <<log, clock, day, flushes, flushed, traceable, entries, live, timer, burst>>

loadOlder ==
    /\ entries # <<>>
    /\ Ask("older", filter, Ms(Last(entries).at))
    /\ UNCHANGED <<log, clock, day, flushes, flushed, traceable, entries, filter, live, timer, burst>>

\* Resumed, or visible again: reads at once; otherwise the timer is stopped.
onVisibility ==
    /\ live' = ~ live
    /\ IF live THEN timer' = FALSE /\ UNCHANGED <<asks, pageAsks, cursors, disturbed>> ELSE tail
    /\ UNCHANGED <<log, clock, day, flushes, flushed, traceable, entries, filter, burst>>

Answer(ask) ==
    /\ ~ ask.served
    /\ asks' = (asks \ {ask}) \cup {[ask EXCEPT !.served = TRUE, !.answer = list(ask)]}
    /\ burst' = (burst \/ (ask.kind = "tail" /\ entries # <<>>
                           /\ Cardinality({r \in Matching(ask.filter) : r.at > ask.cursor}) > PAGE_SIZE))
    /\ UNCHANGED <<log, clock, day, flushes, flushed, traceable, entries, filter, live, timer, pageAsks, cursors,
                   disturbed>>

Applied(kind, rows) ==
    CASE kind = "fresh" -> rows
      [] kind = "tail" -> SubSeq(rows \o entries, 1,
                                 IF Len(rows) + Len(entries) < MAX_ROWS THEN Len(rows) + Len(entries) ELSE MAX_ROWS)
      [] kind = "older" -> entries \o rows

\* An answer or a failed request; a tail schedules the next one either way.
Arrive(ask) ==
    /\ asks' = asks \ {ask}
    /\ \/ ask.served /\ entries' = Applied(ask.kind, ask.answer) /\ UNCHANGED disturbed
       \/ UNCHANGED entries /\ disturbed' = (disturbed \/ ask.kind = "fresh")
    /\ timer' = IF ask.kind = "older" THEN timer ELSE live
    /\ UNCHANGED <<log, clock, day, flushes, flushed, traceable, filter, live, pageAsks, cursors, burst>>

-----------------------------------------------------------------------------
AuditTrailInit ==
    /\ log = {} /\ clock = 0 /\ day = 1
    /\ flushes = 0 /\ flushed = 0 /\ traceable = TRUE
    /\ entries = <<>> /\ filter = "" /\ live = TRUE /\ timer = FALSE
    /\ asks = {} /\ pageAsks = 0 /\ cursors = {} /\ disturbed = FALSE /\ burst = FALSE

AuditTrailNext ==
    \/ \E c \in Categories : record(c)
    \/ NextDay \/ handleAuditRetentionSweep
    \/ \E retention \in {"same_day", "thirty_days", "never", "all"} : flush(retention)
    \/ recordFlush
    \/ Poll \/ loadOlder \/ onVisibility
    \/ \E f \in Filters : loadFresh(f)
    \/ \E ask \in asks : Answer(ask) \/ Arrive(ask)

AuditTrailSpec == AuditTrailInit /\ [][AuditTrailNext]_auditVars

-----------------------------------------------------------------------------
(* A flush always leaves its mark: once it has run and its own row could be       *)
(* written, the log holds a row that says so, whatever swept or flushed since.    *)
FlushLeavesTrace ==
    flushed > 0 /\ flushes = 0 /\ traceable => \E r \in log : r.category = RecordedAs

(* The page that never had two requests in flight, whose reloads came through and *)
(* that never met more than a page of news in one poll, shows a stretch of the    *)
(* log, newest first and none of its rows left out in between - but for what a    *)
(* cursor cut to its millisecond costs: rows of the millisecond a poll went from, *)
(* its newest row above all, come again with that poll, an idle one too; and      *)
(* "load older" passes over rows of the millisecond it went from.                 *)
TailFaithful ==
    ~ disturbed /\ ~ burst =>
        /\ \A i, j \in DOMAIN entries : i < j =>
              \/ entries[i].at > entries[j].at
              \/ /\ Ms(entries[i].at) = Ms(entries[j].at)
                 /\ <<"tail", Ms(entries[j].at)>> \in cursors
        /\ (\A k \in DOMAIN entries : filter \in {"", entries[k].category}) /\ asks = {} /\ entries # <<>>
           => \A r \in Matching(filter) :
                  Last(entries).at <= r.at /\ r.at <= Head(entries).at =>
                      r \in ToSet(entries) \/ <<"older", Ms(r.at)>> \in cursors

\* What the administrator's panels show is so: the processes listed are the ones
\* that are up, and the log page is a stretch of a log that tells of its own flushes,
\* faithful to the millisecond (telemetry.repository.ts:125-160, audit-log.service.ts:112,
\* admin/logs/+page.svelte:64).
PanelsTellTruth == ListedIsUp /\ FlushLeavesTrace /\ TailFaithful
=============================================================================
