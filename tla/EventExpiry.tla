---------------------------- MODULE EventExpiry -----------------------------
(***************************************************************************)
(* Event expiration and media retention: services/event-expiry.service.ts  *)
(* with the queries of repositories/event.repository.ts it relies on, the  *)
(* owner's notice (NotificationService.handleSendEventExpiry) and the      *)
(* prefix delete (CleanupService.handleCleanupPrefix).                     *)
(*                                                                         *)
(* The hourly expiry sweep, the daily purge sweep, the organizers'         *)
(* requests (the general update of event.service.ts among them) and the    *)
(* queued jobs interleave at every await.  A sweep works through the       *)
(* snapshot its query returned; setExpiryState and update() write only the *)
(* columns they name, without a condition.                                 *)
(***************************************************************************)
EXTENDS Integers, FiniteSets

CONSTANTS
    Events,      \* event ids
    Requests,    \* organizer requests, each served once
    Grace,       \* purgeGraceHours, in clock units
    Limit,       \* rows a sweep takes: `limit = 100`
    LastDate,    \* bound: the latest expiry date an organizer asks for
    MaxTime,     \* bound: where the clock stops
    MaxCrashes   \* bound: crashes of a sweep, and prefix deletes out of attempts

NoDate == 0
Nobody == "nobody"

ASSUME ExpiryAssumption ==
    /\ Grace \in Nat /\ Limit \in Nat \ {0}
    /\ LastDate \in Nat /\ MaxTime \in Nat /\ MaxCrashes \in Nat
    /\ Nobody \notin Events

Dates == Nat \ {0}
Row == [expiresAt : Nat, notifiedAt : Nat, acked : BOOLEAN,
        purgeAfter : Nat, purged : BOOLEAN]

Notifier == [snap : SUBSET (Events \X Dates), at : Dates,
             next : Events \cup {Nobody}]
Purger == [snap : SUBSET Events, at : Dates, event : Events \cup {Nobody},
           step : {"check", "queue", "mark"}]
Request == [op : {"new", "extend", "ack", "purge", "mark", "done"},
            event : Events \cup {Nobody}, date : Nat]

Deletes == SUBSET {"queued", "failed", "cleared"}

VARIABLES
    now,
    ev,        \* the event rows
    media,     \* the event's objects in R2: "kept" or "gone"
    cleanup,   \* the event's CleanupPrefix jobs: "queued", "failed" (kept), "cleared"
    mailJob,   \* a SendEventExpiry job is queued for the event
    notifier,  \* EventExpirySweep: snapshot left, its `now`, whose mail is next
    purger,    \* EventPurgeSweep: snapshot left, its `now`, event in hand
    req,       \* organizer requests in progress
    crashes,
    darkFrom,  \* history: the earliest date the event's links were dark from
    notice,    \* history: of the current date, "none", "queued" or "lost" in a crash
    moved      \* history: the date changed behind the marks or a sweep's back

told == <<notice, moved>>
vars == <<now, ev, media, cleanup, mailJob, notifier, purger, req, crashes,
          darkFrom, notice, moved>>

\* isEventExpired: derived from the date, never stored.
Expired(row, t) == row.expiresAt # NoDate /\ t >= row.expiresAt

\* purgeDeadline
NoGrace(x) == x
purgeDeadline(x) == x + Grace

\* Rows, sweeps and requests hold dates inside the clock's range, and a sweep or
\* request holds an event exactly while it works (event-expiry.service.ts:88-139).
TypeOK ==
    /\ now \in Dates
    /\ ev \in [Events -> Row]
    /\ media \in [Events -> {"kept", "gone"}]
    /\ cleanup \in [Events -> Deletes]
    /\ mailJob \in [Events -> BOOLEAN]
    /\ notifier \in Notifier
    /\ purger \in Purger
    /\ req \in [Requests -> Request]
    /\ crashes \in 0..MaxCrashes
    /\ darkFrom \in [Events -> Nat]
    /\ notice \in [Events -> {"none", "queued", "lost"}]
    /\ moved \in [Events -> BOOLEAN]

-----------------------------------------------------------------------------
(* Time, and the history of the links going dark *)

Earliest(d, x) == IF d = NoDate \/ x < d THEN x ELSE d

Darken(rows, t) ==
    darkFrom' = [e \in Events |->
        IF Expired(rows[e], t) THEN Earliest(darkFrom[e], rows[e].expiresAt)
        ELSE darkFrom[e]]

\* A request is over well within one clock unit; a sweep may span several.
Tick ==
    /\ now < MaxTime
    /\ \A r \in Requests : req[r].op \in {"new", "done"}
    /\ now' = now + 1
    /\ Darken(ev, now + 1)
    /\ UNCHANGED <<ev, media, cleanup, mailJob, notifier, purger, req, crashes, told>>

-----------------------------------------------------------------------------
(* The sweeps' queries: the Limit oldest of the matching rows *)

OldestOf(S, date) ==
    {T \in SUBSET S :
        /\ Cardinality(T) = IF Cardinality(S) <= Limit THEN Cardinality(S) ELSE Limit
        /\ \A e \in T, f \in S \ T : date[e] <= date[f]}

IgnoresMark == {e \in Events : Expired(ev[e], now)}
NewlyExpired == {e \in Events : Expired(ev[e], now) /\ ev[e].notifiedAt = NoDate}
findNewlyExpired ==
    OldestOf(NewlyExpired, [e \in Events |-> ev[e].expiresAt])

DueForPurge ==
    {e \in Events :
        /\ ev[e].purgeAfter # NoDate /\ ev[e].purgeAfter <= now
        /\ ~ev[e].purged
        /\ ev[e].expiresAt = NoDate \/ ev[e].expiresAt <= now}
findDueForPurge ==
    OldestOf(DueForPurge, [e \in Events |-> ev[e].purgeAfter])

-----------------------------------------------------------------------------
(* handleEventExpirySweep *)

ExpirySweep ==
    /\ notifier.snap = {} /\ notifier.next = Nobody
    /\ NewlyExpired # {}
    /\ \E T \in findNewlyExpired :
         notifier' = [notifier EXCEPT !.snap = {<<e, ev[e].expiresAt>> : e \in T},
                                      !.at = now]
    /\ UNCHANGED <<now, ev, media, cleanup, mailJob, purger, req, crashes, darkFrom, told>>

\* Recorded first, from the snapshot's date and without reading again ...
ExpiryMark ==
    /\ notifier.next = Nobody
    /\ \E item \in notifier.snap :
         /\ ev' = [ev EXCEPT ![item[1]].notifiedAt = notifier.at,
                             ![item[1]].purgeAfter = purgeDeadline(item[2])]
         /\ notifier' = [notifier EXCEPT !.snap = @ \ {item}, !.next = item[1]]
    /\ UNCHANGED <<now, media, cleanup, mailJob, purger, req, crashes, darkFrom, told>>

\* ... then the notice is queued.
ExpiryQueue ==
    /\ notifier.next # Nobody
    /\ mailJob' = [mailJob EXCEPT ![notifier.next] = TRUE]
    /\ notice' = [notice EXCEPT ![notifier.next] = "queued"]
    /\ notifier' = [notifier EXCEPT !.next = Nobody]
    /\ UNCHANGED <<now, ev, media, cleanup, purger, req, crashes, darkFrom, moved>>

-----------------------------------------------------------------------------
(* handleEventPurgeSweep *)

PurgeSweep ==
    /\ purger.snap = {} /\ purger.event = Nobody
    /\ DueForPurge # {}
    /\ \E T \in findDueForPurge : purger' = [purger EXCEPT !.snap = T, !.at = now]
    /\ UNCHANGED <<now, ev, media, cleanup, mailJob, notifier, req, crashes, darkFrom, told>>

\* getById again: purged meanwhile, or no longer expired, is skipped.
PurgeRecheck ==
    /\ purger.event = Nobody
    /\ \E e \in purger.snap :
         purger' = IF ev[e].purged \/ ~Expired(ev[e], purger.at)
                   THEN [purger EXCEPT !.snap = @ \ {e}]
                   ELSE [purger EXCEPT !.snap = @ \ {e}, !.event = e, !.step = "queue"]
    /\ UNCHANGED <<now, ev, media, cleanup, mailJob, notifier, req, crashes, darkFrom, told>>

\* purge(): queue the prefix delete.
PurgeQueue ==
    /\ purger.event # Nobody /\ purger.step = "queue"
    /\ cleanup' = [cleanup EXCEPT ![purger.event] = @ \cup {"queued"}]
    /\ purger' = [purger EXCEPT !.step = "mark"]
    /\ UNCHANGED <<now, ev, media, mailJob, notifier, req, crashes, darkFrom, told>>

Purged(row) == [row EXCEPT !.purged = TRUE, !.purgeAfter = NoDate]

PurgeMark ==
    /\ purger.event # Nobody /\ purger.step = "mark"
    /\ ev' = [ev EXCEPT ![purger.event] = Purged(@)]
    /\ purger' = [purger EXCEPT !.event = Nobody, !.step = "check"]
    /\ UNCHANGED <<now, media, cleanup, mailJob, notifier, req, crashes, darkFrom, told>>

-----------------------------------------------------------------------------
(* Organizer requests: read and check, then write *)

\* extend: a future date, or none at all; refused once purged.
ExtendRead(r) ==
    /\ req[r].op = "new"
    /\ \E e \in Events, d \in {NoDate} \cup 1..LastDate :
         /\ ~ev[e].purged
         /\ d = NoDate \/ d > now
         /\ req' = [req EXCEPT ![r] = [op |-> "extend", event |-> e, date |-> d]]
    /\ UNCHANGED <<now, ev, media, cleanup, mailJob, notifier, purger, crashes, darkFrom, told>>

\* The notified and acknowledged marks go, so a later expiry notifies again.
KeepsNotified(row, d) ==
    [row EXCEPT !.expiresAt = d, !.acked = FALSE, !.purgeAfter = NoDate]
KeepsDeadline(row, d) ==
    [row EXCEPT !.expiresAt = d, !.notifiedAt = NoDate, !.acked = FALSE]
Extended(row, d) ==
    [row EXCEPT !.expiresAt = d, !.notifiedAt = NoDate, !.acked = FALSE,
                !.purgeAfter = NoDate]

\* The expiry sweep has the event in its snapshot, or has marked it and not mailed.
Notifying(e) == notifier.next = e \/ \E item \in notifier.snap : item[1] = e

ExtendWrite(r) ==
    /\ req[r].op = "extend"
    /\ LET e == req[r].event
           rows == [ev EXCEPT ![e] = Extended(@, req[r].date)]
       IN /\ ev' = rows
          /\ Darken(rows, now)
          /\ notice' = [notice EXCEPT ![e] = "none"]
          /\ moved' = [moved EXCEPT ![e] = Notifying(e)]
    /\ req' = [req EXCEPT ![r].op = "done"]
    /\ UNCHANGED <<now, media, cleanup, mailJob, notifier, purger, crashes>>

\* EventService.update: any date, past ones too, or none; the marks, the deadline
\* and whether the media is gone are neither read nor written.
Rescheduled(row, d) == [row EXCEPT !.expiresAt = d]

update(r) ==
    /\ req[r].op = "new"
    /\ \E e \in Events, d \in {NoDate} \cup 1..LastDate :
         LET rows == [ev EXCEPT ![e] = Rescheduled(@, d)]
         IN /\ ev' = rows
            /\ Darken(rows, now)
            /\ moved' = [moved EXCEPT ![e] =
                 @ \/ ev[e].notifiedAt # NoDate \/ Notifying(e) \/ e \in purger.snap]
    /\ req' = [req EXCEPT ![r].op = "done"]
    /\ UNCHANGED <<now, media, cleanup, mailJob, notifier, purger, crashes, notice>>

AcknowledgeRead(r) ==
    /\ req[r].op = "new"
    /\ \E e \in Events :
         /\ Expired(ev[e], now)
         /\ req' = [req EXCEPT ![r] = [op |-> "ack", event |-> e, date |-> NoDate]]
    /\ UNCHANGED <<now, ev, media, cleanup, mailJob, notifier, purger, crashes, darkFrom, told>>

AcknowledgeWrite(r) ==
    /\ req[r].op = "ack"
    /\ ev' = [ev EXCEPT ![req[r].event].acked = TRUE]
    /\ req' = [req EXCEPT ![r].op = "done"]
    /\ UNCHANGED <<now, media, cleanup, mailJob, notifier, purger, crashes, darkFrom, told>>

\* purgeNow: only for an expired event that still holds its media.
PurgeNowRead(r) ==
    /\ req[r].op = "new"
    /\ \E e \in Events :
         /\ Expired(ev[e], now) /\ ~ev[e].purged
         /\ req' = [req EXCEPT ![r] = [op |-> "purge", event |-> e, date |-> NoDate]]
    /\ UNCHANGED <<now, ev, media, cleanup, mailJob, notifier, purger, crashes, darkFrom, told>>

MarksWithoutQueueing(r) ==
    /\ req[r].op = "purge"
    /\ req' = [req EXCEPT ![r].op = "mark"]
    /\ UNCHANGED <<now, ev, media, cleanup, mailJob, notifier, purger, crashes, darkFrom, told>>
PurgeNowQueue(r) ==
    /\ req[r].op = "purge"
    /\ cleanup' = [cleanup EXCEPT ![req[r].event] = @ \cup {"queued"}]
    /\ req' = [req EXCEPT ![r].op = "mark"]
    /\ UNCHANGED <<now, ev, media, mailJob, notifier, purger, crashes, darkFrom, told>>

PurgeNowMark(r) ==
    /\ req[r].op = "mark"
    /\ ev' = [ev EXCEPT ![req[r].event] = Purged(@)]
    /\ req' = [req EXCEPT ![r].op = "done"]
    /\ UNCHANGED <<now, media, cleanup, mailJob, notifier, purger, crashes, darkFrom, told>>

-----------------------------------------------------------------------------
(* Queued jobs, and crashes of the worker that runs a sweep *)

\* handleCleanupPrefix deletes whatever is under the prefix, unconditionally.
CleanupPrefix(e) ==
    /\ "queued" \in cleanup[e]
    /\ cleanup' = [cleanup EXCEPT ![e] = @ \ {"queued"}]
    /\ media' = [media EXCEPT ![e] = "gone"]
    /\ UNCHANGED <<now, ev, mailJob, notifier, purger, req, crashes, darkFrom, told>>

\* It threw on each of its attempts: the job is kept as failed ...
CleanupFails(e) ==
    /\ crashes < MaxCrashes
    /\ "queued" \in cleanup[e]
    /\ crashes' = crashes + 1
    /\ cleanup' = [cleanup EXCEPT ![e] = (@ \ {"queued"}) \cup {"failed"}]
    /\ UNCHANGED <<now, ev, media, mailJob, notifier, purger, req, darkFrom, told>>

\* ... until an administrator has it retried, or drops it with a waiting one.
retryFailed(e) ==
    /\ "failed" \in cleanup[e]
    /\ cleanup' = [cleanup EXCEPT ![e] = (@ \ {"failed"}) \cup {"queued"}]
    /\ UNCHANGED <<now, ev, media, mailJob, notifier, purger, req, crashes, darkFrom, told>>

clear(e) ==
    /\ cleanup[e] \cap {"queued", "failed"} # {}
    /\ cleanup' = [cleanup EXCEPT ![e] = {"cleared"}]
    /\ UNCHANGED <<now, ev, media, mailJob, notifier, purger, req, crashes, darkFrom, told>>

\* handleSendEventExpiry: sent, skipped when no purge is scheduled any more, or out
\* of attempts.
SendEventExpiry(e) ==
    /\ mailJob[e]
    /\ mailJob' = [mailJob EXCEPT ![e] = FALSE]
    /\ UNCHANGED <<now, ev, media, cleanup, notifier, purger, req, crashes, darkFrom, told>>

CrashExpirySweep ==
    /\ crashes < MaxCrashes
    /\ notifier.snap # {} \/ notifier.next # Nobody
    /\ crashes' = crashes + 1
    /\ notifier' = [notifier EXCEPT !.snap = {}, !.next = Nobody]
    /\ notice' = IF notifier.next = Nobody THEN notice
                 ELSE [notice EXCEPT ![notifier.next] = "lost"]
    /\ UNCHANGED <<now, ev, media, cleanup, mailJob, purger, req, darkFrom, moved>>

CrashPurgeSweep ==
    /\ crashes < MaxCrashes
    /\ purger.snap # {} \/ purger.event # Nobody
    /\ crashes' = crashes + 1
    /\ purger' = [purger EXCEPT !.snap = {}, !.event = Nobody, !.step = "check"]
    /\ UNCHANGED <<now, ev, media, cleanup, mailJob, notifier, req, darkFrom, told>>

-----------------------------------------------------------------------------

NewRow(d) == [expiresAt |-> d, notifiedAt |-> NoDate, acked |-> FALSE,
              purgeAfter |-> NoDate, purged |-> FALSE]

Init ==
    /\ now = 1
    /\ \E dates \in [Events -> 2..LastDate] : ev = [e \in Events |-> NewRow(dates[e])]
    /\ media = [e \in Events |-> "kept"]
    /\ cleanup = [e \in Events |-> {}]
    /\ mailJob = [e \in Events |-> FALSE]
    /\ notifier = [snap |-> {}, at |-> 1, next |-> Nobody]
    /\ purger = [snap |-> {}, at |-> 1, event |-> Nobody, step |-> "check"]
    /\ req = [r \in Requests |-> [op |-> "new", event |-> Nobody, date |-> NoDate]]
    /\ crashes = 0
    /\ darkFrom = [e \in Events |-> NoDate]
    /\ notice = [e \in Events |-> "none"]
    /\ moved = [e \in Events |-> FALSE]

Organizer(r) ==
    \/ ExtendRead(r) \/ ExtendWrite(r) \/ update(r)
    \/ AcknowledgeRead(r) \/ AcknowledgeWrite(r)
    \/ PurgeNowRead(r) \/ PurgeNowQueue(r) \/ PurgeNowMark(r)

ExpirySweepStep == ExpirySweep \/ ExpiryMark \/ ExpiryQueue
PurgeSweepStep == PurgeSweep \/ PurgeRecheck \/ PurgeQueue \/ PurgeMark

Next ==
    \/ Tick
    \/ ExpirySweepStep \/ CrashExpirySweep
    \/ PurgeSweepStep \/ CrashPurgeSweep
    \/ \E r \in Requests : Organizer(r)
    \/ \E e \in Events : CleanupPrefix(e) \/ CleanupFails(e) \/ SendEventExpiry(e)
    \/ \E e \in Events : retryFailed(e) \/ clear(e)

Spec == Init /\ [][Next]_vars

\* Both sweeps recur by cron, queued jobs are run, time passes, and a request
\* that passed its checks makes its write.
Fairness ==
    /\ WF_vars(Tick)
    /\ WF_vars(ExpirySweepStep)
    /\ WF_vars(PurgeSweepStep)
    /\ \A e \in Events : WF_vars(CleanupPrefix(e)) /\ WF_vars(SendEventExpiry(e))
    /\ \A r \in Requests :
         WF_vars(ExtendWrite(r) \/ AcknowledgeWrite(r) \/ PurgeNowQueue(r) \/ PurgeNowMark(r))

FairSpec == Spec /\ Fairness

-----------------------------------------------------------------------------
(* Properties *)

\* A purge is scheduled only for an event whose owner was recorded as notified:
\* the sweep sets both columns at once, extend clears both and update() neither, so
\* no order of their writes separates them.
ScheduledMeansNotified ==
    \A e \in Events : ev[e].purgeAfter # NoDate => ev[e].notifiedAt # NoDate

\* An event recorded as purged has its prefix delete done, queued, or failed and
\* kept for the administrator who retries or clears it: a crash between queueing and
\* recording leaves it due again, never purged without a delete.
PurgedMeansDeleted ==
    \A e \in Events : ev[e].purged => cleanup[e] # {} \/ media[e] = "gone"

\* Whatever interleaves, the purge sweep never queues the delete of an event within
\* the grace period of the first date its links were dark from.  A date that update()
\* puts in the past counts as given: nothing checks it.
NeverWithinFirstGrace ==
    [][PurgeQueue =>
         LET e == purger.event
         IN darkFrom[e] # NoDate /\ now >= darkFrom[e] + Grace]_vars

\* An event the purge sweep takes has had the whole grace period of the date it has
\* now, and its owner's notice of that date was queued (or lost in a crash of the
\* expiry sweep, or is about to be), and the notice of one date is queued once: unless
\* the date was changed by update(), which leaves the marks, after they were set, or
\* changed while a sweep held the event (event-expiry.service.ts:88-126).
OwnersForewarned ==
    [][/\ \A e \in Events : PurgeRecheck /\ purger'.event = e =>
            \/ moved[e]
            \/ /\ ev[e].expiresAt + Grace <= purger.at
               /\ notice[e] # "none" \/ notifier.next = e
       /\ ExpiryQueue => LET e == notifier.next IN moved[e] \/ notice[e] = "none"]_vars

\* An event that stays expired is purged and its media deleted, if its delete does
\* not run out of attempts.
ExpiredIsPurged ==
    \A e \in Events :
        <>[]Expired(ev[e], now) =>
            <>(/\ ev[e].purged
               /\ media[e] = "gone" \/ cleanup[e] \cap {"failed", "cleared"} # {})

\* The sweeps, requests and jobs together keep the promise of MediaRetention: the
\* photos are doomed once their delete is queued, and a request asks from its
\* check to its queueing (event-expiry.service.ts:77-83, 107-139).
AskedPurge == {req[r].event : r \in {q \in Requests : req[q].op = "purge"}}
Life == [e \in Events |-> IF media[e] = "gone" THEN "gone"
                          ELSE IF cleanup[e] # {} THEN "doomed" ELSE "kept"]
Retention == INSTANCE MediaRetention
    WITH clock <- now, closed <- darkFrom, asked <- AskedPurge, life <- Life,
         recorded <- {e \in Events : ev[e].purged}
KeepsRetention == Retention!RetentionSpec

\* Whatever sweeps, requests and crashes interleave, rows keep their types, a purge is
\* scheduled only behind a notice, and an event on record as purged has its delete
\* done, queued or failed (event-expiry.service.ts:88-139).
ExpiryInv == TypeOK /\ ScheduledMeansNotified /\ PurgedMeansDeleted
=============================================================================
