--------------------------- MODULE Events_proofs ---------------------------
(***************************************************************************)
(* What is kept about events for every number of them, of photos, requests *)
(* and crashes: their expiry and retention on the server, and the pages of *)
(* the web client that show them.                                          *)
(***************************************************************************)
EXTENDS EventExpiry, MCClient, FiniteSetTheorems, TLAPS

\* The queries return some of the matching events.
LEMMA OldestAreMatching ==
    ASSUME NEW S, NEW date, NEW T \in OldestOf(S, date)
    PROVE  T \subseteq S
BY DEF OldestOf

\* extend, update and the two purges write well-formed rows.
LEMMA RowsStayRows ==
    ASSUME NEW row \in Row, NEW d \in Nat
    PROVE  Extended(row, d) \in Row /\ Rescheduled(row, d) \in Row /\ Purged(row) \in Row
BY DEF Row, Extended, Rescheduled, Purged, NoDate

\* What update() writes to which row.
LEMMA UpdateWrites ==
    ASSUME NEW r \in Requests, update(r), ev \in [Events -> Row], LastDate \in Nat
    PROVE  \E e \in Events, d \in Nat :
             /\ ev' = [ev EXCEPT ![e] = Rescheduled(ev[e], d)]
             /\ Darken(ev', now)
             /\ moved' = [moved EXCEPT ![e] = moved[e] \/ ev[e].notifiedAt # NoDate
                                              \/ Notifying(e) \/ e \in purger.snap]
<1>1. PICK e \in Events, d \in {NoDate} \cup 1..LastDate :
        LET after == [ev EXCEPT ![e] = Rescheduled(@, d)]
        IN /\ ev' = after
           /\ Darken(after, now)
           /\ moved' = [moved EXCEPT ![e] =
                @ \/ ev[e].notifiedAt # NoDate \/ Notifying(e) \/ e \in purger.snap]
  BY Zenon DEF update
<1>2. d \in Nat
  BY DEF NoDate
<1>3. Darken(ev', now)
  BY <1>1 DEF Darken
<1> QED BY <1>1, <1>2, <1>3, Zenon

\* The jobs of one event's delete after its own step.
LEMMA DeletesStay ==
    ASSUME cleanup \in [Events -> Deletes], NEW e \in Events, NEW S \in Deletes
    PROVE  [cleanup EXCEPT ![e] = S] \in [Events -> Deletes]
OBVIOUS

\* What the steps make of the jobs.
LEMMA DeletesAre ==
    ASSUME NEW S \in Deletes
    PROVE  /\ S \cup {"queued"} \in Deletes /\ S \ {"queued"} \in Deletes
           /\ (S \ {"queued"}) \cup {"failed"} \in Deletes
           /\ (S \ {"failed"}) \cup {"queued"} \in Deletes
           /\ {"cleared"} \in Deletes
BY DEF Deletes

-----------------------------------------------------------------------------

\* The type invariant is kept by every step of the sweeps, the organizers, the
\* queued jobs and the crashes.
LEMMA TypeStep == TypeOK /\ [Next]_vars => TypeOK'
<1> SUFFICES ASSUME TypeOK, [Next]_vars PROVE TypeOK'
    OBVIOUS
<1> USE ExpiryAssumption DEF TypeOK, Dates, NoDate, told
<1>1. CASE Tick
  BY <1>1 DEF Tick, Darken, Earliest, Expired, Row
<1>2. CASE ExpirySweep
  <2> PICK T \in findNewlyExpired :
        notifier' = [notifier EXCEPT !.snap = {<<e, ev[e].expiresAt>> : e \in T},
                                     !.at = now]
      BY <1>2 DEF ExpirySweep
  <2>1. T \subseteq NewlyExpired
    BY OldestAreMatching DEF findNewlyExpired
  <2>2. {<<e, ev[e].expiresAt>> : e \in T} \subseteq Events \X Dates
    BY <2>1 DEF NewlyExpired, Expired, Row
  <2>3. notifier' \in Notifier
    BY <2>2 DEF Notifier
  <2> QED BY <1>2, <2>3 DEF ExpirySweep
<1>3. CASE ExpiryMark
  <2> PICK item \in notifier.snap :
        /\ ev' = [ev EXCEPT ![item[1]].notifiedAt = notifier.at,
                            ![item[1]].purgeAfter = purgeDeadline(item[2])]
        /\ notifier' = [notifier EXCEPT !.snap = @ \ {item}, !.next = item[1]]
      BY <1>3 DEF ExpiryMark
  <2>1. item[1] \in Events /\ item[2] \in Nat /\ notifier.at \in Nat
    BY DEF Notifier
  <2>2. purgeDeadline(item[2]) \in Nat
    BY <2>1 DEF purgeDeadline
  <2>3. ev' \in [Events -> Row]
    BY <2>1, <2>2, SMTT(40) DEF Row
  <2>4. notifier' \in Notifier
    BY <2>1 DEF Notifier
  <2> QED BY <1>3, <2>3, <2>4 DEF ExpiryMark
<1>4. CASE ExpiryQueue
  <2>1. notifier' \in Notifier
    BY <1>4 DEF ExpiryQueue, Notifier
  <2> QED BY <1>4, <2>1 DEF ExpiryQueue, Notifier
<1>5. CASE PurgeSweep
  <2> PICK T \in findDueForPurge : purger' = [purger EXCEPT !.snap = T, !.at = now]
      BY <1>5 DEF PurgeSweep
  <2>1. T \subseteq Events
    BY OldestAreMatching DEF findDueForPurge, DueForPurge
  <2>2. purger' \in Purger
    BY <2>1 DEF Purger
  <2> QED BY <1>5, <2>2 DEF PurgeSweep
<1>6. CASE PurgeRecheck
  <2>1. purger' \in Purger
    <3> PICK e \in purger.snap :
          \/ purger' = [purger EXCEPT !.snap = @ \ {e}]
          \/ purger' = [purger EXCEPT !.snap = @ \ {e}, !.event = e, !.step = "queue"]
        BY <1>6 DEF PurgeRecheck
    <3>1. e \in Events
      BY DEF Purger
    <3>2. purger' \in Purger
      <4>1. CASE purger' = [purger EXCEPT !.snap = @ \ {e}]
        BY <4>1 DEF Purger
      <4>2. CASE purger' = [purger EXCEPT !.snap = @ \ {e}, !.event = e, !.step = "queue"]
        BY <3>1, <4>2 DEF Purger
      <4> QED BY <4>1, <4>2
    <3> QED BY <3>2
  <2> QED BY <1>6, <2>1 DEF PurgeRecheck
<1>7. CASE PurgeQueue
  <2>1. purger' \in Purger /\ purger.event \in Events
    BY <1>7 DEF PurgeQueue, Purger
  <2>2. cleanup' \in [Events -> Deletes]
    BY <1>7, <2>1, DeletesStay, DeletesAre DEF PurgeQueue
  <2> QED BY <1>7, <2>1, <2>2 DEF PurgeQueue
<1>8. CASE PurgeMark
  <2>1. purger' \in Purger
    BY <1>8 DEF PurgeMark, Purger
  <2>2. ev' \in [Events -> Row]
    <3> DEFINE x == purger.event
    <3>1. x \in Events /\ ev' = [ev EXCEPT ![x] = Purged(ev[x])]
      BY <1>8 DEF PurgeMark, Purger
    <3> HIDE DEF x
    <3> QED BY <3>1, RowsStayRows
  <2> QED BY <1>8, <2>1, <2>2 DEF PurgeMark
<1>9. CASE CrashExpirySweep
  <2>1. notifier' \in Notifier
    BY <1>9 DEF CrashExpirySweep, Notifier
  <2>2. crashes' \in 0..MaxCrashes
    BY <1>9 DEF CrashExpirySweep
  <2>3. notice' \in [Events -> {"none", "queued", "lost"}]
    BY <1>9 DEF CrashExpirySweep
  <2> QED BY <1>9, <2>1, <2>2, <2>3 DEF CrashExpirySweep
<1>10. CASE CrashPurgeSweep
  <2>1. purger' \in Purger
    BY <1>10 DEF CrashPurgeSweep, Purger
  <2> QED BY <1>10, <2>1 DEF CrashPurgeSweep
<1>11. ASSUME NEW r \in Requests, Organizer(r) PROVE TypeOK'
  <2>1. CASE ExtendRead(r)
    <3>1. req' \in [Requests -> Request]
      BY <2>1 DEF ExtendRead, Request
    <3> QED BY <2>1, <3>1 DEF ExtendRead
  <2>2. CASE ExtendWrite(r)
    <3>1. req' \in [Requests -> Request]
      BY <2>2 DEF ExtendWrite, Request
    <3>2. ev' \in [Events -> Row]
      <4> DEFINE x == req[r].event
                 d == req[r].date
      <4>1. d \in Nat /\ ev' = [ev EXCEPT ![x] = Extended(ev[x], d)]
        BY <2>2 DEF ExtendWrite, Request
      <4> HIDE DEF x, d
      <4> QED BY <4>1, RowsStayRows
    <3>3. darkFrom' \in [Events -> Nat]
      BY <2>2, <3>2 DEF ExtendWrite, Darken, Earliest, Row
    <3>4. moved' \in [Events -> BOOLEAN] /\ notice' \in [Events -> {"none", "queued", "lost"}]
      BY <2>2, Zenon DEF ExtendWrite, Notifying
    <3> QED BY <2>2, <3>1, <3>2, <3>3, <3>4 DEF ExtendWrite
  <2>8. CASE update(r)
    <3>1. req' \in [Requests -> Request]
      BY <2>8 DEF update, Request
    <3>2. PICK e \in Events, d \in Nat :
            /\ ev' = [ev EXCEPT ![e] = Rescheduled(ev[e], d)]
            /\ Darken(ev', now)
            /\ moved' = [moved EXCEPT ![e] = moved[e] \/ ev[e].notifiedAt # NoDate
                                             \/ Notifying(e) \/ e \in purger.snap]
      BY <2>8, UpdateWrites
    <3>3. ev' \in [Events -> Row]
      BY <3>2, RowsStayRows
    <3>4. darkFrom' \in [Events -> Nat]
      BY <3>2, <3>3 DEF Darken, Earliest, Row
    <3>5. moved' \in [Events -> BOOLEAN]
      BY <3>2, Zenon DEF Notifying
    <3> QED BY <2>8, <3>1, <3>3, <3>4, <3>5 DEF update
  <2>3. CASE AcknowledgeRead(r)
    <3>1. req' \in [Requests -> Request]
      BY <2>3 DEF AcknowledgeRead, Request
    <3> QED BY <2>3, <3>1 DEF AcknowledgeRead
  <2>4. CASE AcknowledgeWrite(r)
    <3>1. req' \in [Requests -> Request]
      BY <2>4 DEF AcknowledgeWrite, Request
    <3>2. ev' \in [Events -> Row]
      BY <2>4 DEF AcknowledgeWrite, Row
    <3> QED BY <2>4, <3>1, <3>2 DEF AcknowledgeWrite
  <2>5. CASE PurgeNowRead(r)
    <3>1. req' \in [Requests -> Request]
      BY <2>5 DEF PurgeNowRead, Request
    <3> QED BY <2>5, <3>1 DEF PurgeNowRead
  <2>6. CASE PurgeNowQueue(r)
    <3>1. req' \in [Requests -> Request]
      BY <2>6 DEF PurgeNowQueue, Request
    <3>2. cleanup' \in [Events -> Deletes]
      <4>1. CASE req[r].event \in Events
        BY <2>6, <4>1, DeletesStay, DeletesAre DEF PurgeNowQueue
      <4>2. CASE req[r].event \notin Events
        BY <2>6, <4>2 DEF PurgeNowQueue
      <4> QED BY <4>1, <4>2
    <3> QED BY <2>6, <3>1, <3>2 DEF PurgeNowQueue
  <2>7. CASE PurgeNowMark(r)
    <3>1. req' \in [Requests -> Request]
      BY <2>7 DEF PurgeNowMark, Request
    <3>2. ev' \in [Events -> Row]
      BY <2>7 DEF PurgeNowMark, Purged, Row
    <3> QED BY <2>7, <3>1, <3>2 DEF PurgeNowMark
  <2> QED BY <1>11, <2>1, <2>2, <2>3, <2>4, <2>5, <2>6, <2>7, <2>8 DEF Organizer
<1>12. ASSUME NEW e \in Events,
              \/ CleanupPrefix(e) \/ CleanupFails(e) \/ SendEventExpiry(e)
              \/ retryFailed(e) \/ clear(e)
       PROVE  TypeOK'
  <2>1. cleanup' \in [Events -> Deletes]
    <3>1. cleanup[e] \in Deletes
      OBVIOUS
    <3>2. CASE SendEventExpiry(e)
      BY <3>2 DEF SendEventExpiry
    <3>3. CASE CleanupPrefix(e)
      BY <3>1, <3>3, DeletesStay, DeletesAre DEF CleanupPrefix
    <3>4. CASE CleanupFails(e)
      BY <3>1, <3>4, DeletesStay, DeletesAre DEF CleanupFails
    <3>5. CASE retryFailed(e)
      BY <3>1, <3>5, DeletesStay, DeletesAre DEF retryFailed
    <3>6. CASE clear(e)
      BY <3>1, <3>6, DeletesStay, DeletesAre DEF clear
    <3> QED BY <1>12, <3>2, <3>3, <3>4, <3>5, <3>6
  <2>2. crashes' \in 0..MaxCrashes
    BY <1>12 DEF CleanupPrefix, CleanupFails, SendEventExpiry, retryFailed, clear
  <2>3. media' \in [Events -> {"kept", "gone"}] /\ mailJob' \in [Events -> BOOLEAN]
    BY <1>12 DEF CleanupPrefix, CleanupFails, SendEventExpiry, retryFailed, clear
  <2>4. UNCHANGED <<now, ev, notifier, purger, req, darkFrom, notice, moved>>
    BY <1>12 DEF CleanupPrefix, CleanupFails, SendEventExpiry, retryFailed, clear
  <2> QED BY <2>1, <2>2, <2>3, <2>4
<1>13. CASE UNCHANGED vars
  BY <1>13 DEF vars, told
<1> QED
  BY <1>1, <1>2, <1>3, <1>4, <1>5, <1>6, <1>7, <1>8, <1>9, <1>10, <1>11, <1>12,
     <1>13 DEF Next, ExpirySweepStep, PurgeSweepStep

\* Every reachable state of the expiry model is well typed.
THEOREM TypeCorrect == Spec => []TypeOK
<1>1. Init => TypeOK
  BY ExpiryAssumption DEF Init, TypeOK, Dates, Row, NewRow, NoDate, Notifier, Purger,
     Request, Deletes
<1> QED BY <1>1, TypeStep, PTL DEF Spec

-----------------------------------------------------------------------------
(* Scheduled means notified *)

\* The steps that write an event row.
LEMMA RowWriters ==
    ASSUME [Next]_vars
    PROVE  \/ UNCHANGED ev \/ ExpiryMark \/ PurgeMark
           \/ \E r \in Requests : \/ ExtendWrite(r) \/ update(r)
                                 \/ AcknowledgeWrite(r) \/ PurgeNowMark(r)
BY DEF Next, Tick, ExpirySweepStep, ExpirySweep, ExpiryQueue, CrashExpirySweep,
       PurgeSweepStep, PurgeSweep, PurgeRecheck, PurgeQueue, CrashPurgeSweep,
       Organizer, ExtendRead, AcknowledgeRead, PurgeNowRead, PurgeNowQueue,
       CleanupPrefix, CleanupFails, retryFailed, clear, SendEventExpiry, vars

\* Only the expiry sweep sets the deadline, together with the mark; whatever
\* clears the mark clears the deadline.
LEMMA ScheduledStep ==
    TypeOK /\ ScheduledMeansNotified /\ [Next]_vars => ScheduledMeansNotified'
<1> SUFFICES ASSUME TypeOK, ScheduledMeansNotified, [Next]_vars,
                    NEW e \in Events, ev'[e].purgeAfter # NoDate
             PROVE  ev'[e].notifiedAt # NoDate
    BY DEF ScheduledMeansNotified
<1>1. CASE UNCHANGED ev
  BY <1>1 DEF ScheduledMeansNotified
<1>2. CASE ExpiryMark
  <2> PICK item \in notifier.snap :
        ev' = [ev EXCEPT ![item[1]].notifiedAt = notifier.at,
                         ![item[1]].purgeAfter = purgeDeadline(item[2])]
      BY <1>2 DEF ExpiryMark
  <2>1. notifier.at # NoDate
    BY DEF TypeOK, Notifier, Dates, NoDate
  <2> QED BY <2>1 DEF ScheduledMeansNotified, TypeOK, Row
<1>3. CASE PurgeMark
  BY <1>3 DEF PurgeMark, Purged, ScheduledMeansNotified, TypeOK, Row
<1>4. ASSUME NEW r \in Requests, ExtendWrite(r) PROVE ev'[e].notifiedAt # NoDate
  <2> DEFINE x == req[r].event
             d == req[r].date
  <2>1. ev' = [ev EXCEPT ![x] = Extended(ev[x], d)]
    BY <1>4 DEF ExtendWrite
  <2> HIDE DEF x, d
  <2>2. e # x
    BY <2>1 DEF TypeOK, Extended, Row, NoDate
  <2> QED BY <2>1, <2>2 DEF ScheduledMeansNotified, TypeOK
<1>5. ASSUME NEW r \in Requests, AcknowledgeWrite(r) PROVE ev'[e].notifiedAt # NoDate
  BY <1>5 DEF AcknowledgeWrite, ScheduledMeansNotified, TypeOK, Row
<1>6. ASSUME NEW r \in Requests, PurgeNowMark(r) PROVE ev'[e].notifiedAt # NoDate
  BY <1>6 DEF PurgeNowMark, Purged, ScheduledMeansNotified, TypeOK, Row
<1>7. ASSUME NEW r \in Requests, update(r) PROVE ev'[e].notifiedAt # NoDate
  BY <1>7, UpdateWrites, ExpiryAssumption DEF Rescheduled, ScheduledMeansNotified, TypeOK, Row
<1> QED BY RowWriters, <1>1, <1>2, <1>3, <1>4, <1>5, <1>6, <1>7

\* No purge is ever scheduled for an event whose owner is not on record as
\* notified, for any number of events, organizers and crashes.
THEOREM ScheduledMeansNotifiedHolds == Spec => []ScheduledMeansNotified
<1>1. Init => ScheduledMeansNotified
  BY DEF Init, ScheduledMeansNotified, NewRow
<1> QED BY <1>1, TypeCorrect, ScheduledStep, PTL DEF Spec

-----------------------------------------------------------------------------
(* Purged means deleted *)

\* The delete of the event is done, queued, or failed.
Deleted(e) == cleanup[e] # {} \/ media[e] = "gone"

\* The strengthening: whoever is about to record a purge has queued it.
PurgeInHand ==
    /\ purger.event # Nobody /\ purger.step = "mark" => Deleted(purger.event)
    /\ \A r \in Requests :
         /\ req[r].op \in {"purge", "mark"} => req[r].event \in Events
         /\ req[r].op = "mark" => Deleted(req[r].event)

PurgeInv == PurgedMeansDeleted /\ PurgeInHand

\* Once queued, a delete leaves its trace: it is done, retried, failed or cleared.
LEMMA DeletedIsStable ==
    ASSUME TypeOK, [Next]_vars, NEW e \in Events, Deleted(e)
    PROVE  Deleted(e)'
<1>1. ASSUME NEW f \in Events, CleanupPrefix(f) PROVE Deleted(e)'
  BY <1>1 DEF CleanupPrefix, Deleted, TypeOK
<1>2. CASE PurgeQueue
  BY <1>2 DEF PurgeQueue, Deleted, TypeOK
<1>3. ASSUME NEW r \in Requests, PurgeNowQueue(r) PROVE Deleted(e)'
  BY <1>3 DEF PurgeNowQueue, Deleted, TypeOK
<1>4. CASE UNCHANGED <<cleanup, media>>
  BY <1>4 DEF Deleted
<1>6. ASSUME NEW f \in Events, CleanupFails(f) \/ retryFailed(f) \/ clear(f)
      PROVE  Deleted(e)'
  <2>1. \A g \in Events : cleanup[g] # {} => cleanup'[g] # {}
    BY <1>6 DEF CleanupFails, retryFailed, clear, TypeOK
  <2>2. media' = media
    BY <1>6 DEF CleanupFails, retryFailed, clear
  <2> QED BY <2>1, <2>2 DEF Deleted
<1>5. \/ UNCHANGED <<cleanup, media>> \/ PurgeQueue
      \/ \E f \in Events : CleanupPrefix(f) \/ CleanupFails(f) \/ retryFailed(f) \/ clear(f)
      \/ \E r \in Requests : PurgeNowQueue(r)
  BY DEF Next, Tick, ExpirySweepStep, ExpirySweep, ExpiryMark, ExpiryQueue,
         CrashExpirySweep, PurgeSweepStep, PurgeSweep, PurgeRecheck, PurgeMark,
         CrashPurgeSweep, Organizer, ExtendRead, ExtendWrite, update, AcknowledgeRead,
         AcknowledgeWrite, update, PurgeNowRead, PurgeNowMark, SendEventExpiry, vars
<1> QED BY <1>1, <1>2, <1>3, <1>4, <1>5, <1>6

\* Every step keeps a purged event deleted and the delete in the sweep's or a
\* request's hand queued.
LEMMA PurgeStep == TypeOK /\ PurgeInv /\ [Next]_vars => PurgeInv'
<1> SUFFICES ASSUME TypeOK, PurgeInv, [Next]_vars PROVE PurgeInv'
    OBVIOUS
<1> USE DEF PurgeInv
<1>1. PurgedMeansDeleted'
  <2> SUFFICES ASSUME NEW e \in Events, ev'[e].purged PROVE Deleted(e)'
      BY DEF PurgedMeansDeleted, Deleted
  <2>1. CASE ev[e].purged
    BY <2>1, DeletedIsStable DEF PurgedMeansDeleted, Deleted
  <2>2. CASE PurgeMark
    <3>1. e = purger.event \/ ev[e].purged
      BY <2>2 DEF PurgeMark, TypeOK
    <3>2. Deleted(e)
      BY <2>1, <2>2, <3>1 DEF PurgeMark, PurgeInHand, PurgedMeansDeleted, Deleted
    <3> QED BY <3>2, DeletedIsStable
  <2>3. ASSUME NEW r \in Requests, PurgeNowMark(r) PROVE Deleted(e)'
    <3>1. e = req[r].event \/ ev[e].purged
      BY <2>3 DEF PurgeNowMark, TypeOK
    <3>2. Deleted(e)
      BY <2>3, <3>1 DEF PurgeNowMark, PurgeInHand, PurgedMeansDeleted, Deleted
    <3> QED BY <3>2, DeletedIsStable
  <2>4. ASSUME NEW r \in Requests, ExtendWrite(r) PROVE ev[e].purged
    <3> DEFINE x == req[r].event
               d == req[r].date
    <3>1. ev' = [ev EXCEPT ![x] = Extended(ev[x], d)]
      BY <2>4 DEF ExtendWrite
    <3> HIDE DEF x, d
    <3> QED BY <3>1 DEF TypeOK, Extended, Row
  <2>5. ASSUME NEW r \in Requests, AcknowledgeWrite(r) PROVE ev[e].purged
    BY <2>5 DEF AcknowledgeWrite, TypeOK, Row
  <2>6. CASE ExpiryMark
    BY <2>1, <2>6 DEF ExpiryMark, TypeOK, Row
  <2>7. ASSUME NEW r \in Requests, update(r) PROVE ev[e].purged
    BY <2>7, UpdateWrites, ExpiryAssumption DEF TypeOK, Rescheduled, Row
  <2> QED BY RowWriters, <2>1, <2>2, <2>3, <2>4, <2>5, <2>6, <2>7
<1>2. (purger.event # Nobody /\ purger.step = "mark" => Deleted(purger.event))'
  <2> SUFFICES ASSUME purger'.event # Nobody, purger'.step = "mark"
               PROVE  Deleted(purger.event)'
      OBVIOUS
  <2>1. CASE UNCHANGED purger
    BY <2>1, DeletedIsStable DEF PurgeInHand, Deleted, TypeOK, Purger
  <2>2. CASE PurgeQueue
    BY <2>2 DEF PurgeQueue, Deleted, TypeOK, Purger
  <2>3. CASE PurgeSweep
    BY <2>3 DEF PurgeSweep, TypeOK, Purger
  <2>4. CASE PurgeRecheck
    <3>1. purger'.event = Nobody \/ purger'.step = "queue"
      BY <2>4 DEF PurgeRecheck, TypeOK, Purger
    <3> QED BY <3>1
  <2>5. CASE PurgeMark \/ CrashPurgeSweep
    BY <2>5 DEF PurgeMark, CrashPurgeSweep, TypeOK, Purger
  <2> QED BY <2>1, <2>2, <2>3, <2>4, <2>5 DEF Next, Tick, ExpirySweepStep,
        ExpirySweep, ExpiryMark, ExpiryQueue, CrashExpirySweep, PurgeSweepStep,
        Organizer, ExtendRead, ExtendWrite, update, AcknowledgeRead, AcknowledgeWrite,
        PurgeNowRead, PurgeNowQueue, PurgeNowMark, CleanupPrefix, CleanupFails, retryFailed, clear,
        SendEventExpiry, vars
<1>3. ASSUME NEW r \in Requests
      PROVE  (/\ req[r].op \in {"purge", "mark"} => req[r].event \in Events
              /\ req[r].op = "mark" => Deleted(req[r].event))'
  <2>1. CASE req'[r] = req[r]
    BY <2>1, DeletedIsStable DEF PurgeInHand, Deleted
  <2>2. CASE PurgeNowRead(r)
    BY <2>2 DEF PurgeNowRead, TypeOK
  <2>3. CASE PurgeNowQueue(r)
    <3>1. req'[r].event = req[r].event /\ req[r].event \in Events
      BY <2>3 DEF PurgeNowQueue, PurgeInHand, TypeOK, Request
    <3>2. cleanup'[req[r].event] # {}
      BY <2>3, <3>1 DEF PurgeNowQueue, TypeOK
    <3> QED BY <3>1, <3>2 DEF Deleted
  <2>4. CASE req'[r].op \in {"extend", "ack", "done"}
    BY <2>4
  <2>5. ASSUME NEW q \in Requests, q # r, Organizer(q) PROVE req'[r] = req[r]
    BY <2>5 DEF Organizer, ExtendRead, ExtendWrite, update, AcknowledgeRead, AcknowledgeWrite,
                PurgeNowRead, PurgeNowQueue, PurgeNowMark, TypeOK
  <2>6. ASSUME ExtendRead(r) \/ ExtendWrite(r) \/ update(r) \/ AcknowledgeRead(r)
               \/ AcknowledgeWrite(r) \/ PurgeNowMark(r)
        PROVE  req'[r].op \in {"extend", "ack", "done"}
    BY <2>6 DEF ExtendRead, ExtendWrite, update, AcknowledgeRead, AcknowledgeWrite,
                PurgeNowMark, TypeOK, Request
  <2>7. UNCHANGED req \/ \E q \in Requests : Organizer(q)
    BY DEF Next, Tick, ExpirySweepStep, ExpirySweep, ExpiryMark, ExpiryQueue,
           CrashExpirySweep, PurgeSweepStep, PurgeSweep, PurgeRecheck, PurgeQueue,
           PurgeMark, CrashPurgeSweep, CleanupPrefix, CleanupFails, retryFailed, clear, SendEventExpiry, vars
  <2> QED BY <2>1, <2>2, <2>3, <2>4, <2>5, <2>6, <2>7 DEF Organizer
<1> QED BY <1>1, <1>2, <1>3 DEF PurgeInHand

\* An event on record as purged has its media deleted or its delete queued,
\* whatever crashes between the two steps of a purge and whoever else purges,
\* extends or acknowledges the event meanwhile.
THEOREM PurgedMeansDeletedHolds == Spec => []PurgedMeansDeleted
<1>1. Init => PurgeInv
  BY DEF Init, PurgeInv, PurgedMeansDeleted, PurgeInHand, NewRow
<1>2. PurgeInv => PurgedMeansDeleted
  BY DEF PurgeInv
<1> QED BY <1>1, <1>2, TypeCorrect, PurgeStep, PTL DEF Spec

\* Together: what the expiry model keeps about its rows, whatever sweeps, requests
\* and crashes interleave.
THEOREM ExpiryInvHolds == Spec => []ExpiryInv
BY TypeCorrect, ScheduledMeansNotifiedHolds, PurgedMeansDeletedHolds, PTL DEF ExpiryInv

-----------------------------------------------------------------------------
(* Owners are forewarned *)

\* What is so of an event whose date was not moved behind the marks: its deadline is
\* a grace period after its date and has its notice; without a mark it has neither;
\* what the expiry sweep holds of it is its row, unmarked; and what the purge sweep
\* holds of it is due, unless an organizer made it unexpired or purged it.
InStep(e) ==
    /\ ev[e].purgeAfter # NoDate => ev[e].purgeAfter = ev[e].expiresAt + Grace
    /\ ev[e].notifiedAt # NoDate => notice[e] # "none" \/ notifier.next = e
    /\ ev[e].notifiedAt = NoDate =>
         ev[e].purgeAfter = NoDate /\ notice[e] = "none" /\ notifier.next # e
    /\ \A item \in notifier.snap : item[1] = e =>
         item[2] = ev[e].expiresAt /\ ev[e].notifiedAt = NoDate
    /\ notifier.next = e => notice[e] = "none"
    /\ e \in purger.snap /\ Expired(ev[e], purger.at) /\ ~ev[e].purged =>
         ev[e].purgeAfter # NoDate /\ ev[e].purgeAfter <= purger.at

\* A date an organizer was allowed to ask for is still ahead when it is written, and
\* the purge sweep is not ahead of the clock.
AskedAhead ==
    /\ \A r \in Requests : req[r].op = "extend" => req[r].date = NoDate \/ req[r].date > now
    /\ purger.at <= now

ForewarnedInv == AskedAhead /\ \A e \in Events : moved[e] \/ InStep(e)

\* Requests are over before the clock moves, and the purge sweep reads the clock once.
LEMMA AheadStep == TypeOK /\ AskedAhead /\ [Next]_vars => AskedAhead'
<1> SUFFICES ASSUME TypeOK, AskedAhead, [Next]_vars PROVE AskedAhead'
    OBVIOUS
<1> USE DEF AskedAhead
<1>1. CASE Tick
  BY <1>1 DEF Tick, TypeOK, Purger, Dates
<1>2. CASE PurgeSweep
  <2>1. purger'.at = now /\ UNCHANGED <<req, now>>
    BY <1>2 DEF PurgeSweep, TypeOK, Purger
  <2> QED BY <2>1 DEF TypeOK, Dates
<1>3. CASE PurgeRecheck
  <2>1. purger'.at = purger.at /\ UNCHANGED <<req, now>>
    BY <1>3 DEF PurgeRecheck, TypeOK, Purger
  <2> QED BY <2>1
<1>4. CASE PurgeQueue \/ PurgeMark \/ CrashPurgeSweep
  <2>1. purger'.at = purger.at /\ UNCHANGED <<req, now>>
    BY <1>4 DEF PurgeQueue, PurgeMark, CrashPurgeSweep, TypeOK, Purger
  <2> QED BY <2>1
<1>5. ASSUME NEW r \in Requests, Organizer(r) PROVE AskedAhead'
  <2>1. now' = now /\ purger' = purger
    BY <1>5 DEF Organizer, ExtendRead, ExtendWrite, update, AcknowledgeRead,
       AcknowledgeWrite, PurgeNowRead, PurgeNowQueue, PurgeNowMark
  <2>2. ASSUME NEW q \in Requests, req'[q].op = "extend"
        PROVE  req'[q].date = NoDate \/ req'[q].date > now
    <3>1. CASE req'[q] = req[q]
      BY <2>2, <3>1
    <3>2. CASE q = r /\ ExtendRead(r)
      BY <3>2 DEF ExtendRead, TypeOK
    <3>3. CASE q = r /\ ~ExtendRead(r)
      BY <1>5, <2>2, <3>3 DEF Organizer, ExtendWrite, update, AcknowledgeRead,
         AcknowledgeWrite, PurgeNowRead, PurgeNowQueue, PurgeNowMark, TypeOK, Request
    <3>4. q # r => req'[q] = req[q]
      BY <1>5 DEF Organizer, ExtendRead, ExtendWrite, update, AcknowledgeRead,
         AcknowledgeWrite, PurgeNowRead, PurgeNowQueue, PurgeNowMark, TypeOK
    <3> QED BY <3>1, <3>2, <3>3, <3>4
  <2> QED BY <2>1, <2>2
<1>6. CASE UNCHANGED <<now, req, purger>>
  BY <1>6
<1> QED
  BY <1>1, <1>2, <1>3, <1>4, <1>5, <1>6 DEF Next, ExpirySweepStep, ExpirySweep, ExpiryMark,
     ExpiryQueue, CrashExpirySweep, PurgeSweepStep, CleanupPrefix, CleanupFails,
     SendEventExpiry, retryFailed, clear, vars

\* A step that writes neither the row nor what the sweeps and histories hold of an
\* event keeps it in step.
LEMMA InStepStays ==
    ASSUME NEW e \in Events, InStep(e), ev'[e] = ev[e], UNCHANGED <<notifier, purger, told>>
    PROVE  InStep(e)'
BY DEF InStep, Expired, told

\* The sweeps keep every event in step that was.
LEMMA SweepsInStep ==
    ASSUME TypeOK, AskedAhead, NEW e \in Events, InStep(e), moved'[e] = moved[e],
           ExpirySweepStep \/ CrashExpirySweep \/ PurgeSweepStep \/ CrashPurgeSweep
    PROVE  InStep(e)'
<1> USE DEF InStep
<1>1. CASE ExpirySweep
  <2> PICK T \in findNewlyExpired :
        notifier' = [notifier EXCEPT !.snap = {<<f, ev[f].expiresAt>> : f \in T}, !.at = now]
      BY <1>1 DEF ExpirySweep
  <2>1. T \subseteq NewlyExpired
    BY OldestAreMatching DEF findNewlyExpired
  <2>2. notifier'.snap = {<<f, ev[f].expiresAt>> : f \in T} /\ notifier'.next = notifier.next
    BY DEF TypeOK, Notifier
  <2>3. \A item \in notifier'.snap : item[1] = e =>
          item[2] = ev[e].expiresAt /\ ev[e].notifiedAt = NoDate
    BY <2>1, <2>2 DEF NewlyExpired
  <2>4. UNCHANGED <<ev, purger, notice>>
    BY <1>1 DEF ExpirySweep, told
  <2> QED BY <2>2, <2>3, <2>4 DEF Expired
<1>2. CASE ExpiryMark
  <2> PICK item \in notifier.snap :
        /\ ev' = [ev EXCEPT ![item[1]].notifiedAt = notifier.at,
                            ![item[1]].purgeAfter = purgeDeadline(item[2])]
        /\ notifier' = [notifier EXCEPT !.snap = @ \ {item}, !.next = item[1]]
      BY <1>2 DEF ExpiryMark
  <2>1. UNCHANGED <<purger, notice>> /\ notifier.next = Nobody
    BY <1>2 DEF ExpiryMark, told
  <2>2. notifier'.snap = notifier.snap \ {item} /\ notifier'.next = item[1]
    BY DEF TypeOK, Notifier
  <2>3. item[1] \in Events /\ item[2] \in Nat /\ notifier.at \in Nat /\ notifier.at # NoDate
    BY DEF TypeOK, Notifier, Dates, NoDate
  <2>4. CASE item[1] = e
    <3>1. item[2] = ev[e].expiresAt /\ ev[e].notifiedAt = NoDate /\ ev[e].purgeAfter = NoDate
          /\ notice[e] = "none"
      BY <2>4
    <3> DEFINE m == [ev[e] EXCEPT !.notifiedAt = notifier.at,
                                  !.purgeAfter = ev[e].expiresAt + Grace]
    <3>2. ev'[e] = m
      BY <2>3, <2>4, <3>1 DEF TypeOK, purgeDeadline
    <3>2a. ev[e] \in Row
      BY DEF TypeOK
    <3>2b. /\ m.notifiedAt = notifier.at /\ m.purgeAfter = ev[e].expiresAt + Grace
          /\ m.expiresAt = ev[e].expiresAt /\ m.purged = ev[e].purged
      BY <3>2a DEF Row
    <3> HIDE DEF m
    <3>3. /\ ev'[e].notifiedAt # NoDate /\ ev'[e].purgeAfter = ev'[e].expiresAt + Grace
          /\ ev'[e].expiresAt = ev[e].expiresAt /\ ev'[e].purged = ev[e].purged
      BY <2>3, <3>2, <3>2b
    <3>4. e \in purger.snap /\ Expired(ev[e], purger.at) => ev[e].purged
      BY <3>1
    <3>5. \A i \in notifier'.snap : i[1] # e
      <4> SUFFICES ASSUME NEW i \in notifier.snap, i # item, i[1] = e PROVE FALSE
          BY <2>2
      <4>1. i \in Events \X Dates /\ item \in Events \X Dates
        BY DEF TypeOK, Notifier
      <4>2. i[2] = ev[e].expiresAt /\ item[2] = ev[e].expiresAt
        BY <2>4
      <4> QED BY <2>4, <4>1, <4>2
    <3>6. notice'[e] = notice[e] /\ notifier'.next = e
      BY <2>1, <2>2, <2>4
    <3>7. e \in purger'.snap /\ Expired(ev'[e], purger'.at) => ev'[e].purged
      BY <2>1, <3>3, <3>4 DEF Expired
    <3> QED BY <3>1, <3>3, <3>5, <3>6, <3>7
  <2>5. CASE item[1] # e
    <3>1. ev'[e] = ev[e]
      BY <2>3, <2>5 DEF TypeOK
    <3>2. Nobody # e
      BY ExpiryAssumption
    <3>3. \A i \in notifier'.snap : i \in notifier.snap
      BY <2>2
    <3>4. UNCHANGED <<purger, notice>> /\ notifier.next # e /\ notifier'.next # e
      BY <2>1, <2>2, <2>5, <3>2
    <3> QED BY <3>1, <3>3, <3>4 DEF Expired
  <2> QED BY <2>4, <2>5
<1>3. CASE ExpiryQueue
  <2>1. /\ notifier.next \in Events /\ UNCHANGED <<ev, purger>>
        /\ notice' = [notice EXCEPT ![notifier.next] = "queued"]
        /\ notifier'.snap = notifier.snap /\ notifier'.next = Nobody
    BY <1>3 DEF ExpiryQueue, TypeOK, Notifier
  <2>2. ~(notifier'.next = e)
    BY <2>1, ExpiryAssumption DEF ExpiryAssumption
  <2>3. CASE notifier.next = e
    <3>1. notice'[e] = "queued"
      BY <2>1, <2>3 DEF TypeOK
    <3>2. ev[e].notifiedAt # NoDate
      BY <2>3
    <3> QED BY <2>1, <2>2, <3>1, <3>2 DEF Expired
  <2>4. CASE notifier.next # e
    <3>1. notice'[e] = notice[e]
      BY <2>1, <2>4 DEF TypeOK
    <3> QED BY <2>1, <2>2, <2>4, <3>1 DEF Expired
  <2> QED BY <2>3, <2>4
<1>4. CASE CrashExpirySweep
  <2>1. /\ UNCHANGED <<ev, purger>> /\ notifier'.snap = {} /\ notifier'.next = Nobody
        /\ notice' = IF notifier.next = Nobody THEN notice
                     ELSE [notice EXCEPT ![notifier.next] = "lost"]
    BY <1>4 DEF CrashExpirySweep, TypeOK, Notifier
  <2>2. ~(notifier'.next = e)
    BY <2>1, ExpiryAssumption DEF ExpiryAssumption
  <2>3. CASE notifier.next = e
    <3>1. notice'[e] = "lost" /\ ev[e].notifiedAt # NoDate
      BY <2>1, <2>2, <2>3 DEF TypeOK
    <3> QED BY <2>1, <2>2, <3>1 DEF Expired
  <2>4. CASE notifier.next # e
    <3>1. notice'[e] = notice[e]
      BY <2>1, <2>4 DEF TypeOK
    <3> QED BY <2>1, <2>2, <2>4, <3>1 DEF Expired
  <2> QED BY <2>3, <2>4
<1>5. CASE PurgeSweep
  <2> PICK T \in findDueForPurge : purger' = [purger EXCEPT !.snap = T, !.at = now]
      BY <1>5 DEF PurgeSweep
  <2>1. T \subseteq DueForPurge /\ purger'.snap = T /\ purger'.at = now
    BY OldestAreMatching DEF findDueForPurge, TypeOK, Purger
  <2>2. UNCHANGED <<ev, notifier, notice>>
    BY <1>5 DEF PurgeSweep, told
  <2>3. e \in T => ev[e].purgeAfter # NoDate /\ ev[e].purgeAfter <= now
    BY <2>1 DEF DueForPurge
  <2>4. ev' = ev /\ notifier' = notifier /\ notice' = notice
    BY <2>2
  <2>5. e \in purger'.snap => ev'[e].purgeAfter # NoDate /\ ev'[e].purgeAfter <= purger'.at
    BY <2>1, <2>3, <2>4
  <2> QED BY <2>4, <2>5
<1>6. CASE PurgeRecheck \/ PurgeQueue \/ CrashPurgeSweep
  <2>1. purger'.at = purger.at /\ purger'.snap \subseteq purger.snap
    <3>1. purger \in Purger
      BY DEF TypeOK
    <3>2. CASE PurgeRecheck
      BY <3>1, <3>2 DEF PurgeRecheck, Purger
    <3>3. CASE PurgeQueue
      BY <3>1, <3>3 DEF PurgeQueue, Purger
    <3>4. CASE CrashPurgeSweep
      BY <3>1, <3>4 DEF CrashPurgeSweep, Purger
    <3> QED BY <1>6, <3>2, <3>3, <3>4
  <2>2. UNCHANGED <<ev, notifier, notice>>
    BY <1>6 DEF PurgeRecheck, PurgeQueue, CrashPurgeSweep, told
  <2> QED BY <2>1, <2>2 DEF Expired
<1>7. CASE PurgeMark
  <2>1. /\ purger'.at = purger.at /\ purger'.snap = purger.snap
        /\ UNCHANGED <<notifier, notice>>
    BY <1>7 DEF PurgeMark, TypeOK, Purger, told
  <2>2. ev'[e] = ev[e] \/ ev'[e] = Purged(ev[e])
    BY <1>7 DEF PurgeMark, TypeOK
  <2>3. CASE ev'[e] = ev[e]
    BY <2>1, <2>3 DEF Expired
  <2>4. CASE ev'[e] = Purged(ev[e])
    <3>1. /\ ev'[e].purged /\ ev'[e].purgeAfter = NoDate
          /\ ev'[e].notifiedAt = ev[e].notifiedAt /\ ev'[e].expiresAt = ev[e].expiresAt
      BY <2>4 DEF Purged, TypeOK, Row
    <3> QED BY <2>1, <3>1 DEF Expired
  <2> QED BY <2>2, <2>3, <2>4
<1> QED BY <1>1, <1>2, <1>3, <1>4, <1>5, <1>6, <1>7 DEF ExpirySweepStep, PurgeSweepStep

\* So do the organizers' requests, or they note that the date was moved.
LEMMA RequestsInStep ==
    ASSUME TypeOK, AskedAhead, NEW e \in Events, moved[e] \/ InStep(e),
           NEW r \in Requests, Organizer(r)
    PROVE  moved'[e] \/ InStep(e)'
<1>0. UNCHANGED <<notifier, purger>>
  BY DEF Organizer, ExtendRead, ExtendWrite, update, AcknowledgeRead,
     AcknowledgeWrite, PurgeNowRead, PurgeNowQueue, PurgeNowMark
<1>1. CASE ev'[e] = ev[e] /\ UNCHANGED told
  BY <1>0, <1>1, InStepStays DEF told
<1>2. CASE ExtendWrite(r)
  <2> DEFINE x == req[r].event
             d == req[r].date
  <2>1. /\ ev' = [ev EXCEPT ![x] = Extended(ev[x], d)]
        /\ notice' = [notice EXCEPT ![x] = "none"]
        /\ moved' = [moved EXCEPT ![x] = Notifying(x)]
        /\ d \in Nat /\ (d = NoDate \/ d > now)
    BY <1>2, Zenon DEF ExtendWrite, AskedAhead, TypeOK, Request
  <2> HIDE DEF x, d
  <2>2. CASE x # e
    <3>1. ev'[e] = ev[e] /\ notice'[e] = notice[e] /\ moved'[e] = moved[e]
      BY <2>1, <2>2 DEF TypeOK
    <3> QED BY <1>0, <3>1 DEF InStep, Expired
  <2>3. CASE x = e /\ ~Notifying(e)
    <3>1. ev'[e] = Extended(ev[e], d) /\ notice'[e] = "none"
      BY <2>1, <2>3 DEF TypeOK
    <3>2. /\ ev'[e].notifiedAt = NoDate /\ ev'[e].purgeAfter = NoDate
          /\ ev'[e].expiresAt = d
      <4>1. ev[e] \in Row
        BY DEF TypeOK
      <4> QED BY <2>1, <3>1, <4>1 DEF Extended, Row
    <3>3. ~Expired(ev'[e], purger.at)
      BY <2>1, <3>2 DEF Expired, AskedAhead, TypeOK, Purger, Dates, NoDate
    <3> QED BY <1>0, <2>3, <3>1, <3>2, <3>3 DEF InStep, Notifying
  <2>4. CASE x = e /\ Notifying(e)
    <3>1. moved'[e] = Notifying(e)
      BY <2>1, <2>4, Zenon DEF TypeOK
    <3> QED BY <2>4, <3>1
  <2> QED BY <2>2, <2>3, <2>4
<1>3. CASE update(r)
  <2>1. PICK x \in Events, d \in Nat :
          /\ ev' = [ev EXCEPT ![x] = Rescheduled(ev[x], d)]
          /\ Darken(ev', now)
          /\ moved' = [moved EXCEPT ![x] = moved[x] \/ ev[x].notifiedAt # NoDate
                                           \/ Notifying(x) \/ x \in purger.snap]
    BY <1>3, UpdateWrites, ExpiryAssumption DEF TypeOK
  <2>2. notice' = notice
    BY <1>3 DEF update
  <2>3. CASE x # e
    <3>1. ev'[e] = ev[e] /\ moved'[e] = moved[e]
      BY <2>1, <2>3 DEF TypeOK
    <3> QED BY <1>0, <2>2, <3>1 DEF InStep, Expired
  <2>4. CASE x = e /\ (moved[e] \/ ev[e].notifiedAt # NoDate \/ Notifying(e) \/ e \in purger.snap)
    <3>1. moved'[e] = (moved[e] \/ ev[e].notifiedAt # NoDate \/ Notifying(e)
                       \/ e \in purger.snap)
      BY <2>1, <2>4, Zenon DEF TypeOK
    <3> QED BY <2>4, <3>1
  <2>5. CASE /\ x = e /\ InStep(e) /\ ev[e].notifiedAt = NoDate
             /\ ~Notifying(e) /\ e \notin purger.snap
    <3>1. ev'[e] = Rescheduled(ev[e], d)
      BY <2>1, <2>5 DEF TypeOK
    <3>2. ev'[e].notifiedAt = NoDate /\ ev'[e].purgeAfter = ev[e].purgeAfter
      BY <2>5, <3>1 DEF Rescheduled, TypeOK, Row
    <3> QED BY <1>0, <2>2, <2>5, <3>2 DEF InStep, Notifying
  <2> QED BY <2>3, <2>4, <2>5
<1>4. CASE AcknowledgeWrite(r)
  <2>1. /\ ev'[e].notifiedAt = ev[e].notifiedAt /\ ev'[e].expiresAt = ev[e].expiresAt
        /\ ev'[e].purgeAfter = ev[e].purgeAfter /\ ev'[e].purged = ev[e].purged
    BY <1>4 DEF AcknowledgeWrite, TypeOK, Row
  <2>2. UNCHANGED told
    BY <1>4 DEF AcknowledgeWrite
  <2> QED BY <1>0, <2>1, <2>2 DEF InStep, Expired, told
<1>5. CASE PurgeNowMark(r)
  <2>1. ev'[e] = ev[e] \/ ev'[e] = Purged(ev[e])
    BY <1>5 DEF PurgeNowMark, TypeOK
  <2>2. UNCHANGED told
    BY <1>5 DEF PurgeNowMark
  <2>3. CASE ev'[e] = Purged(ev[e])
    <3>1. /\ ev'[e].purged /\ ev'[e].purgeAfter = NoDate
          /\ ev'[e].notifiedAt = ev[e].notifiedAt /\ ev'[e].expiresAt = ev[e].expiresAt
      BY <2>3 DEF Purged, TypeOK, Row
    <3> QED BY <1>0, <2>2, <3>1 DEF InStep, Expired, told
  <2> QED BY <1>1, <2>1, <2>2, <2>3
<1>6. CASE ExtendRead(r) \/ AcknowledgeRead(r) \/ PurgeNowRead(r) \/ PurgeNowQueue(r)
  BY <1>1, <1>6 DEF ExtendRead, AcknowledgeRead, PurgeNowRead, PurgeNowQueue
<1> QED BY <1>2, <1>3, <1>4, <1>5, <1>6 DEF Organizer

\* Every step keeps the events in step whose date was not moved behind the marks.
LEMMA ForewarnedStep == TypeOK /\ ForewarnedInv /\ [Next]_vars => ForewarnedInv'
<1> SUFFICES ASSUME TypeOK, ForewarnedInv, [Next]_vars, NEW e \in Events
             PROVE  moved'[e] \/ InStep(e)'
    BY AheadStep DEF ForewarnedInv
<1>1. AskedAhead /\ (moved[e] \/ InStep(e))
  BY DEF ForewarnedInv
<1>2. ASSUME NEW r \in Requests, Organizer(r) PROVE moved'[e] \/ InStep(e)'
  BY <1>1, <1>2, RequestsInStep
<1>3. CASE ExpirySweepStep \/ CrashExpirySweep \/ PurgeSweepStep \/ CrashPurgeSweep
  <2>1. moved' = moved
    BY <1>3 DEF ExpirySweepStep, ExpirySweep, ExpiryMark, ExpiryQueue, CrashExpirySweep,
       PurgeSweepStep, PurgeSweep, PurgeRecheck, PurgeQueue, PurgeMark, CrashPurgeSweep, told
  <2>2. CASE moved[e]
    BY <2>1, <2>2
  <2>3. CASE InStep(e)
    <3>1. moved'[e] = moved[e]
      BY <2>1
    <3> QED BY <1>1, <1>3, <2>3, <3>1, SweepsInStep
  <2> QED BY <1>1, <2>2, <2>3
<1>4. CASE UNCHANGED <<ev, notifier, purger, told>>
  BY <1>1, <1>4, InStepStays DEF told
<1>5. CASE Tick \/ UNCHANGED vars
  BY <1>4, <1>5 DEF Tick, vars, told
<1>6. ASSUME NEW f \in Events, CleanupPrefix(f) \/ CleanupFails(f) \/ SendEventExpiry(f)
                               \/ retryFailed(f) \/ clear(f)
      PROVE  moved'[e] \/ InStep(e)'
  BY <1>4, <1>6 DEF CleanupPrefix, CleanupFails, SendEventExpiry, retryFailed, clear
<1> QED BY <1>2, <1>3, <1>5, <1>6, Zenon DEF Next

\* The purge sweep takes an event only after the grace period of its date and with its
\* notice queued, and one date's notice is queued once, unless its date was moved
\* behind the marks: for any interleaving of extends, updates, sweeps and crashes.
THEOREM OwnersAreForewarned == Spec => OwnersForewarned
<1>1. Init => ForewarnedInv
  BY ExpiryAssumption DEF Init, ForewarnedInv, AskedAhead, InStep, NewRow, NoDate
<1>2. ASSUME TypeOK, ForewarnedInv, [Next]_vars
      PROVE  [/\ \A e \in Events : PurgeRecheck /\ purger'.event = e =>
                   \/ moved[e]
                   \/ /\ ev[e].expiresAt + Grace <= purger.at
                      /\ notice[e] # "none" \/ notifier.next = e
              /\ ExpiryQueue => LET e == notifier.next IN moved[e] \/ notice[e] = "none"]_vars
  <2>1. ASSUME NEW e \in Events, PurgeRecheck, purger'.event = e, ~moved[e]
        PROVE  /\ ev[e].expiresAt + Grace <= purger.at
               /\ notice[e] # "none" \/ notifier.next = e
    <3>1. InStep(e)
      BY <1>2, <2>1 DEF ForewarnedInv
    <3>2. e \in purger.snap /\ ~ev[e].purged /\ Expired(ev[e], purger.at)
      <4>1. PICK f \in purger.snap :
              purger' = IF ev[f].purged \/ ~Expired(ev[f], purger.at)
                        THEN [purger EXCEPT !.snap = @ \ {f}]
                        ELSE [purger EXCEPT !.snap = @ \ {f}, !.event = f, !.step = "queue"]
        BY <2>1 DEF PurgeRecheck
      <4>2. purger.event = Nobody /\ Nobody \notin Events
        BY <2>1, ExpiryAssumption DEF PurgeRecheck
      <4>3. CASE ev[f].purged \/ ~Expired(ev[f], purger.at)
        <5>1. purger'.event = Nobody
          BY <1>2, <4>1, <4>2, <4>3 DEF TypeOK, Purger
        <5> QED BY <2>1, <4>2, <5>1
      <4>4. CASE ~(ev[f].purged \/ ~Expired(ev[f], purger.at))
        <5>1. purger'.event = f
          BY <1>2, <4>1, <4>4 DEF TypeOK, Purger
        <5> QED BY <2>1, <4>4, <5>1
      <4> QED BY <4>3, <4>4
    <3> QED BY <3>1, <3>2 DEF InStep
  <2>2. ASSUME ExpiryQueue PROVE moved[notifier.next] \/ notice[notifier.next] = "none"
    <3>1. notifier.next \in Events
      BY <1>2, <2>2 DEF ExpiryQueue, TypeOK, Notifier
    <3> QED BY <1>2, <3>1 DEF ForewarnedInv, InStep
  <2> QED BY <2>1, <2>2
<1> QED BY <1>1, <1>2, TypeCorrect, ForewarnedStep, PTL DEF Spec, OwnersForewarned

-----------------------------------------------------------------------------
(* Never within the first grace period *)

DarkBy(e, x) == darkFrom[e] # NoDate /\ darkFrom[e] <= x
GraceOver(e) == darkFrom[e] # NoDate /\ darkFrom[e] + Grace <= now

\* The strengthening: every date and deadline the rows and the two snapshots
\* hold is at or after the moment the event first went dark, the deadlines by
\* a grace period.
RowDark == \A e \in Events : Expired(ev[e], now) => DarkBy(e, ev[e].expiresAt)
DeadlineInv == \A e \in Events : ev[e].purgeAfter # NoDate =>
                  darkFrom[e] # NoDate /\ darkFrom[e] + Grace <= ev[e].purgeAfter
NotifierInv == \A item \in notifier.snap : DarkBy(item[1], item[2])
PurgerInv == /\ \A e \in purger.snap : GraceOver(e)
             /\ purger.event # Nobody => GraceOver(purger.event)
GraceInv == RowDark /\ DeadlineInv /\ NotifierInv /\ PurgerInv

\* Time only advances, and the first dark moment only moves to an earlier one.
LEMMA DarkIsSteady ==
    ASSUME TypeOK, [Next]_vars, NEW e \in Events, darkFrom[e] # NoDate
    PROVE  /\ darkFrom'[e] # NoDate /\ darkFrom'[e] <= darkFrom[e]
           /\ now <= now'
<1> USE DEF TypeOK, NoDate, Dates
<1>1. CASE Tick
  BY <1>1 DEF Tick, Darken, Earliest, Expired, Row
<1>2. ASSUME NEW r \in Requests, ExtendWrite(r)
      PROVE  /\ darkFrom'[e] # NoDate /\ darkFrom'[e] <= darkFrom[e]
             /\ now <= now'
  <2>1. ev' \in [Events -> Row] /\ Darken(ev', now) /\ now' = now
    BY <1>2, TypeStep DEF ExtendWrite
  <2> QED BY <2>1 DEF Darken, Earliest, Expired, Row
<1>3. CASE UNCHANGED <<now, darkFrom>>
  BY <1>3
<1>4. ASSUME NEW r \in Requests, update(r)
      PROVE  /\ darkFrom'[e] # NoDate /\ darkFrom'[e] <= darkFrom[e]
             /\ now <= now'
  <2>1. ev' \in [Events -> Row] /\ now' = now
    BY <1>4, TypeStep DEF update
  <2>2. Darken(ev', now)
    BY <1>4, UpdateWrites, ExpiryAssumption
  <2> QED BY <2>1, <2>2 DEF Darken, Earliest, Expired, Row
<1> QED
  BY <1>1, <1>2, <1>3, <1>4 DEF Next, ExpirySweepStep, ExpirySweep, ExpiryMark, ExpiryQueue,
     CrashExpirySweep, PurgeSweepStep, PurgeSweep, PurgeRecheck, PurgeQueue, PurgeMark,
     CrashPurgeSweep, Organizer, ExtendRead, AcknowledgeRead, AcknowledgeWrite,
     PurgeNowRead, PurgeNowQueue, PurgeNowMark, CleanupPrefix, CleanupFails, retryFailed, clear, SendEventExpiry, vars

\* Every step keeps each deadline, stored or in a snapshot, a grace period after
\* the first date the event's links went dark at.
LEMMA GraceStep == TypeOK /\ GraceInv /\ [Next]_vars => GraceInv'
<1> SUFFICES ASSUME TypeOK, GraceInv, [Next]_vars PROVE GraceInv'
    OBVIOUS
<1> USE DEF GraceInv
<1>t. TypeOK'
  BY TypeStep
<1>1. RowDark'
  <2> SUFFICES ASSUME NEW e \in Events, Expired(ev'[e], now')
               PROVE  DarkBy(e, ev[e].expiresAt)'
      BY DEF RowDark
  <2>1. CASE Darken(ev', now')
    BY <1>t, <2>1 DEF Darken, DarkBy, Earliest, Expired, TypeOK, Row, NoDate, Dates
  <2>2. CASE ev'[e].expiresAt = ev[e].expiresAt /\ UNCHANGED <<now, darkFrom>>
    BY <2>2 DEF RowDark, DarkBy, Expired
  <2>3. ASSUME Tick \/ \E r \in Requests : ExtendWrite(r) \/ update(r) PROVE Darken(ev', now')
    <3>1. CASE Tick
      <4>1. Darken(ev, now + 1) /\ ev' = ev /\ now' = now + 1
        BY <3>1 DEF Tick
      <4> QED BY <4>1 DEF Darken
    <3>2. ASSUME NEW r \in Requests, ExtendWrite(r) PROVE Darken(ev', now')
      BY <3>2 DEF ExtendWrite, Darken
    <3>3. ASSUME NEW r \in Requests, update(r) PROVE Darken(ev', now')
      <4>1. Darken(ev', now) /\ now' = now
        BY <3>3, UpdateWrites, ExpiryAssumption DEF TypeOK, update
      <4> QED BY <4>1 DEF Darken
    <3> QED BY <2>3, <3>1, <3>2, <3>3
  <2>4. ASSUME ExpiryMark \/ PurgeMark
               \/ \E r \in Requests : AcknowledgeWrite(r) \/ PurgeNowMark(r)
        PROVE  ev'[e].expiresAt = ev[e].expiresAt /\ UNCHANGED <<now, darkFrom>>
    <3>1. CASE ExpiryMark
      BY <3>1 DEF ExpiryMark, TypeOK, Row
    <3>2. CASE PurgeMark
      BY <3>2 DEF PurgeMark, Purged, TypeOK, Row
    <3>3. ASSUME NEW r \in Requests, AcknowledgeWrite(r)
          PROVE  ev'[e].expiresAt = ev[e].expiresAt /\ UNCHANGED <<now, darkFrom>>
      BY <3>3 DEF AcknowledgeWrite, TypeOK, Row
    <3>4. ASSUME NEW r \in Requests, PurgeNowMark(r)
          PROVE  ev'[e].expiresAt = ev[e].expiresAt /\ UNCHANGED <<now, darkFrom>>
      BY <3>4 DEF PurgeNowMark, Purged, TypeOK, Row
    <3> QED BY <2>4, <3>1, <3>2, <3>3, <3>4
  <2>5. CASE UNCHANGED <<ev, now, darkFrom>>
    BY <2>2, <2>5
  <2> QED
    BY <2>1, <2>2, <2>3, <2>4, <2>5 DEF Next, ExpirySweepStep, ExpirySweep, ExpiryQueue,
       CrashExpirySweep, PurgeSweepStep, PurgeSweep, PurgeRecheck, PurgeQueue,
       CrashPurgeSweep, Organizer, ExtendRead, AcknowledgeRead,
       PurgeNowRead, PurgeNowQueue, CleanupPrefix, CleanupFails, retryFailed, clear, SendEventExpiry, vars
<1>2. DeadlineInv'
  <2> SUFFICES ASSUME NEW e \in Events, ev'[e].purgeAfter # NoDate
               PROVE  darkFrom'[e] # NoDate /\ darkFrom'[e] + Grace <= ev'[e].purgeAfter
      BY DEF DeadlineInv
  <2>1. CASE ev'[e].purgeAfter = ev[e].purgeAfter
    <3>1. darkFrom[e] # NoDate /\ darkFrom[e] + Grace <= ev[e].purgeAfter
      BY <2>1 DEF DeadlineInv
    <3> QED BY <2>1, <3>1, <1>t, DarkIsSteady, ExpiryAssumption DEF TypeOK, Row
  <2>2. CASE ExpiryMark
    <3> PICK item \in notifier.snap :
          ev' = [ev EXCEPT ![item[1]].notifiedAt = notifier.at,
                           ![item[1]].purgeAfter = purgeDeadline(item[2])]
        BY <2>2 DEF ExpiryMark
    <3>1. CASE item[1] = e
      <4>1. DarkBy(e, item[2]) /\ item[2] \in Nat
        BY <3>1 DEF NotifierInv, TypeOK, Notifier, Dates
      <4>2. ev'[e].purgeAfter = item[2] + Grace
        BY <3>1 DEF TypeOK, Row, purgeDeadline
      <4>3. darkFrom' = darkFrom
        BY <2>2 DEF ExpiryMark
      <4> QED BY <4>1, <4>2, <4>3, ExpiryAssumption DEF DarkBy, TypeOK
    <3>2. CASE item[1] # e
      BY <2>1, <3>2 DEF TypeOK
    <3> QED BY <3>1, <3>2
  <2>3. ASSUME PurgeMark PROVE ev'[e].purgeAfter = ev[e].purgeAfter
    BY <2>3 DEF PurgeMark, Purged, TypeOK, Row
  <2>4. ASSUME NEW r \in Requests, PurgeNowMark(r) PROVE ev'[e].purgeAfter = ev[e].purgeAfter
    BY <2>4 DEF PurgeNowMark, Purged, TypeOK, Row
  <2>5. ASSUME NEW r \in Requests, AcknowledgeWrite(r) PROVE ev'[e].purgeAfter = ev[e].purgeAfter
    BY <2>5 DEF AcknowledgeWrite, TypeOK, Row
  <2>6. ASSUME NEW r \in Requests, ExtendWrite(r) PROVE ev'[e].purgeAfter = ev[e].purgeAfter
    <3> DEFINE x == req[r].event
               d == req[r].date
    <3>1. ev' = [ev EXCEPT ![x] = Extended(ev[x], d)]
      BY <2>6 DEF ExtendWrite
    <3> HIDE DEF x, d
    <3> QED BY <3>1 DEF TypeOK, Extended, Row
  <2>7. ASSUME NEW r \in Requests, update(r) PROVE ev'[e].purgeAfter = ev[e].purgeAfter
    BY <2>7, UpdateWrites, ExpiryAssumption DEF Rescheduled, TypeOK, Row
  <2> QED BY <2>1, <2>2, <2>3, <2>4, <2>5, <2>6, <2>7, RowWriters
<1>3. NotifierInv'
  <2> SUFFICES ASSUME NEW item \in notifier'.snap PROVE DarkBy(item[1], item[2])'
      BY DEF NotifierInv
  <2>1. item \in Events \X Dates
    BY <1>t DEF TypeOK, Notifier
  <2>2. CASE item \in notifier.snap
    <3>1. DarkBy(item[1], item[2])
      BY <2>2 DEF NotifierInv
    <3> QED BY <2>1, <3>1, <1>t, DarkIsSteady DEF DarkBy, TypeOK, Dates
  <2>3. CASE ExpirySweep
    <3> PICK T \in findNewlyExpired :
          notifier' = [notifier EXCEPT !.snap = {<<e, ev[e].expiresAt>> : e \in T},
                                       !.at = now]
        BY <2>3 DEF ExpirySweep
    <3>1. T \subseteq NewlyExpired
      BY OldestAreMatching DEF findNewlyExpired
    <3>2. notifier'.snap = {<<e, ev[e].expiresAt>> : e \in T}
      BY DEF TypeOK, Notifier
    <3>3. PICK e \in NewlyExpired : item = <<e, ev[e].expiresAt>>
      BY <3>1, <3>2
    <3>4. DarkBy(e, ev[e].expiresAt)
      BY DEF RowDark, NewlyExpired
    <3>5. darkFrom' = darkFrom
      BY <2>3 DEF ExpirySweep
    <3> QED BY <3>3, <3>4, <3>5 DEF DarkBy
  <2>4. ASSUME ExpiryMark PROVE item \in notifier.snap
    BY <2>4 DEF ExpiryMark, TypeOK, Notifier
  <2>5. ASSUME ExpiryQueue \/ CrashExpirySweep PROVE item \in notifier.snap
    BY <2>5 DEF ExpiryQueue, CrashExpirySweep, TypeOK, Notifier
  <2> QED
    BY <2>2, <2>3, <2>4, <2>5 DEF Next, Tick, ExpirySweepStep, PurgeSweepStep, PurgeSweep,
       PurgeRecheck, PurgeQueue, PurgeMark, CrashPurgeSweep, Organizer, ExtendRead,
       ExtendWrite, update, AcknowledgeRead, AcknowledgeWrite, PurgeNowRead, PurgeNowQueue,
       PurgeNowMark, CleanupPrefix, CleanupFails, retryFailed, clear, SendEventExpiry, vars
<1>4. PurgerInv'
  <2>1. ASSUME NEW e \in Events, GraceOver(e) PROVE GraceOver(e)'
    BY <2>1, <1>t, DarkIsSteady, ExpiryAssumption DEF GraceOver, TypeOK, Dates
  <2>2. ASSUME NEW e \in DueForPurge PROVE GraceOver(e)
    BY ExpiryAssumption DEF DeadlineInv, DueForPurge, GraceOver, TypeOK, Row, Dates
  <2>3. /\ purger'.snap \subseteq purger.snap \cup DueForPurge
        /\ purger'.event # Nobody =>
             purger'.event = purger.event \/ purger'.event \in purger.snap
    <3>1. CASE UNCHANGED purger BY <3>1
    <3>2. CASE PurgeSweep
      <4> PICK T \in findDueForPurge : purger' = [purger EXCEPT !.snap = T, !.at = now]
          BY <3>2 DEF PurgeSweep
      <4>1. T \subseteq DueForPurge
        BY OldestAreMatching DEF findDueForPurge
      <4> QED BY <4>1 DEF TypeOK, Purger
    <3>3. CASE PurgeRecheck
      <4> PICK e \in purger.snap :
            \/ purger' = [purger EXCEPT !.snap = @ \ {e}]
            \/ purger' = [purger EXCEPT !.snap = @ \ {e}, !.event = e, !.step = "queue"]
          BY <3>3 DEF PurgeRecheck
      <4>1. CASE purger' = [purger EXCEPT !.snap = @ \ {e}]
        BY <4>1 DEF TypeOK, Purger
      <4>2. CASE purger' = [purger EXCEPT !.snap = @ \ {e}, !.event = e, !.step = "queue"]
        BY <4>2 DEF TypeOK, Purger
      <4> QED BY <4>1, <4>2
    <3>4. CASE PurgeQueue \/ PurgeMark \/ CrashPurgeSweep
      BY <3>4 DEF PurgeQueue, PurgeMark, CrashPurgeSweep, TypeOK, Purger
    <3> QED
      BY <3>1, <3>2, <3>3, <3>4 DEF Next, Tick, ExpirySweepStep, ExpirySweep, ExpiryMark,
         ExpiryQueue, CrashExpirySweep, PurgeSweepStep, Organizer, ExtendRead, ExtendWrite, update,
         AcknowledgeRead, AcknowledgeWrite, PurgeNowRead, PurgeNowQueue, PurgeNowMark,
         CleanupPrefix, CleanupFails, retryFailed, clear, SendEventExpiry, vars
  <2>4. purger.snap \subseteq Events /\ DueForPurge \subseteq Events
    BY DEF TypeOK, Purger, DueForPurge
  <2>5. purger.event # Nobody => purger.event \in Events
    BY DEF TypeOK, Purger
  <2>6. ASSUME NEW e \in purger'.snap PROVE GraceOver(e)'
    BY <2>1, <2>2, <2>3, <2>4 DEF PurgerInv
  <2>7. ASSUME purger'.event # Nobody PROVE GraceOver(purger.event)'
    <3>1. purger'.event \in Events /\ GraceOver(purger'.event)
      BY <2>3, <2>4, <2>5, <2>7 DEF PurgerInv
    <3>2. PICK e \in Events : e = purger'.event
      BY <3>1
    <3>3. GraceOver(e)'
      BY <2>1, <3>1, <3>2
    <3> QED BY <3>2, <3>3 DEF GraceOver
  <2> QED BY <2>6, <2>7 DEF PurgerInv
<1> QED BY <1>1, <1>2, <1>3, <1>4

\* The purge sweep never queues the delete of an event within a grace period of
\* the first moment its links went dark: stale snapshots, extensions under a
\* running sweep and crashes included, for every grace period.
THEOREM NeverWithinFirstGraceHolds == Spec => NeverWithinFirstGrace
<1>1. Init => GraceInv
  BY DEF Init, GraceInv, RowDark, DeadlineInv, NotifierInv, PurgerInv, Expired, NewRow,
         NoDate
<1>2. ASSUME TypeOK, GraceInv, [Next]_vars
      PROVE  [PurgeQueue => LET e == purger.event
                            IN darkFrom[e] # NoDate /\ now >= darkFrom[e] + Grace]_vars
  BY <1>2, ExpiryAssumption DEF PurgeQueue, GraceInv, PurgerInv, GraceOver, TypeOK,
     Purger, Dates
<1> QED BY <1>1, <1>2, TypeCorrect, GraceStep, PTL DEF Spec, NeverWithinFirstGrace

-----------------------------------------------------------------------------

\* What the mapping shows of a step that leaves its parts alone.
LEMMA LifeSame ==
    ASSUME UNCHANGED <<media, cleanup>> PROVE Life' = Life
BY DEF Life

\* What was asked for is what the requests in progress hold.
LEMMA AskedSame ==
    ASSUME \A r \in Requests : req'[r].op = "purge" <=> req[r].op = "purge",
           \A r \in Requests : req[r].op = "purge" => req'[r].event = req[r].event
    PROVE  AskedPurge' = AskedPurge
BY DEF AskedPurge

\* Queueing the delete of e dooms it, and no other event.
LEMMA QueueDooms ==
    ASSUME TypeOK, NEW e \in Events,
           cleanup' = [cleanup EXCEPT ![e] = @ \cup {"queued"}], media' = media
    PROVE  Life' = [Life EXCEPT ![e] = IF @ = "kept" THEN "doomed" ELSE @]
BY DEF Life, TypeOK

\* Dates only get a first closing, or an earlier one, and never a future one.
LEMMA DarkenPasses ==
    ASSUME TypeOK, NEW evs \in [Events -> Row], NEW t \in Nat, Darken(evs, t)
    PROVE  /\ darkFrom' \in [Events -> Nat]
           /\ \A e \in Events :
                \/ darkFrom'[e] = darkFrom[e]
                \/ /\ darkFrom'[e] \in 1..t
                   /\ darkFrom[e] # 0 => darkFrom'[e] < darkFrom[e]
BY DEF Darken, Earliest, Expired, NoDate, TypeOK, Row

\* Every step of the sweeps, requests and jobs is a step of MediaRetention, or
\* one it does not see.
LEMMA RetentionStep ==
    ASSUME TypeOK, GraceInv, PurgeInv, [Next]_vars
    PROVE  [Retention!RetentionNext]_(Retention!retentionVars)
<1> DEFINE recorded == {e \in Events : ev[e].purged}
<1> USE DEF Retention!retentionVars
<1>1. CASE UNCHANGED <<now, darkFrom, req, media, cleanup>> /\ recorded' = recorded
  BY <1>1, LifeSame, AskedSame
<1>2. CASE Tick
  <2>1. UNCHANGED <<ev, media, cleanup, req>> /\ now' = now + 1 /\ Darken(ev, now + 1)
    BY <1>2 DEF Tick
  <2>2. Life' = Life /\ AskedPurge' = AskedPurge /\ recorded' = recorded
    BY <2>1, LifeSame, AskedSame
  <2>3. now \in Nat /\ ev \in [Events -> Row]
    BY DEF TypeOK, Dates
  <2>4. Retention!Pass
    BY <2>1, <2>2, <2>3, DarkenPasses DEF Retention!Pass
  <2> QED BY <2>4 DEF Retention!RetentionNext
<1>3. CASE PurgeQueue
  <2> DEFINE e == purger.event
  <2>1. /\ e \in Events /\ cleanup' = [cleanup EXCEPT ![e] = @ \cup {"queued"}]
        /\ UNCHANGED <<now, darkFrom, req, media, ev>>
    BY <1>3 DEF PurgeQueue, TypeOK, Purger
  <2>2. AskedPurge' = AskedPurge /\ recorded' = recorded
    BY <2>1, AskedSame
  <2>3. GraceOver(e)
    BY <1>3 DEF PurgeQueue, GraceInv, PurgerInv
  <2>4. Retention!Expire(e)
    BY <2>1, <2>2, <2>3, QueueDooms DEF Retention!Expire, Retention!Doomed, GraceOver, NoDate
  <2> QED BY <2>1, <2>4 DEF Retention!RetentionNext
<1>4. CASE PurgeMark
  <2>1. PICK e \in Events : e = purger.event /\ Deleted(e)
    BY <1>4 DEF PurgeMark, PurgeInv, PurgeInHand, TypeOK, Purger
  <2>2. ev' = [ev EXCEPT ![e] = Purged(@)] /\ UNCHANGED <<now, darkFrom, req, media, cleanup>>
    BY <1>4, <2>1 DEF PurgeMark
  <2>3. recorded' = recorded \cup {e}
    BY <2>1, <2>2 DEF Purged, TypeOK, Row
  <2>4. Life[e] # "kept"
    BY <2>1 DEF Life, Deleted
  <2>5. Retention!Record(e)
    BY <2>2, <2>3, <2>4, LifeSame, AskedSame DEF Retention!Record
  <2>6. Retention!RetentionNext
    BY <2>1, <2>5, Zenon DEF Retention!RetentionNext
  <2> QED BY <2>6
<1>5. ASSUME NEW e \in Events, CleanupPrefix(e)
      PROVE  [Retention!RetentionNext]_(Retention!retentionVars)
  <2>1. /\ cleanup[e] # {} /\ media' = [media EXCEPT ![e] = "gone"]
        /\ cleanup' = [cleanup EXCEPT ![e] = @ \ {"queued"}]
        /\ UNCHANGED <<now, darkFrom, req, ev>>
    BY <1>5 DEF CleanupPrefix
  <2>2. AskedPurge' = AskedPurge /\ recorded' = recorded
    BY <2>1, AskedSame
  <2>3. Life' = [Life EXCEPT ![e] = "gone"] /\ Life[e] \in {"doomed", "gone"}
    BY <2>1 DEF Life, TypeOK
  <2>4. CASE Life[e] = "doomed"
    <3>1. Retention!Erase(e)
      BY <2>1, <2>2, <2>3, <2>4 DEF Retention!Erase
    <3> QED BY <3>1 DEF Retention!RetentionNext
  <2>5. CASE Life[e] = "gone"
    <3>1. Life' = Life
      BY <2>3, <2>5 DEF Life
    <3> QED BY <2>1, <2>2, <3>1
  <2> QED BY <2>3, <2>4, <2>5
<1>10. ASSUME NEW e \in Events, CleanupFails(e) \/ retryFailed(e) \/ clear(e)
       PROVE  [Retention!RetentionNext]_(Retention!retentionVars)
  <2>1. /\ UNCHANGED <<now, darkFrom, req, ev, media>>
        /\ \A f \in Events : cleanup[f] # {} <=> cleanup'[f] # {}
    BY <1>10 DEF CleanupFails, retryFailed, clear, TypeOK
  <2>2. Life' = Life /\ AskedPurge' = AskedPurge /\ recorded' = recorded
    BY <2>1, AskedSame DEF Life
  <2> QED BY <2>1, <2>2
<1>6. ASSUME NEW r \in Requests, Organizer(r)
      PROVE  [Retention!RetentionNext]_(Retention!retentionVars)
  <2>1. CASE ExtendRead(r)
    <3>1. UNCHANGED <<now, ev, media, cleanup, darkFrom>> /\ req[r].op = "new"
      BY <2>1 DEF ExtendRead
    <3>2. PICK e \in Events, d \in {NoDate} \cup 1..LastDate :
            req' = [req EXCEPT ![r] = [op |-> "extend", event |-> e, date |-> d]]
      BY <2>1 DEF ExtendRead
    <3>3. AskedPurge' = AskedPurge
      BY <3>1, <3>2 DEF AskedPurge, TypeOK
    <3> QED BY <3>1, <3>3, LifeSame
  <2>2. CASE ExtendWrite(r)
    <3> DEFINE evs == [ev EXCEPT ![req[r].event] = Extended(@, req[r].date)]
    <3>1. /\ UNCHANGED <<now, media, cleanup>> /\ ev' = evs /\ Darken(evs, now)
          /\ req[r].op = "extend" /\ req' = [req EXCEPT ![r].op = "done"]
      BY <2>2 DEF ExtendWrite
    <3>2. AskedPurge' = AskedPurge
      BY <3>1 DEF AskedPurge, TypeOK, Request
    <3>3. recorded' = recorded
      BY <3>1 DEF Extended, TypeOK, Row
    <3>4. evs \in [Events -> Row] /\ now \in Nat
      BY RowsStayRows DEF TypeOK, Request, Dates
    <3>5. /\ darkFrom' \in [Events -> Nat]
          /\ \A e \in Events :
               \/ darkFrom'[e] = darkFrom[e]
               \/ /\ darkFrom'[e] \in 1..now
                  /\ darkFrom[e] # 0 => darkFrom'[e] < darkFrom[e]
      <4> HIDE DEF evs
      <4> QED BY <3>1, <3>4, DarkenPasses
    <3>6. Life' = Life
      BY <3>1, LifeSame
    <3>7. now' = now /\ now \in Nat
      BY <3>1, <3>4
    <3>8. Retention!Pass
      BY <3>2, <3>3, <3>5, <3>6, <3>7 DEF Retention!Pass
    <3> QED BY <3>8 DEF Retention!RetentionNext
  <2>3. CASE AcknowledgeRead(r)
    <3>1. UNCHANGED <<now, ev, media, cleanup, darkFrom>> /\ req[r].op = "new"
      BY <2>3 DEF AcknowledgeRead
    <3>2. PICK e \in Events :
            req' = [req EXCEPT ![r] = [op |-> "ack", event |-> e, date |-> NoDate]]
      BY <2>3 DEF AcknowledgeRead
    <3>3. AskedPurge' = AskedPurge
      BY <3>1, <3>2 DEF AskedPurge, TypeOK
    <3> QED BY <3>1, <3>3, LifeSame
  <2>4. CASE AcknowledgeWrite(r)
    <3>1. /\ UNCHANGED <<now, media, cleanup, darkFrom>>
          /\ ev' = [ev EXCEPT ![req[r].event].acked = TRUE]
          /\ req[r].op = "ack" /\ req' = [req EXCEPT ![r].op = "done"]
      BY <2>4 DEF AcknowledgeWrite
    <3>2. AskedPurge' = AskedPurge /\ recorded' = recorded
      BY <3>1 DEF AskedPurge, TypeOK, Row
    <3> QED BY <3>1, <3>2, LifeSame
  <2>5. CASE PurgeNowRead(r)
    <3>1. PICK e \in Events :
            /\ Expired(ev[e], now)
            /\ req' = [req EXCEPT ![r] = [op |-> "purge", event |-> e, date |-> NoDate]]
      BY <2>5 DEF PurgeNowRead
    <3>2. UNCHANGED <<now, ev, media, cleanup, darkFrom>> /\ req[r].op = "new"
      BY <2>5 DEF PurgeNowRead
    <3>3. AskedPurge' = AskedPurge \cup {e}
      BY <3>1, <3>2 DEF AskedPurge, TypeOK
    <3>4. darkFrom[e] # 0 /\ darkFrom[e] <= now
      BY <3>1 DEF GraceInv, RowDark, DarkBy, Expired, NoDate, TypeOK, Row, Dates
    <3>5. Retention!Ask(e)
      BY <3>2, <3>3, <3>4, LifeSame DEF Retention!Ask
    <3> QED BY <3>5 DEF Retention!RetentionNext
  <2>6. CASE PurgeNowQueue(r)
    <3> DEFINE e == req[r].event
    <3>1. /\ UNCHANGED <<now, ev, media, darkFrom>> /\ req[r].op = "purge"
          /\ cleanup' = [cleanup EXCEPT ![e] = @ \cup {"queued"}] /\ req' = [req EXCEPT ![r].op = "mark"]
      BY <2>6 DEF PurgeNowQueue
    <3>2. e \in AskedPurge /\ AskedPurge' \in {AskedPurge, AskedPurge \ {e}}
      BY <3>1 DEF AskedPurge, TypeOK, Request
    <3>3. e \in Events
      BY <3>1 DEF PurgeInv, PurgeInHand
    <3>4. Life' = Retention!Doomed(e)
      BY <3>1, <3>3, QueueDooms DEF Retention!Doomed
    <3>5. Retention!Obey(e)
      BY <3>1, <3>2, <3>4 DEF Retention!Obey
    <3>6. Retention!RetentionNext
      BY <3>3, <3>5, Zenon DEF Retention!RetentionNext
    <3> QED BY <3>6
  <2>7. CASE PurgeNowMark(r)
    <3>0. PICK e \in Events : e = req[r].event /\ Deleted(e)
      BY <2>7 DEF PurgeNowMark, PurgeInv, PurgeInHand
    <3>1. /\ UNCHANGED <<now, media, cleanup, darkFrom>> /\ req[r].op = "mark"
          /\ ev' = [ev EXCEPT ![e] = Purged(@)] /\ req' = [req EXCEPT ![r].op = "done"]
      BY <2>7, <3>0 DEF PurgeNowMark
    <3>2. Life[e] # "kept"
      BY <3>0 DEF Deleted, Life
    <3>3. recorded' = recorded \cup {e}
      BY <3>1, <3>2 DEF Purged, TypeOK, Row
    <3>4. AskedPurge' = AskedPurge
      BY <3>1 DEF AskedPurge, TypeOK, Request
    <3>5. Retention!Record(e)
      BY <3>1, <3>2, <3>3, <3>4, LifeSame DEF Retention!Record
    <3>6. Retention!RetentionNext
      BY <3>2, <3>5, Zenon DEF Retention!RetentionNext
    <3> QED BY <3>6
  <2>8. CASE update(r)
    <3>1. PICK e \in Events, d \in Nat :
            ev' = [ev EXCEPT ![e] = Rescheduled(ev[e], d)] /\ Darken(ev', now)
      BY <2>8, UpdateWrites, ExpiryAssumption DEF TypeOK
    <3>2. /\ UNCHANGED <<now, media, cleanup>>
          /\ req[r].op = "new" /\ req' = [req EXCEPT ![r].op = "done"]
      BY <2>8 DEF update
    <3>3. AskedPurge' = AskedPurge
      BY <3>2 DEF AskedPurge, TypeOK, Request
    <3>4. recorded' = recorded
      BY <3>1 DEF Rescheduled, TypeOK, Row
    <3>5. ev' \in [Events -> Row] /\ now' = now /\ now \in Nat
      BY <3>1, <3>2, RowsStayRows DEF TypeOK, Dates
    <3>6. /\ darkFrom' \in [Events -> Nat]
          /\ \A f \in Events :
               \/ darkFrom'[f] = darkFrom[f]
               \/ /\ darkFrom'[f] \in 1..now
                  /\ darkFrom[f] # 0 => darkFrom'[f] < darkFrom[f]
      BY <3>1, <3>5, DarkenPasses
    <3>7. Retention!Pass
      BY <3>2, <3>3, <3>4, <3>5, <3>6, LifeSame DEF Retention!Pass
    <3> QED BY <3>7 DEF Retention!RetentionNext
  <2> QED BY <1>6, <2>1, <2>2, <2>3, <2>4, <2>5, <2>6, <2>7, <2>8 DEF Organizer
<1>7. CASE ExpirySweepStep \/ CrashExpirySweep \/ PurgeSweep \/ PurgeRecheck \/ CrashPurgeSweep
  <2>1. UNCHANGED <<now, darkFrom, req, media, cleanup>>
    BY <1>7 DEF ExpirySweepStep, ExpirySweep, ExpiryMark, ExpiryQueue, CrashExpirySweep,
       PurgeSweep, PurgeRecheck, CrashPurgeSweep
  <2>2. recorded' = recorded
    <3>1. CASE UNCHANGED ev
      BY <3>1
    <3>2. CASE ExpiryMark
      <4>1. PICK item \in notifier.snap :
              ev' = [ev EXCEPT ![item[1]].notifiedAt = notifier.at,
                               ![item[1]].purgeAfter = purgeDeadline(item[2])]
        BY <3>2 DEF ExpiryMark
      <4> QED BY <4>1 DEF TypeOK, Row, Notifier
    <3> QED BY <1>7, <3>1, <3>2 DEF ExpirySweepStep, ExpirySweep, ExpiryQueue,
               CrashExpirySweep, PurgeSweep, PurgeRecheck, CrashPurgeSweep
  <2> QED BY <1>1, <2>1, <2>2
<1>8. ASSUME NEW e \in Events, SendEventExpiry(e)
      PROVE  [Retention!RetentionNext]_(Retention!retentionVars)
  BY <1>1, <1>8 DEF SendEventExpiry
<1>9. CASE UNCHANGED vars
  BY <1>1, <1>9 DEF vars
<1> QED BY <1>2, <1>3, <1>4, <1>5, <1>6, <1>7, <1>8, <1>9, <1>10 DEF Next, PurgeSweepStep

\* The expiry service implements MediaRetention, for every number of events,
\* requests and crashes and every grace period.
THEOREM RetentionKept == Spec => KeepsRetention
<1>1. Init => Retention!RetentionInit
  BY DEF Init, Retention!RetentionInit, AskedPurge, Life, NewRow, NoDate
<1>2. Init => GraceInv /\ PurgeInv
  BY DEF Init, GraceInv, RowDark, DeadlineInv, NotifierInv, PurgerInv, Expired, NewRow,
         NoDate, PurgeInv, PurgedMeansDeleted, PurgeInHand
<1> QED BY <1>1, <1>2, TypeCorrect, GraceStep, PurgeStep, RetentionStep, PTL
       DEF Spec, KeepsRetention, Retention!RetentionSpec

-----------------------------------------------------------------------------
(* The memory reels *)

ReelInv ==
    /\ named \in BOOLEAN /\ intervals = (IF named THEN 1 ELSE 0)
    /\ visited # 0 /\ ~ named => asks # {}
    /\ ReelEnds

\* The one interval that runs is the one the page can stop, and it runs unless a
\* reel is on its way.
LEMMA ReelStep == ReelInv /\ [ReelNext]_reelVars => ReelInv'
<1> SUFFICES ASSUME ReelInv, [ReelNext]_reelVars PROVE ReelInv'
  OBVIOUS
<1> USE DEF ReelEnds
<1>0. stopProgressTimer(intervals, named) = 0
  <2>1. CASE named
    BY <2>1 DEF ReelInv, stopProgressTimer
  <2>2. CASE ~ named
    BY <2>2 DEF ReelInv, stopProgressTimer
  <2> QED BY <2>1, <2>2
<1>1. ASSUME NEW e, e # 0, loadSlideshow(e) PROVE ReelInv'
  <2>1. intervals' = stopProgressTimer(intervals, named) /\ named' = FALSE /\ asks' # {} /\ visited' # 0
    BY <1>1 DEF loadSlideshow
  <2>2. intervals' = 0
    BY <1>0, <2>1
  <2> QED BY <2>1, <2>2 DEF ReelInv
<1>2. CASE UNCHANGED reelVars
  BY <1>2 DEF ReelInv, reelVars
<1>3. ASSUME NEW d, advance(d) PROVE ReelInv'
  <2>1. CASE UNCHANGED reelVars
    BY <1>2, <2>1
  <2>2. CASE visited \in 1 .. Memories - 1 /\ openMemory(visited + 1)
    BY <1>1, <2>2, ReelConstants DEF openMemory
  <2>3. CASE UNCHANGED <<visited, intervals, named, asks, overdue>>
    BY <2>3 DEF ReelInv
  <2> QED BY <1>3, <2>1, <2>2, <2>3 DEF advance
<1>4. ASSUME NEW a \in asks, reelAnswer(a) PROVE ReelInv'
  BY <1>4 DEF ReelInv, reelAnswer, arrives, startProgressTimer, stopProgressTimer
<1>5. CASE tickReel
  BY <1>3, <1>5 DEF tickReel, ReelInv
<1>6. CASE onArrow
  BY <1>3, <1>6 DEF onArrow
<1>7. CASE galleryInView \/ \E i \in 0 .. reel.length - 1 : jumpTo(i)
  BY <1>7 DEF galleryInView, jumpTo, ReelInv
<1>8. CASE leaveMemories
  <2>1. visited' = 0 /\ named' = FALSE /\ intervals' = 0 /\ asks' = asks /\ (overdue' <=> asks # {})
    BY <1>0, <1>8 DEF leaveMemories
  <2> QED BY <2>1 DEF ReelInv
<1>9. ASSUME NEW e \in 1 .. Memories, openMemory(e) PROVE ReelInv'
  BY <1>1, <1>9, ReelConstants DEF openMemory
<1> QED BY <1>2, <1>4, <1>5, <1>6, <1>7, <1>8, <1>9 DEF ReelNext

(* The reel keeps one pace and never stops for good: at most one interval runs,  *)
(* and one does on an open page whose requests are answered, however many events *)
(* are visited and in whatever order their reels arrive; a page left with no reel *)
(* on its way leaves no interval (memories/[eventId]/+page.svelte:57, 126).       *)
THEOREM ReelKeepsPace == ReelSpec => [](OnePace /\ ReelMoves /\ ReelEnds)
<1>1. ReelInit => ReelInv
  <2> SUFFICES ASSUME ReelInit PROVE ReelInv
    OBVIOUS
  <2>1. ReelEnds
    BY DEF ReelInit, ReelEnds
  <2> QED BY <2>1, Zenon DEF ReelInit, ReelInv
<1>2. ReelInv => OnePace /\ ReelMoves /\ ReelEnds
  BY DEF ReelInv, OnePace, ReelMoves
<1> QED BY <1>1, <1>2, ReelStep, PTL DEF ReelSpec

-----------------------------------------------------------------------------
(* The wait for a selfie *)

Standings == {"none", "processing", "settled", "removed"}
Sayings == {Email, NotAsked} \cup [mode : {"live"}, status : Standings, position : Nat]
PollRecord == [stage : {"idle", "asked", "read", "answered"}, status : Standings, answer : Sayings]

WaitInv ==
    /\ standing \in Standings /\ ahead \in Nat
    /\ poll \in [Polls -> PollRecord] /\ progress \in Sayings
    /\ pollTimers \in Nat /\ mounted \in BOOLEAN /\ visible \in BOOLEAN /\ midway \in BOOLEAN
    /\ standing = "none" => (\A p \in Polls : poll[p] = NoPoll) /\ pollTimers = 0 /\ progress.mode # "live"
    /\ SpinnerIsWatched /\ HiddenTabIsQuiet

\* What the server may say.
LEMMA SayingsAre ==
    /\ Email \in Sayings /\ NotAsked \in Sayings /\ NoPoll \in PollRecord
    /\ \A s \in Standings, n \in Nat : Live(s, n) \in Sayings
    /\ Email.mode # "live" /\ NotAsked.mode # "live"
BY DEF Sayings, Email, NotAsked, NoPoll, Live, PollRecord, Standings

\* A request that is sent is one that is asked.
LEMMA AskStarts ==
    ASSUME WaitInv, NEW p \in Polls, Ask(p)
    PROVE  poll' \in [Polls -> PollRecord] /\ Asked'
<1>1. poll[p] = NoPoll /\ poll' = [poll EXCEPT ![p].stage = "asked"]
  BY DEF Ask
<1>2. poll \in [Polls -> PollRecord] /\ NoPoll \in PollRecord
  BY SayingsAre DEF WaitInv
<1>3. [NoPoll EXCEPT !.stage = "asked"] \in PollRecord
  BY <1>2 DEF PollRecord
<1>4. poll'[p] = [NoPoll EXCEPT !.stage = "asked"] /\ poll' \in [Polls -> PollRecord]
  BY <1>1, <1>2, <1>3
<1>5. poll'[p] # NoPoll
  BY <1>4 DEF NoPoll
<1> QED BY <1>4, <1>5 DEF Asked

\* What a server's answer does to a request leaves it one that is asked.
LEMMA ReadStep ==
    ASSUME WaitInv, NEW p \in Polls, NEW r \in PollRecord, r.stage # "idle",
           poll' = [poll EXCEPT ![p] = r], poll[p].stage # "idle",
           UNCHANGED <<serverVars, progress, pollTimers, mounted, visible, midway>>
    PROVE  WaitInv'
<1>1. poll \in [Polls -> PollRecord] /\ poll' \in [Polls -> PollRecord] /\ poll'[p] = r
  BY DEF WaitInv
<1>2. r # NoPoll /\ poll[p] # NoPoll
  BY DEF NoPoll
<1>3. standing # "none" /\ Asked'
  BY <1>1, <1>2 DEF WaitInv, Asked
<1>4. SpinnerIsWatched' /\ HiddenTabIsQuiet'
  <2>1. Asked
    BY <1>2 DEF Asked
  <2> QED BY <1>3, <2>1 DEF SpinnerIsWatched, HiddenTabIsQuiet, WaitInv
<1> QED BY <1>1, <1>3, <1>4 DEF WaitInv, serverVars

\* The server's two reads.
LEMMA ServerReads ==
    ASSUME WaitInv, NEW p \in Polls, ReadParticipant(p) \/ getProgress(p)
    PROVE  WaitInv'
<1>1. poll \in [Polls -> PollRecord] /\ poll[p] \in PollRecord /\ standing \in Standings
  BY DEF WaitInv
<1>2. Position \in Nat
  BY DEF Position, WaitInv
<1>3. poll[p].status \in Standings
  BY <1>1 DEF PollRecord
<1>4. CASE ReadParticipant(p)
  <2> DEFINE r == IF clock > TICKET_TTL \/ standing = "removed"
                  THEN [stage |-> "answered", status |-> "none", answer |-> Email]
                  ELSE IF standing # "processing"
                  THEN [stage |-> "answered", status |-> standing, answer |-> Live(standing, 0)]
                  ELSE [stage |-> "read", status |-> standing, answer |-> NotAsked]
  <2>1. /\ Email \in Sayings /\ NotAsked \in Sayings /\ Live(standing, 0) \in Sayings /\ "none" \in Standings
    BY <1>1, SayingsAre DEF Standings
  <2>2. r \in PollRecord /\ r.stage # "idle"
    BY <1>1, <2>1 DEF PollRecord
  <2>3. /\ poll' = [poll EXCEPT ![p] = r] /\ poll[p].stage # "idle"
        /\ UNCHANGED <<serverVars, progress, pollTimers, mounted, visible, midway>>
    BY <1>4 DEF ReadParticipant
  <2> HIDE DEF r
  <2> QED BY <2>2, <2>3, ReadStep
<1>5. CASE getProgress(p)
  <2> DEFINE says == IF ~ selfiesRunHere /\ (~ online \/ pending > LIVE_MODE_MAX_PENDING)
                     THEN Email ELSE Live(poll[p].status, Position)
  <2>1. says \in Sayings
    BY <1>2, <1>3, SayingsAre
  <2>2. PICK r : r = [poll[p] EXCEPT !.stage = "answered", !.answer = says]
    OBVIOUS
  <2>3. poll' = [poll EXCEPT ![p].stage = "answered", ![p].answer = says] /\ poll[p].stage = "read"
        /\ UNCHANGED <<serverVars, progress, pollTimers, mounted, visible, midway>>
    BY <1>5 DEF getProgress
  <2> HIDE DEF says
  <2>4. r \in PollRecord /\ r.stage = "answered"
    BY <1>1, <2>1, <2>2 DEF PollRecord
  <2>5. poll' = [poll EXCEPT ![p] = r]
    BY <1>1, <2>2, <2>3
  <2> QED BY <2>3, <2>4, <2>5, ReadStep
<1> QED BY <1>4, <1>5

\* What the page does with an answer, its timer and its tab, and what it does not see.
LEMMA WaitStep == WaitInv /\ [SelfieWaitNext]_waitVars => WaitInv'
<1> SUFFICES ASSUME WaitInv, [SelfieWaitNext]_waitVars PROVE WaitInv'
  OBVIOUS
<1> USE DEF WaitInv, SpinnerIsWatched, HiddenTabIsQuiet
<1>1. ASSUME NEW p \in Polls, submit(p) PROVE WaitInv'
  <2>1. poll' \in [Polls -> PollRecord] /\ Asked'
    BY <1>1, AskStarts DEF submit
  <2>2. standing' = "processing" /\ mounted /\ UNCHANGED <<ahead, progress, pollTimers, mounted, visible, midway>>
    BY <1>1 DEF submit
  <2> QED BY <2>1, <2>2 DEF Standings
<1>2. ASSUME NEW p \in Polls, pollProgress(p) PROVE WaitInv'
  <2>1. poll \in [Polls -> PollRecord] /\ poll[p] \in PollRecord /\ poll[p].stage # "idle"
    BY <1>2 DEF pollProgress
  <2>2. standing # "none" /\ Asked /\ midway' = midway
    BY <1>2, <2>1 DEF NoPoll, Asked, pollProgress
  <2>3. poll[p].answer \in Sayings
    BY <2>1 DEF PollRecord
  <2>4. progress' \in Sayings /\ pollTimers' = schedulePoll(progress')
    BY <1>2, <2>3, SayingsAre DEF pollProgress
  <2>5. /\ poll' = [poll EXCEPT ![p] = NoPoll]
        /\ standing' = standing /\ ahead' = ahead /\ mounted' = mounted /\ visible' = visible
    BY <1>2 DEF pollProgress, serverVars
  <2>6. poll' \in [Polls -> PollRecord]
    BY <2>1, <2>5, SayingsAre
  <2>7. CASE visible /\ progress'.mode = "live" /\ progress'.status = "processing"
    <3>1. pollTimers' = 1
      BY <2>4, <2>5, <2>7 DEF schedulePoll
    <3> QED BY <2>2, <2>4, <2>5, <2>6, <2>7, <3>1
  <2>8. CASE ~ (visible /\ progress'.mode = "live" /\ progress'.status = "processing")
    <3>1. pollTimers' = 0
      BY <2>4, <2>5, <2>8 DEF schedulePoll
    <3> QED BY <2>2, <2>4, <2>5, <2>6, <2>8, <3>1
  <2> QED BY <2>7, <2>8
<1>3. ASSUME NEW p \in Polls, timerFires(p) PROVE WaitInv'
  <2>1. poll' \in [Polls -> PollRecord] /\ Asked'
    BY <1>3, AskStarts DEF timerFires
  <2>2. /\ pollTimers > 0 /\ pollTimers' = pollTimers - 1
        /\ UNCHANGED <<standing, ahead, progress, mounted, visible, midway>>
    BY <1>3 DEF timerFires, serverVars
  <2>3. standing # "none" /\ pollTimers' \in Nat /\ pollTimers' <= pollTimers
    BY <2>2
  <2> QED BY <2>1, <2>2, <2>3
<1>4. ASSUME NEW p \in Polls, showTab(p) PROVE WaitInv'
  <2>1. ~ visible /\ visible' = TRUE /\ UNCHANGED <<standing, ahead, progress, pollTimers, mounted, midway>>
    BY <1>4 DEF showTab, serverVars
  <2>2. CASE mounted /\ standing # "none"
    <3>1. poll' \in [Polls -> PollRecord] /\ Asked'
      BY <1>4, <2>2, AskStarts DEF showTab
    <3> QED BY <2>1, <2>2, <3>1
  <2>3. CASE ~ (mounted /\ standing # "none")
    <3>1. poll' = poll
      BY <1>4, <2>3 DEF showTab
    <3>2. Asked' <=> Asked
      BY <3>1 DEF Asked
    <3> QED BY <2>1, <2>3, <3>1, <3>2
  <2> QED BY <2>2, <2>3
<1>5. CASE hideTab
  <2>1. visible' = FALSE /\ UNCHANGED <<standing, ahead, progress, poll, mounted, midway>> /\ (Asked' <=> Asked)
    BY <1>5 DEF hideTab, serverVars, Asked
  <2>2. pollTimers' = IF mounted THEN 0 ELSE pollTimers
    BY <1>5 DEF hideTab
  <2>3. pollTimers' \in Nat /\ (mounted => pollTimers' = 0) /\ (pollTimers = 0 => pollTimers' = 0)
    BY <2>2
  <2>4. SpinnerIsWatched' /\ HiddenTabIsQuiet'
    <3>1. pollTimers' <= 1 /\ (~ mounted => pollTimers' = pollTimers)
      BY <2>2
    <3> QED BY <2>1, <2>3, <3>1
  <2>5. \A p \in Polls : poll'[p] = poll[p]
    BY <2>1
  <2> QED BY <2>1, <2>3, <2>4, <2>5
<1>6. CASE leavePage
  <2>1. /\ mounted' = FALSE /\ pollTimers' = 0 /\ UNCHANGED <<standing, ahead, progress, poll, visible>>
        /\ (midway' <=> Asked) /\ (Asked' <=> Asked) /\ midway' \in BOOLEAN
    BY <1>6 DEF leavePage, serverVars, Asked
  <2>2. SpinnerIsWatched' /\ HiddenTabIsQuiet'
    BY <2>1
  <2>3. \A p \in Polls : poll'[p] = poll[p]
    BY <2>1
  <2> QED BY <2>1, <2>2, <2>3
<1>7. CASE JobMoves
  <2>1. UNCHANGED <<poll, progress, pollTimers, mounted, visible, midway>>
    BY <1>7 DEF JobMoves
  <2>2. ahead' \in Nat /\ standing' \in Standings /\ (standing' = "none" => standing = "none")
    BY <1>7 DEF JobMoves, Standings
  <2> QED BY <2>1, <2>2 DEF Asked
<1>8. CASE BoxMoves \/ ClockTicks \/ UNCHANGED waitVars
  <2>1. UNCHANGED <<standing, ahead, poll, progress, pollTimers, mounted, visible, midway>>
    BY <1>8 DEF BoxMoves, ClockTicks, waitVars
  <2> QED BY <2>1 DEF Asked
<1> QED BY <1>1, <1>2, <1>3, <1>4, <1>5, <1>6, <1>7, <1>8, ServerReads DEF SelfieWaitNext

(* Nobody watches a dead spinner and no tab polls in the background: a page that  *)
(* says the selfie is being processed, in view, has a request on its way or a     *)
(* timer that will send one, and never two, however many requests overlap; left   *)
(* with none on its way it sends no more (e/[slug]/+page.svelte:47-66).           *)
THEOREM SpinnersAreWatched == SelfieWaitSpec => [](SpinnerIsWatched /\ HiddenTabIsQuiet)
<1>1. SelfieWaitInit => WaitInv
  <2> SUFFICES ASSUME SelfieWaitInit PROVE WaitInv
    OBVIOUS
  <2>1. /\ standing = "none" /\ ahead \in Nat /\ poll = [p \in Polls |-> NoPoll] /\ progress = NotAsked
        /\ pollTimers = 0 /\ mounted = TRUE /\ visible = TRUE /\ midway = FALSE
    BY DEF SelfieWaitInit
  <2>2. SpinnerIsWatched /\ HiddenTabIsQuiet
    BY <2>1, SayingsAre DEF SpinnerIsWatched, HiddenTabIsQuiet
  <2>3. mounted \in BOOLEAN /\ visible \in BOOLEAN /\ midway \in BOOLEAN
    BY <2>1, Zenon
  <2> QED BY <2>1, <2>2, <2>3, SayingsAre DEF WaitInv, Standings
<1>2. WaitInv => SpinnerIsWatched /\ HiddenTabIsQuiet
  BY DEF WaitInv
<1> QED BY <1>1, <1>2, WaitStep, PTL DEF SelfieWaitSpec

-----------------------------------------------------------------------------
(* The viewer *)

Queries(qs) == \E T : qs \subseteq [of : T, cancelled : BOOLEAN]

ViewerInv ==
    /\ slideshow \in BOOLEAN /\ Queries(query)
    /\ OverlayOfShownPhoto /\ NoStrayTimer

\* A request that was cancelled stays cancelled.
LEMMA CancelledAre ==
    ASSUME NEW qs, Queries(qs)
    PROVE  Queries(Cancelled(qs)) /\ \A q \in Cancelled(qs) : q.cancelled
<1>1. PICK T : qs \subseteq [of : T, cancelled : BOOLEAN]
  BY DEF Queries
<1>2. ASSUME NEW x \in Cancelled(qs) PROVE x \in [of : T, cancelled : BOOLEAN] /\ x.cancelled
  <2>1. PICK q \in qs : x = [q EXCEPT !.cancelled = TRUE]
    BY DEF Cancelled
  <2>2. q \in [of : T, cancelled : BOOLEAN]
    BY <1>1
  <2> QED BY <2>1, <2>2
<1>3. Cancelled(qs) \subseteq [of : T, cancelled : BOOLEAN]
  BY <1>2
<1> QED BY <1>2, <1>3 DEF Queries

\* One more request joins the ones that were cancelled.
LEMMA Asking ==
    ASSUME NEW qs, Queries(qs), NEW p
    PROVE  /\ Queries(Cancelled(qs) \cup {[of |-> p, cancelled |-> FALSE]})
           /\ \A q \in Cancelled(qs) \cup {[of |-> p, cancelled |-> FALSE]} : ~ q.cancelled => q.of = p
<1>1. Queries(Cancelled(qs)) /\ \A q \in Cancelled(qs) : q.cancelled
  BY CancelledAre
<1>2. PICK T : Cancelled(qs) \subseteq [of : T, cancelled : BOOLEAN]
  BY <1>1 DEF Queries
<1>3. [of |-> p, cancelled |-> FALSE] \in [of : T \cup {p}, cancelled : BOOLEAN]
  OBVIOUS
<1>4. \A q \in Cancelled(qs) : q \in [of : T \cup {p}, cancelled : BOOLEAN]
  BY <1>2
<1>5. Cancelled(qs) \cup {[of |-> p, cancelled |-> FALSE]} \subseteq [of : T \cup {p}, cancelled : BOOLEAN]
  BY <1>3, <1>4
<1>6. [of |-> p, cancelled |-> FALSE].of = p
  OBVIOUS
<1>7. Queries(Cancelled(qs) \cup {[of |-> p, cancelled |-> FALSE]})
  BY <1>5 DEF Queries
<1> QED BY <1>1, <1>6, <1>7

\* The viewer keeps to the photo it shows, whatever list and position it is given.
LEMMA ShowStep ==
    ASSUME ViewerInv, NEW list_, NEW i, Show(list_, i)
    PROVE  ViewerInv'
<1>1. asset' = InView(list_, i)
  BY DEF Show, asset
<1>2. Queries(Cancelled(query)) /\ \A q \in Cancelled(query) : q.cancelled
  BY CancelledAre DEF ViewerInv
<1>3. CASE InView(list_, i) = "none"
  <2>1. query' = Cancelled(query) /\ overlay' = "none" /\ slideshow' = FALSE /\ timers' = 0
    BY <1>3 DEF Show, Unmount
  <2> QED BY <1>2, <2>1 DEF ViewerInv, OverlayOfShownPhoto, NoStrayTimer
<1>4. CASE InView(list_, i) # "none"
  <2>1. overlay' = "none" /\ query' = Cancelled(query) \cup {[of |-> InView(list_, i), cancelled |-> FALSE]}
    BY <1>4 DEF Show
  <2>2. Queries(query') /\ \A q \in query' : ~ q.cancelled => q.of = asset'
    BY <1>1, <2>1, Asking DEF ViewerInv
  <2>3. \/ slideshow' = FALSE /\ timers' = 0
        \/ asset # "none" /\ UNCHANGED <<slideshow, timers>>
    BY <1>4 DEF Show
  <2>4. slideshow' \in BOOLEAN /\ timers' = (IF slideshow' THEN 1 ELSE 0)
    <3>1. slideshow \in BOOLEAN /\ timers = (IF slideshow THEN 1 ELSE 0)
      BY DEF ViewerInv, NoStrayTimer
    <3>2. CASE slideshow' = FALSE /\ timers' = 0
      BY <3>2
    <3>3. CASE UNCHANGED <<slideshow, timers>>
      BY <3>1, <3>3
    <3> QED BY <2>3, <3>2, <3>3
  <2> QED BY <1>1, <1>4, <2>1, <2>2, <2>4 DEF ViewerInv, OverlayOfShownPhoto, NoStrayTimer
<1> QED BY <1>3, <1>4

\* A slideshow that is stopped, or started over a photo, has its one timer.
LEMMA SlideshowStep ==
    ASSUME ViewerInv, slideshow' \in BOOLEAN, asset # "none",
           timers' = (IF slideshow /\ ~ slideshow' THEN timers - 1
                      ELSE IF ~ slideshow /\ slideshow' THEN timers + 1 ELSE timers),
           \/ UNCHANGED <<pictures, viewerIndex, query, overlay>>
           \/ /\ viewerIndex' \in DOMAIN pictures /\ pictures' = pictures /\ slideshow' = FALSE
              /\ query' = Cancelled(query) \cup {[of |-> pictures[viewerIndex'], cancelled |-> FALSE]}
              /\ overlay' = "none"
    PROVE  ViewerInv'
<1>1. timers' = (IF slideshow' THEN 1 ELSE 0)
  BY DEF ViewerInv, NoStrayTimer
<1>2. CASE UNCHANGED <<pictures, viewerIndex, query, overlay>>
  <2>1. asset' = asset
    BY <1>2 DEF asset
  <2> QED BY <1>1, <1>2, <2>1 DEF ViewerInv, OverlayOfShownPhoto, NoStrayTimer
<1>3. CASE /\ viewerIndex' \in DOMAIN pictures /\ pictures' = pictures /\ slideshow' = FALSE
           /\ query' = Cancelled(query) \cup {[of |-> pictures[viewerIndex'], cancelled |-> FALSE]}
           /\ overlay' = "none"
  <2>1. asset' = pictures[viewerIndex']
    BY <1>3 DEF asset, InView
  <2>2. Queries(query') /\ \A q \in query' : ~ q.cancelled => q.of = asset'
    BY <1>3, <2>1, Asking DEF ViewerInv
  <2> QED BY <1>1, <1>3, <2>2 DEF ViewerInv, OverlayOfShownPhoto, NoStrayTimer
<1> QED BY <1>2, <1>3

\* One case per way the viewer moves.
LEMMA ViewerStep == ViewerInv /\ [PhotoViewerNext]_viewerVars => ViewerInv'
<1> SUFFICES ASSUME ViewerInv, [PhotoViewerNext]_viewerVars PROVE ViewerInv'
  OBVIOUS
<1>1. slideshow \in BOOLEAN
  BY DEF ViewerInv
<1>2. ASSUME UNCHANGED <<pictures, viewerIndex, query, overlay, slideshow, timers>> PROVE ViewerInv'
  BY <1>2 DEF ViewerInv, OverlayOfShownPhoto, NoStrayTimer, asset, Queries
<1>3. ASSUME NEW list_, NEW i, Show(list_, i) PROVE ViewerInv'
  BY <1>3, ShowStep
<1>4. ASSUME NEW by, Step(by) PROVE ViewerInv'
  <2>1. /\ asset # "none" /\ slideshow' = FALSE
        /\ timers' = (IF slideshow THEN timers - 1 ELSE timers) /\ pictures' = pictures
    BY <1>4 DEF Step
  <2>2. CASE viewerIndex + by \in DOMAIN pictures
    <3>1. /\ viewerIndex' = viewerIndex + by
          /\ query' = Cancelled(query) \cup {[of |-> pictures[viewerIndex'], cancelled |-> FALSE]}
          /\ overlay' = "none"
      BY <1>4, <2>2 DEF Step
    <3> QED BY <1>1, <2>1, <2>2, <3>1, SlideshowStep
  <2>3. CASE viewerIndex + by \notin DOMAIN pictures
    <3>1. UNCHANGED <<viewerIndex, query, overlay>>
      BY <1>4, <2>3 DEF Step
    <3> QED BY <1>1, <2>1, <3>1, SlideshowStep
  <2> QED BY <2>2, <2>3
<1>5. CASE toggleSlideshow
  <2>1. /\ asset # "none" /\ slideshow' = ~ slideshow
        /\ timers' = IF slideshow THEN timers - 1 ELSE timers + 1
        /\ UNCHANGED <<pictures, viewerIndex, query, overlay>>
    BY <1>5 DEF toggleSlideshow
  <2> QED BY <1>1, <2>1, SlideshowStep
<1>6. CASE escape
  <2>1. asset # "none"
    BY <1>6 DEF escape
  <2>2. CASE /\ slideshow /\ slideshow' = FALSE /\ timers' = timers - 1
             /\ UNCHANGED <<pictures, viewerIndex, query, overlay>>
    BY <1>1, <2>1, <2>2, SlideshowStep
  <2> QED BY <1>2, <1>3, <1>6, <2>2 DEF escape
<1>7. CASE tick
  BY <1>2, <1>3, <1>7 DEF tick
<1>8. CASE close \/ deletePicture \/ (\E i \in DOMAIN pictures : openAt(i)) \/ (\E l \in PictureLists : refreshList(l))
  BY <1>3, <1>8 DEF close, deletePicture, openAt, refreshList
<1>9. CASE previous \/ next \/ videoEnded \/ \E by \in {-1, 1} : swipe(by)
  BY <1>4, <1>9 DEF previous, next, videoEnded, swipe
<1>10. CASE toggleInfo \/ download \/ downloaded \/ (\E by \in {-1, 1} : setZoom(by)) \/ UNCHANGED viewerVars
  BY <1>2, <1>10 DEF toggleInfo, download, downloaded, setZoom, viewerVars
<1>11. ASSUME NEW q \in query, answered(q) \/ refused(q) PROVE ViewerInv'
  <2>1. query' = query \ {q} /\ UNCHANGED <<pictures, viewerIndex, slideshow, timers>>
    BY <1>11 DEF answered, refused
  <2>2. overlay' = overlay \/ (~ q.cancelled /\ overlay' = q.of)
    BY <1>11 DEF answered, refused
  <2>3. asset' = asset
    BY <2>1 DEF asset
  <2>4. Queries(query')
    BY <2>1 DEF ViewerInv, Queries
  <2> QED BY <2>1, <2>2, <2>3, <2>4 DEF ViewerInv, OverlayOfShownPhoto, NoStrayTimer
<1> QED BY <1>5, <1>6, <1>7, <1>8, <1>9, <1>10, <1>11 DEF PhotoViewerNext

(* The faces and details on screen are those of the photo on screen, and the      *)
(* slideshow's timer ends with the viewer: answers asked for another photo, or an *)
(* earlier visit to this one, are dropped, and no interval is left to reopen what *)
(* its user closed, for any list and any number of steps (PhotoViewer.svelte:278). *)
THEOREM ViewerKeepsToItsPhoto == PhotoViewerSpec => [](OverlayOfShownPhoto /\ NoStrayTimer)
<1>1. PhotoViewerInit => ViewerInv
  BY DEF PhotoViewerInit, ViewerInv, Queries, OverlayOfShownPhoto, NoStrayTimer
<1>2. ViewerInv => OverlayOfShownPhoto /\ NoStrayTimer
  BY DEF ViewerInv
<1> QED BY <1>1, <1>2, ViewerStep, PTL DEF PhotoViewerSpec

-----------------------------------------------------------------------------
(* The event settings *)

SettingsRow == [fields : Fields, cover : Galas2 \cup {NoCover}]

SettingsInv ==
    /\ kept \in [Galas2 -> SettingsRow] /\ loaded \in SettingsRow /\ form \in Fields
    /\ inView \in Galas2 /\ staleEdits \in BOOLEAN
    /\ saves \subseteq [event : Galas2, fields : Fields]
    /\ lists \subseteq [event : Galas2, cancelled : BOOLEAN]
    /\ ForeignEditsFlagged /\ DownloadsNeedSharing /\ CoverIsItsOwn
    /\ \A s \in saves : s.fields.download => s.fields.seeAll
    /\ coverChoices \in {NoCover, inView}
    /\ \A l \in lists : ~ l.cancelled => l.event = inView

\* The fields of a row, as the form is seeded from them, and as a save sends them.
LEMMA FieldsAre ==
    ASSUME NEW r \in SettingsRow, NEW e \in Galas2, NEW f \in Fields
    PROVE  /\ Seeded(e, r) \in Fields /\ Seeded(e, r).textOf = e
           /\ Sent(f) \in Fields /\ (Sent(f).download => Sent(f).seeAll)
BY DEF SettingsRow, Fields, Seeded, Sent

\* Leaving an event for another settles whose the form, the picker and the requests are.
LEMMA SwitchStep ==
    ASSUME SettingsInv, NEW e \in Galas2, switchEvents(e)
    PROVE  SettingsInv'
<1>1. /\ kept' = kept /\ saves' = saves /\ inView' = e /\ loaded' = kept[e]
      /\ coverChoices' = NoCover
      /\ lists' = {[l EXCEPT !.cancelled = TRUE] : l \in lists} \cup {[event |-> e, cancelled |-> FALSE]}
  BY DEF switchEvents, reseed, askCovers
<1>2. kept[e] \in SettingsRow
  BY DEF SettingsInv
<1>3. \/ staleEdits' = TRUE /\ form' = form
      \/ staleEdits' = FALSE /\ form' = Seeded(e, kept[e])
  BY DEF switchEvents, reseed
<1>4. form' \in Fields /\ staleEdits' \in BOOLEAN /\ ForeignEditsFlagged'
  <2>1. Seeded(e, kept[e]) \in Fields /\ Seeded(e, kept[e]).textOf = e
    BY <1>2, FieldsAre DEF SettingsInv
  <2> QED BY <1>1, <1>3, <2>1 DEF SettingsInv, ForeignEditsFlagged
<1>5. lists' \subseteq [event : Galas2, cancelled : BOOLEAN] /\ \A l \in lists' : ~ l.cancelled => l.event = e
  <2>1. \A l \in lists : /\ [l EXCEPT !.cancelled = TRUE] \in [event : Galas2, cancelled : BOOLEAN]
                         /\ [l EXCEPT !.cancelled = TRUE].cancelled
    BY DEF SettingsInv
  <2>2. \A l \in lists' : l = [event |-> e, cancelled |-> FALSE]
                           \/ \E k \in lists : l = [k EXCEPT !.cancelled = TRUE]
    BY <1>1
  <2>3. [event |-> e, cancelled |-> FALSE] \in [event : Galas2, cancelled : BOOLEAN]
    OBVIOUS
  <2>4. [event |-> e, cancelled |-> FALSE].event = e
    OBVIOUS
  <2>5. ASSUME NEW l \in lists' PROVE l \in [event : Galas2, cancelled : BOOLEAN] /\ (~ l.cancelled => l.event = e)
    <3>1. CASE l = [event |-> e, cancelled |-> FALSE]
      BY <2>3, <2>4, <3>1
    <3>2. CASE \E k \in lists : l = [k EXCEPT !.cancelled = TRUE]
      BY <2>1, <3>2
    <3> QED BY <2>2, <3>1, <3>2
  <2> QED BY <2>5
<1> QED BY <1>1, <1>2, <1>4, <1>5 DEF SettingsInv, DownloadsNeedSharing, CoverIsItsOwn

\* A save that the server takes, and a cover, change the row of their event.
LEMMA StoreStep ==
    ASSUME SettingsInv, NEW e \in Galas2, NEW r \in SettingsRow, kept' = [kept EXCEPT ![e] = r],
           r.fields.download => r.fields.seeAll, r.cover \in {NoCover, e},
           loaded' = kept'[inView], saves' \subseteq saves,
           UNCHANGED <<inView, form, staleEdits, coverVars>>
    PROVE  SettingsInv'
<1>1. kept' \in [Galas2 -> SettingsRow] /\ kept'[e] = r /\ \A d \in Galas2 \ {e} : kept'[d] = kept[d]
  BY DEF SettingsInv
<1>2. loaded' \in SettingsRow
  BY <1>1 DEF SettingsInv
<1>3. DownloadsNeedSharing' /\ CoverIsItsOwn'
  <2>1. DownloadsNeedSharing /\ CoverIsItsOwn
    BY DEF SettingsInv
  <2> QED BY <1>1, <2>1 DEF DownloadsNeedSharing, CoverIsItsOwn
<1> QED BY <1>1, <1>2, <1>3 DEF SettingsInv, ForeignEditsFlagged, coverVars

\* What is typed, sent, discarded, refused or listed touches no row.
LEMMA FormStep ==
    ASSUME SettingsInv, kept' = kept, inView' = inView, loaded' = loaded,
           form' \in Fields, staleEdits' \in BOOLEAN,
           form'.textOf # inView => staleEdits',
           \A s \in saves' : s \in saves \/ s = [event |-> inView, fields |-> Sent(form)],
           \A l \in lists' : l \in lists,
           coverChoices' = coverChoices \/ (\E l \in lists : ~ l.cancelled /\ coverChoices' = l.event)
    PROVE  SettingsInv'
<1>1. /\ [event |-> inView, fields |-> Sent(form)] \in [event : Galas2, fields : Fields]
      /\ Sent(form).download => Sent(form).seeAll
  <2>1. loaded \in SettingsRow /\ inView \in Galas2 /\ form \in Fields
    BY DEF SettingsInv
  <2> QED BY <2>1, FieldsAre
<1>2. saves' \subseteq [event : Galas2, fields : Fields] /\ \A s \in saves' : s.fields.download => s.fields.seeAll
  BY <1>1 DEF SettingsInv
<1>3. coverChoices' \in {NoCover, inView'} /\ \A l \in lists' : ~ l.cancelled => l.event = inView'
  BY DEF SettingsInv
<1>4. ForeignEditsFlagged' /\ DownloadsNeedSharing' /\ CoverIsItsOwn'
  BY DEF SettingsInv, ForeignEditsFlagged, DownloadsNeedSharing, CoverIsItsOwn
<1> QED BY <1>2, <1>3, <1>4 DEF SettingsInv

\* One case per action of the page and the server.
LEMMA SettingsStep == SettingsInv /\ [SettingsNext]_settingsVars => SettingsInv'
<1> SUFFICES ASSUME SettingsInv, [SettingsNext]_settingsVars PROVE SettingsInv'
  OBVIOUS
<1>0. /\ form \in Fields /\ staleEdits \in BOOLEAN /\ inView \in Galas2 /\ loaded \in SettingsRow
      /\ form.textOf # inView => staleEdits
  BY DEF SettingsInv, ForeignEditsFlagged
<1>1. CASE \E e \in Galas2 : switchEvents(e)
  BY <1>1, SwitchStep
<1>2. ASSUME NEW s \in Slugs, typeSlug(s) PROVE SettingsInv'
  <2>1. form' = [form EXCEPT !.slug = s] /\ UNCHANGED <<kept, inView, loaded, staleEdits, saves, lists, coverChoices>>
    BY <1>2 DEF typeSlug, coverVars
  <2>2. form' \in Fields /\ form'.textOf = form.textOf
    BY <1>0, <2>1 DEF Fields
  <2> QED BY <1>0, <2>1, <2>2, FormStep
<1>3. CASE toggleFlag
  <2>1. /\ form' = [form EXCEPT !.seeAll = ~ @] \/ form' = [form EXCEPT !.download = ~ @]
        /\ UNCHANGED <<kept, inView, loaded, staleEdits, saves, lists, coverChoices>>
    BY <1>3 DEF toggleFlag, coverVars
  <2>2. form' \in Fields /\ form'.textOf = form.textOf
    BY <1>0, <2>1 DEF Fields
  <2> QED BY <1>0, <2>1, <2>2, FormStep
<1>4. CASE discardStaleEdits
  <2>1. /\ staleEdits' = FALSE /\ form' = Seeded(inView, loaded)
        /\ UNCHANGED <<kept, inView, loaded, saves, lists, coverChoices>>
    BY <1>4 DEF discardStaleEdits, coverVars
  <2>2. form' \in Fields /\ form'.textOf = inView
    BY <1>0, <2>1, FieldsAre
  <2> QED BY <2>1, <2>2, FormStep
<1>5. CASE save
  <2>1. /\ saves' = {[event |-> inView, fields |-> Sent(form)]}
        /\ UNCHANGED <<kept, inView, loaded, form, staleEdits, lists, coverChoices>>
    BY <1>5 DEF save, coverVars
  <2> QED BY <1>0, <2>1, FormStep
<1>6. ASSUME NEW s \in saves, failedSave(s) PROVE SettingsInv'
  <2>1. saves' = saves \ {s} /\ UNCHANGED <<kept, inView, loaded, form, staleEdits, lists, coverChoices>>
    BY <1>6 DEF failedSave, coverVars
  <2> QED BY <1>0, <2>1, FormStep
<1>7. ASSUME NEW s \in saves, saved(s) PROVE SettingsInv'
  <2>1. s.event \in Galas2 /\ s.fields \in Fields /\ (s.fields.download => s.fields.seeAll)
    BY DEF SettingsInv
  <2>2. kept[s.event] \in SettingsRow /\ kept[s.event].cover \in {NoCover, s.event} /\ kept \in [Galas2 -> SettingsRow]
    BY <2>1 DEF SettingsInv, CoverIsItsOwn
  <2>3. PICK r : r = [kept[s.event] EXCEPT !.fields = s.fields]
    OBVIOUS
  <2>4. r \in SettingsRow /\ r.fields = s.fields /\ r.cover = kept[s.event].cover
    BY <2>1, <2>2, <2>3 DEF SettingsRow
  <2>5. /\ kept' = [kept EXCEPT ![s.event].fields = s.fields] /\ loaded' = kept'[inView]
        /\ saves' \subseteq saves /\ UNCHANGED <<inView, form, staleEdits, coverVars>>
    BY <1>7 DEF saved
  <2>6. kept' = [kept EXCEPT ![s.event] = r]
    BY <2>1, <2>2, <2>3, <2>5
  <2> QED BY <2>1, <2>2, <2>4, <2>5, <2>6, StoreStep
<1>8. ASSUME NEW c \in {NoCover, coverChoices}, setCover(c) PROVE SettingsInv'
  <2>1. /\ c \in {NoCover, inView} /\ kept \in [Galas2 -> SettingsRow] /\ kept[inView] \in SettingsRow
        /\ kept[inView].fields.download => kept[inView].fields.seeAll
    BY <1>0 DEF SettingsInv, DownloadsNeedSharing
  <2>2. PICK r : r = [kept[inView] EXCEPT !.cover = c]
    OBVIOUS
  <2>3. r \in SettingsRow /\ r.fields = kept[inView].fields /\ r.cover = c
    BY <1>0, <2>1, <2>2 DEF SettingsRow
  <2>4. /\ kept' = [kept EXCEPT ![inView].cover = c] /\ loaded' = kept'[inView]
        /\ saves' \subseteq saves /\ UNCHANGED <<inView, form, staleEdits, coverVars>>
    BY <1>8 DEF setCover, formVars
  <2>5. kept' = [kept EXCEPT ![inView] = r]
    BY <1>0, <2>1, <2>2, <2>4
  <2> QED BY <1>0, <2>1, <2>3, <2>4, <2>5, StoreStep
<1>9. ASSUME NEW l \in lists, coversAnswer(l) PROVE SettingsInv'
  <2>1. /\ coverChoices' = IF l.cancelled THEN coverChoices ELSE l.event
        /\ lists' = lists \ {l} /\ UNCHANGED <<kept, inView, loaded, form, staleEdits, saves>>
    BY <1>9 DEF coversAnswer, coversListed, formVars
  <2>2. l.cancelled \in BOOLEAN
    BY DEF SettingsInv
  <2> QED BY <1>0, <2>1, <2>2, FormStep
<1>10. CASE UNCHANGED settingsVars
  BY <1>0, <1>10, FormStep DEF settingsVars
<1> QED BY <1>1, <1>2, <1>3, <1>4, <1>5, <1>6, <1>7, <1>8, <1>9, <1>10 DEF SettingsNext

(* Forms, switches and covers belong to the event in view: fields of an event    *)
(* left behind are flagged, downloads are stored only where photos are shown, and *)
(* no event gets another's photo for a cover, for any number of events, saves and *)
(* late answers (settings/+page.svelte:41).                                       *)
THEOREM SettingsFitTheirEvent ==
    SettingsSpec => [](ForeignEditsFlagged /\ DownloadsNeedSharing /\ CoverIsItsOwn)
<1>1. SettingsInit => SettingsInv
  <2> SUFFICES ASSUME SettingsInit PROVE SettingsInv
    OBVIOUS
  <2>1. \A e \in Galas2 : /\ FirstRow(e) \in SettingsRow /\ FirstRow(e).cover = NoCover
                          /\ ~ FirstRow(e).fields.download /\ FirstRow(e).fields.textOf = e
    BY SettingsConstants DEF FirstRow, SettingsRow, Fields
  <2>2. /\ kept = [e \in Galas2 |-> FirstRow(e)] /\ inView \in Galas2 /\ loaded = FirstRow(inView)
        /\ form = loaded.fields /\ staleEdits = FALSE /\ saves = {} /\ coverChoices = NoCover
        /\ lists = {[event |-> inView, cancelled |-> FALSE]}
    BY DEF SettingsInit
  <2>3. form \in Fields /\ form.textOf = inView
    BY <2>1, <2>2 DEF SettingsRow
  <2>4. kept \in [Galas2 -> SettingsRow] /\ DownloadsNeedSharing /\ CoverIsItsOwn /\ loaded \in SettingsRow
    BY <2>1, <2>2 DEF DownloadsNeedSharing, CoverIsItsOwn
  <2>5. lists \subseteq [event : Galas2, cancelled : BOOLEAN] /\ \A l \in lists : l.event = inView
    BY <2>2
  <2> QED BY <2>2, <2>3, <2>4, <2>5 DEF SettingsInv, ForeignEditsFlagged
<1>2. SettingsInv => ForeignEditsFlagged /\ DownloadsNeedSharing /\ CoverIsItsOwn
  BY DEF SettingsInv
<1> QED BY <1>1, <1>2, SettingsStep, PTL DEF SettingsSpec

-----------------------------------------------------------------------------
(* The listing *)

Orders(R, S) ==
    /\ \A x \in S : <<x, x>> \notin R
    /\ \A x, y \in S : x = y \/ <<x, y>> \in R \/ <<y, x>> \in R
    /\ \A x, y, z \in S : <<x, y>> \in R /\ <<y, z>> \in R => <<x, z>> \in R

\* A finite set in a total order can be listed in that order: an element's place is
\* the number of elements not after it, and no place is taken twice or left free.
LEMMA Ordered ==
    ASSUME NEW S, IsFiniteSet(S), NEW R, Orders(R, S)
    PROVE  \E s \in [1..Cardinality(S) -> S] :
               \A i, j \in 1..Cardinality(S) : i < j => <<s[i], s[j]>> \in R
<1> DEFINE n == Cardinality(S)
           UpTo(x) == {y \in S : y = x \/ <<y, x>> \in R}
           place == [x \in S |-> Cardinality(UpTo(x))]
<1> USE DEF Orders
<1>1. n \in Nat
  BY FS_CardinalityType
<1>2. ASSUME NEW x \in S PROVE IsFiniteSet(UpTo(x)) /\ place[x] \in 1..n
  <2>1. UpTo(x) \in SUBSET S /\ UpTo(x) # {}
    OBVIOUS
  <2>2. IsFiniteSet(UpTo(x)) /\ Cardinality(UpTo(x)) <= n
    BY <2>1, FS_Subset
  <2>3. Cardinality(UpTo(x)) \in Nat /\ Cardinality(UpTo(x)) # 0
    BY <2>1, <2>2, FS_CardinalityType, FS_EmptySet
  <2>4. place[x] = Cardinality(UpTo(x))
    OBVIOUS
  <2> HIDE DEF place, UpTo, n
  <2> QED BY <1>1, <2>2, <2>3, <2>4
<1>3. ASSUME NEW x \in S, NEW y \in S, <<x, y>> \in R PROVE place[x] < place[y]
  <2>1. UpTo(x) \in SUBSET UpTo(y)
    BY <1>3
  <2>2. y \in UpTo(y) /\ y \notin UpTo(x)
    BY <1>3
  <2>3. IsFiniteSet(UpTo(y)) /\ place[x] \in 1..n /\ place[y] \in 1..n
    BY <1>2
  <2>4. place[x] = Cardinality(UpTo(x)) /\ place[y] = Cardinality(UpTo(y))
    OBVIOUS
  <2> HIDE DEF place, UpTo, n
  <2>5. Cardinality(UpTo(x)) <= Cardinality(UpTo(y))
    BY <2>1, <2>3, FS_Subset
  <2>6. Cardinality(UpTo(y)) # Cardinality(UpTo(x))
    BY <2>1, <2>2, <2>3, FS_Subset
  <2> QED BY <1>1, <2>3, <2>4, <2>5, <2>6
<1>4. place \in Injection(S, 1..n)
  <2>1. place \in [S -> 1..n]
    BY <1>2
  <2>2. \A x, y \in S : place[x] = place[y] => x = y
    <3> HIDE DEF place, n
    <3> SUFFICES ASSUME NEW x \in S, NEW y \in S, place[x] = place[y], x # y PROVE FALSE
      OBVIOUS
    <3>1. place[x] \in 1..n /\ place[y] \in 1..n
      BY <1>2
    <3>2. place[x] < place[y] \/ place[y] < place[x]
      BY <1>3
    <3> QED BY <1>1, <3>1, <3>2
  <2> HIDE DEF place
  <2> QED BY <2>1, <2>2 DEF Injection, IsInjective
<1>5. IsFiniteSet(1..n) /\ Cardinality(1..n) = n
  BY <1>1, FS_Interval
<1>6. place \in Surjection(S, 1..n)
  <2> HIDE DEF place
  <2> QED BY <1>4, <1>5, FS_Injection
<1>7. \A i \in 1..n : \E x \in S : place[x] = i
  <2> HIDE DEF place
  <2> QED BY <1>6 DEF Surjection
<1> DEFINE s == [i \in 1..n |-> CHOOSE x \in S : place[x] = i]
<1>8. s \in [1..n -> S] /\ \A i \in 1..n : place[s[i]] = i
  <2> HIDE DEF place
  <2> QED BY <1>7
<1>9. ASSUME NEW i \in 1..n, NEW j \in 1..n, i < j PROVE <<s[i], s[j]>> \in R
  <2> HIDE DEF place, s
  <2>1. s[i] \in S /\ s[j] \in S /\ place[s[i]] = i /\ place[s[j]] = j
    BY <1>8
  <2>2. s[i] # s[j] /\ <<s[j], s[i]>> \notin R
    BY <1>1, <1>3, <1>9, <2>1
  <2> QED BY <2>1, <2>2
<1> HIDE DEF s, place
<1> QED BY <1>8, <1>9

\* A list as long as a finite set, with no element twice, leaves none of them out.
LEMMA NoneLeftOut ==
    ASSUME NEW S, IsFiniteSet(S), NEW s \in [1..Cardinality(S) -> S],
           \A i, j \in 1..Cardinality(S) : s[i] = s[j] => i = j
    PROVE  \A x \in S : \E i \in 1..Cardinality(S) : s[i] = x
<1> DEFINE n == Cardinality(S)
<1>1. n \in Nat
  BY FS_CardinalityType
<1>2. IsFiniteSet(1..n) /\ Cardinality(1..n) = n
  BY <1>1, FS_Interval
<1>3. s \in Injection(1..n, S)
  BY DEF Injection, IsInjective
<1>4. s \in Surjection(1..n, S)
  BY <1>2, <1>3, FS_Injection
<1> QED BY <1>4 DEF Surjection

Instants == CaptureDates \cup {NULL}
PhotoRow == [state : {"absent", "stored", "processed", "deleted"}, capturedAt : Instants]
AssetRow == [id : Photos, finished : BOOLEAN]
CursorRow == [at : Nat \cup {NULL}, id : Nat]
Listed(s, p) == \E i \in 1..Len(s) : s[i].id = p

\* A photo has no date before its derivatives are made, and one of earlier uploads has
\* its row.
ListingInv ==
    /\ photo \in [Photos -> PhotoRow] /\ dated \subseteq Photos
    /\ \A p \in Photos \ Uploads : photo[p].state # "absent"
    /\ \A p \in Photos : photo[p].state \in {"absent", "stored"} => photo[p].capturedAt = NULL

\* The date of a photo moves only when it is noted, and one that is deleted stays so.
PhotosMoved ==
    /\ ListingInv' /\ dated \subseteq dated'
    /\ \A p \in Photos \ Uploads : Present(p)' => Present(p)
    /\ \A p \in Photos \ dated' : photo'[p].capturedAt = photo[p].capturedAt

\* Numbers of the listing.
LEMMA ListingNumbers ==
    /\ \A p \in Photos : p \in Nat \ {0}
    /\ \A d \in CaptureDates : d \in Nat \ {0}
    /\ IsFiniteSet(Photos) /\ PageLimit \in Nat \ {0} /\ NULL = -1 /\ Epoch = 0
BY ListingConstants DEF NULL, Epoch

\* The dates of photos are numbers, the missing one below them all.
LEMMA DatesAreNumbers ==
    ASSUME ListingInv, NEW p \in Photos
    PROVE  photo[p].capturedAt \in Int /\ (photo[p].capturedAt = NULL \/ photo[p].capturedAt \in Nat \ {0})
<1>1. photo[p].capturedAt \in Instants
  BY DEF ListingInv, PhotoRow
<1> QED BY <1>1, ListingNumbers DEF Instants

\* An upload that lands, a file that is processed and a deletion.
LEMMA PhotoMoves ==
    ASSUME ListingInv, NEW p \in Photos,
           \/ photo[p].state = "absent" /\ Stored(p) /\ UNCHANGED dated
           \/ AssetProcess(p) \/ Delete(p)
    PROVE  PhotosMoved
<1> USE DEF ListingInv
<1>1. photo[p] \in PhotoRow /\ photo \in [Photos -> PhotoRow]
  OBVIOUS
<1>2. ASSUME NEW r \in PhotoRow, photo' = [photo EXCEPT ![p] = r], dated \subseteq dated', dated' \subseteq Photos,
             r.state \in {"absent", "stored"} => r.capturedAt = NULL,
             p \in dated' \/ r.capturedAt = photo[p].capturedAt,
             r.state # "absent", p \in Uploads \/ r.state = "deleted" \/ Present(p)
      PROVE  PhotosMoved
  BY <1>1, <1>2 DEF PhotosMoved, Present
<1>3. CASE photo[p].state = "absent" /\ Stored(p) /\ UNCHANGED dated
  <2>1. [state |-> "stored", capturedAt |-> NULL] \in PhotoRow
    BY DEF PhotoRow, Instants
  <2> QED BY <1>1, <1>2, <1>3, <2>1 DEF Stored
<1>4. CASE AssetProcess(p)
  <2>1. PICK d \in CaptureDates \cup {NULL} :
            /\ photo' = [photo EXCEPT ![p] = [state |-> "processed", capturedAt |-> d]]
            /\ dated' = IF d = NULL THEN dated ELSE dated \cup {p}
    BY <1>4 DEF AssetProcess
  <2>2. [state |-> "processed", capturedAt |-> d] \in PhotoRow
    BY DEF PhotoRow, Instants
  <2>3. photo[p].capturedAt = NULL /\ Present(p)
    BY <1>4 DEF AssetProcess, Present
  <2> QED BY <1>2, <2>1, <2>2, <2>3
<1>5. CASE Delete(p)
  <2>1. PICK r : r = [photo[p] EXCEPT !.state = "deleted"]
    OBVIOUS
  <2>2. r \in PhotoRow /\ r.state = "deleted" /\ r.capturedAt = photo[p].capturedAt
    BY <1>1, <2>1 DEF PhotoRow
  <2>3. photo' = [photo EXCEPT ![p] = r]
    BY <1>1, <1>5, <2>1 DEF Delete
  <2> QED BY <1>2, <1>5, <2>2, <2>3 DEF Delete
<1> QED BY <1>3, <1>4, <1>5

\* At first no photo has moved.
LEMMA ListingStart == ListingInit => ListingInv
BY DEF ListingInit, ListingInv, PhotoRow, Instants

\* The rows found can be sorted: each once, and none left out.
LEMMA SortedRows ==
    ASSUME ListingInv, NEW found \in SUBSET Photos
    PROVE  /\ Cardinality(found) \in Nat
           /\ Sorted(found) \in [1..Cardinality(found) -> found]
           /\ \A i, j \in 1..Cardinality(found) : i < j => Before(Sorted(found)[i], Sorted(found)[j])
           /\ \A p \in found : \E i \in 1..Cardinality(found) : Sorted(found)[i] = p
<1> DEFINE n == Cardinality(found)
           R == {x \in found \X found : Before(x[1], x[2])}
<1>1. IsFiniteSet(found) /\ n \in Nat
  BY ListingNumbers, FS_Subset, FS_CardinalityType
<1>2. \A p \in found : /\ p \in Nat /\ photo[p].capturedAt \in Int
                       /\ photo[p].capturedAt = NULL \/ photo[p].capturedAt > 0
  BY DatesAreNumbers, ListingNumbers
<1>3. \A p, q \in found : <<p, q>> \in R <=> Before(p, q)
  OBVIOUS
<1>4. Orders(R, found)
  <2> HIDE DEF R
  <2>1. \A x \in found : ~ Before(x, x)
    BY <1>2 DEF Before
  <2>2. \A x, y \in found : x = y \/ Before(x, y) \/ Before(y, x)
    BY <1>2 DEF Before
  <2>3. \A x, y, z \in found : Before(x, y) /\ Before(y, z) => Before(x, z)
    BY <1>2 DEF Before
  <2> QED BY <1>3, <2>1, <2>2, <2>3 DEF Orders
<1>5. \E s \in [1..n -> found] : \A i, j \in 1..n : i < j => <<s[i], s[j]>> \in R
  <2> HIDE DEF R
  <2> QED BY <1>1, <1>4, Ordered
<1>6. \E s \in [1..n -> found] : \A i, j \in DOMAIN s : i < j => Before(s[i], s[j])
  <2> HIDE DEF R, n
  <2> QED BY <1>3, <1>5
<1>7. Sorted(found) \in [1..n -> found] /\ \A i, j \in DOMAIN Sorted(found) : i < j => Before(Sorted(found)[i], Sorted(found)[j])
  <2>1. Sorted(found) = CHOOSE s \in [1..n -> found] : \A i, j \in DOMAIN s : i < j => Before(s[i], s[j])
    BY DEF Sorted
  <2> HIDE DEF R, n
  <2> QED BY <1>6, <2>1
<1>8. \A i, j \in 1..n : i < j => Before(Sorted(found)[i], Sorted(found)[j])
  <2> HIDE DEF n
  <2> QED BY <1>7
<1>9. \A i, j \in 1..n : Sorted(found)[i] = Sorted(found)[j] => i = j
  <2> HIDE DEF n, R
  <2> SUFFICES ASSUME NEW i \in 1..n, NEW j \in 1..n, i # j, Sorted(found)[i] = Sorted(found)[j] PROVE FALSE
    OBVIOUS
  <2>1. Before(Sorted(found)[i], Sorted(found)[i])
    BY <1>1, <1>8
  <2>2. Sorted(found)[i] \in found
    BY <1>7
  <2> QED BY <1>2, <2>1, <2>2 DEF Before
<1>10. \A p \in found : \E i \in 1..n : Sorted(found)[i] = p
  BY <1>1, <1>7, <1>9, NoneLeftOut
<1> HIDE DEF n, R
<1> QED BY <1>1, <1>7, <1>8, <1>10 DEF n

\* What a page holds, and what its cursor stands for.
LEMMA PageHolds ==
    ASSUME ListingInv, NEW found \in SUBSET Photos
    PROVE  LET page == Page(found) IN
           /\ page.assets \in Seq(AssetRow) /\ page.next \in CursorRow
           /\ \A i \in 1..Len(page.assets) : page.assets[i].id \in found
           /\ \A i, j \in 1..Len(page.assets) : page.assets[i].id = page.assets[j].id => i = j
           /\ page.next = NoCursor => \A p \in found : Listed(page.assets, p)
           /\ page.next # NoCursor =>
                  /\ page.next.id \in found /\ page.next.at = photo[page.next.id].capturedAt
                  /\ \A i \in 1..Len(page.assets) :
                         page.assets[i].id = page.next.id \/ Before(page.assets[i].id, page.next.id)
                  /\ \A p \in found : Listed(page.assets, p) \/ Before(page.next.id, p)
<1> DEFINE sorted == Sorted(found)
           n == Cardinality(found)
           hasMore == n > PageLimit
           m == IF hasMore THEN PageLimit ELSE n
           page == SubSeq(sorted, 1, m)
           assets == [i \in DOMAIN page |-> [id |-> page[i], finished |-> photo[page[i]].state = "processed"]]
<1>1. /\ n \in Nat /\ sorted \in [1..n -> found]
      /\ \A i, j \in 1..n : i < j => Before(sorted[i], sorted[j])
      /\ \A p \in found : \E i \in 1..n : sorted[i] = p
  BY SortedRows
<1>2. m \in Nat /\ m <= n /\ (hasMore => m > 0 /\ m = PageLimit) /\ (~ hasMore => m = n) /\ (m < n => hasMore)
  <2> HIDE DEF sorted, n
  <2> QED BY <1>1, ListingNumbers
<1>3. sorted \in Seq(found) /\ Len(sorted) = n
  <2> HIDE DEF sorted, n
  <2> QED BY <1>1
<1>4. Page(found) = [assets |-> assets,
                     next |-> IF hasMore THEN [at |-> photo[Last(page)].capturedAt, id |-> Last(page)] ELSE NoCursor]
  BY <1>3 DEF Page
<1> HIDE DEF sorted, n, hasMore, m
<1>5. page \in Seq(found) /\ Len(page) = m /\ DOMAIN page = 1..m /\ \A i \in 1..m : page[i] = sorted[i]
  BY <1>1, <1>2, <1>3
<1> HIDE DEF page
<1>6. \A i \in 1..m : sorted[i] \in found /\ sorted[i] \in Photos
  BY <1>1, <1>2
<1>7. /\ \A i \in 1..m : assets[i].id = sorted[i]
      /\ assets \in [1..m -> AssetRow]
  BY <1>5, <1>6 DEF AssetRow
<1> HIDE DEF assets
<1>8. assets \in Seq(AssetRow) /\ Len(assets) = m
  BY <1>2, <1>7
<1>9. \A i \in 1..n : sorted[i] \in Nat /\ photo[sorted[i]].capturedAt \in Int /\ ~ Before(sorted[i], sorted[i])
  <2> TAKE i \in 1..n
  <2>1. sorted[i] \in Photos
    BY <1>1
  <2>2. sorted[i] \in Nat /\ photo[sorted[i]].capturedAt \in Int
    BY <2>1, DatesAreNumbers, ListingNumbers
  <2> QED BY <2>2 DEF Before
<1>10. \A i, j \in 1..m : assets[i].id = assets[j].id => i = j
  <2> SUFFICES ASSUME NEW i \in 1..m, NEW j \in 1..m, sorted[i] = sorted[j], i # j PROVE FALSE
    BY <1>7
  <2>1. i \in 1..n /\ j \in 1..n /\ (i < j \/ j < i)
    BY <1>1, <1>2
  <2> QED BY <1>1, <1>9, <2>1
<1>11. \A p \in found : (\E i \in 1..m : assets[i].id = p) \/ \E i \in 1..n : i > m /\ sorted[i] = p
  <2> TAKE p \in found
  <2>1. PICK i \in 1..n : sorted[i] = p
    BY <1>1
  <2>2. i \in 1..m \/ i > m
    BY <1>1, <1>2
  <2> QED BY <1>7, <2>1, <2>2
<1>12. CASE hasMore
  <2>1. m \in 1..m /\ m \in 1..n
    BY <1>1, <1>2, <1>12
  <2>2. Last(page) = sorted[m]
    BY <1>5, <2>1 DEF Last
  <2>3. /\ sorted[m] \in found /\ sorted[m] \in Photos /\ sorted[m] \in Nat \ {0}
        /\ photo[sorted[m]].capturedAt \in Nat \cup {NULL}
    BY <1>6, <2>1, ListingNumbers, DatesAreNumbers
  <2>4. PICK next_ : next_ = [at |-> photo[sorted[m]].capturedAt, id |-> sorted[m]]
    OBVIOUS
  <2>5. next_ \in CursorRow /\ next_.id = sorted[m] /\ next_.at = photo[sorted[m]].capturedAt /\ next_ # NoCursor
    BY <2>3, <2>4 DEF CursorRow, NoCursor
  <2>6. Page(found).assets = assets /\ Page(found).next = next_
    BY <1>4, <1>12, <2>2, <2>4
  <2>7. \A i \in 1..m : assets[i].id = sorted[m] \/ Before(assets[i].id, sorted[m])
    <3> TAKE i \in 1..m
    <3>1. i = m \/ (i < m /\ i \in 1..n)
      BY <1>1, <1>2
    <3> QED BY <1>1, <1>7, <2>1, <3>1
  <2>8. \A p \in found : (\E i \in 1..m : assets[i].id = p) \/ Before(sorted[m], p)
    BY <1>1, <1>2, <1>11, <2>1
  <2>9. \A i \in 1..m : assets[i].id \in found
    BY <1>6, <1>7
  <2> QED BY <1>8, <1>10, <2>3, <2>5, <2>6, <2>7, <2>8, <2>9 DEF Listed
<1>13. CASE ~ hasMore
  <2>1. Page(found).assets = assets /\ Page(found).next = NoCursor
    BY <1>4, <1>13
  <2>2. NoCursor \in CursorRow
    BY DEF NoCursor, CursorRow
  <2>3. \A p \in found : \E i \in 1..m : assets[i].id = p
    BY <1>1, <1>2, <1>11, <1>13
  <2>4. \A i \in 1..m : assets[i].id \in found
    BY <1>6, <1>7
  <2> QED BY <1>8, <1>10, <2>1, <2>2, <2>3, <2>4 DEF Listed
<1> QED BY <1>12, <1>13

-----------------------------------------------------------------------------
(* The page of an event *)

AssetList == Seq(AssetRow)
PageOfRows == [assets : AssetList, next : CursorRow]
AskRow == [kind : {"refresh", "more"}, event : Albums, cursor : CursorRow,
           read : BOOLEAN, page : PageOfRows, busy : BOOLEAN]

\* The photo with a date that comes after a cursor's place, as list() compares it.
Beyond(p, c) == Past(p, IF c.at = NULL THEN Epoch ELSE c.at, c.id)
\* No photo twice, and none after the cursor, unless its date was noted meanwhile.
OnceIn(s) == \A i, j \in 1..Len(s) : i # j /\ s[i].id = s[j].id => s[i].id \in dated
UpTo(s, c) == \A i \in 1..Len(s) : s[i].id \in dated \/ ~ Beyond(s[i].id, c)
OfEvent(s, e) == \A i \in 1..Len(s) : AlbumOf[s[i].id] = e
Awaited(s) == \A i \in 1..Len(s) : ~ s[i].finished => pollTimer \/ s[i].id \in appended

\* The place of a cursor among those of another, where the comparison finds any.
Behind(n, c) ==
    n.at = NULL \/ LET at == IF c.at = NULL THEN Epoch ELSE c.at IN n.at < at \/ (n.at = at /\ n.id < c.id)

\* A page that was read holds photos of the event it was asked for, each once, after
\* the cursor it was asked with and up to its own.
ReadPage(r) ==
    /\ OnceIn(r.page.assets) /\ UpTo(r.page.assets, r.page.next) /\ OfEvent(r.page.assets, r.event)
    /\ r.kind = "more" =>
           /\ \A i \in 1..Len(r.page.assets) :
                  r.page.assets[i].id \in dated \/ Beyond(r.page.assets[i].id, r.cursor)
           /\ Behind(r.page.next, r.cursor)

AskOk(r) ==
    r # NoAsk => (r.kind = "more" => r.cursor # NoCursor) /\ (r.read => ReadPage(r))

EventPageTypes ==
    /\ view \in Albums /\ shown \in AssetList /\ nextCursor \in CursorRow /\ pollTimer \in BOOLEAN
    /\ ask \in [Asks -> AskRow \cup {NoAsk}] /\ uploading \subseteq Photos /\ fresh \subseteq Photos
    /\ appended \subseteq Photos /\ tangled \in BOOLEAN /\ late \in BOOLEAN

\* A page left while it waited for nothing asks for nothing.
LeftInv == left = "quiet" => /\ ~ pollTimer /\ fresh = {} /\ uploading = {}
                             /\ \A a \in Asks : ask[a] = NoAsk

EventPageInv ==
    /\ ListingInv /\ EventPageTypes
    /\ \A p \in uploading \cup fresh : p \in dated \/ ~ Dated(p)
    /\ \A a \in Asks : AskOk(ask[a])
    /\ tangled \/ (OnceIn(shown) /\ UpTo(shown, nextCursor))
    /\ late \/ OfEvent(shown, view)
    /\ left # "no" \/ Awaited(shown)
    /\ LeftInv

\* A list after another: where its rows come from.
LEMMA Appended ==
    ASSUME NEW T, NEW s \in Seq(T), NEW t \in Seq(T)
    PROVE  /\ s \o t \in Seq(T)
           /\ \A i \in 1..Len(s \o t) :
                  \/ i \in 1..Len(s) /\ (s \o t)[i] = s[i]
                  \/ i > Len(s) /\ i - Len(s) \in 1..Len(t) /\ (s \o t)[i] = t[i - Len(s)]
<1>1. /\ s \o t \in Seq(T) /\ Len(s \o t) = Len(s) + Len(t)
      /\ Len(s) \in Nat /\ Len(t) \in Nat
  OBVIOUS
<1>2. \A i \in 1..Len(s) : (s \o t)[i] = s[i]
  OBVIOUS
<1>3. \A i \in 1..Len(t) : (s \o t)[Len(s) + i] = t[i]
  OBVIOUS
<1>4. ASSUME NEW i \in 1..Len(s \o t)
      PROVE  \/ i \in 1..Len(s) /\ (s \o t)[i] = s[i]
             \/ i > Len(s) /\ i - Len(s) \in 1..Len(t) /\ (s \o t)[i] = t[i - Len(s)]
  <2>1. i \in 1..Len(s) \/ (i > Len(s) /\ i - Len(s) \in 1..Len(t) /\ i = Len(s) + (i - Len(s)))
    BY <1>1
  <2>2. CASE i \in 1..Len(s)
    BY <1>2, <2>2
  <2>3. CASE i > Len(s) /\ i - Len(s) \in 1..Len(t) /\ i = Len(s) + (i - Len(s))
    <3>1. (s \o t)[Len(s) + (i - Len(s))] = t[i - Len(s)]
      BY <1>3, <2>3
    <3> QED BY <2>3, <3>1
  <2> QED BY <2>1, <2>2, <2>3
<1> QED BY <1>1, <1>4

\* Each photo is once in two lists one after the other if it is in each and not in both.
LEMMA OnceAppended ==
    ASSUME NEW s \in AssetList, NEW t \in AssetList, OnceIn(s), OnceIn(t),
           \A i \in 1..Len(s), j \in 1..Len(t) : s[i].id = t[j].id => s[i].id \in dated
    PROVE  OnceIn(s \o t)
<1> DEFINE h == s \o t
<1> SUFFICES ASSUME NEW i \in 1..Len(h), NEW j \in 1..Len(h), i # j, h[i].id = h[j].id
             PROVE  h[i].id \in dated
  BY DEF OnceIn
<1>1. \A k \in 1..Len(h) : \/ k \in 1..Len(s) /\ h[k] = s[k]
                           \/ k > Len(s) /\ k - Len(s) \in 1..Len(t) /\ h[k] = t[k - Len(s)]
  BY Appended DEF AssetList
<1>2. Len(s) \in Nat /\ i \in Int /\ j \in Int
  BY DEF AssetList
<1> HIDE DEF h
<1>3. CASE i \in 1..Len(s) /\ h[i] = s[i]
  <2>1. CASE j \in 1..Len(s) /\ h[j] = s[j]
    BY <1>3, <2>1 DEF OnceIn
  <2>2. CASE j > Len(s) /\ j - Len(s) \in 1..Len(t) /\ h[j] = t[j - Len(s)]
    BY <1>3, <2>2
  <2> QED BY <1>1, <2>1, <2>2
<1>4. CASE i > Len(s) /\ i - Len(s) \in 1..Len(t) /\ h[i] = t[i - Len(s)]
  <2>1. CASE j \in 1..Len(s) /\ h[j] = s[j]
    BY <1>4, <2>1
  <2>2. CASE j > Len(s) /\ j - Len(s) \in 1..Len(t) /\ h[j] = t[j - Len(s)]
    <3>1. i - Len(s) # j - Len(s)
      BY <1>2
    <3> QED BY <1>4, <2>2, <3>1 DEF OnceIn
  <2> QED BY <1>1, <2>1, <2>2
<1> QED BY <1>1, <1>3, <1>4

\* The tiles of a set of uploads.
LEMMA Tiles ==
    ASSUME NEW S \in SUBSET Photos
    PROVE  LET t == [i \in DOMAIN SetToSeq(S) |-> [id |-> SetToSeq(S)[i], finished |-> FALSE]] IN
           /\ t \in AssetList
           /\ \A i \in 1..Len(t) : t[i].id \in S
           /\ \A i, j \in 1..Len(t) : i # j => t[i].id # t[j].id
<1> DEFINE n == Cardinality(S)
           s == SetToSeq(S)
           t == [i \in DOMAIN s |-> [id |-> s[i], finished |-> FALSE]]
<1>1. IsFiniteSet(S) /\ n \in Nat /\ ExistsBijection(1..n, S)
  BY ListingNumbers, FS_Subset, FS_CardinalityType
<1>2. \E f \in [1..n -> S] : IsInjective(f)
  BY <1>1 DEF ExistsBijection, Bijection, Injection
<1>3. s = CHOOSE f \in [1..n -> S] : IsInjective(f)
  BY DEF SetToSeq
<1>4. s \in [1..n -> S] /\ IsInjective(s)
  <2> HIDE DEF n
  <2> QED BY <1>2, <1>3
<1> HIDE DEF s, n
<1>5. DOMAIN s = 1..n /\ \A i, j \in 1..n : s[i] = s[j] => i = j
  BY <1>4 DEF IsInjective
<1>6. t \in [1..n -> AssetRow] /\ \A i \in 1..n : t[i].id = s[i]
  BY <1>4, <1>5 DEF AssetRow
<1> HIDE DEF t
<1>7. t \in AssetList /\ Len(t) = n
  BY <1>1, <1>6 DEF AssetList
<1>8. (\A i \in 1..n : t[i].id \in S) /\ \A i, j \in 1..n : i # j => t[i].id # t[j].id
  BY <1>4, <1>5, <1>6
<1> QED BY <1>7, <1>8 DEF t, s

\* What adopting the fresh uploads adds to a list.
LEMMA Adopted ==
    ASSUME EventPageInv, NEW l \in AssetList, NEW c \in CursorRow
    PROVE  /\ adoptFresh(l) \in AssetList
           /\ OnceIn(l) => OnceIn(adoptFresh(l))
           /\ UpTo(l, c) => UpTo(adoptFresh(l), c)
           /\ OfEvent(l, view) => OfEvent(adoptFresh(l), view)
<1> DEFINE S == {p \in fresh : AlbumOf[p] = view} \ Ids(l)
           t == [i \in DOMAIN SetToSeq(S) |-> [id |-> SetToSeq(S)[i], finished |-> FALSE]]
<1>1. adoptFresh(l) = t \o l
  BY DEF adoptFresh
<1>2. S \in SUBSET Photos
  BY DEF EventPageInv, EventPageTypes
<1>3. /\ t \in AssetList /\ \A i \in 1..Len(t) : t[i].id \in S
      /\ \A i, j \in 1..Len(t) : i # j => t[i].id # t[j].id
  <2> HIDE DEF S
  <2> QED BY <1>2, Tiles
<1>4. \A i \in 1..Len(l) : l[i].id \notin S
  <2>1. DOMAIN l = 1..Len(l)
    BY DEF AssetList
  <2> QED BY <2>1 DEF Ids
<1>5. \A p \in S : p \in fresh /\ AlbumOf[p] = view
  OBVIOUS
<1>6. \A p \in S : p \in dated \/ ~ Beyond(p, c)
  BY <1>5 DEF EventPageInv, EventPageTypes, Beyond, Past
<1> HIDE DEF t, S
<1>7. t \o l \in AssetList
  BY <1>3, Appended DEF AssetList
<1>8. ASSUME OnceIn(l) PROVE OnceIn(t \o l)
  <2>1. OnceIn(t)
    BY <1>3 DEF OnceIn
  <2> QED BY <1>3, <1>4, <1>8, <2>1, OnceAppended
<1>9. \A i \in 1..Len(t \o l) : (\E j \in 1..Len(t) : (t \o l)[i] = t[j]) \/ \E j \in 1..Len(l) : (t \o l)[i] = l[j]
  BY <1>3, Appended DEF AssetList
<1>10. ASSUME UpTo(l, c) PROVE UpTo(t \o l, c)
  BY <1>3, <1>6, <1>9, <1>10 DEF UpTo
<1>11. ASSUME OfEvent(l, view) PROVE OfEvent(t \o l, view)
  BY <1>3, <1>5, <1>9, <1>11 DEF OfEvent
<1> QED BY <1>1, <1>7, <1>8, <1>10, <1>11

\* Nothing lies past a cursor without a date, and what lies past a cursor lies past
\* those it is behind.
LEMMA BeyondCursors ==
    ASSUME ListingInv, NEW p \in Photos, NEW n \in CursorRow, NEW c \in CursorRow
    PROVE  /\ n.at = NULL => ~ Beyond(p, n)
           /\ Behind(n, c) /\ Beyond(p, n) => Beyond(p, c)
<1>1. /\ p \in Nat \ {0} /\ photo[p].capturedAt \in Int
      /\ photo[p].capturedAt = NULL \/ photo[p].capturedAt > 0
  BY DatesAreNumbers, ListingNumbers
<1>2. n.at \in Int /\ n.id \in Nat /\ c.at \in Int /\ c.id \in Nat /\ NULL = -1 /\ Epoch = 0
  BY ListingNumbers DEF CursorRow
<1>3. ASSUME n.at = NULL PROVE ~ Beyond(p, n)
  BY <1>1, <1>2, <1>3 DEF Beyond, Past, Dated
<1>4. ASSUME Behind(n, c), Beyond(p, n) PROVE Beyond(p, c)
  <2>1. n.at # NULL
    BY <1>3, <1>4
  <2> QED BY <1>1, <1>2, <1>4, <2>1 DEF Beyond, Behind, Past
<1> QED BY <1>3, <1>4

\* The page of an event after a cursor.
LEMMA PageRead ==
    ASSUME ListingInv, NEW e \in Albums, NEW c \in CursorRow
    PROVE  LET page == list(e, c) IN
           /\ page \in PageOfRows
           /\ OnceIn(page.assets) /\ UpTo(page.assets, page.next) /\ OfEvent(page.assets, e)
           /\ c # NoCursor =>
                  /\ \A i \in 1..Len(page.assets) : Beyond(page.assets[i].id, c)
                  /\ Behind(page.next, c)
<1> DEFINE found == {p \in Photos : /\ Present(p) /\ AlbumOf[p] = e
                                    /\ c = NoCursor \/ Beyond(p, c)}
           page == list(e, c)
<1>1. page = Page(found)
  BY DEF list, Beyond
<1>2. found \in SUBSET Photos
  OBVIOUS
<1>3. \A p \in found : AlbumOf[p] = e /\ (c # NoCursor => Beyond(p, c))
  OBVIOUS
<1> HIDE DEF found
<1>4. /\ page.assets \in Seq(AssetRow) /\ page.next \in CursorRow
      /\ \A i \in 1..Len(page.assets) : page.assets[i].id \in found
      /\ \A i, j \in 1..Len(page.assets) : page.assets[i].id = page.assets[j].id => i = j
      /\ page.next # NoCursor =>
             /\ page.next.id \in found /\ page.next.at = photo[page.next.id].capturedAt
             /\ \A i \in 1..Len(page.assets) :
                    page.assets[i].id = page.next.id \/ Before(page.assets[i].id, page.next.id)
  BY <1>1, <1>2, PageHolds
<1>5. page \in PageOfRows
  <2>1. \E r, n : page = [assets |-> r, next |-> n]
    BY <1>1 DEF Page
  <2> HIDE DEF page
  <2> QED BY <1>4, <2>1 DEF PageOfRows, AssetList
<1> HIDE DEF page
<1>6. OnceIn(page.assets) /\ OfEvent(page.assets, e)
  BY <1>3, <1>4 DEF OnceIn, OfEvent
<1>7. NoCursor.at = NULL
  BY DEF NoCursor
<1>8. UpTo(page.assets, page.next)
  <2> SUFFICES ASSUME NEW i \in 1..Len(page.assets) PROVE ~ Beyond(page.assets[i].id, page.next)
    BY DEF UpTo
  <2>1. page.assets[i].id \in Photos
    BY <1>2, <1>4
  <2>2. CASE page.next.at = NULL
    BY <1>4, <2>1, <2>2, BeyondCursors
  <2>3. CASE page.next.at # NULL
    <3>1. page.next # NoCursor
      BY <1>7, <2>3
    <3>2. page.next.id \in Photos /\ page.next.at = photo[page.next.id].capturedAt
      BY <1>2, <1>4, <3>1
    <3>3. page.assets[i].id = page.next.id \/ Before(page.assets[i].id, page.next.id)
      BY <1>4, <3>1
    <3> QED
      BY <2>1, <2>3, <3>2, <3>3, DatesAreNumbers, ListingNumbers DEF Beyond, Past, Before, Dated
  <2> QED BY <2>2, <2>3
<1>9. ASSUME c # NoCursor PROVE Behind(page.next, c)
  <2>1. CASE page.next.at = NULL
    BY <2>1 DEF Behind
  <2>2. CASE page.next.at # NULL
    <3>1. page.next.id \in found /\ page.next.at = photo[page.next.id].capturedAt
      BY <1>4, <1>7, <2>2
    <3>2. Beyond(page.next.id, c)
      BY <1>3, <1>9, <3>1
    <3> QED BY <3>1, <3>2 DEF Beyond, Past, Behind
  <2> QED BY <2>1, <2>2
<1>10. c # NoCursor => \A i \in 1..Len(page.assets) : Beyond(page.assets[i].id, c)
  BY <1>3, <1>4
<1> QED BY <1>5, <1>6, <1>8, <1>9, <1>10 DEF page

\* The rows of a list are of photos.
LEMMA RowsOfList ==
    ASSUME NEW s \in AssetList
    PROVE  \A i \in 1..Len(s) : s[i].id \in Photos
<1> TAKE i \in 1..Len(s)
<1>1. s[i] \in AssetRow
  BY DEF AssetList
<1> QED BY <1>1 DEF AssetRow

\* While photos move, a list keeps what it holds.
LEMMA ListKept ==
    ASSUME PhotosMoved, NEW s \in AssetList, NEW c \in CursorRow
    PROVE  /\ OnceIn(s) => OnceIn(s)'
           /\ UpTo(s, c) => UpTo(s, c)'
           /\ \A p \in Photos : (p \in dated \/ ~ Dated(p)) => (p \in dated' \/ ~ Dated(p)')
           /\ \A p \in Photos : (p \in dated \/ Beyond(p, c)) => (p \in dated' \/ Beyond(p, c)')
<1>1. \A i \in 1..Len(s) : s[i].id \in Photos
  BY RowsOfList
<1>2. dated \subseteq dated' /\ \A p \in Photos \ dated' : photo'[p].capturedAt = photo[p].capturedAt
  BY DEF PhotosMoved
<1>3. OnceIn(s) => OnceIn(s)'
  BY <1>2 DEF OnceIn
<1>4. UpTo(s, c) => UpTo(s, c)'
  BY <1>1, <1>2 DEF UpTo, Beyond, Past, Dated
<1>5. \A p \in Photos : (p \in dated \/ ~ Dated(p)) => (p \in dated' \/ ~ Dated(p)')
  BY <1>2 DEF Dated
<1>6. \A p \in Photos : (p \in dated \/ Beyond(p, c)) => (p \in dated' \/ Beyond(p, c)')
  BY <1>2 DEF Beyond, Past, Dated
<1> QED BY <1>3, <1>4, <1>5, <1>6

\* So does a request of the page with what it has read.
LEMMA AskKept ==
    ASSUME PhotosMoved, NEW r \in AskRow \cup {NoAsk}, AskOk(r)
    PROVE  AskOk(r)'
<1> SUFFICES ASSUME r # NoAsk, r.read PROVE ReadPage(r)'
  BY DEF AskOk
<1>1. r.page.assets \in AssetList /\ r.page.next \in CursorRow /\ r.cursor \in CursorRow
  BY DEF AskRow, PageOfRows
<1>2. ReadPage(r)
  BY DEF AskOk
<1>3. \A i \in 1..Len(r.page.assets) : r.page.assets[i].id \in Photos
  BY <1>1, RowsOfList
<1>4. OnceIn(r.page.assets)' /\ UpTo(r.page.assets, r.page.next)' /\ OfEvent(r.page.assets, r.event)'
  BY <1>1, <1>2, ListKept DEF ReadPage, OfEvent
<1>5. ASSUME r.kind = "more"
      PROVE  /\ \A i \in 1..Len(r.page.assets) :
                    r.page.assets[i].id \in dated' \/ Beyond(r.page.assets[i].id, r.cursor)'
             /\ Behind(r.page.next, r.cursor)
  BY <1>1, <1>2, <1>3, <1>5, ListKept DEF ReadPage
<1> QED BY <1>4, <1>5 DEF ReadPage, Behind

\* One request changes, or none.
LEMMA AsksKept ==
    ASSUME EventPageInv, PhotosMoved, NEW a \in Asks, NEW r \in AskRow \cup {NoAsk},
           ask' = [ask EXCEPT ![a] = r], AskOk(r)'
    PROVE  ask' \in [Asks -> AskRow \cup {NoAsk}] /\ \A b \in Asks : AskOk(ask[b])'
<1>1. ask \in [Asks -> AskRow \cup {NoAsk}] /\ \A b \in Asks : AskOk(ask[b])
  BY DEF EventPageInv, EventPageTypes
<1>2. ASSUME NEW b \in Asks PROVE AskOk(ask[b])'
  <2>1. PICK q : q = ask'[b]
    OBVIOUS
  <2>2. CASE b = a
    <3>1. q = r
      BY <1>1, <2>1, <2>2
    <3> QED BY <2>1, <3>1 DEF AskOk, ReadPage
  <2>3. CASE b # a
    <3>1. q = ask[b] /\ q \in AskRow \cup {NoAsk}
      BY <1>1, <2>1, <2>3
    <3>2. AskOk(q)
      BY <1>1, <3>1
    <3>3. AskOk(q)'
      BY <3>1, <3>2, AskKept
    <3> QED BY <2>1, <3>3 DEF AskOk, ReadPage
  <2> QED BY <2>2, <2>3
<1> QED BY <1>1, <1>2

\* A photo moves while the page stays as it is.
LEMMA PageRests ==
    ASSUME EventPageInv, PhotosMoved,
           UNCHANGED <<view, shown, nextCursor, pollTimer, ask, uploading, fresh, appended, tangled, late, left>>
    PROVE  EventPageInv'
<1>1. ListingInv' /\ EventPageTypes'
  BY DEF PhotosMoved, EventPageInv, EventPageTypes
<1>2. PICK s, c, q : s = shown /\ c = nextCursor /\ q = ask
  OBVIOUS
<1>3. s \in AssetList /\ c \in CursorRow /\ q \in [Asks -> AskRow \cup {NoAsk}] /\ uploading \cup fresh \subseteq Photos
  BY <1>2 DEF EventPageInv, EventPageTypes
<1>4. \A p \in (uploading \cup fresh)' : p \in dated' \/ ~ Dated(p)'
  <2>1. (uploading \cup fresh)' = uploading \cup fresh
    OBVIOUS
  <2>2. \A p \in uploading \cup fresh : p \in Photos /\ (p \in dated \/ ~ Dated(p))
    BY <1>3 DEF EventPageInv
  <2> QED BY <1>3, <2>1, <2>2, ListKept
<1>5. \A a \in Asks : AskOk(ask[a])'
  <2> TAKE a \in Asks
  <2>1. PICK r : r = q[a]
    OBVIOUS
  <2>2. r \in AskRow \cup {NoAsk} /\ AskOk(r)
    BY <1>2, <1>3, <2>1 DEF EventPageInv
  <2>3. AskOk(r)'
    BY <2>2, AskKept
  <2>4. ask'[a] = r
    BY <1>2, <2>1
  <2> QED BY <2>3, <2>4 DEF AskOk, ReadPage
<1>6. tangled' \/ (OnceIn(shown)' /\ UpTo(shown, nextCursor)')
  <2>1. tangled \/ (OnceIn(s) /\ UpTo(s, c))
    BY <1>2 DEF EventPageInv
  <2>2. tangled' \/ (OnceIn(s)' /\ UpTo(s, c)')
    BY <1>3, <2>1, ListKept
  <2>3. shown' = s /\ nextCursor' = c
    BY <1>2
  <2> QED BY <2>2, <2>3 DEF OnceIn, UpTo, Beyond
<1>7. late' \/ OfEvent(shown, view)'
  BY DEF EventPageInv, OfEvent
<1>8. (left # "no" \/ Awaited(shown))' /\ LeftInv'
  BY DEF EventPageInv, Awaited, LeftInv
<1> QED BY <1>1, <1>4, <1>5, <1>6, <1>7, <1>8 DEF EventPageInv

\* No photo moves when the page alone does something.
LEMMA PhotosRest == ListingInv /\ UNCHANGED <<photo, dated>> => PhotosMoved
BY DEF PhotosMoved, ListingInv, Present

\* A request is sent or answered, and nothing else happens.
LEMMA AskMoves ==
    ASSUME EventPageInv, UNCHANGED <<photo, dated, view, shown, nextCursor, pollTimer, uploading, fresh, appended, tangled, late, left>>,
           left # "quiet", NEW a \in Asks, NEW r \in AskRow \cup {NoAsk},
           ask' = [ask EXCEPT ![a] = r], AskOk(r)'
    PROVE  EventPageInv'
<1>1. PhotosMoved
  BY PhotosRest DEF EventPageInv
<1>2. ask' \in [Asks -> AskRow \cup {NoAsk}] /\ \A b \in Asks : AskOk(ask[b])'
  BY <1>1, AsksKept
<1>3. EventPageTypes'
  BY <1>2 DEF EventPageInv, EventPageTypes
<1>4. tangled' \/ (OnceIn(shown)' /\ UpTo(shown, nextCursor)')
  BY DEF EventPageInv, OnceIn, UpTo, Beyond, Past, Dated
<1>5. \A p \in (uploading \cup fresh)' : p \in dated' \/ ~ Dated(p)'
  BY DEF EventPageInv, Dated
<1>6. (late' \/ OfEvent(shown, view)') /\ (left # "no" \/ Awaited(shown))' /\ LeftInv'
  BY DEF EventPageInv, OfEvent, Awaited, LeftInv
<1> QED BY <1>1, <1>2, <1>3, <1>4, <1>5, <1>6 DEF EventPageInv, PhotosMoved

\* A request that is sent asks for a page that is not read yet.
LEMMA SendAsks ==
    ASSUME NEW a \in Asks, NEW kind \in {"refresh", "more"}, NEW e \in Albums, NEW c \in CursorRow,
           Send(a, kind, e, c), kind = "more" => c # NoCursor
    PROVE  \E r \in AskRow : /\ ask' = [ask EXCEPT ![a] = r]
                             /\ ~ r.read /\ (r.kind = "more" => r.cursor # NoCursor)
<1> DEFINE r == [kind |-> kind, event |-> e, cursor |-> c, read |-> FALSE, page |-> Unread, busy |-> FALSE]
<1>1. ask' = [ask EXCEPT ![a] = r]
  BY DEF Send
<1>2. <<>> \in AssetList /\ NoCursor \in CursorRow
  BY DEF AssetList, CursorRow, NoCursor
<1>3. r \in AskRow /\ r.kind = kind /\ r.cursor = c /\ r.read = FALSE
  BY <1>2 DEF AskRow, PageOfRows, Unread
<1> HIDE DEF r
<1> QED BY <1>1, <1>3

\* A page that asks and does nothing else.
LEMMA AskSent ==
    ASSUME EventPageInv, UNCHANGED <<photo, dated, view, shown, nextCursor, pollTimer, uploading, fresh, appended, tangled, late, left>>,
           left # "quiet", NEW a \in Asks, NEW kind \in {"refresh", "more"}, NEW e \in Albums, NEW c \in CursorRow,
           Send(a, kind, e, c), kind = "more" => c # NoCursor
    PROVE  EventPageInv'
<1>1. PICK r \in AskRow : /\ ask' = [ask EXCEPT ![a] = r]
                          /\ ~ r.read /\ (r.kind = "more" => r.cursor # NoCursor)
  BY SendAsks
<1>2. AskOk(r)'
  BY <1>1 DEF AskOk
<1> QED BY <1>1, <1>2, AskMoves

\* The first page of an event that comes into view.
LEMMA SwitchMoves ==
    ASSUME EventPageInv, NEW a \in Asks, NEW e \in Albums, switchEvent(a, e)
    PROVE  EventPageInv'
<1>1. NoCursor \in CursorRow /\ <<>> \in AssetList
  BY DEF AssetList, CursorRow, NoCursor
<1>2. PICK r \in AskRow : /\ ask' = [ask EXCEPT ![a] = r]
                          /\ ~ r.read /\ (r.kind = "more" => r.cursor # NoCursor)
  BY <1>1, SendAsks DEF switchEvent
<1>3. AskOk(r)' /\ PhotosMoved
  BY <1>2, PhotosRest DEF AskOk, EventPageInv, switchEvent
<1>4. ask' \in [Asks -> AskRow \cup {NoAsk}] /\ \A b \in Asks : AskOk(ask[b])'
  BY <1>2, <1>3, AsksKept
<1>5. EventPageTypes'
  BY <1>1, <1>4 DEF EventPageInv, EventPageTypes, switchEvent
<1>6. \A p \in (uploading \cup fresh)' : p \in dated' \/ ~ Dated(p)'
  BY DEF EventPageInv, Dated, switchEvent
<1>7. shown' = <<>> /\ Len(<<>>) = 0
  BY DEF switchEvent
<1>8. OnceIn(shown)' /\ UpTo(shown, nextCursor)' /\ OfEvent(shown, view)' /\ Awaited(shown)'
  BY <1>7 DEF OnceIn, UpTo, OfEvent, Awaited
<1>9. LeftInv'
  BY DEF switchEvent, LeftInv
<1> QED BY <1>3, <1>4, <1>5, <1>6, <1>8, <1>9 DEF EventPageInv, PhotosMoved

\* The server reads the page that was asked for (event page, refresh and loadMore).
LEMMA AnswerMoves ==
    ASSUME EventPageInv, NEW a \in Asks, Answer(a)
    PROVE  EventPageInv'
<1>1. ask[a] \in AskRow /\ ask \in [Asks -> AskRow \cup {NoAsk}]
  BY DEF EventPageInv, EventPageTypes, Answer
<1>2. PICK q : q = ask[a]
  OBVIOUS
<1>3. PICK pg : pg = list(q.event, q.cursor)
  OBVIOUS
<1>4. PICK b \in BOOLEAN : b = \E p \in Photos : AlbumOf[p] = ask[a].event /\ photo[p].state = "stored"
  OBVIOUS
<1>5. PICK r : r = [q EXCEPT !.read = TRUE, !.page = pg, !.busy = b]
  OBVIOUS
<1>6. ask' = [ask EXCEPT ![a] = r]
  BY <1>1, <1>2, <1>3, <1>4, <1>5 DEF Answer
<1>7. /\ pg \in PageOfRows
      /\ OnceIn(pg.assets) /\ UpTo(pg.assets, pg.next) /\ OfEvent(pg.assets, q.event)
      /\ q.cursor # NoCursor =>
             /\ \A i \in 1..Len(pg.assets) : Beyond(pg.assets[i].id, q.cursor)
             /\ Behind(pg.next, q.cursor)
  <2>1. q.event \in Albums /\ q.cursor \in CursorRow
    BY <1>1, <1>2 DEF AskRow
  <2> QED BY <1>3, <2>1, PageRead DEF EventPageInv
<1>8. r \in AskRow /\ r.kind = q.kind /\ r.cursor = q.cursor /\ r.event = q.event /\ r.page = pg
  BY <1>1, <1>2, <1>5, <1>7 DEF AskRow
<1>9. q.kind = "more" => q.cursor # NoCursor
  BY <1>2 DEF EventPageInv, AskOk, Answer
<1>10. AskOk(r)
  BY <1>7, <1>8, <1>9 DEF AskOk, ReadPage
<1>11. AskOk(r)'
  <2>1. PhotosMoved
    BY PhotosRest DEF EventPageInv, Answer
  <2> QED BY <1>8, <1>10, <2>1, AskKept
<1>12. left # "quiet"
  BY DEF EventPageInv, LeftInv, Answer
<1> QED BY <1>6, <1>8, <1>11, <1>12, AskMoves DEF Answer

\* A page that polls while it shows an unfinished photo.
LEMMA Scheduled ==
    ASSUME NEW s \in AssetList, NEW b \in BOOLEAN, NEW i \in 1..Len(s), ~ s[i].finished
    PROVE  schedulePolling(s, b) = TRUE
<1>1. DOMAIN s = 1..Len(s)
  BY DEF AssetList
<1> QED BY <1>1 DEF schedulePolling

\* The answer to a refresh.
LEMMA RefreshedMoves ==
    ASSUME EventPageInv, NEW a \in Asks, refreshed(a)
    PROVE  EventPageInv'
<1>1. PICK q : q = ask[a]
  OBVIOUS
<1>2. q \in AskRow /\ q.read /\ AskOk(q) /\ ask \in [Asks -> AskRow \cup {NoAsk}]
  BY <1>1 DEF EventPageInv, EventPageTypes, refreshed, NoAsk
<1>3. PICK l, c : l = q.page.assets /\ c = q.page.next
  OBVIOUS
<1>4. l \in AssetList /\ c \in CursorRow /\ q.event \in Albums /\ q.busy \in BOOLEAN
  BY <1>2, <1>3 DEF AskRow, PageOfRows
<1>5. OnceIn(l) /\ UpTo(l, c) /\ OfEvent(l, q.event)
  <2>1. q # NoAsk
    BY <1>2 DEF AskRow, NoAsk
  <2> QED BY <1>2, <1>3, <2>1 DEF AskOk, ReadPage
<1>6. PICK h : h = adoptFresh(l)
  OBVIOUS
<1>7. h \in AssetList /\ OnceIn(h) /\ UpTo(h, c) /\ (OfEvent(l, view) => OfEvent(h, view))
  BY <1>4, <1>5, <1>6, Adopted
<1>8. /\ shown' = h /\ nextCursor' = c /\ view' = view /\ late' = (q.event # view)
      /\ ask' = [ask EXCEPT ![a] = NoAsk] /\ pollTimer' = schedulePolling(h, q.busy)
      /\ fresh' = Taken /\ appended' = {} /\ tangled' = FALSE
      /\ UNCHANGED <<photo, dated, view, uploading>>
  BY <1>1, <1>3, <1>6 DEF refreshed
<1>9. PhotosMoved
  BY <1>8, PhotosRest DEF EventPageInv
<1>10. ask' \in [Asks -> AskRow \cup {NoAsk}] /\ \A b \in Asks : AskOk(ask[b])'
  <2>1. PICK n : n = NoAsk
    OBVIOUS
  <2>2. AskOk(n)'
    BY <2>1 DEF AskOk
  <2> QED BY <1>8, <1>9, <2>1, <2>2, AsksKept
<1>11. pollTimer' \in BOOLEAN
  BY <1>4, <1>8 DEF schedulePolling
<1>12. Taken \subseteq fresh
  BY DEF Taken
<1>13. EventPageTypes'
  BY <1>4, <1>7, <1>8, <1>10, <1>11, <1>12 DEF EventPageInv, EventPageTypes
<1>14. \A p \in (uploading \cup fresh)' : p \in dated' \/ ~ Dated(p)'
  BY <1>8, <1>12 DEF EventPageInv, Dated
<1>15. OnceIn(shown)' /\ UpTo(shown, nextCursor)'
  <2>1. OnceIn(h)' /\ UpTo(h, c)'
    BY <1>4, <1>7, <1>9, ListKept
  <2> QED BY <1>8, <2>1 DEF OnceIn, UpTo, Beyond
<1>16. late' \/ OfEvent(shown, view)'
  <2>1. CASE q.event = view
    <3>1. OfEvent(h, view)
      BY <1>5, <1>7, <2>1
    <3> QED BY <1>8, <3>1 DEF OfEvent
  <2> QED BY <1>8, <2>1
<1>17. Awaited(shown)'
  <2>1. \A i \in 1..Len(h) : ~ h[i].finished => schedulePolling(h, q.busy) = TRUE
    BY <1>4, <1>7, Scheduled
  <2> QED BY <1>8, <2>1 DEF Awaited
<1>18. LeftInv'
  BY DEF EventPageInv, LeftInv, refreshed, NoAsk
<1> QED BY <1>9, <1>10, <1>13, <1>14, <1>15, <1>16, <1>17, <1>18 DEF EventPageInv, PhotosMoved

\* The answer to a loadMore.
LEMMA LoadedMoreMoves ==
    ASSUME EventPageInv, NEW a \in Asks, loadedMore(a)
    PROVE  EventPageInv'
<1>1. PICK q : q = ask[a]
  OBVIOUS
<1>2. q \in AskRow /\ q.read /\ AskOk(q) /\ q.kind = "more" /\ ask \in [Asks -> AskRow \cup {NoAsk}]
  BY <1>1 DEF EventPageInv, EventPageTypes, loadedMore, NoAsk
<1>3. PICK l, c, s, d : l = q.page.assets /\ c = q.page.next /\ s = shown /\ d = nextCursor
  OBVIOUS
<1>4. l \in AssetList /\ c \in CursorRow /\ s \in AssetList /\ d \in CursorRow /\ q.event \in Albums /\ q.cursor \in CursorRow
  BY <1>2, <1>3 DEF AskRow, PageOfRows, EventPageInv, EventPageTypes
<1>5. /\ OnceIn(l) /\ UpTo(l, c) /\ OfEvent(l, q.event)
      /\ \A i \in 1..Len(l) : l[i].id \in dated \/ Beyond(l[i].id, q.cursor)
      /\ Behind(c, q.cursor)
  <2>1. q # NoAsk
    BY <1>2 DEF AskRow, NoAsk
  <2> QED BY <1>2, <1>3, <2>1 DEF AskOk, ReadPage
<1>6. PICK h : h = s \o l
  OBVIOUS
<1>7. /\ shown' = h /\ nextCursor' = c /\ view' = view /\ late' = (late \/ q.event # view)
      /\ ask' = [ask EXCEPT ![a] = NoAsk] /\ pollTimer' = pollTimer
      /\ appended' = appended \cup Ids(l) /\ tangled' = (tangled \/ q.cursor # d)
      /\ UNCHANGED <<photo, dated, view, uploading, fresh>>
  BY <1>1, <1>3, <1>6 DEF loadedMore
<1>8. /\ h \in AssetList
      /\ \A i \in 1..Len(h) : \/ i \in 1..Len(s) /\ h[i] = s[i]
                              \/ \E j \in 1..Len(l) : h[i] = l[j]
  BY <1>4, <1>6, Appended DEF AssetList
<1>9. PhotosMoved
  BY <1>7, PhotosRest DEF EventPageInv
<1>10. ask' \in [Asks -> AskRow \cup {NoAsk}] /\ \A b \in Asks : AskOk(ask[b])'
  <2>1. PICK n : n = NoAsk
    OBVIOUS
  <2>2. AskOk(n)'
    BY <2>1 DEF AskOk
  <2> QED BY <1>7, <1>9, <2>1, <2>2, AsksKept
<1>11. Ids(l) \subseteq Photos /\ \A i \in 1..Len(l) : l[i].id \in Ids(l)
  <2>1. DOMAIN l = 1..Len(l)
    BY <1>4 DEF AssetList
  <2> QED BY <1>4, <2>1, RowsOfList DEF Ids
<1>12. EventPageTypes'
  BY <1>4, <1>7, <1>8, <1>10, <1>11 DEF EventPageInv, EventPageTypes
<1>13. \A p \in (uploading \cup fresh)' : p \in dated' \/ ~ Dated(p)'
  BY <1>7 DEF EventPageInv, Dated
<1>14. tangled' \/ (OnceIn(shown)' /\ UpTo(shown, nextCursor)')
  <2> SUFFICES ASSUME ~ tangled, q.cursor = d
               PROVE  OnceIn(shown)' /\ UpTo(shown, nextCursor)'
    BY <1>7 DEF EventPageInv, EventPageTypes
  <2>1. OnceIn(s) /\ UpTo(s, d)
    BY <1>3 DEF EventPageInv
  <2>2. ASSUME NEW i \in 1..Len(s), NEW j \in 1..Len(l), s[i].id = l[j].id PROVE s[i].id \in dated
    BY <1>5, <2>1, <2>2 DEF UpTo
  <2>3. OnceIn(h)
    BY <1>4, <1>5, <1>6, <2>1, <2>2, OnceAppended
  <2>4. UpTo(s, c)
    <3> SUFFICES ASSUME NEW i \in 1..Len(s), s[i].id \notin dated PROVE ~ Beyond(s[i].id, c)
      BY DEF UpTo
    <3>1. s[i].id \in Photos
      BY <1>4, RowsOfList
    <3>2. ~ Beyond(s[i].id, d) /\ Behind(c, d)
      BY <1>5, <2>1 DEF UpTo
    <3> QED BY <1>4, <3>1, <3>2, BeyondCursors DEF EventPageInv
  <2>5. UpTo(h, c)
    BY <1>5, <1>8, <2>4 DEF UpTo
  <2>6. OnceIn(h)' /\ UpTo(h, c)'
    BY <1>4, <1>8, <1>9, <2>3, <2>5, ListKept
  <2> QED BY <1>7, <2>6 DEF OnceIn, UpTo, Beyond
<1>15. late' \/ OfEvent(shown, view)'
  <2>1. CASE ~ late /\ q.event = view
    <3>1. OfEvent(s, view) /\ OfEvent(l, view)
      BY <1>3, <1>5, <2>1 DEF EventPageInv
    <3>2. OfEvent(h, view)
      BY <1>8, <3>1 DEF OfEvent
    <3> QED BY <1>7, <3>2 DEF OfEvent
  <2> QED BY <1>7, <2>1
<1>16. (left # "no" \/ Awaited(shown))'
  <2>1. left' = left
    BY DEF loadedMore
  <2> QED BY <1>3, <1>7, <1>8, <1>11, <2>1 DEF Awaited, EventPageInv
<1>17. LeftInv'
  BY DEF EventPageInv, LeftInv, loadedMore, NoAsk
<1> QED BY <1>9, <1>10, <1>12, <1>13, <1>14, <1>15, <1>16, <1>17 DEF EventPageInv, PhotosMoved

\* The tick that takes the fresh uploads.
LEMMA AdoptMoves ==
    ASSUME EventPageInv, adoptTick
    PROVE  EventPageInv'
<1>1. PICK l, c, h : l = shown /\ c = nextCursor /\ h = adoptFresh(l)
  OBVIOUS
<1>2. l \in AssetList /\ c \in CursorRow
  BY <1>1 DEF EventPageInv, EventPageTypes
<1>3. /\ h \in AssetList /\ (OnceIn(l) => OnceIn(h)) /\ (UpTo(l, c) => UpTo(h, c))
      /\ OfEvent(l, view) => OfEvent(h, view)
  BY <1>1, <1>2, Adopted
<1>4. /\ shown' = h /\ fresh' = Taken /\ pollTimer' = (pollTimer \/ schedulePolling(h, FALSE))
      /\ UNCHANGED <<photo, dated, view, nextCursor, ask, uploading, appended, tangled, late>>
  BY <1>1 DEF adoptTick
<1>5. PhotosMoved
  BY <1>4, PhotosRest DEF EventPageInv
<1>6. Taken \subseteq fresh
  BY DEF Taken
<1>7. pollTimer' \in BOOLEAN
  BY <1>4
<1>8. EventPageTypes'
  BY <1>3, <1>4, <1>6, <1>7 DEF EventPageInv, EventPageTypes
<1>9. \A p \in (uploading \cup fresh)' : p \in dated' \/ ~ Dated(p)'
  BY <1>4, <1>6 DEF EventPageInv, Dated
<1>10. \A b \in Asks : AskOk(ask[b])'
  <2> TAKE b \in Asks
  <2>1. PICK r : r = ask[b]
    OBVIOUS
  <2>2. r \in AskRow \cup {NoAsk} /\ AskOk(r)
    BY <2>1 DEF EventPageInv, EventPageTypes
  <2>3. AskOk(r)'
    BY <1>5, <2>2, AskKept
  <2> QED BY <1>4, <2>1, <2>3 DEF AskOk, ReadPage
<1>11. tangled' \/ (OnceIn(shown)' /\ UpTo(shown, nextCursor)')
  <2>1. tangled \/ (OnceIn(h) /\ UpTo(h, c))
    BY <1>1, <1>3 DEF EventPageInv
  <2>2. tangled \/ (OnceIn(h)' /\ UpTo(h, c)')
    BY <1>2, <1>3, <1>5, <2>1, ListKept
  <2>3. nextCursor' = c
    BY <1>1, <1>4
  <2> QED BY <1>4, <2>2, <2>3 DEF OnceIn, UpTo, Beyond
<1>12. late' \/ OfEvent(shown, view)'
  <2>1. late \/ OfEvent(h, view)
    BY <1>1, <1>3 DEF EventPageInv
  <2> QED BY <1>4, <2>1 DEF OfEvent
<1>13. Awaited(shown)'
  <2>1. \A i \in 1..Len(h) : ~ h[i].finished => schedulePolling(h, FALSE) = TRUE
    BY <1>3, Scheduled
  <2> QED BY <1>4, <2>1 DEF Awaited
<1>14. LeftInv'
  BY DEF LeftInv, adoptTick
<1> QED BY <1>5, <1>8, <1>9, <1>10, <1>11, <1>12, <1>13, <1>14 DEF EventPageInv, PhotosMoved

\* A file is sent, and its row handed to the store when it is there.
LEMMA UploadsMove ==
    ASSUME EventPageInv, NEW p \in Photos, startUpload(p) \/ uploadOne(p)
    PROVE  EventPageInv'
<1>1. UNCHANGED <<photo, dated, view, shown, nextCursor, pollTimer, ask, appended, tangled, late>>
  BY DEF startUpload, uploadOne
<1>2. (uploading \cup fresh)' \subseteq uploading \cup fresh \cup {p}
  BY DEF startUpload, uploadOne
<1>3. p \in dated \/ ~ Dated(p)
  BY DEF startUpload, uploadOne, EventPageInv, ListingInv, Dated
<1>4. \A q \in (uploading \cup fresh)' : q \in Photos /\ (q \in dated' \/ ~ Dated(q)')
  BY <1>1, <1>2, <1>3 DEF EventPageInv, EventPageTypes, Dated
<1>5. EventPageTypes'
  <2>1. uploading' \subseteq Photos /\ fresh' \subseteq Photos
    BY <1>4
  <2> QED BY <1>1, <2>1 DEF EventPageInv, EventPageTypes
<1>6. PhotosMoved
  BY <1>1, PhotosRest DEF EventPageInv
<1>7. tangled' \/ (OnceIn(shown)' /\ UpTo(shown, nextCursor)')
  BY <1>1 DEF EventPageInv, OnceIn, UpTo, Beyond, Past, Dated
<1>8. (late' \/ OfEvent(shown, view)') /\ (left # "no" \/ Awaited(shown))' /\ LeftInv'
  <2>1. left' = left /\ left # "quiet"
    BY DEF startUpload, uploadOne, EventPageInv, LeftInv
  <2> QED BY <1>1, <2>1 DEF EventPageInv, OfEvent, Awaited, LeftInv
<1>9. \A b \in Asks : AskOk(ask[b])'
  <2> TAKE b \in Asks
  <2>1. PICK r : r = ask[b]
    OBVIOUS
  <2>2. r \in AskRow \cup {NoAsk} /\ AskOk(r)
    BY <2>1 DEF EventPageInv, EventPageTypes
  <2>3. AskOk(r)'
    BY <1>6, <2>2, AskKept
  <2> QED BY <1>1, <2>1, <2>3 DEF AskOk, ReadPage
<1> QED BY <1>4, <1>5, <1>6, <1>7, <1>8, <1>9 DEF EventPageInv, PhotosMoved

\* The page is left, and its timer with it.
LEMMA LeaveMoves ==
    ASSUME EventPageInv, leaveEvent
    PROVE  EventPageInv'
<1>1. UNCHANGED <<photo, dated, view, shown, nextCursor, ask, uploading, fresh, appended, tangled, late>>
      /\ pollTimer' = FALSE /\ left' # "no"
  BY DEF leaveEvent
<1>2. PhotosMoved
  BY <1>1, PhotosRest DEF EventPageInv
<1>3. EventPageTypes'
  BY <1>1 DEF EventPageInv, EventPageTypes
<1>4. tangled' \/ (OnceIn(shown)' /\ UpTo(shown, nextCursor)')
  BY <1>1 DEF EventPageInv, OnceIn, UpTo, Beyond, Past, Dated
<1>5. late' \/ OfEvent(shown, view)'
  BY <1>1 DEF EventPageInv, OfEvent
<1>6. \A p \in (uploading \cup fresh)' : p \in dated' \/ ~ Dated(p)'
  BY <1>1 DEF EventPageInv, Dated
<1>7. \A b \in Asks : AskOk(ask[b])'
  <2> TAKE b \in Asks
  <2>1. PICK r : r = ask[b]
    OBVIOUS
  <2>2. r \in AskRow \cup {NoAsk} /\ AskOk(r)
    BY <2>1 DEF EventPageInv, EventPageTypes
  <2>3. AskOk(r)'
    BY <1>2, <2>2, AskKept
  <2> QED BY <1>1, <2>1, <2>3 DEF AskOk, ReadPage
<1>8. LeftInv'
  BY <1>1 DEF leaveEvent, LeftInv
<1> QED BY <1>1, <1>2, <1>3, <1>4, <1>5, <1>6, <1>7, <1>8 DEF EventPageInv, PhotosMoved

\* The invariant of the event page is inductive (+page.svelte:62-133).
LEMMA EventPageStep == EventPageInv /\ [EventPageNext]_eventPageVars => EventPageInv' /\ PhotosMoved
<1> SUFFICES ASSUME EventPageInv, [EventPageNext]_eventPageVars PROVE EventPageInv' /\ PhotosMoved
  OBVIOUS
<1>1. ASSUME UNCHANGED <<photo, dated>> PROVE PhotosMoved
  BY <1>1, PhotosRest DEF EventPageInv
<1>2. ASSUME NEW a \in Asks, NEW e \in Albums, switchEvent(a, e) PROVE EventPageInv' /\ PhotosMoved
  BY <1>1, <1>2, SwitchMoves DEF switchEvent
<1>3. ASSUME NEW a \in Asks, refresh(a) \/ batchDone(a) \/ loadMore(a) PROVE EventPageInv' /\ PhotosMoved
  <2>1. NoCursor \in CursorRow /\ nextCursor \in CursorRow /\ view \in Albums
    BY DEF CursorRow, NoCursor, EventPageInv, EventPageTypes
  <2>0. left # "quiet"
    BY <1>3 DEF EventPageInv, LeftInv, refresh, batchDone, loadMore
  <2>2. CASE refresh(a) \/ batchDone(a)
    BY <1>1, <2>0, <2>1, <2>2, AskSent DEF refresh, batchDone
  <2>3. CASE loadMore(a)
    BY <1>1, <2>0, <2>1, <2>3, AskSent DEF loadMore
  <2> QED BY <1>3, <2>2, <2>3
<1>4. ASSUME NEW a \in Asks, Answer(a) PROVE EventPageInv' /\ PhotosMoved
  BY <1>1, <1>4, AnswerMoves DEF Answer
<1>5. ASSUME NEW a \in Asks, refreshed(a) PROVE EventPageInv' /\ PhotosMoved
  BY <1>1, <1>5, RefreshedMoves DEF refreshed
<1>6. ASSUME NEW a \in Asks, loadedMore(a) PROVE EventPageInv' /\ PhotosMoved
  BY <1>1, <1>6, LoadedMoreMoves DEF loadedMore
<1>7. ASSUME NEW p \in Photos, startUpload(p) \/ uploadOne(p) PROVE EventPageInv' /\ PhotosMoved
  BY <1>1, <1>7, UploadsMove DEF startUpload, uploadOne
<1>8. ASSUME NEW p \in Photos, uploadLands(p) \/ processed(p) \/ removed(p) PROVE EventPageInv' /\ PhotosMoved
  <2>1. PhotosMoved
    BY <1>8, PhotoMoves DEF EventPageInv, uploadLands, processed, removed
  <2> QED BY <1>8, <2>1, PageRests DEF uploadLands, processed, removed, pageVars
<1>9. CASE adoptTick
  BY <1>1, <1>9, AdoptMoves DEF adoptTick
<1>10. CASE UNCHANGED eventPageVars
  BY <1>1, <1>10, PageRests DEF eventPageVars, pageVars
<1>11. CASE leaveEvent
  BY <1>1, <1>11, LeaveMoves DEF leaveEvent
<1> QED BY <1>2, <1>3, <1>4, <1>5, <1>6, <1>7, <1>8, <1>9, <1>10, <1>11 DEF EventPageNext

\* It holds when the page is opened.
LEMMA EventPageStart == EventPageInit => EventPageInv
<1> SUFFICES ASSUME EventPageInit PROVE EventPageInv
  OBVIOUS
<1>1. ListingInv
  BY ListingStart DEF EventPageInit
<1>2. NoCursor \in CursorRow /\ <<>> \in AssetList /\ Len(<<>>) = 0
  BY DEF AssetList, CursorRow, NoCursor
<1>3. PICK q : q = [kind |-> "refresh", event |-> view, cursor |-> NoCursor,
                    read |-> FALSE, page |-> Unread, busy |-> FALSE]
  OBVIOUS
<1>4. view \in Albums /\ q \in AskRow /\ ~ q.read /\ q.kind = "refresh"
  BY <1>2, <1>3 DEF EventPageInit, AskRow, PageOfRows, Unread
<1>5. PICK a \in Asks : ask = [b \in Asks |-> IF b = a THEN q ELSE NoAsk]
  BY <1>3 DEF EventPageInit
<1>6. ask \in [Asks -> AskRow \cup {NoAsk}] /\ \A b \in Asks : AskOk(ask[b])
  BY <1>4, <1>5 DEF AskOk
<1>7. EventPageTypes
  BY <1>2, <1>4, <1>6 DEF EventPageInit, EventPageTypes
<1>8. shown = <<>> /\ uploading \cup fresh = {}
  BY DEF EventPageInit
<1>9. OnceIn(shown) /\ UpTo(shown, nextCursor) /\ OfEvent(shown, view) /\ Awaited(shown)
  BY <1>2, <1>8 DEF OnceIn, UpTo, OfEvent, Awaited
<1>10. LeftInv
  BY DEF EventPageInit, LeftInv
<1> QED BY <1>1, <1>6, <1>7, <1>8, <1>9, <1>10 DEF EventPageInv

\* What the page shows, from its invariant.
LEMMA PageShows == EventPageInv => ShownOnce /\ OnlyItsPhotos /\ UnfinishedIsPolled /\ LeftIsQuiet
<1> SUFFICES ASSUME EventPageInv PROVE ShownOnce /\ OnlyItsPhotos /\ UnfinishedIsPolled /\ LeftIsQuiet
  OBVIOUS
<1>1. DOMAIN shown = 1..Len(shown)
  BY DEF EventPageInv, EventPageTypes, AssetList
<1>2. ShownOnce
  BY <1>1 DEF EventPageInv, OnceIn, ShownOnce
<1>3. OnlyItsPhotos
  BY <1>1 DEF EventPageInv, OfEvent, OnlyItsPhotos
<1>4. UnfinishedIsPolled
  BY <1>1 DEF EventPageInv, Awaited, UnfinishedIsPolled
<1>5. LeftIsQuiet
  BY DEF EventPageInv, LeftInv, LeftIsQuiet
<1> QED BY <1>2, <1>3, <1>4, <1>5

\* The page of an event holds no photo twice, none of another event, and polls while
\* a photo it shows is unfinished, as far as the history allows; left with nothing on
\* its way, it asks for nothing more (+page.svelte:67-133).
THEOREM EventPageIsItsEvents == EventPageSpec => [](ShownOnce /\ OnlyItsPhotos /\ UnfinishedIsPolled /\ LeftIsQuiet)
<1>1. EventPageInit => EventPageInv
  BY EventPageStart
<1>2. EventPageInv /\ [EventPageNext]_eventPageVars => EventPageInv'
  BY EventPageStep
<1>3. EventPageInv => ShownOnce /\ OnlyItsPhotos /\ UnfinishedIsPolled /\ LeftIsQuiet
  BY PageShows
<1> QED BY <1>1, <1>2, <1>3, PTL DEF EventPageSpec

-----------------------------------------------------------------------------
(* The timelines *)

\* What a list asks for after a cursor; a timeline's cursor without a date asks for
\* the undated photos that are left.
After(l, p, c) == IF l = "org" /\ c.at = NULL THEN ~ Dated(p) /\ p < c.id ELSE Beyond(p, c)
UpToIn(l, s, c) == \A i \in 1..Len(s) : s[i].id \in dated \/ ~ After(l, s[i].id, c)

\* A photo that a list owes once the list has come to its place.
Due(l, p) == Present(p) /\ Dated(p) /\ (l = "guest" => AlbumOf[p] = Shared)
Steady == Photos \ (Uploads \cup dated)
Held(l, s, c, x) ==
    \A p \in Steady :
        Due(l, p) /\ ((l = "org" /\ x) \/ (c # NoCursor /\ ~ Beyond(p, c))) => Listed(s, p)

\* One list: its rows, its cursor, whether it is at its end and has lost its place.
LineOk(l, s, c, x, b) ==
    /\ OnceIn(s) /\ UpToIn(l, s, c)
    /\ b \/ Held(l, s, c, x)
    /\ c # NoCursor /\ c.at = NULL => b
    /\ l = "org" /\ c = NoCursor /\ ~ x => s = <<>>

\* A page in flight, once it is read, goes on from the cursor it was asked with and
\* leaves nothing out before its own.
WantRow == [list : Lists, more : BOOLEAN, read : BOOLEAN, page : PageOfRows, cursor : CursorRow]
Following(l, pg, c) ==
    /\ OnceIn(pg.assets) /\ UpToIn(l, pg.assets, pg.next)
    /\ c # NoCursor =>
           /\ \A i \in 1..Len(pg.assets) : pg.assets[i].id \in dated \/ After(l, pg.assets[i].id, c)
           /\ \A p \in Photos \ dated : After(l, p, pg.next) => After(l, p, c)
    /\ \A p \in Steady :
           Due(l, p) /\ (c = NoCursor \/ Beyond(p, c)) =>
               Listed(pg.assets, p) \/ (pg.next # NoCursor /\ (pg.next.at = NULL \/ Beyond(p, pg.next)))

WantOk(r) == r # NoWant => (r.read => Following(r.list, r.page, r.cursor))

\* It was asked for the list as it still is.
Serves(r, s, c, ld) ==
    /\ ld /\ (r.more => r.cursor = c)
    /\ ~ r.more => r.list = "guest" /\ r.cursor = NoCursor
    /\ r.cursor = NoCursor => s = <<>>

TimelineTypes ==
    /\ open \in Lists /\ rows \in [Lists -> AssetList] /\ cursor \in [Lists -> CursorRow]
    /\ loading \in [Lists -> BOOLEAN] /\ exhausted \in BOOLEAN /\ broken \subseteq Lists
    /\ want \in [Wants -> WantRow \cup {NoWant}]

TimelineInv ==
    /\ ListingInv /\ TimelineTypes
    /\ \A w \in Wants : WantOk(want[w])
    /\ \A w \in Wants : want[w] # NoWant =>
           Serves(want[w], rows[want[w].list], cursor[want[w].list], loading[want[w].list])
    /\ \A w, v \in Wants : want[w] # NoWant /\ want[v] # NoWant /\ w # v => want[w].list # want[v].list
    /\ \A l \in Lists : LineOk(l, rows[l], cursor[l], exhausted, l \in broken)

\* The page that a list fetches.
LEMMA FetchRead ==
    ASSUME ListingInv, NEW l \in Lists, NEW c \in CursorRow
    PROVE  Fetch(l, c) \in PageOfRows /\ Following(l, Fetch(l, c), c)
<1> DEFINE found == {p \in Photos : /\ Present(p) /\ (l = "guest" => AlbumOf[p] = Shared)
                                    /\ c = NoCursor \/ After(l, p, c)}
           page == Fetch(l, c)
<1>1. page = Page(found)
  <2>1. CASE l = "org"
    <3>1. listForOrg(c) = Page({p \in Photos :
              Present(p) /\ (c = NoCursor \/ (c.at # NULL /\ Past(p, c.at, c.id)) \/ (c.at = NULL /\ ~ Dated(p) /\ p < c.id))})
      BY DEF listForOrg
    <3>2. found = {p \in Photos :
              Present(p) /\ (c = NoCursor \/ (c.at # NULL /\ Past(p, c.at, c.id)) \/ (c.at = NULL /\ ~ Dated(p) /\ p < c.id))}
      BY <2>1 DEF After, Beyond
    <3> HIDE DEF found
    <3> QED BY <2>1, <3>1, <3>2 DEF Fetch
  <2>2. CASE l = "guest"
    <3>1. list(Shared, c) = Page({p \in Photos : Present(p) /\ AlbumOf[p] = Shared /\ (c = NoCursor \/ Beyond(p, c))})
      BY DEF list, Beyond
    <3>2. found = {p \in Photos : Present(p) /\ AlbumOf[p] = Shared /\ (c = NoCursor \/ Beyond(p, c))}
      BY <2>2 DEF After
    <3> HIDE DEF found
    <3> QED BY <2>2, <3>1, <3>2 DEF Fetch
  <2> QED BY <2>1, <2>2 DEF Lists
<1>2. found \in SUBSET Photos
  OBVIOUS
<1>3. \A p \in Photos : p \in found <=> /\ Present(p) /\ (l = "guest" => AlbumOf[p] = Shared)
                                        /\ c = NoCursor \/ After(l, p, c)
  OBVIOUS
<1> HIDE DEF found
<1>4. /\ page.assets \in Seq(AssetRow) /\ page.next \in CursorRow
      /\ \A i \in 1..Len(page.assets) : page.assets[i].id \in found
      /\ \A i, j \in 1..Len(page.assets) : page.assets[i].id = page.assets[j].id => i = j
      /\ page.next = NoCursor => \A p \in found : Listed(page.assets, p)
      /\ page.next # NoCursor =>
             /\ page.next.id \in found /\ page.next.at = photo[page.next.id].capturedAt
             /\ \A i \in 1..Len(page.assets) :
                    page.assets[i].id = page.next.id \/ Before(page.assets[i].id, page.next.id)
             /\ \A p \in found : Listed(page.assets, p) \/ Before(page.next.id, p)
  BY <1>1, <1>2, PageHolds
<1>5. page \in PageOfRows
  <2>1. \E r, n : page = [assets |-> r, next |-> n]
    BY <1>1 DEF Page
  <2> HIDE DEF page
  <2> QED BY <1>4, <2>1 DEF PageOfRows, AssetList
<1> HIDE DEF page
<1> DEFINE n == page.next
<1>6. /\ n \in CursorRow /\ n.at \in Int /\ n.id \in Nat /\ c.at \in Int /\ c.id \in Nat
      /\ NULL = -1 /\ Epoch = 0 /\ NoCursor.at = NULL /\ NoCursor.id = 0
  BY <1>4, ListingNumbers DEF CursorRow, NoCursor
<1>7. \A p \in Photos : /\ p \in Nat \ {0} /\ photo[p].capturedAt \in Int
                        /\ photo[p].capturedAt = NULL \/ photo[p].capturedAt > 0
  BY DatesAreNumbers, ListingNumbers
<1>8. n # NoCursor => n.id \in Photos /\ n.id \in found /\ n.at = photo[n.id].capturedAt
  BY <1>2, <1>4
<1>9. n = NoCursor => \A p \in Photos : ~ After(l, p, n)
  BY <1>6, <1>7 DEF After, Beyond, Past, Dated
<1>10. OnceIn(page.assets)
  BY <1>4 DEF OnceIn
<1>11. UpToIn(l, page.assets, n)
  <2> SUFFICES ASSUME NEW i \in 1..Len(page.assets), n # NoCursor PROVE ~ After(l, page.assets[i].id, n)
    BY <1>2, <1>4, <1>9 DEF UpToIn
  <2>1. page.assets[i].id \in Photos
    BY <1>2, <1>4
  <2>2. page.assets[i].id = n.id \/ Before(page.assets[i].id, n.id)
    BY <1>4
  <2> HIDE DEF n
  <2> QED BY <1>6, <1>7, <1>8, <2>1, <2>2 DEF After, Beyond, Past, Before, Dated
<1>12. c # NoCursor => \A i \in 1..Len(page.assets) : After(l, page.assets[i].id, c)
  BY <1>2, <1>3, <1>4
<1>13. c # NoCursor => \A p \in Photos : After(l, p, n) => After(l, p, c)
  <2> SUFFICES ASSUME c # NoCursor, NEW p \in Photos, After(l, p, n) PROVE After(l, p, c)
    OBVIOUS
  <2>1. n # NoCursor
    BY <1>9
  <2>2. After(l, n.id, c) /\ n.id \in Photos /\ n.at = photo[n.id].capturedAt
    BY <1>3, <1>8, <2>1
  <2> HIDE DEF n
  <2> QED BY <1>6, <1>7, <2>2 DEF After, Beyond, Past, Dated
<1>14. ASSUME NEW p \in Photos, Due(l, p), c = NoCursor \/ Beyond(p, c)
       PROVE  Listed(page.assets, p) \/ (n # NoCursor /\ (n.at = NULL \/ Beyond(p, n)))
  <2>1. p \in found
    <3>1. Beyond(p, c) => After(l, p, c)
      BY <1>6, <1>7, <1>14 DEF After, Beyond, Past, Dated
    <3> QED BY <1>3, <1>14, <3>1 DEF Due
  <2>2. CASE n = NoCursor
    BY <1>4, <2>1, <2>2
  <2>3. CASE n # NoCursor /\ Before(n.id, p)
    <3>1. n.id \in Photos /\ n.at = photo[n.id].capturedAt /\ Dated(p)
      BY <1>8, <1>14, <2>3 DEF Due
    <3> HIDE DEF n
    <3>2. n.at = NULL \/ Beyond(p, n)
      BY <1>6, <1>7, <2>3, <3>1 DEF Beyond, Past, Before, Dated
    <3> QED BY <2>3, <3>2
  <2> QED BY <1>4, <2>1, <2>2, <2>3
<1> QED BY <1>5, <1>10, <1>11, <1>12, <1>13, <1>14 DEF Following, Steady, page, n

\* While photos move, a list keeps what it holds.
LEMMA LineKept ==
    ASSUME PhotosMoved, NEW l \in Lists, NEW s \in AssetList, NEW c \in CursorRow, NEW x \in BOOLEAN, NEW b \in BOOLEAN,
           LineOk(l, s, c, x, b)
    PROVE  LineOk(l, s, c, x, b)'
<1>1. \A i \in 1..Len(s) : s[i].id \in Photos
  BY RowsOfList
<1>2. dated \subseteq dated' /\ \A p \in Photos \ dated' : photo'[p].capturedAt = photo[p].capturedAt
  BY DEF PhotosMoved
<1>3. OnceIn(s)'
  BY <1>2 DEF LineOk, OnceIn
<1>4. UpToIn(l, s, c)'
  BY <1>1, <1>2 DEF LineOk, UpToIn, After, Beyond, Past, Dated
<1>5. \A p \in Steady' : p \in Steady /\ (Due(l, p)' => Due(l, p)) /\ (Beyond(p, c)' <=> Beyond(p, c))
  BY <1>2 DEF Steady, Due, Beyond, Past, Dated, PhotosMoved
<1>6. b \/ Held(l, s, c, x)'
  BY <1>5 DEF LineOk, Held, Listed
<1> QED BY <1>3, <1>4, <1>6 DEF LineOk

\* So does a page in flight.
LEMMA WantKept ==
    ASSUME PhotosMoved, NEW r \in WantRow \cup {NoWant}, WantOk(r)
    PROVE  WantOk(r)'
<1> SUFFICES ASSUME r # NoWant, r.read PROVE Following(r.list, r.page, r.cursor)'
  BY DEF WantOk
<1>1. PICK l, pg, c : l = r.list /\ pg = r.page /\ c = r.cursor
  OBVIOUS
<1>2. PICK s, n : s = pg.assets /\ n = pg.next
  OBVIOUS
<1>3. l \in Lists /\ c \in CursorRow /\ s \in AssetList /\ n \in CursorRow
  BY <1>1, <1>2 DEF WantRow, PageOfRows
<1>4. Following(l, pg, c)
  BY <1>1 DEF WantOk
<1>5. \A i \in 1..Len(s) : s[i].id \in Photos
  BY <1>3, RowsOfList
<1>6. dated \subseteq dated' /\ \A p \in Photos \ dated' : photo'[p].capturedAt = photo[p].capturedAt
  BY DEF PhotosMoved
<1>7. OnceIn(s)'
  BY <1>2, <1>4, <1>6 DEF Following, OnceIn
<1>8. \A p \in Photos \ dated' : (After(l, p, n)' <=> After(l, p, n)) /\ (After(l, p, c)' <=> After(l, p, c))
  BY <1>6 DEF After, Beyond, Past, Dated
<1>9. UpToIn(l, s, n)'
  BY <1>2, <1>4, <1>5, <1>6, <1>8 DEF Following, UpToIn
<1>10. c # NoCursor => /\ \A i \in 1..Len(s) : s[i].id \in dated' \/ After(l, s[i].id, c)'
                       /\ \A p \in Photos \ dated' : After(l, p, n)' => After(l, p, c)'
  BY <1>2, <1>4, <1>5, <1>6, <1>8 DEF Following
<1>11. \A p \in Steady' : /\ p \in Steady /\ (Due(l, p)' => Due(l, p))
                          /\ (Beyond(p, c)' <=> Beyond(p, c)) /\ (Beyond(p, n)' <=> Beyond(p, n))
  BY <1>6 DEF Steady, Due, Beyond, Past, Dated, PhotosMoved
<1>12. \A p \in Steady : Due(l, p) /\ (c = NoCursor \/ Beyond(p, c)) =>
           Listed(s, p) \/ (n # NoCursor /\ (n.at = NULL \/ Beyond(p, n)))
  BY <1>2, <1>4 DEF Following
<1>13. \A p \in Steady' : Due(l, p)' /\ (c = NoCursor \/ Beyond(p, c)') =>
           Listed(s, p) \/ (n # NoCursor /\ (n.at = NULL \/ Beyond(p, n)'))
  BY <1>11, <1>12
<1>14. Following(l, pg, c)'
  BY <1>2, <1>7, <1>9, <1>10, <1>13 DEF Following, Listed
<1> QED BY <1>1, <1>14

\* Two lists of rows, one after the other.
LEMMA Joining ==
    ASSUME NEW s \in AssetList, NEW t \in AssetList, NEW h, h = s \o t
    PROVE  /\ h \in AssetList
           /\ \A i \in 1..Len(h) : (i \in 1..Len(s) /\ h[i] = s[i]) \/ \E j \in 1..Len(t) : h[i] = t[j]
           /\ Len(s) \in Nat /\ Len(t) \in Nat /\ Len(h) = Len(s) + Len(t)
           /\ \A i \in 1..Len(s) : h[i] = s[i]
           /\ \A i \in 1..Len(t) : h[Len(s) + i] = t[i]
<1>1. s \in Seq(AssetRow) /\ t \in Seq(AssetRow)
  BY DEF AssetList
<1>2. h \in AssetList
  BY <1>1 DEF AssetList
<1>3. /\ Len(s) \in Nat /\ Len(t) \in Nat /\ Len(h) = Len(s) + Len(t)
      /\ \A i \in 1..Len(s) : h[i] = s[i]
      /\ \A i \in 1..Len(t) : h[Len(s) + i] = t[i]
  BY <1>1
<1>4. \A i \in 1..Len(h) : (i \in 1..Len(s) /\ h[i] = s[i]) \/ \E j \in 1..Len(t) : h[i] = t[j]
  BY <1>1, Appended
<1> QED BY <1>2, <1>3, <1>4

\* A page joins the list it was asked for: what becomes of the rows, of the list's end
\* and of its place.
Joins(l, s, c, x, b, r, h, y, d) ==
    /\ l \in Lists /\ s \in AssetList /\ c \in CursorRow /\ x \in BOOLEAN /\ b \in BOOLEAN /\ LineOk(l, s, c, x, b)
    /\ r \in WantRow /\ r.list = l /\ Following(l, r.page, r.cursor) /\ Serves(r, s, c, TRUE)
    /\ (r.more => h = s \o r.page.assets) /\ (~ r.more => h = r.page.assets)
    /\ y \in BOOLEAN /\ (l = "org" => (y <=> r.page.next = NoCursor))
    /\ d \in BOOLEAN /\ (r.page.next # NoCursor /\ r.page.next.at = NULL => d)
    /\ r.more /\ ~ (r.page.next # NoCursor /\ r.page.next.at = NULL) => (d <=> b)

\* The list is whole after it as it was before.
LEMMA LineLoaded ==
    ASSUME ListingInv, NEW l, NEW s, NEW c, NEW x, NEW b, NEW r, NEW h, NEW y, NEW d,
           Joins(l, s, c, x, b, r, h, y, d)
    PROVE  h \in AssetList /\ LineOk(l, h, r.page.next, y, d)
<1>1. /\ l \in Lists /\ s \in AssetList /\ c \in CursorRow /\ x \in BOOLEAN /\ b \in BOOLEAN /\ LineOk(l, s, c, x, b)
      /\ r \in WantRow /\ r.list = l /\ Following(l, r.page, r.cursor) /\ Serves(r, s, c, TRUE)
      /\ y \in BOOLEAN /\ d \in BOOLEAN
  BY DEF Joins
<1>2. PICK t, n : t = r.page.assets /\ n = r.page.next
  OBVIOUS
<1>3. t \in AssetList /\ n \in CursorRow /\ r.cursor \in CursorRow /\ r.more \in BOOLEAN
  BY <1>1, <1>2 DEF WantRow, PageOfRows
<1>4. /\ OnceIn(t) /\ UpToIn(l, t, n)
      /\ r.cursor # NoCursor =>
           /\ \A i \in 1..Len(t) : t[i].id \in dated \/ After(l, t[i].id, r.cursor)
           /\ \A p \in Photos \ dated : After(l, p, n) => After(l, p, r.cursor)
      /\ \A p \in Steady : Due(l, p) /\ (r.cursor = NoCursor \/ Beyond(p, r.cursor)) =>
           Listed(t, p) \/ (n # NoCursor /\ (n.at = NULL \/ Beyond(p, n)))
  BY <1>1, <1>2 DEF Following
<1>5. /\ (r.more => h = s \o t) /\ (~ r.more => h = t)
      /\ l = "org" => (y <=> n = NoCursor)
      /\ n # NoCursor /\ n.at = NULL => d
      /\ r.more /\ ~ (n # NoCursor /\ n.at = NULL) => (d <=> b)
  BY <1>2 DEF Joins
<1>6. CASE ~ r.more
  <2>1. h = t /\ r.cursor = NoCursor /\ l = "guest"
    BY <1>1, <1>5, <1>6 DEF Serves
  <2>2. d \/ Held(l, h, n, y)
    BY <1>4, <1>5, <2>1 DEF Held
  <2> QED BY <1>2, <1>3, <1>4, <1>5, <2>1, <2>2 DEF LineOk
<1>7. CASE r.more
  <2>1. h = s \o t /\ r.cursor = c /\ (c = NoCursor => s = <<>>)
    BY <1>1, <1>5, <1>7 DEF Serves
  <2>2. /\ h \in AssetList
        /\ \A i \in 1..Len(h) : (i \in 1..Len(s) /\ h[i] = s[i]) \/ \E j \in 1..Len(t) : h[i] = t[j]
    <3>1. h \in AssetList
      BY <1>1, <1>3, <2>1, Joining
    <3>2. \A i \in 1..Len(h) : (i \in 1..Len(s) /\ h[i] = s[i]) \/ \E j \in 1..Len(t) : h[i] = t[j]
      BY <1>1, <1>3, <2>1, Joining
    <3> QED BY <3>1, <3>2
  <2>3. \A i \in 1..Len(s) : c # NoCursor /\ s[i].id \in Photos
    BY <1>1, <2>1, RowsOfList
  <2>4. OnceIn(s) /\ UpToIn(l, s, c)
    BY <1>1 DEF LineOk
  <2>5. ASSUME NEW i \in 1..Len(s), NEW j \in 1..Len(t), s[i].id = t[j].id PROVE s[i].id \in dated
    BY <1>4, <2>1, <2>3, <2>4, <2>5 DEF UpToIn
  <2>6. OnceIn(h)
    BY <1>3, <1>4, <2>1, <2>4, <2>5, <1>1, OnceAppended
  <2>7. UpToIn(l, h, n)
    <3>1. ASSUME NEW i \in 1..Len(s) PROVE s[i].id \in dated \/ ~ After(l, s[i].id, n)
      BY <1>4, <2>1, <2>3, <2>4 DEF UpToIn
    <3> QED BY <1>4, <2>2, <3>1 DEF UpToIn
  <2>8. ASSUME NEW p \in Photos, Listed(s, p) \/ Listed(t, p) PROVE Listed(h, p)
    <3>1. /\ Len(s) \in Nat /\ Len(t) \in Nat /\ Len(h) = Len(s) + Len(t)
          /\ \A i \in 1..Len(s) : h[i] = s[i]
          /\ \A i \in 1..Len(t) : h[Len(s) + i] = t[i]
      BY <1>1, <1>3, <2>1, Joining
    <3>2. CASE Listed(s, p)
      <4>1. PICK i \in 1..Len(s) : s[i].id = p
        BY <3>2 DEF Listed
      <4>2. i \in 1..Len(h)
        BY <3>1
      <4> QED BY <3>1, <4>1, <4>2 DEF Listed
    <3>3. CASE Listed(t, p)
      <4>1. PICK i \in 1..Len(t) : t[i].id = p
        BY <3>3 DEF Listed
      <4>2. Len(s) + i \in 1..Len(h)
        BY <3>1
      <4> QED BY <3>1, <4>1, <4>2 DEF Listed
    <3> QED BY <2>8, <3>2, <3>3
  <2>9. d \/ Held(l, h, n, y)
    <3> SUFFICES ASSUME ~ d, NEW p \in Steady, Due(l, p),
                        (l = "org" /\ y) \/ (n # NoCursor /\ ~ Beyond(p, n))
                 PROVE  Listed(h, p)
      BY DEF Held
    <3>1. ~ b /\ (n # NoCursor => n.at # NULL) /\ (l = "org" /\ y => n = NoCursor)
      BY <1>1, <1>5, <1>7
    <3>2. p \in Photos
      BY DEF Steady
    <3>3. CASE c = NoCursor \/ Beyond(p, c)
      <4>1. Listed(t, p)
        BY <1>4, <2>1, <3>1, <3>3
      <4> QED BY <2>8, <3>2, <4>1
    <3>4. CASE c # NoCursor /\ ~ Beyond(p, c)
      <4>1. Listed(s, p)
        BY <1>1, <3>1, <3>4 DEF LineOk, Held
      <4> QED BY <2>8, <3>2, <4>1
    <3> QED BY <3>3, <3>4
  <2> QED BY <1>2, <1>5, <2>2, <2>6, <2>7, <2>9 DEF LineOk
<1> QED BY <1>3, <1>6, <1>7

\* The requests when one changes and no photo moves.
LEMMA WantsKept ==
    ASSUME TimelineInv, UNCHANGED <<photo, dated>>, NEW w \in Wants, NEW r \in WantRow \cup {NoWant},
           want' = [want EXCEPT ![w] = r], WantOk(r)
    PROVE  /\ want' \in [Wants -> WantRow \cup {NoWant}] /\ \A v \in Wants : WantOk(want[v])'
           /\ want'[w] = r /\ \A v \in Wants : v # w => want'[v] = want[v]
<1>1. /\ want \in [Wants -> WantRow \cup {NoWant}] /\ \A v \in Wants : WantOk(want[v])
      /\ PhotosMoved
  BY PhotosRest DEF TimelineInv, TimelineTypes
<1>2. want'[w] = r /\ \A v \in Wants : v # w => want'[v] = want[v]
  BY <1>1
<1>3. ASSUME NEW v \in Wants PROVE WantOk(want[v])'
  <2>1. PICK q : q = want'[v]
    OBVIOUS
  <2>2. q \in WantRow \cup {NoWant} /\ WantOk(q)
    BY <1>1, <1>2, <2>1
  <2>3. WantOk(q)'
    BY <1>1, <2>2, WantKept
  <2> QED BY <2>1, <2>3 DEF WantOk
<1> QED BY <1>1, <1>2, <1>3

\* The lists when none of them changes.
LEMMA LinesRest ==
    ASSUME TimelineInv, PhotosMoved, UNCHANGED <<rows, cursor, exhausted, broken>>
    PROVE  \A l \in Lists : LineOk(l, rows[l], cursor[l], exhausted, l \in broken)'
<1> TAKE l \in Lists
<1>1. PICK s, c, x : s = rows[l] /\ c = cursor[l] /\ x = exhausted
  OBVIOUS
<1>2. PICK b \in BOOLEAN : b <=> l \in broken
  OBVIOUS
<1>3. s \in AssetList /\ c \in CursorRow /\ x \in BOOLEAN /\ LineOk(l, s, c, x, b)
  BY <1>1, <1>2 DEF TimelineInv, TimelineTypes
<1>4. LineOk(l, s, c, x, b)'
  BY <1>3, LineKept
<1>5. rows'[l] = s /\ cursor'[l] = c /\ exhausted' = x /\ (b <=> l \in broken')
  BY <1>1, <1>2
<1> QED BY <1>4, <1>5 DEF LineOk, UpToIn, Held, After, Beyond

\* A photo moves while the lists stay as they are.
LEMMA TimelineRests ==
    ASSUME TimelineInv, PhotosMoved, UNCHANGED <<listVars, want>>
    PROVE  TimelineInv'
<1> USE DEF listVars
<1>1. ListingInv' /\ TimelineTypes'
  BY DEF PhotosMoved, TimelineInv, TimelineTypes
<1>2. \A w \in Wants : WantOk(want[w])'
  <2> TAKE w \in Wants
  <2>1. PICK r : r = want[w]
    OBVIOUS
  <2>2. r \in WantRow \cup {NoWant} /\ WantOk(r)
    BY <2>1 DEF TimelineInv, TimelineTypes
  <2>3. WantOk(r)'
    BY <2>2, WantKept
  <2> QED BY <2>1, <2>3 DEF WantOk
<1>3. \A l \in Lists : LineOk(l, rows[l], cursor[l], exhausted, l \in broken)'
  BY LinesRest
<1>4. \A w \in Wants : want'[w] # NoWant =>
          Serves(want[w], rows[want[w].list], cursor[want[w].list], loading[want[w].list])'
  BY DEF TimelineInv, Serves
<1>5. \A w, v \in Wants : want'[w] # NoWant /\ want'[v] # NoWant /\ w # v => want'[w].list # want'[v].list
  BY DEF TimelineInv
<1> QED BY <1>1, <1>2, <1>3, <1>4, <1>5 DEF TimelineInv

\* A list asks for its next page, or its first.
LEMMA LoadMoves ==
    ASSUME TimelineInv, NEW w \in Wants, NEW l \in Lists, NEW more \in BOOLEAN, loadPage(w, l, more)
    PROVE  TimelineInv'
<1>1. PICK r : r = [list |-> l, more |-> more, read |-> FALSE, page |-> Page({}),
                    cursor |-> IF more THEN cursor[l] ELSE NoCursor]
  OBVIOUS
<1>2. NoCursor \in CursorRow /\ cursor[l] \in CursorRow
  BY DEF NoCursor, CursorRow, TimelineInv, TimelineTypes
<1>3. Page({}) \in PageOfRows
  <2>1. Page({}).assets \in AssetList /\ Page({}).next \in CursorRow
    <3>1. {} \in SUBSET Photos /\ ListingInv
      BY DEF TimelineInv
    <3> QED BY <3>1, PageHolds DEF AssetList
  <2>2. \E s, n : Page({}) = [assets |-> s, next |-> n]
    BY DEF Page
  <2> QED BY <2>1, <2>2 DEF PageOfRows
<1>4. /\ r \in WantRow /\ r.list = l /\ r.more = more /\ r.read = FALSE
      /\ r.cursor = IF more THEN cursor[l] ELSE NoCursor
  BY <1>1, <1>2, <1>3 DEF WantRow
<1>5. /\ want' = [want EXCEPT ![w] = r] /\ loading' = [loading EXCEPT ![l] = TRUE]
      /\ want[w] = NoWant /\ ~ loading[l]
      /\ UNCHANGED <<photo, dated, open, rows, cursor, exhausted, broken>>
  BY <1>1 DEF loadPage
<1>6. WantOk(r)
  BY <1>4 DEF WantOk
<1>7. /\ want' \in [Wants -> WantRow \cup {NoWant}] /\ \A v \in Wants : WantOk(want[v])'
      /\ want'[w] = r /\ \A v \in Wants : v # w => want'[v] = want[v]
  BY <1>4, <1>5, <1>6, WantsKept
<1>8. PhotosMoved
  BY <1>5, PhotosRest DEF TimelineInv
<1>9. TimelineTypes' /\ loading'[l] = TRUE /\ \A k \in Lists : k # l => loading'[k] = loading[k]
  BY <1>5, <1>7 DEF TimelineInv, TimelineTypes
<1>10. r.cursor = NoCursor => rows[l] = <<>>
  <2>1. CASE l = "org"
    <3>1. LineOk(l, rows[l], cursor[l], exhausted, l \in broken)
      BY DEF TimelineInv
    <3> QED BY <1>4, <2>1, <3>1 DEF LineOk, loadPage
  <2>2. CASE l = "guest"
    BY <1>4, <2>2 DEF loadPage
  <2> QED BY <2>1, <2>2 DEF Lists
<1>11. ~ more => l = "guest"
  BY DEF loadPage, Lists
<1>12. Serves(r, rows[l], cursor[l], loading'[l])
  BY <1>4, <1>9, <1>10, <1>11 DEF Serves
<1>13. ASSUME NEW v \in Wants, v # w, want[v] # NoWant
       PROVE  want[v].list \in Lists /\ want[v].list # l
  <2>1. want[v] \in WantRow /\ Serves(want[v], rows[want[v].list], cursor[want[v].list], loading[want[v].list])
    BY <1>13 DEF TimelineInv, TimelineTypes
  <2> QED BY <1>5, <2>1 DEF Serves, WantRow
<1>14. \A v \in Wants : want'[v] # NoWant =>
          Serves(want[v], rows[want[v].list], cursor[want[v].list], loading[want[v].list])'
  <2> SUFFICES ASSUME NEW v \in Wants, want'[v] # NoWant
               PROVE  Serves(want[v], rows[want[v].list], cursor[want[v].list], loading[want[v].list])'
    OBVIOUS
  <2>1. CASE v = w
    BY <1>4, <1>5, <1>7, <1>12, <2>1 DEF Serves
  <2>2. CASE v # w
    <3>1. Serves(want[v], rows[want[v].list], cursor[want[v].list], loading[want[v].list])
      BY <1>7, <2>2 DEF TimelineInv
    <3> QED BY <1>5, <1>7, <1>9, <1>13, <2>2, <3>1 DEF Serves
  <2> QED BY <2>1, <2>2
<1>15. \A u, v \in Wants : want'[u] # NoWant /\ want'[v] # NoWant /\ u # v => want'[u].list # want'[v].list
  BY <1>4, <1>7, <1>13 DEF TimelineInv
<1>16. \A k \in Lists : LineOk(k, rows[k], cursor[k], exhausted, k \in broken)'
  BY <1>5, <1>8, LinesRest
<1> QED BY <1>7, <1>8, <1>9, <1>14, <1>15, <1>16 DEF TimelineInv, PhotosMoved

\* The server reads the page.
LEMMA AnsweredMoves ==
    ASSUME TimelineInv, NEW w \in Wants, Answered(w)
    PROVE  TimelineInv'
<1>1. PICK q : q = want[w]
  OBVIOUS
<1>2. q \in WantRow /\ want \in [Wants -> WantRow \cup {NoWant}]
  BY <1>1 DEF TimelineInv, TimelineTypes, Answered
<1>3. PICK pg : pg = Fetch(q.list, q.cursor)
  OBVIOUS
<1>4. pg \in PageOfRows /\ Following(q.list, pg, q.cursor)
  <2>1. q.list \in Lists /\ q.cursor \in CursorRow /\ ListingInv
    BY <1>2 DEF WantRow, TimelineInv
  <2> QED BY <1>3, <2>1, FetchRead
<1>5. PICK r : r = [q EXCEPT !.read = TRUE, !.page = pg]
  OBVIOUS
<1>6. want' = [want EXCEPT ![w] = r]
  BY <1>1, <1>2, <1>3, <1>5 DEF Answered
<1>7. r \in WantRow /\ r.list = q.list /\ r.more = q.more /\ r.cursor = q.cursor /\ r.page = pg
  BY <1>2, <1>4, <1>5 DEF WantRow
<1>8. WantOk(r)
  BY <1>4, <1>7 DEF WantOk
<1>9. UNCHANGED <<photo, dated, listVars>>
  BY DEF Answered
<1>10. /\ want' \in [Wants -> WantRow \cup {NoWant}] /\ \A v \in Wants : WantOk(want[v])'
       /\ want'[w] = r /\ \A v \in Wants : v # w => want'[v] = want[v]
  BY <1>6, <1>7, <1>8, <1>9, WantsKept
<1>11. PhotosMoved
  BY <1>9, PhotosRest DEF TimelineInv
<1>12. TimelineTypes'
  BY <1>9, <1>10 DEF TimelineInv, TimelineTypes, listVars
<1>13. want[w] # NoWant
  BY DEF Answered
<1>14. \A v \in Wants : /\ want'[v] # NoWant => want[v] # NoWant
                        /\ want[v] # NoWant => /\ want'[v].list = want[v].list /\ want'[v].more = want[v].more
                                               /\ want'[v].cursor = want[v].cursor
  BY <1>1, <1>7, <1>10, <1>13
<1>15. \A v \in Wants : want'[v] # NoWant =>
          Serves(want[v], rows[want[v].list], cursor[want[v].list], loading[want[v].list])'
  BY <1>9, <1>14 DEF TimelineInv, Serves, listVars
<1>16. \A u, v \in Wants : want'[u] # NoWant /\ want'[v] # NoWant /\ u # v => want'[u].list # want'[v].list
  BY <1>14 DEF TimelineInv
<1>17. \A k \in Lists : LineOk(k, rows[k], cursor[k], exhausted, k \in broken)'
  BY <1>9, <1>11, LinesRest DEF listVars
<1> QED BY <1>10, <1>11, <1>12, <1>15, <1>16, <1>17 DEF TimelineInv, PhotosMoved

\* What the wants of the other lists need when one list has its answer.
LEMMA OthersServed ==
    ASSUME TimelineInv, NEW w \in Wants, want[w] # NoWant, UNCHANGED <<photo, dated>>,
           want' = [want EXCEPT ![w] = NoWant],
           \A l \in Lists : l # want[w].list =>
               rows'[l] = rows[l] /\ cursor'[l] = cursor[l] /\ loading'[l] = loading[l]
    PROVE  /\ want' \in [Wants -> WantRow \cup {NoWant}] /\ \A v \in Wants : WantOk(want[v])'
           /\ \A v \in Wants : want'[v] # NoWant =>
                  Serves(want[v], rows[want[v].list], cursor[want[v].list], loading[want[v].list])'
           /\ \A u, v \in Wants : want'[u] # NoWant /\ want'[v] # NoWant /\ u # v => want'[u].list # want'[v].list
<1>1. PICK n : n = NoWant
  OBVIOUS
<1>2. WantOk(n)
  BY <1>1 DEF WantOk
<1>3. /\ want' \in [Wants -> WantRow \cup {NoWant}] /\ \A v \in Wants : WantOk(want[v])'
      /\ want'[w] = NoWant /\ \A v \in Wants : v # w => want'[v] = want[v]
  BY <1>1, <1>2, WantsKept
<1>4. ASSUME NEW v \in Wants, want'[v] # NoWant
      PROVE  v # w /\ want'[v] = want[v] /\ want[v].list \in Lists /\ want[v].list # want[w].list
  <2>1. v # w /\ want'[v] = want[v] /\ want[v] \in WantRow
    BY <1>3, <1>4 DEF TimelineInv, TimelineTypes
  <2> QED BY <1>4, <2>1 DEF TimelineInv, WantRow
<1>5. \A v \in Wants : want'[v] # NoWant =>
          Serves(want[v], rows[want[v].list], cursor[want[v].list], loading[want[v].list])'
  <2> SUFFICES ASSUME NEW v \in Wants, want'[v] # NoWant
               PROVE  Serves(want[v], rows[want[v].list], cursor[want[v].list], loading[want[v].list])'
    OBVIOUS
  <2>1. Serves(want[v], rows[want[v].list], cursor[want[v].list], loading[want[v].list])
    BY <1>4 DEF TimelineInv
  <2> QED BY <1>4, <2>1 DEF Serves
<1>6. \A u, v \in Wants : want'[u] # NoWant /\ want'[v] # NoWant /\ u # v => want'[u].list # want'[v].list
  BY <1>4 DEF TimelineInv
<1> QED BY <1>3, <1>5, <1>6

\* The page comes.
LEMMA LoadedMoves ==
    ASSUME TimelineInv, NEW w \in Wants, Loaded(w)
    PROVE  TimelineInv'
<1>1. PICK r : r = want[w]
  OBVIOUS
<1>2. PICK l : l = r.list
  OBVIOUS
<1>3. /\ r \in WantRow /\ want[w] # NoWant /\ r.read /\ l \in Lists /\ r.more \in BOOLEAN
      /\ Following(l, r.page, r.cursor) /\ Serves(r, rows[l], cursor[l], loading[l])
  <2>1. r \in WantRow /\ want[w] # NoWant /\ r.read
    BY <1>1 DEF TimelineInv, TimelineTypes, Loaded
  <2> QED BY <1>1, <1>2, <2>1 DEF TimelineInv, WantOk, WantRow
<1>4. PICK s, c, x : s = rows[l] /\ c = cursor[l] /\ x = exhausted
  OBVIOUS
<1>5. PICK b \in BOOLEAN : b <=> l \in broken
  OBVIOUS
<1>6. s \in AssetList /\ c \in CursorRow /\ x \in BOOLEAN /\ LineOk(l, s, c, x, b)
  BY <1>3, <1>4, <1>5 DEF TimelineInv, TimelineTypes
<1>7. PICK h : (r.more => h = s \o r.page.assets) /\ (~ r.more => h = r.page.assets)
  <2>1. CASE r.more
    BY <2>1
  <2>2. CASE ~ r.more
    BY <2>2
  <2> QED BY <2>1, <2>2
<1>8. PICK n : n = r.page.next
  OBVIOUS
<1>9. PICK y \in BOOLEAN : y = IF l = "org" THEN n = NoCursor ELSE x
  BY <1>6
<1>10. PICK d \in BOOLEAN : d = IF n # NoCursor /\ n.at = NULL THEN TRUE
                               ELSE IF r.more THEN b ELSE FALSE
  OBVIOUS
<1>11. n \in CursorRow
  BY <1>3, <1>8 DEF WantRow, PageOfRows
<1>12. h \in AssetList /\ LineOk(l, h, n, y, d)
  <2>1. Serves(r, s, c, TRUE) /\ ListingInv
    BY <1>3, <1>4 DEF Serves, TimelineInv
  <2>2. y \in BOOLEAN /\ (l = "org" => (y <=> n = NoCursor))
    BY <1>9
  <2>3. /\ d \in BOOLEAN /\ (n # NoCursor /\ n.at = NULL => d)
        /\ r.more /\ ~ (n # NoCursor /\ n.at = NULL) => (d <=> b)
    BY <1>10
  <2>4. Joins(l, s, c, x, b, r, h, y, d)
    BY <1>2, <1>3, <1>5, <1>6, <1>7, <1>8, <2>1, <2>2, <2>3 DEF Joins
  <2> QED BY <1>8, <2>1, <2>4, LineLoaded
<1>13. /\ rows' = [rows EXCEPT ![l] = h] /\ cursor' = [cursor EXCEPT ![l] = n]
       /\ loading' = [loading EXCEPT ![l] = FALSE] /\ want' = [want EXCEPT ![w] = NoWant]
       /\ UNCHANGED <<photo, dated, open>>
  <2>1. /\ rows' = [rows EXCEPT ![l] = IF r.more THEN rows[l] \o r.page.assets ELSE r.page.assets]
        /\ cursor' = [cursor EXCEPT ![l] = n]
        /\ loading' = [loading EXCEPT ![l] = FALSE] /\ want' = [want EXCEPT ![w] = NoWant]
        /\ UNCHANGED <<photo, dated, open>>
    BY <1>1, <1>2, <1>8 DEF Loaded
  <2>2. CASE r.more
    BY <1>4, <1>7, <2>1, <2>2
  <2>3. CASE ~ r.more
    BY <1>7, <2>1, <2>3
  <2> QED BY <2>2, <2>3
<1>14. exhausted' = y
  BY <1>1, <1>2, <1>4, <1>8, <1>9 DEF Loaded
<1>15. broken' \subseteq Lists /\ (d <=> l \in broken') /\ \A k \in Lists : k # l => (k \in broken' <=> k \in broken)
  <2>1. broken' = IF n # NoCursor /\ n.at = NULL THEN broken \cup {l} ELSE IF r.more THEN broken ELSE broken \ {l}
    BY <1>1, <1>2, <1>8 DEF Loaded
  <2>2. broken \subseteq Lists
    BY DEF TimelineInv, TimelineTypes
  <2>3. CASE n # NoCursor /\ n.at = NULL
    BY <1>3, <1>10, <2>1, <2>2, <2>3
  <2>4. CASE ~ (n # NoCursor /\ n.at = NULL) /\ r.more
    <3>1. d = b /\ broken' = broken
      BY <1>10, <2>1, <2>4
    <3> QED BY <1>5, <2>2, <3>1
  <2>5. CASE ~ (n # NoCursor /\ n.at = NULL) /\ ~ r.more
    <3>1. d = FALSE /\ broken' = broken \ {l}
      BY <1>10, <2>1, <2>5
    <3> QED BY <2>2, <3>1
  <2> QED BY <2>3, <2>4, <2>5
<1>16. /\ rows \in [Lists -> AssetList] /\ cursor \in [Lists -> CursorRow] /\ loading \in [Lists -> BOOLEAN]
  BY DEF TimelineInv, TimelineTypes
<1>17. /\ rows'[l] = h /\ cursor'[l] = n
       /\ \A k \in Lists : k # l => rows'[k] = rows[k] /\ cursor'[k] = cursor[k] /\ loading'[k] = loading[k]
  BY <1>3, <1>13, <1>16
<1>18. /\ want' \in [Wants -> WantRow \cup {NoWant}] /\ \A v \in Wants : WantOk(want[v])'
       /\ \A v \in Wants : want'[v] # NoWant =>
              Serves(want[v], rows[want[v].list], cursor[want[v].list], loading[want[v].list])'
       /\ \A u, v \in Wants : want'[u] # NoWant /\ want'[v] # NoWant /\ u # v => want'[u].list # want'[v].list
  BY <1>1, <1>2, <1>3, <1>13, <1>17, OthersServed
<1>19. PhotosMoved
  BY <1>13, PhotosRest DEF TimelineInv
<1>20. TimelineTypes'
  BY <1>3, <1>11, <1>12, <1>13, <1>14, <1>15, <1>16, <1>18 DEF TimelineInv, TimelineTypes
<1>21. LineOk(l, h, n, y, d)'
  BY <1>3, <1>11, <1>12, <1>19, LineKept
<1>22. \A k \in Lists : LineOk(k, rows[k], cursor[k], exhausted, k \in broken)'
  <2> TAKE k \in Lists
  <2>1. CASE k = l
    BY <1>14, <1>15, <1>17, <1>21, <2>1 DEF LineOk, UpToIn, Held, After, Beyond
  <2>2. CASE k # l
    <3>1. PICK e, f : e = rows[k] /\ f = cursor[k]
      OBVIOUS
    <3>2. PICK g \in BOOLEAN : g <=> k \in broken
      OBVIOUS
    <3>3. e \in AssetList /\ f \in CursorRow /\ LineOk(k, e, f, x, g)
      BY <1>4, <3>1, <3>2 DEF TimelineInv, TimelineTypes
    <3>4. k = "org" => y = x
      BY <1>3, <1>9, <2>2 DEF Lists
    <3>5. LineOk(k, e, f, y, g)
      BY <1>3, <1>9, <2>2, <3>3 DEF LineOk, Held, Lists
    <3>6. LineOk(k, e, f, y, g)'
      BY <1>19, <3>3, <3>5, LineKept
    <3>7. rows'[k] = e /\ cursor'[k] = f /\ (g <=> k \in broken')
      BY <1>15, <1>17, <2>2, <3>1, <3>2
    <3> QED BY <1>14, <3>6, <3>7 DEF LineOk, UpToIn, Held, After, Beyond
  <2> QED BY <2>1, <2>2
<1> QED BY <1>18, <1>19, <1>20, <1>22 DEF TimelineInv, PhotosMoved

\* The request fails.
LEMMA FailedMoves ==
    ASSUME TimelineInv, NEW w \in Wants, Failed(w)
    PROVE  TimelineInv'
<1>1. PICK l : l = want[w].list
  OBVIOUS
<1>2. want[w] # NoWant /\ l \in Lists
  BY <1>1 DEF TimelineInv, TimelineTypes, Failed, WantRow
<1>3. /\ want' = [want EXCEPT ![w] = NoWant] /\ loading' = [loading EXCEPT ![l] = FALSE]
      /\ UNCHANGED <<photo, dated, open, cursor, exhausted>>
      /\ l = "guest" => rows' = [rows EXCEPT ![l] = <<>>] /\ broken' = broken \cup {l}
      /\ l # "guest" => rows' = rows /\ broken' = broken
  BY <1>1 DEF Failed
<1>4. /\ rows \in [Lists -> AssetList] /\ cursor \in [Lists -> CursorRow] /\ loading \in [Lists -> BOOLEAN]
      /\ broken \subseteq Lists
  BY DEF TimelineInv, TimelineTypes
<1>5. /\ \A k \in Lists : k # l => rows'[k] = rows[k] /\ cursor'[k] = cursor[k] /\ loading'[k] = loading[k]
      /\ \A k \in Lists : k # l => (k \in broken' <=> k \in broken)
  BY <1>2, <1>3, <1>4
<1>6. /\ want' \in [Wants -> WantRow \cup {NoWant}] /\ \A v \in Wants : WantOk(want[v])'
      /\ \A v \in Wants : want'[v] # NoWant =>
             Serves(want[v], rows[want[v].list], cursor[want[v].list], loading[want[v].list])'
      /\ \A u, v \in Wants : want'[u] # NoWant /\ want'[v] # NoWant /\ u # v => want'[u].list # want'[v].list
  BY <1>1, <1>2, <1>3, <1>5, OthersServed
<1>7. PhotosMoved
  BY <1>3, PhotosRest DEF TimelineInv
<1>8. <<>> \in AssetList /\ Len(<<>>) = 0
  BY DEF AssetList
<1>9. TimelineTypes'
  <2>1. rows' \in [Lists -> AssetList] /\ loading' \in [Lists -> BOOLEAN] /\ broken' \subseteq Lists
    BY <1>2, <1>3, <1>4, <1>8
  <2> QED BY <1>3, <1>6, <2>1 DEF TimelineInv, TimelineTypes
<1>10. \A k \in Lists : LineOk(k, rows[k], cursor[k], exhausted, k \in broken)'
  <2> TAKE k \in Lists
  <2>1. CASE k = l /\ l = "guest"
    <3>1. rows'[k] = <<>> /\ k \in broken'
      BY <1>2, <1>3, <1>4, <2>1
    <3> QED BY <1>8, <2>1, <3>1 DEF LineOk, OnceIn, UpToIn
  <2>2. CASE k # l \/ l # "guest"
    <3>1. PICK e, f, x : e = rows[k] /\ f = cursor[k] /\ x = exhausted
      OBVIOUS
    <3>2. PICK g \in BOOLEAN : g <=> k \in broken
      OBVIOUS
    <3>3. e \in AssetList /\ f \in CursorRow /\ x \in BOOLEAN /\ LineOk(k, e, f, x, g)
      BY <3>1, <3>2 DEF TimelineInv, TimelineTypes
    <3>4. LineOk(k, e, f, x, g)'
      BY <1>7, <3>3, LineKept
    <3>5. rows'[k] = e /\ cursor'[k] = f /\ exhausted' = x /\ (g <=> k \in broken')
      BY <1>3, <1>5, <2>2, <3>1, <3>2
    <3> QED BY <3>4, <3>5 DEF LineOk, UpToIn, Held, After, Beyond
  <2> QED BY <2>1, <2>2
<1> QED BY <1>6, <1>7, <1>9, <1>10 DEF TimelineInv, PhotosMoved

\* The invariant of the timelines is inductive (photos/+page.svelte:30-45, g/[token]:91-105).
LEMMA TimelineStep == TimelineInv /\ [TimelineNext]_timelineVars => TimelineInv' /\ PhotosMoved
<1> SUFFICES ASSUME TimelineInv, [TimelineNext]_timelineVars PROVE TimelineInv' /\ PhotosMoved
  OBVIOUS
<1>1. ASSUME UNCHANGED <<photo, dated>> PROVE PhotosMoved
  BY <1>1, PhotosRest DEF TimelineInv
<1>2. ASSUME NEW w \in Wants, NEW more \in BOOLEAN, loadPage(w, open, more) PROVE TimelineInv' /\ PhotosMoved
  <2>1. open \in Lists
    BY DEF TimelineInv, TimelineTypes
  <2> QED BY <1>1, <1>2, <2>1, LoadMoves DEF loadPage
<1>3. ASSUME NEW w \in Wants, Answered(w) PROVE TimelineInv' /\ PhotosMoved
  BY <1>1, <1>3, AnsweredMoves DEF Answered
<1>4. ASSUME NEW w \in Wants, Loaded(w) PROVE TimelineInv' /\ PhotosMoved
  BY <1>1, <1>4, LoadedMoves DEF Loaded
<1>5. ASSUME NEW w \in Wants, Failed(w) PROVE TimelineInv' /\ PhotosMoved
  BY <1>1, <1>5, FailedMoves DEF Failed
<1>6. CASE photoMoves
  <2>1. PhotosMoved
    BY <1>6, PhotoMoves DEF photoMoves, TimelineInv
  <2> QED BY <1>6, <2>1, TimelineRests DEF photoMoves
<1>7. CASE UNCHANGED timelineVars
  BY <1>1, <1>7, TimelineRests DEF timelineVars, listVars
<1> QED BY <1>2, <1>3, <1>4, <1>5, <1>6, <1>7 DEF TimelineNext

\* It holds of empty lists.
LEMMA TimelineStart == TimelineInit => TimelineInv
<1> SUFFICES ASSUME TimelineInit PROVE TimelineInv
  OBVIOUS
<1>1. ListingInv
  BY ListingStart DEF TimelineInit
<1>2. NoCursor \in CursorRow /\ <<>> \in AssetList /\ Len(<<>>) = 0
  BY DEF AssetList, CursorRow, NoCursor
<1>3. TimelineTypes
  BY <1>2 DEF TimelineInit, TimelineTypes
<1>4. \A w \in Wants : want[w] = NoWant
  BY DEF TimelineInit
<1>5. ASSUME NEW l \in Lists PROVE LineOk(l, rows[l], cursor[l], exhausted, l \in broken)
  <2>1. rows[l] = <<>> /\ cursor[l] = NoCursor /\ exhausted = FALSE
    BY DEF TimelineInit
  <2> QED BY <1>2, <2>1 DEF LineOk, OnceIn, UpToIn, Held
<1> QED BY <1>1, <1>3, <1>4, <1>5 DEF TimelineInv, WantOk

\* What the lists show, from their invariant.
LEMMA TimelineShows == TimelineInv => ListedOnce /\ NoGap
<1> SUFFICES ASSUME TimelineInv PROVE ListedOnce /\ NoGap
  OBVIOUS
<1>1. ASSUME NEW l \in Lists
      PROVE  /\ rows[l] \in AssetList /\ DOMAIN rows[l] = 1..Len(rows[l]) /\ cursor[l] \in CursorRow
             /\ LineOk(l, rows[l], cursor[l], exhausted, l \in broken)
  BY DEF TimelineInv, TimelineTypes, AssetList
<1>2. ListedOnce
  BY <1>1 DEF LineOk, OnceIn, ListedOnce
<1>3. NoGap
  <2> SUFFICES ASSUME NEW l \in Lists \ broken, NEW p \in Photos \ (Uploads \cup dated),
                      Present(p), Dated(p), l = "guest" => AlbumOf[p] = Shared,
                      \/ l = "org" /\ exhausted
                      \/ /\ cursor[l] # NoCursor
                         /\ \/ photo[p].capturedAt > cursor[l].at
                            \/ photo[p].capturedAt = cursor[l].at /\ p >= cursor[l].id
               PROVE  \E i \in DOMAIN rows[l] : rows[l][i].id = p
    BY DEF NoGap
  <2>1. p \in Steady /\ Due(l, p)
    BY DEF Steady, Due
  <2>2. Held(l, rows[l], cursor[l], exhausted) /\ (cursor[l] # NoCursor => cursor[l].at # NULL)
    BY <1>1 DEF LineOk
  <2>3. ASSUME cursor[l] # NoCursor, \/ photo[p].capturedAt > cursor[l].at
                                     \/ photo[p].capturedAt = cursor[l].at /\ p >= cursor[l].id
        PROVE  ~ Beyond(p, cursor[l])
    <3>1. /\ p \in Nat /\ photo[p].capturedAt \in Int /\ cursor[l].at \in Int /\ cursor[l].id \in Nat
          /\ cursor[l].at # NULL
      BY <1>1, <2>2, <2>3, DatesAreNumbers, ListingNumbers DEF TimelineInv, CursorRow
    <3> QED BY <2>3, <3>1 DEF Beyond, Past
  <2>4. Listed(rows[l], p)
    BY <2>1, <2>2, <2>3 DEF Held
  <2> QED BY <1>1, <2>4 DEF Listed
<1> QED BY <1>2, <1>3

\* The lists that page while photos come and go show none twice, and miss none that
\* had its date and stayed, as far as they kept their place (photos/+page.svelte:30-45,
\* g/[token]:91-105, asset.repository.ts:131-145).
THEOREM TimelinesAreWhole == TimelineSpec => [](ListedOnce /\ NoGap)
<1>1. TimelineInit => TimelineInv
  BY TimelineStart
<1>2. TimelineInv /\ [TimelineNext]_timelineVars => TimelineInv'
  BY TimelineStep
<1>3. TimelineInv => ListedOnce /\ NoGap
  BY TimelineShows
<1> QED BY <1>1, <1>2, <1>3, PTL DEF TimelineSpec

-----------------------------------------------------------------------------
(* The client *)

\* A step of the client is one of each component, or leaves it as it is.
LEMMA ClientSteps ==
    ASSUME [MCNext]_clientVars
    PROVE  /\ [PhotoViewerNext]_viewerVars /\ [SelfieWaitNext]_waitVars
           /\ [ReelNext]_reelVars /\ [SettingsNext]_settingsVars
           /\ \/ EventPageNext /\ UNCHANGED <<listVars, want>>
              \/ TimelineNext /\ UNCHANGED pageVars
              \/ UNCHANGED <<photo, dated, pageVars, listVars, want>>
<1> USE DEF otherVars
<1>1. CASE focus = "page" /\ EventPageNext /\ UNCHANGED <<timelineOnly, otherVars>>
  BY <1>1 DEF timelineOnly
<1>2. CASE focus = "timeline" /\ TimelineNext /\ UNCHANGED <<pageVars, otherVars>>
  BY <1>2
<1>3. CASE UNCHANGED <<photo, dated, pageVars, timelineOnly>> /\ PhotoViewerNext
           /\ UNCHANGED <<waitVars, reelVars, settingsVars, cropVars, mailVars>>
  BY <1>3 DEF timelineOnly
<1>4. CASE UNCHANGED <<photo, dated, pageVars, timelineOnly>> /\ SelfieWaitNext
           /\ UNCHANGED <<viewerVars, reelVars, settingsVars, cropVars, mailVars>>
  BY <1>4 DEF timelineOnly
<1>5. CASE UNCHANGED <<photo, dated, pageVars, timelineOnly>> /\ ReelNext
           /\ UNCHANGED <<viewerVars, waitVars, settingsVars, cropVars, mailVars>>
  BY <1>5 DEF timelineOnly
<1>6. CASE UNCHANGED <<photo, dated, pageVars, timelineOnly>> /\ SettingsNext
           /\ UNCHANGED <<viewerVars, waitVars, reelVars, cropVars, mailVars>>
  BY <1>6 DEF timelineOnly
<1>7. CASE UNCHANGED <<photo, dated, pageVars, timelineOnly, viewerVars, waitVars, reelVars, settingsVars>>
  BY <1>7 DEF timelineOnly
<1>8. CASE UNCHANGED clientVars
  BY <1>8 DEF clientVars, timelineOnly
<1> QED BY <1>1, <1>2, <1>3, <1>4, <1>5, <1>6, <1>7, <1>8 DEF MCNext

\* The page and the timelines, over the same photos.
LEMMA GalleriesHold == MCSpec => [](EventPageInv /\ TimelineInv)
<1>1. MCInit => EventPageInv /\ TimelineInv
  BY EventPageStart, TimelineStart DEF MCInit
<1>2. EventPageInv /\ TimelineInv /\ [MCNext]_clientVars => (EventPageInv /\ TimelineInv)'
  <2> SUFFICES ASSUME EventPageInv, TimelineInv, [MCNext]_clientVars PROVE EventPageInv' /\ TimelineInv'
    OBVIOUS
  <2>1. CASE EventPageNext /\ UNCHANGED <<listVars, want>>
    BY <2>1, EventPageStep, TimelineRests
  <2>2. CASE TimelineNext /\ UNCHANGED pageVars
    BY <2>2, TimelineStep, PageRests DEF pageVars
  <2>3. CASE UNCHANGED <<photo, dated, pageVars, listVars, want>>
    <3>1. PhotosMoved
      BY <2>3, PhotosRest DEF EventPageInv
    <3> QED BY <2>3, <3>1, PageRests, TimelineRests DEF pageVars
  <2> QED BY <2>1, <2>2, <2>3, ClientSteps
<1> QED BY <1>1, <1>2, PTL DEF MCSpec

\* In the client the viewer, the selfie wait, the reel and the settings run as on their own.
LEMMA ComponentsRun == MCSpec => PhotoViewerSpec /\ SelfieWaitSpec /\ ReelSpec /\ SettingsSpec
<1>1. MCInit => PhotoViewerInit /\ SelfieWaitInit /\ ReelInit /\ SettingsInit
  BY DEF MCInit
<1>2. [MCNext]_clientVars => /\ [PhotoViewerNext]_viewerVars /\ [SelfieWaitNext]_waitVars
                             /\ [ReelNext]_reelVars /\ [SettingsNext]_settingsVars
  BY ClientSteps
<1> QED BY <1>1, <1>2, PTL DEF MCSpec, PhotoViewerSpec, SelfieWaitSpec, ReelSpec, SettingsSpec

\* What a page shows belongs to what it is about (events/[eventId]/+page.svelte:67-133,
\* PhotoViewer.svelte:278, settings/+page.svelte:41).
THEOREM ScreensFitTheirSubject == MCSpec => []ScreensFit
<1>1. EventPageInv /\ TimelineInv => ShownOnce /\ OnlyItsPhotos /\ ListedOnce /\ NoGap
  BY PageShows, TimelineShows
<1>2. ScreensFit <=> /\ ShownOnce /\ OnlyItsPhotos /\ ListedOnce /\ NoGap /\ OverlayOfShownPhoto
                     /\ ForeignEditsFlagged /\ DownloadsNeedSharing /\ CoverIsItsOwn
  BY DEF ScreensFit
<1> QED BY <1>1, <1>2, GalleriesHold, ComponentsRun, ViewerKeepsToItsPhoto, SettingsFitTheirEvent, PTL

\* Whatever is waited for is asked for, by one timer, and a page left with nothing on
\* its way has none (events/[eventId]/+page.svelte:66-92, e/[slug]/+page.svelte:47-66,
\* memories/[eventId]/+page.svelte:57).
THEOREM WaitsAreWatchedAlways == MCSpec => []WaitsAreWatched
<1>1. EventPageInv => UnfinishedIsPolled /\ LeftIsQuiet
  BY PageShows
<1>2. WaitsAreWatched <=> /\ UnfinishedIsPolled /\ LeftIsQuiet /\ SpinnerIsWatched /\ HiddenTabIsQuiet
                          /\ OnePace /\ ReelMoves /\ ReelEnds /\ NoStrayTimer
  BY DEF WaitsAreWatched
<1> QED BY <1>1, <1>2, GalleriesHold, ComponentsRun, SpinnersAreWatched, ReelKeepsPace, ViewerKeepsToItsPhoto, PTL
=============================================================================
