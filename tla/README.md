# TLA+ models of the event media platform

The platform collects the photographs and videos of an event (uploads, cloud
folder imports), derives thumbnails and embeddings from them, groups faces into
people, matches guests' selfies to those people and mails each guest a private
gallery. The backend is one NestJS code base run as two kinds of process: an
API, and workers that serve BullMQ queues in Redis. Postgres holds the rows,
Cloudflare R2 the objects. The face and embedding queues are served by a GPU
machine that is rented by the minute and switched on and off by the backend. A
SvelteKit client shows it all to organisers, guests and administrators.

Hardly any row is guarded by a transaction across awaits or by a conditional
update; a few unique keys are the exception. So what can go wrong is mostly the
same thing in different places: a row is read, something is awaited, and the row
is written from what was read. The client has the same shape: a page asks, the
user moves on, and the answer is applied to whatever is on screen then. The
models therefore make **every `await` of a modelled handler a step boundary**,
and the properties are about what survives the interleavings this allows,
together with lost answers, crashed workers, retries, late sweeps and answers
that overtake each other.

Paths below are relative to `src/apps/backend/src` unless they start with `src/`
or, for pages and components of the client, `web/` (`src/apps/web/src`).

## Layout

| module | what it is |
| --- | --- |
| `GpuLifecycle` | the GPU machine's lifecycle service, its stored record, the machine, its watchdog and the GPU queues |
| `JobQueue` | which process serves which queue; queueing, retries, reclaims, lost locks, the administrator's controls |
| `Telemetry` | the heartbeat key every process publishes and who reads it |
| `AuditTrail` | the audit log, its retention, its flush and the page that tails it |
| `EventExpiry` | the expiry and purge sweeps, the organizers' requests, the notice and the prefix delete |
| `MediaRetention` | the abstract promise about the photos of a closed event, which `EventExpiry` implements |
| `ImportPipeline` | cloud folder import: listing, fan-out, download, dedupe, counters, cancel |
| `CloudAccounts` | the OAuth round trip, stored tokens, shared lazy refresh, revocation |
| `ImportsPage` | the imports page and its folder wizard |
| `Selfies` | selfie intake, processing, matching, rematch, match sweep, retention |
| `GuestMail` | the three mails a guest gets, and the gallery's reads and downloads |
| `SelfieWait` | the guest who waits on the page: ticket, progress answer, polls |
| `FacePipeline` | detection, incremental clustering, cleanup, merge, cover and names |
| `PersonPage`, `PeoplePage` | a person's page with its selection; the people page with its merges, and the two side by side |
| `SmartSearch` | image embeddings, their backfill, failover between servers |
| `Library` | uploads, quota, media processing, deletion, cleanup, the browser's upload queue |
| `Listing` | the listing query with its cursor over dated and undated photos |
| `EventPage`, `Timeline` | the event's gallery and the two growing lists over `Listing` |
| `PhotoViewer`, `MemoryReel`, `Settings`, `CropBox` | the viewer, the reel, the settings form, the crop rectangle |
| `Tenancy` | organizations, members, plans and events |
| `Accounts` | one account's password, sessions and reset links |
| `Access` | the routes of the controllers in order, and the guard |
| `Figures` | storage, totals, the bell and the processing bar from their queries |
| `MailLog` | sending, the provider's webhooks, support tickets |
| `ImportPipeline_proofs`, `Selfies_proofs` | the TLAPS proofs about the module of that name |
| `Events_proofs` | those about `EventExpiry` and about the pages of events in the web client (`MCClient` without `CropBox` and `MailLog`) |
| `Operations_proofs` | those about `GpuLifecycle`, `JobQueue`, `Telemetry` and `AuditTrail` |
| `Tenancy_proofs` | those about `Tenancy`, `Accounts` and `MailLog` |
| `Providers_proofs` | those about `CloudAccounts`, `GuestMail` and `ImportsPage` |
| `Library_proofs` | those about `Library` and `CropBox` |
| `People_proofs` | those about `FacePipeline`, `PeoplePage` and `SmartSearch` |
| `MC*` | what TLC needs beside a `.cfg` file: functions as constants, symmetry, and the composites described below |

`PROJECT.json` lists components, runs, the map from definitions to source lines,
hazards, mutants and theorems.

    tlc -workers 2 -config guests.cfg MCSelfies
    tlapm Events_proofs.tla

**Composites.** `MCOperations`, `MCImports`, `MCPeople`, `MCTenancy` and
`MCClient` each put several small components next to each other. They share no
variable and no step, so a behaviour follows one of them, its `focus`, and the
others stay at one initial value; the state space is the sum of theirs, not the
product. Components that do meet in the code are not split this way: they are one
module (`Library` has the browser, the API, the workers and the sweeps; `Selfies`
the intake and everything that writes the same rows) or one refers to the other
by what it does to the shared rows (matches in `GuestMail`, claims in
`FacePipeline`).

**Mutants.** Definitions that stand directly before a mapped definition and are
used nowhere (`CountsFromStart`, `NoGrace`, `SetsProcessedFirst`, ...) are wrong
variants of the code, each a bug one could plausibly write there. Substituting one
for the definition it precedes makes TLC report the property that guards against
it; `PROJECT.json` lists the pairs.

**Named parts.** A component's invariant is a conjunction of named parts, each
with its own comment (`LibraryInv == TypeOK /\ LiveHasObjects /\ ObjectsAccounted
/\ OverrunBounded`). The runs check the conjunction.

## Inventory

For each part: its state, its operations, what is hard, and what makes it correct.

### GPU lifecycle, JarvisLabs, telemetry

* **Code** `services/gpu-lifecycle.service.ts`, the `gpuLifecycleState` record in
  `repositories/system-config.repository.ts`, `src/scripts/gpu-autoshutdown.sh`,
  `repositories/jarvislabs.repository.ts`, `repositories/telemetry.repository.ts`.
* **State** one JSON record (`state`, `since`, `idleSince`, `holdUntil`,
  `machineId`), read and written whole; `lastProviderCheckAt` in memory; a Redis
  key with a time to live per process; the watchdog's failure count.
* **Operations** the sweep (every two minutes), `start`, `stop`, `holdIdle`,
  `clearHold`, `heartbeat`, `predictNextAction`; the box's own polling; publish and
  teardown of the key.
* **Hard** two writers of one record; calls that take effect without answering;
  ids that change on resume; a publish in flight when the key is deleted.
* **Correct when** the box is started when and only when there is work, is stopped
  only after a full idle window, never stays on for nothing, a countdown outlives its
  run only where one operation went past another, and the panel lists what is up.

### Job queue

* **Code** `repositories/job.repository.ts`, `types.ts`, the start-up in `main.ts`.
* **State** per queue the jobs with their attempts, stalls and locks; which process
  runs which worker; the schedules.
* **Operations** start and stop of processes, `queue`, taking, finishing, failing,
  renewing or losing a lock, reclaiming a stalled job, pause, retry, kill, clean.
* **Hard** each process decides alone what it consumes; a lost lock does not stop
  its handler; a kill moves a job it does not hold.
* **Correct when** every queue is served, clustering by one handler at a time, no
  accepted job is lost without an administrator, none is run for ever.

Job ids and deduplication are modelled where they matter: the rematch in
`Selfies`, the digest in `GuestMail`, the queue-all sweep in `FacePipeline`;
`rateLimitQueue` in `ImportPipeline`.

### Event expiry and retention

* **Code** `services/event-expiry.service.ts`, the expiry queries and
  `setExpiryState` of `repositories/event.repository.ts`, `update` of
  `services/event.service.ts`, `CleanupPrefix`, the owner's notice in
  `services/notification.service.ts`.
* **State** `expiresAt`, `expiryNotifiedAt`, `expiryAcknowledgedAt`, `purgeAfter`,
  `purgedAt` of the event; the media under its prefix; two queued jobs.
* **Operations** hourly expiry sweep, daily purge sweep, extend, the general update
  of an event, acknowledge, purge now; retry and clear of a failed delete.
* **Hard** sweeps act on snapshots; extend races both; an update moves the date
  and leaves the marks; a crash between the two writes of a purge; a delete out of attempts; sweeps that run late; more due rows than a sweep takes.
* **Correct when** nothing is deleted before its grace period, nothing is
  recorded as purged without a delete that was done, waits or is kept as failed, owners
  are told of the date they lose their photos by, once, and what stays expired is
  deleted in the end.

### Cloud imports and accounts

* **Code** `services/import.service.ts`, `repositories/import.repository.ts`,
  `services/cloud.service.ts`, `web/routes/(app)/events/[eventId]/imports`.
* **State** `import_job` (status and four counters), `import_item` (status, owner
  import, checksum, asset), assets keyed by (event, checksum), objects in R2; the
  account's tokens; the page's list, timer and breadcrumbs.
* **Hard** retry after a partial listing, a second import of the same folder,
  cancel against the listing, files that change or share content, rate limits
  that return a job to its queue, workers that die mid-download; a refresh that
  fails after a reconnect.
* **Correct when** every import ends, "done" means settled and counted, skipping
  a file loses nothing, each asset has its object and no object is left over; an
  account that was reconnected stays so unless a call holds its earlier row.

### Guests: selfies, matching, gallery, mail, waiting page

* **Code** `services/public.service.ts`, `services/participant.service.ts`,
  `repositories/participant.repository.ts`, `services/notification.service.ts`,
  `services/selfie-progress.service.ts`, `controllers/participant-admin.controller.ts`,
  `web/routes/e/[slug]`, `web/routes/g/[token]`.
* **State** the participant row (status, key, embedding, gallery token,
  `awaitingResultNotice`, `lastNotifiedAt`), its selfies, its matches, the mails on
  their way, the page's ticket and timer.
* **Hard** a new selfie while the old one is processed; statuses written from a
  count; a crash between inserting matches and announcing them; swallowed job ids;
  a flag set from a status that has settled; a throttle that skips; a tab that is
  hidden and shown while requests overlap.
* **Correct when** the row is true, every guest settles and is matched unless the
  job failed for good, every match's notice is asked for, the live link reaches the guest, digests keep apart, and
  nobody watches a dead spinner.

### Faces, people, smart search

* **Code** `services/face.service.ts`, `services/person.service.ts`, their
  repositories, `services/smart-search.service.ts`,
  `repositories/machine-learning.repository.ts`, the people pages.
* **State** faces with their person and claim, persons with cover and name, the
  recognition queue, the cleaner's and the organiser's requests in progress.
* **Hard** order-dependent clustering with deferral; people deleted by the cleanup
  or a merge under the worker; names from guests, organisers and merges racing;
  pages that merge what a late answer put on screen.
* **Correct when** every face that can be clustered is, a face's person lives,
  carries the claimed name and a portrait of its own, names never go back, and the
  backfill misses no photo.

### Photos: uploads, quota, media, assets, cleanup, lists

* **Code** `web/lib/uploads.svelte.ts`, `middleware/file-upload.interceptor.ts`,
  `services/upload.service.ts`, `quota.service.ts`, `media.service.ts`,
  `asset.service.ts`, `cleanup.service.ts`, `repositories/asset.repository.ts`, the
  gallery pages, `web/lib/components/PhotoViewer.svelte`.
* **State** the browser's items, staged files, assets, objects, jobs, keys to be
  removed; the pages' lists, cursors and timers.
* **Hard** check-then-put quota, a checksum race, deletion against processing, rows
  dropped before their keys, an event deleted under its uploads; cursors on undated
  photos; pages that are reused for another event.
* **Correct when** a photo shown has its objects, an object has its row or a
  cleanup, the quota is overrun by less than the uploads that overlapped, everything
  comes to rest, and a page shows what it is about.

### Organizations, accounts, access, figures, audit, mail log

* **Code** `services/organization.service.ts`, `event.service.ts`,
  `auth.service.ts`, the session and password-reset repositories, the controllers'
  routes, `audit-log.service.ts`, `support.service.ts`,
  `repositories/email-log.repository.ts`, the figures' queries.
* **Hard** rules checked before the write (last owner, event limit, plan limits);
  requests that die between statements; a link marked used before the password is
  set; a route taken by an earlier one's parameter; one figure from five queries;
  webhooks in any order.
* **Correct when** an organization loses its last owner only in the ways the code
  cannot see, limits hold up to the requests in flight, sessions of an old password
  are explained, a locked account has a way back, each call meets its own route and
  guard, figures agree, and the latest webhook decides.

### Not modelled

See the section of that name.

## The modules

Conventions: a handler's progress is a `pc` (or `at`, `op`, `step`) with the locals
it carries over an await; external things (the provider's machine, a mail server,
the network) are actions by their outcome; `credit` counts faults still to be
spent; history variables say so where they are declared.

### GpuLifecycle

`st` is the stored record; `rec[a]` the copy actor `a` carries to its next write;
`pc[a]` the await it is at. Actors are `Sweepers` (Background slots running
`GpuLifecycleSweep`) and `Admins` (API requests).

| action | code |
| --- | --- |
| `Sweep`, `ProviderChecked` | `handleGpuLifecycleSweep` up to and after `getProviderState`; its branches in `SweepDecision`, carried out by `Apply` |
| `StartRead`, `StartMark`, `StartCall` | `start()`: read, mark `starting`, call the webhook or JarvisLabs |
| `StopRead`, `StopMark`, `StopCall` | `stop()` |
| `WriteState` | the `setGpuLifecycleState` that ends an operation |
| `HoldIdle`, `ClearHold`, `StartNow`, `StopNow` | the admin's controls |
| `Heartbeat`, `HeartbeatFails`, `HeartbeatUnparsed` | the box's poll, `KeepAlive` being `heartbeat()` |
| `Boot`, `WorkerDies`, `Halt`, `JobArrives`, ... `JobStalled` | machine, worker and queues (environment) |
| `Crash` | the process dies at an await |

`ShouldStart` is `evaluateTrigger`, `LiveActive` the orphan rule of
`getQueueSummary`, `predictNextAction` the status line. Timestamps are *ages* in
ticks of one sweep period that saturate at `Cap`, above every interval compared
with, so the model has no end of time and liveness is meaningful. `mid` says only
whether the id the code would fall back on still names the machine. At most one job
is active at a time. The watchdog is taken to run under systemd with restart, as its
installation notes say.

Three history variables remember how operations overlap: `on`, how long the machine's
run has lasted; `stale`, the actors another of which has written the record or called
the provider since they began; `overlapped`, that one of those wrote or called since the
last start was marked by an actor that was not stale.

### JobQueue, Telemetry, AuditTrail

`JobQueue`: `startWorkers` is the include/exclude/role rule of one process,
`registerCronSchedules` the schedules; a run is a handler with or without its lock,
so a reclaimed job may run beside the handler that lost it. `killing` is what
`killActive` has read and not come to. `Telemetry`: one unit of time is one heartbeat
interval; `published` and `misses` say how long the key has to live. `AuditTrail`:
rows with a class and a day, the sweep, the flush that records itself after its
delete, and the page's polls, whose answers come in any order. A row is dated to the
microsecond and a cursor to the millisecond (`Ms`, with `Micros` instants in one), so a
poll brings the newest row again every two seconds, also when nothing is new, although
the page says at its lines 6-7 that a poll "gets back an empty array"; and "load older"
passes over the rows of its cursor's own millisecond. Rows become visible in the order
of their dates: inserts that commit out of order are not modelled.

### EventExpiry and MediaRetention

A row per event, a clock, the two sweeps with the snapshot they still have to
work through, and requests that read and check in one step and write in another.
`ExpirySweep`/`ExpiryMark`/`ExpiryQueue` are `handleEventExpirySweep`;
`PurgeSweep`/`PurgeRecheck`/`PurgeQueue`/`PurgeMark` are `handleEventPurgeSweep`
with `purge()`; `ExtendRead/Write`, `AcknowledgeRead/Write` and
`PurgeNowRead/Queue/Mark` the requests; `update` is the general update of an event,
which writes any date, past ones too, or none, and neither reads nor clears marks,
deadline and purge. `CleanupPrefix` and `SendEventExpiry` are the queued jobs;
`CleanupFails` is a delete out of attempts, which an administrator retries
(`retryFailed`) or clears (`clear`). `OldestOf` is `ORDER BY ... LIMIT`. Request handlers finish within a
clock unit (`Tick` waits for them); a sweep may span several. Events are not
created or soft-deleted during a behaviour. History variables: `darkFrom`, since when the
links were dark; `notice`, whether the notice of the present date was queued; `moved`,
that the date was changed behind the marks or while a sweep held the event.

`MediaRetention` is what an organizer is promised, without sweeps, rows or jobs: the
photos of an event are `kept`, `doomed` or `gone`; they are doomed only when an
organizer of the closed event asks or when the grace period since the event first
closed has passed; what is doomed is erased and never kept again; an event is shown
as deleted only after that. `EventExpiry` instantiates it with
`clock <- now`, `closed <- darkFrom`, `life` from the media and the queued prefix
delete, `asked` from the purge requests past their check, and
`recorded` from `purgedAt`; `KeepsRetention` is the abstract specification under
that mapping.

### ImportPipeline, CloudAccounts, ImportsPage

All imports are of one event and one folder, where they interact; an item is then
the same thing as its remote file, by the unique key. A content stands for its
checksums of both kinds (the provider's and SHA-1 of the download). `lister[j]` is
the `ImportFolder` job with its locals, `worker[w]` an `ImportFile` job. Removing
the losing object of a checksum race is one step with losing it: nobody else knows
the key. `Hashed` are the files for which the provider reports a checksum.
`CloudAccounts` is one organization's account: grants at the provider, the stored
tokens, and calls that read, refresh and store in separate steps; `steady` is a history
variable: the account was connected with no call at work on an earlier row. `ImportsPage` has
the list's and the details' requests in flight as sets, answered in any order.

### Selfies, GuestMail, SelfieWait

`Selfies` has the rows, the `submitSelfie` request in its four statements, the
`SelfieProcess` handlers (`TakeSelfie`, embedding one selfie at a time, the match,
the count and the status as two steps), the one slot of the Match queue (rematch and
sweep), removal, retention, `CleanupKeys`, and the deletion of photos, which takes the
matches along (`StorageReconcile`) and leaves the statuses. A handler may throw or die at
any await (`ProcessFails`): its job comes back or is `givenUp`, kept as failed until an
administrator retries it. A selfie set is named by the number of its submission,
so that a stale one can be told from the current one. `GuestMail` takes matches by
their effect (`StartMatching`, `InsertMatches`, `SettleMatch`) and has the three
notices with their flags, the throttle, the digest's job id, the resend and the
gallery's two steps. An acknowledgement may throw on an attempt or on its last, and is
then not sent again. `SelfieWait` has the ticket and its expiry, the server's
answer and the page's polls.

### FacePipeline, PeoplePage, PersonPage, SmartSearch

Distances are the relation `Near`; `searchFaces`, `isCore` and the deferral are the
code's. `worker` is the only job of the recognition queue; `cleaner`, `desk` and
`guest` are the cleanup, the organiser's request and the participant handler, each
between its read and its write. `clock` orders claims and renames. In
`SmartSearch` a photo keeps its status while the backfill pages: a run that sets it back
(`runJob`, or a processing that failed) takes the photo out of `getProcessedAssetIds`
under it, and its own processing queues the embedding when it ends
(`media.service.ts:117-123`).

### Library, Listing, EventPage, Timeline, PhotoViewer

`Library` runs from the browser's `item` over `request` (POST /assets: staged,
admitted, put, row) to the `AssetProcess` handlers, deletion in its two forms, the
purge of an event that stays, `CleanupKeys`, `CleanupPrefix`, the staging sweep and the
nightly reconciliation. `Batch` tells which `enqueue()` call, of which tab, a file came
with: each call has `UPLOAD_CONCURRENCY` workers of its own, so nothing bounds the
uploads of all of them. History variables: `peak`, the most uploads between check and
row at once; `wiped`, whose original a purge took. The rows of purged photos stay and
count in the quota, and `uploadAsset` asks neither for expiry nor for a purge.
A file is one byte long, so the quota counts photos. `Listing` is the query: NULL
dates sort first and compare with nothing. The pages page through it while photos
are uploaded, dated and deleted.

### Tenancy, Accounts, Access, Figures, MailLog, Settings, MemoryReel, CropBox

`Tenancy` and `Accounts` have requests of several statements that interleave or die
at every await. The administrator's reset ends with its mail: `mailed` are the links whose
token somebody has, since only their hash is stored. `Access` is a table: the routes of every controller in the order of
registration, `Matches` the router, `verifyOrgRole` and the other needs the guard;
its steps ask every call of the client as every kind of visitor. `Figures` computes
the same figures by the five queries that do. `CropBox` is in units of a frame where
the code has fractions.

## Runs

| run | instance | shows |
| --- | --- | --- |
| `gpu` | one sweep, no admin, JarvisLabs, watchdog, every fault, 3 events | `Quiesces`: when events stop, no job waits and the machine is off and recorded off |
| `operations` | the webhook provider, a sweep and an admin; three processes and two jobs; two processes' keys; a log of two rows and two polls | `PredictionMatchesSweep`: the panel and the sweep never disagree; `StopsOnlyWhenEarned`: a sweep stops the box only for a whole idle window with no hold left, or a start that timed out; `CountdownInv`: record and countdown are of the machine's own run, unless one operation went past another; `QueuesServedOnce`, `JobsAccounted`: clustering runs once, no queue and no job is lost, a poisonous one is given up; `PanelsTellTruth`: the panel lists what is up and the log page tails faithfully to the millisecond |
| `expiry_requests` | one event, two requests, one crash or delete out of attempts | `KeepsRetention`: the retention promise is implemented; `ExpiryInv`: deadlines, marks and deletes stay together; `OwnersForewarned`: a purge comes a whole grace period after its date and after one notice of it, but for dates moved behind the marks; `ExpiredIsPurged` |
| `import_single` | one import, two files that may share or change content, two workers, two faults | `ImportEnds`, `DoneIsTrue`, `CancelIsFinal`, and `StorageAccounted`: a fault leaves at most one orphaned object or unprocessed asset, a race leaves none |
| `import_resync` | two imports of one file, errors and crashes; two calls on one account; two events' pages | `ResyncLosesNothing`: "already synced" is true; `ReconnectHolds`: a reconnected account keeps its connection and its token; `ImportsPageFits` |
| `guests` | one guest, two submissions, one selfie slot, a photo that may be deleted, one failure | `RowIsTrue`, `NoticesAskedFor`: a match nobody asked a notice for cost a failure; `GuestsAreServed`: no selfie stays processing but by a failed job, nobody shown in a photo stays without a match |
| `guest_mail` | one guest, three photos, two mail slots, one failure of a notice, acknowledgements that fail | `GalleryReachable`: a live link is in a mail or on its way unless its acknowledgement ran out of attempts, and what can be downloaded can be seen; `DigestsApart` |
| `faces` | three faces in a chain, cluster size three | `FacesClustered`: deferred faces end in the cluster |
| `people` | two faces, three persons, two names or a crash; two events' people; two persons' pages; two photos, two servers | `PeopleInv`, `NamesMoveForward`; `PeoplePagesFit`; `SearchComplete` |
| `library` | three uploads of two batches, two alike, quota of one, two slots, one deletion or purge, re-run and fault | `LibraryInv`: bucket, rows and quota agree; `ComesToRest` |
| `tenancy` | two organizations, users and slugs, three events, two requests; one account; all routes; two organizations' figures | `TenancyInv`, `LastOwnerLostToStaleRoster`, `AccountInv`, `AnswersAgree` |
| `client` | four photos in two events, pages of one; a viewer over three; two polls; three reels; two events' forms; a frame of two; one message, two tickets | `ScreensFit`, `WaitsAreWatched`, `CropInFrame`, `MailLogTrue` |

### Where a property stops

A property checked under a restriction, or with an exception in it, stops where the
code does; the hazards in `PROJECT.json` say so at the line. The ones to know:

* `heartbeat()` measures idleness from `since`: a box that has worked longer than the
  window halts the moment its queues drain, although
  `system-config.repository.ts:103` says otherwise. `Quiesces` shows nothing is lost.
* A start that took effect and whose answer was lost is recorded `off` and fired
  again, against `gpu-lifecycle.service.ts:714`.
* Every write of the GPU record is of a whole copy read earlier. An operation that goes
  on after another has written or called can bring back an earlier run's record with its
  countdown, for which the next sweep stops the box; and a hold written between a
  sweep's decision and `stop()`'s own read is discarded. `CountdownInv` and
  `StopsOnlyWhenEarned` name these overlaps (`overlapped`, `stale`) and TLC shows that
  neither holds without the exception. `Quiesces` is about waiting jobs: one left
  *active* by a box that went down stops counting once it is stuck, and nothing
  starts the box for it. Unparseable heartbeat answers never add up to a halt.
* The retention promise is about the *first* date an event went dark at: an extend
  between the expiry sweep's query and its write leaves the old deadline on the new
  date, and one between the purge's re-read and its queue call does not stop the
  delete. A late expiry sweep leaves no time between notice and purge. The general
  update moves a date under its marks: the old deadline stands, nobody is told of the
  new date, and one put in the past counts as given. A prefix delete that is out of
  attempts leaves the media of an event on record as purged until it is retried.
* An event whose date is removed while the sweep holds it in its snapshot matches
  the purge query for ever and takes one place of its limit; with two events and a
  limit of one it starves the other, so `ExpiredIsPurged` has one event.
* The update that ends a listing overwrites `cancelled` (`CancelIsFinal` is about a
  cancel that met no listing or flip in flight). A worker that dies downloading
  leaves an item no retry takes, and a second import of the folder takes over items
  of the first: `ImportEnds` has neither. A file that changes between listing and
  download is recorded with a checksum of content that never arrived:
  `ResyncLosesNothing` has none. Either of the first two leaves counters that do not
  add up: `DoneIsTrue` has one import and no crash.
* A refresh that fails with the row from before a reconnect revokes the reconnected
  account (`cloud.service.ts:146`), and one that succeeds stores a token of the old consent.
* A guest whose selfie job is out of attempts stays `processing`. A deleted photo takes
  its matches along and leaves the status `matched`. A digest whose job id is held, by
  one that is active or kept as failed, is swallowed, and an acknowledgement out of
  attempts is not sent again: the guest has no link.
* The organiser's resend kills the guest's link and queues a mail that may be
  skipped. A digest that meets the throttle is dropped, not delayed.
* A detection that dies between the faces and their jobs leaves them to the sweep or
  a forced re-run.
* The quota is overrun by less than the uploads that overlapped, however many enqueue()
  calls and tabs there are, the event limit by the requests in flight; the last owner may
  go by two overlapping changes. A purge leaves the rows of the photos it took.
* An account locked by an administrator's reset is opened by nothing but its mail: when
  rendering or sending throws, the link is there and nobody has it.
* The quota route, called member-level at `organization.controller.ts:38-43`, has no
  guard: `AnswersAgree` names it as served to everybody. The comment at
  `asset.repository.ts:185-188` says the organization's storage counts the photos of
  soft-deleted events; the query leaves them out, as the other four do.
* A page of photos, a selfie page or a reel that is left with a request under way is
  given a timer by the answer (`e/[slug]/+page.svelte:47-66`, `memories/[eventId]`
  57 and 126, `events/[eventId]/+page.svelte:66-92`), which nothing clears:
  `WaitsAreWatched` is about pages left with none.
* An answer for the event left behind is shown until the next one; a page that ends
  on an undated photo skips what follows.

### Bounds

Every bound is a constant of the module it bounds.

* GPU: all intervals are 2 ticks (`StartTimeout` 1), `Cap` 3: every interval can be
  undershot, hit and exceeded. The trigger threshold is 2. `MaxEvents` bounds
  arrivals, faults and admin requests together; 3 in `gpu` is enough for a
  second arrival after a fault, or, with `FailureGrace` 1, for a whole run of failed
  polls with a job. `operations` has 3, without the watchdog: an admin against the
  sweep, with two faults. Sweeps, ticks and polls are not bounded.
* Queues: three hosts in two deployments are one process too many and one too few
  for each rule; two jobs of one name can run beside each other; `MaxFaults` 2 is a
  stall on top of a lost lock. Telemetry: `TTL` 4 with seven moments is a key's whole
  life twice. Log: pages of one row and at most two rows make every page full; two
  instants in a millisecond are two rows of one cursor and a third of the next.
* Expiry: `Grace` 1 and `LastDate` 3 leave room for expire, extend or update, expire
  again and a full grace period before `MaxTime` 5, after which the sweeps still run.
* Import: two files and two workers are the smallest instance with a concurrent
  finish and a content race; `Attempts` 2 has one retry. Two calls and `MaxGrants` 2
  are a refresh across a reconnect.
* Guests: two submissions are a stale selfie against a current one, with the selfie
  worker, the matcher and the deletion of a photo as three writers; a second selfie slot
  is left to the proofs, which have any number. Three photos are a gallery and two digests.
* Faces: a chain of three with `minFaces` 3 makes the middle one the only core face,
  whatever the order; a behaviour of it has names or a request, not both.
  Two faces and three person ids allow a person to be deleted and made again, with
  a request and either two claims and renames or one and a crash; `PeopleStayTrue` has
  any number of each.
* Library: three uploads, two of them alike, over a quota of one, from two enqueue()
  calls of concurrency one that run side by side.
* Tenancy: two requests overlap; three events exceed both plans' limits. Client: two
  events, pages of one photo and two requests in flight are the smallest case of an
  overtaken answer; the numbers of clicks, turns, visits and edits are what the
  longest counterexample of a mutant takes and some more.

Symmetry is used in runs without liveness only, over sets of model values (requests
in flight, jobs, slots, photos of one kind), shared between components where they
play the same role.

Deadlock is checked in `gpu`, where time never stops. In the other runs the
system may stop: a bounded clock ends, a batch has been uploaded, an import is
done, and users need not act.

### Fairness

Only what a scheduler guarantees; nothing is assumed of users, arrivals or faults.

* GPU: the cron queues a sweep every two minutes (`WF Sweep`); every await returns
  or times out (`WF Step`); a powered machine boots and its units run (`WF Boot`,
  `Heartbeat`, `Halt`); a box started again and again boots once before its start
  timeout (`SF TimelyBoot`); workers serve their queues whenever they are up (`SF`
  on the four job actions, strong because the box goes up and down); time passes.
* Expiry: both sweeps recur by cron, queued jobs run, time passes, and a request
  past its checks makes its write.
* Import: the queue is served and a running handler makes its next step; a cancel
  that has read its import writes.
* Guests: a submission in progress, the selfie handlers, the Match queue and the
  scrub make their next step (weak); the match sweep recurs by cron, strong because
  the Match queue's one slot is taken and freed in between.
* Faces: detection, recognition, the nightly upkeep and a request in progress (weak).
* Library: the API serves what the browser sent, processing, cleanup and the sweeps
  run (weak).

The runs `operations`, `import_resync`, `guest_mail`, `people`, `tenancy` and
`client` check safety and assume none.

## Proofs

Every theorem is about the specification of one component (`Spec`, or
`JobQueueSpec`, `AccountsSpec`, `CloudAccountsSpec`, `MailLogSpec`, `ImportsPageSpec`,
`PeoplePagesSpec`, `SmartSearchSpec`, `CropSpec`, `TelemetrySpec`, `AuditTrailSpec`,
`EventPageSpec`, `TimelineSpec`, ...), for every value of its constants
that the assumptions below admit. A composite run follows one component at a time (see
Composites), so what it checks of a component is this specification's, on a small
instance. `ScreensFit` and `WaitsAreWatched` speak of several components of the client
and are proved of the composite that the run checks, `MCSpec`; `PanelsTellTruth` of the
conjunction of two specifications that share no variable.

| theorem | property, and the run that checks it | for any |
| --- | --- | --- |
| `Operations_proofs!TypeCorrect`, `CountdownHolds` | `TypeOK` (`gpu`), `CountdownInv` (`operations`) | sweepers, admins, intervals, faults |
| `PredictionAgrees` | `PredictionMatchesSweep` (`operations`) | the same |
| `StopsAreEarned` | `StopsOnlyWhenEarned` (`operations`) | the same |
| `JobsAreAccounted` | `JobsAccounted` (`operations`) | jobs, names, processes, faults |
| `QueuesAreServedOnce` | `QueuesServedOnce` (`operations`) | the same, in a fleet that is `Arranged` |
| `PanelsAreTrue`, from `HeartbeatsTell`, `FlushesLeaveTraces` and `TailIsFaithful` | `PanelsTellTruth` (`operations`) and its parts | processes, entries, filters, polls, page size, instants in a millisecond |
| `Events_proofs!ExpiryInvHolds`, `ScheduledMeansNotifiedHolds`, `PurgedMeansDeletedHolds` | `ExpiryInv` and its parts (`expiry_requests`) | events, requests, crashes, failed deletes |
| `OwnersAreForewarned`, `NeverWithinFirstGraceHolds` | `OwnersForewarned` (`expiry_requests`), `NeverWithinFirstGrace` | the same |
| `RetentionKept` | `KeepsRetention`: `EventExpiry` implements `MediaRetention` | the same |
| `ScreensFitTheirSubject`, with `EventPageIsItsEvents`, `TimelinesAreWhole`, `ViewerKeepsToItsPhoto`, `SettingsFitTheirEvent` | `ScreensFit` (`client`) and its parts | photos, dates, events, page size, requests in flight |
| `WaitsAreWatchedAlways`, with `SpinnersAreWatched`, `ReelKeepsPace` | `WaitsAreWatched` (`client`) and its parts | the same, and polls, reels |
| `ImportPipeline_proofs!AssetsHaveObjects`, `BucketIsAccounted` | `StorageAccounted` (`import_single`) and its part | imports, files, contents, workers, faults |
| `CancelStands` | `CancelIsFinal` (`import_single`) | the same |
| `DoneIsTold` | `DoneIsTrue` (`import_single`) | files, workers, faults; one import, no died process |
| `ResyncIsSafe` | `ResyncLosesNothing` (`import_resync`) | the same, no remote file replaced |
| `Selfies_proofs!RowsAreTrue`, `NoticesAlwaysAskedFor` | `RowIsTrue`, `NoticesAskedFor` (`guests`) | guests, photos, handlers, submissions, failures |
| `Library_proofs!LibraryAgrees` | `LibraryInv` (`library`) | uploads, batches, handlers, deletions, re-runs, faults |
| `CropStaysInFrame` | `CropInFrame` (`client`) | frame, minimum side, reach |
| `Tenancy_proofs!OrganizationsKeepTogether`, `LastOwnerIsGuarded` | `TenancyInv`, `LastOwnerLostToStaleRoster` (`tenancy`) | organizations, users, events, requests |
| `AccountsKeepTogether` | `AccountInv` (`tenancy`) | calls, sessions, links, passwords |
| `MailIsTold` | `MailLogTrue` (`client`) | mails, tickets, reports, clock skew |
| `Providers_proofs!ReconnectsHold` | `ReconnectHolds` (`import_resync`) | calls, times to live |
| `ImportsPageFollows` | `ImportsPageFits` (`import_resync`) | events, drives |
| `GalleryIsReachable` | `GalleryReachable` (`guest_mail`) | photos, matchers, mail slots, submissions, faults |
| `DigestsKeepApart` | `DigestsApart` (`guest_mail`) | the same |
| `People_proofs!PeopleStayTrue`, `LastNameWins` | `PeopleInv`, `NamesMoveForward` (`people`) | faces, people, distances, requests, faults |
| `PagesActOnWhatTheyShow` | `PeoplePagesFit` (`people`) | events, people, photos, days |
| `SearchMissesNothing` | `SearchComplete` (`people`) | photos, page size, servers |

### Assumptions

Each is an `ASSUME` of the module that declares the constants, and holds of every
deployment: `SwitchAssumption`, `IntervalAssumption` (switches are Booleans,
intervals below `Cap`, sweepers are not admins), `ExpiryAssumption`,
`CropConstants` (the minimum side is positive and fits the frame),
`NamesAssumption` (every job has a name of the catalogue in `types.ts`),
`CloudAccountsConstants` (the expiry margin is below a token's life, as in
`cloud-account.service.ts`), and the rest, which say that numbers are numbers and
that the value for "none" is no id. What is counted is finite: files and checksums
(`FiniteAssumption`), uploads (`LibraryAssumption`), faces (`FacePipelineAssumption`),
photos and servers (`SmartSearchConstants`), photos (`ListingConstants`), events and requests (`TenancyConstants`), calls (`AccountsConstants`), tickets (`MailLogConstants`). No
assumption bounds a size.

Three theorems have a hypothesis of their own, the restriction under which the runs
check the property and outside of which the code breaks it (see "Where a property
stops"): `SingleImport` (one import of the
folder, no process dies in it), `RemoteStays` (no remote file is
replaced between listing and download) and `Arranged` of every deployment (each queue
has a consumer, clustering exactly one, and somebody ingests), which no process checks
at startup. The documented deployments satisfy the last: `MCArranged` has TLC evaluate
it.

### The arguments

**GpuLifecycle.** The inductive `Inv` has four parts, each disturbed by different
actions: `ActorsInv` (the record and every carried copy are well typed and no countdown
is older than its own record, for whatever a stale actor carries is written later),
`WorldInv` (the machine and the queues; it needs that the jobs never exceed `MaxJobs`,
that an orphan is an active job, and that the failure count is below `FailureGrace`
unless the box is halting), `CreditInv` and `PastInv`. The lemmas `GoodStart`,
`GoodTransitions`, `GoodFields` and `GoodAged` say that each operator a record is built
with keeps it good. `PredictionAgrees` follows from `Inv` by the state the record is in:
for an idle machine both sides ask the same two questions (`StartAgrees`), for a running
one both count from `idleSince` (`StopAgrees`), between the two neither starts nor stops
(`BetweenAgrees`). `CountdownHolds` and `StopsAreEarned` rest on `PastAgrees`. `OwnRun`:
until an operation has gone past another, the stored record and every copy that somebody
will write tell of a run no longer than the machine's, and who is not stale finds its own
mark when it calls. `EarnedInv`: what a sweep that is not stale decided on is still so of
the stored record when it marks it. Each step is one that only reads (`ReadStep`) or one
that touches record or machine (`TouchStep`), after which whoever was at work is stale
and owes nothing; ageing takes nothing away (`EarnedAged`).

**JobQueue.** `PoisonIsBounded` counts starts only, and a job that waits has its next
one due; `StartsCounted` therefore counts them together and says what pays for them
(`Paid`): the first is free, every other one is a failed attempt, a reclaim or a
manual retry. `AttemptFailed` is the lemma of the step that may end a job. Jobs that
are not there have no starts at all. `QueuesServedOnce` is proved from `ServedStrong`:
a clustering handler runs only on the one host that consumes its queue, and the single
slot of that host (`HasSlot`) admits one; a handler whose lock was lost keeps the slot
until it ends.

**EventExpiry.** `ScheduledMeansNotifiedHolds` is inductive with types, by the three
writers of a row (`RowWriters`); `PurgedMeansDeletedHolds` needs `PurgeInHand`, that
a sweep or request about to mark an event has queued its delete, and
`DeletesStay`: a delete that is queued, failed or cleared is never forgotten.
`OwnersAreForewarned` is an action property from `ForewarnedInv`: of an event whose date
was not `moved`, row, sweeps and notice are `InStep` (the deadline is a grace period after
the date and has its notice; what the expiry sweep holds is the row, unmarked; what the
purge sweep holds is due), and the dates that requests carry are ahead (`AskedAhead`).
An update makes an event `moved` unless neither mark nor sweep has it.
`NeverWithinFirstGraceHolds`
needs `GraceInv`, which relates four places a date is kept. `RowDark`: a row that is
expired has its date recorded as dark no later. `DeadlineInv`: a deadline in a row is
a grace period after some date the event went dark at. `NotifierInv`: so is every
date in the expiry sweep's snapshot. `PurgerInv`: whatever the purge sweep holds has
its first grace period behind it. In `RetentionKept`, `PurgeQueue` is `Expire`, whose
guard is `PurgerInv`; `PurgeNowRead` is `Ask`, whose guard is `RowDark`;
`PurgeNowQueue` is `Obey`; the two marks are `Record`, whose guard is `PurgeInHand`;
`CleanupPrefix` is `Erase`; the clock, an extend and an update are `Pass`
(`DarkenPasses`); a delete that fails, is retried or cleared leaves the photos doomed.

**ImportPipeline.** `Inv` adds to the types that a worker holds what its step needs
(`Handy`), and `KeysInv`: keys are handed out once, so an object is an asset's, or
one worker's that is about to register it, or nobody's. `BucketIsAccounted` counts:
orphans, unprocessed assets and unspent faults together never exceed the faults there
were (`Paid`); each step leaves nothing more behind, or one thing at the price of a
fault (`LeftByFile`). `ResyncIsSafe` needs `SyncInv`: the checksums in rows, listings
and downloads are those of the remote files, and whatever is skipped, or about to be
called synced, has its asset already; assets never go (`AssetsStay`). `CancelStands`
is an action property from `Inv`, by the four writers of a job's status. `DoneIsTold`
splits an import's life in two. While it is `StillListing` no worker is busy, and every
file the listing is past is pending and counted in the total, however often the listing
failed and began anew. Once it is `FannedOut` a file is queued once or with one worker
until it is settled (`SlotsTrue`), an end is written only when none is left
(`EndTrue`), and the counters, the increments under way and the unsettled files add up
to the total at every step (`Counted`).

**Selfies.** Neither property is inductive. The selfie's object is not lost because
of `StorageTrue`: until the event is past retention only a removed guest's keys are
given up, and a submission's object is there before its row is. That needs
`Numbered`: rows, requests and selfies name submissions that were made. A handler
writes a row by id however stale it is, so `StatusWrites` says what all those writes
have in common: keys and states stay. That "matched" has photos is `CountsTrue`: whoever
has read a count of some, and whoever shows it, is right that the guest has matches, or
had one with a photo that was deleted, or is gone (`Held`), and that never changes back
however late the count is used. `NoticesAlwaysAskedFor` needs `HandlersTrue` (only a
handler between its insert and its settling carries news; an idle matcher has no guest);
`WorkerWrites` and `MatcherWrites` say that news is dropped by a failure or after its
notice was asked for.

**Library.** The strong invariant speaks of one file at a time, because what a step
does to one file it does not undo for another: `RowTrue` (its request, row and
objects agree), `KeptFor` (as long as nothing has failed, an object has what it is
there for), `WorkTrue` of each handler. `UploadStays`, `HandlerStays` and
`DeletionStays` carry them through the requests, the handlers and the deletions. Only
the quota counts files together: `CountsStep` shows that the photos stored and those in
flight stay below the limit plus `peak`, because the check admits one only below the
limit (`AdmitCounts`) and a row takes the place of its upload (`RowCounts`); `PeakTrue`
is the other half. A purge empties the bucket and adds what it takes to `wiped`.

**Tenancy.** `TenancyStrong` adds to the parts of `TenancyInv` that an absent
organization has nothing and nobody (`AbsentIsNew`), `PeakCovers` (the limit a live
organization is judged by is one it has had) and `RosterJudged` (a change of the
roster past its check was judged by the roster it saw). `EventsBounded` counts events held plus requests past their check.
`StepWrites` lists the writes of every statement once, and each conjunct is carried
through that list. `LastOwnerIsGuarded` is an action property from it.

**Accounts.** `OldSessionsExplained`, `UsedOnce` and `LockedHasWayBack` are inductive
with the types; the number of live links is not: a request that has voided the old
links and not written its own must be counted too (`LinksFew`).

**CloudAccounts, MailLog.** `ReconnectHolds` needs `CallsFollow`: while the account is
steady, every call that goes by a row it has read goes by the consent in the row as it
is, so what it stores is of that consent and no provider refuses it.
`LatestNewsWins` needs `NewsKept`: the log's time is that of
a report that arrived, no later one has, and none arrives before the id is stored.

**GuestMail.** `LinkOnItsWay` is inductive with the types; these need that links only
grow, and `LinksBounded` by what (submissions and resends). `DigestsApart` needs `DigestHeld`: while a handler has sent
a digest and not recorded it, the fixed job id stays active, so there is at most one
such handler; and until a fault the time since the last digest is what the row says, or
a digest is about to say it. `RoutesAgree` holds of every toggle and deletion.

**FacePipeline.** `FaceStrong` holds of each handler what it read that may be stale
by the time it writes. `RowsTrue` is the types with both foreign keys, and that a cover
is a stored face. `WorkerTrue`: the face being assigned has nobody yet, and while a
forced cleanup deletes everybody no face has anybody. `DeskTrue`: a portrait asked for
is of a face its person still has, unless one of the two is gone. `CoverHeld` is
`CoverIsOwn` with the face the worker is about to assign, and excepts the people a
merge has touched. `NamedFor` is `ClaimReachesCluster`, which needs `TimesPast` (no
name and no claim is later than the clock) and `NamedByClaims`: the naming takes the
newest claim over all the person's faces and writes it over an older name only. That
there is a newest one is `Greatest`, from the library's well-founded induction over
sets. `LastNameWins` is the same case split, with `Forward` carried beside the
invariant.

**ImportsPage.** That the crumbs are a path needs that the children listed are those of
the last crumb while nothing loads and no answer has overtaken another: a folder is
entered where its parent is listed (`PathInto`), or left at any crumb (`PathBefore`).

**PeoplePage, PersonPage.** `WatchedWhileBusy` speaks of a page with no request under way; while it
is open the timer agrees with the last answer at all times. A merge looks everybody up
in one event, so the faces it gathers are of one. `SelectionWasOnScreen` needs that the
photos listed are among those shown, and `ForeignNeedsLateRefresh` that an effect's load
which was not cancelled is for the person of the route.

**SmartSearch.** `BackfillTrue`: what the backfill still has to reach lies ahead of the
last id. That a page moves on without leaving anything behind is `PageIsNext`, by
counting what is below each id. `CallTrue`: every server is still before a call or
already behind it, so one with nobody left to ask has asked everybody.

**Telemetry, AuditTrail.** `NewestFirst` is a choice among the orderings of what was
found, so the proofs begin with a lemma of their own (`Ordered`): a finite set in a
total order can be listed in that order, by giving each element the number of those
not after it as its place; `NoneLeftOut` adds that a list as long as the set, with
nothing twice, has everything. `TailIsFaithful` then needs what an answer on its way
may still hold when it comes: a page read from the top holds the newest entries of its
filter and all of them down to its last, so joined to what is shown (`ArriveStep`) it
leaves no gap unless a whole page was new (which the property excludes). With a cursor of
whole milliseconds a poll may bring again what is shown; `Prior` says that where a later
line is of a newer row, everything between the two was there before, and `cursors` which
milliseconds that, or a gap, can be about.

**Listing.** The order of the listing is total because ids break ties and a missing
date is one value. `PageHolds` says what the rest rests on: a page holds each row
found once; everything found is on it or comes after its cursor; nothing on it does.
`PhotosMoved` is what landing, dating and deleting photos have in common for a page
that is open: a date moves only when it is noted in `dated`, and of the earlier uploads
none comes back.

**EventPage.** `EventPageInv` says of the list on screen, and of every answer on its
way, that it holds no photo twice and none that its own cursor would fetch again
(`OnceIn`, `UpTo`). A loadMore answered with the list it was asked for then joins two
disjoint lists, and since its cursor is `Behind` the one before, the joined list is up
to the new one. An upload that is spliced in needs that photos in the store have no
date yet or are noted. `tangled` is the only exception it needs: `late`
is one of `OnlyItsPhotos` alone.

**Timeline.** `LineOk` is the same for a list that only grows, with `Held` for `NoGap`
and with the two special cursors: the timeline's without a date asks for undated photos
only, the guest's finds nothing. A page in flight is `Following` its cursor: what the
list owes from that cursor on is in the page or past its own. That a page is applied to
the list it was asked for is `Serves` (one request per list, since each sets `loading`).

**PhotoViewer, SelfieWait, MemoryReel, Settings.** Each property is nearly inductive:
the viewer's needs that queries of photos left behind are marked cancelled
(`CancelledAre`), the wait's that no row means no poll under way, the settings' that
what was loaded, edited and saved is of an event that exists. `ClientSteps` shows that
a step of the client is one of each component's or leaves it as it is; a photo that
moves in the timelines rests the event page (`PageRests`), and the other way around
(`TimelineRests`).

**CropBox.** The rectangle alone is not inductive: a drag in progress carries the
rectangle it started from, which must be inside the frame too.

### Only model-checked

* Every liveness property (`Quiesces`, `ExpiredIsPurged`, `ImportEnds`,
  `GuestsAreServed`, `FacesClustered`, `ComesToRest`): the prover has no fairness.
* `AnswersAgree`: one fixed table of routes, which TLC evaluates as it is.

No theorem rests on what a recursive definition computes.

## Not modelled

* The machine-learning service (vendored inference code) and the database's schema
  and migrations (declarations), except for the keys, cascades and nullable columns
  that the modules rely on.
* Pages that load once and show what they got (participants, usage, search, map,
  explore), that poll one figure or send one command (most of the administration),
  and those without state (marketing, legal). The shell assigns the answer for an
  organization after a switch to another, as the modelled pages do.
* The two configuration saves of `admin.service.ts` (read, merge, write): the
  consequence is a lost setting, on which no other state depends.
* Image and video work, prompts, templates, sizes, layout and wording; JarvisLabs'
  command line and its output; video transcoding, which adds one more derivative;
  re-detection of a photo's faces; the shared staging path of two jobs of one item.

## Plan

1. An abstract import (a set of files each settled once) that `ImportPipeline`
   implements without crashes or a second import.
