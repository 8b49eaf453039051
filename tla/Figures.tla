------------------------------ MODULE Figures ------------------------------
(***************************************************************************)
(* The figures the screens show about one database: storage and counts of  *)
(* an organization from five queries, the platform's totals, the bell, and *)
(* an event's processing bar.                                              *)
(***************************************************************************)
EXTENDS Integers, FiniteSets, FiniteSetsExt

CONSTANTS Tenants, Galas, TenantOf,   \* organizations, events, whose they are
          Files, SizeOf, Videos,      \* assets, their bytes, which are videos
          GalaOf,                     \* the event each asset is uploaded to
          EXPIRY_WARNING_DAYS,
          LastDay                     \* bound on the clock

ASSUME FiguresConstants ==
    /\ TenantOf \in [Galas -> Tenants] /\ GalaOf \in [Files -> Galas]
    /\ SizeOf \in [Files -> Nat] /\ Videos \subseteq Files
    /\ EXPIRY_WARNING_DAYS \in Nat /\ LastDay \in Nat

Never == -1

VARIABLES
    tenantGone,  \* organizations with deletedAt
    gala,        \* [state: live, deleted (deletedAt) or gone, expiresAt, purged]
    file,        \* [status, detected, trashed]; "none" before the upload
    today

figureVars == <<tenantGone, gala, file, today>>

Bytes(S) == MapThenSumSet(LAMBDA f : SizeOf[f], S)

LiveGalas(o) == {g \in Galas : TenantOf[g] = o /\ gala[g].state = "live"}
Rows(g) == {f \in Files : GalaOf[f] = g /\ gala[g].state # "gone" /\ file[f].status # "none"}
LiveRows(g) == {f \in Rows(g) : ~ file[f].trashed}

(***************************************************************************)
(* One organization, as each screen asks for it.                           *)
(***************************************************************************)
\* asset join event, both live.
OwnRows(o) == UNION {LiveRows(g) : g \in LiveGalas(o)}

getOrgStorage(o) == [bytes |-> Bytes(OwnRows(o)), assets |-> Cardinality(OwnRows(o))]

\* Mutant: the quota still charges for the assets of a deleted event.
ChargesDeletedEvents(o) == Bytes(UNION {LiveRows(g) : g \in {h \in Galas : TenantOf[h] = o}})

getOrgStorageBytes(o) == Bytes(OwnRows(o))

\* event left join asset, grouped by event.
getOrgUsageByEvent(o) ==
    {[event |-> g, photos |-> Cardinality(LiveRows(g) \ Videos),
      videos |-> Cardinality(LiveRows(g) \cap Videos), bytes |-> Bytes(LiveRows(g))] : g \in LiveGalas(o)}
getUsage(o) ==
    LET rows == getOrgUsageByEvent(o)
        add(field(_)) == MapThenSumSet(field, rows)
    IN [events |-> Cardinality(rows), assets |-> add(LAMBDA r : r.photos + r.videos),
        bytes |-> add(LAMBDA r : r.bytes)]

getShell(o) ==
    [events |-> Cardinality(LiveGalas(o)),
     assets |-> MapThenSumSet(LAMBDA g : Cardinality(LiveRows(g)), LiveGalas(o)),
     bytes |-> getOrgStorage(o).bytes]
getStatus(o) == [events |-> Cardinality(LiveGalas(o)), bytes |-> getOrgStorageBytes(o)]
listWithUsage(o) == [events |-> Cardinality(LiveGalas(o)), bytes |-> Bytes(OwnRows(o))]
getOrganizationBreakdown(o) ==
    [events |-> Cardinality(LiveGalas(o)), assets |-> Cardinality(OwnRows(o)), bytes |-> Bytes(OwnRows(o))]

\* The platform: every live event and its assets, whatever its organization.
getTotals ==
    LET every == {g \in Galas : gala[g].state = "live"}
    IN [events |-> Cardinality(every), assets |-> Cardinality(UNION {LiveRows(g) : g \in every}),
        bytes |-> Bytes(UNION {LiveRows(g) : g \in every})]

(***************************************************************************)
(* The bell, the guests' door and the processing bar.                      *)
(***************************************************************************)
isEventExpired(g) == gala[g].expiresAt # Never /\ today >= gala[g].expiresAt

getNotifications(g) ==
    IF gala[g].purged THEN "deleted"
    ELSE IF gala[g].expiresAt = Never THEN "none"
    ELSE IF gala[g].expiresAt <= today THEN "closed"
    ELSE IF gala[g].expiresAt - today <= EXPIRY_WARNING_DAYS THEN "closing" ELSE "none"

getProcessingStatus(g) ==
    LET in(s) == {f \in LiveRows(g) : file[f].status = s}
        images == LiveRows(g) \ Videos
    IN [total |-> Cardinality(LiveRows(g)), processed |-> Cardinality(in("processed")),
        failed |-> Cardinality(in("failed")), pendingMedia |-> Cardinality(in("stored")),
        images |-> Cardinality(images),
        pendingDetection |-> Cardinality({f \in images : ~ file[f].detected /\ file[f].status # "failed"})]

\* ProcessingBar: processed does not include failed, which is subtracted again.
doneSteps(p) == p.processed - p.failed + (p.images - p.pendingDetection)

(***************************************************************************)
(* What changes the database.                                              *)
(***************************************************************************)
upload(f) ==
    /\ file[f].status = "none" /\ gala[GalaOf[f]].state = "live"
    /\ file' = [file EXCEPT ![f].status = "stored"]
    /\ UNCHANGED <<tenantGone, gala, today>>

\* Of a live event, or of one whose row is already marked deleted.
mediaDone(f) ==
    /\ f \in LiveRows(GalaOf[f]) /\ file[f].status = "stored"
    /\ \E s \in {"processed", "failed"} : file' = [file EXCEPT ![f].status = s]
    /\ UNCHANGED <<tenantGone, gala, today>>

facesDone(f) ==
    /\ f \in LiveRows(GalaOf[f]) \ Videos /\ file[f].status = "processed"
    /\ file' = [file EXCEPT ![f].detected = TRUE]
    /\ UNCHANGED <<tenantGone, gala, today>>

rerunThumbnails(f) ==
    /\ f \in LiveRows(GalaOf[f]) /\ file[f].status # "stored"
    /\ file' = [file EXCEPT ![f].status = "stored"]
    /\ UNCHANGED <<tenantGone, gala, today>>

trash(f) ==
    /\ f \in LiveRows(GalaOf[f])
    /\ file' = [file EXCEPT ![f].trashed = TRUE]
    /\ UNCHANGED <<tenantGone, gala, today>>

removeTenant(o) ==
    /\ o \notin tenantGone
    /\ tenantGone' = tenantGone \cup {o}
    /\ UNCHANGED <<gala, file, today>>

\* The row and all that hangs on it, by cascade.
eraseGala(g) ==
    /\ gala[g].state = "live"
    /\ gala' = [gala EXCEPT ![g].state = "gone"]
    /\ UNCHANGED <<tenantGone, file, today>>

setExpiry(g, day) ==
    /\ gala[g].state = "live" /\ ~ gala[g].purged /\ day > today
    /\ gala' = [gala EXCEPT ![g].expiresAt = day]
    /\ UNCHANGED <<tenantGone, file, today>>

purgeGala(g) ==
    /\ gala[g].state = "live" /\ isEventExpired(g) /\ ~ gala[g].purged
    /\ gala' = [gala EXCEPT ![g].purged = TRUE]
    /\ UNCHANGED <<tenantGone, file, today>>

nextDay ==
    /\ today < LastDay
    /\ today' = today + 1
    /\ UNCHANGED <<tenantGone, gala, file>>

\* Events deleted before deletion became permanent still have their rows.
FiguresInit ==
    /\ tenantGone = {} /\ today = 0
    /\ gala \in [Galas -> [state : {"live", "deleted"}, expiresAt : {Never}, purged : {FALSE}]]
    /\ file \in [Files -> [status : {"none", "stored"}, detected : {FALSE}, trashed : {FALSE}]]

FiguresNext ==
    \/ \E f \in Files : upload(f) \/ mediaDone(f) \/ facesDone(f) \/ rerunThumbnails(f) \/ trash(f)
    \/ \E o \in Tenants : removeTenant(o)
    \/ \E g \in Galas : eraseGala(g) \/ purgeGala(g) \/ (\E day \in 1 .. LastDay : setExpiry(g, day))
    \/ nextDay

(***************************************************************************)
(* Properties.                                                             *)
(***************************************************************************)
\* What the organization reads, what its limit is enforced against and what the
\* administrator sees are one number (asset.repository.ts:189-192,
\* organization.repository.ts:97-99), and the totals are the sum of the rows but
\* for the events a removed organization leaves behind (admin.service.ts:126-128).
\* The comment over getOrgStorage asks for two things that exclude each other: to count
\* the photos of deleted events "too" (asset.repository.ts:185-187) and to agree with
\* the quota (189-192), which leaves them out.  The code leaves them out of both
\* (205, 230); the property asks what the second comment asks.
FiguresAgree ==
    /\ \A o \in Tenants \ tenantGone :
        LET row == getOrganizationBreakdown(o) IN
        /\ getUsage(o) = row /\ getShell(o) = row
        /\ getStatus(o) = [events |-> row.events, bytes |-> row.bytes]
        /\ listWithUsage(o) = getStatus(o)
    /\ (\A g \in Galas : gala[g].state = "live" => TenantOf[g] \notin tenantGone) =>
        getTotals = [events |-> MapThenSumSet(LAMBDA o : getOrganizationBreakdown(o).events, Tenants \ tenantGone),
                     assets |-> MapThenSumSet(LAMBDA o : getOrganizationBreakdown(o).assets, Tenants \ tenantGone),
                     bytes |-> MapThenSumSet(LAMBDA o : getOrganizationBreakdown(o).bytes, Tenants \ tenantGone)]

\* The organizer's bell says an event has closed exactly while its guests are
\* turned away and its photos are still there (organization.service.ts:203,
\* event-expiry.ts:9, two readings of the same date).
BellMatchesGuests ==
    \A g \in Galas : gala[g].state = "live" =>
        (getNotifications(g) = "closed" <=> isEventExpired(g) /\ ~ gala[g].purged)

=============================================================================
