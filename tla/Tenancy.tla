------------------------------ MODULE Tenancy ------------------------------
(***************************************************************************)
(* Organizations, their members, plans and events, as the requests of the  *)
(* admin and organization API change them.  A request is a sequence of     *)
(* database statements with awaits between them, so two requests           *)
(* interleave at every await; any of them may also die there (a refused    *)
(* statement, a lost connection, a restart), which leaves what it wrote.   *)
(***************************************************************************)
EXTENDS Integers, FiniteSets, FiniteSetsExt

CONSTANTS Orgs, Users, Events, Slugs, Requests,
          PLAN_LIMITS,   \* the events each plan allows
          Limits,        \* the event limits an administrator negotiates
          Workloads      \* the sets of operations clients issue in one behaviour

NoLimit == -1   \* a null override: the plan's own limit applies
Keep == -2      \* a field the request leaves out
Plans == DOMAIN PLAN_LIMITS
Roles == {"member", "admin", "owner"}
Operations == {"create", "update", "plan", "remove", "add", "role", "drop", "event", "erase"}

ASSUME TenancyConstants ==
    /\ Plans = {"starter", "pro", "enterprise"}
    /\ \A p \in Plans : PLAN_LIMITS[p] \in Nat \ {0}
    /\ Limits \subseteq Nat
    /\ Workloads \subseteq SUBSET Operations
    \* Ids are UUIDs, "none" is not one of them, and some client is connected.
    /\ IsFiniteSet(Events) /\ IsFiniteSet(Requests) /\ Requests # {}
    /\ "none" \notin Orgs

VARIABLES
    org,       \* rows of organization: [state, slug, plan, eventLimit, storageLimit]
    role,      \* rows of organization_user, "none" where there is none
    event,     \* rows of event: the organization and the slug, or NoEvent
    swept,     \* organizations whose prefix has a CleanupPrefix job
    req,       \* the requests in flight
    peak,      \* history: the highest event limit each organization has had
    cut,       \* history: organizations whose removal died half way
    workload

vars == <<org, role, event, swept, req, peak, cut, workload>>

Idle == [op |-> "idle"]
NoEvent == [org |-> "none", slug |-> "none"]
Absent == [state |-> "absent", slug |-> "none", plan |-> "starter",
           eventLimit |-> NoLimit, storageLimit |-> NoLimit]

(***************************************************************************)
(* Queries.                                                                *)
(***************************************************************************)
Live(o) == org[o].state = "live"

\* getBySlug sees live organizations only, the unique index all of them.
orgBySlug(s) == {o \in Orgs : Live(o) /\ org[o].slug = s}
orgSlugTaken(s, o) == \E p \in Orgs \ {o} : org[p].state # "absent" /\ org[p].slug = s
eventBySlug(s) == {e \in Events : event[e].slug = s}

Owners(o) == {u \in Users : role[o][u] = "owner"}
countForOrg(o) == Cardinality({e \in Events : event[e].org = o})

limitsFor(row) == IF row.eventLimit # NoLimit THEN row.eventLimit ELSE PLAN_LIMITS[row.plan]

\* Mutant: one event too many.
AllowsAtLimit(o) == Live(o) /\ countForOrg(o) <= limitsFor(org[o])

assertEventAvailable(o) == Live(o) /\ countForOrg(o) < limitsFor(org[o])

\* Mutant: guards removals only.
GuardsRemovalOnly(o, u, newRole) == newRole # "none" \/ Owners(o) # {u}

\* The last owner can neither leave nor be demoted.
ensureNotLastOwner(o, u, newRole) == newRole = "owner" \/ Owners(o) # {u}

(***************************************************************************)
(* Steps of a request: it starts with what it reads, and waits with what   *)
(* it is going to write.                                                   *)
(***************************************************************************)
Start(r, record) ==
    /\ req[r] = Idle
    /\ record.op \in workload
    /\ req' = [req EXCEPT ![r] = record]

Finish(r) == req' = [req EXCEPT ![r] = Idle]

\* A request that died or was refused by the database.
Fail(r) ==
    /\ req[r] # Idle
    /\ Finish(r)
    /\ cut' = IF req[r].op = "sweep" THEN cut \cup {req[r].org} ELSE cut
    /\ UNCHANGED <<org, role, event, swept, peak, workload>>

(***************************************************************************)
(* Organizations.                                                          *)
(***************************************************************************)
\* The free slug is read first, then the owner's account resolved or created.
create(r, o, s, u) ==
    /\ org[o].state = "absent" /\ \A q \in Requests : req[q] # Idle => req[q].org # o
    /\ orgBySlug(s) = {}
    /\ Start(r, [op |-> "create", org |-> o, slug |-> s, user |-> u])
    /\ UNCHANGED <<org, role, event, swept, peak, cut, workload>>

createRow(r) ==
    /\ req[r].op = "create"
    /\ LET o == req[r].org IN
       /\ ~ orgSlugTaken(req[r].slug, o)
       /\ org' = [org EXCEPT ![o] = [Absent EXCEPT !.state = "live", !.slug = req[r].slug]]
       /\ peak' = [peak EXCEPT ![o] = PLAN_LIMITS.starter]
       /\ req' = [req EXCEPT ![r] = [op |-> "own", org |-> o, user |-> req[r].user]]
    /\ UNCHANGED <<role, event, swept, cut, workload>>

createOwner(r) ==
    /\ req[r].op = "own"
    /\ role' = [role EXCEPT ![req[r].org][req[r].user] = "owner"]
    /\ Finish(r)
    /\ UNCHANGED <<org, event, swept, peak, cut, workload>>

update(r, o, s) ==
    /\ Live(o) /\ orgBySlug(s) \subseteq {o}
    /\ Start(r, [op |-> "update", org |-> o, slug |-> s])
    /\ UNCHANGED <<org, role, event, swept, peak, cut, workload>>

updateRow(r) ==
    /\ req[r].op = "update"
    /\ ~ orgSlugTaken(req[r].slug, req[r].org)
    /\ org' = [org EXCEPT ![req[r].org].slug = req[r].slug]
    /\ Finish(r)
    /\ UNCHANGED <<role, event, swept, peak, cut, workload>>

\* The columns updatePlan writes, from the plan it read or was given.
planPatch(row, plan, events, storage) ==
    IF plan = "enterprise"
    THEN [row EXCEPT !.plan = plan,
                     !.eventLimit = IF events = Keep THEN @ ELSE events,
                     !.storageLimit = IF storage = Keep THEN @ ELSE storage]
    ELSE [row EXCEPT !.plan = plan, !.eventLimit = NoLimit, !.storageLimit = NoLimit]

\* A custom limit is refused unless the plan it ends up with is Enterprise.
updatePlan(r, o, p, events, storage) ==
    /\ Live(o)
    /\ LET plan == IF p = "keep" THEN org[o].plan ELSE p
           wantsOverride == {events, storage} \cap Nat # {}
       IN /\ wantsOverride => plan = "enterprise"
          /\ Start(r, [op |-> "plan", org |-> o, plan |-> plan, given |-> p,
                       events |-> events, storage |-> storage])
    /\ UNCHANGED <<org, role, event, swept, peak, cut, workload>>

updatePlanRow(r) ==
    /\ req[r].op = "plan"
    /\ LET o == req[r].org IN
       /\ org' = [org EXCEPT ![o] = planPatch(@, req[r].plan, req[r].events, req[r].storage)]
       /\ peak' = [peak EXCEPT ![o] = Max({@, limitsFor(org'[o])})]
    /\ Finish(r)
    /\ UNCHANGED <<role, event, swept, cut, workload>>

\* The row is soft-deleted first, its objects are queued for deletion after.
remove(r, o) ==
    /\ Live(o)
    /\ Start(r, [op |-> "remove", org |-> o])
    /\ UNCHANGED <<org, role, event, swept, peak, cut, workload>>

softDelete(r) ==
    /\ req[r].op = "remove"
    /\ org' = [org EXCEPT ![req[r].org].state = "deleted"]
    /\ req' = [req EXCEPT ![r].op = "sweep"]
    /\ UNCHANGED <<role, event, swept, peak, cut, workload>>

removePrefix(r) ==
    /\ req[r].op = "sweep"
    /\ swept' = swept \cup {req[r].org}
    /\ Finish(r)
    /\ UNCHANGED <<org, role, event, peak, cut, workload>>

(***************************************************************************)
(* Members.  Adding is an upsert of the role and asks nothing about the    *)
(* role it replaces; changing and removing look at the roster first.       *)
(***************************************************************************)
addMember(r, o, u, newRole) ==
    /\ Live(o)
    /\ Start(r, [op |-> "add", org |-> o, user |-> u, role |-> newRole])
    /\ UNCHANGED <<org, role, event, swept, peak, cut, workload>>

updateMember(r, o, u, newRole) ==
    /\ role[o][u] # "none"
    /\ ensureNotLastOwner(o, u, newRole)
    /\ Start(r, [op |-> "role", org |-> o, user |-> u, role |-> newRole, seen |-> Owners(o)])
    /\ UNCHANGED <<org, role, event, swept, peak, cut, workload>>

removeMember(r, o, u) ==
    /\ role[o][u] # "none"
    /\ ensureNotLastOwner(o, u, "none")
    /\ Start(r, [op |-> "drop", org |-> o, user |-> u, role |-> "none", seen |-> Owners(o)])
    /\ UNCHANGED <<org, role, event, swept, peak, cut, workload>>

writeMember(r) ==
    /\ req[r].op \in {"add", "role", "drop"}
    /\ role' = [role EXCEPT ![req[r].org][req[r].user] = req[r].role]
    /\ Finish(r)
    /\ UNCHANGED <<org, event, swept, peak, cut, workload>>

(***************************************************************************)
(* Events: the plan's allowance is asserted, then the slug, then the row   *)
(* is inserted.                                                            *)
(***************************************************************************)
createEvent(r, o, s) ==
    /\ assertEventAvailable(o)
    /\ eventBySlug(s) = {}
    /\ Start(r, [op |-> "event", org |-> o, slug |-> s])
    /\ UNCHANGED <<org, role, event, swept, peak, cut, workload>>

createEventRow(r, e) ==
    /\ req[r].op = "event"
    /\ event[e] = NoEvent /\ eventBySlug(req[r].slug) = {}
    /\ event' = [event EXCEPT ![e] = [org |-> req[r].org, slug |-> req[r].slug]]
    /\ Finish(r)
    /\ UNCHANGED <<org, role, swept, peak, cut, workload>>

\* The slug typed as confirmation must be the event's; the row goes for good.
removeEvent(r, e) ==
    /\ event[e] # NoEvent
    /\ Start(r, [op |-> "erase", org |-> event[e].org, event |-> e])
    /\ UNCHANGED <<org, role, event, swept, peak, cut, workload>>

hardDelete(r) ==
    /\ req[r].op = "erase"
    /\ event' = [event EXCEPT ![req[r].event] = NoEvent]
    /\ Finish(r)
    /\ UNCHANGED <<org, role, swept, peak, cut, workload>>

Init ==
    /\ workload \in Workloads
    /\ \E first \in Orgs, u \in Users, s \in Slugs :
        /\ org = [o \in Orgs |->
                    IF o = first THEN [Absent EXCEPT !.state = "live", !.slug = s] ELSE Absent]
        /\ role = [o \in Orgs |->
                    [v \in Users |-> IF o = first /\ v = u THEN "owner" ELSE "none"]]
        /\ peak = [o \in Orgs |-> IF o = first THEN PLAN_LIMITS.starter ELSE 0]
    /\ event = [e \in Events |-> NoEvent]
    /\ swept = {} /\ cut = {}
    /\ req = [r \in Requests |-> Idle]

Next ==
    \/ \E r \in Requests, o \in Orgs :
        \/ \E s \in Slugs :
            \/ \E u \in Users : create(r, o, s, u)
            \/ update(r, o, s)
            \/ createEvent(r, o, s)
        \/ \E p \in Plans \cup {"keep"}, events \in Limits \cup {NoLimit, Keep},
              storage \in {0, NoLimit, Keep} : updatePlan(r, o, p, events, storage)
        \/ remove(r, o)
        \/ \E u \in Users :
            \/ \E newRole \in Roles : addMember(r, o, u, newRole) \/ updateMember(r, o, u, newRole)
            \/ removeMember(r, o, u)
    \/ \E r \in Requests :
        \/ createRow(r) \/ createOwner(r) \/ updateRow(r) \/ updatePlanRow(r)
        \/ softDelete(r) \/ removePrefix(r) \/ writeMember(r) \/ hardDelete(r) \/ Fail(r)
        \/ \E e \in Events : createEventRow(r, e) \/ removeEvent(r, e)

Spec == Init /\ [][Next]_vars

(***************************************************************************)
(* Properties.                                                             *)
(***************************************************************************)
\* Every variable has its type.
TypeOK ==
    /\ org \in [Orgs -> [state : {"absent", "live", "deleted"}, slug : Slugs \cup {"none"},
                         plan : Plans, eventLimit : Nat \cup {NoLimit}, storageLimit : Nat \cup {NoLimit}]]
    /\ role \in [Orgs -> [Users -> Roles \cup {"none"}]]
    /\ event \in [Events -> [org : Orgs \cup {"none"}, slug : Slugs \cup {"none"}]]
    /\ swept \subseteq Orgs /\ cut \subseteq Orgs
    /\ peak \in [Orgs -> Nat]
    /\ \A r \in Requests : req[r].op \in Operations \cup {"idle", "own", "sweep"}

\* Only Enterprise carries custom limits, and leaving it clears them
\* (organization.service.ts:273-280): true of the stored row however the plan
\* changes of two administrators interleave, because updatePlan writes the plan
\* it judged the limits by together with the limits.
OverridesNeedEnterprise ==
    \A o \in Orgs : org[o].plan # "enterprise" => org[o].eventLimit = NoLimit /\ org[o].storageLimit = NoLimit

\* What the missing lock of event creation costs: an organization never holds, or
\* is about to hold, as many events over the highest limit it has had as there
\* are requests (quota.service.ts:95 is asserted before, not with, the insert).
EventsBounded ==
    \A o \in Orgs :
        LET admitted == {r \in Requests : req[r].op = "event" /\ req[r].org = o}
        IN countForOrg(o) + Cardinality(admitted) < peak[o] + Cardinality(Requests)

\* An organization loses its last owner only to an addMember that overwrites the
\* owner's role, or to a change decided on a roster that is no longer true
\* (ensureNotLastOwner, organization.service.ts:370, reads before the write).
LastOwnerLostToStaleRoster ==
    [][\A o \in Orgs :
        Owners(o) # {} /\ Owners(o)' = {} =>
            \E r \in Requests :
                /\ req[r] # Idle /\ req[r]' = Idle /\ req[r].org = o
                /\ \/ req[r].op = "add"
                   \/ req[r].op \in {"role", "drop"} /\ req[r].seen # Owners(o)]_vars

\* The media of a removed organization is queued for deletion unless the removal
\* died after its first write; it cannot be issued again, since the organization
\* is no longer found (organization.service.ts:330-338).
DeletedIsSwept ==
    \A o \in Orgs :
        org[o].state = "deleted" =>
            \/ o \in swept \cup cut
            \/ \E r \in Requests : req[r].op = "sweep" /\ req[r].org = o

\* However requests overlap or die, plans, limits and removals keep together: custom
\* limits belong to Enterprise, events stay near the limit, and a removed
\* organization's media is swept (organization.service.ts:273-338, quota.service.ts:95).
TenancyInv == TypeOK /\ OverridesNeedEnterprise /\ EventsBounded /\ DeletedIsSwept
=============================================================================
