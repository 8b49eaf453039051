------------------------------- MODULE Access -------------------------------
(***************************************************************************)
(* How a request of the web client reaches a handler: the routes of the    *)
(* controllers in the order they are registered, the first that matches    *)
(* the path, and the guard that decides who may use it.  A path is the     *)
(* sequence of its segments; a segment starting with ":" is a parameter.   *)
(***************************************************************************)
EXTENDS Naturals, Sequences, SequencesExt

Params == {":orgId", ":eventId", ":userId", ":assetId", ":personId", ":participantId",
           ":importId", ":accountId", ":provider", ":slug", ":ticket", ":token", ":name",
           ":action", ":id"}

Route(verb, need, path) == [verb |-> verb, need |-> need, path |-> path]
Under(prefix, routes) ==
    [i \in DOMAIN routes |-> [routes[i] EXCEPT !.path = prefix \o @]]

(***************************************************************************)
(* Controllers.  need: "public" has no @Authenticated; "user" any session; *)
(* "super" superAdmin; a role is orgRole; "+" is allowSuperAdmin.          *)
(***************************************************************************)
AuthController == Under(<<"auth">>, <<
    Route("POST", "public", <<"login">>), Route("POST", "public", <<"admin-signup">>),
    Route("POST", "user", <<"logout">>), Route("GET", "user", <<"me">>),
    Route("POST", "public", <<"reset-password">>), Route("PUT", "user", <<"password">>)>>)

AdminController == Under(<<"admin">>, <<
    Route("GET", "super", <<"organizations">>), Route("POST", "super", <<"organizations">>),
    Route("GET", "super", <<"organizations", ":orgId">>),
    Route("PUT", "super", <<"organizations", ":orgId">>),
    Route("DELETE", "super", <<"organizations", ":orgId">>),
    Route("PUT", "super", <<"organizations", ":orgId", "plan">>),
    Route("GET", "super", <<"stats">>), Route("GET", "super", <<"queues">>),
    Route("GET", "super", <<"jobs">>), Route("GET", "super", <<"queues", ":name", "failed">>),
    Route("GET", "super", <<"system">>), Route("GET", "super", <<"gpu">>),
    Route("PUT", "super", <<"gpu", "config">>), Route("POST", "super", <<"gpu", "start">>),
    Route("POST", "super", <<"gpu", "hold">>), Route("DELETE", "super", <<"gpu", "hold">>),
    Route("POST", "super", <<"gpu", "stop">>), Route("POST", "super", <<"gpu", "test">>),
    Route("PUT", "super", <<"retention">>), Route("GET", "super", <<"audit">>),
    Route("GET", "super", <<"audit", "summary">>), Route("POST", "super", <<"audit", "flush">>),
    Route("POST", "super", <<"queues", ":name", ":action">>)>>)

OrganizationController == Under(<<"orgs", ":orgId">>, <<
    Route("GET", "member+", <<>>), Route("GET", "member", <<"shell">>),
    Route("GET", "public", <<"quota">>), Route("GET", "member", <<"usage">>),
    Route("GET", "member", <<"notifications">>), Route("GET", "member", <<"people">>),
    Route("GET", "member", <<"map-markers">>), Route("GET", "owner+", <<"members">>),
    Route("POST", "owner+", <<"members">>), Route("PUT", "owner+", <<"members", ":userId">>),
    Route("POST", "super", <<"members", ":userId", "reset-password">>),
    Route("DELETE", "owner+", <<"members", ":userId">>)>>)

EventController == <<
    Route("GET", "user", <<"events">>),
    Route("GET", "member", <<"orgs", ":orgId", "events">>),
    Route("POST", "admin", <<"orgs", ":orgId", "events">>),
    Route("GET", "member", <<"events", ":eventId">>),
    Route("GET", "member", <<"events", ":eventId", "processing">>),
    Route("POST", "admin", <<"events", ":eventId", "reprocess-faces">>),
    Route("PUT", "admin", <<"events", ":eventId">>),
    Route("GET", "member", <<"orgs", ":orgId", "assets">>),
    Route("PUT", "admin", <<"events", ":eventId", "cover">>),
    Route("POST", "admin", <<"events", ":eventId", "expiry", "extend">>),
    Route("POST", "admin", <<"events", ":eventId", "expiry", "acknowledge">>),
    Route("POST", "owner", <<"events", ":eventId", "expiry", "purge">>),
    Route("DELETE", "admin", <<"events", ":eventId">>)>>

AssetController == Under(<<"events", ":eventId", "assets">>, <<
    Route("POST", "member", <<>>), Route("POST", "member", <<"bulk-upload-check">>),
    Route("GET", "member", <<>>), Route("GET", "member", <<"random">>),
    Route("GET", "member", <<":assetId", "similar">>), Route("GET", "member", <<":assetId">>),
    Route("GET", "member", <<":assetId", "download">>), Route("GET", "member", <<":assetId", "image">>),
    Route("POST", "member", <<"download">>), Route("DELETE", "admin", <<>>),
    Route("POST", "admin", <<":assetId", "jobs">>)>>)

PersonController == Under(<<"events", ":eventId", "people">>, <<
    Route("GET", "member", <<>>), Route("PUT", "admin", <<":personId">>),
    Route("GET", "member", <<":personId">>), Route("PUT", "admin", <<":personId", "cover">>),
    Route("POST", "admin", <<":personId", "merge">>), Route("GET", "member", <<":personId", "assets">>)>>)

ParticipantAdminController == Under(<<"events", ":eventId", "participants">>, <<
    Route("GET", "member", <<>>), Route("POST", "admin", <<":participantId", "resend">>),
    Route("DELETE", "admin", <<":participantId">>)>>)

PublicController == Under(<<"public">>, <<
    Route("GET", "public", <<"events", ":slug">>),
    Route("POST", "public", <<"events", ":slug", "participants">>),
    Route("GET", "public", <<"selfie-progress", ":ticket">>),
    Route("GET", "public", <<"gallery", ":token">>),
    Route("GET", "public", <<"gallery", ":token", "assets", ":assetId", "download">>),
    Route("GET", "public", <<"gallery", ":token", "download">>),
    Route("POST", "public", <<"gallery", ":token", "download">>),
    Route("GET", "public", <<"gallery", ":token", "event-assets">>),
    Route("GET", "public", <<"gallery", ":token", "assets", ":assetId", "faces">>),
    Route("GET", "public", <<"gallery", ":token", "people", ":personId">>)>>)

CloudController == <<
    Route("GET", "admin", <<"orgs", ":orgId", "cloud", ":provider", "authorize">>),
    Route("GET", "public", <<"cloud", ":provider", "callback">>),
    Route("GET", "admin", <<"orgs", ":orgId", "cloud", "accounts">>),
    Route("DELETE", "admin", <<"orgs", ":orgId", "cloud", "accounts", ":accountId">>),
    Route("GET", "admin", <<"orgs", ":orgId", "cloud", "accounts", ":accountId", "folders">>)>>

SupportController == <<
    Route("POST", "member", <<"orgs", ":orgId", "support">>),
    Route("POST", "public", <<"public", "support">>),
    Route("GET", "super", <<"admin", "support">>),
    Route("PUT", "super", <<"admin", "support", ":id">>)>>

ImportController == Under(<<"events", ":eventId", "imports">>, <<
    Route("POST", "admin", <<>>), Route("GET", "member", <<>>),
    Route("GET", "member", <<":importId">>), Route("POST", "admin", <<":importId", "cancel">>)>>)

\* Guarded by their own secrets, not by @Authenticated.
WebhookController == Under(<<"webhooks">>, <<
    Route("GET", "public", <<"gpu", "heartbeat">>), Route("POST", "public", <<"resend">>)>>)

\* The controllers in the order AppModule lists them.
Routes ==
    AuthController \o AdminController \o OrganizationController \o EventController
    \o AssetController \o PersonController \o ParticipantAdminController \o PublicController
    \o CloudController \o SupportController \o ImportController \o WebhookController

(***************************************************************************)
(* The web client's calls: the verb and the path of each.                  *)
(***************************************************************************)
Call(verb, path) == [verb |-> verb, path |-> path]

authCalls == {
    Call("POST", <<"auth", "login">>), Call("POST", <<"auth", "logout">>), Call("GET", <<"auth", "me">>),
    Call("PUT", <<"auth", "password">>), Call("POST", <<"auth", "reset-password">>)}

adminCalls == {
    Call("GET", <<"admin", "organizations">>), Call("POST", <<"admin", "organizations">>),
    Call("PUT", <<"admin", "organizations", ":orgId">>), Call("DELETE", <<"admin", "organizations", ":orgId">>),
    Call("GET", <<"admin", "stats">>), Call("GET", <<"admin", "queues">>),
    Call("POST", <<"admin", "queues", ":name", ":action">>), Call("GET", <<"admin", "jobs">>),
    Call("GET", <<"admin", "queues", ":name", "failed">>), Call("GET", <<"admin", "system">>),
    Call("GET", <<"admin", "gpu">>), Call("PUT", <<"admin", "gpu", "config">>),
    Call("POST", <<"admin", "gpu", "test">>), Call("GET", <<"admin", "audit">>),
    Call("GET", <<"admin", "audit", "summary">>), Call("POST", <<"admin", "audit", "flush">>),
    Call("PUT", <<"admin", "organizations", ":orgId", "plan">>), Call("POST", <<"admin", "gpu", "start">>),
    Call("POST", <<"admin", "gpu", "hold">>), Call("DELETE", <<"admin", "gpu", "hold">>),
    Call("POST", <<"admin", "gpu", "stop">>), Call("GET", <<"admin", "support">>),
    Call("PUT", <<"admin", "support", ":id">>), Call("PUT", <<"admin", "retention">>)}

orgCalls == {
    Call("GET", <<"orgs", ":orgId", s>>) :
        s \in {"quota", "shell", "usage", "notifications", "assets", "people", "map-markers", "members"}}
    \cup {Call("POST", <<"orgs", ":orgId", "support">>), Call("POST", <<"orgs", ":orgId", "members">>),
          Call("POST", <<"orgs", ":orgId", "members", ":userId", "reset-password">>)}

eventCalls == {
    Call("GET", <<"events">>), Call("GET", <<"orgs", ":orgId", "events">>),
    Call("POST", <<"orgs", ":orgId", "events">>), Call("GET", <<"events", ":eventId">>),
    Call("PUT", <<"events", ":eventId">>), Call("DELETE", <<"events", ":eventId">>),
    Call("GET", <<"events", ":eventId", "processing">>),
    Call("POST", <<"events", ":eventId", "reprocess-faces">>), Call("PUT", <<"events", ":eventId", "cover">>)}
    \cup {Call("POST", <<"events", ":eventId", "expiry", s>>) : s \in {"extend", "acknowledge", "purge"}}

assetCalls == {
    Call("GET", <<"events", ":eventId", "assets", ":assetId">>), Call("GET", <<"events", ":eventId", "assets">>),
    Call("POST", <<"events", ":eventId", "assets", "bulk-upload-check">>),
    Call("DELETE", <<"events", ":eventId", "assets">>), Call("GET", <<"events", ":eventId", "assets", "random">>),
    Call("POST", <<"events", ":eventId", "assets", "download">>),
    Call("POST", <<"events", ":eventId", "assets", ":assetId", "jobs">>)}
    \cup {Call("GET", <<"events", ":eventId", "assets", ":assetId", s>>) : s \in {"similar", "download", "image"}}

uploadAsset == {Call("POST", <<"events", ":eventId", "assets">>)}

peopleCalls == {
    Call("GET", <<"events", ":eventId", "people">>), Call("GET", <<"events", ":eventId", "people", ":personId">>),
    Call("PUT", <<"events", ":eventId", "people", ":personId">>),
    Call("POST", <<"events", ":eventId", "people", ":personId", "merge">>),
    Call("PUT", <<"events", ":eventId", "people", ":personId", "cover">>),
    Call("GET", <<"events", ":eventId", "people", ":personId", "assets">>)}

participantCalls == {
    Call("GET", <<"events", ":eventId", "participants">>),
    Call("POST", <<"events", ":eventId", "participants", ":participantId", "resend">>),
    Call("DELETE", <<"events", ":eventId", "participants", ":participantId">>)}

cloudCalls == {
    Call("GET", <<"orgs", ":orgId", "cloud", ":provider", "authorize">>),
    Call("GET", <<"orgs", ":orgId", "cloud", "accounts">>),
    Call("DELETE", <<"orgs", ":orgId", "cloud", "accounts", ":accountId">>),
    Call("GET", <<"orgs", ":orgId", "cloud", "accounts", ":accountId", "folders">>)}

importCalls == {
    Call("POST", <<"events", ":eventId", "imports">>), Call("GET", <<"events", ":eventId", "imports">>),
    Call("GET", <<"events", ":eventId", "imports", ":importId">>),
    Call("POST", <<"events", ":eventId", "imports", ":importId", "cancel">>)}

publicCalls == {
    Call("GET", <<"public", "events", ":slug">>), Call("POST", <<"public", "events", ":slug", "participants">>),
    Call("GET", <<"public", "selfie-progress", ":ticket">>), Call("POST", <<"public", "support">>),
    Call("GET", <<"public", "gallery", ":token">>), Call("GET", <<"public", "gallery", ":token", "event-assets">>),
    Call("GET", <<"public", "gallery", ":token", "assets", ":assetId", "download">>),
    Call("GET", <<"public", "gallery", ":token", "download">>),
    Call("GET", <<"public", "gallery", ":token", "assets", ":assetId", "faces">>),
    Call("GET", <<"public", "gallery", ":token", "people", ":personId">>)}

ClientCalls ==
    authCalls \cup adminCalls \cup orgCalls \cup eventCalls \cup assetCalls \cup uploadAsset
    \cup peopleCalls \cup participantCalls \cup cloudCalls \cup importCalls \cup publicCalls

(***************************************************************************)
(* Routing and the guard.                                                  *)
(***************************************************************************)
Matches(route, c) ==
    /\ route.verb = c.verb
    /\ Len(route.path) = Len(c.path)
    /\ \A i \in DOMAIN c.path : route.path[i] \in Params \cup {c.path[i]}

ROLE_ORDER == [none |-> 0, member |-> 1, admin |-> 2, owner |-> 3]
RoleOf(need) == IF need = "member+" THEN "member" ELSE IF need = "owner+" THEN "owner" ELSE need

Actors == [galleryToken : BOOLEAN, session : BOOLEAN, isSuperAdmin : BOOLEAN,
           role : DOMAIN ROLE_ORDER]

\* A valid gallery token wins over the session and makes no user.
validate(actor) == IF ~ actor.galleryToken /\ actor.session THEN "user" ELSE "none"

\* The organization is the path's, or that of the path's event; a super admin
\* passes without membership where the route opted in and no event is named.
verifyOrgRole(actor, route, eventLives) ==
    \/ /\ actor.isSuperAdmin /\ route.need \in {"member+", "owner+"}
       /\ ":eventId" \notin ToSet(route.path)
    \/ /\ ":orgId" \in ToSet(route.path) \/ (":eventId" \in ToSet(route.path) /\ eventLives)
       /\ ROLE_ORDER[actor.role] >= ROLE_ORDER[RoleOf(route.need)]

authenticate(actor, route, eventLives) ==
    \/ route.need = "public"
    \/ /\ validate(actor) = "user"
       /\ CASE route.need = "user" -> TRUE
            [] route.need = "super" -> actor.isSuperAdmin
            [] OTHER -> verifyOrgRole(actor, route, eventLives)

VARIABLES who, asked, at, answer
accessVars == <<who, asked, at, answer>>

AccessInit ==
    /\ who \in Actors /\ asked \in ClientCalls
    /\ at = 0 /\ answer = "none"

\* Express tries the routes in turn; the first that matches takes the request.
RouteRequest ==
    /\ at = 0
    /\ \E i \in DOMAIN Routes :
        /\ Matches(Routes[i], asked)
        /\ \A j \in 1 .. i - 1 : ~ Matches(Routes[j], asked)
        /\ at' = i
    /\ UNCHANGED <<who, asked, answer>>

canActivate ==
    /\ at # 0 /\ answer = "none"
    /\ \E eventLives \in BOOLEAN :
        answer' = IF authenticate(who, Routes[at], eventLives) THEN "served" ELSE "refused"
    /\ UNCHANGED <<who, asked, at>>

AccessNext == RouteRequest \/ canActivate

(***************************************************************************)
(* Properties.                                                             *)
(***************************************************************************)
\* Every call of the client is taken by the route written for it: none of the
\* paths of the controllers is taken first by a parameter of another route, and
\* none is missing (asset.controller.ts:69 before :85, api.ts:596-842).
ServedByItsRoute ==
    /\ at # 0 => Routes[at].path = asked.path
    /\ at = 0 => \E i \in DOMAIN Routes : Matches(Routes[i], asked)

\* Whatever names an event outside the guests' pages is served only to a signed-in
\* member of the organization that owns it: a super admin who is not a member
\* never sees inside an event (auth.service.ts:143-148).  What names an organization is
\* served to its members and to super admins - but for its quota, which
\* organization.controller.ts:38-43 calls "Member-level" and leaves without a guard:
\* whoever knows the organization's id is told its plan, limits and use.
quotaCall == Call("GET", <<"orgs", ":orgId", "quota">>)

MembersOnly ==
    answer = "served" =>
        /\ ":eventId" \in ToSet(asked.path) =>
            who.session /\ ~ who.galleryToken /\ who.role # "none"
        /\ ":orgId" \in ToSet(asked.path) /\ asked # quotaCall =>
            who.session /\ ~ who.galleryToken /\ (who.role # "none" \/ who.isSuperAdmin)
=============================================================================
