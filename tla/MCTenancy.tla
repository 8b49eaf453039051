----------------------------- MODULE MCTenancy -----------------------------
(***************************************************************************)
(* Organizations, accounts, who may call what, and the figures shown of it  *)
(* all.  The four share no variable; a behaviour follows one of them, its   *)
(* focus.                                                                   *)
(***************************************************************************)
EXTENDS Tenancy, Accounts, Access, Figures, TLC

CONSTANTS o1, u1, s1

VARIABLE focus

tenancyVars == <<focus, vars, accountVars, accessVars, figureVars>>

MCPlanLimits == [starter |-> 1, pro |-> 2, enterprise |-> 2]
\* Memberships, plans with events, and the life of an organization.
MCWorkloads == {{"add", "role", "drop"}, {"plan", "event", "erase"},
                {"create", "update", "remove", "event"}}

MCTenantOf == ("g1" :> "t1") @@ ("g3" :> "t2")
MCSizeOf == ("f1" :> 1) @@ ("f2" :> 2)
MCGalaOf == [f \in Files |-> "g1"]

\* Calls and Sessions are the values of Requests, Links those of Events.  Which
\* organization is there at first, whose and under which slug is fixed instead.
MCSymmetry == Permutations(Requests) \cup Permutations(Events)

MCInit ==
    /\ focus \in {"tenancy", "accounts", "access", "figures"}
    /\ Init /\ AccountsInit /\ AccessInit /\ FiguresInit
    /\ org[o1].state = "live" /\ org[o1].slug = s1 /\ role[o1][u1] = "owner"
    /\ focus # "tenancy" => workload = {"add", "role", "drop"}
    /\ focus # "accounts" => admins = 1
    /\ focus # "access" => who = CHOOSE w \in Actors : TRUE
    /\ focus # "access" => asked = CHOOSE c \in ClientCalls : TRUE
    /\ focus # "figures" => /\ \A g \in Galas : gala[g].state = "deleted"
                            /\ \A f \in Files : file[f].status = "none"

MCNext ==
    /\ UNCHANGED focus
    /\ \/ focus = "tenancy" /\ Next /\ UNCHANGED <<accountVars, accessVars, figureVars>>
       \/ focus = "accounts" /\ AccountsNext /\ UNCHANGED <<vars, accessVars, figureVars>>
       \/ focus = "access" /\ AccessNext /\ UNCHANGED <<vars, accountVars, figureVars>>
       \/ focus = "figures" /\ FiguresNext /\ UNCHANGED <<vars, accountVars, accessVars>>

MCSpec == MCInit /\ [][MCNext]_tenancyVars

\* A request is answered by the route written for it, to members only but for the
\* unguarded quota, and with figures that are the same on every screen
\* (asset.controller.ts:69, auth.service.ts:143-156, organization.controller.ts:38-43,
\* asset.repository.ts:185-192, organization.service.ts:203).
AnswersAgree ==
    ServedByItsRoute /\ MembersOnly /\ FiguresAgree /\ BellMatchesGuests
=============================================================================
