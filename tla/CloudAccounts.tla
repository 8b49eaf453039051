--------------------------- MODULE CloudAccounts ---------------------------
(***************************************************************************)
(* One organization's connection to a cloud provider: the OAuth round      *)
(* trip, the stored tokens, the lazy refresh that several calls share, and *)
(* the ways an account is lost.                                            *)
(***************************************************************************)
EXTENDS Integers, FiniteSets

CONSTANTS CloudCalls,              \* folder listings and import jobs using the account
          STATE_TTL, TOKEN_TTL,    \* lifetimes of an OAuth state and an access token
          TOKEN_EXPIRY_MARGIN,
          MaxGrants, MaxNow

ASSUME CloudAccountsConstants ==
    /\ STATE_TTL \in Nat /\ TOKEN_TTL \in Nat /\ TOKEN_EXPIRY_MARGIN \in Nat
    /\ TOKEN_EXPIRY_MARGIN < TOKEN_TTL /\ MaxGrants \in Nat /\ MaxNow \in Nat

VARIABLES
    account,  \* the row: [stored, revoked, refresh: grant, access: [grant, exp]]
    granted,  \* consents that stand at the provider
    grants,   \* consents given so far
    flow,     \* the OAuth state under way: its exp, 0 when none
    tokenCall,     \* [phase, row: the account as read, token]
    now,
    steady    \* history: no call was using an earlier row when the account was last
              \* connected, and no disconnect, withdrawal or error came since

cloudVars == <<account, granted, grants, flow, tokenCall, now, steady>>

NoToken == [grant |-> 0, exp |-> 0]

\* The phases of a call that goes by the row it has read.
HoldsRow == {"read", "refreshing", "storing"}

\* getById and listByOrg: the rows with revokedAt null.
Connected == account.stored /\ ~ account.revoked

(***************************************************************************)
(* Connecting.                                                             *)
(***************************************************************************)
getAuthorizeUrl ==
    /\ flow = 0
    /\ flow' = now + STATE_TTL
    /\ UNCHANGED <<account, granted, grants, tokenCall, now, steady>>

\* Mutant: a reconnected row keeps its revokedAt.
KeepsRevoked(token) == [stored |-> TRUE, revoked |-> account.revoked, refresh |-> token.grant, access |-> token]

upsert(token) == [stored |-> TRUE, revoked |-> FALSE, refresh |-> token.grant, access |-> token]

\* The consent is given, then the callback exchanges the code, unless the state
\* has expired; the row of the same account is taken over.
handleCallback ==
    /\ flow # 0 /\ grants < MaxGrants
    /\ flow' = 0
    /\ grants' = grants + 1
    /\ granted' = granted \cup {grants + 1}
    /\ IF flow < now
       THEN UNCHANGED <<account, tokenCall, steady>>
       ELSE /\ account' = upsert([grant |-> grants + 1, exp |-> now + TOKEN_TTL])
            /\ steady' = \A c \in CloudCalls : tokenCall[c].phase \notin HoldsRow
            /\ UNCHANGED tokenCall
    /\ UNCHANGED now

disconnect ==
    /\ Connected
    /\ account' = [account EXCEPT !.revoked = TRUE]
    /\ steady' = FALSE
    /\ UNCHANGED <<granted, grants, flow, tokenCall, now>>

\* The user withdraws a consent at the provider.
Withdraw(g) ==
    /\ granted' = granted \ {g}
    /\ steady' = (steady /\ g # account.refresh)
    /\ UNCHANGED <<account, grants, flow, tokenCall, now>>

(***************************************************************************)
(* Using the account.                                                      *)
(***************************************************************************)
requireAccount(c) ==
    /\ tokenCall[c].phase = "idle" /\ Connected
    /\ tokenCall' = [tokenCall EXCEPT ![c] = [@ EXCEPT !.phase = "read", !.row = account]]
    /\ UNCHANGED <<account, granted, grants, flow, now, steady>>

Valid(row) == row.access # NoToken /\ row.access.exp > now + TOKEN_EXPIRY_MARGIN

\* The stored token while it is valid by the row as read, a refresh otherwise.
getFreshAccessToken(c) ==
    /\ tokenCall[c].phase = "read"
    /\ tokenCall' = [tokenCall EXCEPT ![c] = IF Valid(tokenCall[c].row)
                    THEN [@ EXCEPT !.phase = "handed", !.token = tokenCall[c].row.access]
                    ELSE [@ EXCEPT !.phase = "refreshing"]]
    /\ UNCHANGED <<account, granted, grants, flow, now, steady>>

Refreshed(c) ==
    /\ tokenCall[c].phase = "refreshing" /\ tokenCall[c].row.refresh \in granted
    /\ tokenCall' = [tokenCall EXCEPT ![c] = [@ EXCEPT !.phase = "storing",
                    !.token = [grant |-> tokenCall[c].row.refresh, exp |-> now + TOKEN_TTL]]]
    /\ UNCHANGED <<account, granted, grants, flow, now, steady>>

\* By account id: whatever the row holds by now.
updateAccessToken(c) ==
    /\ tokenCall[c].phase = "storing"
    /\ account' = [account EXCEPT !.access = tokenCall[c].token]
    /\ tokenCall' = [tokenCall EXCEPT ![c].phase = "handed"]
    /\ UNCHANGED <<granted, grants, flow, now, steady>>

\* The provider refuses the consent the call has read, or the two requests fail in
\* another way: either revokes the account by its id, reconnected since or not.
Refused(c) ==
    /\ tokenCall[c].phase = "refreshing" /\ tokenCall[c].row.refresh \notin granted
    /\ account' = [account EXCEPT !.revoked = TRUE]
    /\ tokenCall' = [tokenCall EXCEPT ![c] = [phase |-> "idle", row |-> @.row, token |-> NoToken]]
    /\ UNCHANGED <<granted, grants, flow, now, steady>>

RefreshErrors(c) ==
    /\ tokenCall[c].phase \in {"refreshing", "storing"}
    /\ account' = [account EXCEPT !.revoked = TRUE]
    /\ steady' = FALSE
    /\ tokenCall' = [tokenCall EXCEPT ![c] = [phase |-> "idle", row |-> @.row, token |-> NoToken]]
    /\ UNCHANGED <<granted, grants, flow, now>>

Done(c) ==
    /\ tokenCall[c].phase = "handed"
    /\ tokenCall' = [tokenCall EXCEPT ![c] = [phase |-> "idle", row |-> @.row, token |-> NoToken]]
    /\ UNCHANGED <<account, granted, grants, flow, now, steady>>

Passes ==
    /\ now < MaxNow
    /\ now' = now + 1
    /\ UNCHANGED <<account, granted, grants, flow, tokenCall, steady>>

-----------------------------------------------------------------------------
NoRow == [stored |-> FALSE, revoked |-> FALSE, refresh |-> 0, access |-> NoToken]

CloudAccountsInit ==
    /\ account = NoRow /\ granted = {} /\ grants = 0 /\ flow = 0
    /\ tokenCall = [c \in CloudCalls |-> [phase |-> "idle", row |-> NoRow, token |-> NoToken]]
    /\ now = 1 /\ steady = FALSE

CloudAccountsNext ==
    \/ getAuthorizeUrl \/ handleCallback \/ disconnect \/ Passes
    \/ \E g \in granted : Withdraw(g)
    \/ \E c \in CloudCalls :
           \/ requireAccount(c) \/ getFreshAccessToken(c) \/ Refreshed(c)
           \/ updateAccessToken(c) \/ Refused(c) \/ RefreshErrors(c) \/ Done(c)

CloudAccountsSpec == CloudAccountsInit /\ [][CloudAccountsNext]_cloudVars

-----------------------------------------------------------------------------
(* Connecting an account holds: however many calls refresh its token at once, it   *)
(* stays connected, its consent stands, and the token in its row belongs to that   *)
(* consent, until it is disconnected, its consent withdrawn, or a refresh fails by *)
(* an error.  The exception: a call that read the row before a reconnect and is    *)
(* still at its refresh revokes the new row by its id (cloud.service.ts:146), or   *)
(* stores a token of the old consent in it (137-141).                              *)
ReconnectHolds ==
    steady => /\ Connected /\ account.refresh \in granted
              /\ account.access.grant = account.refresh
=============================================================================
