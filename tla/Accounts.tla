------------------------------ MODULE Accounts ------------------------------
(***************************************************************************)
(* One account: its password, its sessions and the links that reset its    *)
(* password.  Login, change, reset by link and reset by an administrator   *)
(* are requests of several statements that interleave at every await and   *)
(* may die between two of them.  A password is the number of its setting;  *)
(* the ones an administrator's reset sets are known to nobody.             *)
(***************************************************************************)
EXTENDS Naturals, FiniteSets

CONSTANTS Sessions, Links, Calls,
          MaxPasswords   \* bound: settings of the password

ASSUME AccountsConstants == MaxPasswords \in Nat /\ IsFiniteSet(Calls)

VARIABLES
    password,   \* user.password; 0 is the first
    issued,     \* the last password number given out
    locked,     \* passwords nobody holds
    session,    \* rows of session: [state, password, late, kept]
    link,       \* rows of password_reset_token: "none", "live", "used" or "expired"
    mailed,     \* links whose raw token a mail carries; it is kept nowhere else
    call,       \* requests in flight
    writes,     \* history: passwords set through each link
    stranded,   \* history: something took the locked account's way back
    cutOff,     \* history: a request died after it had set the password
    admins      \* super admins created by adminSignup

accountVars == <<password, issued, locked, session, link, mailed, call, writes, stranded, cutOff, admins>>

NoCall == [at |-> "none"]
NoSession == [state |-> "none", password |-> 0, late |-> FALSE, kept |-> FALSE]
Alive == {s \in Sessions : session[s].state = "live"}
LiveLinks == {l \in Links : link[l] = "live"}
Goes(c, record) == call' = [call EXCEPT ![c] = record]
Returns(c) == Goes(c, NoCall)

\* userRepository.update of the password: a fresh number.
SetPassword ==
    /\ issued < MaxPasswords
    /\ issued' = issued + 1
    /\ password' = issued + 1

\* sessionRepository.deleteForUser: all of them, or all but the caller's.
deleteForUser(except) ==
    session' = [s \in Sessions |->
        IF s \notin except THEN NoSession
        ELSE IF session[s].state = "live" THEN [session[s] EXCEPT !.kept = TRUE]
        ELSE session[s]]

\* passwordResetRepository.invalidateForUser.
invalidateForUser == link' = [l \in Links |-> IF link[l] = "live" THEN "used" ELSE link[l]]

(***************************************************************************)
(* Signing in and out.                                                     *)
(***************************************************************************)
\* The password typed is compared with the row's; nobody types a locked one.
login(c) ==
    /\ call[c] = NoCall /\ admins > 0 /\ password \notin locked
    /\ Goes(c, [at |-> "open", password |-> password])
    /\ UNCHANGED <<password, issued, locked, session, link, writes, stranded, mailed, cutOff, admins>>

createSession(c, s) ==
    /\ call[c].at = "open" /\ session[s] = NoSession
    /\ session' = [session EXCEPT ![s] =
            [state |-> "live", password |-> call[c].password,
             late |-> call[c].password # password, kept |-> FALSE]]
    /\ Returns(c)
    /\ UNCHANGED <<password, issued, locked, link, writes, stranded, mailed, cutOff, admins>>

logout(s) ==
    /\ s \in Alive
    /\ session' = [session EXCEPT ![s] = NoSession]
    /\ UNCHANGED <<password, issued, locked, link, call, writes, stranded, mailed, cutOff, admins>>

\* Only while there is no user at all; asked before the row is written.
adminSignup(c) ==
    /\ call[c] = NoCall /\ admins = 0
    /\ Goes(c, [at |-> "signup"])
    /\ UNCHANGED <<password, issued, locked, session, link, writes, stranded, mailed, cutOff, admins>>

createAdmin(c) ==
    /\ call[c].at = "signup"
    /\ admins' = admins + 1
    /\ Goes(c, [at |-> "open", password |-> password])
    /\ UNCHANGED <<password, issued, locked, session, link, writes, stranded, mailed, cutOff>>

(***************************************************************************)
(* Changing the password from a session: compare, write, void the links,   *)
(* drop the other sessions.                                                *)
(***************************************************************************)
changePassword(c, s) ==
    /\ call[c] = NoCall /\ s \in Alive /\ password \notin locked
    /\ Goes(c, [at |-> "change", session |-> s])
    /\ UNCHANGED <<password, issued, locked, session, link, writes, stranded, mailed, cutOff, admins>>

ChangeSteps(c) ==
    \/ /\ call[c].at = "change"
       /\ SetPassword
       /\ Goes(c, [call[c] EXCEPT !.at = "changeLinks"])
       /\ UNCHANGED <<locked, session, link, writes, stranded, mailed, cutOff, admins>>
    \/ /\ call[c].at = "changeLinks"
       /\ invalidateForUser
       /\ stranded' = (stranded \/ LiveLinks # {})
       /\ Goes(c, [call[c] EXCEPT !.at = "changeSessions"])
       /\ UNCHANGED <<password, issued, locked, session, writes, mailed, cutOff, admins>>
    \/ /\ call[c].at = "changeSessions"
       /\ deleteForUser({call[c].session})
       /\ Returns(c)
       /\ UNCHANGED <<password, issued, locked, link, writes, stranded, mailed, cutOff, admins>>

(***************************************************************************)
(* Resetting by link: one conditional UPDATE redeems it, then the password *)
(* is written and every session dropped.                                   *)
(***************************************************************************)
\* Mutant: the link is looked up and marked when the password has been set.
LooksUpThenMarks(c, l) ==
    /\ call[c] = NoCall /\ link[l] = "live" /\ l \in mailed
    /\ Goes(c, [at |-> "reset", link |-> l])
    /\ UNCHANGED <<password, issued, locked, session, link, writes, stranded, mailed, cutOff, admins>>

redeem(c, l) ==
    /\ call[c] = NoCall /\ link[l] = "live" /\ l \in mailed
    /\ link' = [link EXCEPT ![l] = "used"]
    /\ Goes(c, [at |-> "reset", link |-> l])
    /\ UNCHANGED <<password, issued, locked, session, writes, stranded, mailed, cutOff, admins>>

ResetSteps(c) ==
    \/ /\ call[c].at = "reset"
       /\ SetPassword
       /\ writes' = [writes EXCEPT ![call[c].link] = @ + 1]
       /\ Goes(c, [at |-> "resetSessions"])
       /\ UNCHANGED <<locked, session, link, stranded, mailed, cutOff, admins>>
    \/ /\ call[c].at = "resetSessions"
       /\ deleteForUser({})
       /\ Returns(c)
       /\ UNCHANGED <<password, issued, locked, link, writes, stranded, mailed, cutOff, admins>>

(***************************************************************************)
(* An administrator's reset: a password nobody holds, no session, no older *)
(* link, and one new link, whose token is in its mail alone.               *)
(***************************************************************************)
resetMemberPassword(c) ==
    /\ call[c] = NoCall /\ admins > 0
    /\ SetPassword
    /\ locked' = locked \cup {issued + 1}
    /\ stranded' = FALSE
    /\ Goes(c, [at |-> "adminSessions"])
    /\ UNCHANGED <<session, link, writes, mailed, cutOff, admins>>

AdminResetSteps(c) ==
    \/ /\ call[c].at = "adminSessions"
       /\ deleteForUser({})
       /\ Goes(c, [at |-> "adminLinks"])
       /\ UNCHANGED <<password, issued, locked, link, writes, stranded, mailed, cutOff, admins>>
    \/ /\ call[c].at = "adminLinks"
       /\ invalidateForUser
       /\ Goes(c, [at |-> "adminLink"])
       /\ UNCHANGED <<password, issued, locked, session, writes, stranded, mailed, cutOff, admins>>
    \/ /\ call[c].at = "adminLink"
       /\ \E l \in Links :
            /\ link[l] = "none" /\ \A d \in Calls : call[d] # [at |-> "adminMail", link |-> l]
            /\ link' = [link EXCEPT ![l] = "live"]
            /\ Goes(c, [at |-> "adminMail", link |-> l])
       /\ UNCHANGED <<password, issued, locked, session, writes, stranded, mailed, cutOff, admins>>
    \/ /\ call[c].at = "adminMail"
       /\ mailed' = mailed \cup {call[c].link}
       /\ Returns(c)
       /\ UNCHANGED <<password, issued, locked, session, link, writes, stranded, cutOff, admins>>

(***************************************************************************)
(* Time, the nightly cleanup, and requests that die.                       *)
(***************************************************************************)
\* The session's and the link's expiresAt pass: getByToken and redeem refuse them.
Expires ==
    \/ /\ \E s \in Alive : session' = [session EXCEPT ![s].state = "expired"]
       /\ UNCHANGED <<password, issued, locked, link, call, writes, stranded, mailed, cutOff, admins>>
    \/ /\ \E l \in LiveLinks : link' = [link EXCEPT ![l] = "expired"]
       /\ stranded' = TRUE
       /\ UNCHANGED <<password, issued, locked, session, call, writes, mailed, cutOff, admins>>

handleSessionCleanup ==
    /\ session' = [s \in Sessions |-> IF session[s].state = "expired" THEN NoSession ELSE session[s]]
    /\ link' = [l \in Links |-> IF link[l] = "expired" THEN "none" ELSE link[l]]
    /\ writes' = [l \in Links |-> IF link[l] = "expired" THEN 0 ELSE writes[l]]
    /\ mailed' = {l \in mailed : link[l] # "expired"}
    /\ <<session, link>>' # <<session, link>>
    /\ UNCHANGED <<password, issued, locked, call, stranded, cutOff, admins>>

\* The process ends, a statement fails, or the mail cannot be rendered or sent.
Dies(c) ==
    /\ call[c] # NoCall
    /\ Returns(c)
    /\ stranded' = (stranded \/ call[c].at \in {"reset", "adminSessions", "adminLinks", "adminLink", "adminMail"})
    /\ cutOff' = (cutOff \/ call[c].at \in {"changeLinks", "changeSessions", "resetSessions", "adminSessions"})
    /\ UNCHANGED <<password, issued, locked, session, link, writes, admins, mailed>>

AccountsInit ==
    /\ password = 0 /\ issued = 0 /\ locked = {}
    /\ session = [s \in Sessions |-> NoSession]
    /\ link = [l \in Links |-> "none"] /\ mailed = {}
    /\ call = [c \in Calls |-> NoCall]
    /\ writes = [l \in Links |-> 0]
    /\ stranded = FALSE /\ cutOff = FALSE
    /\ admins \in {0, 1}

AccountsNext ==
    \/ \E c \in Calls :
        \/ login(c) \/ adminSignup(c) \/ createAdmin(c)
        \/ ChangeSteps(c) \/ ResetSteps(c) \/ resetMemberPassword(c) \/ AdminResetSteps(c)
        \/ Dies(c)
        \/ \E s \in Sessions : createSession(c, s) \/ changePassword(c, s)
        \/ \E l \in Links : redeem(c, l)
    \/ \E s \in Sessions : logout(s)
    \/ Expires
    \/ handleSessionCleanup

AccountsSpec == AccountsInit /\ [][AccountsNext]_accountVars

(***************************************************************************)
(* Properties.                                                             *)
(***************************************************************************)
\* A session opened with an earlier password is one a change kept for its own
\* caller, one whose login had compared the password before the change and
\* wrote its row after it, or one that a change or reset still in flight is
\* going to drop (auth.service.ts:217-229 and 250-257) - unless that request
\* died after it had set the password.
OldSessionsExplained ==
    \A s \in Alive :
        \/ session[s].password = password
        \/ session[s].late \/ session[s].kept \/ cutOff
        \/ \E c \in Calls :
            call[c].at \in {"changeLinks", "changeSessions", "resetSessions", "adminSessions"}

\* "two clicks on the same emailed link cannot both win"
\* (password-reset.repository.ts:4-6): a link sets the password at most once.
LinkSetsPasswordOnce == \A l \in Links : writes[l] <= 1

\* A locked account can be opened again: a live link has gone out by mail, the only
\* place its token exists (organization.service.ts:419-432), or the request that writes,
\* mails or uses it is still running - unless the link expired, that request or its
\* mail failed, or a changePassword begun before the reset voided the link after it
\* (auth.service.ts:222 against organization.service.ts:417).
LockedHasWayBack ==
    password \in locked =>
        \/ LiveLinks \cap mailed # {} \/ stranded
        \/ \E c \in Calls :
              \/ call[c].at \in {"reset", "adminSessions", "adminLinks", "adminLink"}
              \/ call[c].at = "adminMail" /\ call[c].link \in LiveLinks

\* What the missing lock of resetMemberPassword costs: as many live links as
\* resets overlapped, where organization.service.ts:412 wants one.
LinksBounded ==
    Cardinality(LiveLinks) + Cardinality({c \in Calls : call[c].at = "adminLink"})
        <= Cardinality(Calls)

\* Passwords, sessions and links keep together through overlapping changes: sessions
\* of an old password are explained, a link works once, a locked account has a way
\* back, and links stay few (auth.service.ts:217-257, organization.service.ts:412-417).
AccountInv ==
    OldSessionsExplained /\ LinkSetsPasswordOnce /\ LockedHasWayBack /\ LinksBounded
=============================================================================
