--------------------------- MODULE Tenancy_proofs ---------------------------
(***************************************************************************)
(* Accounts and organizations under any number of overlapping requests:    *)
(* sessions, links and the password keep together, and so do plans, limits *)
(* and removals; and what the organization's mail log tells of its mails.  *)
(***************************************************************************)
EXTENDS Tenancy, Accounts, MailLog, FiniteSetTheorems, TLAPS

-----------------------------------------------------------------------------
(* Accounts *)

Setting == {"changeLinks", "changeSessions", "resetSessions", "adminSessions"}
WayBack == {"reset", "adminSessions", "adminLinks", "adminLink"}

CallRow ==
    [at : {"none", "signup", "resetSessions", "adminSessions", "adminLinks", "adminLink"}]
      \cup [at : {"open"}, password : Nat]
      \cup [at : {"change", "changeLinks", "changeSessions"}, session : Sessions]
      \cup [at : {"reset", "adminMail"}, link : Links]
SessionRow == [state : {"none", "live", "expired"}, password : Nat, late : BOOLEAN, kept : BOOLEAN]

AccountTypes ==
    /\ password \in Nat /\ issued \in Nat /\ locked \subseteq 1..issued
    /\ session \in [Sessions -> SessionRow]
    /\ link \in [Links -> {"none", "live", "used", "expired"}]
    /\ call \in [Calls -> CallRow]
    /\ writes \in [Links -> Nat] /\ mailed \subseteq Links

\* A link is used before a password is set through it, and by one request.
UsedOnce ==
    \A l \in Links :
        /\ writes[l] <= 1
        /\ writes[l] # 0 => link[l] = "used"
        /\ \A c \in Calls : call[c].at = "reset" /\ call[c].link = l =>
             /\ link[l] = "used" /\ writes[l] = 0
             /\ \A d \in Calls : call[d].at = "reset" /\ call[d].link = l => d = c

AtLink == {c \in Calls : call[c].at = "adminLink"}
LinksFew == IsFiniteSet(LiveLinks) /\ LinksBounded

AccountsStrong == AccountTypes /\ OldSessionsExplained /\ UsedOnce /\ LockedHasWayBack /\ LinksFew

\* A request goes on to a record of its kind, and the others stay where they are.
LEMMA CallGoes ==
    ASSUME AccountTypes, NEW c \in Calls, NEW r \in CallRow, Goes(c, r)
    PROVE  /\ call' \in [Calls -> CallRow] /\ call'[c] = r
           /\ \A d \in Calls \ {c} : call'[d] = call[d]
BY DEF AccountTypes, Goes

\* The records a call waits with are well typed.
LEMMA CallRows ==
    /\ NoCall \in CallRow /\ NoCall.at = "none"
    /\ \A a \in {"none", "signup", "resetSessions", "adminSessions", "adminLinks", "adminLink"} :
         [at |-> a] \in CallRow
    /\ \A n \in Nat : [at |-> "open", password |-> n] \in CallRow
    /\ \A a \in {"change", "changeLinks", "changeSessions"}, s \in Sessions :
         [at |-> a, session |-> s] \in CallRow
    /\ \A a \in {"reset", "adminMail"}, l \in Links : [at |-> a, link |-> l] \in CallRow
BY DEF NoCall, CallRow

\* A change keeps the session it began with.
LEMMA ChangeRows ==
    ASSUME NEW r \in CallRow, r.at \in {"change", "changeLinks", "changeSessions"},
           NEW a \in {"changeLinks", "changeSessions"}
    PROVE  [r EXCEPT !.at = a] \in CallRow /\ [r EXCEPT !.at = a].at = a
<1>1. r \in [at : {"change", "changeLinks", "changeSessions"}, session : Sessions]
  BY DEF CallRow
<1> QED BY <1>1 DEF CallRow

\* A call that resets a password or mails a link holds it.
LEMMA ResetRows ==
    ASSUME NEW r \in CallRow, r.at \in {"reset", "adminMail"}
    PROVE  r.link \in Links
BY DEF CallRow

\* A password that is set is not one of the locked ones.
LEMMA PasswordTypes ==
    ASSUME AccountTypes, SetPassword
    PROVE  /\ password' \in Nat /\ issued' \in Nat /\ 1..issued \subseteq 1..issued'
           /\ password' \notin locked /\ password' \in 1..issued'
BY DEF AccountTypes, SetPassword

\* Deleting a user's sessions leaves sessions, and live only the ones spared.
LEMMA SessionTypes ==
    ASSUME AccountTypes, NEW S, deleteForUser(S)
    PROVE  /\ session' \in [Sessions -> SessionRow]
           /\ \A s \in Sessions : session'[s].state = "live" => s \in S /\ session'[s].kept
BY DEF AccountTypes, deleteForUser, SessionRow, NoSession

\* Every variable of an account keeps its type.
LEMMA AccountTypesStep ==
    ASSUME AccountTypes, AccountsNext
    PROVE  AccountTypes'
<1> USE DEF AccountTypes
<1>n. NoCall \in CallRow /\ NoSession \in SessionRow
  BY CallRows DEF NoSession, SessionRow
<1>g. ASSUME NEW c \in Calls, NEW r \in CallRow, Goes(c, r)
      PROVE  call' \in [Calls -> CallRow]
  BY <1>g, CallGoes
<1>1. ASSUME NEW c \in Calls, login(c) \/ adminSignup(c) \/ createAdmin(c)
      PROVE  AccountTypes'
  BY <1>1, <1>g, CallRows DEF login, adminSignup, createAdmin
<1>2. ASSUME NEW c \in Calls, ChangeSteps(c)
      PROVE  AccountTypes'
  <2>0. call[c] \in CallRow
    OBVIOUS
  <2>1. CASE call[c].at = "change" /\ SetPassword
             /\ Goes(c, [call[c] EXCEPT !.at = "changeLinks"])
             /\ UNCHANGED <<locked, session, link, writes, mailed>>
    <3>1. call' \in [Calls -> CallRow]
      BY <1>g, <2>0, <2>1, ChangeRows
    <3> QED BY <2>1, <3>1, PasswordTypes
  <2>2. CASE call[c].at = "changeLinks" /\ invalidateForUser
             /\ Goes(c, [call[c] EXCEPT !.at = "changeSessions"])
             /\ UNCHANGED <<password, issued, locked, session, writes, mailed>>
    <3>1. call' \in [Calls -> CallRow]
      BY <1>g, <2>0, <2>2, ChangeRows
    <3> QED BY <2>2, <3>1 DEF invalidateForUser
  <2>3. CASE deleteForUser({call[c].session}) /\ Returns(c)
             /\ UNCHANGED <<password, issued, locked, link, writes, mailed>>
    BY <1>n, <1>g, <2>3, SessionTypes DEF Returns
  <2> QED BY <1>2, <2>1, <2>2, <2>3 DEF ChangeSteps
<1>3. ASSUME NEW c \in Calls, ResetSteps(c)
      PROVE  AccountTypes'
  <2>0. [at |-> "resetSessions"] \in CallRow
    BY CallRows
  <2>1. CASE SetPassword /\ call[c].at = "reset" /\ Goes(c, [at |-> "resetSessions"])
             /\ writes' = [writes EXCEPT ![call[c].link] = @ + 1]
             /\ UNCHANGED <<locked, session, link, mailed>>
    BY <1>g, <2>0, <2>1, PasswordTypes, ResetRows
  <2>2. CASE deleteForUser({}) /\ Returns(c)
             /\ UNCHANGED <<password, issued, locked, link, writes, mailed>>
    BY <1>n, <1>g, <2>2, SessionTypes DEF Returns
  <2> QED BY <1>3, <2>1, <2>2 DEF ResetSteps
<1>4. ASSUME NEW c \in Calls, resetMemberPassword(c)
      PROVE  AccountTypes'
  <2>0. [at |-> "adminSessions"] \in CallRow
    BY CallRows
  <2>1. locked' = locked \cup {password'} /\ SetPassword /\ Goes(c, [at |-> "adminSessions"])
        /\ UNCHANGED <<session, link, writes, mailed>>
    BY <1>4 DEF resetMemberPassword, SetPassword
  <2> QED BY <1>g, <2>0, <2>1, PasswordTypes
<1>5. ASSUME NEW c \in Calls, AdminResetSteps(c)
      PROVE  AccountTypes'
  <2>0. [at |-> "adminLinks"] \in CallRow /\ [at |-> "adminLink"] \in CallRow
    BY CallRows
  <2>1. CASE deleteForUser({}) /\ Goes(c, [at |-> "adminLinks"])
             /\ UNCHANGED <<password, issued, locked, link, writes, mailed>>
    BY <1>g, <2>0, <2>1, SessionTypes
  <2>2. CASE invalidateForUser /\ Goes(c, [at |-> "adminLink"])
             /\ UNCHANGED <<password, issued, locked, session, writes, mailed>>
    BY <1>g, <2>0, <2>2 DEF invalidateForUser
  <2>3. CASE (\E l \in Links : link' = [link EXCEPT ![l] = "live"]
                               /\ Goes(c, [at |-> "adminMail", link |-> l]))
             /\ UNCHANGED <<password, issued, locked, session, writes, mailed>>
    BY <1>g, <2>3, CallRows
  <2>4. CASE call[c].at = "adminMail" /\ mailed' = mailed \cup {call[c].link} /\ Returns(c)
             /\ UNCHANGED <<password, issued, locked, session, link, writes>>
    BY <1>g, <1>n, <2>4, ResetRows DEF Returns
  <2> QED BY <1>5, <2>1, <2>2, <2>3, <2>4 DEF AdminResetSteps
<1>6. ASSUME NEW c \in Calls, Dies(c)
      PROVE  AccountTypes'
  BY <1>g, <1>n, <1>6 DEF Dies, Returns
<1>7. ASSUME NEW c \in Calls, NEW s \in Sessions, createSession(c, s)
      PROVE  AccountTypes'
  <2>1. call[c].password \in Nat
    BY <1>7 DEF createSession, CallRow
  <2>2. [state |-> "live", password |-> call[c].password,
         late |-> call[c].password # password, kept |-> FALSE] \in SessionRow
    BY <2>1 DEF SessionRow
  <2> QED BY <1>g, <1>n, <1>7, <2>2 DEF createSession, Returns
<1>8. ASSUME NEW c \in Calls, NEW s \in Sessions, changePassword(c, s)
      PROVE  AccountTypes'
  BY <1>g, <1>8, CallRows DEF changePassword
<1>9. ASSUME NEW c \in Calls, NEW l \in Links, redeem(c, l)
      PROVE  AccountTypes'
  BY <1>g, <1>9, CallRows DEF redeem
<1>10. ASSUME NEW s \in Sessions, logout(s)
      PROVE  AccountTypes'
  BY <1>n, <1>10 DEF logout
<1>11. CASE Expires
  BY <1>11 DEF Expires, Alive, LiveLinks, SessionRow
<1>12. CASE handleSessionCleanup
  BY <1>n, <1>12 DEF handleSessionCleanup
<1> QED BY <1>1, <1>2, <1>3, <1>4, <1>5, <1>6, <1>7, <1>8, <1>9, <1>10, <1>11, <1>12
        DEF AccountsNext

\* A session of an old password: explained before, explained after.
LEMMA OldStep ==
    ASSUME AccountTypes, OldSessionsExplained, AccountsNext
    PROVE  OldSessionsExplained'
<1> DEFINE Busy == \E c \in Calls : call[c].at \in Setting
           Fine(s) == session[s].password = password \/ session[s].late \/ session[s].kept
<1>o. OldSessionsExplained <=> \A s \in Alive : Fine(s) \/ cutOff \/ Busy
  BY DEF OldSessionsExplained, Setting
<1>p. OldSessionsExplained' <=> \A s \in Alive' : Fine(s)' \/ cutOff' \/ Busy'
  BY DEF OldSessionsExplained, Setting
<1>c. ASSUME NEW c \in Calls, NEW r \in CallRow, Goes(c, r), call[c].at \notin Setting, Busy
      PROVE  Busy'
  BY <1>c, CallGoes
<1>b. ASSUME NEW c \in Calls, NEW r \in CallRow, Goes(c, r), r.at \in Setting
      PROVE  Busy'
  BY <1>b, CallGoes
<1>s. ASSUME UNCHANGED <<password, session, cutOff>>, Busy => Busy'
      PROVE  OldSessionsExplained'
  BY <1>o, <1>p, <1>s DEF Alive
<1>k. ASSUME NEW S, deleteForUser(S)
      PROVE  OldSessionsExplained'
  BY <1>p, <1>k, SessionTypes DEF Alive
<1> HIDE DEF Busy
<1>1. ASSUME NEW c \in Calls, login(c) \/ adminSignup(c) \/ createAdmin(c)
      PROVE  OldSessionsExplained'
  <2>1. UNCHANGED <<password, session, cutOff>> /\ call[c].at \notin Setting
    BY <1>1 DEF login, adminSignup, createAdmin, NoCall, Setting
  <2>2. \E r \in CallRow : Goes(c, r)
    BY <1>1, CallRows DEF login, adminSignup, createAdmin, AccountTypes
  <2> QED BY <1>c, <1>s, <2>1, <2>2
<1>2. ASSUME NEW c \in Calls, ChangeSteps(c)
      PROVE  OldSessionsExplained'
  <2>0. call[c] \in CallRow
    BY DEF AccountTypes
  <2>1. CASE \E a \in {"changeLinks", "changeSessions"} :
               call[c].at \in {"change", "changeLinks"} /\ Goes(c, [call[c] EXCEPT !.at = a])
    <3>1. Busy'
      BY <1>b, <2>0, <2>1, ChangeRows DEF Setting
    <3> QED BY <1>p, <3>1
  <2>2. CASE deleteForUser({call[c].session})
    BY <1>k, <2>2
  <2> QED BY <1>2, <2>1, <2>2, Zenon DEF ChangeSteps
<1>3. ASSUME NEW c \in Calls, ResetSteps(c)
      PROVE  OldSessionsExplained'
  <2>1. CASE Goes(c, [at |-> "resetSessions"])
    <3>1. Busy'
      BY <1>b, <2>1, CallRows DEF Setting
    <3> QED BY <1>p, <3>1
  <2>2. CASE deleteForUser({})
    BY <1>k, <2>2
  <2> QED BY <1>3, <2>1, <2>2 DEF ResetSteps
<1>4. ASSUME NEW c \in Calls, resetMemberPassword(c)
      PROVE  OldSessionsExplained'
  <2>1. Busy'
    BY <1>4, <1>b, CallRows DEF Setting, resetMemberPassword
  <2> QED BY <1>p, <2>1
<1>5. ASSUME NEW c \in Calls, AdminResetSteps(c)
      PROVE  OldSessionsExplained'
  <2>1. CASE deleteForUser({})
    BY <1>k, <2>1
  <2>2. CASE UNCHANGED <<password, session, cutOff>> /\ call[c].at \in {"adminLinks", "adminLink", "adminMail"}
    <3>1. \E r \in CallRow : Goes(c, r)
      BY <1>5, <2>2, CallRows DEF AdminResetSteps, Returns
    <3> QED BY <1>c, <1>s, <2>2, <3>1 DEF Setting
  <2> QED BY <1>5, <2>1, <2>2 DEF AdminResetSteps
<1>6. ASSUME NEW c \in Calls, Dies(c)
      PROVE  OldSessionsExplained'
  <2>1. UNCHANGED <<password, session>> /\ Goes(c, NoCall)
        /\ cutOff' = (cutOff \/ call[c].at \in Setting)
    BY <1>6 DEF Dies, Returns, Setting
  <2>2. CASE call[c].at \in Setting
    BY <1>p, <2>1, <2>2
  <2>3. CASE call[c].at \notin Setting
    BY <1>o, <1>p, <1>c, <2>1, <2>3, CallRows DEF Alive
  <2> QED BY <2>2, <2>3
<1>7. ASSUME NEW c \in Calls, NEW s \in Sessions, createSession(c, s)
      PROVE  OldSessionsExplained'
  <2>1. Busy => Busy'
    BY <1>7, <1>c, CallRows DEF createSession, Returns, Setting
  <2>2. Fine(s)'
    BY <1>7 DEF createSession, AccountTypes
  <2>3. \A x \in Sessions \ {s} : session'[x] = session[x]
    BY <1>7 DEF createSession, AccountTypes
  <2>4. UNCHANGED <<password, cutOff>>
    BY <1>7 DEF createSession
  <2> QED BY <1>o, <1>p, <2>1, <2>2, <2>3, <2>4 DEF Alive
<1>8. ASSUME NEW c \in Calls, NEW s \in Sessions, changePassword(c, s)
      PROVE  OldSessionsExplained'
  <2>1. UNCHANGED <<password, session, cutOff>> /\ call[c].at \notin Setting
    BY <1>8 DEF changePassword, NoCall, Setting
  <2>2. \E r \in CallRow : Goes(c, r)
    BY <1>8, CallRows DEF changePassword
  <2> QED BY <1>c, <1>s, <2>1, <2>2
<1>9. ASSUME NEW c \in Calls, NEW l \in Links, redeem(c, l)
      PROVE  OldSessionsExplained'
  <2>1. UNCHANGED <<password, session, cutOff>> /\ call[c].at \notin Setting
    BY <1>9 DEF redeem, NoCall, Setting
  <2>2. \E r \in CallRow : Goes(c, r)
    BY <1>9, CallRows DEF redeem
  <2> QED BY <1>c, <1>s, <2>1, <2>2
<1>10. ASSUME (\E s \in Sessions : logout(s)) \/ Expires \/ handleSessionCleanup
       PROVE  OldSessionsExplained'
  <2>1. UNCHANGED <<password, call, cutOff>>
    BY <1>10 DEF logout, Expires, handleSessionCleanup
  <2>2. \A s \in Sessions : session'[s].state = "live" => session'[s] = session[s]
    <3>1. CASE \E s \in Sessions : logout(s)
      BY <3>1 DEF logout, AccountTypes, NoSession
    <3>2. CASE Expires
      BY <3>2 DEF Expires, Alive, AccountTypes, SessionRow
    <3>3. CASE handleSessionCleanup
      BY <3>3 DEF handleSessionCleanup, AccountTypes, NoSession
    <3> QED BY <1>10, <3>1, <3>2, <3>3
  <2>3. Busy' = Busy
    BY <2>1 DEF Busy
  <2> QED BY <1>o, <1>p, <2>1, <2>2, <2>3 DEF Alive
<1> QED BY <1>1, <1>2, <1>3, <1>4, <1>5, <1>6, <1>7, <1>8, <1>9, <1>10 DEF AccountsNext

\* No step but the redemption puts a request at a reset, and no step takes a used
\* link back.
LEMMA ResetsOnlyLeave ==
    ASSUME AccountTypes, AccountsNext,
           ~ \E c \in Calls, l \in Links : redeem(c, l)
    PROVE  /\ \A d \in Calls : call'[d].at = "reset" => call'[d] = call[d]
           /\ \A l \in Links : link[l] = "used" => link'[l] = "used"
           /\ (\A l \in Links : writes'[l] \in {writes[l], 0})
              \/ \E c \in Calls : call[c].at = "reset" /\ call'[c].at # "reset"
                                  /\ link' = link
                                  /\ writes' = [writes EXCEPT ![call[c].link] = @ + 1]
<1>g. ASSUME NEW c \in Calls, NEW r, Goes(c, r), r.at # "reset"
      PROVE  \A d \in Calls : call'[d].at = "reset" => call'[d] = call[d]
  BY <1>g DEF Goes, AccountTypes
<1>1. ASSUME NEW c \in Calls, login(c) \/ adminSignup(c) \/ createAdmin(c)
             \/ AdminResetSteps(c) \/ Dies(c) \/ resetMemberPassword(c)
      PROVE  /\ \E r : Goes(c, r) /\ r.at # "reset"
             /\ writes' = writes
  <2>1. CASE login(c) \/ adminSignup(c) \/ createAdmin(c) \/ Dies(c) \/ resetMemberPassword(c)
    BY <2>1 DEF login, adminSignup, createAdmin, Dies, resetMemberPassword, Returns, NoCall
  <2>2. CASE AdminResetSteps(c)
    <3>1. writes' = writes
      BY <2>2 DEF AdminResetSteps
    <3>2. \/ Goes(c, [at |-> "adminLinks"]) \/ Goes(c, [at |-> "adminLink"])
          \/ (\E l \in Links : Goes(c, [at |-> "adminMail", link |-> l])) \/ Goes(c, NoCall)
      BY <2>2 DEF AdminResetSteps, Returns
    <3>3. CASE \E l \in Links : Goes(c, [at |-> "adminMail", link |-> l])
      <4>1. \A l \in Links : [at |-> "adminMail", link |-> l].at # "reset"
        OBVIOUS
      <4> QED BY <3>1, <3>3, <4>1
    <3>4. CASE Goes(c, [at |-> "adminLinks"]) \/ Goes(c, [at |-> "adminLink"]) \/ Goes(c, NoCall)
      BY <3>1, <3>4 DEF NoCall
    <3> QED BY <3>2, <3>3, <3>4
  <2> QED BY <1>1, <2>1, <2>2
<1>2. ASSUME NEW c \in Calls, NEW s \in Sessions, createSession(c, s) \/ changePassword(c, s)
      PROVE  /\ \E r : Goes(c, r) /\ r.at # "reset"
             /\ UNCHANGED <<link, writes>>
  BY <1>2 DEF createSession, changePassword, Returns, NoCall
<1>3. ASSUME NEW c \in Calls, ChangeSteps(c)
      PROVE  /\ \E r : Goes(c, r) /\ r.at # "reset"
             /\ writes' = writes
  <2>1. call[c] \in CallRow
    BY DEF AccountTypes
  <2>2. CASE \E a \in {"changeLinks", "changeSessions"} :
               call[c].at \in {"change", "changeLinks"} /\ Goes(c, [call[c] EXCEPT !.at = a])
    <3>1. PICK a \in {"changeLinks", "changeSessions"} :
               call[c].at \in {"change", "changeLinks"} /\ Goes(c, [call[c] EXCEPT !.at = a])
      BY <2>2
    <3>2. [call[c] EXCEPT !.at = a].at # "reset"
      BY <2>1, <3>1, ChangeRows
    <3> QED BY <1>3, <3>1, <3>2 DEF ChangeSteps
  <2>3. CASE Goes(c, NoCall)
    BY <1>3, <2>3 DEF ChangeSteps, NoCall
  <2> QED BY <1>3, <2>2, <2>3, Zenon DEF ChangeSteps, Returns
<1>4. ASSUME NEW c \in Calls, login(c) \/ adminSignup(c) \/ createAdmin(c)
             \/ AdminResetSteps(c) \/ Dies(c) \/ resetMemberPassword(c) \/ ChangeSteps(c)
      PROVE  \A l \in Links : link[l] = "used" => link'[l] = "used"
  <2>1. CASE login(c) \/ adminSignup(c) \/ createAdmin(c) \/ Dies(c) \/ resetMemberPassword(c)
    BY <2>1 DEF login, adminSignup, createAdmin, Dies, resetMemberPassword
  <2>2. CASE AdminResetSteps(c) \/ ChangeSteps(c)
    BY <2>2 DEF AdminResetSteps, ChangeSteps, AccountTypes, invalidateForUser
  <2> QED BY <1>4, <2>1, <2>2
<1>5. ASSUME NEW c \in Calls, ResetSteps(c)
      PROVE  /\ \E r : Goes(c, r) /\ r.at # "reset"
             /\ link' = link
             /\ \/ writes' = writes
                \/ /\ call[c].at = "reset"
                   /\ writes' = [writes EXCEPT ![call[c].link] = @ + 1]
  BY <1>5 DEF ResetSteps, Returns, NoCall
<1>6. ASSUME NEW c \in Calls, ResetSteps(c)
      PROVE  /\ \A d \in Calls : call'[d].at = "reset" => call'[d] = call[d]
             /\ call'[c].at # "reset"
  BY <1>5, <1>6 DEF Goes, AccountTypes
<1>7. ASSUME (\E s \in Sessions : logout(s)) \/ Expires \/ handleSessionCleanup
      PROVE  /\ call' = call
             /\ \A l \in Links : link[l] = "used" => link'[l] = "used"
             /\ \A l \in Links : writes'[l] \in {writes[l], 0}
  BY <1>7 DEF logout, Expires, handleSessionCleanup, LiveLinks, AccountTypes
<1> QED BY <1>g, <1>1, <1>2, <1>3, <1>4, <1>5, <1>6, <1>7 DEF AccountsNext

\* Two clicks on the same emailed link cannot both win.
LEMMA UsedOnceStep ==
    ASSUME AccountTypes, UsedOnce, AccountsNext
    PROVE  UsedOnce'
<1>0. AccountTypes'
  BY AccountTypesStep
<1>1. CASE \E c \in Calls, l \in Links : redeem(c, l)
  <2>1. PICK c \in Calls, l \in Links : redeem(c, l)
    BY <1>1
  <2>2. /\ link' = [link EXCEPT ![l] = "used"] /\ link[l] = "live" /\ writes' = writes
        /\ call'[c] = [at |-> "reset", link |-> l]
        /\ \A d \in Calls \ {c} : call'[d] = call[d]
    BY <2>1 DEF redeem, Goes, AccountTypes
  <2>3. writes[l] = 0 /\ \A d \in Calls : ~ (call[d].at = "reset" /\ call[d].link = l)
    BY <2>2 DEF UsedOnce
  <2> QED BY <2>2, <2>3 DEF UsedOnce, AccountTypes
<1>2. CASE ~ \E c \in Calls, l \in Links : redeem(c, l)
  <2>1. /\ \A d \in Calls : call'[d].at = "reset" => call'[d] = call[d]
        /\ \A l \in Links : link[l] = "used" => link'[l] = "used"
    BY <1>2, ResetsOnlyLeave
  <2>2. CASE \A l \in Links : writes'[l] \in {writes[l], 0}
    BY <2>1, <2>2 DEF UsedOnce, AccountTypes
  <2>3. CASE \E c \in Calls : call[c].at = "reset" /\ call'[c].at # "reset" /\ link' = link
                              /\ writes' = [writes EXCEPT ![call[c].link] = @ + 1]
    <3>1. PICK c \in Calls : call[c].at = "reset" /\ call'[c].at # "reset" /\ link' = link
                             /\ writes' = [writes EXCEPT ![call[c].link] = @ + 1]
      BY <2>3
    <3>2. call[c].link \in Links
      BY <3>1, ResetRows DEF AccountTypes
    <3>3. link[call[c].link] = "used" /\ writes[call[c].link] = 0
      BY <3>1, <3>2 DEF UsedOnce
    <3> QED BY <2>1, <3>1, <3>2, <3>3 DEF UsedOnce, AccountTypes
  <2> QED BY <1>2, <2>2, <2>3, ResetsOnlyLeave
<1> QED BY <1>1, <1>2

\* The live links that somebody was mailed, or that a request still mails.
Reached == {l \in LiveLinks :
    l \in mailed \/ \E c \in Calls : call[c].at = "adminMail" /\ call[c].link = l}

\* A locked account's way back is handed on from one request or link to the next.
LEMMA WayBackStep ==
    ASSUME AccountTypes, LockedHasWayBack, AccountsNext
    PROVE  LockedHasWayBack'
<1> DEFINE Way == \E c \in Calls : call[c].at \in WayBack
<1>o. LockedHasWayBack <=> (password \in locked => Reached # {} \/ stranded \/ Way)
  BY ResetRows DEF LockedHasWayBack, WayBack, Reached, AccountTypes, LiveLinks
<1>p. LockedHasWayBack' <=> (password' \in locked' => Reached' # {} \/ stranded' \/ Way')
  BY ResetRows, AccountTypesStep DEF LockedHasWayBack, WayBack, Reached, AccountTypes, LiveLinks
<1>b. ASSUME NEW c \in Calls, NEW r \in CallRow, Goes(c, r), r.at \in WayBack
      PROVE  Way'
  BY <1>b, CallGoes
<1>c. ASSUME NEW c \in Calls, NEW r \in CallRow, Goes(c, r), call[c].at \notin WayBack, Way
      PROVE  Way'
  BY <1>c, CallGoes
<1>r. ASSUME NEW c \in Calls, NEW r \in CallRow, Goes(c, r), call[c].at # "adminMail",
             UNCHANGED <<link, mailed>>
      PROVE  Reached \subseteq Reached'
  BY <1>r, CallGoes DEF Reached, LiveLinks
<1> HIDE DEF Way
<1>s. ASSUME UNCHANGED <<password, locked, link, mailed, stranded>>, NEW c \in Calls,
             NEW r \in CallRow, Goes(c, r), call[c].at \notin WayBack \cup {"adminMail"}
      PROVE  LockedHasWayBack'
  BY <1>o, <1>p, <1>c, <1>r, <1>s
<1>t. ASSUME SetPassword, locked' = locked
      PROVE  LockedHasWayBack'
  BY <1>p, <1>t, PasswordTypes
<1>1. ASSUME NEW c \in Calls, login(c) \/ adminSignup(c) \/ createAdmin(c)
      PROVE  LockedHasWayBack'
  <2>1. UNCHANGED <<password, locked, link, mailed, stranded>>
        /\ call[c].at \notin WayBack \cup {"adminMail"}
    BY <1>1 DEF login, adminSignup, createAdmin, NoCall, WayBack
  <2>2. \E r \in CallRow : Goes(c, r)
    BY <1>1, CallRows DEF login, adminSignup, createAdmin, AccountTypes
  <2> QED BY <1>s, <2>1, <2>2
<1>2. ASSUME NEW c \in Calls, ChangeSteps(c)
      PROVE  LockedHasWayBack'
  <2>1. CASE SetPassword /\ locked' = locked
    BY <1>t, <2>1
  <2>2. CASE call[c].at = "changeLinks" /\ stranded' = (stranded \/ LiveLinks # {})
             /\ Goes(c, [call[c] EXCEPT !.at = "changeSessions"])
             /\ UNCHANGED <<password, locked>>
    <3>1. [call[c] EXCEPT !.at = "changeSessions"] \in CallRow
      BY <2>2, ChangeRows DEF AccountTypes
    <3>2. Way => Way'
      BY <1>c, <2>2, <3>1 DEF WayBack
    <3>3. Reached # {} => LiveLinks # {}
      BY DEF Reached
    <3> QED BY <1>o, <1>p, <2>2, <3>2, <3>3
  <2>3. CASE call[c].at = "changeSessions" /\ Returns(c)
             /\ UNCHANGED <<password, locked, link, mailed, stranded>>
    BY <1>s, <2>3, CallRows DEF WayBack, Returns
  <2> QED BY <1>2, <2>1, <2>2, <2>3 DEF ChangeSteps
<1>3. ASSUME NEW c \in Calls, ResetSteps(c)
      PROVE  LockedHasWayBack'
  <2>1. CASE SetPassword /\ locked' = locked
    BY <1>t, <2>1
  <2>2. CASE call[c].at = "resetSessions" /\ Returns(c)
             /\ UNCHANGED <<password, locked, link, mailed, stranded>>
    BY <1>s, <2>2, CallRows DEF WayBack, Returns
  <2> QED BY <1>3, <2>1, <2>2 DEF ResetSteps
<1>4. ASSUME NEW c \in Calls, resetMemberPassword(c)
      PROVE  LockedHasWayBack'
  <2>1. Way'
    BY <1>4, <1>b, CallRows DEF WayBack, resetMemberPassword
  <2> QED BY <1>p, <2>1
<1>5. ASSUME NEW c \in Calls, AdminResetSteps(c)
      PROVE  LockedHasWayBack'
  <2>1. CASE \E a \in {"adminLinks", "adminLink"} : Goes(c, [at |-> a])
    <3>1. Way'
      BY <1>b, <2>1, CallRows DEF WayBack
    <3> QED BY <1>p, <3>1
  <2>2. CASE \E l \in Links : link[l] = "none" /\ link' = [link EXCEPT ![l] = "live"]
                              /\ Goes(c, [at |-> "adminMail", link |-> l])
    <3>1. PICK l \in Links : link' = [link EXCEPT ![l] = "live"]
                             /\ Goes(c, [at |-> "adminMail", link |-> l])
      BY <2>2
    <3>2. l \in LiveLinks'
      BY <3>1 DEF LiveLinks, AccountTypes
    <3>3. call'[c] = [at |-> "adminMail", link |-> l]
      BY <3>1, CallGoes, CallRows
    <3>4. l \in Reached'
      BY <3>2, <3>3 DEF Reached
    <3> QED BY <1>p, <3>4
  <2>3. CASE call[c].at = "adminMail" /\ mailed' = mailed \cup {call[c].link} /\ Returns(c)
             /\ UNCHANGED <<password, locked, link, stranded>>
    <3>1. \A d \in Calls \ {c} : call'[d] = call[d]
      BY <2>3, CallGoes, CallRows DEF Returns
    <3>2. Reached \subseteq Reached'
      BY <2>3, <3>1 DEF Reached, LiveLinks
    <3>3. Way => Way'
      BY <1>c, <2>3, CallRows DEF Returns, WayBack
    <3> QED BY <1>o, <1>p, <2>3, <3>2, <3>3
  <2> QED BY <1>5, <2>1, <2>2, <2>3 DEF AdminResetSteps
<1>6. ASSUME NEW c \in Calls, Dies(c)
      PROVE  LockedHasWayBack'
  <2>1. UNCHANGED <<password, locked, link, mailed>> /\ Goes(c, NoCall)
        /\ stranded' = (stranded \/ call[c].at \in WayBack \cup {"adminMail"})
    BY <1>6 DEF Dies, Returns, WayBack
  <2>2. CASE call[c].at \in WayBack \cup {"adminMail"}
    BY <1>p, <2>1, <2>2
  <2>3. CASE call[c].at \notin WayBack \cup {"adminMail"}
    <3>1. Reached \subseteq Reached' /\ (Way => Way')
      BY <1>c, <1>r, <2>1, <2>3, CallRows
    <3> QED BY <1>o, <1>p, <2>1, <2>3, <3>1
  <2> QED BY <2>2, <2>3
<1>7. ASSUME NEW c \in Calls, NEW s \in Sessions, createSession(c, s) \/ changePassword(c, s)
      PROVE  LockedHasWayBack'
  <2>1. UNCHANGED <<password, locked, link, mailed, stranded>>
        /\ call[c].at \notin WayBack \cup {"adminMail"}
    BY <1>7 DEF createSession, changePassword, NoCall, WayBack
  <2>2. \E r \in CallRow : Goes(c, r)
    BY <1>7, CallRows DEF createSession, changePassword, Returns
  <2> QED BY <1>s, <2>1, <2>2
<1>8. ASSUME NEW c \in Calls, NEW l \in Links, redeem(c, l)
      PROVE  LockedHasWayBack'
  <2>1. Way'
    BY <1>8, <1>b, CallRows DEF WayBack, redeem
  <2> QED BY <1>p, <2>1
<1>9. ASSUME NEW s \in Sessions, logout(s)
      PROVE  LockedHasWayBack'
  BY <1>9, <1>o, <1>p DEF logout, LiveLinks, Reached, Way
<1>10. CASE Expires
  <2>1. CASE UNCHANGED <<password, locked, link, call, stranded, mailed>>
    BY <2>1, <1>o, <1>p DEF LiveLinks, Reached, Way
  <2>2. CASE stranded'
    BY <2>2, <1>p
  <2> QED BY <1>10, <2>1, <2>2 DEF Expires
<1>11. CASE handleSessionCleanup
  <2>1. LiveLinks' = LiveLinks /\ (LiveLinks \cap mailed) \subseteq mailed'
    BY <1>11 DEF handleSessionCleanup, LiveLinks
  <2>2. Reached \subseteq Reached'
    BY <1>11, <2>1 DEF handleSessionCleanup, Reached
  <2> QED BY <1>11, <2>2, <1>o, <1>p DEF handleSessionCleanup, Way
<1> QED BY <1>1, <1>2, <1>3, <1>4, <1>5, <1>6, <1>7, <1>8, <1>9, <1>10, <1>11 DEF AccountsNext

-----------------------------------------------------------------------------
(* How many links are live *)

\* The calls that are about to write a link are finitely many.
LEMMA FewCalls == IsFiniteSet(AtLink) /\ Cardinality(AtLink) \in Nat
                  /\ Cardinality(AtLink) <= Cardinality(Calls) /\ Cardinality(Calls) \in Nat
<1>1. AtLink \subseteq Calls /\ IsFiniteSet(Calls)
  BY AccountsConstants DEF AtLink
<1> QED BY <1>1, FS_Subset, FS_CardinalityType

\* No live link more than there were, and no request more that is about to write one.
Fewer == LiveLinks' \subseteq LiveLinks /\ AtLink' \subseteq AtLink
\* The links that were live are voided by the request that is about to write one.
Voids == LiveLinks' = {}
\* A request writes its link and is done.
Writes ==
    \E l \in Links, c \in Calls :
        LiveLinks' = LiveLinks \cup {l} /\ AtLink' = AtLink \ {c} /\ c \in AtLink

\* Every step does one of these three to the links.
LEMMA LinksStep ==
    ASSUME AccountTypes, AccountsNext
    PROVE  Fewer \/ Voids \/ Writes
<1>g. ASSUME NEW c \in Calls, NEW r, Goes(c, r), r.at # "adminLink"
      PROVE  AtLink' = AtLink \ {c}
  BY <1>g DEF Goes, AccountTypes, AtLink
<1>u. ASSUME link' = link
      PROVE  LiveLinks' = LiveLinks
  BY <1>u DEF LiveLinks
<1>1. ASSUME NEW c \in Calls, login(c) \/ adminSignup(c) \/ createAdmin(c) \/ Dies(c)
             \/ ResetSteps(c) \/ resetMemberPassword(c)
      PROVE  Fewer
  <2>1. (\E r : Goes(c, r) /\ r.at # "adminLink") /\ link' = link
    BY <1>1 DEF login, adminSignup, createAdmin, Dies, ResetSteps, resetMemberPassword,
       Returns, NoCall
  <2> QED BY <1>g, <1>u, <2>1 DEF Fewer
<1>2. ASSUME NEW c \in Calls, ChangeSteps(c)
      PROVE  Fewer \/ Voids
  <2>1. CASE Returns(c) /\ link' = link
    BY <1>g, <1>u, <2>1 DEF Fewer, Returns, NoCall
  <2>2. CASE call[c].at = "change" /\ Goes(c, [call[c] EXCEPT !.at = "changeLinks"]) /\ link' = link
    <3>1. [call[c] EXCEPT !.at = "changeLinks"].at # "adminLink"
      BY <2>2, ChangeRows DEF AccountTypes
    <3> QED BY <1>g, <1>u, <2>2, <3>1 DEF Fewer
  <2>3. CASE invalidateForUser
    BY <2>3 DEF invalidateForUser, LiveLinks, Voids
  <2> QED BY <1>2, <2>1, <2>2, <2>3 DEF ChangeSteps
<1>3. ASSUME NEW c \in Calls, AdminResetSteps(c)
      PROVE  Fewer \/ Voids \/ Writes
  <2>1. CASE Goes(c, [at |-> "adminLinks"]) /\ link' = link
    BY <1>g, <1>u, <2>1 DEF Fewer
  <2>2. CASE invalidateForUser
    BY <2>2 DEF invalidateForUser, LiveLinks, Voids
  <2>3. CASE call[c].at = "adminLink"
             /\ \E l \in Links : link[l] = "none" /\ link' = [link EXCEPT ![l] = "live"]
                                 /\ Goes(c, [at |-> "adminMail", link |-> l])
    <3>1. PICK l \in Links : link' = [link EXCEPT ![l] = "live"]
                              /\ Goes(c, [at |-> "adminMail", link |-> l])
      BY <2>3
    <3>2. LiveLinks' = LiveLinks \cup {l}
      BY <3>1 DEF LiveLinks, AccountTypes
    <3>3. AtLink' = AtLink \ {c} /\ c \in AtLink
      BY <1>g, <2>3, <3>1 DEF AtLink
    <3> QED BY <3>2, <3>3 DEF Writes
  <2>4. CASE Returns(c) /\ link' = link
    BY <1>g, <1>u, <2>4 DEF Fewer, Returns, NoCall
  <2> QED BY <1>3, <2>1, <2>2, <2>3, <2>4 DEF AdminResetSteps
<1>4. ASSUME NEW c \in Calls, NEW s \in Sessions, createSession(c, s) \/ changePassword(c, s)
      PROVE  Fewer
  <2>1. (\E r : Goes(c, r) /\ r.at # "adminLink") /\ link' = link
    BY <1>4 DEF createSession, changePassword, Returns, NoCall
  <2> QED BY <1>g, <1>u, <2>1 DEF Fewer
<1>5. ASSUME NEW c \in Calls, NEW l \in Links, redeem(c, l)
      PROVE  Fewer
  <2>1. AtLink' = AtLink \ {c}
    BY <1>5, <1>g DEF redeem
  <2>2. LiveLinks' \subseteq LiveLinks
    BY <1>5 DEF redeem, LiveLinks, AccountTypes
  <2> QED BY <2>1, <2>2 DEF Fewer
<1>6. ASSUME (\E s \in Sessions : logout(s)) \/ Expires \/ handleSessionCleanup
      PROVE  Fewer
  <2>1. call' = call /\ LiveLinks' \subseteq LiveLinks
    BY <1>6 DEF logout, Expires, handleSessionCleanup, LiveLinks, AccountTypes
  <2> QED BY <2>1 DEF Fewer, AtLink
<1> QED BY <1>1, <1>2, <1>3, <1>4, <1>5, <1>6 DEF AccountsNext

\* So live links and those about to be written never outnumber the calls.
LEMMA LinksFewStep ==
    ASSUME AccountTypes, LinksFew, AccountsNext
    PROVE  LinksFew'
<1>a. /\ IsFiniteSet(LiveLinks) /\ Cardinality(LiveLinks) \in Nat
      /\ Cardinality(LiveLinks) + Cardinality(AtLink) <= Cardinality(Calls)
  BY FS_CardinalityType DEF LinksFew, LinksBounded, AtLink
<1>b. SUFFICES /\ IsFiniteSet(LiveLinks')
               /\ Cardinality(LiveLinks') + Cardinality(AtLink') <= Cardinality(Calls)
  BY DEF LinksFew, LinksBounded, AtLink
<1>c. /\ Cardinality(AtLink) \in Nat /\ IsFiniteSet(AtLink) /\ Cardinality(Calls) \in Nat
      /\ Cardinality(AtLink') \in Nat /\ Cardinality(AtLink') <= Cardinality(Calls)
  <2>1. AtLink' \subseteq Calls /\ IsFiniteSet(Calls)
    BY AccountsConstants DEF AtLink
  <2>2. Cardinality(AtLink') \in Nat /\ Cardinality(AtLink') <= Cardinality(Calls)
    BY <2>1, FS_Subset, FS_CardinalityType
  <2> QED BY <2>2, FewCalls
<1>1. CASE Fewer
  <2>1. /\ IsFiniteSet(LiveLinks') /\ Cardinality(LiveLinks') <= Cardinality(LiveLinks)
        /\ Cardinality(LiveLinks') \in Nat
    BY <1>a, <1>1, FS_Subset, FS_CardinalityType DEF Fewer
  <2>2. Cardinality(AtLink') <= Cardinality(AtLink)
    BY <1>c, <1>1, FS_Subset DEF Fewer
  <2> QED BY <1>a, <1>c, <2>1, <2>2
<1>2. CASE Voids
  <2>1. IsFiniteSet(LiveLinks') /\ Cardinality(LiveLinks') = 0
    BY <1>2, FS_EmptySet DEF Voids
  <2> QED BY <1>c, <2>1
<1>3. CASE Writes
  <2>1. PICK l \in Links, c \in Calls :
          LiveLinks' = LiveLinks \cup {l} /\ AtLink' = AtLink \ {c} /\ c \in AtLink
    BY <1>3 DEF Writes
  <2>2. /\ IsFiniteSet(LiveLinks') /\ Cardinality(LiveLinks') <= Cardinality(LiveLinks) + 1
        /\ Cardinality(LiveLinks') \in Nat
    <3>1. /\ IsFiniteSet(LiveLinks \cup {l})
          /\ Cardinality(LiveLinks \cup {l}) \in {Cardinality(LiveLinks), Cardinality(LiveLinks) + 1}
      BY <1>a, FS_AddElement, Zenon
    <3> QED BY <1>a, <2>1, <3>1
  <2>3. Cardinality(AtLink') = Cardinality(AtLink) - 1
    <3>1. Cardinality(AtLink \ {c}) = Cardinality(AtLink) - 1
      BY <1>c, <2>1, FS_RemoveElement, Zenon
    <3> QED BY <2>1, <3>1
  <2> QED BY <1>a, <1>c, <2>2, <2>3
<1> QED BY <1>1, <1>2, <1>3, LinksStep

\* The invariant holds of a system without an administrator.
LEMMA AccountsInitStrong == AccountsInit => AccountsStrong
<1> SUFFICES ASSUME AccountsInit PROVE AccountsStrong
  OBVIOUS
<1>1. AccountTypes
  BY CallRows DEF AccountsInit, AccountTypes, NoSession, SessionRow
<1>2. OldSessionsExplained /\ UsedOnce /\ LockedHasWayBack
  BY DEF AccountsInit, OldSessionsExplained, Alive, NoSession, UsedOnce, NoCall, LockedHasWayBack
<1>3. LiveLinks = {} /\ AtLink = {}
  BY DEF AccountsInit, LiveLinks, AtLink, NoCall
<1>4. LinksFew
  BY <1>3, FS_EmptySet, FewCalls DEF LinksFew, LinksBounded, AtLink
<1> QED BY <1>1, <1>2, <1>4 DEF AccountsStrong

\* Whatever requests overlap, expire or die: old sessions are explained, a link works
\* once, a locked account has a way back and links stay few
\* (auth.service.ts:217-257, organization.service.ts:412-417).
THEOREM AccountsKeepTogether == AccountsSpec => []AccountInv
<1>1. AccountsStrong /\ AccountsNext => AccountsStrong'
  BY AccountTypesStep, OldStep, UsedOnceStep, WayBackStep, LinksFewStep DEF AccountsStrong
<1>2. AccountsStrong /\ UNCHANGED accountVars => AccountsStrong'
  BY DEF AccountsStrong, accountVars, AccountTypes, OldSessionsExplained, Alive, UsedOnce,
     LockedHasWayBack, LiveLinks, LinksFew, LinksBounded
<1>3. AccountsStrong => AccountInv
  BY DEF AccountsStrong, AccountInv, LinksFew, UsedOnce, LinkSetsPasswordOnce
<1> QED BY <1>1, <1>2, <1>3, AccountsInitStrong, PTL DEF AccountsSpec

-----------------------------------------------------------------------------
(* Organizations *)

OrgRow == [state : {"absent", "live", "deleted"}, slug : Slugs \cup {"none"},
           plan : Plans, eventLimit : Nat \cup {NoLimit}, storageLimit : Nat \cup {NoLimit}]
LimitPatch == Nat \cup {NoLimit, Keep}

\* What a request waits with, by operation.
ReqRow ==
    [op : {"create"}, org : Orgs, slug : Slugs, user : Users]
      \cup [op : {"own"}, org : Orgs, user : Users]
      \cup [op : {"update", "event"}, org : Orgs, slug : Slugs]
      \cup [op : {"plan"}, org : Orgs, plan : Plans, given : Plans \cup {"keep"},
            events : LimitPatch, storage : LimitPatch]
      \cup [op : {"remove", "sweep"}, org : Orgs]
      \cup [op : {"add"}, org : Orgs, user : Users, role : Roles]
      \cup [op : {"role", "drop"}, org : Orgs, user : Users, role : Roles \cup {"none"},
            seen : SUBSET Users]
      \cup [op : {"erase"}, org : Orgs, event : Events]

TenancyTypes ==
    /\ org \in [Orgs -> OrgRow]
    /\ role \in [Orgs -> [Users -> Roles \cup {"none"}]]
    /\ event \in [Events -> [org : Orgs, slug : Slugs] \cup {NoEvent}]
    /\ swept \subseteq Orgs /\ cut \subseteq Orgs
    /\ peak \in [Orgs -> Nat]
    /\ req \in [Requests -> ReqRow \cup {Idle}]

Pending(r) == req[r] \in ReqRow

\* An organization that is not there yet has nothing and is nobody's business but its
\* creator's.
AbsentIsNew ==
    /\ \A o \in Orgs : org[o].state = "absent" =>
         /\ peak[o] = 0
         /\ \A u \in Users : role[o][u] = "none"
         /\ \A e \in Events : event[e].org # o
    /\ \A r \in Requests : Pending(r) =>
         /\ (req[r].op = "create") <=> (org[req[r].org].state = "absent")
         /\ req[r].op = "create" =>
              \A q \in Requests : Pending(q) /\ req[q].org = req[r].org => q = r

\* The limit a live organization is judged by is one it has had.
PeakCovers == \A o \in Orgs : Live(o) => limitsFor(org[o]) <= peak[o]

\* A change of the roster was judged by the roster it saw.
RosterJudged ==
    \A r \in Requests : Pending(r) /\ req[r].op \in {"role", "drop"} =>
        req[r].role = "owner" \/ req[r].seen # {req[r].user}

TenancyStrong ==
    /\ TenancyTypes /\ AbsentIsNew /\ PeakCovers /\ RosterJudged
    /\ OverridesNeedEnterprise /\ EventsBounded /\ DeletedIsSwept

\* A free slot is no request.
LEMMA IdleRow == Idle \notin ReqRow /\ Idle.op = "idle"
BY DEF Idle, ReqRow

\* A request begins: it reads, and writes nothing but what it will wait with.
Begins(r, record) ==
    /\ req[r] = Idle /\ req' = [req EXCEPT ![r] = record]
    /\ UNCHANGED <<org, role, event, swept, peak, cut, workload>>
    /\ record \in ReqRow
    /\ (record.op = "create") <=> (org[record.org].state = "absent")
    /\ record.op = "create" => \A q \in Requests : Pending(q) => req[q].org # record.org
    /\ record.op = "event" => assertEventAvailable(record.org)
    /\ record.op \in {"role", "drop"} => record.role = "owner" \/ record.seen # {record.user}
    /\ record.op # "sweep"

Started(r, o) ==
    \/ \E s \in Slugs :
        \/ \E u \in Users : create(r, o, s, u)
        \/ update(r, o, s)
        \/ createEvent(r, o, s)
    \/ \E p \in Plans \cup {"keep"}, events \in Limits \cup {NoLimit, Keep},
          storage \in {0, NoLimit, Keep} : updatePlan(r, o, p, events, storage)
    \/ remove(r, o)
    \/ \E u \in Users :
        \/ \E newRole \in Roles : addMember(r, o, u, newRole) \/ updateMember(r, o, u, newRole)
        \/ removeMember(r, o, u)

\* Every request on an organization begins so (organization.service.ts).
LEMMA StartBegins ==
    ASSUME TenancyTypes, AbsentIsNew, NEW r \in Requests, NEW o \in Orgs, Started(r, o)
    PROVE  \E record : Begins(r, record)
<1> USE DEF TenancyTypes, Live, Start
<1>0. \A q \in Requests : Pending(q) => req[q] # Idle
  BY IdleRow DEF Pending
<1>1. ASSUME NEW s \in Slugs, NEW u \in Users, create(r, o, s, u)
      PROVE  \E record : Begins(r, record)
  <2> DEFINE rec == [op |-> "create", org |-> o, slug |-> s, user |-> u]
  <2>1. rec \in ReqRow
    BY DEF ReqRow
  <2>2. Begins(r, rec)
    BY <1>0, <1>1, <2>1 DEF create, Begins
  <2> QED BY <2>2
<1>2. ASSUME NEW s \in Slugs, update(r, o, s)
      PROVE  \E record : Begins(r, record)
  <2> DEFINE rec == [op |-> "update", org |-> o, slug |-> s]
  <2>1. rec \in ReqRow
    BY DEF ReqRow
  <2>2. Begins(r, rec)
    BY <1>2, <2>1 DEF update, Begins
  <2> QED BY <2>2
<1>3. ASSUME NEW s \in Slugs, createEvent(r, o, s)
      PROVE  \E record : Begins(r, record)
  <2> DEFINE rec == [op |-> "event", org |-> o, slug |-> s]
  <2>1. rec \in ReqRow
    BY DEF ReqRow
  <2>2. Begins(r, rec)
    BY <1>3, <2>1 DEF createEvent, Begins, assertEventAvailable
  <2> QED BY <2>2
<1>4. ASSUME NEW p \in Plans \cup {"keep"}, NEW events \in Limits \cup {NoLimit, Keep},
             NEW storage \in {0, NoLimit, Keep}, updatePlan(r, o, p, events, storage)
      PROVE  \E record : Begins(r, record)
  <2> DEFINE plan == IF p = "keep" THEN org[o].plan ELSE p
             rec == [op |-> "plan", org |-> o, plan |-> plan, given |-> p,
                     events |-> events, storage |-> storage]
  <2>0. plan \in Plans /\ events \in LimitPatch /\ storage \in LimitPatch
    BY TenancyConstants DEF OrgRow, LimitPatch
  <2>1. rec \in ReqRow
    BY <2>0 DEF ReqRow
  <2>2. Live(o) /\ Start(r, rec) /\ UNCHANGED <<org, role, event, swept, peak, cut, workload>>
    BY <1>4 DEF updatePlan
  <2> HIDE DEF plan
  <2>3. Begins(r, rec)
    BY <2>1, <2>2 DEF Begins
  <2> QED BY <2>3
<1>5. ASSUME remove(r, o)
      PROVE  \E record : Begins(r, record)
  <2> DEFINE rec == [op |-> "remove", org |-> o]
  <2>1. rec \in ReqRow
    BY DEF ReqRow
  <2>2. Begins(r, rec)
    BY <1>5, <2>1 DEF remove, Begins
  <2> QED BY <2>2
<1>6. ASSUME NEW u \in Users, NEW newRole \in Roles, addMember(r, o, u, newRole)
      PROVE  \E record : Begins(r, record)
  <2> DEFINE rec == [op |-> "add", org |-> o, user |-> u, role |-> newRole]
  <2>1. rec \in ReqRow
    BY DEF ReqRow
  <2>2. Begins(r, rec)
    BY <1>6, <2>1 DEF addMember, Begins
  <2> QED BY <2>2
<1>7. ASSUME NEW u \in Users, NEW newRole \in Roles \cup {"none"}, NEW op \in {"role", "drop"},
             role[o][u] # "none", ensureNotLastOwner(o, u, newRole),
             Start(r, [op |-> op, org |-> o, user |-> u, role |-> newRole, seen |-> Owners(o)]),
             UNCHANGED <<org, role, event, swept, peak, cut, workload>>
      PROVE  \E record : Begins(r, record)
  <2> DEFINE rec == [op |-> op, org |-> o, user |-> u, role |-> newRole, seen |-> Owners(o)]
  <2>1. rec \in ReqRow
    BY DEF ReqRow, Owners
  <2>2. org[o].state # "absent"
    BY <1>7 DEF AbsentIsNew
  <2>3. Begins(r, rec)
    BY <1>7, <2>1, <2>2 DEF Begins, ensureNotLastOwner
  <2> QED BY <2>3
<1>8. ASSUME NEW u \in Users, NEW newRole \in Roles, updateMember(r, o, u, newRole)
      PROVE  \E record : Begins(r, record)
  BY <1>7, <1>8 DEF updateMember
<1>9. ASSUME NEW u \in Users, removeMember(r, o, u)
      PROVE  \E record : Begins(r, record)
  BY <1>7, <1>9 DEF removeMember
<1> QED BY <1>1, <1>2, <1>3, <1>4, <1>5, <1>6, <1>8, <1>9 DEF Started

\* So does the removal of an event.
LEMMA EraseBegins ==
    ASSUME TenancyTypes, AbsentIsNew, NEW r \in Requests, NEW e \in Events, removeEvent(r, e)
    PROVE  \E record : Begins(r, record)
<1> DEFINE rec == [op |-> "erase", org |-> event[e].org, event |-> e]
<1>1. event[e].org \in Orgs
  BY DEF removeEvent, TenancyTypes
<1>2. rec \in ReqRow
  BY <1>1 DEF ReqRow
<1>3. org[event[e].org].state # "absent"
  BY <1>1 DEF AbsentIsNew
<1>4. Begins(r, rec)
  BY <1>2, <1>3 DEF Begins, removeEvent, Start
<1> QED BY <1>4

\* What a waiting request carries.
LEMMA ReqFields ==
    ASSUME NEW q \in ReqRow
    PROVE  /\ q.org \in Orgs
           /\ q.op \in {"create", "update", "event"} => q.slug \in Slugs
           /\ q.op \in {"create", "own", "add", "role", "drop"} => q.user \in Users
           /\ q.op \in {"add", "role", "drop"} => q.role \in Roles \cup {"none"}
           /\ q.op = "plan" => /\ q.plan \in Plans
                               /\ q.events \in LimitPatch /\ q.storage \in LimitPatch
           /\ q.op = "erase" => q.event \in Events
           /\ q.op \in Operations \cup {"own", "sweep"}
BY DEF ReqRow, Operations

\* A request that goes on or ends.
Steps(r) ==
    \/ createRow(r) \/ createOwner(r) \/ updateRow(r) \/ updatePlanRow(r)
    \/ softDelete(r) \/ removePrefix(r) \/ writeMember(r) \/ hardDelete(r) \/ Fail(r)
    \/ \E e \in Events : createEventRow(r, e)

\* Only a request in progress makes a step.
LEMMA StepsArePending ==
    ASSUME TenancyTypes, NEW r \in Requests, Steps(r)
    PROVE  Pending(r) /\ req[r].org \in Orgs
<1>1. req[r] \in ReqRow \cup {Idle} /\ (req[r].op # "idle" \/ req[r] # Idle)
  BY DEF TenancyTypes, Steps, createRow, createOwner, updateRow, updatePlanRow, softDelete,
     removePrefix, writeMember, hardDelete, Fail, createEventRow
<1> QED BY <1>1, IdleRow, ReqFields DEF Pending

\* Only its own slot, and that becomes free but after the two first writes of a
\* creation and of a removal.
LEMMA SlotStep ==
    ASSUME TenancyTypes, NEW r \in Requests, Steps(r)
    PROVE  /\ \A q \in Requests \ {r} : req'[q] = req[q]
           /\ \/ req'[r] = Idle
              \/ /\ req[r].op = "create"
                 /\ req'[r] = [op |-> "own", org |-> req[r].org, user |-> req[r].user]
              \/ req[r].op = "remove" /\ req'[r] = [op |-> "sweep", org |-> req[r].org]
           /\ req' \in [Requests -> ReqRow \cup {Idle}]
<1>a. req \in [Requests -> ReqRow \cup {Idle}] /\ req[r] \in ReqRow
  BY StepsArePending DEF TenancyTypes, Pending
<1>1. CASE createRow(r)
  <2>1. [op |-> "own", org |-> req[r].org, user |-> req[r].user] \in ReqRow
    BY <1>a, <1>1, ReqFields DEF createRow, ReqRow
  <2> QED BY <1>a, <1>1, <2>1 DEF createRow
<1>2. CASE softDelete(r)
  <2>1. req[r] \in [op : {"remove", "sweep"}, org : Orgs] /\ req[r].op = "remove"
    BY <1>a, <1>2 DEF softDelete, ReqRow
  <2>2. [req[r] EXCEPT !.op = "sweep"] = [op |-> "sweep", org |-> req[r].org]
    BY <2>1
  <2>3. [op |-> "sweep", org |-> req[r].org] \in ReqRow
    BY <2>1 DEF ReqRow
  <2>4. req' = [req EXCEPT ![r] = [op |-> "sweep", org |-> req[r].org]]
    BY <1>a, <1>2, <2>2 DEF softDelete
  <2> QED BY <1>a, <2>1, <2>3, <2>4
<1>3. CASE ~createRow(r) /\ ~softDelete(r)
  <2>1. Finish(r)
    BY <1>3 DEF Steps, createOwner, updateRow, updatePlanRow, removePrefix, writeMember, hardDelete,
       Fail, createEventRow
  <2> QED BY <1>a, <2>1 DEF Finish
<1> QED BY <1>1, <1>2, <1>3

\* The limits of a plan that does not take custom ones are cleared.
LEMMA PatchRows ==
    ASSUME NEW row \in OrgRow, NEW p \in Plans, NEW v \in LimitPatch, NEW s \in LimitPatch
    PROVE  /\ planPatch(row, p, v, s) \in OrgRow
           /\ planPatch(row, p, v, s).plan = p
           /\ planPatch(row, p, v, s).state = row.state
           /\ p # "enterprise" => /\ planPatch(row, p, v, s).eventLimit = NoLimit
                                  /\ planPatch(row, p, v, s).storageLimit = NoLimit
<1>1. CASE p = "enterprise"
  <2> DEFINE e == IF v = Keep THEN row.eventLimit ELSE v
             k == IF s = Keep THEN row.storageLimit ELSE s
  <2>1. e \in Nat \cup {NoLimit} /\ k \in Nat \cup {NoLimit}
    BY DEF OrgRow, LimitPatch, NoLimit, Keep
  <2>2. planPatch(row, p, v, s) = [row EXCEPT !.plan = p, !.eventLimit = e, !.storageLimit = k]
    BY <1>1 DEF planPatch, OrgRow
  <2> HIDE DEF e, k
  <2> QED BY <1>1, <2>1, <2>2 DEF OrgRow
<1>2. CASE p # "enterprise"
  BY <1>2 DEF planPatch, OrgRow
<1> QED BY <1>1, <1>2

\* A plan, or limits of its own, give an organization a number of events.
LEMMA LimitIsNat ==
    ASSUME NEW row \in OrgRow
    PROVE  limitsFor(row) \in Nat
BY TenancyConstants DEF limitsFor, OrgRow, NoLimit

\* The larger of two numbers.
LEMMA MaxOfTwo ==
    ASSUME NEW a \in Nat, NEW b \in Nat
    PROVE  Max({a, b}) \in Nat /\ Max({a, b}) >= a /\ Max({a, b}) >= b
<1>1. \E x \in {a, b} : \A y \in {a, b} : x >= y
  OBVIOUS
<1>2. Max({a, b}) \in {a, b} /\ \A y \in {a, b} : Max({a, b}) >= y
  BY <1>1 DEF Max
<1> QED BY <1>2

\* The row updatePlan writes, and the highest limit it makes.
LEMMA PlanStep ==
    ASSUME TenancyTypes, NEW r \in Requests, updatePlanRow(r)
    PROVE  \E row \in OrgRow, n \in Nat :
             /\ org' = [org EXCEPT ![req[r].org] = row]
             /\ peak' = [peak EXCEPT ![req[r].org] = n]
             /\ n >= peak[req[r].org] /\ n >= limitsFor(row)
             /\ row.state = org[req[r].org].state
             /\ row.plan # "enterprise" => row.eventLimit = NoLimit /\ row.storageLimit = NoLimit
<1> DEFINE o == req[r].org
           row == planPatch(org[o], req[r].plan, req[r].events, req[r].storage)
           n == Max({peak[o], limitsFor(row)})
<1>a. /\ req[r] \in ReqRow /\ o \in Orgs /\ req[r].op = "plan"
      /\ org \in [Orgs -> OrgRow] /\ peak \in [Orgs -> Nat]
  BY StepsArePending DEF TenancyTypes, Pending, Steps, updatePlanRow
<1>1. /\ row \in OrgRow /\ row.plan = req[r].plan /\ row.state = org[o].state
      /\ req[r].plan # "enterprise" => row.eventLimit = NoLimit /\ row.storageLimit = NoLimit
  BY <1>a, ReqFields, PatchRows
<1>2. org' = [org EXCEPT ![o] = row]
  BY DEF updatePlanRow
<1>3. peak' = [peak EXCEPT ![o] = Max({peak[o], limitsFor(org'[o])})]
  BY DEF updatePlanRow
<1>4. org'[o] = row
  BY <1>a, <1>2
<1>5. n \in Nat /\ n >= peak[o] /\ n >= limitsFor(row)
  BY <1>a, <1>1, LimitIsNat, MaxOfTwo
<1> QED BY <1>1, <1>2, <1>3, <1>4, <1>5

\* What each step writes besides its slot, with its type.
Rewrites(o, row) == org' = [org EXCEPT ![o] = row] /\ row \in OrgRow

\* These are all the writes there are.
LEMMA StepWrites ==
    ASSUME TenancyTypes, AbsentIsNew, NEW r \in Requests, Steps(r)
    PROVE  LET o == req[r].org
           IN \/ /\ createRow(r) /\ org[o].state = "absent"
                 /\ \E s \in Slugs : Rewrites(o, [Absent EXCEPT !.state = "live", !.slug = s])
                 /\ peak' = [peak EXCEPT ![o] = PLAN_LIMITS["starter"]]
                 /\ UNCHANGED <<role, event, swept, cut>>
              \/ /\ updateRow(r) /\ org[o].state # "absent"
                 /\ \E s \in Slugs : Rewrites(o, [org[o] EXCEPT !.slug = s])
                 /\ UNCHANGED <<peak, role, event, swept, cut>>
              \/ /\ updatePlanRow(r) /\ org[o].state # "absent"
                 /\ \E row \in OrgRow, n \in Nat :
                      /\ Rewrites(o, row) /\ peak' = [peak EXCEPT ![o] = n]
                      /\ n >= peak[o] /\ n >= limitsFor(row) /\ row.state = org[o].state
                      /\ row.plan # "enterprise" => row.eventLimit = NoLimit /\ row.storageLimit = NoLimit
                 /\ UNCHANGED <<role, event, swept, cut>>
              \/ /\ softDelete(r) /\ org[o].state # "absent"
                 /\ Rewrites(o, [org[o] EXCEPT !.state = "deleted"])
                 /\ UNCHANGED <<peak, role, event, swept, cut>>
              \/ /\ createOwner(r) \/ writeMember(r)
                 /\ org[o].state # "absent"
                 /\ \E u \in Users, x \in Roles \cup {"none"} : role' = [role EXCEPT ![o][u] = x]
                 /\ UNCHANGED <<org, peak, event, swept, cut>>
              \/ /\ hardDelete(r)
                 /\ \E e \in Events : event' = [event EXCEPT ![e] = NoEvent]
                 /\ UNCHANGED <<org, peak, role, swept, cut>>
              \/ /\ req[r].op = "event" /\ org[o].state # "absent"
                 /\ \E e \in Events, s \in Slugs :
                      event[e] = NoEvent /\ event' = [event EXCEPT ![e] = [org |-> o, slug |-> s]]
                 /\ req'[r] = Idle
                 /\ UNCHANGED <<org, peak, role, swept, cut>>
              \/ /\ removePrefix(r) \/ Fail(r)
                 /\ swept' \subseteq Orgs /\ cut' \subseteq Orgs
                 /\ swept \subseteq swept' /\ cut \subseteq cut'
                 /\ req[r].op = "sweep" => o \in swept' \cup cut'
                 /\ UNCHANGED <<org, peak, role, event>>
<1> DEFINE o == req[r].org
<1>a. /\ Pending(r) /\ req[r] \in ReqRow /\ o \in Orgs /\ org[o] \in OrgRow
      /\ (req[r].op = "create") <=> (org[o].state = "absent")
      /\ swept \subseteq Orgs /\ cut \subseteq Orgs
  BY StepsArePending DEF TenancyTypes, Pending, AbsentIsNew
<1>1. CASE createRow(r)
  <2>1. req[r].op = "create" /\ req[r].slug \in Slugs
    BY <1>a, <1>1, ReqFields DEF createRow
  <2>2. [Absent EXCEPT !.state = "live", !.slug = req[r].slug] \in OrgRow
    BY <2>1, TenancyConstants DEF Absent, OrgRow, NoLimit
  <2> QED BY <1>a, <1>1, <2>1, <2>2 DEF createRow, Rewrites
<1>2. CASE updateRow(r)
  <2>1. req[r].op = "update" /\ req[r].slug \in Slugs
    BY <1>a, <1>2, ReqFields DEF updateRow
  <2>2. [org[o] EXCEPT !.slug = req[r].slug] \in OrgRow
    BY <1>a, <2>1 DEF OrgRow
  <2>3. org' = [org EXCEPT ![o] = [org[o] EXCEPT !.slug = req[r].slug]]
    BY <1>a, <1>2 DEF updateRow
  <2> QED BY <1>a, <1>2, <2>1, <2>2, <2>3 DEF updateRow, Rewrites
<1>3. CASE updatePlanRow(r)
  <2>1. req[r].op = "plan" /\ UNCHANGED <<role, event, swept, cut>>
    BY <1>3 DEF updatePlanRow
  <2> QED BY <1>a, <1>3, <2>1, PlanStep DEF Rewrites
<1>4. CASE softDelete(r)
  <2>1. [org[o] EXCEPT !.state = "deleted"] \in OrgRow
    BY <1>a DEF OrgRow
  <2>2. org' = [org EXCEPT ![o] = [org[o] EXCEPT !.state = "deleted"]]
    BY <1>a, <1>4 DEF softDelete
  <2> QED BY <1>a, <1>4, <2>1, <2>2 DEF softDelete, Rewrites
<1>5. CASE createOwner(r)
  <2>1. req[r].op = "own" /\ req[r].user \in Users /\ "owner" \in Roles
    BY <1>a, <1>5, ReqFields DEF createOwner, Roles
  <2> QED BY <1>a, <1>5, <2>1 DEF createOwner
<1>6. CASE writeMember(r)
  <2>1. req[r].op # "create" /\ req[r].user \in Users /\ req[r].role \in Roles \cup {"none"}
    BY <1>a, <1>6, ReqFields DEF writeMember
  <2> QED BY <1>a, <1>6, <2>1 DEF writeMember
<1>7. CASE hardDelete(r)
  <2>1. req[r].event \in Events
    BY <1>a, <1>7, ReqFields DEF hardDelete
  <2> QED BY <1>7, <2>1 DEF hardDelete
<1>8. ASSUME NEW e \in Events, createEventRow(r, e)
      PROVE  /\ req[r].op = "event" /\ org[o].state # "absent"
             /\ event[e] = NoEvent
             /\ \E s \in Slugs : event' = [event EXCEPT ![e] = [org |-> o, slug |-> s]]
             /\ req'[r] = Idle
             /\ UNCHANGED <<org, peak, role, swept, cut>>
  <2>1. req[r].op = "event" /\ req[r].slug \in Slugs
    BY <1>a, <1>8, ReqFields DEF createEventRow
  <2> QED BY <1>a, <1>8, <2>1 DEF createEventRow, Finish, TenancyTypes
<1>9. CASE removePrefix(r) \/ Fail(r)
  BY <1>a, <1>9 DEF removePrefix, Fail
<1> QED BY <1>1, <1>2, <1>3, <1>4, <1>5, <1>6, <1>7, <1>8, <1>9 DEF Steps

\* Rows, roles, events and requests keep their types.
LEMMA TenancyTypesStep ==
    ASSUME TenancyTypes, AbsentIsNew, NEW r \in Requests, Steps(r)
    PROVE  TenancyTypes'
<1> DEFINE o == req[r].org
<1>1. req' \in [Requests -> ReqRow \cup {Idle}] /\ o \in Orgs
  BY SlotStep, StepsArePending
<1>2. PLAN_LIMITS["starter"] \in Nat
  BY TenancyConstants
<1> USE DEF TenancyTypes, Rewrites
<1>3. CASE UNCHANGED <<role, event, swept, cut>> /\ \E row : Rewrites(o, row)
           /\ (peak' = peak \/ \E n \in Nat : peak' = [peak EXCEPT ![o] = n])
  BY <1>1, <1>3
<1>4. CASE UNCHANGED <<org, peak, event, swept, cut>>
           /\ \E u \in Users, x \in Roles \cup {"none"} : role' = [role EXCEPT ![o][u] = x]
  BY <1>1, <1>4
<1>5. CASE UNCHANGED <<org, peak, role, swept, cut>>
           /\ \E e \in Events, x \in [org : Orgs, slug : Slugs] \cup {NoEvent} :
                event' = [event EXCEPT ![e] = x]
  BY <1>1, <1>5
<1>6. CASE swept' \subseteq Orgs /\ cut' \subseteq Orgs /\ UNCHANGED <<org, peak, role, event>>
  BY <1>1, <1>6
<1>7. \A s \in Slugs : [org |-> o, slug |-> s] \in [org : Orgs, slug : Slugs]
  BY <1>1
<1> QED BY StepWrites, <1>2, <1>3, <1>4, <1>5, <1>6, <1>7

\* Nothing of an organization exists before its row.
LEMMA AbsentStep ==
    ASSUME TenancyTypes, AbsentIsNew, NEW r \in Requests, Steps(r)
    PROVE  AbsentIsNew'
<1> DEFINE o == req[r].org
<1>1. o \in Orgs /\ Pending(r) /\ Idle \notin ReqRow
  BY StepsArePending, IdleRow
<1>2. /\ \A q \in Requests \ {r} : req'[q] = req[q]
      /\ \/ req'[r] = Idle
         \/ /\ req[r].op = "create"
            /\ req'[r] = [op |-> "own", org |-> req[r].org, user |-> req[r].user]
         \/ req[r].op = "remove" /\ req'[r] = [op |-> "sweep", org |-> req[r].org]
  BY SlotStep
<1>3. \A q \in Requests : Pending(q)' =>
        Pending(q) /\ req'[q].org = req[q].org
        /\ (req'[q] = req[q] \/ (q = r /\ req'[r].op \in {"own", "sweep"}))
  BY <1>1, <1>2 DEF Pending
<1>4. CASE org[o].state = "absent"
  <2>1. req[r].op = "create" /\ \A q \in Requests : Pending(q) /\ req[q].org = o => q = r
    BY <1>1, <1>4 DEF AbsentIsNew
  <2>2. CASE createRow(r)
    <3>1. /\ \A x \in Orgs \ {o} : org'[x] = org[x] /\ peak'[x] = peak[x]
          /\ org'[o].state = "live" /\ UNCHANGED <<role, event>>
      <4>1. /\ org' = [org EXCEPT ![o] = [Absent EXCEPT !.state = "live", !.slug = req[r].slug]]
            /\ \A x \in Orgs \ {o} : peak'[x] = peak[x]
            /\ UNCHANGED <<role, event>>
        BY <2>2 DEF createRow, TenancyTypes
      <4>2. [Absent EXCEPT !.state = "live", !.slug = req[r].slug].state = "live"
        BY DEF Absent
      <4> QED BY <1>1, <4>1, <4>2 DEF TenancyTypes
    <3>2. req'[r].op = "own"
      BY <1>1, <2>2 DEF createRow, TenancyTypes
    <3>3. \A q \in Requests : Pending(q) => req[q].org \in Orgs
      BY ReqFields DEF Pending
    <3>4. \A x \in Orgs : org'[x].state = "absent" =>
         /\ peak'[x] = 0
         /\ \A u \in Users : role'[x][u] = "none"
         /\ \A e \in Events : event'[e].org # x
      BY <3>1 DEF AbsentIsNew
    <3>5. \A q \in Requests : Pending(q)' =>
         /\ (req'[q].op = "create") <=> (org'[req'[q].org].state = "absent")
         /\ req'[q].op = "create" =>
              \A p \in Requests : Pending(p)' /\ req'[p].org = req'[q].org => p = q
      <4>1. SUFFICES ASSUME NEW q \in Requests, Pending(q)'
                     PROVE  /\ (req'[q].op = "create") <=> (org'[req'[q].org].state = "absent")
                            /\ req'[q].op = "create" =>
                                 \A p \in Requests : Pending(p)' /\ req'[p].org = req'[q].org => p = q
        OBVIOUS
      <4>2. CASE q = r
        BY <1>3, <3>1, <3>2, <4>1, <4>2
      <4>3. CASE q # r
        <5>1. req'[q] = req[q] /\ Pending(q) /\ req[q].org \in Orgs \ {o}
          BY <1>3, <2>1, <3>3, <4>1, <4>3
        <5> QED BY <1>3, <3>1, <5>1 DEF AbsentIsNew
      <4> QED BY <4>2, <4>3
    <3> QED BY <3>4, <3>5 DEF AbsentIsNew
  <2>3. CASE ~createRow(r)
    <3>1. Fail(r)
      BY <1>1, <2>1, <2>3 DEF Steps, createOwner, updateRow, updatePlanRow, softDelete,
         removePrefix, writeMember, hardDelete, createEventRow
    <3>2. UNCHANGED <<org, role, event, peak>> /\ req'[r] = Idle
      BY <3>1 DEF Fail, Finish, TenancyTypes
    <3> QED BY <1>1, <1>2, <1>3, <3>2 DEF AbsentIsNew, Pending
  <2> QED BY <2>2, <2>3
<1>5. CASE org[o].state # "absent"
  <2>1. req[r].op # "create"
    BY <1>1, <1>5 DEF AbsentIsNew
  <2>2. /\ \A x \in Orgs : (org'[x].state = "absent") <=> (org[x].state = "absent")
        /\ \A x \in Orgs \ {o} : peak'[x] = peak[x] /\ role'[x] = role[x]
    BY <1>1, <1>5, StepWrites DEF TenancyTypes, Rewrites, OrgRow
  <2>3. \A e \in Events : event'[e].org \in {event[e].org, o, "none"}
    <3>1. \/ event' = event
          \/ \E e \in Events : event' = [event EXCEPT ![e] = NoEvent]
          \/ \E e \in Events, s \in Slugs : event' = [event EXCEPT ![e] = [org |-> o, slug |-> s]]
      BY StepWrites, Zenon
    <3> QED BY <3>1 DEF TenancyTypes, NoEvent
  <2>4. \A x \in Orgs : org'[x].state = "absent" =>
         /\ peak'[x] = 0
         /\ \A u \in Users : role'[x][u] = "none"
         /\ \A e \in Events : event'[e].org # x
    BY <1>5, <2>2, <2>3, TenancyConstants DEF AbsentIsNew
  <2>5. \A q \in Requests : Pending(q)' =>
         /\ (req'[q].op = "create") <=> (org'[req'[q].org].state = "absent")
         /\ req'[q].op = "create" =>
              \A p \in Requests : Pending(p)' /\ req'[p].org = req'[q].org => p = q
    <3>1. \A q \in Requests : Pending(q) => req[q].org \in Orgs
      BY ReqFields DEF Pending
    <3> QED BY <1>3, <1>5, <2>1, <2>2, <3>1 DEF AbsentIsNew
  <2> QED BY <2>4, <2>5 DEF AbsentIsNew
<1> QED BY <1>4, <1>5

\* No write lowers the highest limit, and the one that raises the limit raises it too.
LEMMA PeakStep ==
    ASSUME TenancyTypes, AbsentIsNew, PeakCovers, NEW r \in Requests, Steps(r)
    PROVE  PeakCovers' /\ \A x \in Orgs : peak'[x] >= peak[x] /\ peak'[x] \in Nat
<1> DEFINE o == req[r].org
<1>1. o \in Orgs
  BY StepsArePending
<1>2. PLAN_LIMITS["starter"] \in Nat
  BY TenancyConstants
<1>a. org \in [Orgs -> OrgRow] /\ peak \in [Orgs -> Nat]
  BY DEF TenancyTypes
<1>3. CASE /\ org[o].state = "absent"
           /\ \E s \in Slugs : Rewrites(o, [Absent EXCEPT !.state = "live", !.slug = s])
           /\ peak' = [peak EXCEPT ![o] = PLAN_LIMITS["starter"]]
  <2>1. PICK s \in Slugs : org' = [org EXCEPT ![o] = [Absent EXCEPT !.state = "live", !.slug = s]]
    BY <1>3 DEF Rewrites
  <2>2. limitsFor([Absent EXCEPT !.state = "live", !.slug = s]) = PLAN_LIMITS["starter"]
    BY DEF limitsFor, Absent, NoLimit
  <2>3. peak[o] = 0
    BY <1>1, <1>3 DEF AbsentIsNew
  <2>4. limitsFor(org'[o]) = PLAN_LIMITS["starter"] /\ \A x \in Orgs \ {o} : org'[x] = org[x]
    BY <1>1, <1>a, <2>1, <2>2
  <2>5. peak'[o] = PLAN_LIMITS["starter"] /\ \A x \in Orgs \ {o} : peak'[x] = peak[x]
    BY <1>1, <1>3, <1>a
  <2> QED BY <1>2, <1>a, <2>3, <2>4, <2>5 DEF PeakCovers, Live
<1>4. CASE peak' = peak /\ \E s \in Slugs : Rewrites(o, [org[o] EXCEPT !.slug = s])
  <2>1. PICK s \in Slugs : org' = [org EXCEPT ![o] = [org[o] EXCEPT !.slug = s]]
    BY <1>4 DEF Rewrites
  <2>2. \A x \in Orgs : /\ org'[x].state = org[x].state /\ org'[x].plan = org[x].plan
                        /\ org'[x].eventLimit = org[x].eventLimit
    BY <1>1, <1>a, <2>1 DEF OrgRow
  <2> QED BY <1>4, <1>a, <2>2 DEF PeakCovers, Live, limitsFor
<1>5. CASE \E row \in OrgRow, n \in Nat :
             /\ Rewrites(o, row) /\ peak' = [peak EXCEPT ![o] = n]
             /\ n >= peak[o] /\ n >= limitsFor(row)
  <2>1. PICK row \in OrgRow, n \in Nat :
             /\ org' = [org EXCEPT ![o] = row] /\ peak' = [peak EXCEPT ![o] = n]
             /\ n >= peak[o] /\ n >= limitsFor(row)
    BY <1>5 DEF Rewrites
  <2>2. org'[o] = row /\ peak'[o] = n
        /\ \A x \in Orgs \ {o} : org'[x] = org[x] /\ peak'[x] = peak[x]
    BY <1>1, <1>a, <2>1
  <2> QED BY <1>a, <2>1, <2>2 DEF PeakCovers, Live
<1>6. CASE peak' = peak /\ Rewrites(o, [org[o] EXCEPT !.state = "deleted"])
  <2>1. org'[o].state = "deleted" /\ \A x \in Orgs \ {o} : org'[x] = org[x]
    BY <1>1, <1>a, <1>6 DEF Rewrites, OrgRow
  <2> QED BY <1>6, <1>a, <2>1 DEF PeakCovers, Live
<1>7. CASE UNCHANGED <<org, peak>>
  BY <1>7, <1>a DEF PeakCovers, Live
<1> QED BY StepWrites, <1>3, <1>4, <1>5, <1>6, <1>7

\* A request judged by its roster keeps the judgement.
LEMMA RosterStep ==
    ASSUME TenancyTypes, RosterJudged, NEW r \in Requests, Steps(r)
    PROVE  RosterJudged'
<1>1. \A q \in Requests \ {r} : req'[q] = req[q]
  BY SlotStep
<1>2. req'[r] = Idle \/ req'[r].op \notin {"role", "drop"}
  <2>1. \/ req'[r] = Idle
        \/ req'[r] = [op |-> "own", org |-> req[r].org, user |-> req[r].user]
        \/ req'[r] = [op |-> "sweep", org |-> req[r].org]
    BY SlotStep
  <2> QED BY <2>1
<1> QED BY <1>1, <1>2, IdleRow DEF RosterJudged, Pending

\* Custom limits come and go with Enterprise.
LEMMA OverridesStep ==
    ASSUME TenancyTypes, AbsentIsNew, OverridesNeedEnterprise, NEW r \in Requests, Steps(r)
    PROVE  OverridesNeedEnterprise'
<1> DEFINE o == req[r].org
           Plain(row) == row.plan # "enterprise" => row.eventLimit = NoLimit /\ row.storageLimit = NoLimit
<1>a. o \in Orgs /\ org \in [Orgs -> OrgRow]
  BY StepsArePending DEF TenancyTypes
<1>b. \A x \in Orgs : Plain(org[x])
  BY DEF OverridesNeedEnterprise
<1>1. ASSUME NEW row, Rewrites(o, row), Plain(row)
      PROVE  OverridesNeedEnterprise'
  BY <1>a, <1>b, <1>1 DEF Rewrites, OverridesNeedEnterprise
<1>2. \A s \in Slugs : /\ Plain([Absent EXCEPT !.state = "live", !.slug = s])
                       /\ Plain([org[o] EXCEPT !.slug = s])
  BY <1>a, <1>b DEF Absent, OrgRow
<1>3. Plain([org[o] EXCEPT !.state = "deleted"])
  BY <1>a, <1>b DEF OrgRow
<1>4. CASE org' = org
  BY <1>b, <1>4 DEF OverridesNeedEnterprise
<1>5. CASE \E row : Rewrites(o, row) /\ Plain(row)
  BY <1>1, <1>5
<1> HIDE DEF Plain
<1>6. CASE updatePlanRow(r) /\ \E row \in OrgRow : Rewrites(o, row) /\ Plain(row)
  BY <1>5, <1>6
<1> QED BY StepWrites, <1>2, <1>3, <1>4, <1>5, <1>6 DEF Plain

\* A removed organization is swept, about to be, or its removal died.
LEMMA DeletedStep ==
    ASSUME TenancyTypes, AbsentIsNew, DeletedIsSwept, NEW r \in Requests, Steps(r)
    PROVE  DeletedIsSwept'
<1> DEFINE o == req[r].org
<1>a. /\ o \in Orgs /\ org \in [Orgs -> OrgRow] /\ req \in [Requests -> ReqRow \cup {Idle}]
      /\ \A q \in Requests \ {r} : req'[q] = req[q]
  BY StepsArePending, SlotStep DEF TenancyTypes
<1>1. CASE softDelete(r)
  <2>1. req'[r].op = "sweep" /\ req'[r].org = o
    BY <1>1, SlotStep, <1>a DEF softDelete, Idle, ReqRow
  <2>2. UNCHANGED <<swept, cut>> /\ (\A x \in Orgs \ {o} : org'[x] = org[x]) /\ req[r].op = "remove"
    BY <1>1, <1>a DEF softDelete
  <2> QED BY <1>a, <2>1, <2>2 DEF DeletedIsSwept
<1>2. CASE removePrefix(r) \/ Fail(r)
  <2>1. /\ org' = org /\ swept \subseteq swept' /\ cut \subseteq cut'
        /\ req[r].op = "sweep" => o \in swept' \cup cut'
    BY <1>2 DEF removePrefix, Fail
  <2> QED BY <1>a, <2>1 DEF DeletedIsSwept
<1>3. CASE ~softDelete(r) /\ ~removePrefix(r) /\ ~Fail(r)
  <2>1. req[r].op # "sweep" /\ UNCHANGED <<swept, cut>>
    BY <1>3 DEF Steps, createRow, createOwner, updateRow, updatePlanRow, writeMember, hardDelete,
       createEventRow
  <2>2. \A x \in Orgs : org'[x].state = "deleted" => org[x].state = "deleted"
    <3>1. CASE createRow(r)
      <4>1. org' = [org EXCEPT ![o] = [Absent EXCEPT !.state = "live", !.slug = req[r].slug]]
        BY <3>1 DEF createRow
      <4>2. [Absent EXCEPT !.state = "live", !.slug = req[r].slug].state = "live"
        BY DEF Absent
      <4> QED BY <1>a, <4>1, <4>2
    <3>2. CASE updateRow(r)
      BY <1>a, <3>2 DEF updateRow, OrgRow
    <3>3. CASE updatePlanRow(r)
      BY <1>a, <3>3, PlanStep
    <3>4. CASE createOwner(r) \/ writeMember(r) \/ hardDelete(r) \/ \E e \in Events : createEventRow(r, e)
      BY <3>4 DEF createOwner, writeMember, hardDelete, createEventRow
    <3> QED BY <1>3, <3>1, <3>2, <3>3, <3>4 DEF Steps
  <2> QED BY <1>a, <2>1, <2>2 DEF DeletedIsSwept
<1> QED BY <1>1, <1>2, <1>3

\* The events an organization holds, and those it is about to hold.
Held(x) == {e \in Events : event[e].org = x}
Admitted(x) == {r \in Requests : req[r].op = "event" /\ req[r].org = x}

\* Events held and requests past their check are finitely many.
LEMMA CountTypes ==
    \A x : /\ IsFiniteSet(Held(x)) /\ Cardinality(Held(x)) \in Nat
           /\ IsFiniteSet(Admitted(x)) /\ Cardinality(Admitted(x)) \in Nat
           /\ Cardinality(Admitted(x)) <= Cardinality(Requests)
           /\ Cardinality(Requests) \in Nat \ {0}
<1>1. IsFiniteSet(Events) /\ IsFiniteSet(Requests) /\ Requests # {}
  BY TenancyConstants
<1>2. SUFFICES ASSUME NEW x
               PROVE  /\ IsFiniteSet(Held(x)) /\ Cardinality(Held(x)) \in Nat
                      /\ IsFiniteSet(Admitted(x)) /\ Cardinality(Admitted(x)) \in Nat
                      /\ Cardinality(Admitted(x)) <= Cardinality(Requests)
                      /\ Cardinality(Requests) \in Nat \ {0}
  OBVIOUS
<1>3. Held(x) \subseteq Events /\ Admitted(x) \subseteq Requests
  BY DEF Held, Admitted
<1>4. IsFiniteSet(Held(x))
  BY <1>1, <1>3, FS_Subset
<1>5. IsFiniteSet(Admitted(x)) /\ Cardinality(Admitted(x)) <= Cardinality(Requests)
  BY <1>1, <1>3, FS_Subset
<1>6. Cardinality(Requests) # 0
  BY <1>1, FS_EmptySet
<1>7. Cardinality(Requests) \in Nat /\ Cardinality(Held(x)) \in Nat /\ Cardinality(Admitted(x)) \in Nat
  BY <1>1, <1>4, <1>5, FS_CardinalityType
<1> QED BY <1>4, <1>5, <1>6, <1>7

\* A part of a finite set counts no more.
LEMMA FewerCount ==
    ASSUME NEW S, NEW T, IsFiniteSet(S), T \subseteq S
    PROVE  Cardinality(T) \in Nat /\ Cardinality(S) \in Nat /\ Cardinality(T) <= Cardinality(S)
<1>1. IsFiniteSet(T) /\ Cardinality(T) <= Cardinality(S)
  BY FS_Subset
<1> QED BY <1>1, FS_CardinalityType

\* Fewer events, fewer admitted, no lower limit: the bound stays.
LEMMA BoundStays ==
    ASSUME TenancyTypes, EventsBounded, NEW x \in Orgs,
           Held(x)' \subseteq Held(x), Admitted(x)' \subseteq Admitted(x),
           peak'[x] \in Nat, peak'[x] >= peak[x]
    PROVE  Cardinality(Held(x)') + Cardinality(Admitted(x)') < peak'[x] + Cardinality(Requests)
<1>1. Cardinality(Held(x)) + Cardinality(Admitted(x)) < peak[x] + Cardinality(Requests)
  BY DEF EventsBounded, countForOrg, Held, Admitted
<1>2. /\ Cardinality(Held(x)') \in Nat /\ Cardinality(Held(x)) \in Nat
      /\ Cardinality(Held(x)') <= Cardinality(Held(x))
  BY CountTypes, FewerCount
<1>3. /\ Cardinality(Admitted(x)') \in Nat /\ Cardinality(Admitted(x)) \in Nat
      /\ Cardinality(Admitted(x)') <= Cardinality(Admitted(x))
  BY CountTypes, FewerCount
<1>4. Cardinality(Requests) \in Nat /\ peak[x] \in Nat
  BY CountTypes DEF TenancyTypes
<1> QED BY <1>1, <1>2, <1>3, <1>4

\* One less admitted makes room for one more held.
LEMMA OneMovesOver ==
    ASSUME NEW h \in Nat, NEW a \in Nat, NEW p \in Nat, NEW n \in Nat, h + a < p + n,
           NEW i \in Nat, NEW b \in Nat, NEW q \in Nat, i <= h + 1, b <= a - 1, q >= p
    PROVE  i + b < q + n
OBVIOUS

\* An event comes from one admitted request, which is then done; everything else only
\* takes events and requests away.
LEMMA EventsStep ==
    ASSUME TenancyTypes, AbsentIsNew, PeakCovers, EventsBounded, NEW r \in Requests, Steps(r)
    PROVE  EventsBounded'
<1> DEFINE o == req[r].org
<1>a. /\ o \in Orgs /\ event \in [Events -> [org : Orgs, slug : Slugs] \cup {NoEvent}]
      /\ \A q \in Requests \ {r} : req'[q] = req[q]
  BY StepsArePending, SlotStep DEF TenancyTypes
<1>b. \A x \in Orgs : peak'[x] >= peak[x] /\ peak'[x] \in Nat
  BY PeakStep
<1>c. req'[r].op # "event"
  <2>1. \/ req'[r] = Idle
        \/ req'[r] = [op |-> "own", org |-> req[r].org, user |-> req[r].user]
        \/ req'[r] = [op |-> "sweep", org |-> req[r].org]
    BY SlotStep
  <2> QED BY <2>1 DEF Idle
<1>d. \A x : Admitted(x)' \subseteq Admitted(x) \ {r}
  BY <1>a, <1>c DEF Admitted
<1>e. "none" \notin Orgs
  BY TenancyConstants
<1>0. SUFFICES ASSUME NEW x \in Orgs
               PROVE  Cardinality(Held(x)') + Cardinality(Admitted(x)') < peak'[x] + Cardinality(Requests)
  BY DEF EventsBounded, countForOrg, Held, Admitted
<1>1. CASE Held(x)' \subseteq Held(x)
  BY <1>1, <1>b, <1>d, BoundStays
<1>2. ASSUME NEW e \in Events, NEW s \in Slugs, req[r].op = "event",
             event[e] = NoEvent, event' = [event EXCEPT ![e] = [org |-> o, slug |-> s]]
      PROVE  Cardinality(Held(x)') + Cardinality(Admitted(x)') < peak'[x] + Cardinality(Requests)
  <2>1. CASE x # o
    <3>1. Held(x)' \subseteq Held(x)
      BY <1>a, <1>2, <2>1 DEF Held
    <3> QED BY <1>1, <3>1
  <2>2. CASE x = o
    <3>1. Held(x)' \subseteq Held(x) \cup {e}
      BY <1>a, <1>2 DEF Held
    <3>2. r \in Admitted(x)
      BY <1>2, <2>2 DEF Admitted
    <3>3. Cardinality(Held(x) \cup {e}) \in {Cardinality(Held(x)), Cardinality(Held(x)) + 1}
          /\ IsFiniteSet(Held(x) \cup {e})
      <4>1. CASE e \in Held(x)
        <5>1. Held(x) \cup {e} = Held(x)
          BY <4>1
        <5> QED BY <5>1, CountTypes
      <4>2. CASE e \notin Held(x)
        <5>1. IsFiniteSet(Held(x))
          BY CountTypes
        <5>2. Cardinality(Held(x) \cup {e}) = Cardinality(Held(x)) + 1
              /\ IsFiniteSet(Held(x) \cup {e})
          BY <4>2, <5>1, FS_AddElement, Zenon
        <5> QED BY <5>2
      <4> QED BY <4>1, <4>2
    <3>4. /\ Cardinality(Admitted(x) \ {r}) = Cardinality(Admitted(x)) - 1
          /\ IsFiniteSet(Admitted(x) \ {r})
      <4>1. IsFiniteSet(Admitted(x))
        BY CountTypes
      <4> QED BY <3>2, <4>1, FS_RemoveElement, Zenon
    <3>5. /\ Cardinality(Held(x)') <= Cardinality(Held(x) \cup {e})
          /\ Cardinality(Held(x)') \in Nat
      BY <3>1, <3>3, FewerCount
    <3>6. /\ Cardinality(Admitted(x)') <= Cardinality(Admitted(x) \ {r})
          /\ Cardinality(Admitted(x)') \in Nat
      BY <1>d, <3>4, FewerCount
    <3>7. Cardinality(Held(x)) + Cardinality(Admitted(x)) < peak[x] + Cardinality(Requests)
      BY DEF EventsBounded, countForOrg, Held, Admitted
    <3>8. /\ Cardinality(Requests) \in Nat /\ peak[x] \in Nat
          /\ Cardinality(Held(x)) \in Nat /\ Cardinality(Admitted(x)) \in Nat
      BY CountTypes DEF TenancyTypes
    <3>9. Cardinality(Held(x)') <= Cardinality(Held(x)) + 1
      BY <3>3, <3>5, <3>8
    <3>10. Cardinality(Admitted(x)') <= Cardinality(Admitted(x)) - 1
      BY <3>4, <3>6
    <3>11. peak'[x] >= peak[x] /\ peak'[x] \in Nat
      BY <1>b
    <3> HIDE DEF Held, Admitted
    <3> QED BY <3>5, <3>6, <3>7, <3>8, <3>9, <3>10, <3>11, OneMovesOver
  <2> QED BY <2>1, <2>2
<1>3. CASE \E e \in Events : event' = [event EXCEPT ![e] = NoEvent]
  <2>1. Held(x)' \subseteq Held(x)
    BY <1>a, <1>e, <1>3 DEF Held, NoEvent
  <2> QED BY <1>1, <2>1
<1>4. CASE event' = event
  <2>1. Held(x)' \subseteq Held(x)
    BY <1>4 DEF Held
  <2> QED BY <1>1, <2>1
<1> QED BY StepWrites, <1>2, <1>3, <1>4, Zenon

\* What a request reads when it begins is all the invariant asks of it.
LEMMA BeginsStep ==
    ASSUME TenancyStrong, NEW r \in Requests, NEW record, Begins(r, record)
    PROVE  TenancyStrong'
<1> USE DEF TenancyStrong
<1>a. /\ req[r] = Idle /\ record \in ReqRow /\ ~ Pending(r)
      /\ req'[r] = record /\ \A q \in Requests \ {r} : req'[q] = req[q]
      /\ req' \in [Requests -> ReqRow \cup {Idle}] /\ Pending(r)'
      /\ UNCHANGED <<org, role, event, swept, peak, cut>>
  BY IdleRow DEF Begins, TenancyTypes, Pending
<1>b. record.org \in Orgs
  BY <1>a, ReqFields
<1>1. TenancyTypes'
  BY <1>a DEF TenancyTypes
<1>2. AbsentIsNew'
  <2>1. \A q \in Requests \ {r} : Pending(q)' <=> Pending(q)
    BY <1>a DEF Pending
  <2>2. /\ (record.op = "create") <=> (org[record.org].state = "absent")
        /\ record.op = "create" => \A q \in Requests : Pending(q) => req[q].org # record.org
    BY DEF Begins
  <2>3. ASSUME NEW q \in Requests, Pending(q)'
        PROVE  /\ (req'[q].op = "create") <=> (org'[req'[q].org].state = "absent")
               /\ req'[q].op = "create" =>
                    \A p \in Requests : Pending(p)' /\ req'[p].org = req'[q].org => p = q
    <3>1. CASE q = r
      BY <1>a, <2>1, <2>2, <3>1
    <3>2. CASE q # r
      <4>1. /\ Pending(q) /\ req'[q] = req[q]
            /\ (req[q].op = "create") <=> (org[req[q].org].state = "absent")
            /\ req[q].op = "create" =>
                 \A p \in Requests : Pending(p) /\ req[p].org = req[q].org => p = q
        BY <1>a, <2>1, <2>3, <3>2 DEF AbsentIsNew
      <4> QED BY <1>a, <2>1, <2>2, <4>1
    <3> QED BY <3>1, <3>2
  <2> QED BY <1>a, <2>3 DEF AbsentIsNew
<1>3. PeakCovers'
  BY <1>a DEF PeakCovers, Live
<1>4. RosterJudged'
  BY <1>a DEF RosterJudged, Pending, Begins
<1>5. OverridesNeedEnterprise'
  BY <1>a DEF OverridesNeedEnterprise
<1>6. EventsBounded'
  <2>0. \A x : Held(x)' = Held(x)
    BY <1>a DEF Held
  <2>1. SUFFICES ASSUME NEW x \in Orgs
                 PROVE  Cardinality(Held(x)') + Cardinality(Admitted(x)') < peak'[x] + Cardinality(Requests)
    BY DEF EventsBounded, countForOrg, Held, Admitted
  <2>2. CASE record.op = "event" /\ record.org = x
    <3>1. countForOrg(x) < limitsFor(org[x]) /\ Live(x)
      BY <2>2 DEF Begins, assertEventAvailable
    <3>2. limitsFor(org[x]) <= peak[x] /\ limitsFor(org[x]) \in Nat /\ peak[x] \in Nat
      BY <3>1, LimitIsNat DEF PeakCovers, TenancyTypes
    <3>3. countForOrg(x) = Cardinality(Held(x))
      BY DEF countForOrg, Held
    <3>4. Admitted(x)' \subseteq Requests /\ IsFiniteSet(Requests)
      BY TenancyConstants DEF Admitted
    <3>5. /\ Cardinality(Admitted(x)') <= Cardinality(Requests)
          /\ Cardinality(Admitted(x)') \in Nat /\ Cardinality(Requests) \in Nat
      BY <3>4, FewerCount
    <3>6. Cardinality(Held(x)) \in Nat /\ Cardinality(Held(x)') = Cardinality(Held(x)) /\ peak'[x] = peak[x]
      BY <1>a, <2>0, CountTypes
    <3> HIDE DEF Held, Admitted
    <3> QED BY <3>1, <3>2, <3>3, <3>5, <3>6
  <2>3. CASE ~(record.op = "event" /\ record.org = x)
    <3>1. Admitted(x)' \subseteq Admitted(x)
      BY <1>a, <2>3 DEF Admitted
    <3>2. peak'[x] \in Nat /\ peak'[x] >= peak[x]
      BY <1>a DEF TenancyTypes
    <3> QED BY <2>0, <3>1, <3>2, BoundStays
  <2> QED BY <2>2, <2>3
<1>7. DeletedIsSwept'
  <2>1. \A q \in Requests : req[q].op = "sweep" => q # r
    BY <1>a DEF Idle
  <2> QED BY <1>a, <2>1 DEF DeletedIsSwept
<1> QED BY <1>1, <1>2, <1>3, <1>4, <1>5, <1>6, <1>7

\* A step of a request keeps every part of the invariant.
LEMMA StepsStep ==
    ASSUME TenancyStrong, NEW r \in Requests, Steps(r)
    PROVE  TenancyStrong'
BY TenancyTypesStep, AbsentStep, PeakStep, RosterStep, OverridesStep, EventsStep, DeletedStep
   DEF TenancyStrong

\* The invariant holds before the first organization.
LEMMA TenancyInitStrong == Init => TenancyStrong
<1> SUFFICES ASSUME Init PROVE TenancyStrong
  OBVIOUS
<1> USE DEF Init
<1>0. /\ PLAN_LIMITS["starter"] \in Nat /\ "starter" \in Plans /\ "none" \notin Orgs
      /\ "owner" \in Roles
  BY TenancyConstants DEF Roles
<1>1. PICK first \in Orgs, u \in Users, s \in Slugs :
        /\ org = [o \in Orgs |->
                    IF o = first THEN [Absent EXCEPT !.state = "live", !.slug = s] ELSE Absent]
        /\ role = [o \in Orgs |->
                    [v \in Users |-> IF o = first /\ v = u THEN "owner" ELSE "none"]]
        /\ peak = [o \in Orgs |-> IF o = first THEN PLAN_LIMITS.starter ELSE 0]
  OBVIOUS
<1> DEFINE live == [Absent EXCEPT !.state = "live", !.slug = s]
<1>2. /\ Absent \in OrgRow /\ live \in OrgRow /\ Absent.state = "absent" /\ live.state = "live"
      /\ limitsFor(live) = PLAN_LIMITS["starter"]
      /\ live.eventLimit = NoLimit /\ live.storageLimit = NoLimit
      /\ Absent.eventLimit = NoLimit /\ Absent.storageLimit = NoLimit
  BY <1>0 DEF Absent, OrgRow, limitsFor, NoLimit
<1>3. org = [o \in Orgs |-> IF o = first THEN live ELSE Absent]
  BY <1>1
<1> HIDE DEF live
<1>4. \A r \in Requests : req[r] = Idle /\ ~ Pending(r)
  BY IdleRow DEF Pending
<1>5. TenancyTypes
  BY <1>0, <1>1, <1>2, <1>3 DEF TenancyTypes
<1>6. AbsentIsNew
  BY <1>0, <1>1, <1>2, <1>3, <1>4 DEF AbsentIsNew, NoEvent
<1>7. PeakCovers
  BY <1>0, <1>1, <1>2, <1>3 DEF PeakCovers, Live
<1>8. RosterJudged
  BY <1>4 DEF RosterJudged
<1>9. OverridesNeedEnterprise
  BY <1>2, <1>3 DEF OverridesNeedEnterprise
<1>10. EventsBounded
  <2>1. SUFFICES ASSUME NEW x \in Orgs
                 PROVE  Cardinality(Held(x)) + Cardinality(Admitted(x)) < peak[x] + Cardinality(Requests)
    BY DEF EventsBounded, countForOrg, Held, Admitted
  <2>2. Held(x) = {} /\ Admitted(x) = {}
    BY <1>0, <1>4 DEF Held, Admitted, NoEvent, Idle
  <2>3. Cardinality(Held(x)) = 0 /\ Cardinality(Admitted(x)) = 0
    BY <2>2, FS_EmptySet
  <2>4. peak[x] \in Nat /\ Cardinality(Requests) \in Nat \ {0}
    BY <1>5, CountTypes DEF TenancyTypes
  <2> QED BY <2>3, <2>4
<1>11. DeletedIsSwept
  BY <1>2, <1>3 DEF DeletedIsSwept
<1> QED BY <1>5, <1>6, <1>7, <1>8, <1>9, <1>10, <1>11 DEF TenancyStrong

\* A step of the system begins a request, or takes one further.
LEMMA NextCases ==
    ASSUME Next
    PROVE  \/ \E r \in Requests, o \in Orgs : Started(r, o)
           \/ \E r \in Requests : Steps(r)
           \/ \E r \in Requests, e \in Events : removeEvent(r, e)
BY DEF Next, Started, Steps

\* The invariant is inductive.
LEMMA StrongStep == TenancyStrong /\ [Next]_vars => TenancyStrong'
<1> SUFFICES ASSUME TenancyStrong, [Next]_vars PROVE TenancyStrong'
  OBVIOUS
<1>1. ASSUME NEW r \in Requests, NEW o \in Orgs, Started(r, o)
      PROVE  TenancyStrong'
  BY <1>1, StartBegins, BeginsStep DEF TenancyStrong
<1>2. ASSUME NEW r \in Requests, Steps(r)
      PROVE  TenancyStrong'
  BY <1>2, StepsStep
<1>3. ASSUME NEW r \in Requests, NEW e \in Events, removeEvent(r, e)
      PROVE  TenancyStrong'
  BY <1>3, EraseBegins, BeginsStep DEF TenancyStrong
<1>4. CASE UNCHANGED vars
  BY <1>4 DEF vars, TenancyStrong, TenancyTypes, AbsentIsNew, Pending, PeakCovers, Live, RosterJudged,
     OverridesNeedEnterprise, EventsBounded, countForOrg, DeletedIsSwept
<1> QED BY <1>1, <1>2, <1>3, <1>4, NextCases

\* Its types are the model's.
LEMMA StrongTypes == TenancyStrong => TypeOK
<1> SUFFICES ASSUME TenancyTypes PROVE TypeOK
  BY DEF TenancyStrong
<1>1. \A r \in Requests : req[r].op \in Operations \cup {"idle", "own", "sweep"}
  BY ReqFields DEF TenancyTypes, Idle
<1>2. NoEvent \in [org : Orgs \cup {"none"}, slug : Slugs \cup {"none"}]
      /\ [org : Orgs, slug : Slugs] \subseteq [org : Orgs \cup {"none"}, slug : Slugs \cup {"none"}]
  BY DEF NoEvent
<1> QED BY <1>1, <1>2 DEF TenancyTypes, TypeOK, OrgRow

\* However many requests overlap or die, plans, limits and removals keep together: custom
\* limits belong to Enterprise, an organization stays within the number of requests of
\* the highest limit it has had, and a removed one is swept unless its removal died
\* (organization.service.ts:273-338, quota.service.ts:95).
THEOREM OrganizationsKeepTogether == Spec => []TenancyInv
<1>1. TenancyStrong => TenancyInv
  BY StrongTypes DEF TenancyStrong, TenancyInv
<1> QED BY <1>1, TenancyInitStrong, StrongStep, PTL DEF Spec

-----------------------------------------------------------------------------
(* The last owner *)

LostRightly(x) ==
    Owners(x) # {} /\ Owners(x)' = {} =>
        \E r \in Requests :
            /\ req[r] # Idle /\ req[r]' = Idle /\ req[r].org = x
            /\ \/ req[r].op = "add"
               \/ req[r].op \in {"role", "drop"} /\ req[r].seen # Owners(x)

\* An owner is lost in the write of a member's role only.  One that follows a check of the
\* roster either names an owner or leaves another: unless the roster has changed.
LEMMA WriteLosesRightly ==
    ASSUME TenancyTypes, RosterJudged, NEW r \in Requests, writeMember(r), NEW x \in Orgs
    PROVE  LostRightly(x)
<1> DEFINE o == req[r].org
           u == req[r].user
<1>1. /\ Pending(r) /\ req[r] # Idle /\ o \in Orgs /\ u \in Users
      /\ req[r].op \in {"add", "role", "drop"} /\ req'[r] = Idle
  <2>1. Pending(r) /\ o \in Orgs
    BY StepsArePending DEF Steps
  <2>2. req[r].op \in {"add", "role", "drop"}
    BY DEF writeMember
  <2> QED BY <2>1, <2>2, IdleRow, ReqFields DEF Pending, writeMember, Finish, TenancyTypes
<1>2. role' = [role EXCEPT ![o][u] = req[r].role] /\ role \in [Orgs -> [Users -> Roles \cup {"none"}]]
  BY DEF writeMember, TenancyTypes
<1>3. role'[o][u] = req[r].role /\ \A v \in Users \ {u} : role'[o][v] = role[o][v]
  BY <1>1, <1>2
<1>4. \A y \in Orgs \ {o} : role'[y] = role[y]
  BY <1>1, <1>2
<1> SUFFICES ASSUME Owners(x) # {}, Owners(x)' = {}
             PROVE  x = o /\ (req[r].op = "add" \/ req[r].seen # Owners(x))
  BY <1>1 DEF LostRightly
<1>5. x = o
  BY <1>4 DEF Owners
<1>6. CASE req[r].op \in {"role", "drop"} /\ req[r].seen = Owners(x)
  <2>1. req[r].role = "owner" \/ Owners(x) # {u}
    BY <1>1, <1>6 DEF RosterJudged
  <2>2. req[r].role # "owner"
    BY <1>1, <1>3, <1>5 DEF Owners
  <2>3. \E v \in Owners(x) : v # u
    BY <2>1, <2>2
  <2> QED BY <1>3, <1>5, <2>3 DEF Owners
<1> QED BY <1>1, <1>5, <1>6

\* A creation that adds its owner takes nobody's role away.
LEMMA OwnerLosesNobody ==
    ASSUME TenancyTypes, NEW r \in Requests, createOwner(r), NEW x \in Orgs
    PROVE  LostRightly(x)
<1> DEFINE o == req[r].org
           u == req[r].user
<1>1. o \in Orgs /\ u \in Users
  <2>1. Pending(r) /\ req[r].op = "own" /\ o \in Orgs
    BY StepsArePending DEF Steps, createOwner
  <2> QED BY <2>1, ReqFields DEF Pending
<1>2. role' = [role EXCEPT ![o][u] = "owner"] /\ role \in [Orgs -> [Users -> Roles \cup {"none"}]]
  BY DEF createOwner, TenancyTypes
<1>3. \A v \in Users : role[x][v] = "owner" => role'[x][v] = "owner"
  BY <1>1, <1>2
<1> QED BY <1>3 DEF LostRightly, Owners

\* However many changes of a roster overlap, an organization loses its last owner only to
\* an addMember that overwrites the owner's role, or to a change decided on a roster that
\* is no longer true (organization.service.ts:344-390).
THEOREM LastOwnerIsGuarded == Spec => LastOwnerLostToStaleRoster
<1>1. ASSUME TenancyStrong, [Next]_vars, NEW x \in Orgs
      PROVE  LostRightly(x)
  <2> USE DEF TenancyStrong
  <2>1. CASE role' = role
    BY <2>1 DEF LostRightly, Owners
  <2>2. ASSUME NEW r \in Requests, writeMember(r)
        PROVE  LostRightly(x)
    BY <1>1, <2>2, WriteLosesRightly
  <2>3. ASSUME NEW r \in Requests, createOwner(r)
        PROVE  LostRightly(x)
    BY <1>1, <2>3, OwnerLosesNobody
  <2>4. ASSUME NEW r \in Requests, Steps(r)
        PROVE  role' = role \/ writeMember(r) \/ createOwner(r)
    BY <2>4 DEF Steps, createRow, updateRow, updatePlanRow, softDelete, removePrefix, hardDelete,
       Fail, createEventRow
  <2>5. ASSUME NEW r \in Requests, NEW o \in Orgs, Started(r, o)
        PROVE  role' = role
    BY <1>1, <2>5, StartBegins DEF Begins
  <2>6. ASSUME NEW r \in Requests, NEW e \in Events, removeEvent(r, e)
        PROVE  role' = role
    BY <2>6 DEF removeEvent
  <2>7. CASE UNCHANGED vars
    BY <2>1, <2>7 DEF vars
  <2>8. CASE Next
    BY <2>1, <2>2, <2>3, <2>4, <2>5, <2>6, <2>8, NextCases
  <2> QED BY <1>1, <2>7, <2>8
<1>2. TenancyStrong /\ [Next]_vars =>
        [\A o \in Orgs :
            Owners(o) # {} /\ Owners(o)' = {} =>
                \E r \in Requests :
                    /\ req[r] # Idle /\ req[r]' = Idle /\ req[r].org = o
                    /\ \/ req[r].op = "add"
                       \/ req[r].op \in {"role", "drop"} /\ req[r].seen # Owners(o)]_vars
  BY <1>1 DEF LostRightly
<1> QED BY <1>2, TenancyInitStrong, StrongStep, PTL DEF Spec, LastOwnerLostToStaleRoster

-----------------------------------------------------------------------------
(* The mail log *)

MailRow == [state : {"new", "logged", "accepted", "unanswered", "refused", "done"},
            status : {"none", "queued", "sent", "delivered", "bounced", "complained", "failed", "opened"},
            at : Nat, known : BOOLEAN]
TicketRow == [step : {"new", "stored", "answered"}, stored : BOOLEAN,
              status : {"none", "open", "resolved"}, resolved : BOOLEAN, mailed : BOOLEAN]

\* The time the row keeps is that of the latest news that arrived, and its status that
\* news; until the message's id is stored none can arrive.
NewsKept(m) ==
    /\ seen[m] \subseteq DOMAIN history[m]
    /\ ~ mail[m].known => seen[m] = {} /\ mail[m].at = 0
    /\ mail[m].known => mail[m].state = "done"
    /\ seen[m] = {} => mail[m].at = 0 /\ (mail[m].known => mail[m].status = "sent")
    /\ seen[m] # {} => /\ mail[m].at \in seen[m] /\ \A j \in seen[m] : j <= mail[m].at
                       /\ mail[m].status = history[m][mail[m].at]

\* Only a stored ticket has a status, and it is open or resolved.
TicketKept(t) ==
    /\ ticket[t].step # "new" <=> ticket[t].stored
    /\ ticket[t].mailed => ticket[t].stored
    /\ ticket[t].stored => \/ ticket[t].status = "open"
                           \/ ticket[t].status = "resolved" /\ ticket[t].resolved

MailStrong ==
    /\ mail \in [Mails -> MailRow] /\ history \in [Mails -> Seq(Reports)]
    /\ seen \in [Mails -> SUBSET Nat] /\ ticket \in [Tickets -> TicketRow]
    /\ \A m \in Mails : NewsKept(m)
    /\ \A t \in Tickets : TicketKept(t)

\* Sending ends before the id is stored, so it never overwrites news.
LEMMA SendStep ==
    ASSUME MailStrong, NEW m \in Mails, send(m) \/ sendEmail(m) \/ markSent(m) \/ markFailed(m)
    PROVE  MailStrong'
<1>1. /\ ~ mail[m].known /\ seen[m] = {} /\ mail[m].at = 0
      /\ mail[m] \in MailRow /\ mail \in [Mails -> MailRow]
  BY DEF MailStrong, NewsKept, send, sendEmail, markSent, markFailed, MailRow
<1>2. UNCHANGED <<history, seen, ticket>>
  BY DEF send, sendEmail, markSent, markFailed
<1>3. \E row \in MailRow :
        /\ mail' = [mail EXCEPT ![m] = row] /\ row.at = 0
        /\ row.known => row.state = "done" /\ row.status = "sent"
  <2>1. CASE send(m)
    <3> DEFINE row == [mail[m] EXCEPT !.state = "logged", !.status = "queued"]
    <3>1. row \in MailRow /\ row.at = 0 /\ ~ row.known
      BY <1>1 DEF MailRow
    <3>2. mail' = [mail EXCEPT ![m] = row]
      BY <1>1, <2>1 DEF send, MailRow
    <3> QED BY <3>1, <3>2
  <2>2. CASE sendEmail(m)
    <3>1. PICK step \in {"accepted", "unanswered", "refused"} : mail' = [mail EXCEPT ![m].state = step]
      BY <2>2 DEF sendEmail
    <3> DEFINE row == [mail[m] EXCEPT !.state = step]
    <3>2. row \in MailRow /\ row.at = 0 /\ ~ row.known
      BY <1>1 DEF MailRow
    <3>3. mail' = [mail EXCEPT ![m] = row]
      BY <1>1, <3>1
    <3> QED BY <3>2, <3>3
  <2>3. CASE markSent(m)
    <3>1. SentRow(m) \in MailRow /\ SentRow(m).at = 0 /\ SentRow(m).state = "done"
          /\ SentRow(m).status = "sent"
      BY <1>1 DEF SentRow, MailRow
    <3> QED BY <2>3, <3>1 DEF markSent
  <2>4. CASE markFailed(m)
    <3> DEFINE row == [mail[m] EXCEPT !.status = "failed", !.state = "done"]
    <3>1. row \in MailRow /\ row.at = 0 /\ ~ row.known
      BY <1>1 DEF MailRow
    <3>2. mail' = [mail EXCEPT ![m] = row]
      BY <1>1, <2>4 DEF markFailed, MailRow
    <3> QED BY <3>1, <3>2
  <2> QED BY <2>1, <2>2, <2>3, <2>4
<1> QED BY <1>1, <1>2, <1>3 DEF MailStrong, NewsKept, TicketKept

\* The provider's history only grows, so what the row tells stays what it was.
LEMMA ReportStep ==
    ASSUME MailStrong, NEW m \in Mails, NEW told \in Reports, Report(m, told)
    PROVE  MailStrong'
<1>1. /\ history' = [history EXCEPT ![m] = Append(history[m], told)]
      /\ history \in [Mails -> Seq(Reports)] /\ UNCHANGED <<mail, seen, ticket>>
  BY DEF Report, MailStrong
<1>2. history' \in [Mails -> Seq(Reports)]
  BY <1>1
<1>3. \A n \in Mails : /\ DOMAIN history[n] \subseteq DOMAIN history'[n]
                       /\ \A i \in DOMAIN history[n] : history'[n][i] = history[n][i]
  BY <1>1
<1>4. \A n \in Mails : NewsKept(n)'
  BY <1>1, <1>3 DEF MailStrong, NewsKept
<1> QED BY <1>1, <1>2, <1>4 DEF MailStrong, TicketKept

\* A webhook is news if it happened later than what the row tells, and nothing otherwise.
LEMMA ResendStep ==
    ASSUME MailStrong, NEW m \in Mails, NEW i \in Nat \ {0}, NEW r, resend(m, i, r)
    PROVE  MailStrong'
<1>a. /\ i \in DOMAIN history[m] /\ mail[m].known /\ history[m] \in Seq(Reports)
      /\ mail[m] \in MailRow /\ mail \in [Mails -> MailRow] /\ seen[m] \subseteq Nat
      /\ seen \in [Mails -> SUBSET Nat] /\ NewsKept(m) /\ UNCHANGED <<history, ticket>>
  BY DEF resend, MailStrong
<1>1. CASE mail' = [mail EXCEPT ![m] = applyProviderStatus(m, i)] /\ seen' = [seen EXCEPT ![m] = @ \cup {i}]
  <2> DEFINE row == applyProviderStatus(m, i)
  <2>0. seen'[m] = seen[m] \cup {i} /\ seen' \in [Mails -> SUBSET Nat]
    BY <1>a, <1>1
  <2>1. CASE mail[m].at < i
    <3>1. row = [mail[m] EXCEPT !.status = history[m][i], !.at = i]
      BY <2>1 DEF applyProviderStatus
    <3>2. history[m][i] \in Reports
      BY <1>a
    <3>3. row \in MailRow /\ row.at = i /\ row.status = history[m][i]
          /\ row.known = mail[m].known /\ row.state = mail[m].state
      BY <1>a, <3>1, <3>2 DEF MailRow, Reports
    <3>4. mail'[m] = row /\ mail' \in [Mails -> MailRow]
      BY <1>a, <1>1, <3>3
    <3>5. \A j \in seen[m] : j <= i
      BY <1>a, <2>1 DEF NewsKept, MailRow
    <3>6. NewsKept(m)'
      <4>1. mail'[m].at = i /\ mail'[m].status = history'[m][i] /\ mail'[m].known /\ mail'[m].state = "done"
        BY <1>a, <3>3, <3>4 DEF NewsKept
      <4>2. i \in seen'[m] /\ seen'[m] \subseteq DOMAIN history'[m] /\ \A j \in seen'[m] : j <= i
        BY <1>a, <2>0, <3>5 DEF NewsKept
      <4> QED BY <4>1, <4>2 DEF NewsKept
    <3>7. \A n \in Mails \ {m} : NewsKept(n)'
      BY <1>a, <1>1 DEF MailStrong, NewsKept
    <3> QED BY <1>a, <2>0, <3>4, <3>6, <3>7 DEF MailStrong, TicketKept
  <2>2. CASE ~(mail[m].at < i)
    <3>1. row = mail[m]
      BY <2>2 DEF applyProviderStatus
    <3>2. mail' = mail
      BY <1>a, <1>1, <3>1
    <3>3. mail[m].at # 0 /\ i <= mail[m].at
      BY <1>a, <2>2 DEF MailRow
    <3>4. NewsKept(m)'
      BY <1>a, <2>0, <3>2, <3>3 DEF NewsKept
    <3>5. \A n \in Mails \ {m} : NewsKept(n)'
      BY <1>a, <1>1, <3>2 DEF MailStrong, NewsKept
    <3> QED BY <1>a, <2>0, <3>2, <3>4, <3>5 DEF MailStrong, TicketKept
  <2> QED BY <2>1, <2>2
<1>2. CASE UNCHANGED <<mail, seen>>
  BY <1>a, <1>2 DEF MailStrong, NewsKept, TicketKept
<1> QED BY <1>1, <1>2 DEF resend

\* A ticket is stored before anything is sent about it.
LEMMA TicketStep ==
    ASSUME MailStrong, NEW t \in Tickets,
           createTicket(t) \/ notify(t) \/ \E s \in {"open", "resolved"} : setStatus(t, s)
    PROVE  MailStrong'
<1>a. /\ ticket[t] \in TicketRow /\ ticket \in [Tickets -> TicketRow] /\ TicketKept(t)
      /\ UNCHANGED <<mail, history, seen>>
  BY DEF MailStrong, createTicket, notify, setStatus
<1>1. \E row \in TicketRow :
        /\ ticket' = [ticket EXCEPT ![t] = row]
        /\ row.step # "new" /\ row.stored
        /\ row.status = "open" \/ (row.status = "resolved" /\ row.resolved)
  <2>1. CASE createTicket(t)
    <3> DEFINE row == [ticket[t] EXCEPT !.step = "stored", !.stored = TRUE, !.status = "open"]
    <3>1. row \in TicketRow /\ row.step = "stored" /\ row.stored /\ row.status = "open"
      BY <1>a DEF TicketRow
    <3>2. ticket' = [ticket EXCEPT ![t] = row]
      BY <1>a, <2>1 DEF createTicket, TicketRow
    <3> QED BY <3>1, <3>2
  <2>2. CASE notify(t)
    <3>1. PICK sent \in BOOLEAN : ticket' = [ticket EXCEPT ![t].step = "answered", ![t].mailed = sent]
      BY <2>2 DEF notify
    <3> DEFINE row == [ticket[t] EXCEPT !.step = "answered", !.mailed = sent]
    <3>2. ticket[t].step = "stored"
      BY <2>2 DEF notify, MayNotify
    <3>3. row \in TicketRow /\ row.step = "answered" /\ row.stored = ticket[t].stored
          /\ row.status = ticket[t].status /\ row.resolved = ticket[t].resolved
      BY <1>a DEF TicketRow
    <3>4. ticket' = [ticket EXCEPT ![t] = row]
      BY <1>a, <3>1 DEF TicketRow
    <3> QED BY <1>a, <3>2, <3>3, <3>4 DEF TicketKept
  <2>3. ASSUME NEW s \in {"open", "resolved"}, setStatus(t, s)
        PROVE  \E row \in TicketRow :
                 /\ ticket' = [ticket EXCEPT ![t] = row]
                 /\ row.step # "new" /\ row.stored
                 /\ row.status = "open" \/ (row.status = "resolved" /\ row.resolved)
    <3> DEFINE row == [ticket[t] EXCEPT !.status = s, !.resolved = (s = "resolved")]
    <3>1. ticket[t].stored /\ ticket[t].step # "new"
      BY <1>a, <2>3 DEF setStatus, TicketKept
    <3>2. row \in TicketRow /\ row.stored = ticket[t].stored /\ row.step = ticket[t].step
          /\ row.status = s /\ row.resolved = (s = "resolved")
      BY <1>a DEF TicketRow
    <3>3. ticket' = [ticket EXCEPT ![t] = row]
      BY <1>a, <2>3 DEF setStatus, TicketRow
    <3> QED BY <3>1, <3>2, <3>3
  <2> QED BY <2>1, <2>2, <2>3
<1> QED BY <1>a, <1>1 DEF MailStrong, TicketKept, NewsKept

\* The invariant holds before any mail is sent.
LEMMA MailInit == MailLogInit => MailStrong
<1>1. \A m \in Mails : <<>> \in Seq(Reports)
  OBVIOUS
<1> QED BY <1>1 DEF MailLogInit, MailStrong, NewsKept, TicketKept, MailRow, TicketRow

\* Every send, webhook and ticket keeps it.
LEMMA MailStep == MailStrong /\ [MailLogNext]_mailVars => MailStrong'
<1> SUFFICES ASSUME MailStrong, [MailLogNext]_mailVars PROVE MailStrong'
  OBVIOUS
<1>1. CASE UNCHANGED mailVars
  BY <1>1 DEF mailVars, MailStrong, NewsKept, TicketKept
<1>2. ASSUME NEW m \in Mails, NEW i \in 1..MaxReports, NEW r \in Deliveries, resend(m, i, r)
      PROVE  MailStrong'
  <2>1. i \in Nat \ {0}
    BY MailLogConstants
  <2> QED BY <1>2, <2>1, ResendStep
<1>3. CASE MailLogNext
  BY <1>2, <1>3, SendStep, ReportStep, TicketStep DEF MailLogNext
<1> QED BY <1>1, <1>3

\* However late, often and disordered the webhooks are, the log tells the latest of those
\* that arrived, and every support ticket is in the inbox whatever becomes of its mail
\* (email-log.repository.ts:53, support.service.ts:44-54).
THEOREM MailIsTold == MailLogSpec => []MailLogTrue
<1>1. MailStrong => LatestNewsWins
  BY DEF MailStrong, NewsKept, LatestNewsWins
<1>2. MailStrong => TicketOutlivesMail
  <2> SUFFICES ASSUME MailStrong PROVE TicketOutlivesMail
    OBVIOUS
  <2> DEFINE Open == {t \in Tickets : ticket[t].status = "open"}
             Resolved == {t \in Tickets : ticket[t].resolved}
             Came == {t \in Tickets : ticket[t].step # "new"}
  <2>1. Came \subseteq Open \cup Resolved
    BY DEF MailStrong, TicketKept
  <2>2. Open \subseteq Tickets /\ Resolved \subseteq Tickets /\ IsFiniteSet(Tickets)
    BY MailLogConstants
  <2>3. IsFiniteSet(Open) /\ IsFiniteSet(Resolved)
    BY <2>2, FS_Subset
  <2>4. /\ IsFiniteSet(Open \cup Resolved)
        /\ Cardinality(Open \cup Resolved) = Cardinality(Open) + Cardinality(Resolved)
                                               - Cardinality(Open \cap Resolved)
    BY <2>3, FS_Union
  <2>5. IsFiniteSet(Open \cap Resolved)
    <3>1. Open \cap Resolved \subseteq Open
      OBVIOUS
    <3> QED BY <2>3, <3>1, FS_Subset
  <2>6. IsFiniteSet(Came) /\ Cardinality(Came) <= Cardinality(Open \cup Resolved)
    BY <2>1, <2>4, FS_Subset
  <2>7. /\ Cardinality(Came) \in Nat /\ Cardinality(Open) \in Nat /\ Cardinality(Resolved) \in Nat
        /\ Cardinality(Open \cap Resolved) \in Nat
    BY <2>3, <2>5, <2>6, FS_CardinalityType
  <2>8. countOpen = Cardinality(Open)
    BY DEF countOpen
  <2>9. \A t \in Tickets : ticket[t].mailed \/ ticket[t].step = "answered" => ticket[t].stored
    BY DEF MailStrong, TicketKept
  <2>10. countOpen + Cardinality(Resolved) >= Cardinality(Came)
    <3> HIDE DEF Open, Resolved, Came
    <3> QED BY <2>4, <2>6, <2>7, <2>8
  <2> QED BY <2>9, <2>10 DEF TicketOutlivesMail
<1>3. MailStrong => MailLogTrue
  BY <1>1, <1>2 DEF MailLogTrue
<1> QED BY <1>3, MailInit, MailStep, PTL DEF MailLogSpec
=============================================================================
