-------------------------- MODULE Providers_proofs --------------------------
(***************************************************************************)
(* What outside services are told and tell in turn: a cloud provider's     *)
(* tokens and refusals, the mails that carry a guest's links, and the page  *)
(* that walks a drive and watches its imports.                             *)
(***************************************************************************)
EXTENDS CloudAccounts, ImportsPage, GuestMail, FiniteSetTheorems, TLAPS

-----------------------------------------------------------------------------
(* Cloud accounts *)

Token == [grant : Nat, exp : Nat]
AccountRow == [stored : BOOLEAN, revoked : BOOLEAN, refresh : Nat, access : Token]
TokenCall == [phase : {"idle", "read", "handed", "refreshing", "storing"}, row : AccountRow, token : Token]

CloudTypes ==
    /\ account \in AccountRow /\ grants \in Nat /\ flow \in Nat /\ now \in Nat
    /\ steady \in BOOLEAN
    /\ tokenCall \in [CloudCalls -> TokenCall]

\* The calls that go by a row they have read go by the consent of the row as it is.
CallsFollow ==
    steady => \A c \in CloudCalls :
        /\ tokenCall[c].phase \in HoldsRow => tokenCall[c].row.refresh = account.refresh
        /\ tokenCall[c].phase = "storing" => tokenCall[c].token.grant = account.refresh

CloudStrong == CloudTypes /\ CallsFollow /\ ReconnectHolds

\* Every step keeps the types.
LEMMA CloudTypesStep ==
    ASSUME CloudTypes, CloudAccountsNext
    PROVE  CloudTypes'
<1> USE DEF CloudTypes
<1>0. /\ STATE_TTL \in Nat /\ TOKEN_TTL \in Nat
      /\ NoToken \in Token
  BY CloudAccountsConstants DEF NoToken, Token
<1>1. CASE getAuthorizeUrl
  BY <1>0, <1>1 DEF getAuthorizeUrl
<1>2. CASE handleCallback
  <2>1. upsert([grant |-> grants + 1, exp |-> now + TOKEN_TTL]) \in AccountRow
    BY <1>0 DEF upsert, AccountRow, Token
  <2>2. steady' \in BOOLEAN
    BY <1>2, Zenon DEF handleCallback
  <2>3. account' \in AccountRow /\ UNCHANGED <<tokenCall, now>> /\ flow' = 0 /\ grants' = grants + 1
    BY <1>2, <2>1 DEF handleCallback
  <2> QED BY <2>2, <2>3
<1>3. CASE disconnect
  BY <1>3 DEF disconnect, AccountRow
<1>4. CASE Passes
  BY <1>4 DEF Passes
<1>5. CASE \E g \in granted : Withdraw(g)
  <2>1. steady' \in BOOLEAN
    BY <1>5, Zenon DEF Withdraw
  <2> QED BY <1>5, <2>1 DEF Withdraw
<1>6. ASSUME NEW c \in CloudCalls,
             requireAccount(c) \/ getFreshAccessToken(c) \/ Refreshed(c) \/ Done(c)
      PROVE  CloudTypes'
  <2>0. tokenCall[c] \in TokenCall
    OBVIOUS
  <2>1. CASE requireAccount(c)
    BY <2>0, <2>1 DEF requireAccount, TokenCall
  <2>2. CASE getFreshAccessToken(c)
    <3>1. tokenCall[c].row.access \in Token
      BY <2>0 DEF TokenCall, AccountRow
    <3>2. [tokenCall[c] EXCEPT !.phase = "handed", !.token = tokenCall[c].row.access] \in TokenCall
      BY <2>0, <3>1 DEF TokenCall
    <3>3. [tokenCall[c] EXCEPT !.phase = "refreshing"] \in TokenCall
      BY <2>0 DEF TokenCall
    <3> QED BY <2>2, <3>2, <3>3 DEF getFreshAccessToken
  <2>3. CASE Refreshed(c)
    <3>1. [grant |-> tokenCall[c].row.refresh, exp |-> now + TOKEN_TTL] \in Token
      BY <1>0, <2>0 DEF TokenCall, AccountRow, Token
    <3>2. [tokenCall[c] EXCEPT !.phase = "storing",
             !.token = [grant |-> tokenCall[c].row.refresh, exp |-> now + TOKEN_TTL]] \in TokenCall
      BY <2>0, <3>1 DEF TokenCall
    <3> QED BY <2>3, <3>2 DEF Refreshed
  <2>4. CASE Done(c)
    <3>1. [phase |-> "idle", row |-> tokenCall[c].row, token |-> NoToken] \in TokenCall
      BY <1>0, <2>0 DEF TokenCall
    <3> QED BY <2>4, <3>1 DEF Done
  <2> QED BY <1>6, <2>1, <2>2, <2>3, <2>4
<1>7. ASSUME NEW c \in CloudCalls, updateAccessToken(c)
      PROVE  CloudTypes'
  <2>0. tokenCall[c] \in TokenCall
    OBVIOUS
  <2>1. [account EXCEPT !.access = tokenCall[c].token] \in AccountRow
    BY <2>0 DEF TokenCall, AccountRow
  <2>2. [tokenCall[c] EXCEPT !.phase = "handed"] \in TokenCall
    BY <2>0 DEF TokenCall
  <2>3. tokenCall' = [tokenCall EXCEPT ![c] = [tokenCall[c] EXCEPT !.phase = "handed"]]
    BY <1>7 DEF updateAccessToken
  <2> QED BY <1>7, <2>1, <2>2, <2>3 DEF updateAccessToken
<1>8. ASSUME NEW c \in CloudCalls, Refused(c) \/ RefreshErrors(c)
      PROVE  CloudTypes'
  <2>0. tokenCall[c] \in TokenCall
    OBVIOUS
  <2>1. [phase |-> "idle", row |-> tokenCall[c].row, token |-> NoToken] \in TokenCall
    BY <1>0, <2>0 DEF TokenCall
  <2>2. [account EXCEPT !.revoked = TRUE] \in AccountRow
    BY DEF AccountRow
  <2>3. steady' \in BOOLEAN
    BY <1>8, Zenon DEF Refused, RefreshErrors
  <2> QED BY <1>8, <2>1, <2>2, <2>3 DEF Refused, RefreshErrors
<1> QED BY <1>1, <1>2, <1>3, <1>4, <1>5, <1>6, <1>7, <1>8 DEF CloudAccountsNext

\* A steady account is not touched by a call of an earlier consent, for there is none.
LEMMA SteadyStep ==
    ASSUME CloudStrong, CloudAccountsNext
    PROVE  CallsFollow' /\ ReconnectHolds'
<1> USE DEF CloudStrong, CloudTypes
<1>a. account \in AccountRow /\ tokenCall \in [CloudCalls -> TokenCall]
  OBVIOUS
<1>s. CASE ~ steady'
  BY <1>s DEF CallsFollow, ReconnectHolds
<1>1. CASE getAuthorizeUrl \/ Passes
  BY <1>1 DEF getAuthorizeUrl, Passes, CallsFollow, ReconnectHolds, Connected
<1>2. CASE handleCallback /\ steady'
  <2>1. CASE flow < now
    <3>1. UNCHANGED <<account, tokenCall, steady>> /\ granted \subseteq granted'
      BY <1>2, <2>1 DEF handleCallback
    <3> QED BY <3>1 DEF CallsFollow, ReconnectHolds, Connected
  <2>2. CASE ~(flow < now)
    <3>1. /\ \A c \in CloudCalls : tokenCall'[c].phase \notin HoldsRow
          /\ account' = upsert([grant |-> grants + 1, exp |-> now + TOKEN_TTL])
          /\ grants + 1 \in granted'
      BY <1>2, <2>2 DEF handleCallback
    <3> QED BY <3>1 DEF CallsFollow, ReconnectHolds, Connected, upsert, HoldsRow
  <2> QED BY <2>1, <2>2
<1>3. CASE disconnect
  BY <1>3, <1>s DEF disconnect
<1>4. CASE (\E g \in granted : Withdraw(g)) /\ steady'
  <2>1. PICK g \in granted : Withdraw(g)
    BY <1>4
  <2>2. steady /\ g # account.refresh /\ UNCHANGED <<account, tokenCall>> /\ granted' = granted \ {g}
    BY <1>4, <2>1 DEF Withdraw
  <2> QED BY <2>2 DEF CallsFollow, ReconnectHolds, Connected
<1>5. ASSUME NEW c \in CloudCalls,
             requireAccount(c) \/ getFreshAccessToken(c) \/ Refreshed(c) \/ Done(c)
      PROVE  CallsFollow' /\ ReconnectHolds'
  <2>1. UNCHANGED <<account, granted, steady>>
    BY <1>5 DEF requireAccount, getFreshAccessToken, Refreshed, Done
  <2>2. \A d \in CloudCalls \ {c} : tokenCall'[d] = tokenCall[d]
    BY <1>5 DEF requireAccount, getFreshAccessToken, Refreshed, Done
  <2>3. /\ tokenCall'[c].phase \in HoldsRow =>
              tokenCall'[c].row = account
              \/ (tokenCall'[c].row = tokenCall[c].row /\ tokenCall[c].phase \in HoldsRow)
        /\ tokenCall'[c].phase = "storing" => tokenCall'[c].token.grant = tokenCall[c].row.refresh
                                              /\ tokenCall[c].phase \in HoldsRow
    <3>0. tokenCall[c] \in TokenCall
      OBVIOUS
    <3>1. CASE requireAccount(c)
      BY <3>0, <3>1 DEF requireAccount, TokenCall, HoldsRow
    <3>2. CASE getFreshAccessToken(c)
      BY <3>0, <3>2 DEF getFreshAccessToken, TokenCall, HoldsRow
    <3>3. CASE Refreshed(c)
      BY <3>0, <3>3 DEF Refreshed, TokenCall, HoldsRow
    <3>4. CASE Done(c)
      BY <3>0, <3>4 DEF Done, TokenCall, HoldsRow
    <3> QED BY <1>5, <3>1, <3>2, <3>3, <3>4
  <2> QED BY <2>1, <2>2, <2>3 DEF CallsFollow, ReconnectHolds, Connected
<1>6. ASSUME NEW c \in CloudCalls, updateAccessToken(c)
      PROVE  CallsFollow' /\ ReconnectHolds'
  <2>1. /\ account'.refresh = account.refresh /\ account'.revoked = account.revoked
        /\ account'.stored = account.stored /\ account'.access = tokenCall[c].token
    BY <1>a, <1>6 DEF updateAccessToken, AccountRow
  <2>2. UNCHANGED <<granted, steady>> /\ tokenCall[c].phase = "storing"
    BY <1>6 DEF updateAccessToken
  <2>3. /\ \A d \in CloudCalls \ {c} : tokenCall'[d] = tokenCall[d]
        /\ tokenCall'[c].phase = "handed"
    BY <1>a, <1>6 DEF updateAccessToken, TokenCall
  <2> QED BY <2>1, <2>2, <2>3 DEF CallsFollow, ReconnectHolds, Connected, HoldsRow
<1>7. ASSUME NEW c \in CloudCalls, Refused(c)
      PROVE  CallsFollow' /\ ReconnectHolds'
  <2>1. ~ steady /\ steady' = steady
    BY <1>7 DEF Refused, CallsFollow, ReconnectHolds, HoldsRow
  <2> QED BY <1>s, <2>1
<1>8. ASSUME NEW c \in CloudCalls, RefreshErrors(c)
      PROVE  CallsFollow' /\ ReconnectHolds'
  BY <1>8, <1>s DEF RefreshErrors
<1> QED BY <1>s, <1>1, <1>2, <1>3, <1>4, <1>5, <1>6, <1>7, <1>8 DEF CloudAccountsNext

\* The invariant holds before any account is connected.
LEMMA CloudInit == CloudAccountsInit => CloudStrong
<1>1. NoToken \in Token /\ NoRow \in AccountRow
  BY DEF NoToken, Token, NoRow, AccountRow
<1>2. [phase |-> "idle", row |-> NoRow, token |-> NoToken] \in TokenCall
  BY <1>1 DEF TokenCall
<1>3. ASSUME CloudAccountsInit
      PROVE  CloudTypes /\ ~ steady
  BY <1>1, <1>2, <1>3 DEF CloudAccountsInit, CloudTypes
<1> QED BY <1>3 DEF CloudStrong, CallsFollow, ReconnectHolds

\* Every step of a call, a consent or a clock keeps it.
LEMMA CloudStep == CloudStrong /\ [CloudAccountsNext]_cloudVars => CloudStrong'
<1>1. CASE UNCHANGED cloudVars
  BY <1>1 DEF cloudVars, CloudStrong, CloudTypes, CallsFollow, ReconnectHolds, Connected
<1> QED BY <1>1, CloudTypesStep, SteadyStep DEF CloudStrong

\* An account that was connected while no call held an earlier row stays connected, with a
\* standing consent and a token of that consent, for any number of overlapping refreshes,
\* until it is disconnected, loses its consent or a refresh fails by an error
\* (cloud.service.ts:119-152, cloud-account.repository.ts:20-44).
THEOREM ReconnectsHold == CloudAccountsSpec => []ReconnectHolds
BY CloudInit, CloudStep, PTL DEF CloudAccountsSpec, CloudStrong

-----------------------------------------------------------------------------
(* A guest's mails *)

\* New links are what submissions and resends allow.
LinksBounded == row.link <= MaxResends + row.submissions

\* At most one handler has sent a digest, or the first notice in its place, and not
\* recorded it; without a fault the window after a digest is one the row knows of.
DigestHeld ==
    /\ \A w \in MailSlots : mailer[w] \in {"digest", "first"} => digest = "active"
    /\ \A w, v \in MailSlots :
           mailer[w] \in {"digest", "first"} /\ mailer[v] \in {"digest", "first"} => w = v
    /\ credit = MaxFaults => quiet <= row.cool \/ \E w \in MailSlots : mailer[w] = "digest"

MailStrong == TypeOK /\ LinkOnItsWay /\ LinksBounded /\ DigestHeld

\* The routes agree with each other whatever the toggles.
LEMMA RoutesAgree == TypeOK => GalleryConsistent
<1> SUFFICES ASSUME TypeOK, NEW see \in BOOLEAN, NEW all \in BOOLEAN, NEW deleted \in SUBSET Photos
             PROVE  LET single == getGalleryDownloadUrl(see, all, deleted)
                    IN /\ single \subseteq assertViewable(see, deleted) \ deleted
                       /\ getMatchedAssets(deleted) \subseteq single
                       /\ \A chosen \in SUBSET Photos :
                            streamGalleryZip(see, all, chosen, deleted) \subseteq single
  BY DEF GalleryConsistent
<1> DEFINE single == getGalleryDownloadUrl(see, all, deleted)
<1>1. single \subseteq assertViewable(see, deleted) \ deleted
  BY DEF getGalleryDownloadUrl, assertDownloadable, assertViewable, getEventGallery
<1>2. getMatchedAssets(deleted) \subseteq single
  BY DEF getGalleryDownloadUrl, assertDownloadable, getMatchedAssets
<1>3. ASSUME NEW chosen \in SUBSET Photos
      PROVE  streamGalleryZip(see, all, chosen, deleted) \subseteq single
  BY <1>2 DEF streamGalleryZip, getGalleryDownloadUrl
<1> QED BY <1>1, <1>2, <1>3

\* A submission, its matching and the organiser's resend.
LEMMA MatchingStep ==
    ASSUME MailStrong,
           \/ Resubmit \/ NoFace \/ resend
           \/ \E m \in Matchers : StartMatching(m) \/ InsertMatches(m) \/ SettleMatch(m),
           UNCHANGED <<opening, mailer, quiet, ticks, credit>>
    PROVE  MailStrong'
<1>t. /\ TypeOK /\ LinkOnItsWay /\ LinksBounded /\ DigestHeld
      /\ MaxSubmissions \in Nat \ {0} /\ MaxResends \in Nat /\ Throttle \in Nat \ {0}
  BY GuestMailAssumption DEF MailStrong
<1> DEFINE Row == [link : Links, submissions : 1..MaxSubmissions, awaiting : BOOLEAN,
                   status : {"processing", "pending_match", "matched", "no_face"},
                   first : BOOLEAN, resent : BOOLEAN, lost : BOOLEAN, cool : 0..Throttle]
<1>r. /\ row \in Row /\ waiting \in [Kinds -> Nat] /\ sent \in BOOLEAN
      /\ digest \in {"none", "waiting", "active", "failed"}
  BY <1>t DEF TypeOK
<1>d. ASSUME row'.cool = row.cool, digest' = digest \/ (digest # "active" /\ digest' # "active")
      PROVE  DigestHeld'
  BY <1>t, <1>d DEF DigestHeld
<1>1. CASE Resubmit
  <2>1. /\ row' = [row EXCEPT !.submissions = row.submissions + 1, !.status = "processing",
                              !.awaiting = FALSE, !.link = row.link + 1, !.resent = FALSE, !.lost = FALSE]
        /\ row.submissions < MaxSubmissions /\ sent' = FALSE
        /\ waiting' = [waiting EXCEPT !["received"] = waiting["received"] + 1]
        /\ UNCHANGED <<matches, fresh, matching, digest>>
    BY <1>1 DEF Resubmit, Queue
  <2>2. row.link + 1 \in Links /\ row.submissions + 1 \in 1..MaxSubmissions
        /\ row.link + 1 <= MaxResends + (row.submissions + 1)
    BY <1>t, <1>r, <2>1 DEF Links, LinksBounded
  <2>3. row' \in Row /\ row'.cool = row.cool /\ row'.link = row.link + 1 /\ row'.submissions = row.submissions + 1
    BY <1>r, <2>1, <2>2
  <2>4. waiting' \in [Kinds -> Nat] /\ waiting'["received"] > 0
    BY <1>r, <2>1 DEF Kinds
  <2>5. TypeOK'
    BY <1>t, <2>1, <2>3, <2>4 DEF TypeOK
  <2>6. DigestHeld'
    BY <1>d, <2>1, <2>3
  <2>7. LinkOnItsWay' /\ LinksBounded'
    BY <2>1, <2>2, <2>3, <2>4 DEF LinkOnItsWay, LinksBounded
  <2> QED BY <2>5, <2>6, <2>7 DEF MailStrong
<1>2. CASE resend
  <2>1. /\ row' = [row EXCEPT !.link = row.link + 1, !.resent = TRUE, !.lost = FALSE] /\ sent' = FALSE
        /\ row.link < MaxResends + row.submissions
        /\ waiting' = [waiting EXCEPT !["gallery"] = waiting["gallery"] + 1]
        /\ UNCHANGED <<matches, fresh, matching, digest>>
    BY <1>2 DEF resend, Queue
  <2>2. row.link + 1 \in Links /\ row.link + 1 <= MaxResends + row.submissions
    BY <1>t, <1>r, <2>1 DEF Links, LinksBounded
  <2>3. row' \in Row /\ row'.cool = row.cool /\ row'.resent /\ row'.link = row.link + 1
        /\ row'.submissions = row.submissions
    BY <1>r, <2>1, <2>2
  <2>4. waiting' \in [Kinds -> Nat]
    BY <1>r, <2>1 DEF Kinds
  <2>5. TypeOK'
    BY <1>t, <2>1, <2>3, <2>4 DEF TypeOK
  <2>6. DigestHeld'
    BY <1>d, <2>1, <2>3
  <2>7. LinkOnItsWay' /\ LinksBounded'
    BY <2>1, <2>2, <2>3, <2>4 DEF LinkOnItsWay, LinksBounded
  <2> QED BY <2>5, <2>6, <2>7 DEF MailStrong
<1>3. CASE NoFace
  <2>1. /\ row' = [row EXCEPT !.status = "no_face"]
        /\ UNCHANGED <<matches, fresh, matching, waiting, digest, sent>>
    BY <1>3 DEF NoFace
  <2>2. row' \in Row /\ row'.cool = row.cool /\ row'.link = row.link /\ row'.submissions = row.submissions
        /\ row'.resent = row.resent /\ row'.lost = row.lost
    BY <1>r, <2>1
  <2>5. TypeOK'
    BY <1>t, <2>1, <2>2 DEF TypeOK
  <2>6. DigestHeld'
    BY <1>d, <2>1, <2>2
  <2>7. LinkOnItsWay' /\ LinksBounded'
    BY <1>t, <2>1, <2>2 DEF LinkOnItsWay, LinksBounded
  <2> QED BY <2>5, <2>6, <2>7 DEF MailStrong
<1> DEFINE Handler == [pc : {"idle", "match", "settle"}, first : BOOLEAN,
                       by : {"selfie", "matcher"}, new : BOOLEAN]
<1>m. matching \in [Matchers -> Handler]
  BY <1>t DEF TypeOK
<1>4. ASSUME NEW m \in Matchers, NEW h \in Handler, matching' = [matching EXCEPT ![m] = h],
             matches' \subseteq Photos, fresh' \subseteq matches', UNCHANGED <<row, waiting, digest, sent>>
      PROVE  MailStrong'
  <2>1. matching' \in [Matchers -> Handler]
    BY <1>4, <1>m
  <2>5. TypeOK'
    BY <1>4, <1>t, <2>1 DEF TypeOK
  <2>6. DigestHeld'
    BY <1>4, <1>d
  <2>7. LinkOnItsWay' /\ LinksBounded'
    BY <1>4, <1>t DEF LinkOnItsWay, LinksBounded
  <2> QED BY <2>5, <2>6, <2>7 DEF MailStrong
<1>5. ASSUME NEW m \in Matchers, StartMatching(m) PROVE MailStrong'
  <2>1. PICK by \in {"selfie", "matcher"} :
            matching' = [matching EXCEPT ![m] = [pc |-> "match", by |-> by, first |-> row.first, new |-> FALSE]]
    BY <1>5 DEF StartMatching
  <2>2. [pc |-> "match", by |-> by, first |-> row.first, new |-> FALSE] \in Handler
    BY <1>r
  <2> HIDE DEF Handler
  <2>3. UNCHANGED <<row, matches, fresh, waiting, digest, sent>> /\ matches \subseteq Photos /\ fresh \subseteq matches
    BY <1>5, <1>t DEF StartMatching, guest, TypeOK
  <2> QED BY <1>4, <2>1, <2>2, <2>3
<1>6. ASSUME NEW m \in Matchers, InsertMatches(m) PROVE MailStrong'
  <2>1. PICK P \in SUBSET Photos :
            /\ matches' = matches \cup P /\ fresh' = fresh \cup (P \ matches)
            /\ matching' = [matching EXCEPT ![m].pc = "settle", ![m].new = ~ (P \subseteq matches)]
    BY <1>6 DEF InsertMatches
  <2> DEFINE h == [matching[m] EXCEPT !.pc = "settle", !.new = ~ (P \subseteq matches)]
  <2>2. h \in Handler
    BY <1>m
  <2>3. matching' = [matching EXCEPT ![m] = h]
    BY <1>m, <2>1
  <2> HIDE DEF Handler, h
  <2>4. UNCHANGED <<row, waiting, digest, sent>> /\ matches' \subseteq Photos /\ fresh' \subseteq matches'
    BY <1>6, <1>t, <2>1 DEF InsertMatches, TypeOK
  <2> QED BY <1>4, <2>2, <2>3, <2>4
<1>7. ASSUME NEW m \in Matchers, SettleMatch(m) PROVE MailStrong'
  <2> DEFINE status == IF matches # {} THEN "matched" ELSE "pending_match"
  <2>1. row' = [row EXCEPT !.status = status] /\ UNCHANGED <<matches, fresh, sent>>
        /\ matching' = [matching EXCEPT ![m] = Idle]
    BY <1>7 DEF SettleMatch
  <2>8. digest' = digest \/ (digest # "active" /\ digest' = "waiting")
    BY <1>7, <1>r DEF SettleMatch
  <2>9. waiting' = waiting \/ waiting' = [waiting EXCEPT !["gallery"] = waiting["gallery"] + 1]
    BY <1>7 DEF SettleMatch, Queue
  <2>2. status \in {"matched", "pending_match"}
    OBVIOUS
  <2> HIDE DEF status
  <2>3. row' \in Row /\ row'.cool = row.cool /\ row'.link = row.link /\ row'.submissions = row.submissions
        /\ row'.resent = row.resent /\ row'.lost = row.lost
    BY <1>r, <2>1, <2>2
  <2>4. waiting' \in [Kinds -> Nat] /\ waiting'["received"] = waiting["received"]
    BY <1>r, <2>9 DEF Kinds
  <2>5. matching' \in [Matchers -> Handler]
    BY <1>m, <2>1 DEF Idle
  <2>6. DigestHeld'
    BY <1>r, <1>d, <2>8, <2>3
  <2>7. TypeOK'
    BY <1>t, <1>r, <2>1, <2>3, <2>4, <2>5, <2>8 DEF TypeOK
  <2>10. LinkOnItsWay' /\ LinksBounded'
    BY <1>t, <2>1, <2>3, <2>4 DEF LinkOnItsWay, LinksBounded
  <2> QED BY <2>6, <2>7, <2>10 DEF MailStrong
<1> QED BY <1>1, <1>2, <1>3, <1>5, <1>6, <1>7

\* The gallery is opened, and time passes.
LEMMA GalleryStep ==
    ASSUME MailStrong,
           \/ /\ getGallery \/ GalleryOpened
              /\ UNCHANGED <<matches, fresh, matching, noticeVars, ticks, credit>>
           \/ Tick
    PROVE  MailStrong'
<1>t. /\ TypeOK /\ LinkOnItsWay /\ LinksBounded /\ DigestHeld
      /\ Throttle \in Nat \ {0} /\ MaxTicks \in Nat
  BY GuestMailAssumption DEF MailStrong
<1> DEFINE Row == [link : Links, submissions : 1..MaxSubmissions, awaiting : BOOLEAN,
                   status : {"processing", "pending_match", "matched", "no_face"},
                   first : BOOLEAN, resent : BOOLEAN, lost : BOOLEAN, cool : 0..Throttle]
<1>r. row \in Row
  BY <1>t DEF TypeOK
<1>1. CASE getGallery \/ GalleryOpened
  <2>0. UNCHANGED <<matches, fresh, matching, waiting, digest, mailer, sent, quiet, ticks, credit>>
    BY <1>1 DEF noticeVars, getGallery, GalleryOpened, Tick
  <2>1. /\ row' = row \/ row' = [row EXCEPT !.awaiting = TRUE]
        /\ opening' \in BOOLEAN
    BY <1>1 DEF getGallery, GalleryOpened
  <2>2. row' \in Row /\ row'.cool = row.cool /\ row'.link = row.link /\ row'.submissions = row.submissions
        /\ row'.resent = row.resent /\ row'.lost = row.lost
    BY <1>r, <2>1
  <2>3. DigestHeld'
    BY <1>t, <2>0, <2>2 DEF DigestHeld
  <2> QED BY <1>t, <2>0, <2>1, <2>2, <2>3 DEF MailStrong, TypeOK, LinkOnItsWay, LinksBounded
<1>2. CASE Tick
  <2> DEFINE less == IF row.cool > 0 THEN row.cool - 1 ELSE 0
  <2>1. /\ row' = [row EXCEPT !.cool = less] /\ ticks' \in 0..MaxTicks
        /\ quiet' = IF quiet > 0 THEN quiet - 1 ELSE 0
        /\ UNCHANGED <<matches, fresh, matching, opening, waiting, digest, mailer, sent, credit>>
    BY <1>t, <1>2 DEF Tick, TypeOK
  <2>2. quiet \in 0..Throttle /\ quiet' \in 0..Throttle /\ less \in 0..Throttle
        /\ (quiet <= row.cool => quiet' <= less)
    BY <1>t, <1>r, <2>1 DEF TypeOK
  <2> HIDE DEF less
  <2>3. row' \in Row /\ row'.cool = less /\ row'.link = row.link /\ row'.submissions = row.submissions
        /\ row'.resent = row.resent /\ row'.lost = row.lost
    BY <1>r, <2>1, <2>2
  <2>4. DigestHeld'
    BY <1>t, <2>1, <2>2, <2>3 DEF DigestHeld
  <2> QED BY <1>t, <2>1, <2>2, <2>3, <2>4 DEF MailStrong, TypeOK, LinkOnItsWay, LinksBounded
<1> QED BY <1>1, <1>2

\* The senders: a link leaves the queue only into a mail, and a digest keeps its id until
\* it is recorded.
LEMMA SenderStep ==
    ASSUME MailStrong,
           \/ SendSelfieReceived \/ ReleaseDigest
           \/ \E w \in MailSlots : SendGalleryEmail(w) \/ SendDigest(w) \/ MarkNotified(w) \/ MailFails(w),
           UNCHANGED <<matches, matching, opening, ticks>>
    PROVE  MailStrong'
<1>t. /\ TypeOK /\ LinkOnItsWay /\ LinksBounded /\ DigestHeld
      /\ Throttle \in Nat \ {0} /\ MaxFaults \in Nat
  BY GuestMailAssumption DEF MailStrong
<1> DEFINE Row == [link : Links, submissions : 1..MaxSubmissions, awaiting : BOOLEAN,
                   status : {"processing", "pending_match", "matched", "no_face"},
                   first : BOOLEAN, resent : BOOLEAN, lost : BOOLEAN, cool : 0..Throttle]
<1>r. /\ row \in Row /\ waiting \in [Kinds -> Nat] /\ sent \in BOOLEAN
      /\ mailer \in [MailSlots -> {"idle", "gallery", "first", "digest"}] /\ quiet \in 0..Throttle
  BY <1>t DEF TypeOK
<1>1. CASE SendSelfieReceived
  <2>1. /\ UNCHANGED <<fresh, digest, mailer, quiet, credit>> /\ waiting["received"] > 0
        /\ \/ waiting' = waiting
           \/ waiting' = [waiting EXCEPT !["received"] = waiting["received"] - 1]
    BY <1>1 DEF SendSelfieReceived
  <2>5. sent' \in BOOLEAN
    BY <1>1, <1>r, Zenon DEF SendSelfieReceived
  <2>6. (sent' /\ row' = row) \/ row' = [row EXCEPT !.lost = TRUE]
    BY <1>1, Zenon DEF SendSelfieReceived
  <2>2. waiting' \in [Kinds -> Nat]
    BY <1>r, <2>1 DEF Kinds
  <2>3. /\ row' \in Row /\ row'.cool = row.cool /\ row'.link = row.link
        /\ row'.submissions = row.submissions /\ (row'.lost \/ sent')
    <3>1. CASE sent' /\ row' = row
      BY <1>r, <3>1
    <3>2. CASE row' = [row EXCEPT !.lost = TRUE]
      BY <1>r, <3>2
    <3> QED BY <2>6, <3>1, <3>2
  <2>4. DigestHeld'
    BY <1>t, <2>1, <2>3 DEF DigestHeld
  <2> QED BY <1>t, <2>1, <2>2, <2>3, <2>4, <2>5 DEF MailStrong, TypeOK, LinkOnItsWay, LinksBounded
<1>6. CASE ReleaseDigest
  <2>1. /\ UNCHANGED <<row, fresh, waiting, mailer, sent, quiet, credit>>
        /\ digest = "failed" /\ digest' \in {"waiting", "none"}
    BY <1>6 DEF ReleaseDigest
  <2>2. DigestHeld'
    BY <1>t, <2>1 DEF DigestHeld
  <2> QED BY <1>t, <2>1, <2>2 DEF MailStrong, TypeOK, LinkOnItsWay, LinksBounded
<1>2. ASSUME NEW w \in MailSlots, SendGalleryEmail(w) PROVE MailStrong'
  <2>1. /\ UNCHANGED <<row, fresh, digest, quiet, credit>>
        /\ waiting' = [waiting EXCEPT !["gallery"] = waiting["gallery"] - 1] /\ waiting["gallery"] > 0
        /\ mailer' = mailer \/ mailer' = [mailer EXCEPT ![w] = "gallery"]
        /\ mailer[w] = "idle"
    BY <1>2 DEF SendGalleryEmail
  <2>5. sent' \in BOOLEAN /\ (sent => sent')
    BY <1>2, <1>r, Zenon DEF SendGalleryEmail
  <2>2. waiting' \in [Kinds -> Nat] /\ waiting'["received"] = waiting["received"]
    BY <1>r, <2>1 DEF Kinds
  <2>3. /\ mailer' \in [MailSlots -> {"idle", "gallery", "first", "digest"}]
        /\ \A v \in MailSlots : mailer'[v] # mailer[v] => mailer[v] = "idle" /\ mailer'[v] = "gallery"
    BY <1>r, <2>1
  <2>4. DigestHeld'
    BY <1>t, <2>1, <2>3 DEF DigestHeld
  <2> QED BY <1>t, <2>1, <2>2, <2>3, <2>4, <2>5 DEF MailStrong, TypeOK, LinkOnItsWay, LinksBounded
<1>3. ASSUME NEW w \in MailSlots, SendDigest(w) PROVE MailStrong'
  <2>1. /\ mailer[w] = "idle" /\ digest = "waiting" /\ UNCHANGED <<row, fresh, waiting, credit>>
        /\ \/ /\ row.first /\ mailer' = [mailer EXCEPT ![w] = "digest"] /\ digest' = "active"
              /\ quiet' = Throttle
           \/ /\ mailer' = [mailer EXCEPT ![w] = "first"] /\ digest' = "active"
              /\ quiet' = quiet
           \/ digest' \in {"none", "failed"} /\ UNCHANGED <<mailer, quiet>>
    BY <1>3 DEF SendDigest
  <2>6. sent' \in BOOLEAN /\ (sent => sent')
    BY <1>3, <1>r, Zenon DEF SendDigest
  <2>2. quiet' \in 0..Throttle
    BY <1>t, <1>r, <2>1
  <2>3. mailer' \in [MailSlots -> {"idle", "gallery", "first", "digest"}]
    BY <1>r, <2>1
  <2>4. \A v \in MailSlots : mailer[v] \notin {"digest", "first"}
    BY <1>t, <2>1 DEF DigestHeld
  <2>5. DigestHeld'
    BY <1>t, <1>r, <2>1, <2>4 DEF DigestHeld
  <2> QED BY <1>t, <2>1, <2>2, <2>3, <2>5, <2>6 DEF MailStrong, TypeOK, LinkOnItsWay, LinksBounded
<1>4. ASSUME NEW w \in MailSlots, MarkNotified(w) PROVE MailStrong'
  <2>1. /\ mailer[w] # "idle" /\ mailer' = [mailer EXCEPT ![w] = "idle"]
        /\ row' = [row EXCEPT !.cool = Throttle]
           \/ row' = [row EXCEPT !.first = TRUE, !.cool = Throttle, !.awaiting = FALSE]
        /\ digest' = IF mailer[w] = "gallery" THEN digest ELSE "none"
        /\ fresh' = {} /\ UNCHANGED <<waiting, sent, quiet, credit>>
    BY <1>4 DEF MarkNotified
  <2>6. Throttle \in 0..Throttle
    BY <1>t
  <2>7. ASSUME row' = [row EXCEPT !.cool = Throttle]
        PROVE  row' \in Row /\ row'.cool = Throttle /\ row'.link = row.link
               /\ row'.submissions = row.submissions /\ row'.resent = row.resent
               /\ row'.lost = row.lost
    BY <1>r, <2>6, <2>7
  <2>8. ASSUME row' = [row EXCEPT !.first = TRUE, !.cool = Throttle, !.awaiting = FALSE]
        PROVE  row' \in Row /\ row'.cool = Throttle /\ row'.link = row.link
               /\ row'.submissions = row.submissions /\ row'.resent = row.resent
               /\ row'.lost = row.lost
    BY <1>r, <2>6, <2>8
  <2>2. row' \in Row /\ row'.cool = Throttle /\ row'.link = row.link /\ row'.submissions = row.submissions
        /\ row'.resent = row.resent /\ row'.lost = row.lost
    BY <2>1, <2>7, <2>8
  <2>3. /\ mailer' \in [MailSlots -> {"idle", "gallery", "first", "digest"}]
        /\ mailer'[w] = "idle" /\ \A v \in MailSlots \ {w} : mailer'[v] = mailer[v]
    BY <1>r, <2>1
  <2>4. \A v \in MailSlots : mailer'[v] \in {"digest", "first"} => mailer[w] = "gallery" /\ digest' = "active"
    BY <1>t, <1>r, <2>1, <2>3 DEF DigestHeld
  <2>5. DigestHeld'
    BY <1>t, <1>r, <2>1, <2>2, <2>3, <2>4 DEF DigestHeld
  <2> QED BY <1>t, <2>1, <2>2, <2>3, <2>5 DEF MailStrong, TypeOK, LinkOnItsWay, LinksBounded
<1>5. ASSUME NEW w \in MailSlots, MailFails(w) PROVE MailStrong'
  <2>1. /\ mailer[w] # "idle" /\ mailer' = [mailer EXCEPT ![w] = "idle"]
        /\ \/ /\ mailer[w] = "gallery" /\ digest' = digest
              /\ \/ waiting' = waiting
                 \/ waiting' = [waiting EXCEPT !["gallery"] = waiting["gallery"] + 1]
           \/ mailer[w] # "gallery" /\ digest' \in {"waiting", "failed"} /\ waiting' = waiting
        /\ credit > 0 /\ credit' = credit - 1 /\ UNCHANGED <<row, fresh, sent, quiet>>
    BY <1>5 DEF MailFails, Queue
  <2>2. waiting' \in [Kinds -> Nat] /\ waiting'["received"] = waiting["received"]
    BY <1>r, <2>1 DEF Kinds
  <2>3. /\ mailer' \in [MailSlots -> {"idle", "gallery", "first", "digest"}]
        /\ mailer'[w] = "idle" /\ \A v \in MailSlots \ {w} : mailer'[v] = mailer[v]
    BY <1>r, <2>1
  <2>4. \A v \in MailSlots : mailer'[v] \in {"digest", "first"} => mailer[w] = "gallery" /\ digest' = "active"
    BY <1>t, <1>r, <2>1, <2>3 DEF DigestHeld
  <2>5. credit' \in 0..MaxFaults /\ credit' # MaxFaults
    BY <1>t, <2>1 DEF TypeOK
  <2>6. DigestHeld'
    BY <1>t, <2>1, <2>3, <2>4, <2>5 DEF DigestHeld
  <2> QED BY <1>t, <2>1, <2>2, <2>3, <2>5, <2>6 DEF MailStrong, TypeOK, LinkOnItsWay, LinksBounded
<1> QED BY <1>1, <1>2, <1>3, <1>4, <1>5, <1>6

\* Everything about the mails holds at first, and one case per kind of step keeps it.
LEMMA MailInductive ==
    /\ Init => MailStrong
    /\ MailStrong /\ [Next]_vars => MailStrong'
<1>1. ASSUME Init PROVE MailStrong
  <2>1. /\ row.link = 1 /\ row.submissions = 1 /\ 1 \in Links /\ 1 \in 1..MaxSubmissions
        /\ 0 \in 0..Throttle /\ 0 \in 0..MaxTicks /\ MaxFaults \in 0..MaxFaults /\ row.cool = 0
    BY <1>1, GuestMailAssumption DEF Init, Links
  <2>2. TypeOK
    BY <1>1, <2>1 DEF Init, TypeOK, Kinds, Idle
  <2>3. LinkOnItsWay /\ LinksBounded /\ DigestHeld
    BY <1>1, <2>1, GuestMailAssumption DEF Init, LinkOnItsWay, LinksBounded, DigestHeld, Kinds
  <2> QED BY <2>2, <2>3 DEF MailStrong
<1>2. ASSUME MailStrong, [Next]_vars PROVE MailStrong'
  <2>1. CASE UNCHANGED vars
    BY <1>2, <2>1 DEF vars, guest, noticeVars, MailStrong, TypeOK, LinkOnItsWay, LinksBounded, DigestHeld
  <2> QED BY <1>2, <2>1, MatchingStep, GalleryStep, SenderStep DEF Next
<1> QED BY <1>1, <1>2

(* The guest keeps a way in through any number of submissions, matches, mails and  *)
(* failures: the live link of a submission is in a mail or its acknowledgement is  *)
(* queued, unless an acknowledgement of it failed for good, and the gallery's      *)
(* routes hand out the same photos under every toggle                              *)
(* (notification.service.ts:44-61, 280-284, public.service.ts:250-330).            *)
THEOREM GalleryIsReachable == Spec => []GalleryReachable
<1>1. MailStrong => GalleryReachable
  BY RoutesAgree DEF MailStrong, GalleryReachable
<1> QED BY <1>1, MailInductive, PTL DEF Spec

(* Two digests are a throttle window apart unless a sender failed between the mail *)
(* and its date, however many senders the queue has (notification.service.ts:122). *)
THEOREM DigestsKeepApart == Spec => DigestsApart
<1>1. ASSUME MailStrong, [Next]_vars,
             NEW w \in MailSlots, mailer[w] = "idle", mailer'[w] = "digest"
      PROVE  quiet = 0 \/ credit < MaxFaults
  <2>t. TypeOK /\ DigestHeld /\ mailer \in [MailSlots -> {"idle", "gallery", "first", "digest"}]
    BY <1>1 DEF MailStrong, TypeOK
  <2>1. mailer' # mailer
    BY <1>1
  <2>2. PICK v \in MailSlots : SendGalleryEmail(v) \/ SendDigest(v) \/ MarkNotified(v) \/ MailFails(v)
    BY <1>1, <2>1 DEF Next, vars, noticeVars, Tick, SendSelfieReceived, ReleaseDigest, getGallery, GalleryOpened
  <2>3. SendDigest(w) /\ row.first
    BY <1>1, <2>2, <2>t DEF SendGalleryEmail, SendDigest, MarkNotified, MailFails
  <2>4. row.cool = 0 /\ digest = "waiting"
    BY <1>1, <2>3, <2>t DEF SendDigest
  <2>5. \A u \in MailSlots : mailer[u] # "digest"
    BY <2>4, <2>t DEF DigestHeld
  <2>6. credit = MaxFaults => quiet <= 0
    BY <2>4, <2>5, <2>t DEF DigestHeld
  <2>7. quiet \in 0..Throttle /\ credit \in 0..MaxFaults /\ Throttle \in Nat /\ MaxFaults \in Nat
    BY <2>t, GuestMailAssumption DEF TypeOK
  <2> QED BY <2>6, <2>7
<1>2. MailStrong /\ [Next]_vars =>
        [\A w \in MailSlots : mailer[w] = "idle" /\ mailer'[w] = "digest" =>
             quiet = 0 \/ credit < MaxFaults]_vars
  BY <1>1
<1> QED BY <1>2, MailInductive, PTL DEF Spec, DigestsApart

-----------------------------------------------------------------------------
(* The imports page *)

\* While the page is open the timer agrees with what is listed, request or not.
TimerTrue == atEvent # "" /\ ~ staleDetail => (importsTimer <=> listedBusy)

IsPath(path) ==
    /\ path[1] = RootFolder
    /\ \A i \in 2..Len(path) : path[i] # RootFolder /\ ParentOf[path[i]] = path[i - 1]

\* The crumbs are a path, and the children listed are those of its last folder.
WizardTrue ==
    /\ crumbs \in Seq(Folders) /\ Len(crumbs) > 0
    /\ ~ overtaken => IsPath(crumbs)
    /\ ~ overtaken /\ wizard /\ ~ foldersLoading => folders = currentFolder

\* A path may be left at any folder on it.
LEMMA PathBefore ==
    ASSUME NEW path \in Seq(Folders), NEW index \in 1..Len(path)
    PROVE  LET left == Append(SubSeq(path, 1, index - 1), path[index])
           IN /\ left \in Seq(Folders) /\ Len(left) = index
              /\ \A i \in 1..index : left[i] = path[i]
<1> DEFINE before == SubSeq(path, 1, index - 1)
           left == Append(before, path[index])
<1>1. before \in Seq(Folders) /\ Len(before) = index - 1 /\ \A i \in 1..(index - 1) : before[i] = path[i]
  OBVIOUS
<1>2. path[index] \in Folders
  OBVIOUS
<1> HIDE DEF before
<1>3. left \in Seq(Folders) /\ Len(left) = index /\ left[index] = path[index]
  BY <1>1, <1>2
<1>4. \A i \in 1..(index - 1) : left[i] = before[i]
  BY <1>1, <1>2
<1>5. \A i \in 1..index : left[i] = path[i]
  BY <1>1, <1>3, <1>4
<1> QED BY <1>3, <1>5 DEF before

\* A path goes on into a child of its last folder.
LEMMA PathInto ==
    ASSUME NEW path \in Seq(Folders), Len(path) > 0, NEW f \in Folders
    PROVE  /\ Append(path, f) \in Seq(Folders) /\ Len(Append(path, f)) > 0
           /\ IsPath(path) /\ f # RootFolder /\ ParentOf[f] = path[Len(path)] => IsPath(Append(path, f))
<1>1. /\ Append(path, f) \in Seq(Folders) /\ Len(Append(path, f)) = Len(path) + 1
      /\ Append(path, f)[Len(path) + 1] = f
      /\ \A i \in 1..Len(path) : Append(path, f)[i] = path[i]
  OBVIOUS
<1>2. Len(path) \in Nat \ {0}
  OBVIOUS
<1>3. ASSUME IsPath(path), f # RootFolder, ParentOf[f] = path[Len(path)]
      PROVE  IsPath(Append(path, f))
  <2> DEFINE on == Append(path, f)
  <2>1. on[1] = RootFolder
    BY <1>1, <1>2, <1>3 DEF IsPath
  <2>2. ASSUME NEW i \in 2..Len(on)
        PROVE  on[i] # RootFolder /\ ParentOf[on[i]] = on[i - 1]
    <3>1. CASE i = Len(path) + 1
      BY <1>1, <1>2, <1>3, <3>1
    <3>2. CASE i \in 2..Len(path)
      BY <1>1, <1>2, <1>3, <3>2 DEF IsPath
    <3> QED BY <1>1, <1>2, <2>2, <3>1, <3>2
  <2> QED BY <2>1, <2>2 DEF IsPath
<1> QED BY <1>1, <1>2, <1>3

\* What happens on the page, the timer after it.
LEMMA TimerStep ==
    ASSUME TimerTrue, ImportsNext
    PROVE  TimerTrue'
<1>1. ASSUME NEW e \in Parties, openImports(e)
      PROVE  TimerTrue'
  BY <1>1 DEF openImports, TimerTrue
<1>2. ASSUME NEW c \in listCalls, listAnswered(c)
      PROVE  TimerTrue'
  BY <1>2 DEF listAnswered, schedule, TimerTrue
<1>3. ASSUME NEW busy \in detailCalls, detailsShown(busy)
      PROVE  TimerTrue'
  <2>1. UNCHANGED <<atEvent, importsTimer>>
    BY <1>3 DEF detailsShown
  <2>2. CASE UNCHANGED <<listedBusy, staleDetail>>
    BY <2>1, <2>2, Zenon DEF TimerTrue
  <2>3. CASE listedBusy' = busy /\ staleDetail' = (staleDetail \/ busy # listedBusy)
    <3>1. ~ staleDetail' => ~ staleDetail /\ listedBusy' = listedBusy
      BY <2>3, Zenon
    <3> QED BY <2>1, <3>1, Zenon DEF TimerTrue
  <2> QED BY <1>3, <2>2, <2>3 DEF detailsShown
<1>4. ASSUME leaveImports
      PROVE  TimerTrue'
  BY <1>4 DEF leaveImports, TimerTrue
<1>5. ASSUME UNCHANGED <<atEvent, staleDetail, importsTimer, listedBusy>>
      PROVE  TimerTrue'
  BY <1>5, Zenon DEF TimerTrue
<1>6. ASSUME NEW c \in listCalls, listFailed(c)
      PROVE  TimerTrue'
  BY <1>5, <1>6 DEF listFailed
<1>7. ASSUME pollImports \/ toggleDetails \/ cancelImport \/ openWizard \/ closeWizard \/ startImport
      PROVE  TimerTrue'
  <2>1. UNCHANGED <<atEvent, staleDetail, importsTimer, listedBusy>>
    BY <1>7 DEF pollImports, toggleDetails, cancelImport, openWizard, closeWizard, startImport, listState
  <2> QED BY <1>5, <2>1
<1>8. ASSUME NEW c \in folderCalls, foldersListed(c) \/ foldersFailed(c)
      PROVE  TimerTrue'
  BY <1>5, <1>8 DEF foldersListed, foldersFailed, listState
<1>9. ASSUME NEW f, enterFolder(f) \/ jumpToCrumb(f) \/ ImportFinishes(f)
      PROVE  TimerTrue'
  BY <1>5, <1>9 DEF enterFolder, jumpToCrumb, ImportFinishes, listState
<1> QED BY <1>1, <1>2, <1>3, <1>4, <1>6, <1>7, <1>8, <1>9 DEF ImportsNext

\* What happens on the page, the wizard after it: folders are entered where their parent
\* is listed.
LEMMA WizardStep ==
    ASSUME WizardTrue, ImportsNext
    PROVE  WizardTrue'
<1> USE ImportsPageConstants
<1>1. ASSUME UNCHANGED wizardState
      PROVE  WizardTrue'
  BY <1>1, Zenon DEF wizardState, WizardTrue, currentFolder
<1>2. ASSUME openWizard
      PROVE  WizardTrue'
  <2>1. crumbs' = <<RootFolder>> /\ foldersLoading' = TRUE
    BY <1>2 DEF openWizard
  <2>2. /\ <<RootFolder>> \in Seq(Folders) /\ Len(<<RootFolder>>) = 1
        /\ <<RootFolder>>[1] = RootFolder /\ 2..1 = {}
    OBVIOUS
  <2> QED BY <2>1, <2>2 DEF WizardTrue, IsPath
<1>3. ASSUME NEW f \in Folders, enterFolder(f)
      PROVE  WizardTrue'
  <2>1. /\ crumbs' = Append(crumbs, f) /\ foldersLoading' = TRUE /\ UNCHANGED overtaken
        /\ wizard /\ ~ foldersLoading /\ f # RootFolder /\ ParentOf[f] = folders
    BY <1>3 DEF enterFolder, Enter
  <2>2. ~ overtaken => ParentOf[f] = crumbs[Len(crumbs)]
    BY <2>1 DEF WizardTrue, currentFolder
  <2>3. /\ crumbs' \in Seq(Folders) /\ Len(crumbs') > 0
        /\ ~ overtaken' => IsPath(crumbs')
    BY <2>1, <2>2, PathInto DEF WizardTrue
  <2> QED BY <2>1, <2>3 DEF WizardTrue, IsPath
<1>4. ASSUME NEW index \in 1..Len(crumbs), jumpToCrumb(index)
      PROVE  WizardTrue'
  <2>1. /\ crumbs' = Append(SubSeq(crumbs, 1, index - 1), crumbs[index])
        /\ foldersLoading' = TRUE /\ UNCHANGED overtaken
    BY <1>4 DEF jumpToCrumb, Enter, CrumbsBefore
  <2>2. /\ crumbs' \in Seq(Folders) /\ Len(crumbs') = index
        /\ \A i \in 1..index : crumbs'[i] = crumbs[i]
    BY <2>1, PathBefore DEF WizardTrue
  <2>3. ASSUME IsPath(crumbs)
        PROVE  IsPath(crumbs')
    <3>1. Len(crumbs) \in Nat /\ index <= Len(crumbs) /\ index >= 1 /\ index \in Nat
      BY DEF WizardTrue
    <3>2. crumbs'[1] = RootFolder
      BY <2>2, <2>3, <3>1 DEF IsPath
    <3>3. ASSUME NEW i \in 2..Len(crumbs')
          PROVE  crumbs'[i] # RootFolder /\ ParentOf[crumbs'[i]] = crumbs'[i - 1]
      <4>1. i \in 2..Len(crumbs) /\ i \in 1..index /\ i - 1 \in 1..index
        BY <2>2, <3>1, <3>3
      <4>2. crumbs'[i] = crumbs[i] /\ crumbs'[i - 1] = crumbs[i - 1]
        BY <2>2, <4>1
      <4> QED BY <2>3, <4>1, <4>2 DEF IsPath
    <3> QED BY <3>2, <3>3 DEF IsPath
  <2>4. IsPath(crumbs)' <=> IsPath(crumbs')
    BY DEF IsPath
  <2> QED BY <2>1, <2>2, <2>3, <2>4 DEF WizardTrue
<1>5. ASSUME NEW c \in folderCalls, foldersListed(c)
      PROVE  WizardTrue'
  <2>1. /\ folders' = c.folder /\ UNCHANGED <<crumbs, wizard>>
        /\ ~ overtaken' => ~ overtaken /\ c.folder = currentFolder
    BY <1>5 DEF foldersListed
  <2> QED BY <2>1 DEF WizardTrue, currentFolder, IsPath
<1>6. ASSUME NEW c \in folderCalls, foldersFailed(c)
      PROVE  WizardTrue'
  BY <1>6 DEF foldersFailed, WizardTrue, currentFolder, IsPath
<1>7. ASSUME closeWizard \/ startImport
      PROVE  WizardTrue'
  BY <1>7 DEF closeWizard, startImport, WizardTrue, currentFolder, IsPath
<1>8. ASSUME NEW e \in Parties, openImports(e) \/ ImportFinishes(e)
      PROVE  WizardTrue'
  BY <1>1, <1>8 DEF openImports, ImportFinishes
<1>9. ASSUME NEW c \in listCalls, listAnswered(c) \/ listFailed(c)
      PROVE  WizardTrue'
  BY <1>1, <1>9 DEF listAnswered, listFailed
<1>10. ASSUME pollImports \/ toggleDetails \/ cancelImport \/ leaveImports
       PROVE  WizardTrue'
  BY <1>1, <1>10 DEF pollImports, toggleDetails, cancelImport, leaveImports
<1>11. ASSUME NEW busy \in detailCalls, detailsShown(busy)
       PROVE  WizardTrue'
  BY <1>1, <1>11 DEF detailsShown
<1> QED BY <1>2, <1>3, <1>4, <1>5, <1>6, <1>7, <1>8, <1>9, <1>10, <1>11 DEF ImportsNext

\* For any events, drive and order of answers: the page polls exactly while what it lists
\* is at work, and the crumbs lead from the root to the folder that will be imported,
\* unless an answer overtook another (imports/+page.svelte:44, :67).
THEOREM ImportsPageFollows == ImportsPageSpec => []ImportsPageFits
<1>1. ImportsInit => TimerTrue /\ WizardTrue
  <2> SUFFICES ASSUME ImportsInit PROVE TimerTrue /\ WizardTrue
    OBVIOUS
  <2>1. TimerTrue
    BY DEF ImportsInit, TimerTrue
  <2>2. crumbs = <<RootFolder>> /\ ~ wizard
    BY DEF ImportsInit
  <2>3. /\ <<RootFolder>> \in Seq(Folders) /\ Len(<<RootFolder>>) = 1
        /\ <<RootFolder>>[1] = RootFolder /\ 2..1 = {}
    BY ImportsPageConstants
  <2> QED BY <2>1, <2>2, <2>3 DEF WizardTrue, IsPath
<1>2. TimerTrue /\ WizardTrue /\ [ImportsNext]_importsVars => TimerTrue' /\ WizardTrue'
  <2> SUFFICES ASSUME TimerTrue, WizardTrue, [ImportsNext]_importsVars PROVE TimerTrue' /\ WizardTrue'
    OBVIOUS
  <2>1. CASE ImportsNext
    BY <2>1, TimerStep, WizardStep
  <2>2. CASE UNCHANGED importsVars
    <3>1. UNCHANGED <<atEvent, staleDetail, importsTimer, listedBusy>> /\ UNCHANGED wizardState
      BY <2>2 DEF importsVars, wizardState
    <3>2. TimerTrue'
      BY <3>1, Zenon DEF TimerTrue
    <3>3. WizardTrue'
      BY <3>1, Zenon DEF wizardState, WizardTrue, currentFolder
    <3> QED BY <3>2, <3>3
  <2> QED BY <2>1, <2>2
<1>3. TimerTrue /\ WizardTrue => ImportsPageFits
  BY DEF TimerTrue, WizardTrue, IsPath, ImportsPageFits, WatchedWhileImporting, CrumbsArePath
<1> QED BY <1>1, <1>2, <1>3, PTL DEF ImportsPageSpec
=============================================================================
