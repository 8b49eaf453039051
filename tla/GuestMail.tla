----------------------------- MODULE GuestMail -----------------------------
(***************************************************************************)
(* What one guest is sent and shown: services/notification.service.ts, the *)
(* gallery half of services/public.service.ts and the organiser's resend.  *)
(* Rows and jobs of different guests never meet, so there is one of each.  *)
(* Matches come from the handlers of module Selfies, here by their effect. *)
(***************************************************************************)
EXTENDS Integers, FiniteSets

CONSTANTS
    Photos,
    Matchers,        \* handlers that may be matching the guest at once
    MailSlots,       \* QUEUE_CONCURRENCY of the Notification queue
    Throttle,        \* DIGEST_THROTTLE_MS, in clock ticks
    MaxSubmissions,  \* the e-mail limiter's submissions a day
    MaxResends,      \* bound: links an organiser regenerates
    MaxTicks,        \* bound on the clock
    MaxFaults        \* bound: failed sends and crashed senders

ASSUME GuestMailAssumption ==
    /\ Throttle \in Nat \ {0} /\ MaxSubmissions \in Nat \ {0}
    /\ MaxResends \in Nat /\ MaxTicks \in Nat /\ MaxFaults \in Nat

VARIABLES
    row,      \* the participant row, with histories of its link: resent by the organiser,
              \* and lost, an acknowledgement of it having failed on its last attempt
    matches,  \* its participant_match rows
    fresh,    \* those made after lastNotifiedAt
    matching, \* handlers between their read of the row, the insert and the notice
    opening,  \* what getGallery has read and is about to write
    waiting,  \* jobs in the Notification queue
    digest,   \* the job with id digest-<participant>: a failed one keeps its id
    mailer,   \* notification handlers that have sent and not yet recorded
    sent,     \* the live link is in a mail
    quiet,    \* ticks left of a throttle window after a digest
    ticks, credit

guest == <<row, matches, fresh>>
noticeVars == <<waiting, digest, mailer, sent, quiet>>
vars == <<guest, matching, opening, noticeVars, ticks, credit>>

Links == 1..(MaxSubmissions + MaxResends)
Kinds == {"received", "gallery"}
Idle == [pc |-> "idle", by |-> "selfie", first |-> FALSE, new |-> FALSE]

\* The guest's row and the mails on their way have their types, and what is fresh for
\* the next mail is among the matches (notification.service.ts:118-148).
TypeOK ==
    /\ row \in [link : Links, submissions : 1..MaxSubmissions, awaiting : BOOLEAN,
                status : {"processing", "pending_match", "matched", "no_face"},
                first : BOOLEAN, resent : BOOLEAN, lost : BOOLEAN, cool : 0..Throttle]
    /\ matches \subseteq Photos /\ fresh \subseteq matches
    /\ matching \in [Matchers -> [pc : {"idle", "match", "settle"}, first : BOOLEAN,
                                  by : {"selfie", "matcher"}, new : BOOLEAN]]
    /\ opening \in BOOLEAN
    /\ waiting \in [Kinds -> Nat]
    /\ digest \in {"none", "waiting", "active", "failed"}
    /\ mailer \in [MailSlots -> {"idle", "gallery", "first", "digest"}]
    /\ sent \in BOOLEAN
    /\ quiet \in 0..Throttle /\ ticks \in 0..MaxTicks /\ credit \in 0..MaxFaults

Queue(kind) == waiting' = [waiting EXCEPT ![kind] = @ + 1]

-----------------------------------------------------------------------------
(* A submission, and the matching it starts *)

\* The upsert of a resubmission, and the acknowledgement it queues.
ForgetsMail ==
    /\ row.submissions < MaxSubmissions
    /\ row' = [row EXCEPT !.submissions = @ + 1, !.status = "processing",
                          !.awaiting = FALSE, !.link = @ + 1, !.resent = FALSE, !.lost = FALSE]
    /\ sent' = FALSE
    /\ UNCHANGED <<matches, fresh, matching, digest, waiting>>
Resubmit ==
    /\ row.submissions < MaxSubmissions
    /\ row' = [row EXCEPT !.submissions = @ + 1, !.status = "processing",
                          !.awaiting = FALSE, !.link = @ + 1, !.resent = FALSE, !.lost = FALSE]
    /\ sent' = FALSE
    /\ Queue("received")
    /\ UNCHANGED <<matches, fresh, matching, digest>>

StartMatching(m) ==
    /\ matching[m].pc = "idle"
    /\ \E by \in {"selfie", "matcher"} :
         matching' = [matching EXCEPT ![m] =
            [pc |-> "match", by |-> by, first |-> row.first, new |-> FALSE]]
    /\ UNCHANGED <<guest, waiting, digest, sent>>
InsertMatches(m) ==
    /\ matching[m].pc = "match"
    /\ \E P \in SUBSET Photos :
         /\ matches' = matches \cup P
         /\ fresh' = fresh \cup (P \ matches)
         /\ matching' = [matching EXCEPT ![m].pc = "settle", ![m].new = ~(P \subseteq matches)]
    /\ UNCHANGED <<row, waiting, digest, sent>>
\* The status, and the notice chosen by what the row said at the start.
SettleMatch(m) ==
    /\ matching[m].pc = "settle"
    /\ row' = [row EXCEPT !.status = IF matches # {} THEN "matched" ELSE "pending_match"]
    /\ \/ ~matching[m].new /\ UNCHANGED <<waiting, digest>>
       \/ /\ matching[m].new /\ matching[m].by = "matcher" /\ matching[m].first
          /\ digest' = IF digest = "none" THEN "waiting" ELSE digest
          /\ UNCHANGED waiting
       \/ /\ matching[m].new /\ ~(matching[m].by = "matcher" /\ matching[m].first)
          /\ Queue("gallery") /\ UNCHANGED digest
    /\ matching' = [matching EXCEPT ![m] = Idle]
    /\ UNCHANGED <<matches, fresh, sent>>
\* The mail it queues links to the event and not to a gallery: it meets nothing here.
NoFace ==
    /\ row.status = "processing"
    /\ row' = [row EXCEPT !.status = "no_face"]
    /\ UNCHANGED <<matches, fresh, matching, waiting, digest, sent>>

resend ==
    /\ row.link < MaxResends + row.submissions
    /\ row' = [row EXCEPT !.link = @ + 1, !.resent = TRUE, !.lost = FALSE]
    /\ sent' = FALSE
    /\ Queue("gallery")
    /\ UNCHANGED <<matches, fresh, matching, digest>>

-----------------------------------------------------------------------------
(* The gallery *)

\* A mailed link that is still the row's resolves. The flag for the later notice
\* is decided from the row as read, and written after it.
getGallery ==
    /\ sent /\ ~opening
    /\ row.status \in {"processing", "pending_match"} /\ ~row.awaiting
    /\ opening' = TRUE
    /\ UNCHANGED row
GalleryOpened ==
    /\ opening
    /\ row' = [row EXCEPT !.awaiting = TRUE]
    /\ opening' = FALSE

\* What the routes hand out under the organiser's toggles, with `deleted` the
\* photos deleted meanwhile: the page's own list, a photo's faces, a download,
\* and a zip of everything or of a choice.
getMatchedAssets(deleted) == matches \ deleted
getEventGallery(see, deleted) == IF see THEN Photos \ deleted ELSE {}
assertViewable(see, deleted) == matches \cup getEventGallery(see, deleted)
assertDownloadable(see, all, deleted) ==
    matches \cup (IF see /\ all THEN Photos \ deleted ELSE {})
getGalleryDownloadUrl(see, all, deleted) == assertDownloadable(see, all, deleted) \ deleted
streamGalleryZip(see, all, chosen, deleted) ==
    IF chosen = {} THEN getMatchedAssets(deleted)
    ELSE IF chosen \subseteq assertDownloadable(see, all, deleted) THEN chosen \ deleted
    ELSE {}

-----------------------------------------------------------------------------
(* notification.service *)

\* An attempt that throws leaves the job to the next one, and the last of them for
\* good; one that died after the mail was out is run again and mails once more.
SendSelfieReceived ==
    /\ waiting["received"] > 0
    /\ \/ /\ sent' = TRUE /\ UNCHANGED row
          /\ waiting' \in {waiting, [waiting EXCEPT !["received"] = @ - 1]}
       \/ /\ row' = [row EXCEPT !.lost = TRUE] /\ UNCHANGED sent
          /\ waiting' = [waiting EXCEPT !["received"] = @ - 1]
    /\ UNCHANGED <<fresh, digest, mailer, quiet, credit>>

\* Only for those who opened the link while it said "processing".
EarnsGalleryEmail == matches # {} /\ row.awaiting
SendGalleryEmail(w) ==
    /\ mailer[w] = "idle" /\ waiting["gallery"] > 0
    /\ waiting' = [waiting EXCEPT !["gallery"] = @ - 1]
    /\ \/ /\ EarnsGalleryEmail
          /\ mailer' = [mailer EXCEPT ![w] = "gallery"] /\ sent' = TRUE
       \/ UNCHANGED <<mailer, sent>>   \* not earned, or its last attempt threw
    /\ UNCHANGED <<row, fresh, digest, quiet, credit>>

\* Throttled, or with nothing new, a digest is skipped and not delayed.
FreesIdEarly(w) ==
    /\ mailer[w] = "idle" /\ digest = "waiting"
    /\ row.first /\ row.cool = 0 /\ fresh # {}
    /\ mailer' = [mailer EXCEPT ![w] = "digest"]
    /\ digest' = "none" /\ quiet' = Throttle
    /\ sent' = TRUE
    /\ UNCHANGED <<row, fresh, waiting, credit>>
SendDigest(w) ==
    LET kind == IF row.first THEN "digest" ELSE "first"
        earned == IF row.first THEN row.cool = 0 /\ fresh # {} ELSE EarnsGalleryEmail
    IN /\ mailer[w] = "idle" /\ digest = "waiting"
       /\ \/ /\ earned
             /\ mailer' = [mailer EXCEPT ![w] = kind]
             /\ digest' = "active"
             /\ sent' = TRUE
             /\ quiet' = IF kind = "digest" THEN Throttle ELSE quiet
          \/ /\ digest' = IF earned THEN "failed" ELSE "none"   \* its last attempt threw
             /\ UNCHANGED <<mailer, sent, quiet>>
       /\ UNCHANGED <<row, fresh, waiting, credit>>

\* The mail is out: its date is written, and the finished job frees its id.
MarkNotified(w) ==
    /\ mailer[w] # "idle"
    /\ row' = IF mailer[w] = "digest" THEN [row EXCEPT !.cool = Throttle]
              ELSE [row EXCEPT !.first = TRUE, !.cool = Throttle, !.awaiting = FALSE]
    /\ fresh' = {}
    /\ digest' = IF mailer[w] = "gallery" THEN digest ELSE "none"
    /\ mailer' = [mailer EXCEPT ![w] = "idle"]
    /\ UNCHANGED <<waiting, sent, quiet, credit>>

\* The provider took the mail and the handler failed or died before it had
\* recorded so: the job runs again, or ends as failed.
MailFails(w) ==
    /\ mailer[w] # "idle" /\ credit > 0
    /\ IF mailer[w] = "gallery" THEN (Queue("gallery") \/ UNCHANGED waiting) /\ UNCHANGED digest
       ELSE digest' \in {"waiting", "failed"} /\ UNCHANGED waiting
    /\ mailer' = [mailer EXCEPT ![w] = "idle"]
    /\ credit' = credit - 1
    /\ UNCHANGED <<row, fresh, sent, quiet>>

\* An administrator retries or clears the failed jobs.
ReleaseDigest ==
    /\ digest = "failed"
    /\ digest' \in {"waiting", "none"}
    /\ UNCHANGED <<row, fresh, waiting, mailer, sent, quiet, credit>>

Tick ==
    /\ ticks < MaxTicks
    /\ ticks' = ticks + 1
    /\ row' = [row EXCEPT !.cool = IF @ > 0 THEN @ - 1 ELSE 0]
    /\ quiet' = IF quiet > 0 THEN quiet - 1 ELSE 0
    /\ UNCHANGED <<matches, fresh, matching, opening, waiting, digest, mailer,
                   sent, credit>>

-----------------------------------------------------------------------------

Init ==
    /\ row = [link |-> 1, submissions |-> 1, awaiting |-> FALSE, status |-> "processing",
              first |-> FALSE, resent |-> FALSE, lost |-> FALSE, cool |-> 0]
    /\ matches = {} /\ fresh = {}
    /\ matching = [m \in Matchers |-> Idle]
    /\ opening = FALSE
    /\ waiting = [k \in Kinds |-> IF k = "received" THEN 1 ELSE 0]
    /\ digest = "none"
    /\ mailer = [w \in MailSlots |-> "idle"]
    /\ sent = FALSE /\ quiet = 0 /\ ticks = 0 /\ credit = MaxFaults

Next ==
    \/ /\ \/ Resubmit \/ NoFace \/ resend
          \/ \E m \in Matchers : StartMatching(m) \/ InsertMatches(m) \/ SettleMatch(m)
       /\ UNCHANGED <<opening, mailer, quiet, ticks, credit>>
    \/ /\ getGallery \/ GalleryOpened 
       /\ UNCHANGED <<matches, fresh, matching, noticeVars, ticks, credit>>
    \/ /\ \/ SendSelfieReceived \/ ReleaseDigest
          \/ \E w \in MailSlots :
               SendGalleryEmail(w) \/ SendDigest(w) \/ MarkNotified(w) \/ MailFails(w)
       /\ UNCHANGED <<matches, matching, opening, ticks>>
    \/ Tick

Spec == Init /\ [][Next]_vars

-----------------------------------------------------------------------------
(* Properties *)

\* Two digests are a throttle window apart unless a sender failed between the
\* mail and its date: the fixed job id keeps a second one from being sent while
\* the first has not recorded itself.
DigestsApart ==
    [][\A w \in MailSlots : mailer[w] = "idle" /\ mailer'[w] = "digest" =>
         quiet = 0 \/ credit < MaxFaults]_vars

\* Whatever the toggles, what can be downloaded can be viewed, the page's own
\* photos can be downloaded, no deleted photo is handed out, and a zip holds
\* nothing that one download at a time would refuse.
GalleryConsistent ==
    \A see, all \in BOOLEAN, deleted \in SUBSET Photos :
        LET single == getGalleryDownloadUrl(see, all, deleted)
        IN /\ single \subseteq assertViewable(see, deleted) \ deleted
           /\ getMatchedAssets(deleted) \subseteq single
           /\ \A chosen \in SUBSET Photos :
                streamGalleryZip(see, all, chosen, deleted) \subseteq single

\* The live link of a submission is in a mail or its acknowledgement is queued,
\* whatever matching, the other notices and their failures do meanwhile - or the
\* last attempt of an acknowledgement threw with that very link in hand, and nothing
\* sends it again (notification.service.ts:44-61, 280-284). (A link the organiser's
\* resend made is not: its mail is skipped like any other that the guest does not
\* wait for.)
LinkOnItsWay ==
    row.resent \/ row.lost \/ sent \/ waiting["received"] > 0

\* The guest keeps a way in, and it shows what it should: a live link is mailed or on
\* its way but for an acknowledgement that failed for good, and what a gallery lets
\* download it lets see (notification.service.ts:44-61, public.service.ts:250-330).
GalleryReachable == TypeOK /\ GalleryConsistent /\ LinkOnItsWay
=============================================================================
