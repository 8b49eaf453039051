------------------------------ MODULE MailLog ------------------------------
(***************************************************************************)
(* What the email log says of a message: sending it, the provider's        *)
(* webhooks that arrive late, twice and out of order, and the support      *)
(* tickets whose mail is only a notice on top of the stored row.           *)
(***************************************************************************)
EXTENDS Integers, FiniteSets, Sequences

CONSTANTS Mails,      \* email_log rows
          Tickets,    \* support submissions
          TOLERANCE,  \* TOLERANCE_SECONDS: how far a webhook's timestamp may be off
          MaxReports  \* provider events per message

ASSUME MailLogConstants == MaxReports \in Nat /\ TOLERANCE \in Nat /\ IsFiniteSet(Tickets)

\* The provider's history of an accepted message, by occurrence: delivered, then
\* perhaps bounced late or complained about; opened or clicked are ignored.
Reports == {"delivered", "bounced", "complained", "failed", "opened"}

STATUS_BY_EVENT == {"delivered", "bounced", "complained", "failed"}

VARIABLES
    mail,     \* [state: the sender's step, status, at: statusAt (0 null), known: messageId stored]
    history,  \* the provider's events of each message, oldest first
    seen,     \* positions in it that a webhook delivered after the id was stored
    ticket    \* [step, stored, status, resolved, mailed]

mailVars == <<mail, history, seen, ticket>>

(***************************************************************************)
(* Sending.                                                                *)
(***************************************************************************)
send(m) ==
    /\ mail[m].state = "new"
    /\ mail' = [mail EXCEPT ![m].state = "logged", ![m].status = "queued"]
    /\ UNCHANGED <<history, seen, ticket>>

\* The provider accepts the message; its answer may be lost to the timeout.
sendEmail(m) ==
    /\ mail[m].state = "logged"
    /\ \E step \in {"accepted", "unanswered", "refused"} : mail' = [mail EXCEPT ![m].state = step]
    /\ UNCHANGED <<history, seen, ticket>>

\* Mutant: the row is reset whole, the provider's time included.
ResetsRow(m) == [mail[m] EXCEPT !.status = "sent", !.known = TRUE, !.at = 0, !.state = "logged"]

SentRow(m) == [mail[m] EXCEPT !.status = "sent", !.known = TRUE, !.state = "done"]

markSent(m) ==
    /\ mail[m].state = "accepted"
    /\ mail' = [mail EXCEPT ![m] = SentRow(m)]
    /\ UNCHANGED <<history, seen, ticket>>

\* The provider refused or did not answer, or the log could not be updated.
markFailed(m) ==
    /\ mail[m].state \in {"accepted", "unanswered", "refused"}
    /\ mail' = [mail EXCEPT ![m].status = "failed", ![m].state = "done"]
    /\ UNCHANGED <<history, seen, ticket>>

Accepted(m) == mail[m].state \in {"accepted", "unanswered"} \/ mail[m].known

(***************************************************************************)
(* Webhooks.                                                               *)
(***************************************************************************)
Report(m, event) ==
    /\ Accepted(m) /\ Len(history[m]) < MaxReports
    /\ history' = [history EXCEPT ![m] = Append(@, event)]
    /\ UNCHANGED <<mail, seen, ticket>>

\* Mutant: the last webhook to arrive wins.
LastArrivalWins(m, i) == [mail[m] EXCEPT !.status = history[m][i], !.at = i]

applyProviderStatus(m, i) ==
    IF mail[m].at < i THEN [mail[m] EXCEPT !.status = history[m][i], !.at = i] ELSE mail[m]

\* A request as its headers describe it: how far its timestamp is from the clock,
\* in either direction, and the versions of the signatures that match the secret.
Deliveries == [drift : -(TOLERANCE + 1)..(TOLERANCE + 1), signed : SUBSET {"v1", "v2"}]

verifySvixSignature(r) == r.drift \in -TOLERANCE..TOLERANCE /\ "v1" \in r.signed

\* Any event, any number of times, in any order; a request that does not verify is
\* refused, and one of an unknown message is answered with success, so the provider
\* never sends it again.
resend(m, i, r) ==
    /\ i \in DOMAIN history[m] /\ mail[m].known
    /\ verifySvixSignature(r)
    /\ IF history[m][i] \in STATUS_BY_EVENT
       THEN mail' = [mail EXCEPT ![m] = applyProviderStatus(m, i)] /\ seen' = [seen EXCEPT ![m] = @ \cup {i}]
       ELSE UNCHANGED <<mail, seen>>
    /\ UNCHANGED <<history, ticket>>

(***************************************************************************)
(* Support tickets.                                                        *)
(***************************************************************************)
\* createForOrg and createPublic: the row first ...
createTicket(t) ==
    /\ ticket[t].step = "new"
    /\ ticket' = [ticket EXCEPT ![t].step = "stored", ![t].stored = TRUE, ![t].status = "open"]
    /\ UNCHANGED <<mail, history, seen>>

MayNotify(t) == ticket[t].step = "stored"

\* ... then the mail, whose failure (or missing address) is only logged.
notify(t) ==
    /\ MayNotify(t)
    /\ \E sent \in BOOLEAN : ticket' = [ticket EXCEPT ![t].step = "answered", ![t].mailed = sent]
    /\ UNCHANGED <<mail, history, seen>>

setStatus(t, status) ==
    /\ ticket[t].stored /\ ticket[t].status # status
    /\ ticket' = [ticket EXCEPT ![t].status = status, ![t].resolved = (status = "resolved")]
    /\ UNCHANGED <<mail, history, seen>>

countOpen == Cardinality({t \in Tickets : ticket[t].status = "open"})

-----------------------------------------------------------------------------
MailLogInit ==
    /\ mail = [m \in Mails |-> [state |-> "new", status |-> "none", at |-> 0, known |-> FALSE]]
    /\ history = [m \in Mails |-> <<>>]
    /\ seen = [m \in Mails |-> {}]
    /\ ticket = [t \in Tickets |-> [step |-> "new", stored |-> FALSE, status |-> "none", resolved |-> FALSE,
                                    mailed |-> FALSE]]

MailLogNext ==
    \/ \E m \in Mails :
           \/ send(m) \/ sendEmail(m) \/ markSent(m) \/ markFailed(m)
           \/ \E event \in Reports : Report(m, event)
           \/ \E i \in 1..MaxReports, r \in Deliveries : resend(m, i, r)
    \/ \E t \in Tickets : createTicket(t) \/ notify(t) \/ \E s \in {"open", "resolved"} : setStatus(t, s)

MailLogSpec == MailLogInit /\ [][MailLogNext]_mailVars

-----------------------------------------------------------------------------
(* The log tells the latest news: of the webhooks that arrived for a message, in  *)
(* whatever order and however often, the one that happened last decides, and a    *)
(* message that was never reported on stays sent.                                 *)
LatestNewsWins ==
    \A m \in Mails : mail[m].known =>
        IF seen[m] = {} THEN mail[m].status = "sent"
        ELSE \E i \in seen[m] : /\ \A j \in seen[m] : j <= i
                                /\ mail[m].status = history[m][i]

(* A ticket never depends on mail: what was mailed or answered is in the inbox,   *)
(* so the count of open ones leaves none out.                                     *)
TicketOutlivesMail ==
    /\ \A t \in Tickets : ticket[t].mailed \/ ticket[t].step = "answered" => ticket[t].stored
    /\ countOpen + Cardinality({t \in Tickets : ticket[t].resolved})
         >= Cardinality({t \in Tickets : ticket[t].step # "new"})

(* Mail and its log: the latest webhook decides what the log says, in whatever order *)
(* they come, and a ticket is stored whatever becomes of its mail                    *)
(* (email-log.repository.ts:53, support.service.ts:44-54).                           *)
MailLogTrue == LatestNewsWins /\ TicketOutlivesMail
=============================================================================
