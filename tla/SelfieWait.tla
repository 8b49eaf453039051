----------------------------- MODULE SelfieWait -----------------------------
(***************************************************************************)
(* The guest who stays on the submission page: a ticket, the server's      *)
(* answer that either follows the selfie live or sends the guest to the    *)
(* inbox, and the page's polls, which overlap when the tab is hidden and   *)
(* shown again.                                                            *)
(***************************************************************************)
EXTENDS Integers, FiniteSets

CONSTANTS Polls,           \* progress requests in flight at once
          selfiesRunHere,  \* this process runs the selfie queue itself
          TICKET_TTL, MaxClock,
          LIVE_MODE_MAX_PENDING, MaxPending,
          MaxTurnings      \* bound on hiding, showing and box changes

ASSUME SelfieWaitConstants ==
    /\ selfiesRunHere \in BOOLEAN
    /\ {TICKET_TTL, MaxClock, LIVE_MODE_MAX_PENDING, MaxPending, MaxTurnings} \subseteq Nat

VARIABLES
    standing,   \* the participant: "none", "processing", "settled", "removed"
    selfieJob,  \* "none", "waiting", "active", "delayed" (a retry), "failed", "done"
    ahead,      \* waiting jobs before it
    online, pending,
    clock,      \* since the ticket was issued
    poll,       \* [stage, status, answer] of each request
    progress,   \* what the page shows
    pollTimers, \* timeouts that will poll again
    mounted, visible, turnings,
    midway      \* history: the page was left with a request on its way

waitVars == <<standing, selfieJob, ahead, online, pending, clock, poll, progress, pollTimers, mounted, visible, turnings, midway>>
serverVars == <<standing, selfieJob, ahead, online, pending, clock>>

Email == [mode |-> "email"]
NotAsked == [mode |-> "none"]
Live(status, position) == [mode |-> "live", status |-> status, position |-> position]
NoPoll == [stage |-> "idle", status |-> "none", answer |-> NotAsked]

(***************************************************************************)
(* The server.                                                             *)
(***************************************************************************)
\* getWaitingPosition: 0 for the code's null, whether it runs, waits for a retry or failed.
Position == IF selfieJob = "waiting" THEN ahead + 1 ELSE 0

\* The first read: the ticket, and the participant as they are now.
ReadParticipant(p) ==
    /\ poll[p].stage = "asked"
    /\ poll' = [poll EXCEPT ![p] =
                   IF clock > TICKET_TTL \/ standing = "removed"
                   THEN [stage |-> "answered", status |-> "none", answer |-> Email]
                   ELSE IF standing # "processing"
                   THEN [stage |-> "answered", status |-> standing, answer |-> Live(standing, 0)]
                   ELSE [stage |-> "read", status |-> standing, answer |-> NotAsked]]
    /\ UNCHANGED <<serverVars, progress, pollTimers, mounted, visible, turnings, midway>>

\* Then the box, whose sleep or load sends the guest to the inbox, and the place in line.
getProgress(p) ==
    /\ poll[p].stage = "read"
    /\ poll' = [poll EXCEPT ![p].stage = "answered",
                            ![p].answer = IF ~ selfiesRunHere /\ (~ online \/ pending > LIVE_MODE_MAX_PENDING)
                                          THEN Email ELSE Live(poll[p].status, Position)]
    /\ UNCHANGED <<serverVars, progress, pollTimers, mounted, visible, turnings, midway>>

(***************************************************************************)
(* The page.                                                               *)
(***************************************************************************)
Asked == \E q \in Polls : poll[q] # NoPoll
Ask(p) == poll[p] = NoPoll /\ poll' = [poll EXCEPT ![p].stage = "asked"]

submit(p) ==
    /\ standing = "none" /\ mounted
    /\ standing' = "processing" /\ selfieJob' = "waiting" /\ Ask(p)
    /\ UNCHANGED <<ahead, online, pending, clock, progress, pollTimers, mounted, visible, turnings, midway>>

\* stopPolling, then one timer if there is something left to watch and someone watching.
schedulePoll(shown) == IF shown.mode = "live" /\ shown.status = "processing" /\ visible THEN 1 ELSE 0

\* A request that fails counts as the inbox.
pollProgress(p) ==
    /\ poll[p].stage # "idle"
    /\ \E shown \in {Email} \cup (IF poll[p].stage = "answered" THEN {poll[p].answer} ELSE {}) :
           progress' = shown /\ pollTimers' = schedulePoll(shown)
    /\ poll' = [poll EXCEPT ![p] = NoPoll]
    /\ UNCHANGED <<serverVars, mounted, visible, turnings, midway>>

timerFires(p) ==
    /\ pollTimers > 0 /\ pollTimers' = pollTimers - 1 /\ Ask(p)
    /\ UNCHANGED <<serverVars, progress, mounted, visible, turnings, midway>>

Turning == turnings < MaxTurnings /\ turnings' = turnings + 1

\* Mutant: coming back waits for the timer that hiding cleared.
ComesBackQuietly(p) ==
    /\ ~ visible /\ Turning /\ visible' = TRUE
    /\ UNCHANGED <<serverVars, poll, progress, pollTimers, mounted, midway>>

\* Back in view: read at once.  The listener lives as long as the page.
showTab(p) ==
    /\ ~ visible /\ Turning /\ visible' = TRUE
    /\ IF mounted /\ standing # "none" THEN Ask(p) ELSE UNCHANGED poll
    /\ UNCHANGED <<serverVars, progress, pollTimers, mounted, midway>>

hideTab ==
    /\ visible /\ Turning /\ visible' = FALSE
    /\ pollTimers' = IF mounted THEN 0 ELSE pollTimers
    /\ UNCHANGED <<serverVars, poll, progress, mounted, midway>>

\* onDestroy: the timer and the listener end; an answer on its way is still applied.
leavePage ==
    /\ mounted /\ mounted' = FALSE /\ pollTimers' = 0 /\ midway' = Asked
    /\ UNCHANGED <<serverVars, poll, progress, visible, turnings>>

(***************************************************************************)
(* The selfie's way, as Selfies models it in full, and the box.            *)
(***************************************************************************)
JobMoves ==
    /\ \/ selfieJob = "waiting" /\ ahead > 0 /\ ahead' = ahead - 1 /\ UNCHANGED <<standing, selfieJob>>
       \/ selfieJob = "waiting" /\ ahead = 0 /\ selfieJob' = "active" /\ UNCHANGED <<standing, ahead>>
       \/ selfieJob = "active" /\ selfieJob' \in {"delayed", "failed"} /\ UNCHANGED <<standing, ahead>>
       \/ selfieJob = "active" /\ selfieJob' = "done" /\ standing' = "settled" /\ UNCHANGED ahead
       \/ selfieJob = "delayed" /\ selfieJob' = "waiting" /\ UNCHANGED <<standing, ahead>>
       \/ standing # "none" /\ standing' = "removed" /\ UNCHANGED <<selfieJob, ahead>>
    /\ UNCHANGED <<online, pending, clock, poll, progress, pollTimers, mounted, visible, turnings, midway>>

BoxMoves ==
    /\ Turning
    /\ \/ online' = ~ online /\ UNCHANGED pending
       \/ \E n \in 0..MaxPending : n # pending /\ pending' = n /\ UNCHANGED online
    /\ UNCHANGED <<standing, selfieJob, ahead, clock, poll, progress, pollTimers, mounted, visible, midway>>

ClockTicks ==
    /\ standing # "none" /\ clock < MaxClock /\ clock' = clock + 1
    /\ UNCHANGED <<standing, selfieJob, ahead, online, pending, poll, progress, pollTimers, mounted, visible, turnings, midway>>

-----------------------------------------------------------------------------
SelfieWaitInit ==
    /\ standing = "none" /\ selfieJob = "none" /\ ahead \in 0..1 /\ online \in BOOLEAN /\ pending = 0 /\ clock = 0
    /\ poll = [p \in Polls |-> NoPoll] /\ progress = NotAsked /\ pollTimers = 0
    /\ mounted = TRUE /\ visible = TRUE /\ turnings = 0 /\ midway = FALSE

SelfieWaitNext ==
    \/ \E p \in Polls : \/ submit(p) \/ ReadParticipant(p) \/ getProgress(p) \/ pollProgress(p)
                        \/ timerFires(p) \/ showTab(p)
    \/ hideTab \/ leavePage \/ JobMoves \/ BoxMoves \/ ClockTicks

SelfieWaitSpec == SelfieWaitInit /\ [][SelfieWaitNext]_waitVars

-----------------------------------------------------------------------------
(* Nobody watches a dead spinner: while the page says the selfie is being         *)
(* processed and its tab is in view, it has a request on its way or a timer that  *)
(* will send one, whatever hiding, showing and overlapping answers came before.   *)
SpinnerIsWatched ==
    mounted /\ visible /\ progress.mode = "live" /\ progress.status = "processing" => Asked \/ pollTimers > 0

(* One pace, and quiet when nobody watches: two answers never leave two timers, a  *)
(* hidden tab has none, and a page left with no request on its way sends no other. *)
(* Left with one, it may poll on, for nothing stops the timer its answer sets      *)
(* (e/[slug]/+page.svelte:47-66, 138-143).                                         *)
HiddenTabIsQuiet ==
    /\ pollTimers <= 1
    /\ mounted /\ ~ visible => pollTimers = 0
    /\ ~ mounted /\ ~ midway => pollTimers = 0 /\ ~ Asked
=============================================================================
