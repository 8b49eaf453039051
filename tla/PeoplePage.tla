----------------------------- MODULE PeoplePage -----------------------------
(***************************************************************************)
(* The people page of an event and the merges it asks the server for.  The *)
(* component is reused when the event changes; answers and merges on their  *)
(* way may belong to the event left behind.  A person on it opens the page   *)
(* of that person, PersonPage; the two share no variable and stand side by   *)
(* side at the end.                                                         *)
(***************************************************************************)
EXTENDS PersonPage, FiniteSets

CONSTANTS Galleries,    \* events
          Clusters,     \* people
          EventOf,      \* the event of each
          MaxMoves      \* bound on what the user does

ASSUME PeoplePageConstants == EventOf \in [Clusters -> Galleries] /\ MaxMoves \in Nat

Nobody == "none"

VARIABLES
    alive,          \* people in the database
    facesOf,        \* whose faces each person holds: every cluster's faces go somewhere
    busyEvents,     \* events whose photos still wait for detection
    onPage,         \* eventId, Nobody once the page is left
    people,         \* the list on screen
    processing,     \* what the page knows: unfinished or not
    picked, mergeTargetId,
    polling,        \* timer
    refreshes,      \* refreshes under way: [event, number]
    merges,         \* merges under way: [event, target, others]
    moves

peopleVars == <<alive, facesOf, busyEvents, onPage, people, processing, picked, mergeTargetId, polling, refreshes, merges, moves>>
databaseVars == <<alive, facesOf, busyEvents>>
peopleScreen == <<people, processing, picked, mergeTargetId, polling>>

Move == onPage # Nobody /\ moves < MaxMoves /\ moves' = moves + 1

AskedFor(e) == refreshes \cup {[event |-> e, number |-> moves]}

\* The effect: everything of the event left behind is cleared, the timer too.
openPeople(e) ==
    /\ Move /\ e # onPage /\ onPage' = e
    /\ people' = {} /\ processing' = FALSE /\ picked' = {} /\ polling' = FALSE
    /\ refreshes' = AskedFor(e)
    /\ UNCHANGED <<databaseVars, mergeTargetId, merges>>

schedulePeoplePolling(r, busy) == polling' = busy

\* An answer is shown whoever asked, and the timer set or cleared by it.
peopleRefreshed(r) ==
    /\ r \in refreshes /\ refreshes' = refreshes \ {r}
    /\ people' = {c \in alive : EventOf[c] = r.event}
    /\ processing' = (r.event \in busyEvents)
    /\ schedulePeoplePolling(r, r.event \in busyEvents)
    /\ UNCHANGED <<databaseVars, onPage, picked, mergeTargetId, merges, moves>>

refreshFails(r) ==
    /\ r \in refreshes /\ refreshes' = refreshes \ {r}
    /\ UNCHANGED <<databaseVars, onPage, peopleScreen, merges, moves>>

\* The timer asks again and again; one request at a time is enough to look at.
pollPeople ==
    /\ polling /\ refreshes = {} /\ onPage # Nobody
    /\ refreshes' = AskedFor(onPage)
    /\ UNCHANGED <<databaseVars, onPage, peopleScreen, merges, moves>>

togglePick(c) ==
    /\ Move /\ c \in people
    /\ picked' = IF c \in picked THEN picked \ {c} ELSE picked \cup {c}
    /\ mergeTargetId' = IF mergeTargetId \in picked' THEN mergeTargetId ELSE Nobody
    /\ UNCHANGED <<databaseVars, onPage, people, processing, polling, refreshes, merges>>

chooseTarget(c) ==
    /\ Move /\ c \in picked \cap people /\ mergeTargetId' = c
    /\ UNCHANGED <<databaseVars, onPage, people, processing, picked, polling, refreshes, merges>>

exitMerge ==
    /\ picked' = {} /\ mergeTargetId' = Nobody

cancelMerge ==
    /\ Move /\ exitMerge
    /\ UNCHANGED <<databaseVars, onPage, people, processing, polling, refreshes, merges>>

\* The target is one of the picked that are still listed; the others go as they were picked.
confirmMerge(c) ==
    /\ Move /\ merges = {} /\ Cardinality(picked) > 1 /\ mergeTargetId # Nobody
    /\ c \in picked \cap people /\ (mergeTargetId \in picked \cap people => c = mergeTargetId)
    /\ merges' = {[event |-> onPage, target |-> c, others |-> picked \ {c}]}
    /\ UNCHANGED <<databaseVars, onPage, peopleScreen, refreshes>>

\* merge looks every person up in the event it was asked for.
Mergeable(e, target, others) == \A c \in {target} \cup others : c \in alive /\ EventOf[c] = e

\* The faces move, the sources go, and the page leaves merge mode and refreshes.
mergeDone(m) ==
    /\ Mergeable(m.event, m.target, m.others)
    /\ facesOf' = [c \in Clusters |->
           IF c = m.target THEN UNION {facesOf[o] : o \in m.others \cup {c}}
           ELSE IF c \in m.others THEN {} ELSE facesOf[c]]
    /\ alive' = alive \ m.others
    /\ merges' = merges \ {m} /\ exitMerge
    /\ refreshes' = IF onPage = Nobody THEN refreshes ELSE AskedFor(onPage)
    /\ UNCHANGED <<busyEvents, onPage, people, processing, polling, moves>>

mergeRefused(m) ==
    /\ ~ Mergeable(m.event, m.target, m.others)
    /\ merges' = merges \ {m}
    /\ UNCHANGED <<databaseVars, onPage, peopleScreen, refreshes, moves>>

\* The timer is cleared with the component.
leavePeople ==
    /\ onPage # Nobody /\ onPage' = Nobody /\ polling' = FALSE
    /\ UNCHANGED <<databaseVars, people, processing, picked, mergeTargetId, refreshes, merges, moves>>

\* Detection ends for an event, or new photos arrive.
DetectionTurns(e) ==
    /\ moves < MaxMoves /\ moves' = moves + 1
    /\ busyEvents' = IF e \in busyEvents THEN busyEvents \ {e} ELSE busyEvents \cup {e}
    /\ UNCHANGED <<alive, facesOf, onPage, peopleScreen, refreshes, merges>>

PeopleInit ==
    /\ alive = Clusters /\ facesOf = [c \in Clusters |-> {c}] /\ busyEvents = {}
    /\ onPage \in Galleries /\ people = {} /\ processing = FALSE /\ picked = {} /\ mergeTargetId = Nobody
    /\ polling = FALSE /\ refreshes = {[event |-> onPage, number |-> 0]} /\ merges = {} /\ moves = 0

PeopleNext ==
    \/ \E e \in Galleries : openPeople(e) \/ DetectionTurns(e)
    \/ \E r \in refreshes : peopleRefreshed(r) \/ refreshFails(r)
    \/ pollPeople \/ cancelMerge \/ leavePeople
    \/ \E c \in Clusters : togglePick(c) \/ chooseTarget(c) \/ confirmMerge(c)
    \/ \E m \in merges : mergeDone(m) \/ mergeRefused(m)

-----------------------------------------------------------------------------
(* Events stay apart: though a late answer may put another event's people on       *)
(* screen, and its user picks and merges them, no person ever holds faces of        *)
(* another event.                                                                  *)
MergesStayApart == \A c \in Clusters : \A f \in facesOf[c] : EventOf[f] = EventOf[c]

(* Unfinished work is watched: on an open page with no request under way, the timer *)
(* runs exactly while the last answer had photos waiting for detection.              *)
WatchedWhileBusy == onPage # Nobody /\ refreshes = {} => (polling <=> processing)

-----------------------------------------------------------------------------
(* The organiser's two pages about people; each step is of one of them.     *)

PeoplePagesInit == PeopleInit /\ PersonInit

PeoplePagesNext ==
    \/ PeopleNext /\ UNCHANGED personVars
    \/ PersonNext /\ UNCHANGED peopleVars

PeoplePagesSpec == PeoplePagesInit /\ [][PeoplePagesNext]_<<peopleVars, personVars>>

(* The people pages act on what they show: merges and selections stay within what   *)
(* was on screen for the event, and what is being clustered is polled               *)
(* (people/+page.svelte:119, people/[personId]/+page.svelte:40,                     *)
(* PhotoTimeline.svelte:139).                                                       *)
PeoplePagesFit ==
    MergesStayApart /\ WatchedWhileBusy /\ SelectionWasOnScreen /\ ForeignNeedsLateRefresh
=============================================================================
