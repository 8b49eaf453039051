----------------------------- MODULE MemoryReel -----------------------------
(***************************************************************************)
(* The memories page: a reel of random photos of one event that moves by   *)
(* itself and hands over to the next event.  The component stays mounted    *)
(* while its event changes, and a reel is asked for at every change.        *)
(***************************************************************************)
EXTENDS Integers, FiniteSets

CONSTANTS Memories,     \* how many events the sidebar lists; they are 1 .. Memories
          ReelLength,   \* photos of each event's reel
          LastStep,     \* ticks a photo is shown
          MaxVisits     \* bound on changes of the event

ASSUME ReelConstants ==
    /\ Memories \in Nat /\ ReelLength \in [1 .. Memories -> Nat] /\ LastStep \in Nat /\ MaxVisits \in Nat

NoReel == [event |-> 0, length |-> 0]

VARIABLES
    visited,        \* the event in the address, 0 when the page is left
    visit,          \* counts the changes of the event
    reel,           \* slideshow: [event, length]
    assetIndex, reelProgress, paused,
    intervals,      \* running intervals; progressTimer names the last one started
    named,          \* progressTimer: is there one
    asks,           \* requests for a reel under way: [event, visit]
    overdue         \* history: the page was left with a reel on its way

reelVars == <<visited, visit, reel, assetIndex, reelProgress, paused, intervals, named, asks, overdue>>

stopProgressTimer(running, known) == IF known THEN running - 1 ELSE running
startProgressTimer(running, known) == stopProgressTimer(running, known) + 1

\* The effect: the timer is stopped and the next event's reel asked for.
loadSlideshow(e) ==
    /\ visited' = e /\ visit' = visit + 1
    /\ intervals' = stopProgressTimer(intervals, named) /\ named' = FALSE
    /\ assetIndex' = 0 /\ reelProgress' = 0
    /\ asks' = asks \cup {[event |-> e, visit |-> visit']}
    /\ UNCHANGED <<reel, paused, overdue>>

\* goto of a neighbour, by button or at the end of the reel; also a first visit.
openMemory(e) == visit < MaxVisits /\ e # visited /\ loadSlideshow(e)

\* A reel arrives, or nothing in place of an error; the timer starts either way.
arrives(a) ==
    /\ reel' \in {[event |-> a.event, length |-> ReelLength[a.event]], [event |-> a.event, length |-> 0]}
    /\ intervals' = startProgressTimer(intervals, named) /\ named' = TRUE

reelAnswer(a) ==
    /\ arrives(a) /\ asks' = asks \ {a}
    /\ UNCHANGED <<visited, visit, assetIndex, reelProgress, paused, overdue>>

\* advance: to a neighbour of the reel, or past its end to the next event.  What a
\* component that was left still navigates to is another component's visit.
advance(direction) ==
    LET to == assetIndex + direction
    IN  \/ to < 0 /\ UNCHANGED reelVars
        \/ to >= 0 /\ to < reel.length
           /\ assetIndex' = to /\ reelProgress' = 0
           /\ UNCHANGED <<visited, visit, reel, paused, intervals, named, asks, overdue>>
        \/ to >= reel.length /\ visited \in 1 .. Memories - 1 /\ openMemory(visited + 1)
        \/ to >= reel.length /\ visited \in {0, Memories} /\ UNCHANGED reelVars

\* An interval ticks, also after the page is left when a late answer started it.
tickReel ==
    /\ intervals > 0 /\ ~ paused
    /\ \/ /\ reelProgress < LastStep /\ reelProgress' = reelProgress + 1
          /\ UNCHANGED <<visited, visit, reel, assetIndex, paused, intervals, named, asks, overdue>>
       \/ reelProgress >= LastStep /\ advance(1)

onArrow == visited # 0 /\ \E direction \in {1, -1} : advance(direction)

jumpTo(i) ==
    /\ visited # 0 /\ assetIndex' = i /\ reelProgress' = 0
    /\ UNCHANGED <<visited, visit, reel, paused, intervals, named, asks, overdue>>

\* Scrolling to the gallery pauses the reel.
galleryInView ==
    /\ visited # 0 /\ paused' = ~ paused
    /\ UNCHANGED <<visited, visit, reel, assetIndex, reelProgress, intervals, named, asks, overdue>>

\* Escape, or any link: the component is destroyed.
leaveMemories ==
    /\ visited # 0 /\ visited' = 0
    /\ intervals' = stopProgressTimer(intervals, named) /\ named' = FALSE
    /\ overdue' = (asks # {})
    /\ UNCHANGED <<visit, reel, assetIndex, reelProgress, paused, asks>>

ReelInit ==
    /\ visited = 1 /\ visit = 1 /\ reel = NoReel /\ assetIndex = 0 /\ reelProgress = 0 /\ paused = FALSE
    /\ intervals = 0 /\ named = FALSE /\ asks = {[event |-> 1, visit |-> 1]}
    /\ overdue = FALSE

ReelNext ==
    \/ \E e \in 1 .. Memories : visited # 0 /\ openMemory(e)
    \/ \E a \in asks : reelAnswer(a)
    \/ tickReel \/ onArrow \/ galleryInView \/ leaveMemories
    \/ \E i \in 0 .. reel.length - 1 : jumpTo(i)

ReelSpec == ReelInit /\ [][ReelNext]_reelVars

-----------------------------------------------------------------------------
(* The reel keeps one pace: at most one interval runs, however many answers came   *)
(* and in whichever order, so that a photo is never skipped by a second one.       *)
OnePace == intervals <= 1

(* The reel moves: on an open page, with every request answered, by a reel or by   *)
(* an error, an interval runs; the page never stops at a photo for good.           *)
ReelMoves == visited # 0 /\ asks = {} => intervals > 0

(* Nothing ticks on after the page, unless it was left with a reel on its way: the *)
(* late answer starts an interval that nobody stops (memories/+page.svelte:126).   *)
ReelEnds == visited = 0 /\ ~ overdue => intervals = 0 /\ asks = {}
=============================================================================
