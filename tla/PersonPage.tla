----------------------------- MODULE PersonPage -----------------------------
(***************************************************************************)
(* One person's gallery and the selection PhotoTimeline keeps over it.  The *)
(* page is reused from one person to the next; the loads of its effect are   *)
(* dropped when the route moves on, the refreshes after an edit are not.     *)
(***************************************************************************)
EXTENDS Integers, Sequences

CONSTANTS PersonIds,      \* people whose pages are visited
          Takes,        \* photos
          StartsWith,   \* each person's photos at first, newest first
          DayOf,        \* calendar day of each photo
          MaxGestures   \* bound on what the user and the server do

ASSUME PersonPageConstants ==
    /\ StartsWith \in [PersonIds -> Seq(Takes)]
    /\ DayOf \in [Takes -> Nat] /\ MaxGestures \in Nat

VARIABLES
    gallery,        \* the server's photos of each person
    personId,       \* the route
    assetsOf,       \* whose photos are shown, "" while loading
    assets,
    selectedIds, selectMode,
    lastClickedIndex, \* 0 for null
    personLoads,    \* requests under way: [who, refresh, live: not cancelled]
    onScreen,       \* history: photos shown since the route last moved
    lateRefresh,    \* history: a refresh of the person left behind was shown
    gestures

personVars == <<gallery, personId, assetsOf, assets, selectedIds, selectMode, lastClickedIndex,
                personLoads, onScreen, lateRefresh, gestures>>
timelineState == <<selectedIds, selectMode, lastClickedIndex>>

InList(s) == {s[i] : i \in DOMAIN s}

Gesture == gestures < MaxGestures /\ gestures' = gestures + 1

Load(who, refresh) == [who |-> who, refresh |-> refresh, live |-> TRUE]

dropSelection == selectedIds' = {}

\* The effect: the earlier load is cancelled, all state of the person dropped, and the
\* timeline unmounted by the spinner.
openPerson(p) ==
    /\ Gesture /\ p # personId /\ personId' = p
    /\ personLoads' = {[l EXCEPT !.live = l.refresh] : l \in personLoads} \cup {Load(p, FALSE)}
    /\ assetsOf' = "" /\ assets' = <<>>
    /\ dropSelection /\ selectMode' = FALSE /\ lastClickedIndex' = 0
    /\ onScreen' = {} /\ lateRefresh' = FALSE
    /\ UNCHANGED gallery

\* refresh() asks for the person of the moment; nothing cancels it.
refreshPerson ==
    /\ Gesture /\ Load(personId, TRUE) \notin personLoads
    /\ personLoads' = personLoads \cup {Load(personId, TRUE)}
    /\ UNCHANGED <<gallery, personId, assetsOf, assets, timelineState, onScreen, lateRefresh>>

\* Mutant: the effect's answer is shown whatever has happened since.
Uncancelled(l) == TRUE

Shown(l) == l.live

\* An empty answer unmounts the timeline; any other leaves its last click as it was.
personLoaded(l) ==
    /\ l \in personLoads /\ personLoads' = personLoads \ {l}
    /\ IF Shown(l)
       THEN /\ assetsOf' = l.who /\ assets' = gallery[l.who]
            /\ onScreen' = onScreen \cup InList(gallery[l.who])
            /\ lateRefresh' = (l.refresh /\ l.who # personId)
            /\ lastClickedIndex' = IF gallery[l.who] = <<>> THEN 0 ELSE lastClickedIndex
       ELSE UNCHANGED <<assetsOf, assets, onScreen, lateRefresh, lastClickedIndex>>
    /\ UNCHANGED <<gallery, personId, selectedIds, selectMode, gestures>>

\* A failed load leaves the page empty; a failed refresh leaves it as it was.
loadFailed(l) ==
    /\ l \in personLoads /\ personLoads' = personLoads \ {l}
    /\ UNCHANGED <<gallery, personId, assetsOf, assets, timelineState, onScreen, lateRefresh, gestures>>

\* Clustering moves a photo to the person, or away.
Reclustered(p, t) ==
    /\ Gesture
    /\ gallery' = [gallery EXCEPT ![p] = IF t \in InList(@) THEN SelectSeq(@, LAMBDA x : x # t) ELSE <<t>> \o @]
    /\ UNCHANGED <<personId, assetsOf, assets, timelineState, personLoads, onScreen, lateRefresh>>

-----------------------------------------------------------------------------
(* PhotoTimeline's selection.                                              *)

toggle(t) == IF t \in selectedIds THEN selectedIds \ {t} ELSE selectedIds \cup {t}

\* Indices that no longer exist are skipped.
rangeSelect(from, to) ==
    selectedIds \cup {assets[i] : i \in {k \in DOMAIN assets : (from <= k /\ k <= to) \/ (to <= k /\ k <= from)}}

selectionActive == selectMode \/ selectedIds # {}

Unmoved == UNCHANGED <<gallery, personId, assetsOf, assets, selectMode, personLoads, onScreen, lateRefresh>>

\* Without a selection a plain click opens the viewer and changes nothing here.
onTileClick(i, shift) ==
    /\ Gesture /\ i \in DOMAIN assets
    /\ \/ shift /\ lastClickedIndex # 0
       \/ selectionActive
    /\ selectedIds' = IF shift /\ lastClickedIndex # 0 THEN rangeSelect(lastClickedIndex, i) ELSE toggle(assets[i])
    /\ lastClickedIndex' = i
    /\ Unmoved

onCheckboxClick(i) ==
    /\ Gesture /\ i \in DOMAIN assets
    /\ selectedIds' = toggle(assets[i])
    /\ lastClickedIndex' = i
    /\ Unmoved

\* groups: the tiles of one calendar day.
DayItems(d) == {t \in InList(assets) : DayOf[t] = d}

toggleDay(d) ==
    /\ Gesture /\ selectionActive /\ DayItems(d) # {}
    /\ selectedIds' = IF DayItems(d) \subseteq selectedIds THEN selectedIds \ DayItems(d)
                      ELSE selectedIds \cup DayItems(d)
    /\ UNCHANGED lastClickedIndex /\ Unmoved

selectAll ==
    /\ Gesture /\ selectionActive /\ selectedIds' = InList(assets)
    /\ UNCHANGED lastClickedIndex /\ Unmoved

clearSelection ==
    /\ Gesture /\ selectedIds' = {} /\ selectMode' = FALSE
    /\ UNCHANGED <<gallery, personId, assetsOf, assets, lastClickedIndex, personLoads, onScreen, lateRefresh>>

startSelecting ==
    /\ Gesture /\ assets # <<>> /\ ~ selectionActive /\ selectMode' = TRUE
    /\ UNCHANGED <<gallery, personId, assetsOf, assets, selectedIds, lastClickedIndex, personLoads, onScreen, lateRefresh>>

PersonInit ==
    /\ gallery = StartsWith
    /\ personId \in PersonIds /\ assetsOf = "" /\ assets = <<>>
    /\ selectedIds = {} /\ selectMode = FALSE /\ lastClickedIndex = 0
    /\ personLoads = {Load(personId, FALSE)} /\ onScreen = {} /\ lateRefresh = FALSE /\ gestures = 0

PersonNext ==
    \/ \E p \in PersonIds : openPerson(p) \/ \E t \in Takes : Reclustered(p, t)
    \/ refreshPerson \/ selectAll \/ clearSelection \/ startSelecting
    \/ \E l \in personLoads : personLoaded(l) \/ loadFailed(l)
    \/ \E i \in DOMAIN assets : onCheckboxClick(i) \/ \E shift \in BOOLEAN : onTileClick(i, shift)
    \/ \E d \in {DayOf[t] : t \in Takes} : toggleDay(d)

-----------------------------------------------------------------------------
(* What is downloaded was on screen: whatever ranges, days and late answers go into *)
(* it, the selection only holds photos shown since this person's page was opened.    *)
SelectionWasOnScreen == selectedIds \subseteq onScreen

(* The page shows the person of the route; only a refresh asked for before the route *)
(* moved and answered after it can put another one there, an effect's load cannot.    *)
ForeignNeedsLateRefresh == assetsOf \notin {"", personId} => lateRefresh
=============================================================================
