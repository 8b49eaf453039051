---------------------------- MODULE PhotoViewer ----------------------------
(***************************************************************************)
(* The full-screen viewer over a list of photos that its page replaces     *)
(* beneath it.  The page keeps the position, the viewer shows whatever     *)
(* photo is there, and asks the server for its details; the slideshow's    *)
(* timer, the user and the page's polls all move it.                       *)
(***************************************************************************)
EXTENDS Integers, Sequences, FiniteSets

CONSTANTS Pictures,  \* photos of the event
          Clips,     \* those that are videos
          MAX_ZOOM,  \* zoom steps above the fitted size
          MaxClicks  \* bound on what users do

ASSUME PhotoViewerConstants ==
    MAX_ZOOM \in Nat /\ MaxClicks \in Nat /\ Clips \subseteq Pictures

VARIABLES
    pictures,     \* assets: the page's list
    viewerIndex,  \* the position in it, 0 (the code's -1) when closed
    query,        \* requests for details in flight: [of, cancelled]
    overlay,      \* the photo whose details and faces are on screen, or "none"
    zoom, showInfo,
    slideshow,    \* slideshowActive
    timers,       \* intervals that tick, whether or not the viewer still holds them
    saving,       \* the photo being downloaded, or "none"
    clicks

viewerVars == <<pictures, viewerIndex, query, overlay, zoom, showInfo, slideshow, timers, saving, clicks>>

InView(list, i) == IF i \in DOMAIN list THEN list[i] ELSE "none"

asset == InView(pictures, viewerIndex)

Click == clicks < MaxClicks /\ clicks' = clicks + 1

Cancelled(qs) == {[q EXCEPT !.cancelled = TRUE] : q \in qs}

\* onDestroy.
Unmount == slideshow' = FALSE /\ timers' = 0

\* What follows when the page's list or position changes.  No photo at the position
\* unmounts the viewer; another photo, or the same one as a new object of a list
\* that was fetched again, runs the effect: reset, then ask for its details.
Show(list, i) ==
    /\ pictures' = list /\ viewerIndex' = i
    /\ IF InView(list, i) = "none"
       THEN /\ Unmount
            /\ query' = Cancelled(query) /\ overlay' = "none" /\ zoom' = 0 /\ showInfo' = FALSE
       ELSE /\ query' = Cancelled(query) \cup {[of |-> InView(list, i), cancelled |-> FALSE]}
            /\ overlay' = "none" /\ zoom' = 0
            /\ IF asset = "none" THEN slideshow' = FALSE /\ timers' = 0 /\ showInfo' = FALSE
               ELSE UNCHANGED <<slideshow, timers, showInfo>>

(***************************************************************************)
(* The page.                                                               *)
(***************************************************************************)
openAt(i) == viewerIndex = 0 /\ i \in DOMAIN pictures /\ Click /\ Show(pictures, i) /\ UNCHANGED saving

\* A poll, a page more or an upload that landed: another list, the position kept.
refreshList(list) == Click /\ Show(list, viewerIndex) /\ UNCHANGED saving

\* The list ends up without the photo; the viewer closes before it is fetched again.
deletePicture ==
    /\ asset # "none" /\ Click
    /\ Show(SelectSeq(pictures, LAMBDA p : p # asset), 0) /\ UNCHANGED saving

(***************************************************************************)
(* The viewer.                                                             *)
(***************************************************************************)
\* stopSlideshow, then a neighbour if there is one.
Step(by) ==
    /\ asset # "none" /\ Click
    /\ slideshow' = FALSE /\ timers' = (IF slideshow THEN timers - 1 ELSE timers)
    /\ IF viewerIndex + by \in DOMAIN pictures
       THEN /\ viewerIndex' = viewerIndex + by
            /\ query' = Cancelled(query) \cup {[of |-> pictures[viewerIndex'], cancelled |-> FALSE]}
            /\ overlay' = "none" /\ zoom' = 0
       ELSE UNCHANGED <<viewerIndex, query, overlay, zoom>>
    /\ UNCHANGED <<pictures, showInfo, saving>>

previous == Step(-1)
next == Step(1)
swipe(by) == zoom = 0 /\ Step(by)
videoEnded == asset \in Clips /\ viewerIndex < Len(pictures) /\ next

toggleSlideshow ==
    /\ asset # "none" /\ Click
    /\ slideshow' = ~ slideshow
    /\ timers' = IF slideshow THEN timers - 1 ELSE timers + 1
    /\ UNCHANGED <<pictures, viewerIndex, query, overlay, zoom, showInfo, saving>>

\* The interval calls the page, mounted or not; an empty list makes the position NaN.
tick ==
    LET following == IF pictures = <<>> THEN 0 ELSE (viewerIndex % Len(pictures)) + 1
    IN /\ timers > 0 /\ Click /\ UNCHANGED saving
       /\ IF following = viewerIndex
          THEN UNCHANGED <<pictures, viewerIndex, query, overlay, zoom, showInfo, slideshow, timers>>
          ELSE Show(pictures, following)

setZoom(by) ==
    /\ asset # "none" /\ zoom + by \in 0..MAX_ZOOM
    /\ zoom' = zoom + by
    /\ UNCHANGED <<pictures, viewerIndex, query, overlay, showInfo, slideshow, timers, saving, clicks>>

toggleInfo ==
    /\ asset # "none" /\ Click /\ showInfo' = ~ showInfo
    /\ UNCHANGED <<pictures, viewerIndex, query, overlay, zoom, slideshow, timers, saving>>

\* Escape undoes one thing at a time and closes last.
escape ==
    /\ asset # "none" /\ Click
    /\ \/ slideshow /\ slideshow' = FALSE /\ timers' = timers - 1
          /\ UNCHANGED <<pictures, viewerIndex, query, overlay, zoom, showInfo>>
       \/ ~ slideshow /\ zoom > 0 /\ zoom' = 0
          /\ UNCHANGED <<pictures, viewerIndex, query, overlay, showInfo, slideshow, timers>>
       \/ ~ slideshow /\ zoom = 0 /\ showInfo /\ showInfo' = FALSE
          /\ UNCHANGED <<pictures, viewerIndex, query, overlay, zoom, slideshow, timers>>
       \/ ~ slideshow /\ zoom = 0 /\ ~ showInfo /\ Show(pictures, 0)
    /\ UNCHANGED saving

\* The back button, a person's page, the timeline: the viewer gets out of the way.
close == asset # "none" /\ Click /\ Show(pictures, 0) /\ UNCHANGED saving

download ==
    /\ asset # "none" /\ saving = "none" /\ Click /\ saving' = asset
    /\ UNCHANGED <<pictures, viewerIndex, query, overlay, zoom, showInfo, slideshow, timers>>

downloaded ==
    /\ saving # "none" /\ saving' = "none"
    /\ UNCHANGED <<pictures, viewerIndex, query, overlay, zoom, showInfo, slideshow, timers, clicks>>

(***************************************************************************)
(* The server's answers, in any order; one that failed leaves no trace.    *)
(***************************************************************************)
answered(q) ==
    /\ query' = query \ {q}
    /\ overlay' = IF q.cancelled THEN overlay ELSE q.of
    /\ UNCHANGED <<pictures, viewerIndex, zoom, showInfo, slideshow, timers, saving, clicks>>

refused(q) ==
    /\ query' = query \ {q}
    /\ UNCHANGED <<pictures, viewerIndex, overlay, zoom, showInfo, slideshow, timers, saving, clicks>>

-----------------------------------------------------------------------------
\* PictureLists a page may hold: no photo twice.
PictureLists == {list \in UNION {[1..n -> Pictures] : n \in 0..Cardinality(Pictures)} :
             \A i, j \in DOMAIN list : list[i] = list[j] => i = j}

PhotoViewerInit ==
    /\ pictures \in {list \in PictureLists : Len(list) = Cardinality(Pictures)} /\ viewerIndex = 0
    /\ query = {} /\ overlay = "none" /\ zoom = 0 /\ showInfo = FALSE
    /\ slideshow = FALSE /\ timers = 0 /\ saving = "none" /\ clicks = 0

PhotoViewerNext ==
    \/ \E i \in DOMAIN pictures : openAt(i)
    \/ \E list \in PictureLists : refreshList(list)
    \/ deletePicture \/ previous \/ next \/ (\E by \in {-1, 1} : swipe(by)) \/ videoEnded
    \/ toggleSlideshow \/ tick \/ (\E by \in {-1, 1} : setZoom(by)) \/ toggleInfo \/ escape \/ close
    \/ download \/ downloaded
    \/ \E q \in query : answered(q) \/ refused(q)

PhotoViewerSpec == PhotoViewerInit /\ [][PhotoViewerNext]_viewerVars

-----------------------------------------------------------------------------
(* The faces and details on screen are those of the photo on screen: whatever     *)
(* moved it - keys, swipes, the slideshow, a poll that shifted the list, closing  *)
(* and opening again - an answer that was asked for another photo, or for an      *)
(* earlier visit to this one, is dropped.                                         *)
OverlayOfShownPhoto ==
    /\ overlay # "none" => overlay = asset
    /\ \A q \in query : ~ q.cancelled => q.of = asset

(* The slideshow ends with the viewer: no interval outlives the viewer or the     *)
(* user's stop, and there are never two.  One that did would reopen a viewer      *)
(* its user had closed, since its tick sets the page's position.                  *)
NoStrayTimer == timers = (IF slideshow THEN 1 ELSE 0) /\ (slideshow => asset # "none")
=============================================================================
