------------------------------ MODULE MCClient ------------------------------
(***************************************************************************)
(* The web client: the event page and the photo timelines over one listing, *)
(* the viewer, the guest's wait for a selfie, the memory reels, the event   *)
(* settings, the crop box, and the log of what was mailed.  A behaviour     *)
(* follows one of them, its focus; the others stay as they start.           *)
(***************************************************************************)
EXTENDS EventPage, Timeline, PhotoViewer, SelfieWait, MemoryReel, Settings, CropBox, MailLog, TLC

VARIABLE focus

timelineOnly == <<listVars, want>>
otherVars == <<viewerVars, waitVars, reelVars, settingsVars, cropVars, mailVars>>
clientVars == <<focus, photo, dated, pageVars, timelineOnly, otherVars>>

MCAlbumOf == [p \in Photos |-> IF p = 2 THEN "B" ELSE "A"]
MCReelLength == (1 :> 2) @@ (2 :> 1) @@ (3 :> 2)
MCSlugOf == [e \in Galas2 |-> e]
MCShapes == {[w |-> 2, h |-> 1]}

\* Asks, Wants, Polls and Tickets are the same two model values.
MCSymmetry == Permutations(Asks)

MCInit ==
    /\ focus \in {"page", "timeline", "viewer", "wait", "reel", "settings", "crop", "mail"}
    /\ EventPageInit
    /\ focus # "page" => view = "A"
    /\ focus \in {"page", "timeline"} => photo[1].capturedAt = 1
    /\ focus \notin {"page", "timeline"} => \A p \in Photos : photo[p].capturedAt = NULL
    /\ TimelineInit
    /\ focus # "timeline" => open = "org"
    /\ PhotoViewerInit
    /\ focus # "viewer" => pictures = CHOOSE s \in PictureLists : Len(s) = Cardinality(Pictures)
    /\ SelfieWaitInit
    /\ focus # "wait" => ahead = 0 /\ online
    /\ SettingsInit
    /\ focus # "settings" => inView = "e1"
    /\ ReelInit /\ CropInit /\ MailLogInit

MCNext ==
    /\ UNCHANGED focus
    /\ \/ focus = "page" /\ EventPageNext /\ UNCHANGED <<timelineOnly, otherVars>>
       \/ focus = "timeline" /\ TimelineNext /\ UNCHANGED <<pageVars, otherVars>>
       \/ /\ UNCHANGED <<photo, dated, pageVars, timelineOnly>>
          /\ \/ focus = "viewer" /\ PhotoViewerNext
                /\ UNCHANGED <<waitVars, reelVars, settingsVars, cropVars, mailVars>>
             \/ focus = "wait" /\ SelfieWaitNext
                /\ UNCHANGED <<viewerVars, reelVars, settingsVars, cropVars, mailVars>>
             \/ focus = "reel" /\ ReelNext
                /\ UNCHANGED <<viewerVars, waitVars, settingsVars, cropVars, mailVars>>
             \/ focus = "settings" /\ SettingsNext
                /\ UNCHANGED <<viewerVars, waitVars, reelVars, cropVars, mailVars>>
             \/ focus = "crop" /\ CropNext
                /\ UNCHANGED <<viewerVars, waitVars, reelVars, settingsVars, mailVars>>
             \/ focus = "mail" /\ MailLogNext
                /\ UNCHANGED <<viewerVars, waitVars, reelVars, settingsVars, cropVars>>

MCSpec == MCInit /\ [][MCNext]_clientVars

\* What a page shows belongs to what it is about: lists hold each photo of their event
\* once and miss none, overlays are of the photo on screen, forms and covers of the
\* event in view, whatever answers come late (events/[eventId]/+page.svelte:67-133,
\* PhotoViewer.svelte:278, settings/+page.svelte:41).
ScreensFit ==
    /\ ShownOnce /\ OnlyItsPhotos /\ ListedOnce /\ NoGap /\ OverlayOfShownPhoto
    /\ ForeignEditsFlagged /\ DownloadsNeedSharing /\ CoverIsItsOwn

\* Whatever is waited for is asked for, by one timer: unfinished photos, a selfie in
\* progress and a reel have one, none runs beside another, and a page that was left
\* has none unless it was left with a request or batch under way, whose late answer
\* sets a timer nobody clears (events/[eventId]/+page.svelte:66-92,
\* e/[slug]/+page.svelte:47-66, memories/[eventId]/+page.svelte:57, 126).
WaitsAreWatched ==
    /\ UnfinishedIsPolled /\ LeftIsQuiet /\ SpinnerIsWatched /\ HiddenTabIsQuiet
    /\ OnePace /\ ReelMoves /\ ReelEnds /\ NoStrayTimer
=============================================================================
