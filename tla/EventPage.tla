----------------------------- MODULE EventPage -----------------------------
(***************************************************************************)
(* The gallery of one event in the web client.  The page is reused when    *)
(* the user switches events; its requests are answered when the network    *)
(* pleases and applied in any order, and the store of finished uploads     *)
(* hands it photos the server's page may already hold.                     *)
(***************************************************************************)
EXTENDS Listing

CONSTANTS Asks,       \* requests in flight at once
          MaxTurns    \* bound on what users do: switches, pages, uploads, deletes

VARIABLES
    view,         \* eventId
    shown,        \* assets: their ids and whether each is shown as finished
    nextCursor, pollTimer,
    ask,          \* requests in flight
    uploading,    \* files on their way
    fresh,        \* uploaded photos that no page has taken yet
    turns,        \* what users have done so far
    left,         \* the page: "no", or left "quiet" or "asking" for something
    appended,     \* history: ids that came with a loadMore since the last refresh
    tangled,      \* history: a loadMore was applied to a list it was not asked for
    late          \* history: an answer for an event that was left is on screen

pageVars == <<view, shown, nextCursor, pollTimer, ask, uploading, fresh, turns, left, appended, tangled, late>>
eventPageVars == <<photo, dated, pageVars>>

\* A user's doing.
Turn == turns < MaxTurns /\ turns' = turns + 1

NoAsk == [kind |-> "none"]
Ids(list_) == {list_[i].id : i \in DOMAIN list_}
Unread == [assets |-> <<>>, next |-> NoCursor]

Send(a, kind, e, cursor) ==
    /\ ask[a] = NoAsk
    /\ ask' = [ask EXCEPT ![a] = [kind |-> kind, event |-> e, cursor |-> cursor,
                                  read |-> FALSE, page |-> Unread, busy |-> FALSE]]

\* takeFresh for the event in view, without what the list holds already; in which
\* order tiles that are adopted at once come is left out.
adoptFresh(list_) ==
    LET additions == SetToSeq({p \in fresh : AlbumOf[p] = view} \ Ids(list_))
    IN [i \in DOMAIN additions |-> [id |-> additions[i], finished |-> FALSE]] \o list_

Taken == {p \in fresh : AlbumOf[p] # view}

schedulePolling(list_, busy) == busy \/ \E i \in DOMAIN list_ : ~ list_[i].finished

(***************************************************************************)
(* The page's requests.                                                    *)
(***************************************************************************)
\* The effect keyed on eventId: reset, then the first page.
switchEvent(a, e) ==
    /\ e # view /\ Turn /\ left = "no"
    /\ view' = e /\ shown' = <<>> /\ nextCursor' = NoCursor /\ pollTimer' = FALSE
    /\ appended' = {} /\ tangled' = FALSE /\ late' = FALSE
    /\ Send(a, "refresh", e, NoCursor)
    /\ UNCHANGED <<photo, dated, uploading, fresh, left>>

\* onDestroy stops the timer; requests under way and the batch are not called off.
leaveEvent ==
    /\ left = "no" /\ pollTimer' = FALSE
    /\ left' = IF fresh = {} /\ uploading = {} /\ \A a \in Asks : ask[a] = NoAsk THEN "quiet" ELSE "asking"
    /\ UNCHANGED <<photo, dated, view, shown, nextCursor, ask, uploading, fresh, turns, appended, tangled, late>>

\* The poll, also of a page that was left.  A delete, a batch that ended and the other
\* buttons ask the same.
refresh(a) ==
    /\ pollTimer
    /\ Send(a, "refresh", view, NoCursor)
    /\ UNCHANGED <<photo, dated, view, shown, nextCursor, pollTimer, uploading, fresh, turns, appended, tangled, late, left>>

loadMore(a) ==
    /\ nextCursor # NoCursor /\ Turn /\ left = "no"
    /\ Send(a, "more", view, nextCursor)
    /\ UNCHANGED <<photo, dated, view, shown, nextCursor, pollTimer, uploading, fresh, appended, tangled, late, left>>

\* The server reads the page and, for a refresh, what is left to process.
Answer(a) ==
    /\ ask[a] # NoAsk /\ ~ ask[a].read
    /\ ask' = [ask EXCEPT ![a].read = TRUE, ![a].page = list(ask[a].event, ask[a].cursor),
                          ![a].busy = \E p \in Photos : AlbumOf[p] = ask[a].event /\ photo[p].state = "stored"]
    /\ UNCHANGED <<photo, dated, view, shown, nextCursor, pollTimer, uploading, fresh, turns, appended, tangled, late, left>>

\* Nothing asks whether the answer is for the event in view, or the page was left: its
\* timer is then set again, and no one clears it.
refreshed(a) ==
    /\ ask[a].kind = "refresh" /\ ask[a].read
    /\ shown' = adoptFresh(ask[a].page.assets)
    /\ fresh' = Taken
    /\ nextCursor' = ask[a].page.next
    /\ pollTimer' = schedulePolling(shown', ask[a].busy)
    /\ appended' = {} /\ tangled' = FALSE /\ late' = (ask[a].event # view)
    /\ ask' = [ask EXCEPT ![a] = NoAsk]
    /\ UNCHANGED <<photo, dated, view, uploading, turns, left>>

loadedMore(a) ==
    /\ ask[a].kind = "more" /\ ask[a].read
    /\ shown' = shown \o ask[a].page.assets
    /\ nextCursor' = ask[a].page.next
    /\ appended' = appended \cup Ids(ask[a].page.assets)
    /\ tangled' = (tangled \/ ask[a].cursor # nextCursor)
    /\ late' = (late \/ ask[a].event # view)
    /\ ask' = [ask EXCEPT ![a] = NoAsk]
    /\ UNCHANGED <<photo, dated, view, pollTimer, uploading, fresh, turns, left>>

\* The one-second effect that runs while the store has active uploads.
adoptTick ==
    /\ left = "no" /\ uploading # {} /\ \E p \in fresh : AlbumOf[p] = view
    /\ shown' = adoptFresh(shown)
    /\ fresh' = Taken
    /\ pollTimer' = (pollTimer \/ schedulePolling(shown', FALSE))
    /\ UNCHANGED <<photo, dated, view, nextCursor, ask, uploading, turns, appended, tangled, late, left>>

(***************************************************************************)
(* The upload store, the pipeline and other users.                         *)
(***************************************************************************)
startUpload(p) ==
    /\ photo[p].state = "absent" /\ p \notin uploading /\ Turn /\ left = "no"
    /\ uploading' = uploading \cup {p}
    /\ UNCHANGED <<photo, dated, view, shown, nextCursor, pollTimer, ask, fresh, appended, tangled, late, left>>

\* The server has the row; then the store keeps it for its event's page.
uploadLands(p) ==
    /\ p \in uploading /\ photo[p].state = "absent"
    /\ Stored(p)
    /\ UNCHANGED <<dated, pageVars>>

uploadOne(p) ==
    /\ p \in uploading /\ photo[p].state # "absent"
    /\ uploading' = uploading \ {p}
    /\ fresh' = fresh \cup {p}
    /\ UNCHANGED <<photo, dated, view, shown, nextCursor, pollTimer, ask, turns, appended, tangled, late, left>>

\* The batch ended: its promise refreshes whatever event is in view now.
batchDone(a) ==
    /\ uploading = {} /\ fresh # {}
    /\ Send(a, "refresh", view, NoCursor)
    /\ UNCHANGED <<photo, dated, view, shown, nextCursor, pollTimer, uploading, fresh, turns, appended, tangled, late, left>>

processed(p) == AssetProcess(p) /\ UNCHANGED pageVars

\* By another user; this page's own delete is followed by a refresh.
removed(p) ==
    /\ Delete(p) /\ Turn
    /\ UNCHANGED <<view, shown, nextCursor, pollTimer, ask, uploading, fresh, appended, tangled, late, left>>

EventPageInit ==
    /\ ListingInit
    /\ \E a \in Asks :
        /\ view \in Albums
        /\ ask = [b \in Asks |-> IF b = a THEN [kind |-> "refresh", event |-> view, cursor |-> NoCursor,
                                                read |-> FALSE, page |-> Unread, busy |-> FALSE]
                                 ELSE NoAsk]
    /\ shown = <<>> /\ nextCursor = NoCursor /\ pollTimer = FALSE
    /\ uploading = {} /\ fresh = {} /\ turns = 0 /\ left = "no" /\ appended = {} /\ tangled = FALSE /\ late = FALSE

EventPageNext ==
    \/ \E a \in Asks :
        \/ \E e \in Albums : switchEvent(a, e)
        \/ refresh(a) \/ loadMore(a) \/ Answer(a) \/ refreshed(a) \/ loadedMore(a) \/ batchDone(a)
    \/ \E p \in Photos : startUpload(p) \/ uploadLands(p) \/ uploadOne(p) \/ processed(p) \/ removed(p)
    \/ adoptTick \/ leaveEvent

EventPageSpec == EventPageInit /\ [][EventPageNext]_eventPageVars

(***************************************************************************)
(* Properties.                                                             *)
(***************************************************************************)
\* No tile is shown twice, though uploads are spliced in from the store and come
\* again from the server, unless its date changed while the list was on screen or
\* a loadMore met a list it was not asked for (+page.svelte:94-133).
ShownOnce ==
    \A i, j \in DOMAIN shown :
        i # j /\ shown[i].id = shown[j].id => tangled \/ shown[i].id \in dated

\* A photo of another event is on screen only while an answer asked for that event
\* was applied after the switch: the "later navigation wins" check
\* (+page.svelte:230) comes after refresh() has assigned the list.
OnlyItsPhotos ==
    \A i \in DOMAIN shown : AlbumOf[shown[i].id] = view \/ late

\* A photo shown as not finished keeps the page polling, so its badge will clear;
\* only a photo that came with loadMore may stay without a poll
\* (+page.svelte:80-101).
UnfinishedIsPolled ==
    \A i \in DOMAIN shown :
        left = "no" /\ ~ shown[i].finished => pollTimer \/ shown[i].id \in appended

\* A page left with no request under way and no batch does not poll again.  Left
\* otherwise it may, for good: a late answer sets the timer (+page.svelte:66-92).
LeftIsQuiet == left = "quiet" => ~ pollTimer /\ \A a \in Asks : ask[a] = NoAsk
=============================================================================
