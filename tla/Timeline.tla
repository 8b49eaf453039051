------------------------------ MODULE Timeline ------------------------------
(***************************************************************************)
(* The two lists that only grow: the organization's timeline, paged by its *)
(* scroll sentinel, and the tab with a shared event's photos in a guest's  *)
(* gallery.  Both page while photos are uploaded, dated and deleted.       *)
(***************************************************************************)
EXTENDS Listing

CONSTANTS Wants    \* requests in flight at once

Lists == {"org", "guest"}

VARIABLES
    open,      \* the list on screen
    rows,      \* assets of each list
    cursor, loading, exhausted,
    want,      \* requests in flight
    broken     \* history: lists whose paging lost its place, see NoGap

timelineVars == <<photo, dated, rows, cursor, loading, exhausted, want, broken, open>>
listVars == <<open, rows, cursor, loading, exhausted, broken>>

NoWant == [list |-> "none"]
Shared == CHOOSE e \in Albums : TRUE
Fetch(l, c) == IF l = "org" THEN listForOrg(c) ELSE list(Shared, c)

\* The sentinel asks for the next page (org); selecting the tab asks for the
\* first page of an empty list, its button for the next (guest).
loadPage(w, l, more) ==
    /\ want[w] = NoWant
    /\ ~ loading[l]
    /\ l = "org" => more /\ ~ exhausted
    /\ l = "guest" => IF more THEN cursor[l] # NoCursor ELSE rows[l] = <<>>
    /\ loading' = [loading EXCEPT ![l] = TRUE]
    /\ want' = [want EXCEPT ![w] = [list |-> l, more |-> more, read |-> FALSE, page |-> Page({}),
                                    cursor |-> IF more THEN cursor[l] ELSE NoCursor]]
    /\ UNCHANGED <<photo, dated, open, rows, cursor, exhausted, broken>>

Answered(w) ==
    /\ want[w] # NoWant /\ ~ want[w].read
    /\ want' = [want EXCEPT ![w].read = TRUE, ![w].page = Fetch(want[w].list, want[w].cursor)]
    /\ UNCHANGED <<photo, dated, listVars>>

Loaded(w) ==
    /\ want[w] # NoWant /\ want[w].read
    /\ LET l == want[w].list  page == want[w].page IN
       /\ rows' = [rows EXCEPT ![l] = IF want[w].more THEN @ \o page.assets ELSE page.assets]
       /\ cursor' = [cursor EXCEPT ![l] = page.next]
       /\ exhausted' = IF l = "org" THEN page.next = NoCursor ELSE exhausted
       /\ loading' = [loading EXCEPT ![l] = FALSE]
       /\ broken' = IF page.next # NoCursor /\ page.next.at = NULL THEN broken \cup {l}
                    ELSE IF want[w].more THEN broken ELSE broken \ {l}
    /\ want' = [want EXCEPT ![w] = NoWant]
    /\ UNCHANGED <<photo, dated, open>>

\* A failed request: the timeline keeps what it has, the guest's tab empties its
\* list and keeps its cursor.
Failed(w) ==
    /\ want[w] # NoWant
    /\ LET l == want[w].list IN
       /\ loading' = [loading EXCEPT ![l] = FALSE]
       /\ rows' = IF l = "guest" THEN [rows EXCEPT ![l] = <<>>] ELSE rows
       /\ broken' = IF l = "guest" THEN broken \cup {l} ELSE broken
    /\ want' = [want EXCEPT ![w] = NoWant]
    /\ UNCHANGED <<photo, dated, open, cursor, exhausted>>

photoMoves ==
    /\ \E p \in Photos :
        \/ photo[p].state = "absent" /\ Stored(p) /\ UNCHANGED dated
        \/ AssetProcess(p)
        \/ Delete(p)
    /\ UNCHANGED <<listVars, want>>

TimelineInit ==
    /\ ListingInit /\ open \in Lists
    /\ rows = [l \in Lists |-> <<>>] /\ cursor = [l \in Lists |-> NoCursor]
    /\ loading = [l \in Lists |-> FALSE] /\ exhausted = FALSE
    /\ want = [w \in Wants |-> NoWant] /\ broken = {}

TimelineNext ==
    \/ \E w \in Wants :
        \/ \E more \in BOOLEAN : loadPage(w, open, more)
        \/ Answered(w) \/ Loaded(w) \/ Failed(w)
    \/ photoMoves

TimelineSpec == TimelineInit /\ [][TimelineNext]_timelineVars

(***************************************************************************)
(* Properties.                                                             *)
(***************************************************************************)
\* A list that pages while photos come and go shows none of them twice, unless the
\* photo got its date between two pages and so moved down the order
\* (asset.repository.ts:131-145, photos/+page.svelte:30-45, g/[token]:91-105).
ListedOnce ==
    \A l \in Lists : \A i, j \in DOMAIN rows[l] :
        i # j /\ rows[l][i].id = rows[l][j].id => rows[l][i].id \in dated

\* And misses none that had its date and stayed: what sorts before the cursor, or
\* everything once the timeline is exhausted, is in the list.  Two things break
\* it: a page that ends on an undated photo, whose cursor stands for no place in
\* the order (asset.repository.ts:131-145, 380-390), and a guest's page that failed.
NoGap ==
    \A l \in Lists \ broken : \A p \in Photos \ (Uploads \cup dated) :
        /\ Present(p) /\ Dated(p)
        /\ l = "guest" => AlbumOf[p] = Shared
        /\ \/ l = "org" /\ exhausted
           \/ /\ cursor[l] # NoCursor
              /\ photo[p].capturedAt > cursor[l].at \/ (photo[p].capturedAt = cursor[l].at /\ p >= cursor[l].id)
        => \E i \in DOMAIN rows[l] : rows[l][i].id = p
=============================================================================
