------------------------------ MODULE Listing ------------------------------
(***************************************************************************)
(* The photos of the events as the gallery API lists them: pages in the    *)
(* order of capture date, newest first, with a cursor on the last row.  A  *)
(* photo has no capture date until its derivatives are made, and keeps     *)
(* none when its file holds none.  Postgres sorts NULL first under DESC    *)
(* and answers no comparison with NULL.                                    *)
(***************************************************************************)
EXTENDS Integers, Sequences, FiniteSets, SequencesExt

CONSTANTS Photos,      \* asset ids, ordered as the index orders them
          Uploads,     \* those not uploaded yet
          Albums, AlbumOf,
          PageLimit,
          CaptureDates

NULL == -1
Epoch == 0     \* new Date(0)
NoCursor == [at |-> NULL, id |-> 0]

ASSUME ListingConstants ==
    /\ Photos \subseteq Nat \ {0} /\ IsFiniteSet(Photos) /\ CaptureDates \subseteq Nat \ {0}
    /\ Uploads \subseteq Photos
    /\ AlbumOf \in [Photos -> Albums]
    /\ PageLimit \in Nat \ {0}

VARIABLES
    photo,    \* [state, capturedAt] of each asset row
    dated     \* history: photos whose date was written in this behaviour

Present(p) == photo[p].state \in {"stored", "processed"}
Dated(p) == photo[p].capturedAt # NULL

\* ORDER BY capturedAt DESC, id DESC.
Before(p, q) ==
    LET c == photo[p].capturedAt  d == photo[q].capturedAt
    IN \/ c = NULL /\ d # NULL
       \/ c # NULL /\ d # NULL /\ c > d
       \/ c = d /\ p > q

Past(p, at, id) ==
    Dated(p) /\ (photo[p].capturedAt < at \/ (photo[p].capturedAt = at /\ p < id))

\* The rows found, in that order.
Sorted(found) ==
    CHOOSE s \in [1..Cardinality(found) -> found] : \A i, j \in DOMAIN s : i < j => Before(s[i], s[j])

\* Mutant: the cursor is the extra row, which the next page then skips.
CursorOnExtraRow(found) ==
    LET sorted == Sorted(found)
        hasMore == Len(sorted) > PageLimit
        page == SubSeq(sorted, 1, IF hasMore THEN PageLimit ELSE Len(sorted))
    IN [assets |-> [i \in DOMAIN page |-> [id |-> page[i], finished |-> photo[page[i]].state = "processed"]],
        next |-> IF hasMore THEN [at |-> photo[Last(sorted)].capturedAt, id |-> Last(sorted)] ELSE NoCursor]

\* The rows of a page and the cursor of the next, from one extra row.
Page(found) ==
    LET sorted == Sorted(found)
        hasMore == Len(sorted) > PageLimit
        page == SubSeq(sorted, 1, IF hasMore THEN PageLimit ELSE Len(sorted))
    IN [assets |-> [i \in DOMAIN page |-> [id |-> page[i], finished |-> photo[page[i]].state = "processed"]],
        next |-> IF hasMore THEN [at |-> photo[Last(page)].capturedAt, id |-> Last(page)] ELSE NoCursor]

\* One event; a cursor without a date compares with the epoch.
list(e, cursor) ==
    LET at == IF cursor.at = NULL THEN Epoch ELSE cursor.at
    IN Page({p \in Photos : /\ Present(p) /\ AlbumOf[p] = e
                            /\ cursor = NoCursor \/ Past(p, at, cursor.id)})

\* All events; a cursor without a date asks for the other undated photos.
listForOrg(cursor) ==
    Page({p \in Photos :
            /\ Present(p)
            /\ \/ cursor = NoCursor
               \/ cursor.at # NULL /\ Past(p, cursor.at, cursor.id)
               \/ cursor.at = NULL /\ ~ Dated(p) /\ p < cursor.id})

(***************************************************************************)
(* What happens to photos while pages are open.                            *)
(***************************************************************************)
Stored(p) == photo' = [photo EXCEPT ![p] = [state |-> "stored", capturedAt |-> NULL]]

\* The date the file holds, or none.
AssetProcess(p) ==
    /\ photo[p].state = "stored"
    /\ \E d \in CaptureDates \cup {NULL} :
        /\ photo' = [photo EXCEPT ![p] = [state |-> "processed", capturedAt |-> d]]
        /\ dated' = IF d = NULL THEN dated ELSE dated \cup {p}

Delete(p) ==
    /\ Present(p)
    /\ photo' = [photo EXCEPT ![p].state = "deleted"]
    /\ UNCHANGED dated

\* The rows of earlier uploads: processed, with a date or without.
ListingInit ==
    /\ dated = {}
    /\ \E at \in [Photos -> CaptureDates \cup {NULL}] :
        photo = [p \in Photos |-> IF p \in Uploads THEN [state |-> "absent", capturedAt |-> NULL]
                                  ELSE [state |-> "processed", capturedAt |-> at[p]]]
=============================================================================
