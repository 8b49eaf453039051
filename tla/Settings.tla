------------------------------ MODULE Settings ------------------------------
(***************************************************************************)
(* The event settings page.  SvelteKit reuses the component when only the  *)
(* event in the address changes, so the form, the cover picker and the     *)
(* answers still on their way may belong to the event left behind.         *)
(***************************************************************************)
EXTENDS Integers, FiniteSets

CONSTANTS Galas2,     \* events with a settings page
          Slugs,      \* public slugs
          SlugOf,     \* the slug each event starts with
          MaxEdits    \* bound on what the user does

ASSUME SettingsConstants ==
    /\ SlugOf \in [Galas2 -> Slugs] /\ \A d, e \in Galas2 : SlugOf[d] = SlugOf[e] => d = e
    /\ MaxEdits \in Nat

NoCover == "auto"

VARIABLES
    kept,           \* event rows: [fields, cover]
    inView,         \* data.event.id
    loaded,         \* data.event: the row as the page loaded it
    form,           \* the fields of the form
    staleEdits,
    saves,          \* saves on their way: [event, fields]
    coverChoices,   \* the event whose photos the picker offers, or NoCover
    lists,          \* the picker's requests on their way: [event, cancelled]
    edits

settingsVars == <<kept, inView, loaded, form, staleEdits, saves, coverChoices, lists, edits>>
formVars == <<form, staleEdits, saves>>
coverVars == <<coverChoices, lists>>

Edit == edits < MaxEdits /\ edits' = edits + 1

(***************************************************************************)
(* The fields: texts stand for the event they were loaded or typed for.    *)
(***************************************************************************)
Fields == [textOf : Galas2, slug : Slugs, seeAll : BOOLEAN, download : BOOLEAN]

\* Seeding the form from the loaded event.
Seeded(e, row) == [row.fields EXCEPT !.textOf = e]

isDirty(fields, e, row) == fields # Seeded(e, row)

\* The picker's effect: the request of the event left behind is cancelled.
askCovers(e) ==
    /\ coverChoices' = NoCover
    /\ lists' = {[l EXCEPT !.cancelled = TRUE] : l \in lists} \cup {[event |-> e, cancelled |-> FALSE]}

\* The form's effect: data.event is the new event's already when the form is compared with it.
reseed(e) ==
    /\ IF isDirty(form, e, kept[e]) THEN staleEdits' = TRUE /\ UNCHANGED form
       ELSE staleEdits' = FALSE /\ form' = Seeded(e, kept[e])
    /\ UNCHANGED saves

switchEvents(e) ==
    /\ e # inView /\ Edit
    /\ inView' = e /\ loaded' = kept[e]
    /\ reseed(e) /\ askCovers(e)
    /\ UNCHANGED kept

typeSlug(s) ==
    /\ Edit /\ form' = [form EXCEPT !.slug = s]
    /\ UNCHANGED <<kept, inView, loaded, staleEdits, saves, coverVars>>

\* The download switch is on the page only while sharing is on.
toggleFlag ==
    /\ Edit
    /\ \/ form' = [form EXCEPT !.seeAll = ~ @]
       \/ form.seeAll /\ form' = [form EXCEPT !.download = ~ @]
    /\ UNCHANGED <<kept, inView, loaded, staleEdits, saves, coverVars>>

discardStaleEdits ==
    /\ staleEdits /\ staleEdits' = FALSE /\ form' = Seeded(inView, loaded)
    /\ UNCHANGED <<kept, inView, loaded, saves, edits, coverVars>>

Sent(fields) == [fields EXCEPT !.download = fields.seeAll /\ fields.download]

\* The save names the event in view when it was clicked.
save ==
    /\ saves = {} /\ Edit
    /\ saves' = {[event |-> inView, fields |-> Sent(form)]}
    /\ UNCHANGED <<kept, inView, loaded, form, staleEdits, coverVars>>

\* The update looks the slug up when it differs from the event's own; the index stands behind it.
SlugFree(e, s) == \A o \in Galas2 \ {e} : kept[o].fields.slug # s

\* The server's update, then invalidateAll, which loads the event in view by now.
saved(s) ==
    /\ SlugFree(s.event, s.fields.slug)
    /\ kept' = [kept EXCEPT ![s.event].fields = s.fields]
    /\ saves' = saves \ {s} /\ loaded' = kept'[inView]
    /\ UNCHANGED <<inView, form, staleEdits, edits, coverVars>>

\* Refused, or lost on the way: the form stays as it is.
failedSave(s) ==
    /\ saves' = saves \ {s}
    /\ UNCHANGED <<kept, inView, loaded, form, staleEdits, edits, coverVars>>

coversListed(l) ==
    /\ coverChoices' = IF l.cancelled THEN coverChoices ELSE l.event
    /\ lists' = lists \ {l}

coversAnswer(l) == coversListed(l) /\ UNCHANGED <<kept, inView, loaded, formVars, edits>>

\* setCover stores a photo that the picker offers, or none, without asking whose it is.
setCover(c) ==
    /\ Edit
    /\ kept' = [kept EXCEPT ![inView].cover = c] /\ loaded' = kept'[inView]
    /\ UNCHANGED <<inView, formVars, coverVars>>

-----------------------------------------------------------------------------
FirstRow(e) ==
    [fields |-> [textOf |-> e, slug |-> SlugOf[e], seeAll |-> FALSE, download |-> FALSE],
     cover |-> NoCover]

SettingsInit ==
    /\ kept = [e \in Galas2 |-> FirstRow(e)]
    /\ inView \in Galas2 /\ loaded = FirstRow(inView) /\ form = loaded.fields
    /\ staleEdits = FALSE /\ saves = {}
    /\ coverChoices = NoCover /\ lists = {[event |-> inView, cancelled |-> FALSE]}
    /\ edits = 0

SettingsNext ==
    \/ \E e \in Galas2 : switchEvents(e)
    \/ \E s \in Slugs : typeSlug(s)
    \/ toggleFlag \/ discardStaleEdits \/ save
    \/ \E s \in saves : saved(s) \/ failedSave(s)
    \/ \E l \in lists : coversAnswer(l)
    \/ \E c \in {NoCover, coverChoices} : setCover(c)

SettingsSpec == SettingsInit /\ [][SettingsNext]_settingsVars

-----------------------------------------------------------------------------
(* Fields of one event are never shown as another's: when the form holds what was *)
(* loaded or typed for an event that is no longer in view, the page says so until *)
(* they are discarded, whatever switching, saving and typing led there.           *)
ForeignEditsFlagged == form.textOf # inView => staleEdits

(* Downloads need sharing: no stored event lets guests download all photos while  *)
(* it does not show them, so turning sharing on again never brings downloads back *)
(* that nobody turned on.                                                         *)
DownloadsNeedSharing == \A e \in Galas2 : kept[e].fields.download => kept[e].fields.seeAll

(* An event's cover is one of its own photos, though the server does not ask: the *)
(* picker never offers the photos of an event left behind, however late their     *)
(* list arrives.                                                                  *)
CoverIsItsOwn == \A e \in Galas2 : kept[e].cover \in {NoCover, e}
=============================================================================
