---------------------------- MODULE ImportsPage ----------------------------
(***************************************************************************)
(* The imports page of an event: the list it polls while an import is at    *)
(* work, the failures it looks up, and the wizard that walks a drive's      *)
(* folders.  Neither the list's answers nor the folders' are ordered.       *)
(***************************************************************************)
EXTENDS Integers, Sequences

CONSTANTS Parties,      \* events
          Folders, RootFolder, ParentOf,  \* the account's drive
          MaxTouches    \* bound on what the user and the imports do

ASSUME ImportsPageConstants ==
    /\ RootFolder \in Folders /\ ParentOf \in [Folders \ {RootFolder} -> Folders]
    /\ MaxTouches \in Nat

VARIABLES
    importing,      \* events with an import listing or importing
    atEvent,        \* eventId, "" once the page is left
    listedBusy,     \* some import on screen is listing or importing
    importsTimer,
    listCalls,      \* list requests under way: [event, number]
    detailCalls,    \* details under way, as the server answered: still at work or not
    wizard,         \* showWizard with an account picked
    crumbs,         \* folders from the root to the current one
    folders,        \* the folder whose children are listed
    foldersLoading,
    folderCalls,    \* folder listings under way: [folder, number]
    \* history
    staleDetail,    \* details that disagree with the list were put into it
    overtaken,      \* the children of a folder other than the current one were listed
    touches

importsVars == <<importing, atEvent, listedBusy, importsTimer, listCalls, detailCalls, wizard, crumbs, folders,
                 foldersLoading, folderCalls, staleDetail, overtaken, touches>>
listState == <<listedBusy, importsTimer, listCalls, detailCalls, staleDetail>>
wizardState == <<wizard, crumbs, folders, foldersLoading, folderCalls, overtaken>>

Touch == atEvent # "" /\ touches < MaxTouches /\ touches' = touches + 1

ListCall(e) == listCalls \cup {[event |-> e, number |-> touches]}

-----------------------------------------------------------------------------
(* The list.                                                               *)

\* The effect clears list and timer; the wizard stays as it is.
openImports(e) ==
    /\ Touch /\ e # atEvent /\ atEvent' = e
    /\ listedBusy' = FALSE /\ importsTimer' = FALSE
    /\ listCalls' = ListCall(e)
    /\ UNCHANGED <<importing, detailCalls, staleDetail, wizardState>>

\* Mutant: a timer that runs is left running.
OnlyStarts(busy) == importsTimer' = (importsTimer \/ busy)

schedule(busy) == importsTimer' = busy

\* An answer replaces the list, whichever event asked.
listAnswered(c) ==
    /\ c \in listCalls /\ listCalls' = listCalls \ {c}
    /\ listedBusy' = (c.event \in importing)
    /\ schedule(c.event \in importing)
    /\ staleDetail' = FALSE
    /\ UNCHANGED <<importing, atEvent, detailCalls, wizardState, touches>>

\* An error is not caught: the page stays as it is.
listFailed(c) ==
    /\ c \in listCalls /\ listCalls' = listCalls \ {c}
    /\ UNCHANGED <<importing, atEvent, listedBusy, importsTimer, detailCalls, staleDetail, wizardState, touches>>

\* The timer asks every 3 s; requests of the user's overlap with it.
pollImports ==
    /\ importsTimer /\ atEvent # "" /\ listCalls = {}
    /\ listCalls' = ListCall(atEvent)
    /\ UNCHANGED <<importing, atEvent, listedBusy, importsTimer, detailCalls, staleDetail, wizardState, touches>>

\* Details are asked of an import on screen and answered as it then is ...
toggleDetails ==
    /\ Touch /\ detailCalls = {}
    /\ detailCalls' = {atEvent \in importing}
    /\ UNCHANGED <<importing, atEvent, listedBusy, importsTimer, listCalls, staleDetail, wizardState>>

\* ... and replace its row, however old they are by then; one of another event finds no row.
detailsShown(busy) ==
    /\ busy \in detailCalls /\ detailCalls' = {}
    /\ \/ listedBusy' = busy /\ staleDetail' = (staleDetail \/ busy # listedBusy)
       \/ UNCHANGED <<listedBusy, staleDetail>>
    /\ UNCHANGED <<importing, atEvent, importsTimer, listCalls, wizardState, touches>>

cancelImport ==
    /\ Touch /\ listedBusy
    /\ importing' = importing \ {atEvent}
    /\ listCalls' = ListCall(atEvent)
    /\ UNCHANGED <<atEvent, listedBusy, importsTimer, detailCalls, staleDetail, wizardState>>

ImportFinishes(e) ==
    /\ e \in importing /\ importing' = importing \ {e}
    /\ UNCHANGED <<atEvent, listState, wizardState, touches>>

leaveImports ==
    /\ atEvent # "" /\ atEvent' = "" /\ importsTimer' = FALSE
    /\ UNCHANGED <<importing, listedBusy, listCalls, detailCalls, staleDetail, wizardState, touches>>

-----------------------------------------------------------------------------
(* The wizard.                                                             *)

currentFolder == crumbs[Len(crumbs)]

\* openWizard starts anew, but a listing under way still answers.
openWizard ==
    /\ Touch /\ ~ wizard /\ wizard' = TRUE
    /\ crumbs' = <<RootFolder>> /\ foldersLoading' = TRUE /\ folders' = ""
    /\ folderCalls' = folderCalls \cup {[folder |-> RootFolder, number |-> touches]}
    /\ overtaken' = FALSE
    /\ UNCHANGED <<importing, atEvent, listState>>

\* Crumbs first, then the request.
Enter(path, f) ==
    /\ foldersLoading' = TRUE
    /\ crumbs' = Append(path, f)
    /\ folderCalls' = folderCalls \cup {[folder |-> f, number |-> touches]}

enterFolder(f) ==
    /\ Touch /\ wizard /\ ~ foldersLoading
    /\ f # RootFolder /\ ParentOf[f] = folders
    /\ Enter(crumbs, f)
    /\ UNCHANGED <<importing, atEvent, listState, wizard, folders, overtaken>>

CrumbsBefore(index) == SubSeq(crumbs, 1, index - 1)

\* The crumbs can be clicked while a listing is under way.
jumpToCrumb(index) ==
    /\ Touch /\ wizard /\ index < Len(crumbs)
    /\ Enter(CrumbsBefore(index), crumbs[index])
    /\ UNCHANGED <<importing, atEvent, listState, wizard, folders, overtaken>>

foldersListed(c) ==
    /\ c \in folderCalls /\ folderCalls' = folderCalls \ {c}
    /\ folders' = c.folder /\ foldersLoading' = FALSE
    /\ overtaken' = (overtaken \/ c.folder # currentFolder)
    /\ UNCHANGED <<importing, atEvent, listState, wizard, crumbs, touches>>

\* The spinner stays; only the crumbs can still be clicked.
foldersFailed(c) ==
    /\ c \in folderCalls /\ folderCalls' = folderCalls \ {c}
    /\ UNCHANGED <<importing, atEvent, listState, wizard, crumbs, folders, foldersLoading, overtaken, touches>>

closeWizard ==
    /\ wizard /\ wizard' = FALSE
    /\ UNCHANGED <<importing, atEvent, listState, crumbs, folders, foldersLoading, folderCalls, overtaken, touches>>

\* The button imports the last crumb into the event of the moment.
startImport ==
    /\ Touch /\ wizard
    /\ importing' = importing \cup {atEvent}
    /\ wizard' = FALSE
    /\ listCalls' = ListCall(atEvent)
    /\ UNCHANGED <<atEvent, listedBusy, importsTimer, detailCalls, staleDetail,
                   crumbs, folders, foldersLoading, folderCalls, overtaken>>

ImportsInit ==
    /\ importing \in SUBSET Parties
    /\ atEvent \in Parties /\ listedBusy = FALSE /\ importsTimer = FALSE
    /\ listCalls = {[event |-> atEvent, number |-> 0]} /\ detailCalls = {}
    /\ wizard = FALSE /\ crumbs = <<RootFolder>> /\ folders = "" /\ foldersLoading = FALSE /\ folderCalls = {}
    /\ staleDetail = FALSE /\ overtaken = FALSE /\ touches = 0

ImportsNext ==
    \/ \E e \in Parties : openImports(e) \/ ImportFinishes(e)
    \/ \E c \in listCalls : listAnswered(c) \/ listFailed(c)
    \/ \E busy \in detailCalls : detailsShown(busy)
    \/ pollImports \/ toggleDetails \/ cancelImport \/ leaveImports
    \/ openWizard \/ closeWizard \/ startImport
    \/ \E f \in Folders : enterFolder(f)
    \/ \E index \in 1..Len(crumbs) : jumpToCrumb(index)
    \/ \E c \in folderCalls : foldersListed(c) \/ foldersFailed(c)

ImportsPageSpec == ImportsInit /\ [][ImportsNext]_importsVars

-----------------------------------------------------------------------------
(* What the page shows at work it keeps asking about, and it asks no longer than   *)
(* that; only details that were overtaken by the list's own answer break this.      *)
WatchedWhileImporting ==
    atEvent # "" /\ listCalls = {} /\ ~ staleDetail => (importsTimer <=> listedBusy)

(* The breadcrumbs, which name the import, are the path from the drive's root to    *)
(* the folder that is imported, through every walk and jump, as long as no answer   *)
(* for another folder overtook the current one's.                                   *)
CrumbsArePath ==
    ~ overtaken =>
        /\ crumbs[1] = RootFolder
        /\ \A i \in 2..Len(crumbs) : crumbs[i] # RootFolder /\ ParentOf[crumbs[i]] = crumbs[i - 1]

(* The page follows what it started: its list is polled while an import is at work, *)
(* and the crumbs that name the next import are the path to its folder.             *)
ImportsPageFits == WatchedWhileImporting /\ CrumbsArePath
=============================================================================
