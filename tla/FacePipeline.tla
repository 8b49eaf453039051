---------------------------- MODULE FacePipeline ----------------------------
(***************************************************************************)
(* Faces and people of one event: services/face.service.ts, person.service *)
(* and their repositories.  Detection writes face rows, one recognition    *)
(* worker clusters them into people, the nightly cleanup, the organiser's  *)
(* merges, covers and names and the guests' claims meet it at every await. *)
(***************************************************************************)
EXTENDS Integers, Sequences, FiniteSets

CONSTANTS
    Faces,      \* one face per photo
    Persons,    \* ids the database can still hand out
    Near,       \* pairs of faces within maxDistance of each other
    minFaces,   \* neighbours, itself included, that make a face a core one
    MaxTime,    \* bound: claims and renames
    MaxActs,    \* bound: an organiser's requests, and nightly cleanups
    MaxFaults,  \* bound: crashes of a worker
    None

ASSUME FacePipelineAssumption ==
    /\ minFaces \in Nat \ {0} /\ MaxTime \in Nat /\ MaxActs \in Nat /\ MaxFaults \in Nat
    /\ None \notin Faces \cup Persons /\ IsFiniteSet(Faces)
    /\ \A pair \in Near : pair \subseteq Faces

VARIABLES
    face,      \* asset_face rows: does it exist, whose is it, the newest claim via it
    person,    \* person rows
    undetected,\* photos whose FaceDetect job waits
    detector,  \* what a FaceDetect handler has stored and not yet queued
    queue,     \* the FacialRecognition queue, in order
    worker,    \* its only job in progress
    cleaner,   \* people the PersonCleanup handler has read and not yet deleted
    desk,      \* the organiser's request in progress
    guest,     \* the participant handler naming the person of a claimed face
    clock,     \* orders claims and renames
    merged,    \* people that have taken in others
    collided,  \* a face met the delete of the person it was being given
    acts, credit

rows == <<face, person>>
bounds == <<clock, acts, credit>>
vars == <<rows, undetected, detector, queue, worker, cleaner, desk, guest,
          merged, collided, bounds>>

NoFace == [row |-> "unseen", person |-> None, claim |-> 0]
NoPerson == [id |-> "unused", cover |-> None, at |-> 0, by |-> "nobody",
             thumb |-> FALSE]
AllJob(force) == [face |-> None, deferred |-> force]
FaceJob(f, deferred) == [face |-> f, deferred |-> deferred]
Idle == [pc |-> "idle", face |-> None, person |-> None, doomed |-> {}]

Stored(f) == face[f].row = "stored"

\* Faces, persons, jobs and handlers have their types, and a face points at nobody or
\* at a person there is: a deleted person's faces are set to null by the foreign key,
\* a face assigned to one deleted meanwhile is refused (face.service.ts:289-305).
TypeOK ==
    /\ face \in [Faces -> [row : {"unseen", "stored", "removed"}, person : Persons \cup {None}, claim : 0..MaxTime]]
    /\ person \in [Persons -> [id : {"unused", "live", "gone"}, cover : Faces \cup {None},
                               at : 0..MaxTime, by : {"nobody", "guest", "organiser"},
                               thumb : BOOLEAN]]
    /\ \A f \in Faces : face[f].person # None =>
         Stored(f) /\ person[face[f].person].id = "live"
    /\ undetected \subseteq Faces /\ detector \in Faces \cup {None}
    /\ \A i \in DOMAIN queue : queue[i] \in [face : Faces \cup {None}, deferred : BOOLEAN]
    /\ worker \in [pc : {"idle", "assign", "name", "cleanup", "scan"}, face : Faces \cup {None},
                   person : Persons \cup {None}, doomed : SUBSET Persons]
    /\ cleaner \subseteq Persons
    /\ desk \in [pc : {"idle", "merge", "delete", "cover"}, face : Faces \cup {None},
                 person : Persons \cup {None}, doomed : SUBSET Persons]
    /\ guest \in [pc : {"idle", "claimed", "name"}, face : Faces \cup {None},
                  person : Persons \cup {None}, doomed : SUBSET Persons]
    /\ clock \in 0..MaxTime /\ acts \in 0..MaxActs /\ credit \in 0..MaxFaults
    /\ merged \subseteq Persons /\ collided \in BOOLEAN

Elements(s) == {s[i] : i \in DOMAIN s}
Live(p) == p # None /\ person[p].id = "live"
FacesOf(p) == {f \in Faces : face[f].person = p}
getAllWithoutFaces == {p \in Persons : Live(p) /\ FacesOf(p) = {}}
getUnassignedFaceIds == {f \in Faces : Stored(f) /\ face[f].person = None}
searchFaces(f) == {g \in Faces : Stored(g) /\ (g = f \/ {f, g} \in Near)}
getForRecognition(f) == Stored(f)

\* queue.add with deduplication: one FaceRecognizeQueueAll waiting or active.
HasAllJob == (\E j \in Elements(queue) : j.face = None) \/ worker.pc \in {"cleanup", "scan"}
AddAll(q, force) == IF HasAllJob THEN q ELSE Append(q, AllJob(force))
InOrder(F) == CHOOSE s \in [1..Cardinality(F) -> F] : Elements(s) = F

-----------------------------------------------------------------------------
(* Detection *)

\* Re-detection compares with the stored boxes: a known face is kept, a new one
\* stored with its embedding, one no longer found deleted with its claim. (Found
\* again it would be another row.)
DetectFaces(f) ==
    /\ f \in undetected /\ detector = None
    /\ \/ /\ face[f].row # "unseen"
          /\ UNCHANGED <<rows, detector>>
       \/ /\ face[f].row = "unseen"
          /\ face' = [face EXCEPT ![f].row = "stored"]
          /\ detector' = f
          /\ UNCHANGED person
       \/ /\ Stored(f)
          /\ face' = [face EXCEPT ![f] = [NoFace EXCEPT !.row = "removed"]]
          /\ person' = [p \in Persons |->
                IF person[p].cover = f THEN [person[p] EXCEPT !.cover = None] ELSE person[p]]
          /\ UNCHANGED detector
    /\ undetected' = undetected \ {f}
    /\ UNCHANGED <<queue, credit>>
\* queueAll adds the deduplicated sweep first, then the new face's own job.
QueueDetected ==
    /\ detector # None
    /\ queue' = Append(AddAll(queue, FALSE), FaceJob(detector, FALSE))
    /\ detector' = None
    /\ UNCHANGED <<rows, undetected, credit>>
\* The retried job finds the face stored and has nothing to add.
DetectorCrash ==
    /\ detector # None /\ credit > 0
    /\ undetected' = undetected \cup {detector}
    /\ detector' = None
    /\ credit' = credit - 1
    /\ UNCHANGED <<rows, queue>>

-----------------------------------------------------------------------------
(* Recognition *)

Take(next) == worker' = next /\ queue' = Tail(queue)
Finish == worker' = Idle

\* Alone, or not yet surrounded: skipped, or sent once more behind the others.
SkipFace(f, deferred) ==
    /\ \/ ~getForRecognition(f)
       \/ face[f].person # None
       \/ minFaces > 1 /\ Cardinality(searchFaces(f)) <= 1
    /\ queue' = Tail(queue) /\ UNCHANGED <<rows, worker>>
Candidate(f) ==
    /\ getForRecognition(f) /\ face[f].person = None
    /\ minFaces = 1 \/ Cardinality(searchFaces(f)) > 1
isCore(f) == Cardinality(searchFaces(f)) >= minFaces
DropsNonCore(f, deferred) ==
    /\ Candidate(f) /\ ~isCore(f) /\ ~deferred
    /\ queue' = Tail(queue)
    /\ UNCHANGED <<rows, worker>>
DeferFace(f, deferred) ==
    /\ Candidate(f) /\ ~isCore(f) /\ ~deferred
    /\ queue' = Append(Tail(queue), FaceJob(f, TRUE))
    /\ UNCHANGED <<rows, worker>>
\* The person of a neighbour; a core face without one makes its own.
JoinNeighbour(f, deferred) ==
    LET known == {face[g].person : g \in searchFaces(f)} \ {None}
    IN /\ Candidate(f)
       /\ isCore(f) \/ deferred
       /\ \/ /\ known # {}
             /\ \E p \in known : Take([Idle EXCEPT !.pc = "assign", !.face = f, !.person = p])
             /\ UNCHANGED rows
          \/ /\ known = {} /\ ~isCore(f)
             /\ queue' = Tail(queue) /\ UNCHANGED <<rows, worker>>
          \/ /\ known = {} /\ isCore(f)
             /\ \E p \in Persons :
                  /\ person[p].id = "unused"
                  /\ \A q \in Persons : person[q].id = "unused" => p <= q
                  /\ person' = [person EXCEPT ![p] = [NoPerson EXCEPT !.id = "live", !.cover = f]]
                  /\ Take([Idle EXCEPT !.pc = "assign", !.face = f, !.person = p])
             /\ UNCHANGED face
RecognizeFaces ==
    /\ worker.pc = "idle" /\ queue # <<>> /\ Head(queue).face # None
    /\ LET job == Head(queue)
       IN \/ SkipFace(job.face, job.deferred)
          \/ DeferFace(job.face, job.deferred)
          \/ JoinNeighbour(job.face, job.deferred)
    /\ UNCHANGED credit

\* One UPDATE: the newest claim via the person's faces, unless the name is newer.
AlwaysNames(p) ==
    LET claims == {face[f].claim : f \in FacesOf(p)} \ {0}
    IN IF Live(p) /\ claims # {}
       THEN [person EXCEPT ![p].by = "guest",
                ![p].at = CHOOSE t \in claims : \A u \in claims : u <= t]
       ELSE person
nameFromParticipants(p) ==
    LET claims == {face[f].claim : f \in FacesOf(p)} \ {0}
        latest == CHOOSE t \in claims : \A u \in claims : u <= t
    IN IF Live(p) /\ claims # {} /\ person[p].at < latest
       THEN [person EXCEPT ![p].by = "guest", ![p].at = latest]
       ELSE person

\* A person deleted meanwhile fails the foreign key, and the job is retried; a
\* face deleted meanwhile updates no row.
NamesBeforeAssigning ==
    /\ worker.pc = "assign" /\ Live(worker.person)
    /\ person' = nameFromParticipants(worker.person)
    /\ face' = [face EXCEPT ![worker.face].person = worker.person]
    /\ Finish
    /\ UNCHANGED <<queue, collided, credit>>
AssignFace ==
    /\ worker.pc = "assign"
    /\ IF Live(worker.person)
       THEN /\ face' = IF Stored(worker.face)
                       THEN [face EXCEPT ![worker.face].person = worker.person] ELSE face
            /\ worker' = [worker EXCEPT !.pc = "name"]
            /\ UNCHANGED <<queue, collided>>
       ELSE /\ Finish
            /\ queue' = Append(queue, FaceJob(worker.face, FALSE))
            /\ collided' = TRUE
            /\ UNCHANGED face
    /\ UNCHANGED <<person, credit>>

NameCluster ==
    /\ worker.pc = "name"
    /\ person' = nameFromParticipants(worker.person)
    /\ Finish
    /\ UNCHANGED <<face, queue, credit>>

\* FaceRecognizeQueueAll: waits until no detection is active; forced, it first
\* detaches every face and deletes the people left without one.
QueueRecognizeFaces ==
    /\ worker.pc = "idle" /\ queue # <<>> /\ Head(queue).face = None
    /\ detector = None
    /\ IF Head(queue).deferred
       THEN /\ face' = [f \in Faces |-> [face[f] EXCEPT !.person = None]]
            /\ Take([Idle EXCEPT !.pc = "cleanup", !.doomed = {p \in Persons : Live(p)}])
       ELSE Take([Idle EXCEPT !.pc = "scan"]) /\ UNCHANGED face
    /\ UNCHANGED <<person, credit>>
ScanUnassigned ==
    /\ worker.pc = "scan"
    /\ queue' = queue \o [i \in 1..Cardinality(getUnassignedFaceIds) |->
                            FaceJob(InOrder(getUnassignedFaceIds)[i], FALSE)]
    /\ Finish
    /\ UNCHANGED <<rows, credit>>
\* A dead worker's job stalls and is taken again.
WorkerCrash ==
    /\ worker.pc \in {"assign", "name"} /\ credit > 0
    /\ queue' = <<FaceJob(worker.face, FALSE)>> \o queue
    /\ Finish
    /\ credit' = credit - 1
    /\ UNCHANGED rows

-----------------------------------------------------------------------------
(* People *)

\* DELETE FROM person: ON DELETE SET NULL takes its faces' person away.
Delete(P) ==
    /\ face' = [f \in Faces |-> IF face[f].person \in P
                                THEN [face[f] EXCEPT !.person = None] ELSE face[f]]
    /\ person' = [p \in Persons |-> IF p \in P /\ Live(p)
                                    THEN [NoPerson EXCEPT !.id = "gone"] ELSE person[p]]
    /\ collided' = (collided \/ \E f \in Faces : face[f].person \in P)

PersonCleanup ==
    /\ cleaner = {} /\ getAllWithoutFaces # {}
    /\ cleaner' = getAllWithoutFaces
    /\ UNCHANGED <<rows, queue, worker, desk, collided, merged>>
DeleteFaceless ==
    /\ cleaner # {}
    /\ Delete(cleaner)
    /\ cleaner' = {}
    /\ UNCHANGED <<queue, worker, desk, merged>>
ForcedCleanup ==
    /\ worker.pc = "cleanup"
    /\ Delete(worker.doomed)
    /\ worker' = [Idle EXCEPT !.pc = "scan"]
    /\ UNCHANGED <<queue, cleaner, desk, merged>>

\* The crop is cut from the cover face: without one the job fails.
PersonThumbnail(p) ==
    /\ Live(p) /\ ~person[p].thumb /\ person[p].cover # None
    /\ person' = [person EXCEPT ![p].thumb = TRUE]
    /\ UNCHANGED <<face, queue, worker, cleaner, desk, collided, merged>>

Merge(p, others) ==
    /\ desk.pc = "idle" /\ Live(p) /\ \A q \in others : Live(q)
    /\ others # {} /\ p \notin others
    /\ desk' = [Idle EXCEPT !.pc = "merge", !.person = p, !.doomed = others]
    /\ UNCHANGED <<rows, queue, worker, cleaner, collided, merged>>
\* The target is gone: the foreign key refuses, if any face would move.
reassignFacesOfPeople ==
    /\ desk.pc = "merge"
    /\ IF Live(desk.person)
       THEN /\ face' = [f \in Faces |-> IF face[f].person \in desk.doomed
                  THEN [face[f] EXCEPT !.person = desk.person] ELSE face[f]]
            /\ desk' = [desk EXCEPT !.pc = "delete"]
            /\ merged' = merged \cup {desk.person}
       ELSE /\ desk' = IF \E f \in Faces : face[f].person \in desk.doomed
                       THEN Idle ELSE [desk EXCEPT !.pc = "delete"]
            /\ UNCHANGED <<face, merged>>
    /\ UNCHANGED <<person, queue, worker, cleaner, collided>>
DeleteMerged ==
    /\ desk.pc = "delete"
    /\ Delete(desk.doomed)
    /\ desk' = Idle
    /\ UNCHANGED <<queue, worker, cleaner, merged>>

setCover(p, f) ==
    /\ desk.pc = "idle" /\ Live(p) /\ face[f].person = p
    /\ desk' = [Idle EXCEPT !.pc = "cover", !.person = p, !.face = f]
    /\ UNCHANGED <<rows, queue, worker, cleaner, collided, merged>>
\* The row may be gone, and the face too: then the update throws.
CoverSet ==
    /\ desk.pc = "cover"
    /\ person' = IF Live(desk.person) /\ Stored(desk.face)
                 THEN [person EXCEPT ![desk.person].cover = desk.face] ELSE person
    /\ desk' = Idle
    /\ UNCHANGED <<face, queue, worker, cleaner, collided, merged>>

\* runFaceDetection: every photo again, and the sweep, forced or not.
Rerun(force) ==
    /\ undetected' = IF force THEN Faces ELSE undetected
    /\ queue' = AddAll(queue, force)
    /\ UNCHANGED <<rows, detector, worker, cleaner, desk, collided, merged>>

-----------------------------------------------------------------------------
(* Names *)

Rename(p) ==
    /\ Live(p) /\ clock < MaxTime
    /\ clock' = clock + 1
    /\ person' = [person EXCEPT ![p].at = clock + 1, ![p].by = "organiser"]
    /\ UNCHANGED <<face, guest>>
\* A guest's match is stored, then the people of its face are read, then named.
Claim(f) ==
    /\ Stored(f) /\ guest.pc = "idle" /\ clock < MaxTime
    /\ clock' = clock + 1
    /\ face' = [face EXCEPT ![f].claim = clock + 1]
    /\ guest' = [Idle EXCEPT !.pc = "claimed", !.face = f]
    /\ UNCHANGED person
getPersonsForFaces ==
    /\ guest.pc = "claimed"
    /\ guest' = IF face[guest.face].person = None THEN Idle
                ELSE [Idle EXCEPT !.pc = "name", !.person = face[guest.face].person]
    /\ UNCHANGED <<rows, clock>>
nameMatchedPerson ==
    /\ guest.pc = "name"
    /\ person' = nameFromParticipants(guest.person)
    /\ guest' = Idle
    /\ UNCHANGED <<face, clock>>
getClaimedPersonIds == {p \in Persons : Live(p) /\ \E f \in FacesOf(p) : face[f].claim > 0}
PersonNameBackfill ==
    /\ \E p \in getClaimedPersonIds : person' = nameFromParticipants(p)
    /\ UNCHANGED <<face, guest, clock>>

-----------------------------------------------------------------------------

Untouched ==
    /\ face = [f \in Faces |-> NoFace]
    /\ person = [p \in Persons |-> NoPerson]
    /\ undetected = Faces /\ detector = None
    /\ queue = <<>> /\ worker = Idle /\ cleaner = {} /\ desk = Idle /\ guest = Idle
    /\ merged = {} /\ collided = FALSE
Init == Untouched /\ clock = 0 /\ acts = MaxActs /\ credit = MaxFaults

Detection ==
    /\ \/ \E f \in Faces : DetectFaces(f)
       \/ QueueDetected
       \/ DetectorCrash
    /\ UNCHANGED <<worker, cleaner, desk, guest, merged, collided, clock, acts>>
Recognition ==
    /\ \/ AssignFace
       \/ /\ \/ RecognizeFaces \/ NameCluster \/ QueueRecognizeFaces \/ ScanUnassigned
             \/ WorkerCrash
          /\ UNCHANGED collided
    /\ UNCHANGED <<undetected, detector, cleaner, desk, guest, merged, clock, acts>>
Upkeep ==
    /\ DeleteFaceless \/ ForcedCleanup \/ \E p \in Persons : PersonThumbnail(p)
    /\ UNCHANGED <<undetected, detector, guest, bounds>>
Request ==
    /\ acts > 0
    /\ acts' = acts - 1
    /\ \/ /\ \/ \E p \in Persons, others \in SUBSET Persons : Merge(p, others)
             \/ \E p \in Persons, f \in Faces : setCover(p, f)
             \/ PersonCleanup
          /\ UNCHANGED <<undetected, detector>>
       \/ \E force \in BOOLEAN : Rerun(force)
    /\ UNCHANGED <<guest, clock, credit>>
RequestGoesOn ==
    /\ reassignFacesOfPeople \/ DeleteMerged \/ CoverSet
    /\ UNCHANGED <<undetected, detector, guest, bounds>>
Naming ==
    /\ \/ \E p \in Persons : Rename(p)
       \/ \E f \in Faces : Claim(f)
       \/ getPersonsForFaces \/ nameMatchedPerson \/ PersonNameBackfill
    /\ UNCHANGED <<undetected, detector, queue, worker, cleaner, desk, merged, collided,
                   acts, credit>>
Next ==
    \/ Detection \/ Recognition \/ Upkeep
    \/ Request \/ RequestGoesOn \/ Naming

Spec == Init /\ [][Next]_vars

\* The queues are served; organisers, guests and faults are not.
Fairness ==
    /\ WF_vars(Detection /\ ~DetectorCrash) /\ WF_vars(Recognition /\ ~WorkerCrash)
    /\ WF_vars(Upkeep) /\ WF_vars(RequestGoesOn)

FairSpec == Spec /\ Fairness

-----------------------------------------------------------------------------
(* Properties *)

\* Between the organiser and the guests the last to act wins: no job, whenever
\* it runs, puts an older name over a newer one.
NamesMoveForward ==
    [][\A p \in Persons : Live(p) /\ person'[p].id = "live" =>
         person'[p].at >= person[p].at]_vars

\* Matching and clustering race, and whichever ends last names the person: a
\* claimed face's person has that name or a newer one, or the handler that will
\* give it is under way. Merging keeps the target's name, and a handler that
\* died may leave it out.
ClaimReachesCluster ==
    \A f \in Faces : face[f].claim > 0 /\ face[f].person # None =>
        \/ person[face[f].person].at >= face[f].claim
        \/ worker.pc = "name" /\ worker.person = face[f].person
        \/ guest.pc = "claimed" /\ guest.face = f
        \/ guest.pc = "name" /\ guest.person = face[f].person
        \/ face[f].person \in merged
        \/ credit < MaxFaults

\* The portrait never shows somebody else: a person that has faces has one of
\* them for its cover, or none. (Merging into a person a died worker left without
\* faces keeps that person's cover.)
CoverIsOwn ==
    \A p \in Persons : Live(p) /\ FacesOf(p) # {} /\ p \notin desk.doomed \cup merged =>
        person[p].cover \in FacesOf(p) \cup {None}

\* Every face with enough neighbours, and every neighbour of one, ends up in a
\* person, however detection, deferral, the sweep and its deduplication order
\* themselves; a crash between a face and its jobs, and a delete that met a
\* face just assigned, are the ways to lose one.
Clustered == \A f, g \in Faces :
    Stored(f) /\ isCore(f) /\ g \in searchFaces(f) => face[g].person # None
FacesClustered == <>[](Clustered \/ collided \/ credit < MaxFaults)

\* People stay true to their faces through clustering, cleanup, merge and claims: a
\* face's person lives, carries the name claimed for it and has a portrait of its own
\* (face.service.ts:275-305, person.service.ts:151-170).
PeopleInv == TypeOK /\ ClaimReachesCluster /\ CoverIsOwn
=============================================================================
