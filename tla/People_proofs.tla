---------------------------- MODULE People_proofs ----------------------------
(***************************************************************************)
(* People stay true to their faces through detection, clustering, cleanup, *)
(* the organiser's requests and the guests' claims, in every interleaving; *)
(* the pages about people act on what they show; and the smart search over *)
(* the same photos misses none of them.                                    *)
(***************************************************************************)
EXTENDS FacePipeline, PeoplePage, SmartSearch, FiniteSetTheorems, WellFoundedInduction, NaturalsInduction, TLAPS

-----------------------------------------------------------------------------
(* Numbers *)

\* A set of numbers has a least one.
LEMMA Least ==
    ASSUME NEW S \in SUBSET Nat, S # {}
    PROVE  \E x \in S : \A y \in S : x <= y
<1> DEFINE Below == OpToRel(<, Nat)
<1>1. \E x \in S : \A y \in S : ~ (<<y, x>> \in Below)
  <2>1. IsWellFoundedOn(Below, Nat)
    BY NatLessThanWellFounded
  <2> HIDE DEF Below
  <2> QED BY <2>1, WFMin
<1>2. \A x, y \in Nat : y < x => <<y, x>> \in Below
  BY DEF OpToRel
<1> HIDE DEF Below
<1>3. PICK x \in S : \A y \in S : ~ (<<y, x>> \in Below)
  BY <1>1
<1>4. \A y \in S : ~ (y < x)
  BY <1>2, <1>3
<1> QED BY <1>4

\* Of a set of numbers that is bounded there is a greatest one.
LEMMA Greatest ==
    ASSUME NEW n \in Nat, NEW S \in SUBSET (0..n), S # {}
    PROVE  \E x \in S : \A y \in S : y <= x
<1> DEFINE Short == {n - y : y \in S}
<1>0. Short \subseteq Nat /\ Short # {}
  <2>1. \A y \in S : n - y \in Nat /\ n - y \in Short
    OBVIOUS
  <2> QED BY <2>1
<1>1. PICK u \in Short : \A v \in Short : u <= v
  BY <1>0, Least
<1>2. PICK x \in S : u = n - x
  OBVIOUS
<1>3. ASSUME NEW y \in S PROVE y <= x
  <2>1. n - y \in Short
    OBVIOUS
  <2>2. n - x <= n - y
    BY <1>1, <1>2, <2>1
  <2> QED BY <2>2
<1> QED BY <1>3

\* A part of a finite set is smaller than the whole.
LEMMA PartIsSmaller ==
    ASSUME NEW A, IsFiniteSet(A), NEW B \in SUBSET A
    PROVE  /\ IsFiniteSet(B) /\ Cardinality(B) \in Nat /\ Cardinality(A) \in Nat
           /\ Cardinality(B) <= Cardinality(A)
           /\ B # A => Cardinality(B) < Cardinality(A)
<1>1. IsFiniteSet(B) /\ Cardinality(B) <= Cardinality(A) /\ (B # A => Cardinality(B) # Cardinality(A))
  BY FS_Subset
<1>2. Cardinality(B) \in Nat /\ Cardinality(A) \in Nat
  BY <1>1, FS_CardinalityType
<1> QED BY <1>1, <1>2

\* So there is of a finite set: the one that the fewest exceed.
LEMMA FiniteGreatest ==
    ASSUME NEW S \in SUBSET Nat, IsFiniteSet(S), S # {}
    PROVE  \E x \in S : \A y \in S : x >= y
<1> DEFINE Above(x) == {y \in S : y > x}
           counts == {Cardinality(Above(x)) : x \in S}
<1>1. \A x \in S : IsFiniteSet(Above(x)) /\ Cardinality(Above(x)) \in Nat
  BY FS_Subset, FS_CardinalityType
<1>2. counts \subseteq Nat /\ counts # {}
  BY <1>1
<1>3. PICK k \in counts : \A n \in counts : k <= n
  BY <1>2, Least
<1>4. PICK x \in S : k = Cardinality(Above(x))
  OBVIOUS
<1>5. ASSUME NEW y \in S, y > x PROVE FALSE
  <2>1. Above(y) \subseteq Above(x) /\ y \in Above(x) /\ y \notin Above(y)
    <3>1. \A z \in S : z \in Int
      OBVIOUS
    <3>2. \A z \in S : z > y => z > x
      BY <1>5, <3>1
    <3>3. ~ (y > y)
      BY <3>1
    <3> QED BY <1>5, <3>2, <3>3
  <2>2. Cardinality(Above(y)) < Cardinality(Above(x))
    <3> HIDE DEF Above
    <3>1. IsFiniteSet(Above(x)) /\ Above(y) # Above(x)
      BY <1>1, <2>1
    <3> QED BY <2>1, <3>1, PartIsSmaller
  <2>3. Cardinality(Above(y)) \in counts
    OBVIOUS
  <2> HIDE DEF Above, counts
  <2> QED BY <1>1, <1>3, <1>4, <2>2, <2>3
<1> QED BY <1>5

-----------------------------------------------------------------------------
(* Faces and their people *)

FaceRow == [row : {"unseen", "stored", "removed"}, person : Persons \cup {None}, claim : 0..MaxTime]
PersonRow == [id : {"unused", "live", "gone"}, cover : Faces \cup {None}, at : 0..MaxTime,
              by : {"nobody", "guest", "organiser"}, thumb : BOOLEAN]
Job == [face : Faces \cup {None}, deferred : BOOLEAN]

\* The foreign keys of a face's person and of a person's cover.
PersonExists(faces, holders) ==
    \A f \in Faces : faces[f].person # None =>
        faces[f].row = "stored" /\ holders[faces[f].person].id = "live"
CoverExists(faces, holders) ==
    \A p \in Persons : holders[p].cover # None => faces[holders[p].cover].row = "stored"

RowsTrue ==
    /\ face \in [Faces -> FaceRow] /\ person \in [Persons -> PersonRow]
    /\ PersonExists(face, person) /\ CoverExists(face, person)

\* What a handler holds is an id; the face being assigned has nobody; and while a
\* forced run deletes everybody no face has anybody.
WorkerTrue ==
    /\ worker.pc \in {"assign", "name"} => worker.face \in Faces /\ worker.person \in Persons
    /\ worker.pc = "assign" => face[worker.face].person = None
    /\ worker.pc = "cleanup" => /\ \A f \in Faces : face[f].person = None
                                /\ \A p \in Persons : Live(p) => p \in worker.doomed

\* A portrait asked for is of a face its person still has, unless one of them is gone
\* or about to be.
DeskTrue ==
    /\ desk.pc # "idle" => desk.person \in Persons
    /\ desk.pc = "cover" =>
         /\ desk.face \in Faces /\ face[desk.face].row # "unseen"
         /\ person[desk.person].id # "unused"
         /\ Live(desk.person) /\ Stored(desk.face) =>
              face[desk.face].person = desk.person \/ worker.pc = "cleanup"

GuestTrue ==
    /\ guest.pc = "claimed" => guest.face \in Faces
    /\ guest.pc = "name" => guest.person \in Persons

\* No claim and no name is from later than now.
TimesPast ==
    /\ \A f \in Faces : face[f].claim <= clock
    /\ \A p \in Persons : person[p].at <= clock

HandlersTyped ==
    /\ undetected \subseteq Faces /\ detector \in Faces \cup {None}
    /\ queue \in Seq(Job)
    /\ worker \in [pc : {"idle", "assign", "name", "cleanup", "scan"}, face : Faces \cup {None},
                   person : Persons \cup {None}, doomed : SUBSET Persons]
    /\ cleaner \subseteq Persons
    /\ desk \in [pc : {"idle", "merge", "delete", "cover"}, face : Faces \cup {None},
                 person : Persons \cup {None}, doomed : SUBSET Persons]
    /\ guest \in [pc : {"idle", "claimed", "name"}, face : Faces \cup {None},
                  person : Persons \cup {None}, doomed : SUBSET Persons]
    /\ clock \in 0..MaxTime /\ acts \in 0..MaxActs /\ credit \in 0..MaxFaults
    /\ merged \subseteq Persons /\ collided \in BOOLEAN

\* The cover of a person with faces is one of them, and stays so when the worker has
\* assigned what it holds; merging is what breaks it.
CoverHeld(p) ==
    Live(p) /\ p \notin merged /\ ~ (desk.pc = "delete" /\ p \in desk.doomed) =>
        /\ FacesOf(p) # {} => person[p].cover \in FacesOf(p) \cup {None}
        /\ worker.pc = "assign" /\ worker.person = p =>
             person[p].cover \in FacesOf(p) \cup {None, worker.face}

\* What the run checks of one face.
NamedFor(f) ==
    face[f].claim > 0 /\ face[f].person # None =>
        \/ person[face[f].person].at >= face[f].claim
        \/ worker.pc = "name" /\ worker.person = face[f].person
        \/ guest.pc = "claimed" /\ guest.face = f
        \/ guest.pc = "name" /\ guest.person = face[f].person
        \/ face[f].person \in merged
        \/ credit < MaxFaults

FaceStrong ==
    /\ HandlersTyped /\ RowsTrue /\ WorkerTrue /\ DeskTrue /\ GuestTrue /\ TimesPast
    /\ \A p \in Persons : CoverHeld(p)
    /\ \A f \in Faces : NamedFor(f)

\* No name goes back in a step.
Forward == \A p \in Persons :
    Live(p) /\ person'[p].id = "live" => person'[p].at >= person[p].at

\* It is what the people promise, and more.
LEMMA StrongIsPeople == FaceStrong => PeopleInv
<1> SUFFICES ASSUME FaceStrong PROVE PeopleInv
  OBVIOUS
<1>1. TypeOK
  <2>1. \A i \in DOMAIN queue : queue[i] \in Job
    BY DEF FaceStrong, HandlersTyped
  <2>2. \A f \in Faces : face[f].person # None => Stored(f) /\ person[face[f].person].id = "live"
    BY DEF FaceStrong, RowsTrue, PersonExists, Stored
  <2>3. face \in [Faces -> FaceRow] /\ person \in [Persons -> PersonRow]
    BY DEF FaceStrong, RowsTrue
  <2>4. HandlersTyped
    BY DEF FaceStrong
  <2> QED BY <2>1, <2>2, <2>3, <2>4 DEF HandlersTyped, TypeOK, FaceRow, PersonRow, Job
<1>2. CoverIsOwn
  BY DEF FaceStrong, CoverHeld, CoverIsOwn
<1>3. ClaimReachesCluster
  BY DEF FaceStrong, NamedFor, ClaimReachesCluster
<1> QED BY <1>1, <1>2, <1>3 DEF PeopleInv

\* Naming from the claims writes the newest of them and no other person, and never an
\* older name over a newer.
LEMMA NamedByClaims ==
    ASSUME RowsTrue, TimesPast, clock \in 0..MaxTime, NEW p \in Persons
    PROVE  LET named == nameFromParticipants(p)
           IN /\ named \in [Persons -> PersonRow]
              /\ \A q \in Persons :
                    /\ named[q].id = person[q].id /\ named[q].cover = person[q].cover
                    /\ person[q].at <= named[q].at /\ named[q].at <= clock
              /\ \A f \in FacesOf(p) : face[f].claim <= named[p].at
<1> USE FacePipelineAssumption
<1> DEFINE claims == {face[f].claim : f \in FacesOf(p)} \ {0}
           latest == CHOOSE t \in claims : \A u \in claims : u <= t
<1>1. claims \subseteq 0..clock /\ clock \in Nat /\ clock <= MaxTime
  BY DEF RowsTrue, FaceRow, FacesOf, TimesPast
<1>2. claims # {} => latest \in claims /\ \A u \in claims : u <= latest
  BY <1>1, Greatest
<1>3. \A q \in Persons : person[q] \in PersonRow /\ person[q].at <= clock
  BY DEF RowsTrue, TimesPast
<1>4. p # None
  OBVIOUS
<1>5. \A f \in FacesOf(p) : Live(p) /\ (face[f].claim = 0 \/ face[f].claim \in claims)
  BY <1>4 DEF FacesOf, RowsTrue, PersonExists, Live
<1>6. CASE Live(p) /\ claims # {} /\ person[p].at < latest
  <2>1. nameFromParticipants(p) = [person EXCEPT ![p].by = "guest", ![p].at = latest]
    BY <1>6 DEF nameFromParticipants
  <2>2. latest \in 0..MaxTime /\ latest <= clock
    BY <1>1, <1>2, <1>6
  <2> DEFINE row == [person[p] EXCEPT !.by = "guest", !.at = latest]
  <2>3. nameFromParticipants(p) = [person EXCEPT ![p] = row]
    BY <2>1
  <2>4. /\ row \in PersonRow /\ row.at = latest
        /\ row.id = person[p].id /\ row.cover = person[p].cover
    BY <2>2, <1>3 DEF PersonRow
  <2> HIDE DEF row
  <2>5. /\ nameFromParticipants(p) \in [Persons -> PersonRow]
        /\ nameFromParticipants(p)[p] = row
        /\ \A q \in Persons : q # p => nameFromParticipants(p)[q] = person[q]
    BY <2>3, <2>4 DEF RowsTrue
  <2>6. \A f \in FacesOf(p) : face[f].claim <= latest
    <3> SUFFICES ASSUME NEW f \in FacesOf(p) PROVE face[f].claim <= latest
      OBVIOUS
    <3>1. CASE face[f].claim = 0
      BY <2>2, <3>1
    <3>2. CASE face[f].claim \in claims
      BY <1>2, <1>6, <3>2
    <3> QED BY <1>5, <3>1, <3>2
  <2>7. \A q \in Persons : person[q].at \in Int
    BY <1>3 DEF PersonRow
  <2> HIDE DEF claims, latest
  <2>8. person[p].at < latest
    BY <1>6
  <2>9. \A q \in Persons :
          /\ nameFromParticipants(p)[q].id = person[q].id
          /\ nameFromParticipants(p)[q].cover = person[q].cover
          /\ person[q].at <= nameFromParticipants(p)[q].at
          /\ nameFromParticipants(p)[q].at <= clock
    BY <1>3, <2>2, <2>4, <2>5, <2>7, <2>8
  <2>10. \A f \in FacesOf(p) : face[f].claim <= nameFromParticipants(p)[p].at
    BY <2>4, <2>5, <2>6
  <2> QED BY <2>5, <2>9, <2>10
<1>7. CASE ~ (Live(p) /\ claims # {} /\ person[p].at < latest)
  <2>1. nameFromParticipants(p) = person
    BY <1>7 DEF nameFromParticipants
  <2>2. \A q \in Persons : person[q].at \in Nat
    BY <1>3 DEF PersonRow
  <2>3. claims # {} => latest \in Nat
    BY <1>1, <1>2
  <2>4. \A f \in FacesOf(p) : face[f].claim <= person[p].at
    <3> SUFFICES ASSUME NEW f \in FacesOf(p) PROVE face[f].claim <= person[p].at
      OBVIOUS
    <3>1. CASE face[f].claim = 0
      BY <2>2, <3>1
    <3>2. CASE face[f].claim \in claims
      <4> HIDE DEF claims, latest
      <4>1. /\ Live(p)
            /\ face[f].claim <= latest
            /\ face[f].claim \in Nat
        <5>1. Live(p)
          BY <1>5
        <5>2. face[f].claim <= latest
          BY <1>2, <3>2
        <5>3. face[f].claim \in Nat
          BY DEF RowsTrue, FaceRow, FacesOf
        <5> QED BY <5>1, <5>2, <5>3
      <4>2. claims # {}
        BY <3>2
      <4>3. latest <= person[p].at
        BY <1>7, <2>2, <2>3, <4>1, <4>2
      <4> QED BY <2>2, <2>3, <4>1, <4>2, <4>3
    <3> QED BY <1>5, <3>1, <3>2
  <2> QED BY <1>3, <2>1, <2>2, <2>4 DEF RowsTrue
<1> QED BY <1>6, <1>7

\* A person keeps a cover of its own when it gains no face, loses none that is its
\* cover, and neither the worker takes up a face nor a merge that moved faces ends.
LEMMA CoverStays ==
    ASSUME FaceStrong, NEW p \in Persons,
           Live(p)' => Live(p),
           person'[p].cover \in {person[p].cover, None},
           \A f \in Faces : face'[f].person = p => face[f].person = p,
           \A f \in Faces : face[f].person = p /\ face'[f].person # p => person'[p].cover # f,
           merged \subseteq merged',
           desk.pc = "delete" /\ p \in desk.doomed /\ Live(p)' => desk' = desk,
           worker'.pc = "assign" => worker' = worker
    PROVE  CoverHeld(p)'
<1> SUFFICES ASSUME Live(p)', p \notin merged', ~ (desk.pc = "delete" /\ p \in desk.doomed)'
             PROVE  /\ FacesOf(p)' # {} => person'[p].cover \in FacesOf(p)' \cup {None}
                    /\ worker'.pc = "assign" /\ worker'.person = p =>
                         person'[p].cover \in FacesOf(p)' \cup {None, worker'.face}
  BY DEF CoverHeld
<1>1. Live(p) /\ p \notin merged /\ ~ (desk.pc = "delete" /\ p \in desk.doomed)
  OBVIOUS
<1>2. /\ FacesOf(p) # {} => person[p].cover \in FacesOf(p) \cup {None}
      /\ worker.pc = "assign" /\ worker.person = p =>
           person[p].cover \in FacesOf(p) \cup {None, worker.face}
  BY <1>1 DEF FaceStrong, CoverHeld
<1>3. FacesOf(p)' \subseteq FacesOf(p) /\ \A f \in FacesOf(p) \ FacesOf(p)' : person'[p].cover # f
  BY DEF FacesOf
<1> QED BY <1>2, <1>3

\* A face's claim stays with its person when no name goes back, no handler that will
\* give the name ends, and the face goes to nobody else.
LEMMA ClaimStays ==
    ASSUME FaceStrong, NEW f \in Faces,
           credit' \in 0..credit, merged \subseteq merged',
           face'[f].claim \in {face[f].claim, 0}, face'[f].person \in {face[f].person, None},
           face'[f].person # None =>
             /\ person'[face[f].person].at \in Nat
             /\ person[face[f].person].at <= person'[face[f].person].at,
           worker.pc = "name" => worker' = worker \/ credit' < MaxFaults,
           guest.pc # "idle" => guest' = guest
    PROVE  NamedFor(f)'
<1>1. NamedFor(f) /\ credit \in 0..MaxFaults /\ MaxFaults \in Nat
  BY FacePipelineAssumption DEF FaceStrong, HandlersTyped
<1>2. face[f].claim \in Nat
  BY DEF FaceStrong, RowsTrue, FaceRow
<1>3. face[f].person # None => person[face[f].person].at \in Nat
  BY DEF FaceStrong, RowsTrue, FaceRow, PersonRow
<1> QED BY <1>1, <1>2, <1>3 DEF NamedFor

\* Steps that touch no row, and no handler that holds one.
LEMMA RowsStay ==
    ASSUME FaceStrong, UNCHANGED <<face, person, worker, desk, guest, merged, clock>>,
           HandlersTyped', credit' \in 0..credit
    PROVE  FaceStrong' /\ Forward
<1>1. RowsTrue' /\ WorkerTrue' /\ DeskTrue' /\ GuestTrue' /\ TimesPast'
  BY DEF FaceStrong, RowsTrue, PersonExists, CoverExists, WorkerTrue, DeskTrue, GuestTrue, TimesPast,
         Live, Stored
<1>2. \A p \in Persons : CoverHeld(p)'
  BY DEF FaceStrong, CoverHeld, FacesOf, Live
<1>3. \A f \in Faces : NamedFor(f)'
  <2> TAKE f \in Faces
  <2>1. credit \in Nat /\ NamedFor(f)
    BY FacePipelineAssumption DEF FaceStrong, HandlersTyped
  <2> QED BY <2>1, FacePipelineAssumption DEF NamedFor
<1>4. Forward
  BY DEF FaceStrong, RowsTrue, PersonRow, Forward
<1> QED BY <1>1, <1>2, <1>3, <1>4 DEF FaceStrong

-----------------------------------------------------------------------------
(* Detection *)

\* A sweep is queued once.
LEMMA Queued ==
    ASSUME queue \in Seq(Job), NEW force \in BOOLEAN
    PROVE  AddAll(queue, force) \in Seq(Job)
<1>1. AllJob(force) \in Job
  BY DEF AllJob, Job
<1> QED BY <1>1 DEF AddAll

\* And what joins it, behind the others or before them.
LEMMA Requeued ==
    ASSUME queue \in Seq(Job), NEW f \in Faces, NEW deferred \in BOOLEAN
    PROVE  /\ FaceJob(f, deferred) \in Job
           /\ Append(queue, FaceJob(f, deferred)) \in Seq(Job)
           /\ <<FaceJob(f, deferred)>> \o queue \in Seq(Job)
<1>1. FaceJob(f, deferred) \in Job
  BY DEF FaceJob, Job
<1>2. \A j \in Job : Append(queue, j) \in Seq(Job) /\ <<j>> \o queue \in Seq(Job)
  OBVIOUS
<1> QED BY <1>1, <1>2

\* A detected face that is gone takes its claim and the covers it was with it.
LEMMA DetectStep ==
    ASSUME FaceStrong, NEW f \in Faces, DetectFaces(f),
           UNCHANGED <<worker, cleaner, desk, guest, merged, collided, clock, acts>>
    PROVE  FaceStrong' /\ Forward
<1> USE FacePipelineAssumption
<1>0. /\ face \in [Faces -> FaceRow] /\ person \in [Persons -> PersonRow]
      /\ PersonExists(face, person) /\ CoverExists(face, person)
      /\ credit' \in 0..credit /\ merged' = merged /\ clock' = clock /\ credit' = credit
      /\ credit \in Nat
  BY DEF FaceStrong, RowsTrue, HandlersTyped, DetectFaces
<1>1. HandlersTyped'
  BY DEF FaceStrong, HandlersTyped, DetectFaces
<1>2. CASE UNCHANGED <<face, person>>
  BY <1>0, <1>1, <1>2, RowsStay
<1>3. CASE /\ face[f].row = "unseen" /\ face' = [face EXCEPT ![f].row = "stored"] /\ UNCHANGED person
  <2>1. /\ face' \in [Faces -> FaceRow]
        /\ \A g \in Faces : /\ face'[g].person = face[g].person
                            /\ face'[g].claim = face[g].claim
                            /\ g # f => face'[g] = face[g]
                            /\ face[g].row # "unseen" => face'[g].row # "unseen"
        /\ face'[f].row = "stored" /\ face[f].person = None
        /\ \A p \in Persons : person[p].cover # f
    BY <1>0, <1>3 DEF FaceRow, PersonExists, CoverExists
  <2>2. RowsTrue'
    BY <1>0, <1>3, <2>1 DEF RowsTrue, PersonExists, CoverExists
  <2>3. WorkerTrue' /\ GuestTrue' /\ TimesPast'
    BY <1>3, <2>1, <1>0 DEF FaceStrong, WorkerTrue, GuestTrue, TimesPast, Live
  <2>4. DeskTrue'
    BY <1>3, <2>1, <1>0 DEF FaceStrong, DeskTrue, Live, Stored
  <2>5. ASSUME NEW p \in Persons PROVE CoverHeld(p)'
    BY <1>0, <1>3, <2>1, CoverStays DEF Live
  <2>6. ASSUME NEW g \in Faces PROVE NamedFor(g)'
    <3>1. person[face[g].person].at \in Nat \/ face[g].person = None
      BY <1>0 DEF FaceRow, PersonRow
    <3> QED BY <1>0, <1>3, <2>1, <3>1, ClaimStays
  <2>7. Forward
    BY <1>0, <1>3 DEF Forward, PersonRow
  <2> QED BY <1>1, <2>2, <2>3, <2>4, <2>5, <2>6, <2>7 DEF FaceStrong
<1>4. CASE /\ Stored(f) /\ face' = [face EXCEPT ![f] = [NoFace EXCEPT !.row = "removed"]]
           /\ person' = [p \in Persons |->
                IF person[p].cover = f THEN [person[p] EXCEPT !.cover = None] ELSE person[p]]
  <2>1. /\ face' \in [Faces -> FaceRow] /\ face[f].row = "stored"
        /\ \A g \in Faces : g # f => face'[g] = face[g]
        /\ face'[f] = [row |-> "removed", person |-> None, claim |-> 0]
    BY <1>0, <1>4 DEF FaceRow, NoFace, Stored
  <2>2. /\ person' \in [Persons -> PersonRow]
        /\ \A p \in Persons : /\ person'[p].id = person[p].id /\ person'[p].at = person[p].at
                              /\ person'[p].cover = IF person[p].cover = f THEN None ELSE person[p].cover
    BY <1>0, <1>4 DEF PersonRow
  <2>3. RowsTrue'
    <3>1. PersonExists(face', person')
      BY <1>0, <2>1, <2>2 DEF PersonExists, FaceRow
    <3>2. CoverExists(face', person')
      BY <1>0, <2>1, <2>2 DEF CoverExists, PersonRow
    <3> QED BY <2>1, <2>2, <3>1, <3>2 DEF RowsTrue
  <2>4. WorkerTrue' /\ GuestTrue' /\ TimesPast'
    <3>1. \A g \in Faces : face'[g].person \in {face[g].person, None}
                          /\ face'[g].claim \in {face[g].claim, 0}
      BY <2>1
    <3>2. \A g \in Faces : face'[g].claim <= clock
      BY <3>1, FacePipelineAssumption DEF FaceStrong, TimesPast, HandlersTyped
    <3>3. WorkerTrue'
      BY <2>2, <3>1 DEF FaceStrong, WorkerTrue, Live
    <3> QED BY <1>0, <2>2, <3>2, <3>3 DEF FaceStrong, GuestTrue, TimesPast
  <2>5. DeskTrue'
    BY <2>1, <2>2, <1>0 DEF FaceStrong, DeskTrue, Live, Stored
  <2>6. ASSUME NEW p \in Persons PROVE CoverHeld(p)'
    BY <1>0, <2>1, <2>2, CoverStays DEF Live
  <2>7. ASSUME NEW g \in Faces PROVE NamedFor(g)'
    <3>1. g # f /\ face[g].person # None => face[g].person \in Persons /\ person[face[g].person].at \in Nat
      BY <1>0 DEF FaceRow, PersonRow
    <3> QED BY <1>0, <2>1, <2>2, <3>1, ClaimStays
  <2>8. Forward
    BY <1>0, <2>2 DEF Forward, PersonRow
  <2> QED BY <1>1, <2>3, <2>4, <2>5, <2>6, <2>7, <2>8 DEF FaceStrong
<1> QED BY <1>2, <1>3, <1>4 DEF DetectFaces, rows

\* The rest of detection queues what it stored, or dies and leaves its photo.
LEMMA DetectionStep == FaceStrong /\ Detection => FaceStrong' /\ Forward
<1> SUFFICES ASSUME FaceStrong, Detection PROVE FaceStrong' /\ Forward
  OBVIOUS
<1>1. ASSUME NEW f \in Faces, DetectFaces(f) PROVE FaceStrong' /\ Forward
  BY <1>1, DetectStep DEF Detection
<1>0. /\ UNCHANGED <<worker, cleaner, desk, guest, merged, collided, clock, acts>>
      /\ HandlersTyped /\ credit \in 0..MaxFaults /\ credit \in 0..credit
  BY FacePipelineAssumption DEF Detection, FaceStrong, HandlersTyped
<1>2. CASE QueueDetected
  <2>1. /\ detector \in Faces /\ queue \in Seq(Job) /\ AddAll(queue, FALSE) \in Seq(Job)
    BY <1>0, <1>2, Queued DEF HandlersTyped, QueueDetected
  <2>2. FaceJob(detector, FALSE) \in Job
    BY <2>1 DEF FaceJob, Job
  <2>3. queue' \in Seq(Job) /\ detector' = None /\ UNCHANGED <<face, person, undetected, credit>>
    <3>1. \A q \in Seq(Job), j \in Job : Append(q, j) \in Seq(Job)
      OBVIOUS
    <3> QED BY <1>2, <2>1, <2>2, <3>1 DEF QueueDetected, rows
  <2>4. HandlersTyped'
    BY <1>0, <2>3 DEF HandlersTyped
  <2> QED BY <1>0, <2>3, <2>4, RowsStay
<1>3. CASE DetectorCrash
  <2>1. /\ detector \in Faces /\ credit > 0 /\ credit' = credit - 1
        /\ undetected' = undetected \cup {detector} /\ detector' = None
        /\ UNCHANGED <<face, person, queue>>
    BY <1>0, <1>3 DEF DetectorCrash, rows, HandlersTyped
  <2>2. credit' \in 0..credit /\ credit' \in 0..MaxFaults
    BY <1>0, <2>1, FacePipelineAssumption
  <2>3. HandlersTyped'
    BY <1>0, <2>1, <2>2 DEF HandlersTyped
  <2> QED BY <1>0, <2>1, <2>2, <2>3, RowsStay
<1> QED BY <1>1, <1>2, <1>3 DEF Detection

-----------------------------------------------------------------------------
(* Recognition *)

\* The worker puts down what it held, or begins a scan: nothing rests on it unless it
\* was about to name a person, and then it died.
LEMMA WorkerTurns ==
    ASSUME FaceStrong, UNCHANGED <<face, person, desk, guest, merged, clock>>,
           HandlersTyped', credit' \in 0..credit, worker'.pc \in {"idle", "scan"},
           worker.pc # "cleanup", worker.pc = "name" => credit' < MaxFaults
    PROVE  FaceStrong' /\ Forward
<1>1. RowsTrue' /\ GuestTrue' /\ TimesPast'
  BY DEF FaceStrong, RowsTrue, PersonExists, CoverExists, GuestTrue, TimesPast
<1>2. WorkerTrue'
  BY DEF WorkerTrue
<1>3. DeskTrue'
  BY DEF FaceStrong, DeskTrue, Live, Stored
<1>4. ASSUME NEW p \in Persons PROVE CoverHeld(p)'
  BY CoverStays DEF Live
<1>5. ASSUME NEW f \in Faces PROVE NamedFor(f)'
  <2>1. face[f].person # None => face[f].person \in Persons /\ person[face[f].person].at \in Nat
    BY DEF FaceStrong, RowsTrue, FaceRow, PersonRow
  <2> QED BY <2>1, ClaimStays
<1>6. Forward
  BY DEF FaceStrong, RowsTrue, PersonRow, Forward
<1> QED BY <1>1, <1>2, <1>3, <1>4, <1>5, <1>6 DEF FaceStrong

\* A name is written from the claims, and the handler that was to write it is done.
LEMMA NamingStep ==
    ASSUME FaceStrong, NEW p \in Persons, person' = nameFromParticipants(p),
           UNCHANGED <<face, desk, merged, clock, credit>>, HandlersTyped',
           worker' = worker \/ (worker.pc = "name" /\ worker.person = p /\ worker'.pc = "idle"),
           guest' = guest \/ (guest.pc = "name" /\ guest.person = p /\ guest'.pc = "idle")
    PROVE  FaceStrong' /\ Forward
<1>0. /\ RowsTrue /\ TimesPast /\ clock \in 0..MaxTime
      /\ \A q \in Persons : person[q].at \in Nat
      /\ \A f \in Faces : face[f].claim \in Nat /\ face[f].person \in Persons \cup {None}
  <2>1. RowsTrue /\ TimesPast /\ clock \in 0..MaxTime
    BY DEF FaceStrong, HandlersTyped
  <2> QED BY <2>1 DEF RowsTrue, FaceRow, PersonRow
<1>1. /\ person' \in [Persons -> PersonRow]
      /\ \A q \in Persons : /\ person'[q].id = person[q].id /\ person'[q].cover = person[q].cover
                            /\ person[q].at <= person'[q].at /\ person'[q].at <= clock
      /\ \A f \in FacesOf(p) : face[f].claim <= person'[p].at
  BY <1>0, NamedByClaims
<1>2. RowsTrue' /\ TimesPast'
  BY <1>0, <1>1 DEF RowsTrue, PersonExists, CoverExists, TimesPast
<1>3. WorkerTrue' /\ GuestTrue'
  BY <1>1 DEF FaceStrong, WorkerTrue, GuestTrue, Live
<1>4. DeskTrue'
  BY <1>1 DEF FaceStrong, DeskTrue, Live, Stored
<1>5. ASSUME NEW q \in Persons PROVE CoverHeld(q)'
  BY <1>1, CoverStays DEF Live
<1>6. ASSUME NEW f \in Faces PROVE NamedFor(f)'
  <2>1. CASE face[f].person = p
    <3>1. f \in FacesOf(p) /\ person'[p].at \in Nat
      BY <1>1, <2>1 DEF FacesOf, PersonRow
    <3> QED BY <1>0, <1>1, <2>1, <3>1 DEF NamedFor
  <2>2. CASE face[f].person # p
    <3>1. NamedFor(f)
      BY DEF FaceStrong
    <3>2. face[f].person # None =>
            /\ person'[face[f].person].at \in Nat
            /\ person[face[f].person].at <= person'[face[f].person].at
      BY <1>0, <1>1 DEF PersonRow
    <3> QED BY <1>0, <2>2, <3>1, <3>2 DEF NamedFor
  <2> QED BY <2>1, <2>2
<1>7. Forward
  BY <1>0, <1>1 DEF Forward, PersonRow
<1> QED BY <1>2, <1>3, <1>4, <1>5, <1>6, <1>7 DEF FaceStrong

\* The worker takes a face up for a neighbour's person: that person has a face.
LEMMA JoinKnown ==
    ASSUME FaceStrong, worker.pc = "idle", HandlersTyped',
           NEW f \in Faces, NEW g \in Faces, face[f].person = None, face[g].person # None,
           worker' = [Idle EXCEPT !.pc = "assign", !.face = f, !.person = face[g].person],
           UNCHANGED <<face, person, desk, guest, merged, clock, credit>>
    PROVE  FaceStrong' /\ Forward
<1> DEFINE p == face[g].person
<1>0. /\ p \in Persons /\ worker'.pc = "assign" /\ worker'.face = f /\ worker'.person = p
      /\ credit \in Nat
  BY FacePipelineAssumption DEF FaceStrong, HandlersTyped, RowsTrue, FaceRow, Idle
<1>1. RowsTrue' /\ GuestTrue' /\ TimesPast'
  BY DEF FaceStrong, RowsTrue, PersonExists, CoverExists, GuestTrue, TimesPast
<1>2. WorkerTrue'
  BY <1>0 DEF WorkerTrue
<1>3. DeskTrue'
  BY DEF FaceStrong, DeskTrue, Live, Stored
<1>4. ASSUME NEW q \in Persons PROVE CoverHeld(q)'
  <2>1. CoverHeld(q) /\ FacesOf(q)' = FacesOf(q) /\ (Live(q)' <=> Live(q)) /\ g \in FacesOf(p)
    BY DEF FaceStrong, FacesOf, Live
  <2> HIDE DEF p
  <2> QED BY <1>0, <2>1 DEF CoverHeld
<1>5. ASSUME NEW h \in Faces PROVE NamedFor(h)'
  <2>1. NamedFor(h)
    BY DEF FaceStrong
  <2> QED BY <2>1 DEF NamedFor
<1>6. Forward
  BY DEF FaceStrong, RowsTrue, PersonRow, Forward
<1> QED BY <1>1, <1>2, <1>3, <1>4, <1>5, <1>6 DEF FaceStrong

\* Or for a person it makes of it, which nobody has held before.
LEMMA JoinNew ==
    ASSUME FaceStrong, worker.pc = "idle", HandlersTyped',
           NEW f \in Faces, face[f].person = None, Stored(f),
           NEW p \in Persons, person[p].id = "unused",
           person' = [person EXCEPT ![p] = [NoPerson EXCEPT !.id = "live", !.cover = f]],
           worker' = [Idle EXCEPT !.pc = "assign", !.face = f, !.person = p],
           UNCHANGED <<face, desk, guest, merged, clock, credit>>
    PROVE  FaceStrong' /\ Forward
<1>0. /\ worker'.pc = "assign" /\ worker'.face = f /\ worker'.person = p
      /\ RowsTrue /\ clock \in Nat /\ MaxTime \in Nat /\ None \notin Persons
  BY FacePipelineAssumption DEF FaceStrong, HandlersTyped, Idle
<1>1. /\ person' \in [Persons -> PersonRow]
      /\ \A q \in Persons : q # p => person'[q] = person[q]
      /\ person'[p].id = "live" /\ person'[p].cover = f /\ person'[p].at = 0
  <2> DEFINE row == [NoPerson EXCEPT !.id = "live", !.cover = f]
  <2>0. NoPerson \in PersonRow /\ NoPerson.at = 0
    BY <1>0 DEF PersonRow, NoPerson
  <2>1. row \in PersonRow /\ row.id = "live" /\ row.cover = f /\ row.at = 0
    BY <2>0 DEF PersonRow
  <2>2. person' = [person EXCEPT ![p] = row]
    OBVIOUS
  <2> HIDE DEF row
  <2> QED BY <1>0, <2>1, <2>2 DEF RowsTrue
<1>2. \A g \in Faces : face[g].person # p
  BY <1>0 DEF RowsTrue, PersonExists
<1>3. RowsTrue' /\ GuestTrue' /\ TimesPast'
  <2>1. PersonExists(face', person')
    BY <1>0, <1>1, <1>2 DEF RowsTrue, PersonExists, FaceRow
  <2>2. CoverExists(face', person')
    BY <1>0, <1>1 DEF RowsTrue, CoverExists, Stored
  <2> QED BY <1>0, <1>1, <2>1, <2>2 DEF FaceStrong, RowsTrue, GuestTrue, TimesPast
<1>4. WorkerTrue'
  BY <1>0 DEF WorkerTrue
<1>5. DeskTrue'
  BY <1>1 DEF FaceStrong, DeskTrue, Live, Stored
<1>6. ASSUME NEW q \in Persons PROVE CoverHeld(q)'
  <2>1. CoverHeld(q) /\ FacesOf(q)' = FacesOf(q)
    BY DEF FaceStrong, FacesOf
  <2>2. CASE q = p
    BY <1>0, <1>1, <1>2, <2>1, <2>2 DEF CoverHeld, FacesOf
  <2>3. CASE q # p
    BY <1>0, <1>1, <2>1, <2>3 DEF CoverHeld, Live
  <2> QED BY <2>2, <2>3
<1>7. ASSUME NEW h \in Faces PROVE NamedFor(h)'
  <2>1. NamedFor(h) /\ (face[h].person # None => person'[face[h].person] = person[face[h].person])
    BY <1>0, <1>1, <1>2 DEF FaceStrong, RowsTrue, FaceRow
  <2> QED BY <2>1 DEF NamedFor
<1>8. Forward
  BY <1>0, <1>1 DEF RowsTrue, PersonRow, Forward, Live
<1> QED BY <1>3, <1>4, <1>5, <1>6, <1>7, <1>8 DEF FaceStrong

\* The face gets its person, unless either is gone.
LEMMA AssignStep ==
    ASSUME FaceStrong, AssignFace, HandlersTyped', credit' = credit,
           UNCHANGED <<undetected, detector, cleaner, desk, guest, merged, clock, acts>>
    PROVE  FaceStrong' /\ Forward
<1>a. worker.pc = "assign" /\ worker.face \in Faces /\ worker.person \in Persons
  BY DEF FaceStrong, WorkerTrue, AssignFace
<1>b. PICK f \in Faces, p \in Persons : worker.face = f /\ worker.person = p
  BY <1>a
<1>0. /\ worker.pc = "assign" /\ face[f].person = None
      /\ RowsTrue /\ None \notin Persons /\ credit \in Nat /\ HandlersTyped
      /\ UNCHANGED person
  BY <1>a, <1>b, FacePipelineAssumption DEF FaceStrong, HandlersTyped, WorkerTrue, AssignFace
<1>1. CASE ~ Live(p)
  <2>1. UNCHANGED face /\ worker' = Idle
    BY <1>1, <1>b DEF AssignFace, Finish
  <2> QED BY <1>0, <2>1, WorkerTurns DEF Idle
<1>2. CASE Live(p)
  <2>1. /\ worker' = [worker EXCEPT !.pc = "name"]
        /\ face' = IF Stored(f) THEN [face EXCEPT ![f].person = p] ELSE face
    BY <1>2, <1>b DEF AssignFace
  <2>2. worker'.pc = "name" /\ worker'.face = f /\ worker'.person = p
    BY <1>0, <1>b, <2>1 DEF HandlersTyped
  <2>3. /\ face' \in [Faces -> FaceRow]
        /\ \A g \in Faces : /\ face'[g].row = face[g].row /\ face'[g].claim = face[g].claim
                            /\ g # f => face'[g].person = face[g].person
        /\ face'[f].person = IF Stored(f) THEN p ELSE None
    BY <1>0, <2>1 DEF RowsTrue, FaceRow
  <2>4. RowsTrue' /\ GuestTrue' /\ TimesPast'
    <3>1. PersonExists(face', person')
      BY <1>0, <1>2, <2>3 DEF RowsTrue, PersonExists, Live, Stored
    <3>2. CoverExists(face', person')
      BY <1>0, <2>3 DEF RowsTrue, CoverExists, PersonRow
    <3> QED BY <1>0, <2>3, <3>1, <3>2 DEF FaceStrong, RowsTrue, GuestTrue, TimesPast
  <2>5. WorkerTrue'
    BY <1>0, <2>2 DEF WorkerTrue
  <2>6. DeskTrue'
    BY <1>0, <1>b, <2>3 DEF FaceStrong, DeskTrue, Live, Stored
  <2>7. ASSUME NEW q \in Persons PROVE CoverHeld(q)'
    <3>1. CASE q = p
      <4>1. CoverHeld(p)
        BY <3>1 DEF FaceStrong
      <4>2. \A g \in Faces : g \in FacesOf(p)' <=> g \in FacesOf(p) \/ (g = f /\ Stored(f))
        BY <1>0, <2>3 DEF FacesOf
      <4>3. person[p].cover = f => Stored(f)
        BY <1>0, FacePipelineAssumption DEF RowsTrue, CoverExists, Stored
      <4>4. worker.pc = "assign" /\ worker.person = p /\ worker.face = f
        BY <1>0, <1>b
      <4>5. FacesOf(p) \subseteq Faces /\ FacesOf(p)' \subseteq Faces
        BY DEF FacesOf
      <4>6. Live(p)' <=> Live(p)
        BY <1>0 DEF Live
      <4> QED BY <1>0, <2>2, <3>1, <4>1, <4>2, <4>3, <4>4, <4>5, <4>6 DEF CoverHeld
    <3>2. CASE q # p
      BY <1>0, <2>2, <2>3, <3>2, CoverStays DEF Live
    <3> QED BY <3>1, <3>2
  <2>8. ASSUME NEW g \in Faces PROVE NamedFor(g)'
    <3>1. CASE g = f
      BY <2>2, <2>3, <3>1 DEF NamedFor
    <3>2. CASE g # f
      <4>1. NamedFor(g)
        BY DEF FaceStrong
      <4> QED BY <1>0, <2>3, <3>2, <4>1 DEF NamedFor
    <3> QED BY <3>1, <3>2
  <2>9. Forward
    BY <1>0 DEF RowsTrue, PersonRow, Forward
  <2> QED BY <2>4, <2>5, <2>6, <2>7, <2>8, <2>9 DEF FaceStrong
<1> QED BY <1>1, <1>2

\* A job of the queue, taken, skipped, sent once more or begun.
LEMMA RecognizeStep ==
    ASSUME FaceStrong, RecognizeFaces,
           UNCHANGED <<collided, undetected, detector, cleaner, desk, guest, merged, clock, acts>>
    PROVE  FaceStrong' /\ Forward
<1> DEFINE job == Head(queue)
<1>0. /\ worker.pc = "idle" /\ queue \in Seq(Job) /\ queue # <<>> /\ job.face # None
      /\ credit' = credit /\ credit' \in 0..credit /\ HandlersTyped
  BY FacePipelineAssumption DEF FaceStrong, HandlersTyped, RecognizeFaces
<1>1. job \in Job /\ Tail(queue) \in Seq(Job)
  BY <1>0
<1>b. PICK f \in Faces : f = job.face
  BY <1>0, <1>1 DEF Job
<1>c. PICK deferred \in BOOLEAN : deferred = job.deferred
  BY <1>1 DEF Job
<1>2. SkipFace(f, deferred) \/ DeferFace(f, deferred) \/ JoinNeighbour(f, deferred)
  BY <1>b, <1>c DEF RecognizeFaces
<1> HIDE DEF job
<1>3. \A e \in Job : Append(Tail(queue), e) \in Seq(Job)
  BY <1>1
<1>4. ASSUME queue' \in Seq(Job), UNCHANGED <<face, person, worker>>
      PROVE  FaceStrong' /\ Forward
  <2>1. HandlersTyped'
    BY <1>0, <1>4 DEF HandlersTyped
  <2> QED BY <1>0, <1>4, <2>1, RowsStay
<1>5. CASE SkipFace(f, deferred)
  BY <1>1, <1>4, <1>5 DEF SkipFace, rows
<1>6. CASE DeferFace(f, deferred)
  <2>1. FaceJob(f, TRUE) \in Job
    BY DEF FaceJob, Job
  <2> QED BY <1>3, <1>4, <1>6, <2>1 DEF DeferFace, rows
<1>7. CASE JoinNeighbour(f, deferred)
  <2>0. getForRecognition(f) /\ face[f].person = None
    BY <1>7 DEF JoinNeighbour, Candidate
  <2>1. ASSUME NEW g \in searchFaces(f), face[g].person # None,
               Take([Idle EXCEPT !.pc = "assign", !.face = f, !.person = face[g].person]),
               UNCHANGED rows
        PROVE  FaceStrong' /\ Forward
    <3>1. g \in Faces /\ face[g].person \in Persons
      BY <2>1 DEF searchFaces, FaceStrong, RowsTrue, FaceRow
    <3>2. /\ queue' = Tail(queue) /\ UNCHANGED <<face, person>>
          /\ worker' = [Idle EXCEPT !.pc = "assign", !.face = f, !.person = face[g].person]
      BY <2>1 DEF Take, rows
    <3>3. HandlersTyped'
      BY <1>0, <1>1, <3>1, <3>2 DEF HandlersTyped, Idle
    <3> QED BY <1>0, <2>0, <2>1, <3>1, <3>2, <3>3, JoinKnown
  <2>2. ASSUME NEW p \in Persons, person[p].id = "unused",
               person' = [person EXCEPT ![p] = [NoPerson EXCEPT !.id = "live", !.cover = f]],
               Take([Idle EXCEPT !.pc = "assign", !.face = f, !.person = p]),
               UNCHANGED face
        PROVE  FaceStrong' /\ Forward
    <3>1. /\ queue' = Tail(queue)
          /\ worker' = [Idle EXCEPT !.pc = "assign", !.face = f, !.person = p]
      BY <2>2 DEF Take
    <3>2. HandlersTyped'
      BY <1>0, <1>1, <3>1 DEF HandlersTyped, Idle
    <3> QED BY <1>0, <2>0, <2>2, <3>1, <3>2, JoinNew DEF getForRecognition
  <2>3. CASE queue' = Tail(queue) /\ UNCHANGED <<rows, worker>>
    BY <1>1, <1>4, <2>3 DEF rows
  <2> QED BY <1>7, <2>1, <2>2, <2>3 DEF JoinNeighbour
<1> QED BY <1>2, <1>5, <1>6, <1>7

\* A forced sweep takes every face from its person first, and means to delete them all.
LEMMA SweepStep ==
    ASSUME FaceStrong, QueueRecognizeFaces,
           UNCHANGED <<collided, undetected, detector, cleaner, desk, guest, merged, clock, acts>>
    PROVE  FaceStrong' /\ Forward
<1>0. /\ worker.pc = "idle" /\ queue' = Tail(queue) /\ queue' \in Seq(Job) /\ HandlersTyped
      /\ credit' = credit /\ credit' \in 0..credit /\ UNCHANGED person /\ RowsTrue
  <2>1. worker.pc = "idle" /\ queue # <<>> /\ queue' = Tail(queue) /\ credit' = credit /\ UNCHANGED person
    BY DEF QueueRecognizeFaces, Take
  <2>2. HandlersTyped /\ RowsTrue /\ queue \in Seq(Job) /\ credit \in 0..MaxFaults
    BY DEF FaceStrong, HandlersTyped
  <2> QED BY <2>1, <2>2, FacePipelineAssumption
<1>1. CASE worker' = [Idle EXCEPT !.pc = "scan"] /\ UNCHANGED face
  <2>1. worker'.pc = "scan"
    BY <1>1 DEF Idle
  <2>2. HandlersTyped'
    BY <1>0, <1>1 DEF HandlersTyped, Idle
  <2> QED BY <1>0, <1>1, <2>1, <2>2, WorkerTurns
<1>2. CASE /\ face' = [f \in Faces |-> [face[f] EXCEPT !.person = None]]
           /\ worker' = [Idle EXCEPT !.pc = "cleanup", !.doomed = {p \in Persons : Live(p)}]
  <2>1. /\ face' \in [Faces -> FaceRow]
        /\ \A f \in Faces : /\ face'[f].row = face[f].row /\ face'[f].claim = face[f].claim
                            /\ face'[f].person = None
    BY <1>0, <1>2 DEF RowsTrue, FaceRow
  <2>2. worker'.pc = "cleanup" /\ worker'.doomed = {p \in Persons : Live(p)}
    BY <1>2 DEF Idle
  <2>3. HandlersTyped'
    <3>1. worker' \in [pc : {"idle", "assign", "name", "cleanup", "scan"}, face : Faces \cup {None},
                       person : Persons \cup {None}, doomed : SUBSET Persons]
      BY <1>2 DEF Idle
    <3> QED BY <1>0, <3>1 DEF HandlersTyped
  <2>4. RowsTrue' /\ GuestTrue' /\ TimesPast'
    <3>1. PersonExists(face', person') /\ CoverExists(face', person')
      BY <1>0, <2>1 DEF RowsTrue, PersonExists, CoverExists, PersonRow
    <3> QED BY <1>0, <2>1, <3>1 DEF FaceStrong, RowsTrue, GuestTrue, TimesPast
  <2>5. WorkerTrue'
    BY <1>0, <2>1, <2>2 DEF WorkerTrue, Live
  <2>6. DeskTrue'
    BY <1>0, <2>1, <2>2 DEF FaceStrong, DeskTrue, Live, Stored
  <2>7. ASSUME NEW p \in Persons PROVE CoverHeld(p)'
    <3>1. p # None /\ FacesOf(p)' = {}
      BY <2>1, FacePipelineAssumption DEF FacesOf
    <3> QED BY <2>2, <3>1 DEF CoverHeld
  <2>8. ASSUME NEW f \in Faces PROVE NamedFor(f)'
    BY <2>1 DEF NamedFor
  <2>9. Forward
    BY <1>0 DEF RowsTrue, PersonRow, Forward
  <2> QED BY <2>3, <2>4, <2>5, <2>6, <2>7, <2>8, <2>9 DEF FaceStrong
<1> QED BY <1>1, <1>2 DEF QueueRecognizeFaces, Take

\* A finite set has an order.
LEMMA Ordered ==
    ASSUME NEW S, IsFiniteSet(S)
    PROVE  Cardinality(S) \in Nat /\ InOrder(S) \in [1..Cardinality(S) -> S]
<1>1. Cardinality(S) \in Nat /\ ExistsBijection(1..Cardinality(S), S)
  BY FS_CardinalityType
<1>2. PICK s \in [1..Cardinality(S) -> S] : \A x \in S : \E i \in 1..Cardinality(S) : s[i] = x
  BY <1>1 DEF ExistsBijection, Bijection, Surjection
<1>3. Elements(s) = S
  BY <1>2 DEF Elements
<1> QED BY <1>1, <1>3 DEF InOrder

\* The sweep queues every face that has nobody.
LEMMA ScanStep ==
    ASSUME FaceStrong, ScanUnassigned,
           UNCHANGED <<collided, undetected, detector, cleaner, desk, guest, merged, clock, acts>>
    PROVE  FaceStrong' /\ Forward
<1> DEFINE U == getUnassignedFaceIds
           added == [i \in 1..Cardinality(U) |-> FaceJob(InOrder(U)[i], FALSE)]
<1>0. /\ worker.pc = "scan" /\ queue' = queue \o added /\ worker' = Idle /\ HandlersTyped
      /\ UNCHANGED <<face, person, credit>> /\ credit \in 0..MaxFaults
  BY DEF FaceStrong, HandlersTyped, ScanUnassigned, Finish, rows
<1>1. added \in [1..Cardinality(U) -> Job] /\ Cardinality(U) \in Nat
  <2>1. U \subseteq Faces /\ IsFiniteSet(U)
    BY FacePipelineAssumption, FS_Subset DEF getUnassignedFaceIds
  <2>2. Cardinality(U) \in Nat /\ InOrder(U) \in [1..Cardinality(U) -> U]
    BY <2>1, Ordered
  <2> HIDE DEF U
  <2>3. \A f \in Faces : FaceJob(f, FALSE) \in Job
    BY DEF FaceJob, Job
  <2> QED BY <2>1, <2>2, <2>3
<1> HIDE DEF added
<1>2. added \in Seq(Job)
  BY <1>1
<1>3. queue' \in Seq(Job) /\ worker'.pc = "idle" /\ credit' \in 0..credit
  BY <1>0, <1>2, FacePipelineAssumption DEF HandlersTyped, Idle
<1>4. HandlersTyped'
  BY <1>0, <1>3 DEF HandlersTyped, Idle
<1> QED BY <1>0, <1>3, <1>4, WorkerTurns

\* Everything the recognition worker does.
LEMMA RecognitionStep == FaceStrong /\ Recognition => FaceStrong' /\ Forward
<1> SUFFICES ASSUME FaceStrong, Recognition PROVE FaceStrong' /\ Forward
  OBVIOUS
<1>0. /\ UNCHANGED <<undetected, detector, cleaner, desk, guest, merged, clock, acts>>
      /\ HandlersTyped /\ credit \in 0..MaxFaults /\ credit \in Nat /\ MaxFaults \in Nat
      /\ WorkerTrue /\ queue \in Seq(Job)
  BY FacePipelineAssumption DEF Recognition, FaceStrong, HandlersTyped
<1>1. CASE AssignFace
  <2>1. worker.pc = "assign" /\ worker.face \in Faces /\ credit' = credit
    BY <1>0, <1>1 DEF AssignFace, WorkerTrue
  <2>2. HandlersTyped'
    <3>1. CASE Live(worker.person)
      <4>1. worker' = [worker EXCEPT !.pc = "name"] /\ UNCHANGED <<queue, collided>>
        BY <1>1, <3>1 DEF AssignFace
      <4> QED BY <1>0, <2>1, <4>1 DEF HandlersTyped
    <3>2. CASE ~ Live(worker.person)
      <4>1. /\ worker' = Idle /\ collided' = TRUE
            /\ queue' = Append(queue, FaceJob(worker.face, FALSE))
        BY <1>1, <3>2 DEF AssignFace, Finish
      <4>2. queue' \in Seq(Job)
        BY <1>0, <2>1, <4>1, Requeued
      <4>3. collided' \in BOOLEAN
        BY <4>1
      <4> QED BY <1>0, <2>1, <4>1, <4>2, <4>3 DEF HandlersTyped, Idle
    <3> QED BY <3>1, <3>2
  <2> QED BY <1>0, <1>1, <2>1, <2>2, AssignStep
<1>2. CASE RecognizeFaces /\ UNCHANGED collided
  BY <1>0, <1>2, RecognizeStep
<1>3. CASE NameCluster /\ UNCHANGED collided
  <2>1. /\ worker.pc = "name" /\ worker.person \in Persons /\ worker' = Idle
        /\ person' = nameFromParticipants(worker.person) /\ UNCHANGED <<face, queue, credit>>
    BY <1>0, <1>3 DEF NameCluster, WorkerTrue, Finish
  <2>2. HandlersTyped' /\ worker'.pc = "idle"
    BY <1>0, <1>3, <2>1 DEF HandlersTyped, Idle
  <2> QED BY <1>0, <2>1, <2>2, NamingStep
<1>4. CASE QueueRecognizeFaces /\ UNCHANGED collided
  BY <1>0, <1>4, SweepStep
<1>5. CASE ScanUnassigned /\ UNCHANGED collided
  BY <1>0, <1>5, ScanStep
<1>6. CASE WorkerCrash /\ UNCHANGED collided
  <2>1. /\ worker.pc \in {"assign", "name"} /\ worker.face \in Faces /\ worker' = Idle
        /\ credit > 0 /\ credit' = credit - 1 /\ UNCHANGED <<face, person>>
        /\ queue' = <<FaceJob(worker.face, FALSE)>> \o queue
    BY <1>0, <1>6 DEF WorkerCrash, WorkerTrue, Finish, rows
  <2>3. queue' \in Seq(Job)
    BY <1>0, <2>1, Requeued
  <2>4. credit' \in 0..credit /\ credit' \in 0..MaxFaults /\ credit' < MaxFaults
    <3>1. credit \in 0..MaxFaults /\ MaxFaults \in Nat /\ credit > 0 /\ credit' = credit - 1
      BY <1>0, <2>1
    <3> QED BY <3>1
  <2>5. HandlersTyped' /\ worker'.pc = "idle"
    BY <1>0, <1>6, <2>1, <2>3, <2>4 DEF HandlersTyped, Idle
  <2> QED BY <1>0, <2>1, <2>4, <2>5, WorkerTurns
<1> QED BY <1>1, <1>2, <1>3, <1>4, <1>5, <1>6 DEF Recognition

-----------------------------------------------------------------------------
(* Cleanup and requests *)

\* Deleting people leaves their faces to nobody, and ends what was meant to delete them.
LEMMA DeleteStep ==
    ASSUME FaceStrong, NEW P \in SUBSET Persons, Delete(P), HandlersTyped',
           UNCHANGED <<guest, merged, clock, credit>>,
           desk' = desk \/ (desk.pc = "delete" /\ desk.doomed = P /\ desk' = Idle),
           worker' = worker \/ (worker.pc = "cleanup" /\ worker.doomed = P /\ worker'.pc = "scan")
    PROVE  FaceStrong' /\ Forward
<1>0. /\ RowsTrue /\ None \notin Persons /\ None \notin Faces /\ MaxTime \in Nat
      /\ credit \in Nat
  BY FacePipelineAssumption DEF FaceStrong, HandlersTyped
<1>1. /\ face' \in [Faces -> FaceRow]
      /\ \A f \in Faces : /\ face'[f].row = face[f].row /\ face'[f].claim = face[f].claim
                          /\ face'[f].person = IF face[f].person \in P THEN None ELSE face[f].person
  BY <1>0 DEF Delete, RowsTrue, FaceRow
<1>2. /\ person' \in [Persons -> PersonRow]
      /\ \A p \in Persons : IF p \in P /\ Live(p)
                            THEN /\ person'[p].id = "gone" /\ person'[p].cover = None
                                 /\ person'[p].at = 0
                            ELSE person'[p] = person[p]
  <2>1. /\ [NoPerson EXCEPT !.id = "gone"] \in PersonRow
        /\ [NoPerson EXCEPT !.id = "gone"].id = "gone"
        /\ [NoPerson EXCEPT !.id = "gone"].cover = None
        /\ [NoPerson EXCEPT !.id = "gone"].at = 0
    <3>1. NoPerson \in PersonRow /\ NoPerson.at = 0 /\ NoPerson.cover = None
      BY <1>0 DEF PersonRow, NoPerson
    <3> QED BY <3>1 DEF PersonRow
  <2>2. person' = [p \in Persons |-> IF p \in P /\ Live(p)
                                     THEN [NoPerson EXCEPT !.id = "gone"] ELSE person[p]]
    BY DEF Delete
  <2> QED BY <1>0, <2>1, <2>2 DEF RowsTrue
<1>3. \A p \in Persons : Live(p)' => Live(p) /\ p \notin P /\ person'[p] = person[p]
  BY <1>2 DEF Live
<1>4. RowsTrue' /\ GuestTrue' /\ TimesPast'
  <2>1. PersonExists(face', person')
    BY <1>0, <1>1, <1>2 DEF RowsTrue, PersonExists, FaceRow
  <2>2. CoverExists(face', person')
    BY <1>0, <1>1, <1>2 DEF RowsTrue, CoverExists, PersonRow
  <2>3. TimesPast'
    <3>1. TimesPast /\ clock \in Nat /\ clock' = clock
      BY <1>0 DEF FaceStrong, HandlersTyped
    <3> QED BY <1>1, <1>2, <3>1 DEF TimesPast
  <2> QED BY <1>1, <1>2, <2>1, <2>2, <2>3 DEF FaceStrong, RowsTrue, GuestTrue
<1>5. WorkerTrue'
  BY <1>1, <1>3 DEF FaceStrong, WorkerTrue
<1>6. DeskTrue'
  <2>1. CASE desk' = Idle
    BY <2>1 DEF DeskTrue, Idle
  <2>2. CASE desk' = desk /\ desk.pc = "cover"
    <3>1. /\ desk.person \in Persons /\ desk.face \in Faces /\ face[desk.face].row # "unseen"
          /\ person[desk.person].id # "unused"
          /\ Live(desk.person) /\ Stored(desk.face) =>
                face[desk.face].person = desk.person \/ worker.pc = "cleanup"
      BY <2>2 DEF FaceStrong, DeskTrue
    <3>2. person'[desk.person].id # "unused" /\ face'[desk.face].row # "unseen"
      BY <1>1, <1>2, <3>1
    <3>3. ASSUME Live(desk.person)', Stored(desk.face)'
          PROVE  (face[desk.face].person = desk.person \/ worker.pc = "cleanup")'
      <4>1. Live(desk.person) /\ desk.person \notin P
        BY <1>3, <2>2, <3>1, <3>3
      <4>2. Stored(desk.face)
        BY <1>1, <2>2, <3>1, <3>3 DEF Stored
      <4>3. worker.pc = "cleanup" => worker' = worker
        BY <3>1, <4>1 DEF FaceStrong, WorkerTrue
      <4> QED BY <1>1, <2>2, <3>1, <4>1, <4>2, <4>3
    <3> QED BY <2>2, <3>1, <3>2, <3>3 DEF DeskTrue
  <2>3. CASE desk' = desk /\ desk.pc # "cover"
    BY <2>3 DEF FaceStrong, DeskTrue
  <2> QED BY <2>1, <2>2, <2>3
<1>7. ASSUME NEW p \in Persons PROVE CoverHeld(p)'
  <2>1. person'[p].cover \in {person[p].cover, None}
    BY <1>2
  <2>2. \A f \in Faces : face'[f].person = p => face[f].person = p
    BY <1>0, <1>1
  <2>3. \A f \in Faces : face[f].person = p /\ face'[f].person # p => person'[p].cover # f
    BY <1>0, <1>1, <1>2 DEF RowsTrue, PersonExists, Live
  <2> QED BY <1>3, <2>1, <2>2, <2>3, CoverStays
<1>8. ASSUME NEW f \in Faces PROVE NamedFor(f)'
  <2>1. NamedFor(f) /\ face[f].person \in Persons \cup {None}
    BY <1>0 DEF FaceStrong, RowsTrue, FaceRow
  <2>2. face'[f].person # None => /\ face[f].person = face'[f].person
                                  /\ person'[face[f].person] = person[face[f].person]
    BY <1>1, <1>2, <2>1
  <2>3. worker.pc = "name" => worker' = worker
    OBVIOUS
  <2> QED BY <1>0, <1>1, <2>1, <2>2, <2>3 DEF NamedFor
<1>9. Forward
  BY <1>0, <1>2 DEF RowsTrue, PersonRow, Forward, Live
<1> QED BY <1>4, <1>5, <1>6, <1>7, <1>8, <1>9 DEF FaceStrong

\* The deletes of the cleanups and the crops.
LEMMA UpkeepStep == FaceStrong /\ Upkeep => FaceStrong' /\ Forward
<1> SUFFICES ASSUME FaceStrong, Upkeep PROVE FaceStrong' /\ Forward
  OBVIOUS
<1>0. /\ UNCHANGED <<undetected, detector, guest, clock, acts, credit>>
      /\ HandlersTyped /\ credit \in 0..MaxFaults /\ MaxFaults \in Nat
      /\ RowsTrue /\ None \notin Persons
  BY FacePipelineAssumption DEF Upkeep, bounds, FaceStrong, HandlersTyped
<1>d. ASSUME NEW P, Delete(P) PROVE collided' \in BOOLEAN
  BY <1>0, <1>d DEF Delete, HandlersTyped
<1>1. CASE DeleteFaceless
  <2>1. Delete(cleaner) /\ cleaner' = {} /\ UNCHANGED <<queue, worker, desk, merged>>
    BY <1>1 DEF DeleteFaceless
  <2>2. cleaner \in SUBSET Persons /\ collided' \in BOOLEAN
    BY <1>0, <1>d, <2>1 DEF HandlersTyped
  <2>3. HandlersTyped'
    BY <1>0, <2>1, <2>2 DEF HandlersTyped
  <2> QED BY <1>0, <2>1, <2>2, <2>3, DeleteStep
<1>2. CASE ForcedCleanup
  <2>1. /\ worker.pc = "cleanup" /\ Delete(worker.doomed) /\ worker' = [Idle EXCEPT !.pc = "scan"]
        /\ UNCHANGED <<queue, cleaner, desk, merged>>
    BY <1>2 DEF ForcedCleanup
  <2>2. worker.doomed \in SUBSET Persons /\ worker'.pc = "scan" /\ collided' \in BOOLEAN
    BY <1>0, <1>d, <2>1 DEF HandlersTyped, Idle
  <2>3. HandlersTyped'
    BY <1>0, <2>1, <2>2 DEF HandlersTyped, Idle
  <2> QED BY <1>0, <2>1, <2>2, <2>3, DeleteStep
<1>3. ASSUME NEW p \in Persons, PersonThumbnail(p)
      PROVE  FaceStrong' /\ Forward
  <2>1. /\ person' = [person EXCEPT ![p].thumb = TRUE]
        /\ UNCHANGED <<face, queue, worker, cleaner, desk, collided, merged>>
    BY <1>3 DEF PersonThumbnail
  <2>2. /\ person' \in [Persons -> PersonRow]
        /\ \A q \in Persons : /\ person'[q].id = person[q].id /\ person'[q].cover = person[q].cover
                              /\ person'[q].at = person[q].at
    BY <1>0, <2>1 DEF RowsTrue, PersonRow
  <2>3. HandlersTyped'
    BY <1>0, <2>1 DEF HandlersTyped
  <2>4. RowsTrue' /\ GuestTrue' /\ TimesPast'
    <3>1. PersonExists(face', person') /\ CoverExists(face', person')
      BY <1>0, <2>1, <2>2 DEF RowsTrue, PersonExists, CoverExists, FaceRow
    <3> QED BY <1>0, <2>1, <2>2, <3>1 DEF FaceStrong, RowsTrue, GuestTrue, TimesPast
  <2>5. WorkerTrue'
    BY <2>1, <2>2 DEF FaceStrong, WorkerTrue, Live
  <2>6. DeskTrue'
    BY <2>1, <2>2 DEF FaceStrong, DeskTrue, Live, Stored
  <2>7. ASSUME NEW q \in Persons PROVE CoverHeld(q)'
    BY <2>1, <2>2, CoverStays DEF Live
  <2>8. ASSUME NEW f \in Faces PROVE NamedFor(f)'
    <3>1. NamedFor(f) /\ (face[f].person # None => face[f].person \in Persons)
      BY <1>0 DEF FaceStrong, RowsTrue, FaceRow
    <3> QED BY <1>0, <2>1, <2>2, <3>1 DEF NamedFor
  <2>9. Forward
    BY <1>0, <2>2 DEF RowsTrue, PersonRow, Forward
  <2> QED BY <2>3, <2>4, <2>5, <2>6, <2>7, <2>8, <2>9 DEF FaceStrong
<1> QED BY <1>1, <1>2, <1>3 DEF Upkeep

\* A request that reads first: nothing it holds is stale yet.
LEMMA DeskTakes ==
    ASSUME FaceStrong, desk.pc = "idle", HandlersTyped', desk'.person \in Persons,
           \/ desk'.pc = "merge"
           \/ /\ desk'.pc = "cover" /\ desk'.face \in Faces /\ Live(desk'.person)
              /\ face[desk'.face].person = desk'.person,
           UNCHANGED <<face, person, worker, guest, merged, clock, credit>>
    PROVE  FaceStrong' /\ Forward
<1>0. RowsTrue /\ None \notin Persons /\ credit \in Nat
  BY FacePipelineAssumption DEF FaceStrong, HandlersTyped
<1>1. RowsTrue' /\ GuestTrue' /\ TimesPast' /\ WorkerTrue'
  BY DEF FaceStrong, RowsTrue, PersonExists, CoverExists, GuestTrue, TimesPast, WorkerTrue, Live
<1>2. DeskTrue'
  BY <1>0 DEF DeskTrue, Live, Stored, RowsTrue, PersonExists
<1>3. ASSUME NEW p \in Persons PROVE CoverHeld(p)'
  BY CoverStays DEF Live
<1>4. ASSUME NEW f \in Faces PROVE NamedFor(f)'
  BY DEF FaceStrong, NamedFor
<1>5. Forward
  BY <1>0 DEF RowsTrue, PersonRow, Forward
<1> QED BY <1>1, <1>2, <1>3, <1>4, <1>5 DEF FaceStrong

\* What an organiser or a schedule begins.
LEMMA RequestStep == FaceStrong /\ Request => FaceStrong' /\ Forward
<1> SUFFICES ASSUME FaceStrong, Request PROVE FaceStrong' /\ Forward
  OBVIOUS
<1>0. /\ UNCHANGED <<guest, clock, credit>> /\ acts' \in 0..MaxActs
      /\ HandlersTyped /\ credit \in 0..credit /\ RowsTrue /\ queue \in Seq(Job)
  <2>1. acts \in 0..MaxActs /\ acts > 0 /\ acts' = acts - 1 /\ MaxActs \in Nat
    BY FacePipelineAssumption DEF Request, FaceStrong, HandlersTyped
  <2>2. credit \in 0..MaxFaults /\ MaxFaults \in Nat
    BY FacePipelineAssumption DEF FaceStrong, HandlersTyped
  <2>3. HandlersTyped /\ RowsTrue /\ queue \in Seq(Job) /\ UNCHANGED <<guest, clock, credit>>
    BY DEF Request, FaceStrong, HandlersTyped
  <2> QED BY <2>1, <2>2, <2>3
<1>1. ASSUME NEW p \in Persons, NEW others \in SUBSET Persons, Merge(p, others),
             UNCHANGED <<undetected, detector>>
      PROVE  FaceStrong' /\ Forward
  <2>1. /\ desk.pc = "idle" /\ desk' = [Idle EXCEPT !.pc = "merge", !.person = p, !.doomed = others]
        /\ UNCHANGED <<face, person, queue, worker, cleaner, collided, merged>>
    BY <1>1 DEF Merge, rows
  <2>2. HandlersTyped' /\ desk'.pc = "merge" /\ desk'.person = p
    BY <1>0, <1>1, <2>1 DEF HandlersTyped, Idle
  <2> QED BY <1>0, <2>1, <2>2, DeskTakes
<1>2. ASSUME NEW p \in Persons, NEW f \in Faces, setCover(p, f), UNCHANGED <<undetected, detector>>
      PROVE  FaceStrong' /\ Forward
  <2>1. /\ desk.pc = "idle" /\ Live(p) /\ face[f].person = p
        /\ desk' = [Idle EXCEPT !.pc = "cover", !.person = p, !.face = f]
        /\ UNCHANGED <<face, person, queue, worker, cleaner, collided, merged>>
    BY <1>2 DEF setCover, rows
  <2>2. /\ HandlersTyped' /\ desk'.pc = "cover" /\ desk'.person = p /\ desk'.face = f
    BY <1>0, <1>2, <2>1 DEF HandlersTyped, Idle
  <2> QED BY <1>0, <2>1, <2>2, DeskTakes
<1>3. CASE PersonCleanup /\ UNCHANGED <<undetected, detector>>
  <2>1. cleaner' \subseteq Persons /\ UNCHANGED <<face, person, queue, worker, desk, collided, merged>>
    BY <1>3 DEF PersonCleanup, rows, getAllWithoutFaces
  <2>2. HandlersTyped'
    BY <1>0, <1>3, <2>1 DEF HandlersTyped
  <2> QED BY <1>0, <2>1, <2>2, RowsStay
<1>4. ASSUME NEW force \in BOOLEAN, Rerun(force)
      PROVE  FaceStrong' /\ Forward
  <2>1. /\ undetected' \subseteq Faces /\ queue' \in Seq(Job)
        /\ UNCHANGED <<face, person, detector, worker, cleaner, desk, collided, merged>>
    BY <1>0, <1>4, Queued DEF Rerun, rows, HandlersTyped
  <2>2. HandlersTyped'
    BY <1>0, <2>1 DEF HandlersTyped
  <2> QED BY <1>0, <2>1, <2>2, RowsStay
<1> QED BY <1>1, <1>2, <1>3, <1>4 DEF Request

\* A merge moves the faces of those it will delete; its target is merged from then on.
LEMMA ReassignStep ==
    ASSUME FaceStrong, reassignFacesOfPeople, HandlersTyped',
           UNCHANGED <<undetected, detector, guest, clock, acts, credit>>
    PROVE  FaceStrong' /\ Forward
<1>0. /\ desk.pc = "merge" /\ desk.person \in Persons /\ desk.doomed \subseteq Persons
      /\ RowsTrue /\ None \notin Persons /\ credit \in Nat /\ HandlersTyped
      /\ UNCHANGED <<person, worker>>
  BY FacePipelineAssumption DEF FaceStrong, DeskTrue, HandlersTyped, reassignFacesOfPeople
<1>a. PICK t \in Persons : t = desk.person
  BY <1>0
<1>b. PICK doomed \in SUBSET Persons : doomed = desk.doomed
  BY <1>0
<1>1. CASE ~ Live(t)
  <2>1. UNCHANGED <<face, merged>> /\ desk' \in {Idle, [desk EXCEPT !.pc = "delete"]}
    BY <1>1, <1>a DEF reassignFacesOfPeople
  <2>2. desk'.pc \in {"idle", "delete"} /\ (desk'.pc = "delete" => desk'.person = t)
    BY <1>0, <1>a, <2>1 DEF HandlersTyped, Idle
  <2>3. RowsTrue' /\ GuestTrue' /\ TimesPast' /\ WorkerTrue'
    BY <1>0, <2>1 DEF FaceStrong, RowsTrue, PersonExists, CoverExists, GuestTrue, TimesPast,
                      WorkerTrue, Live
  <2>4. DeskTrue'
    BY <2>2 DEF DeskTrue
  <2>5. ASSUME NEW p \in Persons PROVE CoverHeld(p)'
    BY <1>0, <2>1, CoverStays DEF Live
  <2>6. ASSUME NEW f \in Faces PROVE NamedFor(f)'
    BY <1>0, <2>1 DEF FaceStrong, NamedFor
  <2>7. Forward
    BY <1>0 DEF RowsTrue, PersonRow, Forward
  <2> QED BY <2>3, <2>4, <2>5, <2>6, <2>7 DEF FaceStrong
<1>2. CASE Live(t)
  <2>1. /\ face' = [f \in Faces |-> IF face[f].person \in doomed
                                    THEN [face[f] EXCEPT !.person = t] ELSE face[f]]
        /\ desk' = [desk EXCEPT !.pc = "delete"] /\ merged' = merged \cup {t}
    BY <1>2, <1>a, <1>b DEF reassignFacesOfPeople
  <2>2. /\ face' \in [Faces -> FaceRow]
        /\ \A f \in Faces : /\ face'[f].row = face[f].row /\ face'[f].claim = face[f].claim
                            /\ face'[f].person = IF face[f].person \in doomed THEN t
                                                 ELSE face[f].person
    BY <1>0, <2>1 DEF RowsTrue, FaceRow
  <2>3. desk'.pc = "delete" /\ desk'.person = t /\ desk'.doomed = doomed
    BY <1>0, <1>a, <1>b, <2>1 DEF HandlersTyped
  <2>4. RowsTrue' /\ GuestTrue' /\ TimesPast'
    <3>1. PersonExists(face', person')
      BY <1>0, <1>2, <2>2 DEF RowsTrue, PersonExists, Live
    <3>2. CoverExists(face', person')
      BY <1>0, <2>2 DEF RowsTrue, CoverExists, PersonRow
    <3> QED BY <1>0, <2>2, <3>1, <3>2 DEF FaceStrong, RowsTrue, GuestTrue, TimesPast
  <2>5. WorkerTrue'
    BY <1>0, <2>2 DEF FaceStrong, WorkerTrue, Live
  <2>6. DeskTrue'
    BY <2>3 DEF DeskTrue
  <2>7. ASSUME NEW p \in Persons PROVE CoverHeld(p)'
    <3>1. CASE p = t \/ p \in doomed
      BY <2>1, <2>3, <3>1 DEF CoverHeld
    <3>2. CASE p # t /\ p \notin doomed
      BY <1>0, <2>1, <2>2, <3>2, CoverStays DEF Live
    <3> QED BY <3>1, <3>2
  <2>8. ASSUME NEW f \in Faces PROVE NamedFor(f)'
    <3>1. CASE face[f].person \in doomed
      BY <2>1, <2>2, <3>1 DEF NamedFor
    <3>2. CASE face[f].person \notin doomed
      <4>1. NamedFor(f)
        BY DEF FaceStrong
      <4> QED BY <1>0, <2>1, <2>2, <3>2, <4>1 DEF NamedFor
    <3> QED BY <3>1, <3>2
  <2>9. Forward
    BY <1>0 DEF RowsTrue, PersonRow, Forward
  <2> QED BY <2>4, <2>5, <2>6, <2>7, <2>8, <2>9 DEF FaceStrong
<1> QED BY <1>1, <1>2

\* The portrait asked for is written, if both rows are still there.
LEMMA CoverStep ==
    ASSUME FaceStrong, CoverSet, HandlersTyped',
           UNCHANGED <<undetected, detector, guest, clock, acts, credit>>
    PROVE  FaceStrong' /\ Forward
<1>0. /\ desk.pc = "cover" /\ desk.person \in Persons /\ desk.face \in Faces /\ desk' = Idle
      /\ Live(desk.person) /\ Stored(desk.face) =>
            face[desk.face].person = desk.person \/ worker.pc = "cleanup"
      /\ RowsTrue /\ None \notin Persons /\ credit \in Nat
      /\ UNCHANGED <<face, worker, merged>>
  BY FacePipelineAssumption DEF FaceStrong, DeskTrue, HandlersTyped, CoverSet
<1>1. PICK t \in Persons, c \in Faces : t = desk.person /\ c = desk.face
  BY <1>0
<1>2. /\ person' \in [Persons -> PersonRow]
      /\ \A p \in Persons : /\ person'[p].id = person[p].id /\ person'[p].at = person[p].at
                            /\ p # t => person'[p] = person[p]
      /\ person'[t].cover = IF Live(t) /\ Stored(c) THEN c ELSE person[t].cover
  <2>1. person' = IF Live(t) /\ Stored(c) THEN [person EXCEPT ![t].cover = c] ELSE person
    BY <1>1 DEF CoverSet
  <2> QED BY <1>0, <2>1 DEF RowsTrue, PersonRow
<1>3. RowsTrue' /\ GuestTrue' /\ TimesPast'
  <2>1. PersonExists(face', person')
    BY <1>0, <1>2 DEF RowsTrue, PersonExists, FaceRow
  <2>2. CoverExists(face', person')
    BY <1>0, <1>2 DEF RowsTrue, CoverExists, Stored
  <2> QED BY <1>0, <1>2, <2>1, <2>2 DEF FaceStrong, RowsTrue, GuestTrue, TimesPast
<1>4. WorkerTrue'
  BY <1>0, <1>2 DEF FaceStrong, WorkerTrue, Live
<1>5. DeskTrue' /\ desk'.pc = "idle"
  BY <1>0 DEF DeskTrue, Idle
<1>6. ASSUME NEW p \in Persons PROVE CoverHeld(p)'
  <2>1. CASE p = t /\ Live(t) /\ Stored(c)
    <3>1. c \in FacesOf(t)' \/ (worker'.pc = "cleanup" /\ FacesOf(t)' = {})
      <4>1. CASE face[c].person = t
        BY <1>0, <1>1, <4>1 DEF FacesOf
      <4>2. CASE worker.pc = "cleanup"
        <5>1. \A f \in Faces : face[f].person = None
          BY <4>2 DEF FaceStrong, WorkerTrue
        <5> QED BY <1>0, <4>2, <5>1 DEF FacesOf
      <4> QED BY <1>0, <1>1, <2>1, <4>1, <4>2
    <3>2. person'[t].cover = c
      BY <1>2, <2>1
    <3> QED BY <2>1, <3>1, <3>2 DEF CoverHeld
  <2>2. CASE ~ (p = t /\ Live(t) /\ Stored(c))
    <3>1. person'[p].cover = person[p].cover /\ (Live(p)' <=> Live(p))
      BY <1>2, <2>2 DEF Live
    <3> QED BY <1>0, <3>1, CoverStays
  <2> QED BY <2>1, <2>2
<1>7. ASSUME NEW f \in Faces PROVE NamedFor(f)'
  <2>1. NamedFor(f) /\ (face[f].person # None => face[f].person \in Persons)
    BY <1>0 DEF FaceStrong, RowsTrue, FaceRow
  <2> QED BY <1>0, <1>2, <2>1 DEF NamedFor
<1>8. Forward
  BY <1>0, <1>2 DEF RowsTrue, PersonRow, Forward
<1> QED BY <1>3, <1>4, <1>5, <1>6, <1>7, <1>8 DEF FaceStrong

\* The later statements of a request.
LEMMA RequestEnds == FaceStrong /\ RequestGoesOn => FaceStrong' /\ Forward
<1> SUFFICES ASSUME FaceStrong, RequestGoesOn PROVE FaceStrong' /\ Forward
  OBVIOUS
<1>0. /\ UNCHANGED <<undetected, detector, guest, clock, acts, credit>>
      /\ HandlersTyped /\ DeskTrue
  BY DEF RequestGoesOn, bounds, FaceStrong
<1>1. CASE reassignFacesOfPeople
  <2>1. /\ desk' \in {Idle, [desk EXCEPT !.pc = "delete"]}
        /\ merged' \in {merged, merged \cup {desk.person}} /\ desk.person \in Persons
        /\ UNCHANGED <<person, queue, worker, cleaner, collided>>
    BY <1>0, <1>1 DEF reassignFacesOfPeople, DeskTrue
  <2>2. HandlersTyped'
    BY <1>0, <2>1 DEF HandlersTyped, Idle
  <2> QED BY <1>0, <1>1, <2>2, ReassignStep
<1>2. CASE DeleteMerged
  <2>1. /\ desk.pc = "delete" /\ Delete(desk.doomed) /\ desk' = Idle
        /\ UNCHANGED <<queue, worker, cleaner, merged>>
    BY <1>2 DEF DeleteMerged
  <2>2. collided' \in BOOLEAN /\ desk.doomed \in SUBSET Persons
    BY <1>0, <2>1 DEF Delete, HandlersTyped
  <2>3. HandlersTyped'
    BY <1>0, <2>1, <2>2 DEF HandlersTyped, Idle
  <2> QED BY <1>0, <2>1, <2>2, <2>3, DeleteStep
<1>3. CASE CoverSet
  <2>1. HandlersTyped'
    BY <1>0, <1>3 DEF HandlersTyped, CoverSet, Idle
  <2> QED BY <1>0, <1>3, <2>1, CoverStep
<1> QED BY <1>1, <1>2, <1>3 DEF RequestGoesOn

-----------------------------------------------------------------------------
(* Names *)

\* The organiser's name is the newest there is.
LEMMA RenameStep ==
    ASSUME FaceStrong, NEW p \in Persons, Rename(p), HandlersTyped',
           UNCHANGED <<worker, desk, merged, credit>>
    PROVE  FaceStrong' /\ Forward
<1>0. /\ RowsTrue /\ TimesPast /\ clock \in Nat /\ clock < MaxTime /\ clock' = clock + 1
      /\ MaxTime \in Nat /\ None \notin Persons /\ credit \in Nat
      /\ person' = [person EXCEPT ![p].at = clock + 1, ![p].by = "organiser"]
      /\ UNCHANGED <<face, guest>>
  BY FacePipelineAssumption DEF FaceStrong, HandlersTyped, Rename
<1>1. /\ person' \in [Persons -> PersonRow]
      /\ \A q \in Persons : /\ person'[q].id = person[q].id /\ person'[q].cover = person[q].cover
                            /\ person'[q].at = IF q = p THEN clock + 1 ELSE person[q].at
  <2> DEFINE row == [person[p] EXCEPT !.at = clock + 1, !.by = "organiser"]
  <2>1. /\ row \in PersonRow /\ row.at = clock + 1
        /\ row.id = person[p].id /\ row.cover = person[p].cover
    <3>1. clock + 1 \in 0..MaxTime /\ person[p] \in PersonRow
      BY <1>0 DEF RowsTrue
    <3> QED BY <3>1 DEF PersonRow
  <2>2. person' = [person EXCEPT ![p] = row]
    BY <1>0
  <2> HIDE DEF row
  <2> QED BY <1>0, <2>1, <2>2 DEF RowsTrue
<1>2. \A q \in Persons : person[q].at \in Nat /\ person[q].at <= clock
  BY <1>0 DEF RowsTrue, PersonRow, TimesPast
<1>3. \A f \in Faces : face[f].claim \in Nat /\ face[f].claim <= clock
  BY <1>0 DEF RowsTrue, FaceRow, TimesPast
<1>4. RowsTrue' /\ GuestTrue' /\ TimesPast' /\ WorkerTrue'
  <2>1. PersonExists(face', person') /\ CoverExists(face', person')
    BY <1>0, <1>1 DEF RowsTrue, PersonExists, CoverExists, FaceRow
  <2>2. TimesPast'
    BY <1>0, <1>1, <1>2, <1>3 DEF TimesPast
  <2> QED BY <1>0, <1>1, <2>1, <2>2 DEF FaceStrong, RowsTrue, GuestTrue, WorkerTrue, Live
<1>5. DeskTrue'
  BY <1>0, <1>1 DEF FaceStrong, DeskTrue, Live, Stored
<1>6. ASSUME NEW q \in Persons PROVE CoverHeld(q)'
  BY <1>0, <1>1, CoverStays DEF Live
<1>7. ASSUME NEW f \in Faces PROVE NamedFor(f)'
  <2>1. NamedFor(f) /\ (face[f].person # None => face[f].person \in Persons)
    BY <1>0 DEF FaceStrong, RowsTrue, FaceRow
  <2>2. face[f].person # None => person[face[f].person].at <= person'[face[f].person].at
                                 /\ person'[face[f].person].at \in Nat
    BY <1>0, <1>1, <1>2, <2>1
  <2> QED BY <1>0, <1>2, <1>3, <2>1, <2>2 DEF NamedFor
<1>8. Forward
  BY <1>0, <1>1, <1>2 DEF Forward
<1> QED BY <1>4, <1>5, <1>6, <1>7, <1>8 DEF FaceStrong

\* A guest claims a face; its person is named next.
LEMMA ClaimStep ==
    ASSUME FaceStrong, NEW f \in Faces, Claim(f), HandlersTyped',
           UNCHANGED <<worker, desk, merged, credit>>
    PROVE  FaceStrong' /\ Forward
<1>0. /\ RowsTrue /\ TimesPast /\ clock \in Nat /\ clock < MaxTime /\ clock' = clock + 1
      /\ MaxTime \in Nat /\ None \notin Persons /\ credit \in Nat /\ guest.pc = "idle"
      /\ face' = [face EXCEPT ![f].claim = clock + 1]
      /\ guest' = [Idle EXCEPT !.pc = "claimed", !.face = f] /\ UNCHANGED person
  BY FacePipelineAssumption DEF FaceStrong, HandlersTyped, Claim
<1>1. /\ face' \in [Faces -> FaceRow]
      /\ \A g \in Faces : /\ face'[g].row = face[g].row /\ face'[g].person = face[g].person
                          /\ face'[g].claim = IF g = f THEN clock + 1 ELSE face[g].claim
  BY <1>0 DEF RowsTrue, FaceRow
<1>2. guest'.pc = "claimed" /\ guest'.face = f
  BY <1>0 DEF Idle
<1>3. \A q \in Persons : person[q].at \in Nat /\ person[q].at <= clock
  BY <1>0 DEF RowsTrue, PersonRow, TimesPast
<1>4. \A g \in Faces : face[g].claim \in Nat /\ face[g].claim <= clock
  BY <1>0 DEF RowsTrue, FaceRow, TimesPast
<1>5. RowsTrue' /\ GuestTrue' /\ TimesPast' /\ WorkerTrue'
  <2>1. PersonExists(face', person') /\ CoverExists(face', person')
    BY <1>0, <1>1 DEF RowsTrue, PersonExists, CoverExists, PersonRow
  <2>2. TimesPast'
    BY <1>0, <1>1, <1>3, <1>4 DEF TimesPast
  <2> QED BY <1>0, <1>1, <1>2, <2>1, <2>2 DEF FaceStrong, RowsTrue, GuestTrue, WorkerTrue, Live
<1>6. DeskTrue'
  BY <1>0, <1>1 DEF FaceStrong, DeskTrue, Live, Stored
<1>7. ASSUME NEW q \in Persons PROVE CoverHeld(q)'
  BY <1>0, <1>1, CoverStays DEF Live
<1>8. ASSUME NEW g \in Faces PROVE NamedFor(g)'
  <2>1. CASE g = f
    BY <1>2, <2>1 DEF NamedFor
  <2>2. CASE g # f
    <3>1. NamedFor(g)
      BY DEF FaceStrong
    <3> QED BY <1>0, <1>1, <2>2, <3>1 DEF NamedFor
  <2> QED BY <2>1, <2>2
<1>9. Forward
  BY <1>0, <1>3 DEF Forward
<1> QED BY <1>5, <1>6, <1>7, <1>8, <1>9 DEF FaceStrong

\* The person of the claimed face is read: without one there is nothing to name.
LEMMA LookupStep ==
    ASSUME FaceStrong, getPersonsForFaces, HandlersTyped',
           UNCHANGED <<worker, desk, merged, credit>>
    PROVE  FaceStrong' /\ Forward
<1>0. /\ RowsTrue /\ TimesPast /\ guest.pc = "claimed" /\ guest.face \in Faces
      /\ UNCHANGED <<face, person, clock>>
      /\ guest' = IF face[guest.face].person = None THEN Idle
                  ELSE [Idle EXCEPT !.pc = "name", !.person = face[guest.face].person]
  BY DEF FaceStrong, GuestTrue, getPersonsForFaces, rows
<1>1. CASE face[guest.face].person = None
  <2>1. guest'.pc = "idle"
    BY <1>0, <1>1 DEF Idle
  <2>2. ASSUME NEW f \in Faces PROVE NamedFor(f)'
    BY <1>0, <1>1 DEF FaceStrong, NamedFor
  <2>3. GuestTrue'
    BY <2>1 DEF GuestTrue
  <2> QED BY <1>0, <2>2, <2>3 DEF FaceStrong, RowsTrue, PersonExists, CoverExists, TimesPast,
             WorkerTrue, DeskTrue, CoverHeld, FacesOf, Live, Stored, Forward, PersonRow
<1>2. CASE face[guest.face].person # None
  <2>1. guest'.pc = "name" /\ guest'.person = face[guest.face].person
    BY <1>0, <1>2 DEF Idle
  <2>2. ASSUME NEW f \in Faces PROVE NamedFor(f)'
    BY <1>0, <2>1 DEF FaceStrong, NamedFor
  <2>3. GuestTrue'
    BY <1>0, <1>2, <2>1 DEF GuestTrue, RowsTrue, FaceRow
  <2> QED BY <1>0, <2>2, <2>3 DEF FaceStrong, RowsTrue, PersonExists, CoverExists, TimesPast,
             WorkerTrue, DeskTrue, CoverHeld, FacesOf, Live, Stored, Forward, PersonRow
<1> QED BY <1>1, <1>2

\* Claims, renames and the names that follow.
LEMMA NamesStep == FaceStrong /\ Naming => FaceStrong' /\ Forward
<1> SUFFICES ASSUME FaceStrong, Naming PROVE FaceStrong' /\ Forward
  OBVIOUS
<1>0. /\ UNCHANGED <<undetected, detector, queue, worker, cleaner, desk, merged, collided, acts, credit>>
      /\ HandlersTyped /\ GuestTrue /\ RowsTrue
      /\ clock \in 0..MaxTime /\ MaxTime \in Nat
  BY FacePipelineAssumption DEF Naming, FaceStrong, HandlersTyped
<1>1. ASSUME NEW p \in Persons, Rename(p) PROVE FaceStrong' /\ Forward
  <2>1. clock < MaxTime /\ clock' = clock + 1 /\ UNCHANGED guest
    BY <1>1 DEF Rename
  <2>2. clock' \in 0..MaxTime
    BY <1>0, <2>1
  <2>3. HandlersTyped'
    BY <1>0, <2>1, <2>2 DEF HandlersTyped
  <2> QED BY <1>0, <1>1, <2>3, RenameStep
<1>2. ASSUME NEW f \in Faces, Claim(f) PROVE FaceStrong' /\ Forward
  <2>1. /\ clock < MaxTime /\ clock' = clock + 1
        /\ guest' = [Idle EXCEPT !.pc = "claimed", !.face = f]
    BY <1>2 DEF Claim
  <2>2. clock' \in 0..MaxTime
    BY <1>0, <2>1
  <2>3. HandlersTyped'
    BY <1>0, <2>1, <2>2 DEF HandlersTyped, Idle
  <2> QED BY <1>0, <1>2, <2>3, ClaimStep
<1>3. CASE getPersonsForFaces
  <2>1. /\ guest.face \in Faces /\ clock' = clock
        /\ guest' \in {Idle, [Idle EXCEPT !.pc = "name", !.person = face[guest.face].person]}
    BY <1>0, <1>3 DEF getPersonsForFaces, GuestTrue
  <2>2. face[guest.face].person \in Persons \cup {None}
    BY <1>0, <2>1 DEF RowsTrue, FaceRow
  <2>3. guest' \in [pc : {"idle", "claimed", "name"}, face : Faces \cup {None},
                    person : Persons \cup {None}, doomed : SUBSET Persons]
    <3>1. PICK p \in Persons \cup {None} : p = face[guest.face].person
      BY <2>2
    <3>2. guest' = Idle \/ guest' = [Idle EXCEPT !.pc = "name", !.person = p]
      BY <2>1, <3>1
    <3>3. CASE guest' = Idle
      BY <3>3 DEF Idle
    <3>4. CASE guest' = [Idle EXCEPT !.pc = "name", !.person = p]
      BY <3>1, <3>4 DEF Idle
    <3> QED BY <3>2, <3>3, <3>4
  <2>4. HandlersTyped'
    BY <1>0, <2>1, <2>3 DEF HandlersTyped
  <2> QED BY <1>0, <1>3, <2>4, LookupStep
<1>4. CASE nameMatchedPerson
  <2>1. /\ guest.pc = "name" /\ guest.person \in Persons /\ guest' = Idle
        /\ person' = nameFromParticipants(guest.person) /\ UNCHANGED <<face, clock>>
    BY <1>0, <1>4 DEF nameMatchedPerson, GuestTrue
  <2>2. HandlersTyped' /\ guest'.pc = "idle"
    BY <1>0, <2>1 DEF HandlersTyped, Idle
  <2> QED BY <1>0, <2>1, <2>2, NamingStep
<1>5. CASE PersonNameBackfill
  <2>1. PICK p \in getClaimedPersonIds : person' = nameFromParticipants(p)
    BY <1>5 DEF PersonNameBackfill
  <2>2. p \in Persons /\ UNCHANGED <<face, guest, clock>>
    BY <1>5, <2>1 DEF PersonNameBackfill, getClaimedPersonIds
  <2>3. HandlersTyped'
    BY <1>0, <2>2 DEF HandlersTyped
  <2> QED BY <1>0, <2>1, <2>2, <2>3, NamingStep
<1> QED BY <1>1, <1>2, <1>3, <1>4, <1>5 DEF Naming

-----------------------------------------------------------------------------
(* Theorems *)

\* Before the first photo nobody is there.
LEMMA FaceInit == Init => FaceStrong
<1> SUFFICES ASSUME Init PROVE FaceStrong
  OBVIOUS
<1> USE FacePipelineAssumption
<1>1. \A f \in Faces : face[f] = NoFace
  BY DEF Init, Untouched
<1>2. \A p \in Persons : person[p] = NoPerson
  BY DEF Init, Untouched
<1>3. NoFace \in FaceRow /\ NoFace.person = None /\ NoFace.claim = 0
  BY DEF NoFace, FaceRow
<1>4. NoPerson \in PersonRow /\ NoPerson.cover = None /\ NoPerson.at = 0 /\ NoPerson.id = "unused"
  BY DEF NoPerson, PersonRow
<1>5. worker.pc = "idle" /\ desk.pc = "idle" /\ guest.pc = "idle" /\ clock = 0
  BY DEF Init, Untouched, Idle
<1>6. HandlersTyped
  <2>1. /\ undetected = Faces /\ detector = None /\ queue = <<>> /\ worker = Idle /\ cleaner = {}
        /\ desk = Idle /\ guest = Idle /\ credit = MaxFaults /\ merged = {} /\ clock = 0
        /\ acts = MaxActs
    BY DEF Init, Untouched
  <2>2. collided \in BOOLEAN
    BY DEF Init, Untouched
  <2>3. queue \in Seq(Job)
    BY <2>1
  <2>4. clock \in 0..MaxTime /\ acts \in 0..MaxActs /\ credit \in 0..MaxFaults
    BY <2>1
  <2> QED BY <2>1, <2>2, <2>3, <2>4 DEF HandlersTyped, Idle
<1>7. RowsTrue
  BY <1>1, <1>2, <1>3, <1>4 DEF Init, Untouched, RowsTrue, PersonExists, CoverExists
<1>8. WorkerTrue /\ DeskTrue /\ GuestTrue /\ TimesPast
  BY <1>1, <1>2, <1>3, <1>4, <1>5 DEF WorkerTrue, DeskTrue, GuestTrue, TimesPast
<1>9. \A p \in Persons : CoverHeld(p)
  BY <1>2, <1>4 DEF CoverHeld, Live
<1>10. \A f \in Faces : NamedFor(f)
  BY <1>1, <1>3 DEF NamedFor
<1> QED BY <1>6, <1>7, <1>8, <1>9, <1>10 DEF FaceStrong

\* Every step keeps what it needs, and puts no older name over a newer one.
LEMMA FaceStep == FaceStrong /\ [Next]_vars => FaceStrong' /\ Forward
<1> SUFFICES ASSUME FaceStrong, [Next]_vars PROVE FaceStrong' /\ Forward
  OBVIOUS
<1>1. CASE Next
  BY <1>1, DetectionStep, RecognitionStep, UpkeepStep, RequestStep, RequestEnds, NamesStep DEF Next
<1>2. CASE UNCHANGED vars
  <2>1. /\ UNCHANGED <<face, person, undetected, detector, queue, worker, cleaner, desk, guest>>
        /\ UNCHANGED <<merged, collided, clock, acts, credit>>
    BY <1>2 DEF vars, rows, bounds
  <2>2. HandlersTyped' /\ credit' \in 0..credit
    BY <2>1, FacePipelineAssumption DEF FaceStrong, HandlersTyped
  <2> QED BY <2>1, <2>2, RowsStay
<1> QED BY <1>1, <1>2

\* For any faces, people, neighbourhoods and interleavings: a face's person lives, has
\* a portrait of its own and carries the claimed name or is about to
\* (face.service.ts:275-305, person.service.ts:151-170).
THEOREM PeopleStayTrue == Spec => []PeopleInv
<1>1. Spec => []FaceStrong
  BY FaceInit, FaceStep, PTL DEF Spec
<1> QED BY <1>1, StrongIsPeople, PTL

\* Between the organiser and the guests the last to act wins, whatever handler writes
\* a name and however late (person.repository.ts, nameFromParticipants).
THEOREM LastNameWins == Spec => NamesMoveForward
<1>1. Spec => []FaceStrong
  BY FaceInit, FaceStep, PTL DEF Spec
<1>2. FaceStrong /\ [Next]_vars =>
        [\A p \in Persons : Live(p) /\ person'[p].id = "live" =>
           person'[p].at >= person[p].at]_vars
  BY FaceStep DEF Forward
<1> QED BY <1>1, <1>2, PTL DEF Spec, NamesMoveForward

-----------------------------------------------------------------------------
(* Smart search *)

ImageRow == [state : {"none", "processed", "deleted", "gone"}, embedded : BOOLEAN]

BackfillRow == [on : BOOLEAN, force : BOOLEAN, afterId : Int, missing : SUBSET Images, reached : SUBSET Images]

\* What the backfill still has to reach lies ahead of it.
BackfillTrue ==
    /\ backfill \in BackfillRow
    /\ \A a \in backfill.missing : image[a].state # "none"
    /\ \A a \in backfill.missing \ backfill.reached :
          \/ backfill.on /\ a > backfill.afterId
          \/ image[a].embedded \/ ~ LiveImage(a)

\* A call in hand has every server before it or behind it.
CallTrue ==
    \/ predict = NoPredict
    \/ /\ predict \in [image : Images, untried : Seq(Servers), tried : Seq(Servers)]
       /\ \A s \in Servers : \/ \E i \in DOMAIN predict.untried : predict.untried[i] = s
                            \/ \E i \in DOMAIN predict.tried : predict.tried[i] = s

SearchStrong ==
    /\ image \in [Images -> ImageRow] /\ serving \subseteq Servers
    /\ BackfillTrue /\ CallTrue /\ ~ outage

\* A page holds the least of what is left: it is empty only if that is, and nothing
\* below its last id stays behind.
LEMMA PageIsNext ==
    ASSUME NEW S \in SUBSET Images, NEW n \in Nat \ {0}
    PROVE  LET page == Smallest(S, n)
           IN /\ page \subseteq S /\ (S # {} => page # {})
              /\ page # {} => /\ Max(page) \in page
                              /\ \A a \in S : a <= Max(page) => a \in page
<1> DEFINE Below(a) == {b \in S : b < a}
           page == Smallest(S, n)
<1>0. S \subseteq Nat /\ IsFiniteSet(S)
  BY SmartSearchConstants, FS_Subset
<1>1. \A a \in S : IsFiniteSet(Below(a)) /\ Cardinality(Below(a)) \in Nat
  BY <1>0, FS_Subset, FS_CardinalityType
<1>2. \A a \in S : a \in page <=> Cardinality(Below(a)) < n
  BY DEF Smallest
<1>3. page \subseteq S
  BY DEF Smallest
<1>4. ASSUME S # {} PROVE page # {}
  <2>1. PICK a \in S : \A b \in S : a <= b
    BY <1>0, <1>4, Least
  <2>2. Below(a) = {}
    <3>1. \A b \in S : ~ (b < a)
      BY <1>0, <2>1
    <3> QED BY <3>1
  <2>3. Cardinality(Below(a)) = 0
    BY <2>2, FS_EmptySet
  <2>4. Cardinality(Below(a)) < n
    BY <2>3
  <2>5. a \in page
    BY <1>2, <2>4
  <2> QED BY <2>5
<1>5. ASSUME page # {} PROVE Max(page) \in page /\ \A b \in page : Max(page) >= b
  <2>1. IsFiniteSet(page) /\ page \subseteq Nat
    BY <1>0, <1>3, FS_Subset
  <2> HIDE DEF page
  <2>2. \E x \in page : \A y \in page : x >= y
    BY <1>5, <2>1, FiniteGreatest
  <2> QED BY <2>2 DEF Max
<1>6. ASSUME NEW a \in S, page # {}, a <= Max(page) PROVE a \in page
  <2>1. PICK m \in page : m = Max(page)
    BY <1>5, <1>6
  <2>2. m \in S /\ a <= m
    BY <1>3, <1>6, <2>1
  <2>3. Below(a) \subseteq Below(m)
    <3>1. \A b \in S : b \in Int
      BY <1>0
    <3>2. \A b \in S : b < a => b < m
      BY <2>2, <3>1
    <3> QED BY <3>2
  <2>4. Cardinality(Below(a)) <= Cardinality(Below(m)) /\ Cardinality(Below(m)) < n
    <3>1. Cardinality(Below(m)) < n
      BY <1>2, <2>1, <2>2
    <3> HIDE DEF Below
    <3>2. IsFiniteSet(Below(m))
      BY <1>1, <2>2
    <3> QED BY <2>3, <3>1, <3>2, PartIsSmaller
  <2>5. Cardinality(Below(a)) < n
    BY <1>1, <2>2, <2>4
  <2> QED BY <1>2, <2>5
<1> QED BY <1>3, <1>4, <1>5, <1>6

\* It is what the run checks.
LEMMA SearchHolds == SearchStrong => SearchComplete
BY DEF SearchStrong, BackfillTrue, SearchComplete, BackfillReachesAll, EveryServerTried

\* Photos come and go, and embeddings are stored, behind or ahead of the backfill.
LEMMA ImagesChange ==
    ASSUME SearchStrong, image' \in [Images -> ImageRow], UNCHANGED <<serving, backfill, outage>>,
           \A a \in Images :
              /\ image[a].state # "none" => image'[a].state # "none"
              /\ image[a].embedded => image'[a].embedded \/ ~ LiveImage(a)'
              /\ image[a].state \notin {"none", "processed"} => ~ LiveImage(a)',
           CallTrue'
    PROVE  SearchStrong'
<1>1. \A a \in Images : ~ LiveImage(a) /\ image[a].state # "none" => ~ LiveImage(a)'
  BY DEF LiveImage, SearchStrong
<1>2. BackfillTrue'
  <2>1. backfill' = backfill /\ backfill \in BackfillRow /\ backfill.missing \subseteq Images
    BY DEF SearchStrong, BackfillTrue, BackfillRow
  <2>2. \A a \in backfill.missing : image'[a].state # "none"
    BY <2>1 DEF SearchStrong, BackfillTrue
  <2>3. ASSUME NEW a \in backfill.missing \ backfill.reached
        PROVE  \/ backfill.on /\ a > backfill.afterId
               \/ image'[a].embedded \/ ~ LiveImage(a)'
    BY <1>1, <2>1, <2>3 DEF SearchStrong, BackfillTrue
  <2> QED BY <2>1, <2>2, <2>3 DEF BackfillTrue
<1> QED BY <1>2 DEF SearchStrong

\* A photo is processed, deleted, or embedded.
LEMMA PhotosKeepSearch ==
    ASSUME SearchStrong, NEW a \in Images, AssetProcessed(a) \/ DeleteImage(a)
    PROVE  SearchStrong'
<1>1. image' \in [Images -> ImageRow]
  <2>1. image \in [Images -> ImageRow] /\ image[a] \in ImageRow
    BY DEF SearchStrong
  <2>2. /\ [image[a] EXCEPT !.state = "processed"] \in ImageRow
        /\ [image[a] EXCEPT !.state = "deleted"] \in ImageRow
        /\ [state |-> "gone", embedded |-> FALSE] \in ImageRow
    BY <2>1 DEF ImageRow
  <2>3. \E r \in ImageRow : image' = [image EXCEPT ![a] = r]
    BY <2>2 DEF AssetProcessed, DeleteImage
  <2> QED BY <2>1, <2>3
<1>2. \A b \in Images :
         /\ image[b].state # "none" => image'[b].state # "none"
         /\ image[b].embedded => image'[b].embedded \/ ~ LiveImage(b)'
         /\ image[b].state \notin {"none", "processed"} => ~ LiveImage(b)'
  BY DEF SearchStrong, ImageRow, AssetProcessed, DeleteImage, LiveImage
<1>3. UNCHANGED <<serving, backfill, outage, predict>>
  BY DEF AssetProcessed, DeleteImage
<1>4. CallTrue'
  BY <1>3 DEF SearchStrong, CallTrue, NoPredict
<1> QED BY <1>1, <1>2, <1>3, <1>4, ImagesChange

\* A call begins with every server before it.
LEMMA CallBegins ==
    ASSUME SearchStrong, NEW a \in Images, handleSmartSearch(a)
    PROVE  SearchStrong'
<1>1. UNCHANGED <<image, healthy, serving, backfill, outage>>
  BY DEF handleSmartSearch
<1>2. BackfillTrue'
  BY <1>1 DEF SearchStrong, BackfillTrue, LiveImage
<1>3. CallTrue'
  <2>1. ASSUME UNCHANGED predict PROVE CallTrue'
    BY <2>1 DEF SearchStrong, CallTrue, NoPredict
  <2>2. ASSUME NEW q \in TryOrder, predict' = [image |-> a, untried |-> q, tried |-> <<>>]
        PROVE  CallTrue'
    <3>1. Cardinality(Servers) \in Nat
      BY SmartSearchConstants, FS_CardinalityType
    <3>2. q \in [1..Cardinality(Servers) -> Servers] /\ \A s \in Servers : \E i \in DOMAIN q : q[i] = s
      BY DEF TryOrder
    <3>3. q \in Seq(Servers) /\ <<>> \in Seq(Servers)
      BY <3>1, <3>2
    <3> QED BY <2>2, <3>2, <3>3 DEF CallTrue
  <2> QED BY <2>1, <2>2 DEF handleSmartSearch
<1> QED BY <1>1, <1>2, <1>3 DEF SearchStrong

\* The server asked goes from before the call to behind it, or its answer is stored.
LEMMA CallGoesOn ==
    ASSUME SearchStrong, Attempt
    PROVE  SearchStrong'
<1>1. /\ predict \in [image : Images, untried : Seq(Servers), tried : Seq(Servers)]
      /\ predict.untried # <<>> /\ Head(predict.untried) \in Servers
      /\ \A s \in Servers : \/ \E i \in DOMAIN predict.untried : predict.untried[i] = s
                           \/ \E i \in DOMAIN predict.tried : predict.tried[i] = s
  BY DEF SearchStrong, CallTrue, NoPredict, Attempt
<1>2. UNCHANGED <<serving, backfill, outage>>
  BY DEF Attempt
<1>3. CASE Head(predict.untried) \in serving
  <2>1. predict' = NoPredict /\ EmbedImage(predict.image) /\ predict.image \in Images
    BY <1>1, <1>3 DEF Attempt
  <2>2. \/ UNCHANGED image
        \/ image' = [image EXCEPT ![predict.image].embedded = TRUE]
    BY <2>1 DEF EmbedImage
  <2>3. image' \in [Images -> ImageRow]
    BY <2>1, <2>2 DEF SearchStrong, ImageRow
  <2>4. \A b \in Images :
           /\ image[b].state # "none" => image'[b].state # "none"
           /\ image[b].embedded => image'[b].embedded \/ ~ LiveImage(b)'
           /\ image[b].state \notin {"none", "processed"} => ~ LiveImage(b)'
    BY <2>1, <2>2 DEF SearchStrong, ImageRow, LiveImage
  <2>5. CallTrue'
    BY <2>1 DEF CallTrue, NoPredict
  <2> QED BY <1>2, <2>3, <2>4, <2>5, ImagesChange
<1>4. CASE Head(predict.untried) \notin serving
  <2>1. /\ predict' = [predict EXCEPT !.untried = Tail(@), !.tried = Append(@, Head(predict.untried))]
        /\ UNCHANGED image
    BY <1>4 DEF Attempt
  <2> DEFINE left == predict.untried
             behind == predict.tried
             url == Head(left)
  <2>2. left \in Seq(Servers) /\ left # <<>> /\ behind \in Seq(Servers) /\ url \in Servers
    BY <1>1
  <2>3. predict' = [image |-> predict.image, untried |-> Tail(left), tried |-> Append(behind, url)]
    BY <1>1, <2>1
  <2>4. Tail(left) \in Seq(Servers) /\ Append(behind, url) \in Seq(Servers)
    BY <2>2
  <2>5. ASSUME NEW s \in Servers
        PROVE  \/ \E i \in DOMAIN Tail(left) : Tail(left)[i] = s
               \/ \E i \in DOMAIN Append(behind, url) : Append(behind, url)[i] = s
    <3>1. CASE \E i \in DOMAIN left : left[i] = s
      <4>1. PICK i \in DOMAIN left : left[i] = s
        BY <3>1
      <4>2. CASE i = 1
        <5>1. url = s
          BY <2>2, <4>1, <4>2
        <5>2. /\ Len(behind) + 1 \in DOMAIN Append(behind, url)
              /\ Append(behind, url)[Len(behind) + 1] = url
          BY <2>2
        <5> QED BY <5>1, <5>2
      <4>3. CASE i # 1
        <5>1. i - 1 \in DOMAIN Tail(left) /\ Tail(left)[i - 1] = left[i]
          BY <2>2, <4>1, <4>3
        <5> QED BY <4>1, <5>1
      <4> QED BY <4>2, <4>3
    <3>2. CASE \E i \in DOMAIN behind : behind[i] = s
      <4>1. PICK i \in DOMAIN behind : behind[i] = s
        BY <3>2
      <4>2. i \in DOMAIN Append(behind, url) /\ Append(behind, url)[i] = behind[i]
        BY <2>2, <4>1
      <4> QED BY <4>1, <4>2
    <3> QED BY <1>1, <3>1, <3>2
  <2>6. CallTrue'
    <3> HIDE DEF left, behind, url
    <3>1. predict.image \in Images
      BY <1>1
    <3>2. predict' \in [image : Images, untried : Seq(Servers), tried : Seq(Servers)]
      BY <2>3, <2>4, <3>1
    <3>3. predict'.untried = Tail(left) /\ predict'.tried = Append(behind, url)
      BY <2>3
    <3> QED BY <2>5, <3>2, <3>3 DEF CallTrue
  <2>7. BackfillTrue'
    BY <1>2, <2>1 DEF SearchStrong, BackfillTrue, LiveImage
  <2> QED BY <1>2, <2>1, <2>6, <2>7 DEF SearchStrong
<1> QED BY <1>3, <1>4

\* A call that nobody is left to answer has asked every server.
LEMMA CallFails ==
    ASSUME SearchStrong, PredictFails
    PROVE  SearchStrong'
<1>1. UNCHANGED <<image, serving, backfill>> /\ predict' = NoPredict
  BY DEF PredictFails
<1>2. \A s \in Servers : \E i \in DOMAIN predict.tried : predict.tried[i] = s
  BY DEF SearchStrong, CallTrue, PredictFails
<1>3. ~ \E s \in serving : \A i \in DOMAIN predict.tried : predict.tried[i] # s
  BY <1>2 DEF SearchStrong
<1>4. ~ outage'
  BY <1>3 DEF SearchStrong, PredictFails
<1>5. BackfillTrue'
  BY <1>1 DEF SearchStrong, BackfillTrue, LiveImage
<1>6. CallTrue'
  BY <1>1 DEF CallTrue, NoPredict
<1> QED BY <1>1, <1>4, <1>5, <1>6 DEF SearchStrong

\* Servers come and go, and the ping takes note of it.
LEMMA ServersChange ==
    ASSUME SearchStrong, NEW s \in Servers, check(s) \/ ServerUpOrDown(s)
    PROVE  SearchStrong'
<1>1. UNCHANGED <<image, predict, backfill, outage>> /\ serving' \subseteq Servers
  BY DEF SearchStrong, check, ServerUpOrDown
<1>2. BackfillTrue'
  BY <1>1 DEF SearchStrong, BackfillTrue, LiveImage
<1>3. CallTrue'
  BY <1>1 DEF SearchStrong, CallTrue, NoPredict
<1> QED BY <1>1, <1>2, <1>3 DEF SearchStrong

\* The backfill begins ahead of every photo.
LEMMA BackfillBegins ==
    ASSUME SearchStrong, NEW force \in BOOLEAN, QueueAll(force)
    PROVE  SearchStrong'
<1>1. /\ UNCHANGED <<image, predict, serving, outage>>
      /\ backfill' = [on |-> TRUE, force |-> force, afterId |-> -1, missing |-> Wanted(force), reached |-> {}]
  BY DEF QueueAll
<1>2. Wanted(force) \subseteq Images /\ \A a \in Wanted(force) : image[a].state # "none"
  BY DEF Wanted, LiveImage
<1>3. \A a \in Wanted(force) : a > -1
  <2>1. \A n \in Nat : n > -1
    OBVIOUS
  <2> QED BY <1>2, <2>1, SmartSearchConstants
<1>4. BackfillTrue'
  BY <1>1, <1>2, <1>3 DEF BackfillTrue, BackfillRow
<1>5. CallTrue'
  BY <1>1 DEF SearchStrong, CallTrue, NoPredict
<1> QED BY <1>1, <1>4, <1>5 DEF SearchStrong

\* It steps over a page and leaves nothing behind it; it ends when nothing is ahead.
LEMMA BackfillGoesOn ==
    ASSUME SearchStrong, handleQueueAll
    PROVE  SearchStrong'
<1> DEFINE ahead == {a \in Wanted(backfill.force) : a > backfill.afterId}
           page == Smallest(ahead, QUEUE_ALL_PAGE_SIZE)
<1>1. UNCHANGED <<image, predict, serving, outage>> /\ backfill.on /\ backfill \in BackfillRow
  BY DEF handleQueueAll, SearchStrong, BackfillTrue
<1>2. ahead \subseteq Images
  BY DEF Wanted
<1>3. /\ page \subseteq ahead /\ (ahead # {} => page # {})
      /\ page # {} => /\ Max(page) \in page
                      /\ \A a \in ahead : a <= Max(page) => a \in page
  BY <1>2, SmartSearchConstants, PageIsNext
<1>4. ASSUME NEW a \in backfill.missing \ backfill.reached, ~ image[a].embedded, LiveImage(a)
      PROVE  a \in ahead /\ a \in Images
  BY <1>1, <1>4 DEF SearchStrong, BackfillTrue, BackfillRow, Wanted
<1>5. CallTrue'
  BY <1>1 DEF SearchStrong, CallTrue, NoPredict
<1>6. \A a \in backfill.missing : a \in Images /\ image[a].state # "none"
  BY <1>1 DEF SearchStrong, BackfillTrue, BackfillRow
<1>7. CASE page = {}
  <2>1. backfill' = [backfill EXCEPT !.on = FALSE]
    BY <1>7 DEF handleQueueAll, getProcessedAssetIds
  <2>2. backfill' \in BackfillRow /\ backfill'.missing = backfill.missing /\ backfill'.reached = backfill.reached
    BY <1>1, <2>1 DEF BackfillRow
  <2>3. \A a \in backfill.missing \ backfill.reached : image[a].embedded \/ ~ LiveImage(a)
    BY <1>3, <1>4, <1>7
  <2>4. BackfillTrue'
    BY <1>1, <1>6, <2>2, <2>3 DEF BackfillTrue, LiveImage
  <2> QED BY <1>1, <1>5, <2>4 DEF SearchStrong
<1>8. CASE page # {}
  <2>1. backfill' = [backfill EXCEPT !.afterId = Max(page), !.reached = @ \cup page]
    BY <1>8 DEF handleQueueAll, getProcessedAssetIds
  <2>2. Max(page) \in Int /\ Max(page) \in Images /\ page \subseteq Images
    <3> HIDE DEF page, ahead
    <3>1. Max(page) \in page
      BY <1>3, <1>8
    <3>2. page \subseteq Images
      BY <1>2, <1>3
    <3>3. Images \subseteq Int
      BY SmartSearchConstants
    <3> QED BY <3>1, <3>2, <3>3
  <2> HIDE DEF page, ahead
  <2>3. /\ backfill' \in BackfillRow /\ backfill'.on /\ backfill'.missing = backfill.missing
        /\ backfill'.reached = backfill.reached \cup page /\ backfill'.afterId = Max(page)
    BY <1>1, <2>1, <2>2 DEF BackfillRow
  <2>4. ASSUME NEW a \in backfill.missing \ backfill'.reached
        PROVE  a > backfill'.afterId \/ image[a].embedded \/ ~ LiveImage(a)
    <3>1. SUFFICES ASSUME ~ image[a].embedded, LiveImage(a) PROVE a > Max(page)
      BY <2>3
    <3>2. a \in ahead /\ a \in Images /\ a \notin page
      BY <1>4, <2>3, <3>1
    <3>3. ~ (a <= Max(page)) /\ a \in Int
      BY <1>3, <1>8, <3>2, SmartSearchConstants
    <3> QED BY <2>2, <3>3
  <2>5. BackfillTrue'
    BY <1>1, <1>6, <2>3, <2>4 DEF BackfillTrue, LiveImage
  <2> QED BY <1>1, <1>5, <2>5 DEF SearchStrong
<1> QED BY <1>7, <1>8

\* Every step keeps the invariant.
LEMMA SearchStep ==
    ASSUME SearchStrong, [SmartSearchNext]_smartVars
    PROVE  SearchStrong'
<1>1. CASE UNCHANGED smartVars
  BY <1>1 DEF smartVars, SearchStrong, BackfillTrue, CallTrue, NoPredict, LiveImage
<1>2. CASE SmartSearchNext
  BY <1>2, PhotosKeepSearch, CallBegins, CallGoesOn, CallFails, ServersChange, BackfillBegins,
     BackfillGoesOn DEF SmartSearchNext
<1> QED BY <1>1, <1>2

(* Search misses no photo for want of an embedding, with any number of photos,       *)
(* page size and servers: the backfill of handleQueueAll, paging by last id while    *)
(* photos come, go and are embedded, reaches each that lacked one, and predict gives *)
(* a call up only when every server was asked.                                       *)
THEOREM SearchMissesNothing == SmartSearchSpec => []SearchComplete
<1>1. SmartSearchInit => SearchStrong
  <2> SUFFICES ASSUME SmartSearchInit PROVE SearchStrong
    OBVIOUS
  <2>1. image \in [Images -> ImageRow]
    BY DEF SmartSearchInit, ImageRow
  <2>2. BackfillTrue
    BY DEF SmartSearchInit, BackfillTrue, BackfillRow
  <2>3. CallTrue
    BY DEF SmartSearchInit, CallTrue
  <2> QED BY <2>1, <2>2, <2>3 DEF SmartSearchInit, SearchStrong
<1>2. SearchStrong /\ [SmartSearchNext]_smartVars => SearchStrong'
  BY SearchStep
<1> QED BY <1>1, <1>2, SearchHolds, PTL DEF SmartSearchSpec

-----------------------------------------------------------------------------
(* The pages about people *)

\* While the page is open the timer runs exactly if work is left, request or not.
PeoplePageTrue ==
    /\ alive \subseteq Clusters /\ facesOf \in [Clusters -> SUBSET Clusters]
    /\ MergesStayApart
    /\ onPage # Nobody => (polling <=> processing)

LoadRow == [who : PersonIds, refresh : BOOLEAN, live : BOOLEAN]

\* What is shown has been on screen, and a load that is not cancelled is for the
\* person of the route.
PersonPageTrue ==
    /\ personLoads \subseteq LoadRow
    /\ personId \in PersonIds /\ lateRefresh \in BOOLEAN
    /\ selectedIds \subseteq onScreen /\ \A i \in DOMAIN assets : assets[i] \in onScreen
    /\ ForeignNeedsLateRefresh
    /\ \A l \in personLoads : l.live /\ ~ l.refresh => l.who = personId

\* A step of the people page: a merge finds all its people in one event.
LEMMA PeoplePageStep ==
    ASSUME PeoplePageTrue, PeopleNext
    PROVE  PeoplePageTrue'
<1>1. ASSUME UNCHANGED <<alive, facesOf>>, onPage' # Nobody => (polling' <=> processing')
      PROVE  PeoplePageTrue'
  BY <1>1 DEF PeoplePageTrue, MergesStayApart
<1>2. ASSUME UNCHANGED <<alive, facesOf, onPage, polling, processing>>
      PROVE  PeoplePageTrue'
  BY <1>2 DEF PeoplePageTrue, MergesStayApart
<1>3. ASSUME NEW e \in Galleries, openPeople(e)
      PROVE  PeoplePageTrue'
  BY <1>1, <1>3 DEF openPeople, databaseVars
<1>4. ASSUME NEW r \in refreshes, peopleRefreshed(r)
      PROVE  PeoplePageTrue'
  BY <1>1, <1>4 DEF peopleRefreshed, schedulePeoplePolling, databaseVars
<1>5. ASSUME NEW m \in merges, mergeDone(m)
      PROVE  PeoplePageTrue'
  <2>1. /\ m.target \in alive /\ EventOf[m.target] = m.event
        /\ \A c \in m.others : c \in alive /\ EventOf[c] = m.event
    BY <1>5 DEF mergeDone, Mergeable
  <2>2. /\ facesOf' = [c \in Clusters |->
             IF c = m.target THEN UNION {facesOf[o] : o \in m.others \cup {c}}
             ELSE IF c \in m.others THEN {} ELSE facesOf[c]]
        /\ alive' \subseteq alive /\ UNCHANGED <<onPage, polling, processing>>
    BY <1>5 DEF mergeDone
  <2>3. ASSUME NEW c \in Clusters, NEW f \in facesOf'[c]
        PROVE  f \in Clusters /\ EventOf[f] = EventOf[c]
    <3>1. CASE c = m.target
      <4>1. PICK o \in m.others \cup {c} : f \in facesOf[o]
        BY <2>2, <2>3, <3>1
      <4>2. o \in Clusters /\ EventOf[o] = EventOf[c]
        BY <2>1, <3>1 DEF PeoplePageTrue
      <4> QED BY <4>1, <4>2 DEF PeoplePageTrue, MergesStayApart
    <3>2. CASE c # m.target
      BY <2>2, <2>3, <3>2 DEF PeoplePageTrue, MergesStayApart
    <3> QED BY <3>1, <3>2
  <2>4. facesOf' \in [Clusters -> SUBSET Clusters]
    <3>1. DOMAIN facesOf' = Clusters /\ facesOf' = [c \in Clusters |-> facesOf'[c]]
      BY <2>2
    <3>2. \A c \in Clusters : facesOf'[c] \subseteq Clusters
      BY <2>3
    <3> QED BY <3>1, <3>2
  <2> QED BY <2>2, <2>3, <2>4 DEF PeoplePageTrue, MergesStayApart
<1>6. ASSUME leavePeople
      PROVE  PeoplePageTrue'
  BY <1>1, <1>6 DEF leavePeople, databaseVars
<1>7. ASSUME NEW e \in Galleries, DetectionTurns(e)
      PROVE  PeoplePageTrue'
  BY <1>2, <1>7 DEF DetectionTurns, peopleScreen
<1>8. ASSUME NEW c \in Clusters, togglePick(c) \/ chooseTarget(c) \/ confirmMerge(c)
      PROVE  PeoplePageTrue'
  BY <1>2, <1>8 DEF togglePick, chooseTarget, confirmMerge, databaseVars, peopleScreen
<1>9. ASSUME NEW r \in refreshes, refreshFails(r)
      PROVE  PeoplePageTrue'
  BY <1>2, <1>9 DEF refreshFails, databaseVars, peopleScreen
<1>10. ASSUME pollPeople \/ cancelMerge
       PROVE  PeoplePageTrue'
  BY <1>2, <1>10 DEF pollPeople, cancelMerge, databaseVars, peopleScreen
<1>11. ASSUME NEW m \in merges, mergeRefused(m)
       PROVE  PeoplePageTrue'
  BY <1>2, <1>11 DEF mergeRefused, databaseVars, peopleScreen
<1> QED BY <1>3, <1>4, <1>5, <1>6, <1>7, <1>8, <1>9, <1>10, <1>11 DEF PeopleNext

\* A list that is empty has nothing on it.
LEMMA NoneListed == \A i \in DOMAIN <<>> : FALSE
<1>1. DOMAIN <<>> = 1..Len(<<>>) /\ Len(<<>>) = 0
  OBVIOUS
<1> QED BY <1>1

\* What a request carries.
LEMMA NewLoad ==
    ASSUME NEW p \in PersonIds, NEW refresh \in BOOLEAN
    PROVE  /\ Load(p, refresh) \in LoadRow
           /\ Load(p, refresh).who = p /\ Load(p, refresh).refresh = refresh /\ Load(p, refresh).live = TRUE
BY DEF Load, LoadRow

\* A step of a person's page: ranges and days select among what is listed, and what an
\* answer lists comes on screen.
LEMMA PersonPageStep ==
    ASSUME PersonPageTrue, PersonNext
    PROVE  PersonPageTrue'
<1>1. ASSUME NEW p \in PersonIds, openPerson(p)
      PROVE  PersonPageTrue'
  <2> DEFINE kept == {[l EXCEPT !.live = l.refresh] : l \in personLoads}
  <2>1. /\ personLoads' = kept \cup {Load(p, FALSE)} /\ personId' = p
        /\ selectedIds' = {} /\ assets' = <<>> /\ onScreen' = {} /\ lateRefresh' = FALSE /\ assetsOf' = ""
    BY <1>1 DEF openPerson, dropSelection
  <2>2. \A l \in kept : l \in LoadRow /\ (l.live => l.refresh)
    BY DEF PersonPageTrue, LoadRow
  <2> HIDE DEF kept
  <2>3. personLoads' \subseteq LoadRow /\ \A l \in personLoads' : l.live /\ ~ l.refresh => l.who = personId'
    <3>1. Load(p, FALSE) \in LoadRow /\ Load(p, FALSE).who = p
      BY NewLoad
    <3>2. \A l \in personLoads' : l \in kept \/ l = Load(p, FALSE)
      BY <2>1, Zenon
    <3>3. personLoads' \subseteq LoadRow
      BY <2>2, <3>1, <3>2, Zenon
    <3>4. ASSUME NEW l \in personLoads', l.live, ~ l.refresh
          PROVE  l.who = personId'
      BY <2>1, <2>2, <3>1, <3>2, <3>4, Zenon
    <3> QED BY <3>3, <3>4, Zenon
  <2>4. ForeignNeedsLateRefresh'
    BY <2>1, Zenon DEF ForeignNeedsLateRefresh
  <2>5. p \in PersonIds /\ lateRefresh' \in BOOLEAN
    BY <2>1
  <2>6. selectedIds' \subseteq onScreen' /\ \A i \in DOMAIN assets' : assets'[i] \in onScreen'
    BY <2>1, NoneListed, Zenon
  <2> QED BY <2>1, <2>3, <2>4, <2>5, <2>6, Zenon DEF PersonPageTrue
<1>2. ASSUME UNCHANGED <<personId, assetsOf, assets, selectedIds, personLoads, onScreen, lateRefresh>>
      PROVE  PersonPageTrue'
  BY <1>2 DEF PersonPageTrue, ForeignNeedsLateRefresh
<1>3. ASSUME refreshPerson
      PROVE  PersonPageTrue'
  <2>1. /\ personLoads' = personLoads \cup {Load(personId, TRUE)}
        /\ UNCHANGED <<personId, assetsOf, assets, selectedIds, onScreen, lateRefresh>>
    BY <1>3 DEF refreshPerson, timelineState
  <2>2. personLoads' \subseteq LoadRow /\ \A l \in personLoads' : l.live /\ ~ l.refresh => l.who = personId
    <3>1. Load(personId, TRUE) \in LoadRow /\ Load(personId, TRUE).refresh
      BY NewLoad DEF PersonPageTrue
    <3>2. \A l \in personLoads' : l \in personLoads \/ l = Load(personId, TRUE)
      BY <2>1, Zenon
    <3> QED BY <3>1, <3>2, Zenon DEF PersonPageTrue
  <2>3. ForeignNeedsLateRefresh'
    BY <2>1, Zenon DEF PersonPageTrue, ForeignNeedsLateRefresh
  <2> QED BY <2>1, <2>2, <2>3, Zenon DEF PersonPageTrue
<1>4. ASSUME NEW l \in personLoads, personLoaded(l) \/ loadFailed(l)
      PROVE  PersonPageTrue'
  <2>1. personLoads' \subseteq personLoads /\ UNCHANGED <<personId, selectedIds>>
    BY <1>4 DEF personLoaded, loadFailed, timelineState
  <2>2. CASE UNCHANGED <<assetsOf, assets, onScreen, lateRefresh>>
    BY <2>1, <2>2 DEF PersonPageTrue, ForeignNeedsLateRefresh
  <2>3. CASE personLoaded(l) /\ Shown(l)
    <3>1. /\ assetsOf' = l.who /\ assets' = gallery[l.who]
          /\ onScreen' = onScreen \cup InList(gallery[l.who])
          /\ lateRefresh' = (l.refresh /\ l.who # personId) /\ l.live
      BY <2>3 DEF personLoaded, Shown
    <3>2. ForeignNeedsLateRefresh'
      BY <2>1, <3>1 DEF PersonPageTrue, ForeignNeedsLateRefresh
    <3>3. selectedIds' \subseteq onScreen' /\ \A i \in DOMAIN assets' : assets'[i] \in onScreen'
      BY <2>1, <3>1 DEF PersonPageTrue, InList
    <3>4. lateRefresh' \in BOOLEAN /\ l \in LoadRow
      BY <3>1 DEF PersonPageTrue
    <3>5. /\ personLoads' \subseteq LoadRow /\ personId' \in PersonIds
          /\ \A k \in personLoads' : k.live /\ ~ k.refresh => k.who = personId'
      BY <2>1, Zenon DEF PersonPageTrue
    <3> QED BY <3>2, <3>3, <3>4, <3>5, Zenon DEF PersonPageTrue
  <2> QED BY <1>4, <2>2, <2>3 DEF personLoaded, loadFailed
<1>5. ASSUME UNCHANGED <<personId, assetsOf, assets, personLoads, onScreen, lateRefresh>>,
             selectedIds' \subseteq selectedIds \cup InList(assets)
      PROVE  PersonPageTrue'
  BY <1>5 DEF PersonPageTrue, InList, ForeignNeedsLateRefresh
<1>6. ASSUME NEW i \in DOMAIN assets, onCheckboxClick(i) \/ \E shift \in BOOLEAN : onTileClick(i, shift)
      PROVE  PersonPageTrue'
  <2>1. UNCHANGED <<personId, assetsOf, assets, personLoads, onScreen, lateRefresh>>
    BY <1>6 DEF onCheckboxClick, onTileClick, Unmoved
  <2>2. \/ selectedIds' = toggle(assets[i])
        \/ selectedIds' = rangeSelect(lastClickedIndex, i)
    BY <1>6 DEF onCheckboxClick, onTileClick
  <2>3. selectedIds' \subseteq selectedIds \cup InList(assets)
    BY <2>2 DEF toggle, rangeSelect, InList
  <2> QED BY <1>5, <2>1, <2>3
<1>7. ASSUME NEW d, toggleDay(d)
      PROVE  PersonPageTrue'
  BY <1>5, <1>7 DEF toggleDay, DayItems, Unmoved
<1>8. ASSUME selectAll \/ clearSelection
      PROVE  PersonPageTrue'
  BY <1>5, <1>8 DEF selectAll, clearSelection, Unmoved
<1>9. ASSUME startSelecting
      PROVE  PersonPageTrue'
  BY <1>2, <1>9 DEF startSelecting
<1>10. ASSUME NEW p \in PersonIds, NEW t \in Takes, Reclustered(p, t)
       PROVE  PersonPageTrue'
  BY <1>2, <1>10 DEF Reclustered, timelineState
<1> QED BY <1>1, <1>3, <1>4, <1>6, <1>7, <1>8, <1>9, <1>10 DEF PersonNext

\* For any events, people and photos, however late answers come: people of two events
\* are never merged, unfinished work is polled, what is selected was on screen, and only
\* a refresh overtaken by the route shows another person
\* (people/+page.svelte:119, people/[personId]/+page.svelte:40, PhotoTimeline.svelte:139).
THEOREM PagesActOnWhatTheyShow == PeoplePagesSpec => []PeoplePagesFit
<1> DEFINE PagesTrue == PeoplePageTrue /\ PersonPageTrue
<1>1. PeoplePagesInit => PagesTrue
  <2> SUFFICES ASSUME PeoplePagesInit PROVE PagesTrue
    OBVIOUS
  <2>1. PeoplePageTrue
    BY DEF PeoplePagesInit, PeopleInit, PeoplePageTrue, MergesStayApart
  <2>2. PersonPageTrue
    <3>1. /\ personId \in PersonIds /\ personLoads = {Load(personId, FALSE)}
          /\ selectedIds = {} /\ assets = <<>> /\ lateRefresh = FALSE /\ assetsOf = ""
      BY DEF PeoplePagesInit, PersonInit
    <3>2. personLoads \subseteq LoadRow /\ \A l \in personLoads : l.live /\ ~ l.refresh => l.who = personId
      <4>1. Load(personId, FALSE) \in LoadRow /\ Load(personId, FALSE).who = personId
        BY <3>1, NewLoad
      <4>2. \A l \in personLoads : l = Load(personId, FALSE)
        BY <3>1, Zenon
      <4> QED BY <4>1, <4>2, Zenon
    <3>3. ForeignNeedsLateRefresh /\ lateRefresh \in BOOLEAN
      BY <3>1, Zenon DEF ForeignNeedsLateRefresh
    <3>4. selectedIds \subseteq onScreen /\ \A i \in DOMAIN assets : assets[i] \in onScreen
      BY <3>1, NoneListed, Zenon
    <3> QED BY <3>1, <3>2, <3>3, <3>4, Zenon DEF PersonPageTrue
  <2> QED BY <2>1, <2>2
<1>2. PagesTrue /\ [PeoplePagesNext]_<<peopleVars, personVars>> => PagesTrue'
  <2> SUFFICES ASSUME PagesTrue, [PeoplePagesNext]_<<peopleVars, personVars>> PROVE PagesTrue'
    OBVIOUS
  <2>1. UNCHANGED peopleVars => PeoplePageTrue'
    BY DEF peopleVars, PeoplePageTrue, MergesStayApart
  <2>2. UNCHANGED personVars => PersonPageTrue'
    <3>1. UNCHANGED personVars =>
            UNCHANGED <<personId, assetsOf, assets, selectedIds, personLoads, onScreen, lateRefresh>>
      BY DEF personVars
    <3> QED BY <3>1, Zenon DEF PersonPageTrue, ForeignNeedsLateRefresh
  <2>3. PeopleNext => PeoplePageTrue'
    BY PeoplePageStep
  <2>4. PersonNext => PersonPageTrue'
    BY PersonPageStep
  <2> QED BY <2>1, <2>2, <2>3, <2>4 DEF PeoplePagesNext
<1>3. PagesTrue => PeoplePagesFit
  BY DEF PeoplePageTrue, PersonPageTrue, PeoplePagesFit, WatchedWhileBusy, SelectionWasOnScreen
<1> QED BY <1>1, <1>2, <1>3, PTL DEF PeoplePagesSpec

==============================================================================
