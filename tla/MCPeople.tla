------------------------------ MODULE MCPeople ------------------------------
(***************************************************************************)
(* People: the clusters of faces, the event's people page and a person's    *)
(* own page, and the smart search over the same photos.  The four share no  *)
(* variable; a behaviour follows one of them, its focus.  One of the faces  *)
(* has a crash, or two claims and renames, not both.                       *)
(***************************************************************************)
EXTENDS MCFacePipeline, PeoplePage, SmartSearch, TLC

VARIABLE focus

peopleAllVars == <<focus, vars, peopleVars, personVars, smartVars>>

MCEventOf == [k \in Clusters |-> IF k = "c4" THEN "B" ELSE "A"]
MCStartsWith == ("p" :> <<1, 2>>) @@ ("q" :> <<3>>)
MCDayOf == (1 :> 1) @@ (2 :> 2) @@ (3 :> 2)

MCSymmetry == Permutations(Servers)

MCInit ==
    /\ focus \in {"faces", "people", "person", "search"}
    /\ Untouched /\ acts = MaxActs
    /\ \/ clock = 0 /\ credit = 0
       \/ clock = 1 /\ credit = MaxFaults /\ focus = "faces"
    /\ PeopleInit /\ PersonInit /\ SmartSearchInit
    /\ focus # "people" => onPage = "A"
    /\ focus # "person" => personId = "p"

MCNext ==
    /\ UNCHANGED focus
    /\ \/ focus = "faces" /\ Next /\ UNCHANGED <<peopleVars, personVars, smartVars>>
       \/ focus = "people" /\ PeopleNext /\ UNCHANGED <<vars, personVars, smartVars>>
       \/ focus = "person" /\ PersonNext /\ UNCHANGED <<vars, peopleVars, smartVars>>
       \/ focus = "search" /\ SmartSearchNext /\ UNCHANGED <<vars, peopleVars, personVars>>

MCSpec == MCInit /\ [][MCNext]_peopleAllVars
=============================================================================
