--------------------------- MODULE MediaRetention ---------------------------
(***************************************************************************)
(* What the organizers are promised about the photos of a closed event:    *)
(* they are deleted only when an organizer of the closed event asks for it  *)
(* or when the whole grace period has passed since the event first closed,  *)
(* a deletion once decided is never taken back, though it may not succeed,  *)
(* and an event is shown as deleted only after its deletion was decided.    *)
(***************************************************************************)
EXTENDS Integers

CONSTANTS Events, Grace

VARIABLES
    clock,
    closed,    \* the earliest date each event closed at, 0 while it never has
    asked,     \* events whose organizer has asked for the deletion
    life,      \* the photos: "kept", "doomed" or "gone"
    recorded   \* events shown as deleted

retentionVars == <<clock, closed, asked, life, recorded>>

Doomed(e) == [life EXCEPT ![e] = IF @ = "kept" THEN "doomed" ELSE @]

\* Time passes and events close; the first date may be corrected downwards.
Pass ==
    /\ clock' >= clock
    /\ closed' \in [Events -> Nat]
    /\ \A e \in Events :
         \/ closed'[e] = closed[e]
         \/ closed'[e] \in 1..clock' /\ (closed[e] # 0 => closed'[e] < closed[e])
    /\ UNCHANGED <<asked, life, recorded>>

Ask(e) ==
    /\ closed[e] # 0 /\ closed[e] <= clock
    /\ asked' = asked \cup {e}
    /\ UNCHANGED <<clock, closed, life, recorded>>

\* Another request for the same event may still be open.
Obey(e) ==
    /\ e \in asked
    /\ asked' \in {asked, asked \ {e}}
    /\ life' = Doomed(e)
    /\ UNCHANGED <<clock, closed, recorded>>

Expire(e) ==
    /\ closed[e] # 0 /\ closed[e] + Grace <= clock
    /\ life' = Doomed(e)
    /\ UNCHANGED <<clock, closed, asked, recorded>>

Erase(e) ==
    /\ life[e] = "doomed"
    /\ life' = [life EXCEPT ![e] = "gone"]
    /\ UNCHANGED <<clock, closed, asked, recorded>>

Record(e) ==
    /\ life[e] # "kept"
    /\ recorded' = recorded \cup {e}
    /\ UNCHANGED <<clock, closed, asked, life>>

RetentionInit ==
    /\ clock \in Nat
    /\ closed = [e \in Events |-> 0]
    /\ asked = {} /\ recorded = {}
    /\ life = [e \in Events |-> "kept"]

RetentionNext ==
    \/ Pass
    \/ \E e \in Events : Ask(e) \/ Obey(e) \/ Expire(e) \/ Erase(e) \/ Record(e)

RetentionSpec == RetentionInit /\ [][RetentionNext]_retentionVars
=============================================================================
