--------------------------- MODULE MCFacePipeline ---------------------------
EXTENDS FacePipeline
CONSTANTS a, b, c
Chain == {{a, b}, {b, c}}
Pair == {{a, b}}

\* A behaviour has names given to people, or a request of the organiser, not both.
ChainInit ==
    /\ Untouched /\ credit = MaxFaults
    /\ \/ clock = MaxTime /\ acts = MaxActs
       \/ clock = 0 /\ acts = 0
ChainSpec == ChainInit /\ [][Next]_vars /\ Fairness
=============================================================================
