----------------------------- MODULE MCLibrary -----------------------------
EXTENDS Library, TLC
CONSTANTS u1, u2, u3
TwoAlike == (u1 :> u1) @@ (u2 :> u1) @@ (u3 :> u3)
TwoTabs == (u1 :> u1) @@ (u2 :> u2) @@ (u3 :> u1)
=============================================================================
