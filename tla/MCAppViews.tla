----------------------------- MODULE MCAppViews -----------------------------
EXTENDS AppViews, TLC
CONSTANTS c1, c2, v1, v2, o1, o2
OneEach == (v1 :> c1) @@ (v2 :> c2)
OneOfEach == (o1 :> v1) @@ (o2 :> v2)
=============================================================================
