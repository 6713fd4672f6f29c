---------------------------- MODULE MC_E2EESync ----------------------------
(* Instances of E2EESync for TLC: two tabs, on two devices or on one. *)
EXTENDS E2EESync, TLC

CONSTANTS t1, t2, d1, d2   \* tabs and devices
CONSTANTS a1, a2, b1       \* two values of object a, one of object b
CONSTANTS a, b             \* the ids

OneTabEach == (t1 :> d1) @@ (t2 :> d2)
SameDevice == (t1 :> d1) @@ (t2 :> d1)
Ident == (a1 :> a) @@ (a2 :> a) @@ (b1 :> b)
=============================================================================
