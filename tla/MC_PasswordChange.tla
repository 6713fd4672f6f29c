------------------------- MODULE MC_PasswordChange -------------------------
(* Instances of PasswordChange for TLC: three tabs of two browsers, or one. *)
EXTENDS PasswordChange, TLC

CONSTANTS t1, t2, t3, d1, d2   \* tabs and browsers

TwoBrowsers == (t1 :> d1) @@ (t2 :> d1) @@ (t3 :> d2)
OneTab == t1 :> d1
=============================================================================
