----------------------------- MODULE MCDistLock -----------------------------
(* Instances of DistLock small enough for TLC. *)
EXTENDS DistLock, TLC

CONSTANTS c1, c2, i1, i2

OwnInstance == (c1 :> i1) @@ (c2 :> i2)
OneInstance == (c1 :> i1) @@ (c2 :> i1)
=============================================================================
