--------------------------- MODULE MCSingleflight ---------------------------
(* A TLC instance of Singleflight: one goroutine that calls Do, one that      *)
(* calls Do and forgets keys, one that waits on channels.                     *)
EXTENDS Singleflight, TLC

CONSTANTS p1, p2, p3

MCUses == (p1 :> {"Do"}) @@ (p2 :> {"Do", "Forget"}) @@ (p3 :> {"DoChan"})

============================================================================
