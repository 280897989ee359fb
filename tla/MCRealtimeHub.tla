--------------------------- MODULE MCRealtimeHub ---------------------------
(* Small instances of RealtimeHub. *)
EXTENDS RealtimeHub, TLC

CONSTANTS c1, c2, u1

OneUser == c1 :> u1 @@ c2 :> u1
OneClient == c1 :> u1
ClientPermutations == Permutations(Clients)
=============================================================================
