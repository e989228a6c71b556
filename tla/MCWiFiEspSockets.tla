--------------------------- MODULE MCWiFiEspSockets ---------------------------
(* The clients of WiFiEspSockets are interchangeable. *)
EXTENDS WiFiEspSockets, TLC

Symmetry == Permutations(Clients)
=============================================================================
