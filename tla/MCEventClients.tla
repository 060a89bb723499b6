--------------------------- MODULE MCEventClients ---------------------------
(* A small instance of EventClients: two blocks, one connection permit for *)
(* two clients, and a channel of two updates.                              *)
EXTENDS EventClients
CONSTANTS b1, b2, a1, a2
MCHeight == (b1 :> 1) @@ (b2 :> 2)
MCLogs == (b1 :> <<a1, a2>>) @@ (b2 :> <<a1>>)
MCBloom == (b1 :> {a1, a2}) @@ (b2 :> {a1, a2})
MCFilters == {[addresses |-> {a2}, from |-> 1, to |-> 2], [addresses |-> {}, from |-> 2, to |-> 2]}

(* Clients are interchangeable, and no property of the runs that use this  *)
(* is temporal.                                                            *)
MCSymmetry == Permutations(Session)
=============================================================================
