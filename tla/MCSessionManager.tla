-------------------------- MODULE MCSessionManager --------------------------
(* Small instances of SessionManager for TLC. *)
EXTENDS DesktopsRefinement, TLC

\* Both clients behind one address (NAT): PLAY has to guess.
SharedIp == [c \in Clients |-> "nat"]
OwnIp == [c \in Clients |-> c]

Symmetry ==
  Permutations(Clients) \cup Permutations(Users) \cup Permutations(Requests)
=============================================================================
