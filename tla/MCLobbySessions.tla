--------------------------- MODULE MCLobbySessions ---------------------------
(* Small instances of LobbySessions for TLC. *)
EXTENDS LobbySessions

CONSTANTS c1, c2, a1

MCAccountsOf == [c \in Conns |-> Accounts]
=============================================================================
