---------------------------- MODULE MCPartyService ----------------------------
(* PartyService for model checking.                                        *)
EXTENDS PartyService, TLC

CONSTANTS p1, p2, p3, i1, i2

\* Players who do nothing but search, and party objects, are interchangeable.
PartySymmetry == Permutations(Players \ Gamers) \cup Permutations(Parties)
=============================================================================
