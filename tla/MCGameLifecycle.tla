--------------------------- MODULE MCGameLifecycle ---------------------------
(* Small instances of GameLifecycle for TLC. *)
EXTENDS GameLifecycle

CONSTANTS h1, h2,  \* two logins of the host
          g1       \* the login of a guest

MCPlayerOf == [s \in Sessions |-> IF s = h2 THEN h1 ELSE s]
=============================================================================
