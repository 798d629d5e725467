--------------------------- MODULE MCInfrastructure --------------------------
(* Small instances of the transports, the gateway, the repositories and the
   balances. *)
EXTENDS Infrastructure

CONSTANTS k1, k2

\* Two tokens in either order, once behind a text that is no address.
TokenLists == {<<k1, k2>>, <<NoAddress, k2, k1>>}

\* One subscription of its own, two that share a queue.
Groups == [s \in Subs |-> IF s = 1 THEN NoQueue ELSE "queue"]

\* Two instances of one deployment and one of the next.
Configs == [i \in Instances |-> IF i = 3 THEN "new" ELSE "old"]
=============================================================================
