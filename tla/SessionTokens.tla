---------------------------- MODULE SessionTokens ----------------------------
(***************************************************************************)
(* What SessionService promises about a token, whatever the interleaving   *)
(* of the requests that handle it: a token is created once, and once it    *)
(* has been closed (logged out) it is neither live in the database nor     *)
(* admitted by validateSession ever again.                                 *)
(***************************************************************************)
CONSTANT Tokens

VARIABLES created,   \* tokens that ever had a row
          live,      \* tokens whose row is active
          admitted,  \* tokens validateSession accepts
          closed     \* tokens a completed logout named

vars == <<created, live, admitted, closed>>

TypeOK ==
  /\ created \in SUBSET Tokens
  /\ live \in SUBSET Tokens
  /\ admitted \in SUBSET Tokens
  /\ closed \in SUBSET Tokens

Init ==
  /\ created = {}
  /\ live = {}
  /\ admitted = {}
  /\ closed = {}

\* A token comes to life once only.
Create(t) ==
  /\ t \notin created
  /\ created' = created \cup {t}
  /\ live' = live \cup {t}
  /\ UNCHANGED <<admitted, closed>>

\* Only a token that exists and that nobody logged out is let in.
Admit(t) ==
  /\ t \in created \ closed
  /\ admitted' = admitted \cup {t}
  /\ UNCHANGED <<created, live, closed>>

\* Tokens may stop being admitted at any time (eviction, expiry).
Drop ==
  /\ admitted' \subseteq admitted
  /\ UNCHANGED <<created, live, closed>>

\* Tokens may be ended in bulk (refresh, terminate all, cleanup).
End ==
  /\ live' \subseteq live
  /\ UNCHANGED <<created, admitted, closed>>

\* A logout completes: the token is dead in both places from here on.
Close(t) ==
  /\ t \in created \ admitted
  /\ live' = live \ {t}
  /\ closed' = closed \cup {t}
  /\ UNCHANGED <<created, admitted>>

Next ==
  \/ \E t \in Tokens : Create(t) \/ Admit(t) \/ Close(t)
  \/ Drop
  \/ End

Spec == Init /\ [][Next]_vars

\* A closed token is in neither store: what follows from the above.
ClosedIsFinal == closed \cap (live \cup admitted) = {}
=============================================================================
