----------------------------- MODULE SessionTable ----------------------------
(***************************************************************************)
(* What UserSessionRepository promises (IScyllaRepository): a table in     *)
(* which a write that names the user makes a session, or gives it to that  *)
(* user, and one that names none does nothing to a session that is not     *)
(* there.  `active` is what findActiveSessionsByUserId answers for each.   *)
(***************************************************************************)
CONSTANTS Sessions, Owners, Null

VARIABLES owner, active  \* the owner of each session that is there; the answers

There(s) == owner[s] # Null
Listed(o, s, b) == [u \in Owners |-> IF b /\ o = u THEN active[u] \cup {s} ELSE active[u] \ {s}]

Assign(s, u, b) == owner' = [owner EXCEPT ![s] = u] /\ active' = Listed(u, s, b)
Update(s, b) == There(s) /\ active' = Listed(owner[s], s, b) /\ UNCHANGED owner
Delete(s) == owner' = [owner EXCEPT ![s] = Null] /\ active' = Listed(Null, s, FALSE)

Init == owner = [s \in Sessions |-> Null] /\ active = [u \in Owners |-> {}]
Next == \E s \in Sessions : \/ Delete(s)
                            \/ \E b \in BOOLEAN : Update(s, b) \/ \E u \in Owners : Assign(s, u, b)
Spec == Init /\ [][Next]_<<owner, active>>
=============================================================================
