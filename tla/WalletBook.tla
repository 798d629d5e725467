------------------------------ MODULE WalletBook ------------------------------
(***************************************************************************)
(* What WalletService promises its users: the wallets are one book, and    *)
(* linking, unlinking and switching the primary wallet are one entry each, *)
(* whatever the statements of other requests do in between.  To Careful    *)
(* users, whose client waits for each answer, it promises more than to the *)
(* others, whose primary wallets the book leaves out.                      *)
(***************************************************************************)
CONSTANTS Users, Careful, Contacts, Addresses, Types, None

VARIABLE book  \* address |-> its wallet, or None

Primary(u, ty) ==
  {a \in Addresses : book[a] # None /\ book[a].user = u /\ book[a].type = ty /\ book[a].primary}

\* Nobody has two primary wallets of a type.
OnePrimary == \A u \in Users : \A ty \in Types : \A a, b \in Primary(u, ty) : a = b

Init ==
  /\ book \in [Addresses -> {None} \cup [user : Users, type : Types, primary : BOOLEAN]]
  /\ OnePrimary

\* An address nobody has linked; the first wallet of a type is its primary one.
Link(u, a, ty) ==
  /\ book[a] = None
  /\ \E first \in BOOLEAN :
       /\ first <=> u \in Careful /\ Primary(u, ty) = {}
       /\ book' = [book EXCEPT ![a] = [user |-> u, type |-> ty, primary |-> first]]

\* The other wallets of its user.
Others(a) == {b \in Addresses \ {a} : book[b] # None /\ book[b].user = book[a].user}

\* Not the last way to log in.
Unlink(a) ==
  /\ book[a] # None
  /\ book[a].user \in Careful \ Contacts => Others(a) # {}
  /\ book' = [book EXCEPT ![a] = None]

\* One wallet becomes the primary one of its type, and another no longer is.
Switch(a) ==
  /\ book[a] # None /\ book[a].user \in Careful
  /\ book' = [b \in Addresses |->
       IF b = a THEN [book[b] EXCEPT !.primary = TRUE]
       ELSE IF b \in Others(a) /\ book[b].type = book[a].type
         THEN [book[b] EXCEPT !.primary = FALSE]
       ELSE book[b]]

Next ==
  \E a \in Addresses :
    (\E u \in Users : \E ty \in Types : Link(u, a, ty)) \/ Unlink(a) \/ Switch(a)

Spec == Init /\ [][Next]_book
=============================================================================
