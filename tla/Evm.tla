--------------------------------- MODULE Evm ---------------------------------
(***************************************************************************)
(* EvmService (src/src/modules/evm/evm.service.ts): getWalletTokens and    *)
(* getWalletBalance ask a node for one balance after the other, while the  *)
(* wallet's owner goes on paying and being paid.  What is answered is a    *)
(* collection of readings, each of another moment, never a state of the    *)
(* wallet.                                                                 *)
(***************************************************************************)
EXTENDS Naturals, Sequences, SequencesExt

CONSTANTS
  Tokens,    \* contracts of tokens
  Ether,     \* the currency of the chain
  NoAddress, \* a text that ethers.isAddress refuses
  Lists,     \* tokenAddresses that are asked for
  Most,      \* the largest balance
  MaxFaults  \* bound: calls to the node that are rejected

EvmAssumption ==
  /\ Ether \notin Tokens /\ NoAddress \notin Tokens \cup {Ether}
  /\ Lists \subseteq Seq(Tokens \cup {NoAddress})
  /\ Most \in Nat \ {0} /\ MaxFaults \in Nat

VARIABLES
  balance,  \* the chain: what the wallet has of each token
  call,     \* where the request is
  left,     \* the token addresses it still has to look at
  reading,  \* the balance read for the first of them: a set of at most one
  tokens,   \* those it has found, with their balances
  wanted,   \* history: the tokens it was asked for
  had,      \* history: token |-> its balances since the request began
  skipped   \* history: tokens of which a call was rejected

evmVars == <<balance, call, left, reading, tokens, wanted, had, skipped>>

Assets == Tokens \cup {Ether}

-----------------------------------------------------------------------------

\* A payment of the wallet's owner, or to it.
Transfer(t, n) ==
  /\ balance[t] # n
  /\ balance' = [balance EXCEPT ![t] = n]
  /\ had' = [had EXCEPT ![t] = @ \cup {n}]
  /\ UNCHANGED <<call, left, reading, tokens, wanted, skipped>>

GetWalletTokens(list) ==
  /\ call = "idle"
  /\ call' = "network" /\ left' = list /\ wanted' = ToSet(list) \ {NoAddress}
  /\ had' = [t \in Assets |-> {balance[t]}]
  /\ UNCHANGED <<balance, reading, tokens, skipped>>

\* getNetwork has answered: the loop begins, or the balance is complete.
GetNetwork ==
  /\ call = "network" /\ call' = IF reading = {} THEN "loop" ELSE "done"
  /\ tokens' = [i \in 1..Cardinality(reading) |-> <<Ether, CHOOSE n \in reading : TRUE>>]
  /\ reading' = {}
  /\ UNCHANGED <<balance, left, wanted, had, skipped>>

SkipNoAddress ==
  /\ call = "loop" /\ left # <<>> /\ Head(left) = NoAddress
  /\ left' = Tail(left)
  /\ UNCHANGED <<balance, call, reading, tokens, wanted, had, skipped>>

\* balanceOf has answered; name, symbol and decimals have not all.
BalanceOf ==
  /\ call = "loop" /\ left # <<>> /\ Head(left) # NoAddress /\ reading = {}
  /\ reading' = {balance[Head(left)]}
  /\ UNCHANGED <<balance, call, left, tokens, wanted, had, skipped>>

Included(n) == n > 0

\* All four have answered.
AllAnswered ==
  /\ call = "loop" /\ reading # {}
  /\ tokens' = tokens \o
       SetToSeq({x \in {Head(left)} \X reading : Included(x[2])})
  /\ left' = Tail(left) /\ reading' = {}
  /\ UNCHANGED <<balance, call, wanted, had, skipped>>

\* The first token that cannot be queried ending the loop.
NoneLeft == <<>>

\* `continue`.
Others == Tail(left)

\* One of the four is rejected, before balanceOf has answered or after.
Rejected ==
  /\ call = "loop" /\ left # <<>> /\ Head(left) # NoAddress
  /\ Cardinality(skipped) < MaxFaults
  /\ skipped' = skipped \cup {Head(left)}
  /\ left' = Others /\ reading' = {}
  /\ UNCHANGED <<balance, call, tokens, wanted, had>>

LoopEnds ==
  /\ call = "loop" /\ left = <<>> /\ call' = "done"
  /\ UNCHANGED <<balance, left, reading, tokens, wanted, had, skipped>>

GetWalletBalance ==
  /\ call = "idle" /\ call' = "balance" /\ wanted' = {Ether}
  /\ had' = [t \in Assets |-> {balance[t]}]
  /\ UNCHANGED <<balance, left, reading, tokens, skipped>>

GetBalance ==
  /\ call = "balance" /\ call' = "network" /\ reading' = {balance[Ether]}
  /\ UNCHANGED <<balance, left, tokens, wanted, had, skipped>>

\* getBalance or getNetwork is rejected, and with it the whole request.
RequestFails ==
  /\ call \in {"network", "balance"} /\ MaxFaults > 0 /\ call' = "failed"
  /\ reading' = {}
  /\ UNCHANGED <<balance, left, tokens, wanted, had, skipped>>

-----------------------------------------------------------------------------

EvmInit ==
  /\ balance = [t \in Assets |-> 0]
  /\ call = "idle" /\ left = <<>> /\ reading = {} /\ tokens = <<>>
  /\ wanted = {} /\ had = [t \in Assets |-> {}] /\ skipped = {}

EvmNext ==
  \/ \E t \in Assets : \E n \in 0..Most : Transfer(t, n)
  \/ \E list \in Lists : GetWalletTokens(list)
  \/ GetNetwork \/ SkipNoAddress \/ BalanceOf \/ AllAnswered \/ Rejected \/ LoopEnds
  \/ GetWalletBalance \/ GetBalance \/ RequestFails

-----------------------------------------------------------------------------
(* What holds.                                                             *)

EvmTypeOK ==
  /\ balance \in [Assets -> 0..Most]
  /\ call \in {"idle", "network", "loop", "balance", "done", "failed"}
  /\ left \in Seq(Tokens \cup {NoAddress}) /\ reading \subseteq 0..Most
  /\ tokens \in Seq(Assets \X (0..Most))
  /\ wanted \subseteq Assets /\ skipped \subseteq Tokens

\* Whatever was paid meanwhile, the answer lists no balance that the wallet
\* did not have while it was asked, and no token it had nothing of.
ListedWasHeld ==
  \A i \in DOMAIN tokens :
    tokens[i][2] \in had[tokens[i][1]] /\ (tokens[i][1] \in Tokens => tokens[i][2] > 0)

\* A token that the wallet had all the time is listed, whichever of the others
\* could not be queried.
HeldIsListed ==
  call = "done" =>
    \A t \in wanted \ skipped :
      0 \notin had[t] => \E i \in DOMAIN tokens : tokens[i][1] = t
=============================================================================
