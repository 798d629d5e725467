--------------------------------- MODULE Nats --------------------------------
(***************************************************************************)
(* NatsService (src/src/shared/core/transporter/nats/nat.service.ts): the  *)
(* subscriptions it keeps by subject, each read by a loop that awaits the  *)
(* callback before it takes the next message.  The server is external: a   *)
(* message goes to every subscription of its subject without a queue name, *)
(* and to one of those that share a queue name.                            *)
(***************************************************************************)
EXTENDS Naturals, Sequences, FiniteSets

CONSTANTS
  Subjects, \* subjects
  Subs,     \* subscriptions that can be made
  Group,    \* subscription |-> its queue name, or NoQueue
  Throws,   \* messages whose callback throws
  MaxSent,  \* bound: messages published
  NoQueue   \* no queue name

\* No subject is the absent one.
NatsAssumption ==
  DOMAIN Group = Subs /\ MaxSent \in Nat /\ NoQueue \notin Subjects

VARIABLES
  connected,     \* the process runs
  subscriptions, \* subject |-> the subscriptions stored for it
  live,          \* subscriptions the server sends to
  subject,       \* the subject each subscription was made for, or NoQueue
  buffer,        \* what has come and waits for the loop
  running,       \* the messages whose callback has not settled
  gone,          \* subscriptions whose loop has ended
  sent,          \* messages are 1 .. sent
  calledWith     \* history: what the callback was called with, in order

natsVars == <<connected, subscriptions, live, subject, buffer, running, gone, sent, calledWith>>

-----------------------------------------------------------------------------

\* subscriptions.get(subject).push
Pushed(u, s) == subscriptions[u] \cup {s}

NatsSubscribe(s) ==
  /\ connected /\ subject[s] = NoQueue
  /\ \E u \in Subjects :
       /\ subject' = [subject EXCEPT ![s] = u]
       /\ subscriptions' = [subscriptions EXCEPT ![u] = Pushed(u, s)]
  /\ live' = live \cup {s}
  /\ UNCHANGED <<connected, buffer, running, gone, sent, calledWith>>

\* Who gets a message: one member of each group, and everyone without one.
Recipients(u) ==
  LET there == {s \in live : subject[s] = u}
  IN  {r \in SUBSET there :
         /\ \A s \in there : Group[s] = NoQueue => s \in r
         /\ \A s \in there : Group[s] # NoQueue =>
              Cardinality({t \in r : Group[t] = Group[s]}) = 1}

NatsPublish ==
  /\ connected /\ sent < MaxSent
  /\ sent' = sent + 1
  /\ \E u \in Subjects : \E r \in Recipients(u) :
       buffer' = [s \in Subs |-> IF s \in r THEN Append(buffer[s], sent') ELSE buffer[s]]
  /\ UNCHANGED <<connected, subscriptions, live, subject, running, gone, calledWith>>

\* The callback is awaited.
Idle(s) == running[s] = {}

TakeNext(s) ==
  /\ connected /\ buffer[s] # <<>> /\ s \notin gone /\ Idle(s)
  /\ running' = [running EXCEPT ![s] = @ \cup {Head(buffer[s])}]
  /\ calledWith' = [calledWith EXCEPT ![s] = Append(@, Head(buffer[s]))]
  /\ buffer' = [buffer EXCEPT ![s] = Tail(@)]
  /\ UNCHANGED <<connected, subscriptions, live, subject, gone, sent>>

\* An error leaves the loop.
LoopLeft(s, m) == IF m \in Throws THEN {s} ELSE {}

\* An error is caught inside the loop.
LoopKept(s, m) == {}

Settle(s) ==
  connected /\ \E m \in running[s] :
    /\ running' = [running EXCEPT ![s] = @ \ {m}]
    /\ gone' = gone \cup LoopKept(s, m)
    /\ UNCHANGED <<connected, subscriptions, live, subject, buffer, sent, calledWith>>

\* Every subscription of the subject, whoever made it.
AllOf(u) == subscriptions[u]

Unsubscribe(u) ==
  /\ connected /\ subscriptions[u] # {}
  /\ live' = live \ AllOf(u)
  /\ subscriptions' = [subscriptions EXCEPT ![u] = {}]
  \* What a loop has fetched already it still goes through; the rest is dropped.
  /\ \E kept \in [AllOf(u) -> 0..MaxSent] :
       buffer' = [s \in Subs |-> IF s \notin AllOf(u) \/ kept[s] >= Len(buffer[s])
                                THEN buffer[s] ELSE SubSeq(buffer[s], 1, kept[s])]
  /\ UNCHANGED <<connected, subject, running, gone, sent, calledWith>>

\* onModuleDestroy: all are ended, the map is left as it is, and the process ends.
Destroy ==
  /\ connected /\ connected' = FALSE
  /\ live' = {}
  /\ UNCHANGED <<subscriptions, subject, buffer, running, gone, sent, calledWith>>

NatsInit ==
  /\ connected = TRUE
  /\ subscriptions = [u \in Subjects |-> {}]
  /\ live = {} /\ gone = {} /\ sent = 0
  /\ subject = [s \in Subs |-> NoQueue]
  /\ buffer = [s \in Subs |-> <<>>]
  /\ running = [s \in Subs |-> {}]
  /\ calledWith = [s \in Subs |-> <<>>]

NatsNext ==
  \/ \E s \in Subs : NatsSubscribe(s) \/ TakeNext(s) \/ Settle(s)
  \/ \E u \in Subjects : Unsubscribe(u)
  \/ NatsPublish \/ Destroy

\* The loop goes on when the callback has settled, which it does (a timer).
NatsFairness ==
  \A s \in Subs : WF_natsVars(TakeNext(s)) /\ WF_natsVars(Settle(s))

-----------------------------------------------------------------------------
(* What holds.                                                             *)

NatsTypeOK ==
  /\ connected \in BOOLEAN /\ subscriptions \in [Subjects -> SUBSET Subs]
  /\ live \subseteq Subs /\ gone \subseteq Subs /\ sent \in 0..MaxSent
  /\ subject \in [Subs -> Subjects \cup {NoQueue}]
  /\ \A s \in Subs : /\ \A i \in DOMAIN buffer[s] : buffer[s][i] \in 1..sent
                     /\ running[s] \subseteq 1..sent

\* A slow callback delays the next message, it is never overtaken by it: at
\* most one runs per subscription, and messages come in the order published.
OneAtATime ==
  \A s \in Subs :
    /\ Cardinality(running[s]) <= 1
    /\ \A i, j \in DOMAIN calledWith[s] : i < j => calledWith[s][i] < calledWith[s][j]

\* After unsubscribe no subscription of the subject is served, whoever made
\* it: the server sends to exactly those the map still holds.
MapIsLive == connected => live = UNION {subscriptions[u] : u \in Subjects}

\* What waits behind a message whose callback throws is handled in the end.
EveryMessageTaken ==
  \A s \in Subs : (buffer[s] # <<>>) ~> (s \notin live \/ buffer[s] = <<>>)
=============================================================================
