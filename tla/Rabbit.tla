-------------------------------- MODULE Rabbit -------------------------------
(***************************************************************************)
(* RabbitMqService (src/src/shared/core/transporter/rabbitmq): one channel *)
(* for all calls, a durable queue bound to an exchange, consumers that     *)
(* acknowledge what their handler has returned from unless their options   *)
(* say noAck, and ack and nack for a handler that answers by hand.  The    *)
(* broker is external: it gives back to the queue what a closed channel    *)
(* held, and closes a channel that answers one delivery twice.             *)
(***************************************************************************)
EXTENDS Naturals, Sequences, FiniteSets

CONSTANTS
  Calls,        \* calls of the service's operations
  Messages,     \* messages that can be sent
  PoisonMessages, \* messages whose handler throws
  MaxMishaps,   \* bound: lost channels, restarts, and answers by hand
  Nobody        \* no consumer

RabbitAssumption == MaxMishaps \in Nat /\ Nobody \notin Calls

VARIABLES
  channel,   \* "open", or "closed" until the process is restarted
  exchange,  \* the type of the exchange, or "none"
  bound,     \* the queue is bound to the exchange
  todo,      \* the calls to the broker each operation has left
  consuming, \* the calls of consume that are served
  noAck,     \* those whose options say noAck
  place,     \* where each message is
  holder,    \* the consumer that has to acknowledge a message
  handler,   \* what the handler of its last delivery is doing
  stale,     \* handlers of its earlier deliveries that still run
  handled,   \* history: messages whose handler has returned
  released,  \* history: those acknowledged by hand or delivered with noAck
  mishaps    \* lost channels, restarts, and answers by hand so far

topology == <<exchange, bound>>
consumers == <<todo, consuming, noAck>>
handling == <<handler, stale, handled>>
delivery == <<place, holder, handling, released>>
rabbitVars == <<channel, topology, consumers, delivery, mishaps>>

-----------------------------------------------------------------------------

\* assertQueue, the first call of the last three, changes nothing: the queue is
\* durable and there.
Operations ==
  [publish     |-> <<"assertExchange", "publish">>,
   sendToQueue |-> <<"send">>,
   consume     |-> <<"consume">>,
   bindQueue   |-> <<"assertExchange", "bind">>]

Begin(c) ==
  /\ channel = "open" /\ todo[c] = <<>> /\ c \notin consuming
  /\ \E o \in DOMAIN Operations : todo' = [todo EXCEPT ![c] = Operations[o]]
  /\ UNCHANGED <<channel, topology, consuming, noAck, delivery, mishaps>>

Does(c, step) == channel = "open" /\ todo[c] # <<>> /\ Head(todo[c]) = step
Done(c) == todo' = [todo EXCEPT ![c] = Tail(@)]

\* The broker takes back what the channel held; no consumer is left.
Requeue ==
  /\ place' = [m \in Messages |-> IF place[m] = "unacked" THEN "queue" ELSE place[m]]
  /\ holder' = [m \in Messages |-> Nobody]
  /\ consuming' = {} /\ noAck' = {}
  /\ todo' = [c \in Calls |-> <<>>]

CloseChannel == channel' = "closed" /\ Requeue

\* The type is always 'direct'; on an exchange of another type the broker
\* closes the channel, and every call of every user of the service fails.
AssertExchange(c) ==
  /\ Does(c, "assertExchange")
  /\ IF exchange \in {"none", "direct"}
     THEN /\ exchange' = "direct" /\ Done(c)
          /\ UNCHANGED <<channel, bound, consuming, noAck, place, holder>>
     ELSE CloseChannel /\ UNCHANGED topology
  /\ UNCHANGED <<handling, released, mishaps>>

BindQueue(c) ==
  /\ Does(c, "bind") /\ Done(c)
  /\ bound' = TRUE
  /\ UNCHANGED <<channel, exchange, consuming, noAck, delivery, mishaps>>

\* A message no queue is bound for is dropped, and publish returns true.
Publish(c) ==
  /\ todo[c] # <<>> /\ (Does(c, "publish") \/ Does(c, "send")) /\ Done(c)
  /\ \E m \in Messages :
       /\ place[m] = "unsent"
       /\ place' = [place EXCEPT ![m] =
            IF Head(todo[c]) = "send" \/ bound THEN "queue" ELSE "dropped"]
  /\ UNCHANGED <<channel, topology, consuming, noAck, holder, handling, released, mishaps>>

\* The caller's options come after noAck: false.
Consume(c) ==
  /\ Does(c, "consume") /\ Done(c)
  /\ consuming' = consuming \cup {c}
  /\ noAck' \in {noAck, noAck \cup {c}}
  /\ UNCHANGED <<channel, topology, delivery, mishaps>>

-----------------------------------------------------------------------------

Prefetch == 2

Held(c) == {m \in Messages : holder[m] = c /\ place[m] = "unacked"}

\* With noAck the broker forgets a message as it sends it.
GivenUp(c) == "acked"
Kept(c) == IF c \in noAck THEN "acked" ELSE "unacked"

\* The broker delivers while the consumer holds less than its window; a message
\* that nack has given back may come while its first handler still runs.
Deliver(c, m) ==
  /\ c \in consuming /\ place[m] = "queue"
  /\ c \in noAck \/ Cardinality(Held(c)) < Prefetch
  /\ place' = [place EXCEPT ![m] = Kept(c)]
  /\ holder' = [holder EXCEPT ![m] = IF c \in noAck THEN Nobody ELSE c]
  /\ handler' = [handler EXCEPT ![m] = "running"]
  /\ stale' = IF handler[m] = "running" THEN [stale EXCEPT ![m] = @ + 1] ELSE stale
  /\ released' = IF c \in noAck THEN released \cup {m} ELSE released
  /\ UNCHANGED <<channel, topology, consumers, handled, mishaps>>

\* An answer to a delivery, that puts the message at p: on a closed channel it
\* throws, and to one that has been answered, or that needs none, the broker
\* closes the channel over the unknown tag.
Answer(m, p) ==
  IF channel = "open" /\ place[m] # "unacked" THEN CloseChannel
  ELSE /\ place' = [place EXCEPT ![m] = IF @ = "unacked" THEN p ELSE @]
       /\ holder' = [holder EXCEPT ![m] = Nobody]
       /\ UNCHANGED <<channel, consumers>>

NoAnswer == UNCHANGED <<channel, consumers, place, holder>>

\* Only a handler that returned acknowledges; one that threw does not even
\* refuse.
HandlerEnds(m) ==
  /\ handler[m] = "running"
  /\ handler' = [handler EXCEPT ![m] = IF m \in PoisonMessages THEN "threw" ELSE "returned"]
  /\ handled' = IF m \in PoisonMessages THEN handled ELSE handled \cup {m}
  /\ IF m \in PoisonMessages THEN NoAnswer ELSE Answer(m, "acked")
  /\ UNCHANGED <<topology, stale, released, mishaps>>

\* The same of a handler whose delivery has been given back by hand.
StaleHandlerEnds(m) ==
  /\ stale[m] > 0 /\ stale' = [stale EXCEPT ![m] = @ - 1]
  /\ handled' = IF m \in PoisonMessages THEN handled ELSE handled \cup {m}
  /\ IF channel = "open" /\ m \notin PoisonMessages THEN CloseChannel ELSE NoAnswer
  /\ UNCHANGED <<topology, handler, released, mishaps>>

\* ack and nack, by whoever was given the message.
ByHand(m, p) ==
  /\ channel = "open" /\ handler[m] # "none"
  /\ mishaps < MaxMishaps /\ mishaps' = mishaps + 1
  /\ Answer(m, p)
  /\ UNCHANGED <<topology, handling>>

Ack(m) == ByHand(m, "acked") /\
  released' = IF place[m] = "unacked" THEN released \cup {m} ELSE released
Nack(m) == ByHand(m, "queue") /\ UNCHANGED released

\* The connection or the channel is lost; nothing opens another.
LoseChannel ==
  /\ channel = "open" /\ mishaps < MaxMishaps
  /\ mishaps' = mishaps + 1
  /\ CloseChannel
  /\ UNCHANGED <<topology, handling, released>>

\* onModuleDestroy or a crash, and onModuleInit.
RestartService ==
  /\ mishaps < MaxMishaps
  /\ mishaps' = mishaps + 1
  /\ channel' = "open" /\ Requeue
  /\ handler' = [m \in Messages |-> "none"] /\ stale' = [m \in Messages |-> 0]
  /\ UNCHANGED <<topology, handled, released>>

\* Somebody else has declared the exchange, of the type they need.
RabbitInit ==
  /\ channel = "open" /\ bound = FALSE
  /\ exchange \in {"none", "direct", "topic"}
  /\ todo = [c \in Calls |-> <<>>] /\ consuming = {} /\ noAck = {}
  /\ place = [m \in Messages |-> "unsent"]
  /\ holder = [m \in Messages |-> Nobody]
  /\ handler = [m \in Messages |-> "none"] /\ stale = [m \in Messages |-> 0]
  /\ handled = {} /\ released = {} /\ mishaps = 0

RabbitNext ==
  \/ \E c \in Calls : Begin(c) \/ AssertExchange(c) \/ BindQueue(c)
                      \/ Publish(c) \/ Consume(c)
  \/ \E m \in Messages : HandlerEnds(m) \/ StaleHandlerEnds(m) \/ Ack(m) \/ Nack(m)
                         \/ \E c \in Calls : Deliver(c, m)
  \/ LoseChannel \/ RestartService

\* The broker delivers what a window has room for, and handlers end.
RabbitFairness ==
  \A m \in Messages : /\ WF_rabbitVars(HandlerEnds(m)) /\ WF_rabbitVars(StaleHandlerEnds(m))
                      /\ WF_rabbitVars(\E c \in Calls : Deliver(c, m))

-----------------------------------------------------------------------------
(* What holds.                                                             *)

RabbitTypeOK ==
  /\ channel \in {"open", "closed"} /\ exchange \in {"none", "direct", "topic"}
  /\ bound \in BOOLEAN /\ mishaps \in 0..MaxMishaps
  /\ consuming \subseteq Calls /\ noAck \subseteq consuming
  /\ handled \subseteq Messages /\ released \subseteq Messages
  /\ stale \in [Messages -> Nat]
  /\ \A c \in Calls : Len(todo[c]) <= 2
  /\ place \in [Messages -> {"unsent", "dropped", "queue", "unacked", "acked"}]
  /\ holder \in [Messages -> Calls \cup {Nobody}]
  /\ handler \in [Messages -> {"none", "running", "threw", "returned"}]

\* What the broker gives up, a handler has returned from, unless it went to a
\* consumer that asked for noAck or its own handler acknowledged it by hand:
\* neither a throwing handler, nor a lost channel or one closed over a second
\* answer, nor a restart loses a message of the queue.
AckedWasHandled ==
  \A m \in Messages : place[m] = "acked" => m \in handled \cup released

\* One message that always throws does not keep the others from the handlers,
\* as long as the consumer is served: the window has a second place.  (Two such
\* messages would fill it: consume neither refuses nor acknowledges them.)
OthersGetThrough ==
  \A m \in Messages \ PoisonMessages :
    (place[m] = "queue" /\ consuming # {}) ~> (m \in handled \cup released \/ consuming = {})
=============================================================================
