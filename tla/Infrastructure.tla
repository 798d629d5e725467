---------------------------- MODULE Infrastructure ---------------------------
(***************************************************************************)
(* What the application has beside its use cases: the three transports     *)
(* (KafkaService, RabbitMqService, NatsService), the registration with the *)
(* gateway (KongService), the repositories of MongoDB and ScyllaDB, and    *)
(* the balances of EvmService.  They share nothing, neither state nor      *)
(* connections, so that their interleavings add nothing: `part` says which *)
(* of them moves, and the others stay as they are.                         *)
(***************************************************************************)
EXTENDS Naturals

CONSTANTS Callers, Consumers, MaxMessages, Poison,                \* Kafka
          Calls, Messages, PoisonMessages, MaxMishaps, Nobody,    \* RabbitMQ
          Subjects, Subs, Group, Throws, MaxSent, NoQueue,        \* NATS
          Instances, Config,                                      \* Kong
          Docs, Limit, MaxTime, MaxDeleted, NoDoc,                \* MongoDB
          Sessions, Owners, PageRows, Null,                       \* ScyllaDB
          Tokens, Ether, NoAddress, Lists, Most,                  \* EVM
          MaxFaults, None

VARIABLES part,
  entry, consumer, calls, fromBeginning, published, owner, start, position,
  committed, given, mark, failures, trouble,
  channel, exchange, bound, todo, consuming, noAck, place, holder, handler, stale, handled,
  released, mishaps,
  connected, subscriptions, live, subject, buffer, running, gone, sent, calledWith,
  service, route, foreign, phase, faults, last, overlap,
  portfolio, clock, page, asked, data, totalPages, read, there, deleted, torn,
  row, ended, listing,
  balance, call, left, reading, tokens, wanted, had, skipped

K == INSTANCE Kafka
R == INSTANCE Rabbit
N == INSTANCE Nats
G == INSTANCE Kong
M == INSTANCE Portfolios
S == INSTANCE ScyllaSessions
E == INSTANCE Evm

\* What the parts assume of their constants.
ASSUME InfrastructureAssumption ==
  /\ K!KafkaAssumption /\ R!RabbitAssumption /\ N!NatsAssumption /\ G!KongAssumption
  /\ M!PortfoliosAssumption /\ S!ScyllaAssumption /\ E!EvmAssumption

kafka == <<entry, consumer, calls, fromBeginning, published, owner, start, position,
           committed, given, mark, failures, trouble>>
rabbitmq == <<channel, exchange, bound, todo, consuming, noAck, place, holder, handler,
              stale, handled, released, mishaps>>
nats == <<connected, subscriptions, live, subject, buffer, running, gone, sent, calledWith>>
kong == <<service, route, foreign, phase, faults, last, overlap>>
mongodb == <<portfolio, clock, page, asked, data, totalPages, read, there, deleted, torn>>
scylladb == <<row, ended, listing>>
evm == <<balance, call, left, reading, tokens, wanted, had, skipped>>

vars == <<part, kafka, rabbitmq, nats, kong, mongodb, scylladb, evm>>

Init ==
  /\ part \in {"kafka", "rabbitmq", "nats", "kong", "mongodb", "scylladb", "evm"}
  /\ K!KafkaInit /\ R!RabbitInit /\ N!NatsInit /\ G!KongInit
  /\ M!PortfoliosInit /\ S!ScyllaInit /\ E!EvmInit
  /\ part # "kafka" => ~fromBeginning
  /\ part # "rabbitmq" => exchange = "none"

Next ==
  /\ UNCHANGED part
  /\ \/ part = "kafka" /\ K!KafkaNext
        /\ UNCHANGED <<rabbitmq, nats, kong, mongodb, scylladb, evm>>
     \/ part = "rabbitmq" /\ R!RabbitNext
        /\ UNCHANGED <<kafka, nats, kong, mongodb, scylladb, evm>>
     \/ part = "nats" /\ N!NatsNext
        /\ UNCHANGED <<kafka, rabbitmq, kong, mongodb, scylladb, evm>>
     \/ part = "kong" /\ G!KongNext
        /\ UNCHANGED <<kafka, rabbitmq, nats, mongodb, scylladb, evm>>
     \/ part = "mongodb" /\ M!PortfoliosNext
        /\ UNCHANGED <<kafka, rabbitmq, nats, kong, scylladb, evm>>
     \/ part = "scylladb" /\ S!ScyllaNext
        /\ UNCHANGED <<kafka, rabbitmq, nats, kong, mongodb, evm>>
     \/ part = "evm" /\ E!EvmNext
        /\ UNCHANGED <<kafka, rabbitmq, nats, kong, mongodb, scylladb>>

Spec == /\ Init /\ [][Next]_vars
        /\ K!KafkaFairness /\ R!RabbitFairness /\ N!NatsFairness

-----------------------------------------------------------------------------
(* What holds, part by part; the modules say it in full.                   *)

\* Every part's variables have their types.
TypeOK ==
  /\ K!KafkaTypeOK /\ R!RabbitTypeOK /\ N!NatsTypeOK /\ G!KongTypeOK
  /\ M!PortfoliosTypeOK /\ S!ScyllaTypeOK /\ E!EvmTypeOK

\* The transports keep what they are given and know what is subscribed.  Kafka:
\* what is below the group's committed offset was given to the handler of
\* subscribe, through restarts and second consumers, and without rejected or
\* overlapping calls the consumer that runs is the one in KafkaService's map.
\* RabbitMQ: what the broker gives up, a handler of consume has returned from,
\* unless noAck or a call of ack has released it.
\* NATS: callbacks of a subscription run one at a time and in order, and the
\* server sends to exactly the subscriptions NatsService stores.
TransportsAreSafe ==
  /\ K!NoneSkipped /\ K!RegistryIsTrue
  /\ R!AckedWasHandled
  /\ N!OneAtATime /\ N!MapIsLive

\* A handler that throws does not keep the other messages from theirs: Kafka's
\* eachMessage and the loop of NATS catch the error, and RabbitMQ's prefetch
\* window has a second place.
HandledInTheEnd ==
  K!GivenInTheEnd /\ R!OthersGetThrough /\ N!EveryMessageTaken

\* Kong: an instance that reports success has its service and route there, of
\* instances that boot together one succeeds, and deployments one after the
\* other leave the last one's configuration.
GatewayIsRegistered ==
  G!DoneMeansServed /\ G!OneRegisters /\ G!LastDeployed

\* MongoDB: a reader of paginate's pages misses no document for one that is
\* created meanwhile, and without writes gets each once.  ScyllaDB: paginate's
\* only page of the whole table has every row that stayed.
PagesAreComplete ==
  M!NoneMissed /\ M!ReadOnce /\ S!OnePageHasAll

\* EVM: getWalletTokens lists no balance that the wallet did not have while it
\* was asked, and a token held all the time, whichever other cannot be queried.
BalancesAreTrue == E!ListedWasHeld /\ E!HeldIsListed

\* ScyllaDB: a session without a user, or given none since its deletion, is one
\* that is not there.
Table == INSTANCE SessionTable WITH
  owner <- [s \in Sessions |-> IF s \in ended THEN Null ELSE row[s].user_id],
  active <- [u \in Owners |-> S!FindActiveSessionsByUserId(u)]

\* ScyllaDB: seen through findActiveSessionsByUserId the table of upserts is
\* one in which only a create or an update that names the user makes a session.
\* After a deletion deactivateSession, and an update of other columns, is_active
\* among them, do not bring it back; an update with its user_id does.
UpsertsStayHidden == Table!Spec
=============================================================================
