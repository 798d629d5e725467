-------------------------------- MODULE Kafka --------------------------------
(***************************************************************************)
(* KafkaService (src/src/shared/core/transporter/kafka/kafka.service.ts):  *)
(* the consumers it keeps by topic and group, and what the handler of one  *)
(* such key gets of one partition.  Keys share nothing.  The broker and    *)
(* kafkajs are external: one running consumer of the group has the         *)
(* partition, starts at the committed offset, and commits what it passed.  *)
(***************************************************************************)
EXTENDS Naturals

CONSTANTS
  Callers,      \* calls of subscribe and disconnectConsumer
  Consumers,    \* consumers createConsumer can make
  MaxMessages,  \* bound: messages of the partition
  Poison,       \* offsets at which the handler throws
  MaxFaults,    \* bound: rejected calls and restarts
  None

\* Integers for the bounds, and None is nothing else.
KafkaAssumption ==
  /\ MaxMessages \in Nat /\ MaxFaults \in Nat /\ Poison \subseteq Nat
  /\ None \notin Consumers \cup Nat

VARIABLES
  entry,          \* consumers.get(key), or None
  consumer,       \* the life of each consumer
  calls,          \* what each call waits for, and the consumer it holds
  fromBeginning,  \* the option of subscribe
  published,      \* messages are 0 .. published - 1
  owner,          \* the consumer the partition is assigned to
  start,          \* the offset it started at
  position,       \* the offset it reads next
  committed,      \* the offset of the group, None before the first commit
  given,          \* offsets the handler was called with
  mark,           \* history: `published` at the first commit
  failures,       \* rejected calls and restarts so far
  trouble         \* history: a call was rejected, or two have overlapped

kafkaVars == <<entry, consumer, calls, fromBeginning, published, owner, start,
              position, committed, given, mark, failures, trouble>>
registry == <<entry, consumer, calls, failures, trouble>>
partition == <<fromBeginning, published, start, position, committed, given, mark>>

-----------------------------------------------------------------------------

NoCall == [waits |-> "idle", consumer |-> None]
Waits(c, w) == calls[c].waits = w
Call(c, w, x) == calls' = [calls EXCEPT ![c] = [waits |-> w, consumer |-> x]]
Quiet == \A c \in Callers : Waits(c, "idle")
Begins == trouble' = (trouble \/ ~Quiet)

\* !this.consumers.has(consumerKey)
Missing == entry = None

\* With an entry there is nothing to do, whatever has become of its consumer.
Subscribe(c) ==
  /\ Waits(c, "idle")
  /\ Begins
  /\ IF Missing THEN Call(c, "connect", None) ELSE UNCHANGED calls
  /\ UNCHANGED <<entry, consumer, failures, owner, partition>>

\* createConsumer; the entry is set before the topic is subscribed.
Connect(c) ==
  /\ Waits(c, "connect")
  /\ \E x \in Consumers :
       /\ consumer[x] = "unused"
       /\ consumer' = [consumer EXCEPT ![x] = "connected"]
       /\ entry' = x
       /\ Call(c, "topic", x)
  /\ UNCHANGED <<failures, trouble, owner, partition>>

SubscribeTopic(c) ==
  /\ Waits(c, "topic")
  /\ Call(c, "run", calls[c].consumer)
  /\ UNCHANGED <<entry, consumer, failures, trouble, owner, partition>>

\* consumer.run: the group is rebalanced.
Run(c) ==
  /\ Waits(c, "run")
  /\ consumer' = [consumer EXCEPT ![calls[c].consumer] =
       IF @ = "connected" THEN "running" ELSE @]
  /\ owner' = None
  /\ Call(c, "idle", None)
  /\ UNCHANGED <<entry, failures, trouble, partition>>

\* The consumer of the call has left the group.
Gone(c) ==
  /\ consumer' = [consumer EXCEPT ![calls[c].consumer] = "gone"]
  /\ owner' = IF owner = calls[c].consumer THEN None ELSE owner

\* A call is rejected: the error is thrown on and the entry stays, of a
\* consumer that could not be disconnected as well, whether it has left or not.
Reject(c) ==
  /\ ~Waits(c, "idle") /\ failures < MaxFaults
  /\ UNCHANGED <<consumer, owner>> \/ (Waits(c, "leave") /\ Gone(c))
  /\ Call(c, "idle", None)
  /\ failures' = failures + 1 /\ trouble' = TRUE
  /\ UNCHANGED <<entry, partition>>

DisconnectConsumer(c) ==
  /\ Waits(c, "idle") /\ entry # None
  /\ Begins
  /\ Call(c, "leave", entry)
  /\ UNCHANGED <<entry, consumer, failures, owner, partition>>

\* this.consumers.delete, whichever consumer the entry has become.
EntryDeleted == None

Leave(c) ==
  /\ Waits(c, "leave") /\ Gone(c)
  /\ entry' = EntryDeleted
  /\ Call(c, "idle", None)
  /\ UNCHANGED <<failures, trouble, partition>>

\* The process is restarted: the map is empty, the offsets stay.
Restart ==
  /\ failures < MaxFaults /\ failures' = failures + 1
  /\ entry' = None /\ owner' = None
  /\ consumer' = [x \in Consumers |-> IF consumer[x] = "unused" THEN "unused" ELSE "gone"]
  /\ calls' = [c \in Callers |-> NoCall]
  /\ UNCHANGED <<trouble, partition>>

-----------------------------------------------------------------------------

\* publish: the producer's send.
Publish ==
  /\ published < MaxMessages
  /\ published' = published + 1
  /\ UNCHANGED <<registry, owner, fromBeginning, start, position, committed, given, mark>>

\* Without a committed offset a consumer starts at the end of the log, unless
\* it was asked to start from the beginning.
Assign ==
  /\ owner = None
  /\ owner' \in {x \in Consumers : consumer[x] = "running"}
  /\ start' = IF committed # None THEN committed
              ELSE IF fromBeginning THEN 0 ELSE published
  /\ position' = start'
  /\ UNCHANGED <<registry, fromBeginning, published, committed, given, mark>>

\* eachMessage catches what the handler throws and goes on.
Passed(m) == m + 1

EachMessage ==
  /\ owner # None /\ position < published
  /\ given' = given \cup {position}
  /\ position' = Passed(position)
  /\ UNCHANGED <<registry, owner, fromBeginning, published, start, committed, mark>>

\* What has been fetched, handled or not.
Fetched == published

\* What eachMessage has returned from.
Resolved == position

\* kafkajs commits after the messages of a batch.
Commit ==
  /\ owner # None /\ Resolved > start
  /\ committed \in {None} \cup 0..(Resolved - 1)
  /\ committed' = Resolved
  /\ mark' = IF committed = None THEN published ELSE mark
  /\ UNCHANGED <<registry, owner, fromBeginning, published, start, position, given>>

KafkaInit ==
  /\ entry = None /\ owner = None /\ committed = None /\ mark = None
  /\ consumer = [x \in Consumers |-> "unused"]
  /\ calls = [c \in Callers |-> NoCall]
  /\ fromBeginning \in BOOLEAN
  /\ published = 0 /\ start = 0 /\ position = 0 /\ given = {} /\ failures = 0 /\ trouble = FALSE

KafkaNext ==
  \/ \E c \in Callers : Subscribe(c) \/ Connect(c) \/ SubscribeTopic(c) \/ Run(c)
                        \/ Reject(c) \/ DisconnectConsumer(c) \/ Leave(c)
  \/ Restart \/ Publish \/ Assign \/ EachMessage \/ Commit

\* The members of a group get its partition, and messages are fetched.
KafkaFairness == WF_kafkaVars(Assign) /\ WF_kafkaVars(EachMessage)

-----------------------------------------------------------------------------
(* What holds.                                                             *)

KafkaTypeOK ==
  /\ {entry, owner} \subseteq Consumers \cup {None}
  /\ consumer \in [Consumers -> {"unused", "connected", "running", "gone"}]
  /\ calls \in [Callers -> [waits : {"idle", "connect", "topic", "run", "leave"},
                            consumer : Consumers \cup {None}]]
  /\ published \in 0..MaxMessages /\ start \in 0..position /\ position \in 0..published
  /\ committed \in 0..published \cup {None} /\ mark \in 0..published \cup {None}
  /\ given \subseteq 0..published /\ failures \in 0..MaxFaults
  /\ {fromBeginning, trouble} \subseteq BOOLEAN

\* Calls that come one after the other, and are not rejected, keep the map
\* true: a consumer is running exactly if it is the entry, so that
\* disconnectConsumer ends the last and subscribe starts no second.
RegistryIsTrue ==
  Quiet /\ ~trouble =>
    {x \in Consumers : consumer[x] \in {"connected", "running"}} = {entry} \ {None}
    /\ (entry # None => consumer[entry] = "running")

\* Restarts, rebalances, second consumers and throwing handlers lose no
\* message that was published after the group's first commit, or any at all
\* from the beginning: what is below the committed offset has been given to
\* the handler.
NoneSkipped ==
  committed # None =>
    \A m \in 0..(committed - 1) : fromBeginning \/ m >= mark => m \in given

\* A message is given to the handler in the end, whatever the handler does with
\* the ones before, as long as the entry's consumer is running.  (The mark is at least 1.)
Consuming == entry # None /\ consumer[entry] = "running"
GivenInTheEnd ==
  \A m \in 1..(MaxMessages - 1) :
    (m < published /\ committed # None /\ mark <= m /\ Consuming)
      ~> (m \in given \/ ~Consuming)
=============================================================================
