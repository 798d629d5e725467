------------------------- MODULE InfrastructureProofs -------------------------
(***************************************************************************)
(* Theorems about Infrastructure, part by part: for every number of        *)
(* instances, callers, consumers, messages, subscriptions, sessions and    *)
(* tokens, and however many faults there are.                              *)
(***************************************************************************)
EXTENDS Infrastructure, FiniteSetTheorems, SequenceTheorems, TLAPS

\* A step of the whole is a step of one part, and none of the others.
LEMMA Steps ==
  ASSUME [Next]_vars
  PROVE  /\ [K!KafkaNext]_kafka /\ [R!RabbitNext]_rabbitmq /\ [N!NatsNext]_nats
         /\ [G!KongNext]_kong /\ [M!PortfoliosNext]_mongodb /\ [S!ScyllaNext]_scylladb
         /\ [E!EvmNext]_evm
  BY DEF Next, vars

-----------------------------------------------------------------------------
(* Kafka.                                                                  *)

\* Below p the handler was given all that the group has to be given.
Covered(p) ==
  \A m \in 0..(p - 1) : fromBeginning \/ (committed # None /\ m >= mark) => m \in given

\* The consumer that has the partition has passed nothing by, and the group is
\* committed to nothing it has not passed.
Passing ==
  /\ committed = None <=> mark = None
  /\ owner # None => Covered(position)
  /\ committed # None => Covered(committed)

Active == {x \in Consumers : consumer[x] \in {"connected", "running"}}

\* While nothing is rejected and no two calls overlap: where the only call is,
\* and what it holds, says which consumer is connected.
Registry ==
  ~trouble =>
    /\ \A c, d \in Callers : ~K!Waits(c, "idle") /\ ~K!Waits(d, "idle") => c = d
    /\ \A c \in Callers :
         /\ K!Waits(c, "connect") => entry = None /\ Active = {}
         /\ K!Waits(c, "topic") \/ K!Waits(c, "run") =>
              /\ entry # None /\ calls[c].consumer = entry
              /\ Active = {entry} /\ consumer[entry] = "connected"
         /\ K!Waits(c, "leave") =>
              /\ entry # None /\ calls[c].consumer = entry
              /\ Active = {entry} /\ consumer[entry] = "running"
    /\ K!Quiet => IF entry = None THEN Active = {}
                  ELSE Active = {entry} /\ consumer[entry] = "running"

KafkaInv == K!KafkaTypeOK /\ Passing /\ Registry

LEMMA KafkaAssumed ==
  /\ MaxMessages \in Nat /\ MaxFaults \in Nat
  /\ None \notin Consumers /\ None \notin Nat
  BY InfrastructureAssumption DEF K!KafkaAssumption

CallRecords == [waits : {"idle", "connect", "topic", "run", "leave"},
                consumer : Consumers \cup {None}]

\* The types in a form for one part of the variables and the other.
RegistryTyped ==
  /\ entry \in Consumers \cup {None} /\ owner \in Consumers \cup {None}
  /\ consumer \in [Consumers -> {"unused", "connected", "running", "gone"}]
  /\ calls \in [Callers -> CallRecords]
  /\ failures \in 0..MaxFaults /\ trouble \in BOOLEAN

PartitionTyped ==
  /\ published \in 0..MaxMessages /\ start \in 0..position /\ position \in 0..published
  /\ committed \in 0..published \cup {None} /\ mark \in 0..published \cup {None}
  /\ given \subseteq 0..published /\ fromBeginning \in BOOLEAN

LEMMA KafkaTypes == K!KafkaTypeOK <=> RegistryTyped /\ PartitionTyped
  BY DEF K!KafkaTypeOK, RegistryTyped, PartitionTyped, CallRecords

LEMMA KafkaInitially == K!KafkaInit => KafkaInv
  <1> SUFFICES ASSUME K!KafkaInit PROVE KafkaInv
    OBVIOUS
  <1>1. RegistryTyped
    <2>1. failures \in 0..MaxFaults
      BY KafkaAssumed DEF K!KafkaInit
    <2>2. trouble = FALSE
      BY DEF K!KafkaInit
    <2>3. calls \in [Callers -> CallRecords]
      BY DEF K!KafkaInit, K!NoCall, CallRecords
    <2>4. consumer \in [Consumers -> {"unused", "connected", "running", "gone"}]
      BY DEF K!KafkaInit
    <2> QED BY <2>1, <2>2, <2>3, <2>4 DEF K!KafkaInit, RegistryTyped
  <1>2. PartitionTyped
    BY KafkaAssumed DEF K!KafkaInit, PartitionTyped
  <1>3. Passing
    BY DEF K!KafkaInit, Passing
  <1>4. Registry
    <2>1. Active = {} /\ entry = None /\ \A c \in Callers : calls[c] = [waits |-> "idle", consumer |-> None]
      BY DEF K!KafkaInit, Active, K!NoCall
    <2> QED BY <2>1 DEF Registry, K!Waits
  <1> QED BY <1>1, <1>2, <1>3, <1>4, KafkaTypes DEF KafkaInv

-----------------------------------------------------------------------------
(* Kafka: the map of consumers.                                            *)

\* What a call that begins may count on, if there is to be no trouble.
LEMMA NoTrouble ==
  ASSUME KafkaInv, K!Begins, ~trouble'
  PROVE  ~trouble /\ K!Quiet /\ Registry
  BY DEF K!Begins, KafkaInv

\* One call moves on; of the others nobody has begun.
LEMMA RegistryMoves ==
  ASSUME KafkaInv, [K!KafkaNext]_kafka
  PROVE  RegistryTyped'
  <1>1. RegistryTyped
    BY KafkaTypes DEF KafkaInv
  <1>2. ASSUME NEW c \in Callers, K!Subscribe(c) PROVE RegistryTyped'
    <2>1. trouble' \in BOOLEAN
      BY <1>1, <1>2 DEF K!Subscribe, K!Begins, RegistryTyped
    <2>2. calls' \in [Callers -> CallRecords]
      BY <1>1, <1>2 DEF K!Subscribe, K!Call, RegistryTyped, CallRecords
    <2>3. UNCHANGED <<entry, owner, consumer, failures>>
      BY <1>2 DEF K!Subscribe
    <2> QED BY <1>1, <2>1, <2>2, <2>3 DEF RegistryTyped
  <1>3. ASSUME NEW c \in Callers, K!Connect(c) PROVE RegistryTyped'
    BY <1>1, <1>3 DEF K!Connect, K!Call, RegistryTyped, CallRecords
  <1>4. ASSUME NEW c \in Callers, K!SubscribeTopic(c) PROVE RegistryTyped'
    BY <1>1, <1>4 DEF K!SubscribeTopic, K!Call, RegistryTyped, CallRecords
  <1>5. ASSUME NEW c \in Callers, K!Run(c) PROVE RegistryTyped'
    BY <1>1, <1>5 DEF K!Run, K!Call, RegistryTyped, CallRecords
  <1>6. ASSUME NEW c \in Callers, K!Reject(c) PROVE RegistryTyped'
    <2>1. failures' \in 0..MaxFaults
      BY <1>1, <1>6, KafkaAssumed DEF K!Reject, RegistryTyped
    <2> QED BY <1>1, <1>6, <2>1 DEF K!Reject, K!Gone, K!Call, RegistryTyped, CallRecords
  <1>7. ASSUME NEW c \in Callers, K!DisconnectConsumer(c) PROVE RegistryTyped'
    <2>1. trouble' \in BOOLEAN
      BY <1>1, <1>7 DEF K!DisconnectConsumer, K!Begins, RegistryTyped
    <2>2. calls' \in [Callers -> CallRecords]
      BY <1>1, <1>7 DEF K!DisconnectConsumer, K!Call, RegistryTyped, CallRecords
    <2>3. UNCHANGED <<entry, owner, consumer, failures>>
      BY <1>7 DEF K!DisconnectConsumer
    <2> QED BY <1>1, <2>1, <2>2, <2>3 DEF RegistryTyped
  <1>8. ASSUME NEW c \in Callers, K!Leave(c) PROVE RegistryTyped'
    BY <1>1, <1>8 DEF K!Leave, K!Gone, K!EntryDeleted, K!Call, RegistryTyped, CallRecords
  <1>9. CASE K!Restart
    <2>1. failures' \in 0..MaxFaults
      BY <1>1, <1>9, KafkaAssumed DEF K!Restart, RegistryTyped
    <2>2. calls' \in [Callers -> CallRecords]
      BY <1>9 DEF K!Restart, K!NoCall, CallRecords
    <2>3. consumer' \in [Consumers -> {"unused", "connected", "running", "gone"}]
      BY <1>9 DEF K!Restart
    <2> QED BY <1>1, <1>9, <2>1, <2>2, <2>3 DEF K!Restart, RegistryTyped
  <1>10. CASE K!Assign
    BY <1>1, <1>10 DEF K!Assign, K!registry, RegistryTyped
  <1>11. CASE K!Publish \/ K!EachMessage \/ K!Commit \/ UNCHANGED kafka
    BY <1>1, <1>11 DEF K!Publish, K!EachMessage, K!Commit, K!registry, kafka, RegistryTyped
  <1> QED
    BY <1>2, <1>3, <1>4, <1>5, <1>6, <1>7, <1>8, <1>9, <1>10, <1>11 DEF K!KafkaNext

\* The states of the map between the calls, and in them.
LEMMA RegistryKept ==
  ASSUME KafkaInv, [K!KafkaNext]_kafka
  PROVE  Registry'
  <1>1. RegistryTyped
    BY KafkaTypes DEF KafkaInv
  <1>2. ASSUME NEW c \in Callers, K!Subscribe(c) PROVE Registry'
    <2> SUFFICES ASSUME ~trouble' PROVE Registry'
      BY DEF Registry
    <2>1. ~trouble /\ K!Quiet /\ Registry
      BY <1>2, NoTrouble DEF K!Subscribe
    <2>2. UNCHANGED <<entry, consumer>> /\ Active' = Active
      BY <1>2 DEF K!Subscribe, Active
    <2>3. CASE entry = None
      <3>1. calls' = [calls EXCEPT ![c] = [waits |-> "connect", consumer |-> None]]
        BY <1>2, <2>3 DEF K!Subscribe, K!Missing, K!Call
      <3> QED BY <1>1, <2>1, <2>2, <2>3, <3>1 DEF Registry, RegistryTyped, K!Quiet, K!Waits
    <2>4. CASE entry # None
      <3>1. calls' = calls
        BY <1>2, <2>4 DEF K!Subscribe, K!Missing
      <3> QED BY <2>1, <2>2, <3>1 DEF Registry, K!Quiet, K!Waits
    <2> QED BY <2>3, <2>4
  <1>3. ASSUME NEW c \in Callers, K!DisconnectConsumer(c) PROVE Registry'
    <2> SUFFICES ASSUME ~trouble' PROVE Registry'
      BY DEF Registry
    <2>1. ~trouble /\ K!Quiet /\ Registry
      BY <1>3, NoTrouble DEF K!DisconnectConsumer
    <2>2. UNCHANGED <<entry, consumer>> /\ Active' = Active /\ entry # None
      BY <1>3 DEF K!DisconnectConsumer, Active
    <2>3. calls' = [calls EXCEPT ![c] = [waits |-> "leave", consumer |-> entry]]
      BY <1>3 DEF K!DisconnectConsumer, K!Call
    <2> QED BY <1>1, <2>1, <2>2, <2>3 DEF Registry, RegistryTyped, K!Quiet, K!Waits
  <1>4. ASSUME NEW c \in Callers, K!Connect(c) PROVE Registry'
    <2> SUFFICES ASSUME ~trouble PROVE Registry'
      BY <1>4 DEF Registry, K!Connect
    <2>1. PICK x \in Consumers :
            /\ consumer[x] = "unused" /\ consumer' = [consumer EXCEPT ![x] = "connected"]
            /\ entry' = x /\ calls' = [calls EXCEPT ![c] = [waits |-> "topic", consumer |-> x]]
      BY <1>4 DEF K!Connect, K!Call
    <2>2. /\ Active = {}
          /\ \A d \in Callers : d # c => K!Waits(d, "idle")
      BY <1>4 DEF KafkaInv, Registry, K!Connect, K!Waits
    <2>3. Active' = {x} /\ consumer'[x] = "connected" /\ x # None
      BY <1>1, <2>1, <2>2, KafkaAssumed DEF Active, RegistryTyped
    <2>4. /\ calls'[c].waits = "topic" /\ calls'[c].consumer = x
          /\ \A d \in Callers : d # c => calls'[d].waits = "idle"
      BY <1>1, <2>1, <2>2 DEF RegistryTyped, K!Waits
    <2> QED BY <2>1, <2>3, <2>4 DEF Registry, K!Quiet, K!Waits
  <1>5. ASSUME NEW c \in Callers, K!SubscribeTopic(c) PROVE Registry'
    <2> SUFFICES ASSUME ~trouble PROVE Registry'
      BY <1>5 DEF Registry, K!SubscribeTopic
    <2>1. /\ entry # None /\ calls[c].consumer = entry
          /\ Active = {entry} /\ consumer[entry] = "connected"
          /\ \A d \in Callers : d # c => K!Waits(d, "idle")
      BY <1>5 DEF KafkaInv, Registry, K!SubscribeTopic, K!Waits
    <2>2. /\ calls'[c].waits = "run" /\ calls'[c].consumer = entry
          /\ \A d \in Callers : d # c => calls'[d].waits = "idle"
      BY <1>1, <1>5, <2>1 DEF RegistryTyped, K!Waits, K!SubscribeTopic, K!Call
    <2>3. UNCHANGED <<entry, consumer>> /\ Active' = Active
      BY <1>5 DEF K!SubscribeTopic, Active
    <2> QED BY <2>1, <2>2, <2>3 DEF Registry, K!Quiet, K!Waits
  <1>6. ASSUME NEW c \in Callers, K!Run(c) PROVE Registry'
    <2> SUFFICES ASSUME ~trouble PROVE Registry'
      BY <1>6 DEF Registry, K!Run
    <2>1. /\ entry # None /\ calls[c].consumer = entry
          /\ Active = {entry} /\ consumer[entry] = "connected"
          /\ \A d \in Callers : d # c => K!Waits(d, "idle")
      BY <1>6 DEF KafkaInv, Registry, K!Run, K!Waits
    <2>2. /\ entry' = entry /\ entry \in Consumers
          /\ consumer' = [consumer EXCEPT ![entry] = "running"]
      BY <1>1, <1>6, <2>1 DEF K!Run, RegistryTyped
    <2>3. Active' = {entry} /\ consumer'[entry] = "running"
      BY <1>1, <2>1, <2>2 DEF Active, RegistryTyped
    <2>4. \A d \in Callers : calls'[d].waits = "idle"
      BY <1>1, <1>6, <2>1 DEF RegistryTyped, K!Waits, K!Run, K!Call
    <2> QED BY <2>1, <2>2, <2>3, <2>4 DEF Registry, K!Waits
  <1>7. ASSUME NEW c \in Callers, K!Reject(c) PROVE Registry'
    BY <1>7 DEF Registry, K!Reject
  <1>8. ASSUME NEW c \in Callers, K!Leave(c) PROVE Registry'
    <2> SUFFICES ASSUME ~trouble PROVE Registry'
      BY <1>8 DEF Registry, K!Leave
    <2>1. /\ entry # None /\ calls[c].consumer = entry
          /\ Active = {entry} /\ consumer[entry] = "running"
          /\ \A d \in Callers : d # c => K!Waits(d, "idle")
      BY <1>8 DEF KafkaInv, Registry, K!Leave, K!Waits
    <2>2. /\ entry' = None /\ entry \in Consumers
          /\ consumer' = [consumer EXCEPT ![entry] = "gone"]
      BY <1>1, <1>8, <2>1 DEF K!Leave, K!Gone, K!EntryDeleted, RegistryTyped
    <2>3. Active' = {}
      BY <1>1, <2>1, <2>2 DEF Active, RegistryTyped
    <2>4. \A d \in Callers : calls'[d].waits = "idle"
      BY <1>1, <1>8, <2>1 DEF RegistryTyped, K!Waits, K!Leave, K!Call
    <2> QED BY <2>2, <2>3, <2>4 DEF Registry, K!Waits
  <1>9. CASE K!Restart
    <2>1. entry' = None /\ \A d \in Callers : calls'[d].waits = "idle"
      BY <1>9 DEF K!Restart, K!NoCall
    <2>2. Active' = {}
      BY <1>9 DEF K!Restart, Active
    <2> QED BY <2>1, <2>2 DEF Registry, K!Waits
  <1>10. CASE K!Assign \/ K!Publish \/ K!EachMessage \/ K!Commit \/ UNCHANGED kafka
    <2>1. UNCHANGED <<entry, consumer, calls, trouble>>
      BY <1>10 DEF K!Assign, K!Publish, K!EachMessage, K!Commit, K!registry, kafka
    <2> QED BY <2>1 DEF KafkaInv, Registry, Active, K!Quiet, K!Waits
  <1> QED
    BY <1>2, <1>3, <1>4, <1>5, <1>6, <1>7, <1>8, <1>9, <1>10 DEF K!KafkaNext

-----------------------------------------------------------------------------
(* Kafka: the offsets.                                                     *)

\* Whoever comes and goes: a consumer that has the partition had it before.
LEMMA PartitionKept ==
  ASSUME KafkaInv,
         \/ UNCHANGED kafka \/ K!Restart
         \/ \E c \in Callers : \/ K!Subscribe(c) \/ K!Connect(c) \/ K!SubscribeTopic(c)
                               \/ K!Run(c) \/ K!Reject(c) \/ K!DisconnectConsumer(c) \/ K!Leave(c)
  PROVE  PartitionTyped' /\ Passing'
  <1>1. UNCHANGED <<fromBeginning, published, start, position, committed, given, mark>>
    BY DEF kafka, K!Restart, K!Subscribe, K!Connect, K!SubscribeTopic, K!Run, K!Reject,
           K!DisconnectConsumer, K!Leave, K!Gone, K!partition
  <1>2. owner' = owner \/ owner' = None
    BY DEF kafka, K!Restart, K!Subscribe, K!Connect, K!SubscribeTopic, K!Run, K!Reject,
           K!DisconnectConsumer, K!Leave, K!Gone, K!partition
  <1>3. PartitionTyped /\ Passing
    BY KafkaTypes DEF KafkaInv
  <1>4. PartitionTyped'
    BY <1>1, <1>3 DEF PartitionTyped
  <1>5. Passing'
    BY <1>1, <1>2, <1>3 DEF Passing, Covered
  <1> QED BY <1>4, <1>5

LEMMA PartitionMoves ==
  ASSUME KafkaInv, K!Publish \/ K!Assign \/ K!EachMessage \/ K!Commit
  PROVE  PartitionTyped' /\ Passing'
  <1>1. PartitionTyped /\ Passing
    BY KafkaTypes DEF KafkaInv
  <1>2. /\ published \in Nat /\ position \in Nat /\ start \in Nat
        /\ position <= published /\ published <= MaxMessages
        /\ committed # None => committed \in Nat /\ committed <= published
        /\ mark # None => mark \in Nat /\ mark <= published
    BY <1>1, KafkaAssumed DEF PartitionTyped
  <1>3. CASE K!Publish
    <2>1. /\ published < MaxMessages /\ published' = published + 1
          /\ UNCHANGED <<owner, fromBeginning, start, position, committed, given, mark>>
      BY <1>3 DEF K!Publish
    <2>2. PartitionTyped'
      <3>1. published' \in 0..MaxMessages /\ 0..published \subseteq 0..published'
        BY <1>2, <2>1, KafkaAssumed
      <3> QED BY <1>1, <2>1, <3>1 DEF PartitionTyped
    <2> QED BY <1>1, <2>1, <2>2 DEF Passing, Covered
  <1>4. CASE K!Assign
    <2>1. /\ start' = IF committed # None THEN committed
                      ELSE IF fromBeginning THEN 0 ELSE published
          /\ position' = start'
          /\ UNCHANGED <<fromBeginning, published, committed, given, mark>>
      BY <1>4 DEF K!Assign
    <2>2. CASE committed # None
      <3>1. position' = committed /\ start' = committed
        BY <2>1, <2>2
      <3>2. Passing'
        BY <1>1, <2>1, <2>2, <3>1 DEF Passing, Covered
      <3>3. PartitionTyped'
        BY <1>1, <1>2, <2>1, <2>2, <3>1 DEF PartitionTyped
      <3> QED BY <3>2, <3>3
    <2>3. CASE committed = None /\ fromBeginning
      <3>1. position' = 0 /\ start' = 0
        BY <2>1, <2>3
      <3>2. Passing'
        BY <1>1, <2>1, <2>3, <3>1 DEF Passing, Covered
      <3>3. PartitionTyped'
        BY <1>1, <1>2, <2>1, <3>1 DEF PartitionTyped
      <3> QED BY <3>2, <3>3
    <2>4. CASE committed = None /\ ~fromBeginning
      <3>1. position' = published /\ start' = published
        BY <2>1, <2>4
      <3>2. Passing'
        BY <1>1, <2>1, <2>4, <3>1 DEF Passing, Covered
      <3>3. PartitionTyped'
        BY <1>1, <1>2, <2>1, <3>1 DEF PartitionTyped
      <3> QED BY <3>2, <3>3
    <2> QED BY <2>2, <2>3, <2>4
  <1>5. CASE K!EachMessage
    <2>1. /\ owner # None /\ position < published /\ given' = given \cup {position}
          /\ position' = position + 1
          /\ UNCHANGED <<owner, fromBeginning, published, start, committed, mark>>
      BY <1>5 DEF K!EachMessage, K!Passed
    <2>2. PartitionTyped'
      BY <1>1, <1>2, <2>1 DEF PartitionTyped
    <2>3. Covered(position)'
      <3> SUFFICES ASSUME NEW m \in 0..((position + 1) - 1),
                          fromBeginning \/ (committed # None /\ m >= mark)
                   PROVE  m \in given'
        BY <2>1 DEF Covered
      <3>1. m = position \/ m \in 0..(position - 1)
        BY <1>2
      <3> QED BY <1>1, <2>1, <3>1 DEF Passing, Covered
    <2>4. committed # None => Covered(committed)'
      BY <1>1, <2>1 DEF Passing, Covered
    <2> QED BY <1>1, <2>1, <2>2, <2>3, <2>4 DEF Passing
  <1>6. CASE K!Commit
    <2>1. /\ owner # None /\ position > start /\ committed' = position
          /\ mark' = IF committed = None THEN published ELSE mark
          /\ UNCHANGED <<owner, fromBeginning, published, start, position, given>>
      BY <1>6 DEF K!Commit, K!Resolved
    <2>2. PartitionTyped'
      BY <1>1, <1>2, <2>1 DEF PartitionTyped
    <2>3. committed' # None /\ mark' # None
      BY <1>1, <1>2, <2>1, KafkaAssumed DEF Passing
    <2>4. Covered(position)'
      <3> SUFFICES ASSUME NEW m \in 0..(position - 1), fromBeginning \/ m >= mark'
                   PROVE  m \in given
        BY <2>1 DEF Covered
      <3>1. CASE committed # None
        BY <1>1, <2>1, <3>1 DEF Passing, Covered
      <3>2. CASE committed = None
        <4>1. m < published
          BY <1>2
        <4>2. fromBeginning
          BY <1>2, <2>1, <3>2, <4>1
        <4> QED BY <1>1, <2>1, <4>2 DEF Passing, Covered
      <3> QED BY <3>1, <3>2
    <2>5. Covered(committed)'
      BY <2>1, <2>4 DEF Covered
    <2> QED BY <2>2, <2>3, <2>4, <2>5 DEF Passing
  <1> QED BY <1>3, <1>4, <1>5, <1>6

LEMMA KafkaStep == KafkaInv /\ [K!KafkaNext]_kafka => KafkaInv'
  <1> SUFFICES ASSUME KafkaInv, [K!KafkaNext]_kafka PROVE KafkaInv'
    OBVIOUS
  <1>1. RegistryTyped' /\ Registry'
    BY RegistryMoves, RegistryKept
  <1>2. PartitionTyped' /\ Passing'
    BY PartitionKept, PartitionMoves DEF K!KafkaNext
  <1>3. K!KafkaTypeOK'
    BY <1>1, <1>2 DEF K!KafkaTypeOK, RegistryTyped, PartitionTyped, CallRecords
  <1> QED BY <1>1, <1>2, <1>3 DEF KafkaInv

LEMMA KafkaAlways == Spec => []KafkaInv
  <1>1. Init => KafkaInv
    BY KafkaInitially DEF Init
  <1>2. KafkaInv /\ [Next]_vars => KafkaInv'
    BY Steps, KafkaStep
  <1> QED BY <1>1, <1>2, PTL DEF Spec

LEMMA KafkaIsSafe == KafkaInv => K!NoneSkipped /\ K!RegistryIsTrue
  <1> SUFFICES ASSUME KafkaInv PROVE K!NoneSkipped /\ K!RegistryIsTrue
    OBVIOUS
  <1>1. K!NoneSkipped
    BY DEF KafkaInv, Passing, Covered, K!NoneSkipped
  <1>2. K!RegistryIsTrue
    BY DEF KafkaInv, Registry, Active, K!RegistryIsTrue
  <1> QED BY <1>1, <1>2

-----------------------------------------------------------------------------
(* RabbitMQ.                                                               *)

CallsToBroker == {"assertExchange", "publish", "send", "consume", "bind"}

RabbitInv ==
  /\ R!RabbitTypeOK /\ R!AckedWasHandled
  /\ todo \in [Calls -> Seq(CallsToBroker)]
  /\ \A m \in released : place[m] = "acked"

LEMMA RabbitAssumed == MaxMishaps \in Nat /\ Nobody \notin Calls
  BY InfrastructureAssumption DEF R!RabbitAssumption

LEMMA RabbitInitially == R!RabbitInit => RabbitInv
  <1> SUFFICES ASSUME R!RabbitInit PROVE RabbitInv
    OBVIOUS
  <1>1. todo \in [Calls -> Seq(CallsToBroker)] /\ \A c \in Calls : Len(todo[c]) <= 2
    BY DEF R!RabbitInit
  <1>2. mishaps \in 0..MaxMishaps /\ bound \in BOOLEAN
    <2>1. mishaps = 0 /\ 0 \in 0..MaxMishaps
      BY RabbitAssumed DEF R!RabbitInit
    <2>2. bound = FALSE
      BY DEF R!RabbitInit
    <2>3. bound \in BOOLEAN
      BY <2>2
    <2> QED BY <2>1, <2>3
  <1>3. /\ place \in [Messages -> {"unsent", "dropped", "queue", "unacked", "acked"}]
        /\ holder \in [Messages -> Calls \cup {Nobody}]
        /\ handler \in [Messages -> {"none", "running", "threw", "returned"}]
        /\ stale \in [Messages -> Nat]
    BY DEF R!RabbitInit
  <1>4. R!RabbitTypeOK
    BY <1>1, <1>2, <1>3 DEF R!RabbitInit, R!RabbitTypeOK
  <1> QED BY <1>1, <1>4 DEF R!RabbitInit, RabbitInv, R!AckedWasHandled

LEMMA OperationsAreShort ==
  \A o \in DOMAIN R!Operations :
    R!Operations[o] \in Seq(CallsToBroker) /\ Len(R!Operations[o]) <= 2
  <1>1. DOMAIN R!Operations = {"publish", "sendToQueue", "consume", "bindQueue"}
    BY DEF R!Operations
  <1>2. /\ R!Operations["publish"] = <<"assertExchange", "publish">>
        /\ R!Operations["sendToQueue"] = <<"send">>
        /\ R!Operations["consume"] = <<"consume">>
        /\ R!Operations["bindQueue"] = <<"assertExchange", "bind">>
    BY DEF R!Operations
  <1>3. ASSUME NEW a \in CallsToBroker
        PROVE  <<a>> \in Seq(CallsToBroker) /\ Len(<<a>>) <= 2
    OBVIOUS
  <1>4. ASSUME NEW a \in CallsToBroker, NEW b \in CallsToBroker
        PROVE  <<a, b>> \in Seq(CallsToBroker) /\ Len(<<a, b>>) <= 2
    OBVIOUS
  <1>5. /\ "assertExchange" \in CallsToBroker /\ "publish" \in CallsToBroker
        /\ "send" \in CallsToBroker
        /\ "consume" \in CallsToBroker /\ "bind" \in CallsToBroker
    BY DEF CallsToBroker
  <1> TAKE o \in DOMAIN R!Operations
  <1>6. CASE o = "publish"
    BY <1>2, <1>4, <1>5, <1>6
  <1>7. CASE o = "sendToQueue"
    BY <1>2, <1>3, <1>5, <1>7
  <1>8. CASE o = "consume"
    BY <1>2, <1>3, <1>5, <1>8
  <1>9. CASE o = "bindQueue"
    BY <1>2, <1>4, <1>5, <1>9
  <1> QED BY <1>1, <1>6, <1>7, <1>8, <1>9

\* The variables an answer of the broker leaves to the handlers keep their types.
HandlersTyped ==
  /\ handler \in [Messages -> {"none", "running", "threw", "returned"}]
  /\ stale \in [Messages -> Nat]
  /\ handled \subseteq Messages /\ mishaps \in 0..MaxMishaps

LEMMA HandlersAreTyped == RabbitInv => HandlersTyped
  BY DEF RabbitInv, R!RabbitTypeOK, HandlersTyped

\* A closed channel and a restart leave an acknowledged message what it is.
LEMMA RabbitRequeues ==
  ASSUME RabbitInv, R!Requeue, handled \subseteq handled', released' = released,
         channel' \in {"open", "closed"}, exchange' = exchange, bound' = bound,
         HandlersTyped'
  PROVE  RabbitInv'
  <1>1. /\ place' = [m \in Messages |-> IF place[m] = "unacked" THEN "queue" ELSE place[m]]
        /\ holder' = [m \in Messages |-> Nobody] /\ consuming' = {} /\ noAck' = {}
        /\ todo' = [c \in Calls |-> <<>>]
    BY DEF R!Requeue
  <1>2. todo' \in [Calls -> Seq(CallsToBroker)] /\ \A c \in Calls : Len(todo'[c]) <= 2
    BY <1>1
  <1>3. /\ place' \in [Messages -> {"unsent", "dropped", "queue", "unacked", "acked"}]
        /\ holder' \in [Messages -> Calls \cup {Nobody}]
        /\ \A m \in Messages : place'[m] = "acked" <=> place[m] = "acked"
    BY <1>1 DEF RabbitInv, R!RabbitTypeOK
  <1>4. R!RabbitTypeOK'
    BY <1>1, <1>2, <1>3 DEF RabbitInv, R!RabbitTypeOK, HandlersTyped
  <1>5. R!AckedWasHandled' /\ \A m \in released' : place'[m] = "acked"
    BY <1>3 DEF RabbitInv, R!RabbitTypeOK, R!AckedWasHandled
  <1> QED BY <1>2, <1>4, <1>5 DEF RabbitInv

\* An answer that acknowledges is a returned handler's, or releases the message.
LEMMA RabbitAnswers ==
  ASSUME RabbitInv, NEW m \in Messages, NEW p \in {"queue", "acked"}, R!Answer(m, p),
         handled \subseteq handled', exchange' = exchange, bound' = bound, HandlersTyped',
         \/ released' = released /\ (p = "acked" => m \in handled')
         \/ released' = IF place[m] = "unacked" THEN released \cup {m} ELSE released,
         p = "queue" => released' = released
  PROVE  RabbitInv'
  <1>1. CASE channel = "open" /\ place[m] # "unacked"
    <2>1. R!Requeue /\ channel' = "closed"
      BY <1>1 DEF R!Answer, R!CloseChannel
    <2>2. released' = released
      BY <1>1
    <2> QED BY <2>1, <2>2, RabbitRequeues
  <1>2. CASE ~(channel = "open" /\ place[m] # "unacked")
    <2>1. /\ place' = [place EXCEPT ![m] = IF place[m] = "unacked" THEN p ELSE place[m]]
          /\ holder' = [holder EXCEPT ![m] = Nobody]
          /\ UNCHANGED <<channel, todo, consuming, noAck>>
      BY <1>2 DEF R!Answer, R!consumers
    <2>2. /\ place \in [Messages -> {"unsent", "dropped", "queue", "unacked", "acked"}]
          /\ released \subseteq Messages
      BY DEF RabbitInv, R!RabbitTypeOK
    <2>3. R!RabbitTypeOK'
      BY <2>1, <2>2 DEF RabbitInv, R!RabbitTypeOK, HandlersTyped
    <2>4. \A n \in Messages : n # m => place'[n] = place[n]
      BY <2>1, <2>2
    <2>5. place'[m] = IF place[m] = "unacked" THEN p ELSE place[m]
      BY <2>1, <2>2
    <2>6. R!AckedWasHandled'
      <3> SUFFICES ASSUME NEW n \in Messages, place'[n] = "acked"
                   PROVE  n \in handled' \cup released'
        BY DEF R!AckedWasHandled
      <3>1. place[n] = "acked" => n \in handled \cup released
        BY DEF RabbitInv, R!AckedWasHandled
      <3> QED BY <3>1, <2>4, <2>5
    <2>7. \A n \in released' : place'[n] = "acked"
      BY <2>2, <2>4, <2>5 DEF RabbitInv
    <2> QED BY <2>1, <2>3, <2>6, <2>7 DEF RabbitInv
  <1> QED BY <1>1, <1>2

\* The calls each operation makes become fewer, one by one.
LEMMA RabbitDone ==
  ASSUME RabbitInv, NEW c \in Calls, todo[c] # <<>>, R!Done(c)
  PROVE  /\ todo' \in [Calls -> Seq(CallsToBroker)]
         /\ \A d \in Calls : Len(todo'[d]) <= 2
  <1>1. /\ todo \in [Calls -> Seq(CallsToBroker)] /\ todo' = [todo EXCEPT ![c] = Tail(todo[c])]
        /\ \A d \in Calls : Len(todo[d]) <= 2
    BY DEF RabbitInv, R!RabbitTypeOK, R!Done
  <1>2. todo[c] \in Seq(CallsToBroker) /\ Len(todo[c]) \in Nat
    BY <1>1
  <1>3. Tail(todo[c]) \in Seq(CallsToBroker) /\ Len(Tail(todo[c])) = Len(todo[c]) - 1
    BY <1>2, HeadTailProperties
  <1>4. Len(Tail(todo[c])) <= 2
    BY <1>1, <1>2, <1>3
  <1> QED BY <1>1, <1>3, <1>4

\* What the calls leave to the deliveries.
Delivered == <<holder, handler, stale, handled, released, mishaps>>

LEMMA RabbitCalls ==
  ASSUME RabbitInv, NEW c \in Calls,
         \/ R!Begin(c) \/ R!AssertExchange(c)
         \/ R!BindQueue(c) \/ R!Publish(c) \/ R!Consume(c)
  PROVE  RabbitInv'
  <1>1. CASE R!Begin(c)
    <2>1. PICK o \in DOMAIN R!Operations : todo' = [todo EXCEPT ![c] = R!Operations[o]]
      BY <1>1 DEF R!Begin
    <2>2. UNCHANGED <<channel, exchange, bound, consuming, noAck, place, Delivered>>
      BY <1>1 DEF R!Begin, R!topology, R!delivery, R!handling, Delivered
    <2> QED
      BY <2>1, <2>2, OperationsAreShort DEF RabbitInv, R!RabbitTypeOK, R!AckedWasHandled, Delivered
  <1>3. CASE R!AssertExchange(c)
    <2>1. CASE exchange \in {"none", "direct"}
      <3>1. /\ UNCHANGED <<channel, bound, consuming, noAck, place, Delivered>>
            /\ exchange' = "direct"
        BY <1>3, <2>1 DEF R!AssertExchange, R!handling, Delivered
      <3>2. todo[c] # <<>> /\ R!Done(c)
        BY <1>3, <2>1 DEF R!AssertExchange, R!Does
      <3> QED
        BY <3>1, <3>2, RabbitDone DEF RabbitInv, R!RabbitTypeOK, R!AckedWasHandled, Delivered
    <2>2. CASE exchange \notin {"none", "direct"}
      <3>1. /\ channel' = "closed" /\ R!Requeue
            /\ UNCHANGED <<exchange, bound, handler, stale, handled, released, mishaps>>
        BY <1>3, <2>2 DEF R!AssertExchange, R!CloseChannel, R!topology, R!handling
      <3>2. HandlersTyped'
        BY <3>1, HandlersAreTyped DEF HandlersTyped
      <3> QED BY <3>1, <3>2, RabbitRequeues
    <2> QED BY <2>1, <2>2
  <1>4. CASE R!BindQueue(c)
    <2>1. /\ UNCHANGED <<channel, exchange, consuming, noAck, place, Delivered>>
          /\ bound' = TRUE
      BY <1>4 DEF R!BindQueue, R!delivery, R!handling, Delivered
    <2>2. todo[c] # <<>> /\ R!Done(c)
      BY <1>4 DEF R!BindQueue, R!Does
    <2> QED
      BY <2>1, <2>2, RabbitDone DEF RabbitInv, R!RabbitTypeOK, R!AckedWasHandled, Delivered
  <1>5. CASE R!Publish(c)
    <2>1. PICK m \in Messages, p \in {"queue", "dropped"} :
            place[m] = "unsent" /\ place' = [place EXCEPT ![m] = p]
      BY <1>5 DEF R!Publish
    <2>2. UNCHANGED <<channel, exchange, bound, consuming, noAck, Delivered>>
      BY <1>5 DEF R!Publish, R!topology, R!handling, Delivered
    <2>3. todo[c] # <<>> /\ R!Done(c)
      BY <1>5 DEF R!Publish, R!Does
    <2> QED
      BY <2>1, <2>2, <2>3, RabbitDone
      DEF RabbitInv, R!RabbitTypeOK, R!AckedWasHandled, Delivered
  <1>6. CASE R!Consume(c)
    <2>1. /\ UNCHANGED <<channel, exchange, bound, place, Delivered>>
          /\ consuming' = consuming \cup {c} /\ noAck' \in {noAck, noAck \cup {c}}
      BY <1>6 DEF R!Consume, R!topology, R!delivery, R!handling, Delivered
    <2>2. todo[c] # <<>> /\ R!Done(c)
      BY <1>6 DEF R!Consume, R!Does
    <2> QED
      BY <2>1, <2>2, RabbitDone DEF RabbitInv, R!RabbitTypeOK, R!AckedWasHandled, Delivered
  <1> QED BY <1>1, <1>3, <1>4, <1>5, <1>6

\* A delivery acknowledges only for a consumer that asked for noAck.
LEMMA RabbitDelivers ==
  ASSUME RabbitInv, NEW m \in Messages, NEW c \in Calls, R!Deliver(c, m)
  PROVE  RabbitInv'
  <1>1. /\ handler' = [handler EXCEPT ![m] = "running"]
        /\ UNCHANGED <<channel, exchange, bound, todo, consuming, noAck, handled, mishaps>>
        /\ place[m] = "queue"
    BY DEF R!Deliver, R!topology, R!consumers
  <1>2. /\ stale \in [Messages -> Nat] /\ stale' \in [Messages -> Nat]
        /\ m \notin released /\ released \subseteq Messages
    <2>1. stale \in [Messages -> Nat] /\ m \notin released /\ released \subseteq Messages
      BY <1>1 DEF RabbitInv, R!RabbitTypeOK
    <2>2. stale' = stale \/ stale' = [stale EXCEPT ![m] = stale[m] + 1]
      BY DEF R!Deliver
    <2> QED BY <2>1, <2>2
  <1>3. CASE c \in noAck
    <2>1. /\ place' = [place EXCEPT ![m] = "acked"] /\ holder' = [holder EXCEPT ![m] = Nobody]
          /\ released' = released \cup {m}
      BY <1>3 DEF R!Deliver, R!Kept
    <2> QED BY <1>1, <1>2, <2>1 DEF RabbitInv, R!RabbitTypeOK, R!AckedWasHandled
  <1>4. CASE c \notin noAck
    <2>1. /\ place' = [place EXCEPT ![m] = "unacked"] /\ holder' = [holder EXCEPT ![m] = c]
          /\ released' = released
      BY <1>4 DEF R!Deliver, R!Kept
    <2> QED BY <1>1, <1>2, <2>1 DEF RabbitInv, R!RabbitTypeOK, R!AckedWasHandled
  <1> QED BY <1>3, <1>4

\* A step that neither answers nor closes the channel.
LEMMA RabbitRests ==
  ASSUME RabbitInv, R!NoAnswer, handled \subseteq handled', released' = released,
         exchange' = exchange, bound' = bound, HandlersTyped'
  PROVE  RabbitInv'
  BY DEF RabbitInv, R!RabbitTypeOK, R!AckedWasHandled, R!NoAnswer, R!consumers, HandlersTyped

LEMMA RabbitHandles ==
  ASSUME RabbitInv, NEW m \in Messages, R!HandlerEnds(m) \/ R!StaleHandlerEnds(m)
  PROVE  RabbitInv'
  <1>1. /\ UNCHANGED <<exchange, bound, released, mishaps>>
        /\ handled' = IF m \in PoisonMessages THEN handled ELSE handled \cup {m}
    BY DEF R!HandlerEnds, R!StaleHandlerEnds, R!topology
  <1>2. handled \subseteq handled' /\ (m \notin PoisonMessages => m \in handled')
    BY <1>1
  <1>3. HandlersTyped'
    <2>1. \/ stale' = stale
          \/ stale[m] > 0 /\ stale' = [stale EXCEPT ![m] = stale[m] - 1]
      BY DEF R!HandlerEnds, R!StaleHandlerEnds
    <2>2. stale' \in [Messages -> Nat]
      BY <2>1, HandlersAreTyped DEF HandlersTyped
    <2>3. handler' \in [Messages -> {"none", "running", "threw", "returned"}]
      BY HandlersAreTyped DEF HandlersTyped, R!HandlerEnds, R!StaleHandlerEnds
    <2> QED BY <1>1, <2>2, <2>3, HandlersAreTyped DEF HandlersTyped
  <1>4. CASE R!HandlerEnds(m)
    <2>1. CASE m \in PoisonMessages
      BY <1>1, <1>2, <1>3, <1>4, <2>1, RabbitRests DEF R!HandlerEnds
    <2>2. CASE m \notin PoisonMessages
      <3>1. R!Answer(m, "acked")
        BY <1>4, <2>2 DEF R!HandlerEnds
      <3> QED BY <1>1, <1>2, <1>3, <2>2, <3>1, RabbitAnswers
    <2> QED BY <2>1, <2>2
  <1>5. CASE R!StaleHandlerEnds(m)
    <2>1. R!CloseChannel \/ R!NoAnswer
      BY <1>5 DEF R!StaleHandlerEnds
    <2>2. CASE R!CloseChannel
      BY <1>1, <1>2, <1>3, <2>2, RabbitRequeues DEF R!CloseChannel
    <2> QED BY <1>1, <1>2, <1>3, <2>1, <2>2, RabbitRests
  <1> QED BY <1>4, <1>5

LEMMA RabbitAnsweredByHand ==
  ASSUME RabbitInv, NEW m \in Messages, R!Ack(m) \/ R!Nack(m)
  PROVE  RabbitInv'
  <1>1. /\ UNCHANGED <<exchange, bound, handler, stale, handled>>
        /\ mishaps < MaxMishaps /\ mishaps' = mishaps + 1
    BY DEF R!Ack, R!Nack, R!ByHand, R!topology, R!handling
  <1>2. HandlersTyped'
    BY <1>1, HandlersAreTyped, RabbitAssumed DEF HandlersTyped
  <1>3. CASE R!Ack(m)
    BY <1>1, <1>2, <1>3, RabbitAnswers DEF R!Ack, R!ByHand
  <1>4. CASE R!Nack(m)
    BY <1>1, <1>2, <1>4, RabbitAnswers DEF R!Nack, R!ByHand
  <1> QED BY <1>3, <1>4

LEMMA RabbitFails ==
  ASSUME RabbitInv, R!LoseChannel \/ R!RestartService
  PROVE  RabbitInv'
  <1>1. mishaps < MaxMishaps /\ mishaps' = mishaps + 1
    BY DEF R!LoseChannel, R!RestartService
  <1>2. /\ R!Requeue /\ UNCHANGED <<exchange, bound, handled, released>>
        /\ channel' \in {"open", "closed"}
    BY DEF R!LoseChannel, R!RestartService, R!CloseChannel, R!topology, R!handling
  <1>3. /\ handler' \in [Messages -> {"none", "running", "threw", "returned"}]
        /\ stale' \in [Messages -> Nat]
    BY HandlersAreTyped DEF R!LoseChannel, R!RestartService, R!handling, HandlersTyped
  <1>4. HandlersTyped'
    BY <1>1, <1>2, <1>3, HandlersAreTyped, RabbitAssumed DEF HandlersTyped
  <1> QED BY <1>2, <1>4, RabbitRequeues

LEMMA RabbitStep == RabbitInv /\ [R!RabbitNext]_rabbitmq => RabbitInv'
  <1> SUFFICES ASSUME RabbitInv, [R!RabbitNext]_rabbitmq PROVE RabbitInv'
    OBVIOUS
  <1>1. CASE UNCHANGED rabbitmq
    BY <1>1 DEF rabbitmq, RabbitInv, R!RabbitTypeOK, R!AckedWasHandled
  <1> QED
    BY <1>1, RabbitCalls, RabbitDelivers, RabbitHandles, RabbitAnsweredByHand, RabbitFails
    DEF R!RabbitNext

LEMMA RabbitAlways == Spec => []RabbitInv
  <1>1. Init => RabbitInv
    BY RabbitInitially DEF Init
  <1>2. RabbitInv /\ [Next]_vars => RabbitInv'
    BY Steps, RabbitStep
  <1> QED BY <1>1, <1>2, PTL DEF Spec

\* What OthersGetThrough rests on: a place in a consumer's window is taken by a
\* message whose handler still runs, or by one whose handler always throws; and
\* the consumer is served.
WindowsMoveOn ==
  \A m \in Messages :
    place[m] = "unacked" =>
      holder[m] \in consuming /\ (handler[m] = "running" \/ m \in PoisonMessages)

\* A message that has come to the queue leaves it for good only when its
\* handler returns, or when ack or noAck releases it: every other step keeps it
\* or gives it back.
InTheQueue == {"queue", "unacked"}

LeavesWhenHandled ==
  [][\A m \in Messages :
       place[m] \in InTheQueue =>
         \/ place'[m] \in InTheQueue
         \/ place'[m] = "acked" /\ handler[m] = "running" /\ m \in handled'
         \/ place'[m] = "acked" /\ m \in released' \ released]_rabbitmq

LEMMA WindowsStep ==
  ASSUME RabbitInv, WindowsMoveOn, [R!RabbitNext]_rabbitmq
  PROVE  WindowsMoveOn'
  <1>0. /\ place \in [Messages -> {"unsent", "dropped", "queue", "unacked", "acked"}]
        /\ holder \in [Messages -> Calls \cup {Nobody}]
        /\ handler \in [Messages -> {"none", "running", "threw", "returned"}]
    BY DEF RabbitInv, R!RabbitTypeOK
  <1>1. ASSUME R!Requeue PROVE WindowsMoveOn'
    <2>1. \A m \in Messages : place'[m] # "unacked"
      BY <1>0, <1>1 DEF R!Requeue
    <2> QED BY <2>1 DEF WindowsMoveOn
  <1>2. ASSUME NEW c \in Calls, R!Begin(c) \/ R!BindQueue(c)
        PROVE  WindowsMoveOn'
    <2>1. UNCHANGED <<consuming, place, holder, handler>>
      BY <1>2 DEF R!Begin, R!BindQueue, R!delivery, R!handling
    <2> QED BY <2>1 DEF WindowsMoveOn
  <1>3. ASSUME NEW c \in Calls, R!AssertExchange(c) PROVE WindowsMoveOn'
    <2>1. R!Requeue \/ UNCHANGED <<consuming, place, holder, handler>>
      BY <1>3 DEF R!AssertExchange, R!CloseChannel, R!handling
    <2> QED BY <1>1, <2>1 DEF WindowsMoveOn
  <1>4. ASSUME NEW c \in Calls, R!Publish(c) PROVE WindowsMoveOn'
    <2>1. PICK m \in Messages, p \in {"queue", "dropped"} : place' = [place EXCEPT ![m] = p]
      BY <1>4 DEF R!Publish
    <2>2. UNCHANGED <<consuming, holder, handler>>
      BY <1>4 DEF R!Publish, R!handling
    <2> QED BY <1>0, <2>1, <2>2 DEF WindowsMoveOn
  <1>5. ASSUME NEW c \in Calls, R!Consume(c) PROVE WindowsMoveOn'
    <2>1. consuming' = consuming \cup {c} /\ UNCHANGED <<place, holder, handler>>
      BY <1>5 DEF R!Consume, R!delivery, R!handling
    <2> QED BY <2>1 DEF WindowsMoveOn
  <1>6. ASSUME NEW m \in Messages, NEW c \in Calls, R!Deliver(c, m) PROVE WindowsMoveOn'
    <2>1. /\ c \in consuming /\ consuming' = consuming
          /\ handler' = [handler EXCEPT ![m] = "running"]
          /\ \/ /\ place' = [place EXCEPT ![m] = "unacked"]
                /\ holder' = [holder EXCEPT ![m] = c]
             \/ /\ place' = [place EXCEPT ![m] = "acked"]
                /\ holder' = [holder EXCEPT ![m] = Nobody]
      BY <1>6 DEF R!Deliver, R!Kept, R!consumers
    <2> QED BY <1>0, <2>1 DEF WindowsMoveOn
  <1>7. ASSUME NEW m \in Messages, NEW p \in {"queue", "acked"}, R!Answer(m, p),
               \A n \in Messages : n # m => handler'[n] = handler[n]
        PROVE  WindowsMoveOn'
    <2>1. CASE R!Requeue
      BY <1>1, <2>1
    <2>2. CASE ~R!Requeue
      <3>1. /\ place' = [place EXCEPT ![m] = IF place[m] = "unacked" THEN p ELSE place[m]]
            /\ holder' = [holder EXCEPT ![m] = Nobody] /\ consuming' = consuming
        BY <1>7, <2>2 DEF R!Answer, R!CloseChannel, R!consumers
      <3>2. place'[m] # "unacked"
        BY <1>0, <3>1
      <3>3. \A n \in Messages : n # m => place'[n] = place[n] /\ holder'[n] = holder[n]
        BY <1>0, <3>1
      <3> QED BY <1>7, <3>1, <3>2, <3>3 DEF WindowsMoveOn
    <2> QED BY <2>1, <2>2
  <1>8. ASSUME NEW m \in Messages, R!HandlerEnds(m) PROVE WindowsMoveOn'
    <2>1. \A n \in Messages : n # m => handler'[n] = handler[n]
      BY <1>0, <1>8 DEF R!HandlerEnds
    <2>2. CASE m \in PoisonMessages
      BY <1>8, <2>1, <2>2 DEF R!HandlerEnds, R!NoAnswer, R!consumers, WindowsMoveOn
    <2>3. CASE m \notin PoisonMessages
      BY <1>7, <1>8, <2>1, <2>3 DEF R!HandlerEnds
    <2> QED BY <2>2, <2>3
  <1>9. ASSUME NEW m \in Messages, R!StaleHandlerEnds(m) PROVE WindowsMoveOn'
    <2>1. R!Requeue \/ UNCHANGED <<consuming, place, holder, handler>>
      BY <1>9 DEF R!StaleHandlerEnds, R!CloseChannel, R!NoAnswer, R!consumers
    <2> QED BY <1>1, <2>1 DEF WindowsMoveOn
  <1>10. ASSUME NEW m \in Messages, R!Ack(m) \/ R!Nack(m) PROVE WindowsMoveOn'
    BY <1>7, <1>10 DEF R!Ack, R!Nack, R!ByHand, R!handling
  <1>11. CASE R!LoseChannel \/ R!RestartService
    BY <1>1, <1>11 DEF R!LoseChannel, R!RestartService, R!CloseChannel
  <1>12. CASE UNCHANGED rabbitmq
    BY <1>12 DEF rabbitmq, WindowsMoveOn
  <1> QED
    BY <1>2, <1>3, <1>4, <1>5, <1>6, <1>8, <1>9, <1>10, <1>11, <1>12 DEF R!RabbitNext

\* Closed channels, restarts, rejected declarations and answers by hand leave no
\* message behind in a window that nobody serves, and a handler that returns
\* makes its place free.
THEOREM WindowsKeepMoving == Spec => []WindowsMoveOn
  <1>1. Init => WindowsMoveOn
    BY DEF Init, R!RabbitInit, WindowsMoveOn
  <1>2. RabbitInv /\ WindowsMoveOn /\ [Next]_vars => WindowsMoveOn'
    BY Steps, WindowsStep
  <1> QED BY <1>1, <1>2, RabbitAlways, PTL DEF Spec

LEMMA LeavesStep ==
  ASSUME RabbitInv, R!RabbitNext, NEW m \in Messages, place[m] \in InTheQueue
  PROVE  \/ place'[m] \in InTheQueue
         \/ place'[m] = "acked" /\ handler[m] = "running" /\ m \in handled'
         \/ place'[m] = "acked" /\ m \in released' \ released
  <1>0. /\ place \in [Messages -> {"unsent", "dropped", "queue", "unacked", "acked"}]
        /\ m \notin released
    BY DEF RabbitInv, R!RabbitTypeOK, InTheQueue
  <1>1. CASE UNCHANGED place
    BY <1>1
  <1>2. CASE R!Requeue
    BY <1>0, <1>2 DEF R!Requeue, InTheQueue
  <1>3. ASSUME NEW c \in Calls, R!Publish(c) PROVE place'[m] = place[m]
    <2>1. PICK n \in Messages, p \in {"queue", "dropped"} :
            place[n] = "unsent" /\ place' = [place EXCEPT ![n] = p]
      BY <1>3 DEF R!Publish
    <2> QED BY <1>0, <2>1 DEF InTheQueue
  <1>4. ASSUME NEW n \in Messages, NEW c \in Calls, R!Deliver(c, n)
        PROVE  \/ place'[m] \in InTheQueue
               \/ place'[m] = "acked" /\ m \in released'
    <2>1. CASE m # n
      BY <1>0, <1>4, <2>1 DEF R!Deliver
    <2>2. CASE m = n
      BY <1>0, <1>4, <2>2 DEF R!Deliver, R!Kept, InTheQueue
    <2> QED BY <2>1, <2>2
  <1>5. ASSUME NEW n \in Messages, NEW p \in {"queue", "acked"}, R!Answer(n, p)
        PROVE  \/ place'[m] \in InTheQueue
               \/ place'[m] = "acked" /\ place[m] = "unacked" /\ m = n /\ p = "acked"
    <2>1. CASE R!Requeue
      BY <1>0, <2>1 DEF R!Requeue, InTheQueue
    <2>2. CASE ~R!Requeue
      <3>1. place' = [place EXCEPT ![n] = IF place[n] = "unacked" THEN p ELSE place[n]]
        BY <1>5, <2>2 DEF R!Answer, R!CloseChannel
      <3> QED BY <1>0, <3>1 DEF InTheQueue
    <2> QED BY <2>1, <2>2
  <1>6. ASSUME NEW n \in Messages, R!HandlerEnds(n)
        PROVE  \/ place'[m] \in InTheQueue
               \/ place'[m] = "acked" /\ handler[m] = "running" /\ m \in handled'
    <2>1. CASE n \in PoisonMessages
      BY <1>6, <2>1 DEF R!HandlerEnds, R!NoAnswer
    <2>2. CASE n \notin PoisonMessages
      <3>1. handler[n] = "running" /\ n \in handled' /\ R!Answer(n, "acked")
        BY <1>6, <2>2 DEF R!HandlerEnds
      <3> QED BY <1>5, <3>1
    <2> QED BY <2>1, <2>2
  <1>7. ASSUME NEW n \in Messages, R!Ack(n) \/ R!Nack(n)
        PROVE  \/ place'[m] \in InTheQueue
               \/ place'[m] = "acked" /\ m \in released'
    <2>1. CASE R!Ack(n)
      <3>1. /\ R!Answer(n, "acked")
            /\ released' = IF place[n] = "unacked" THEN released \cup {n} ELSE released
        BY <2>1 DEF R!Ack, R!ByHand
      <3> QED BY <1>5, <3>1
    <2>2. CASE R!Nack(n)
      <3>1. R!Answer(n, "queue")
        BY <2>2 DEF R!Nack, R!ByHand
      <3> QED BY <1>5, <3>1
    <2> QED BY <1>7, <2>1, <2>2
  <1>8. ASSUME NEW c \in Calls,
               R!Begin(c) \/ R!AssertExchange(c) \/ R!BindQueue(c) \/ R!Consume(c)
        PROVE  UNCHANGED place \/ R!Requeue
    BY <1>8 DEF R!Begin, R!AssertExchange, R!CloseChannel, R!BindQueue, R!Consume, R!delivery
  <1>9. ASSUME NEW n \in Messages, R!StaleHandlerEnds(n) PROVE UNCHANGED place \/ R!Requeue
    BY <1>9 DEF R!StaleHandlerEnds, R!CloseChannel, R!NoAnswer
  <1>10. R!LoseChannel \/ R!RestartService => R!Requeue
    BY DEF R!LoseChannel, R!RestartService, R!CloseChannel
  <1> QED
    BY <1>0, <1>1, <1>2, <1>3, <1>4, <1>6, <1>7, <1>8, <1>9, <1>10 DEF R!RabbitNext

\* Whatever fails, the queue gives a message up only to a handler that ran and
\* returned, or to one that took it on itself: by noAck among the options of
\* its consume, or by calling ack.
THEOREM AtLeastOnce == Spec => LeavesWhenHandled
  <1>1. RabbitInv /\ [Next]_vars
        => [\A m \in Messages :
              place[m] \in InTheQueue =>
                \/ place'[m] \in InTheQueue
                \/ place'[m] = "acked" /\ handler[m] = "running" /\ m \in handled'
                \/ place'[m] = "acked" /\ m \in released' \ released]_rabbitmq
    BY Steps, LeavesStep
  <1> QED BY <1>1, RabbitAlways, PTL DEF Spec, LeavesWhenHandled

-----------------------------------------------------------------------------
(* NATS.                                                                   *)

Rising(q) == \A i, j \in DOMAIN q : i < j => q[i] < q[j]

\* Of messages 1 .. n a callback was called with those of c, and those of b are
\* still to come, all in the order published.
Line(c, b, n) ==
  /\ c \in Seq(1..n) /\ b \in Seq(1..n)
  /\ Rising(c) /\ Rising(b)
  /\ \A i \in DOMAIN c, j \in DOMAIN b : c[i] < b[j]

LEMMA LineGrows ==
  ASSUME NEW n \in Nat, NEW c, NEW b, Line(c, b, n)
  PROVE  Line(c, b, n + 1)
  <1>1. c \in Seq(1..(n + 1)) /\ b \in Seq(1..(n + 1))
    <2>1. 1..n \subseteq 1..(n + 1)
      OBVIOUS
    <2> QED BY <2>1, SeqMonotonic DEF Line
  <1> QED BY <1>1 DEF Line

LEMMA LineAppended ==
  ASSUME NEW n \in Nat, NEW c, NEW b, Line(c, b, n)
  PROVE  Line(c, Append(b, n + 1), n + 1)
  <1>1. PICK a : a = Append(b, n + 1)
    OBVIOUS
  <1>2. /\ c \in Seq(1..(n + 1)) /\ b \in Seq(1..(n + 1))
        /\ c \in Seq(1..n) /\ b \in Seq(1..n)
    BY LineGrows DEF Line
  <1>3. a \in Seq(1..(n + 1)) /\ Len(a) = Len(b) + 1 /\ a[Len(b) + 1] = n + 1
    BY <1>1, <1>2
  <1>4. \A i \in 1..Len(b) : a[i] = b[i] /\ b[i] \in 1..n
    BY <1>1, <1>2
  <1>5. DOMAIN a = 1..(Len(b) + 1) /\ DOMAIN b = 1..Len(b) /\ Len(b) \in Nat
    BY <1>2, <1>3
  <1>6. Rising(a)
    <2> SUFFICES ASSUME NEW i \in 1..(Len(b) + 1), NEW j \in 1..(Len(b) + 1), i < j
                 PROVE  a[i] < a[j]
      BY <1>5 DEF Rising
    <2>1. i \in 1..Len(b) /\ a[i] = b[i] /\ b[i] \in 1..n
      BY <1>4, <1>5
    <2>2. CASE j = Len(b) + 1
      BY <1>3, <2>1, <2>2
    <2>3. CASE j \in 1..Len(b)
      BY <1>4, <1>5, <2>1, <2>3 DEF Rising, Line
    <2> QED BY <1>5, <2>2, <2>3
  <1>7. \A i \in DOMAIN c : c[i] \in 1..n
    BY <1>2
  <1>8. \A i \in DOMAIN c, j \in DOMAIN a : c[i] < a[j]
    <2> TAKE i \in DOMAIN c, j \in DOMAIN a
    <2>1. c[i] \in 1..n
      BY <1>7
    <2>2. CASE j = Len(b) + 1
      BY <1>3, <2>1, <2>2
    <2>3. CASE j \in 1..Len(b)
      BY <1>4, <1>5, <2>3 DEF Line
    <2> QED BY <1>5, <2>2, <2>3
  <1> QED BY <1>1, <1>2, <1>3, <1>6, <1>8 DEF Line

LEMMA LineTaken ==
  ASSUME NEW n \in Nat, NEW c, NEW b, Line(c, b, n), b # <<>>
  PROVE  Line(Append(c, Head(b)), Tail(b), n)
  <1>1. PICK a, t : a = Append(c, Head(b)) /\ t = Tail(b)
    OBVIOUS
  <1>2. c \in Seq(1..n) /\ b \in Seq(1..n) /\ Len(b) \in Nat /\ Len(b) > 0
    BY DEF Line
  <1>3. /\ a \in Seq(1..n) /\ t \in Seq(1..n) /\ Head(b) = b[1] /\ b[1] \in 1..n
        /\ Len(a) = Len(c) + 1 /\ Len(t) = Len(b) - 1 /\ a[Len(c) + 1] = b[1]
    BY <1>1, <1>2
  <1>4. \A i \in 1..Len(c) : a[i] = c[i] /\ c[i] \in 1..n /\ c[i] < b[1]
    BY <1>1, <1>2 DEF Line
  <1>5. \A j \in 1..(Len(b) - 1) : t[j] = b[j + 1] /\ j + 1 \in 1..Len(b) /\ b[j + 1] \in 1..n
    BY <1>1, <1>2
  <1>6. /\ DOMAIN a = 1..(Len(c) + 1) /\ DOMAIN t = 1..(Len(b) - 1)
        /\ DOMAIN c = 1..Len(c) /\ DOMAIN b = 1..Len(b) /\ Len(c) \in Nat
    BY <1>2, <1>3
  <1>7. Rising(a)
    <2> SUFFICES ASSUME NEW i \in 1..(Len(c) + 1), NEW j \in 1..(Len(c) + 1), i < j
                 PROVE  a[i] < a[j]
      BY <1>6 DEF Rising
    <2>1. i \in 1..Len(c) /\ a[i] = c[i] /\ c[i] < b[1]
      BY <1>4, <1>6
    <2>2. CASE j = Len(c) + 1
      BY <1>3, <2>1, <2>2
    <2>3. CASE j \in 1..Len(c)
      BY <1>4, <1>6, <2>1, <2>3 DEF Rising, Line
    <2> QED BY <1>6, <2>2, <2>3
  <1>8. Rising(t)
    <2> SUFFICES ASSUME NEW i \in 1..(Len(b) - 1), NEW j \in 1..(Len(b) - 1), i < j
                 PROVE  t[i] < t[j]
      BY <1>6 DEF Rising
    <2>1. t[i] = b[i + 1] /\ t[j] = b[j + 1] /\ i + 1 \in DOMAIN b /\ j + 1 \in DOMAIN b
      BY <1>5, <1>6
    <2>2. i + 1 < j + 1
      OBVIOUS
    <2> QED BY <2>1, <2>2 DEF Rising, Line
  <1>9. \A i \in DOMAIN a, j \in DOMAIN t : a[i] < t[j]
    <2> TAKE i \in DOMAIN a, j \in DOMAIN t
    <2>1. t[j] = b[j + 1] /\ j + 1 \in 1..Len(b) /\ b[1] < b[j + 1]
      <3>1. j \in 1..(Len(b) - 1)
        BY <1>6
      <3>2. t[j] = b[j + 1] /\ j + 1 \in DOMAIN b /\ 1 \in DOMAIN b /\ 1 < j + 1
        BY <1>2, <1>5, <1>6, <3>1
      <3> QED BY <1>6, <3>2 DEF Rising, Line
    <2>2. CASE i = Len(c) + 1
      BY <1>3, <2>1, <2>2
    <2>3. CASE i \in 1..Len(c)
      BY <1>4, <1>6, <2>1, <2>3 DEF Line
    <2> QED BY <1>6, <2>2, <2>3
  <1> QED BY <1>1, <1>3, <1>7, <1>8, <1>9 DEF Line

LEMMA LineCut ==
  ASSUME NEW n \in Nat, NEW c, NEW b, Line(c, b, n), NEW k \in Nat, k < Len(b)
  PROVE  Line(c, SubSeq(b, 1, k), n)
  <1>1. PICK a : a = SubSeq(b, 1, k)
    OBVIOUS
  <1>2. b \in Seq(1..n) /\ DOMAIN b = 1..Len(b) /\ Len(b) \in Nat
    BY DEF Line
  <1>3. a \in Seq(1..n) /\ Len(a) = k /\ DOMAIN a = 1..k
    BY <1>1, <1>2, SubSeqProperties
  <1>4. \A i \in 1..k : a[i] = b[i] /\ i \in 1..Len(b)
    BY <1>1, <1>2, SubSeqProperties
  <1> QED BY <1>1, <1>2, <1>3, <1>4 DEF Line, Rising

\* Each stored subscription is one of its subject, and the map is what the
\* server knows.
Filed ==
  /\ \A u \in Subjects : \A s \in subscriptions[u] : subject[s] = u
  /\ connected => \A s : s \in live <=> \E u \in Subjects : s \in subscriptions[u]

InLine == \A s \in Subs : Line(calledWith[s], buffer[s], sent)

\* The loop takes the next message only when no callback runs.
OneRuns == \A s \in Subs : running[s] = {} \/ \E m \in 1..sent : running[s] = {m}

NatsInv ==
  /\ N!NatsTypeOK
  /\ running \in [Subs -> SUBSET Nat]
  /\ calledWith \in [Subs -> Seq(Nat)] /\ buffer \in [Subs -> Seq(Nat)]
  /\ Filed /\ InLine /\ OneRuns

LEMMA NatsAssumed == MaxSent \in Nat /\ NoQueue \notin Subjects
  BY InfrastructureAssumption DEF N!NatsAssumption

LEMMA NatsInitially == N!NatsInit => NatsInv
  <1> SUFFICES ASSUME N!NatsInit PROVE NatsInv
    OBVIOUS
  <1>1. Line(<<>>, <<>>, 0)
    BY DEF Line, Rising
  <1>2. N!NatsTypeOK
    BY NatsAssumed DEF N!NatsInit, N!NatsTypeOK
  <1>3. Filed
    BY DEF N!NatsInit, Filed
  <1>4. InLine /\ OneRuns
    BY <1>1 DEF N!NatsInit, InLine, OneRuns
  <1>5. calledWith \in [Subs -> Seq(Nat)] /\ buffer \in [Subs -> Seq(Nat)]
    BY DEF N!NatsInit
  <1> QED BY <1>2, <1>3, <1>4, <1>5 DEF N!NatsInit, NatsInv

\* What a line says of the types of its parts.
LEMMA LineTyped ==
  ASSUME NEW n \in Nat, NEW c, NEW b, Line(c, b, n)
  PROVE  /\ c \in Seq(Nat) /\ b \in Seq(Nat)
         /\ \A i \in DOMAIN b : b[i] \in 1..n
  <1>1. c \in Seq(1..n) /\ b \in Seq(1..n)
    BY DEF Line
  <1>2. 1..n \subseteq Nat
    OBVIOUS
  <1>3. c \in Seq(Nat) /\ b \in Seq(Nat)
    BY <1>1, <1>2, SeqMonotonic
  <1> QED BY <1>1, <1>3

\* The calls of NatsService: the buffers stay as they are, or are cut.
LEMMA NatsSubscribed ==
  ASSUME NatsInv, NEW s \in Subs, N!NatsSubscribe(s)
  PROVE  NatsInv'
  <1>1. PICK u \in Subjects :
          /\ subject[s] = NoQueue /\ subject' = [subject EXCEPT ![s] = u]
          /\ subscriptions' = [subscriptions EXCEPT ![u] = subscriptions[u] \cup {s}]
          /\ live' = live \cup {s} /\ connected
          /\ UNCHANGED <<connected, buffer, running, gone, sent, calledWith>>
    BY DEF N!NatsSubscribe, N!Pushed
  <1>2. /\ subject \in [Subs -> Subjects \cup {NoQueue}] /\ subscriptions \in [Subjects -> SUBSET Subs]
        /\ \A v \in Subjects : s \notin subscriptions[v]
    BY <1>1, NatsAssumed DEF NatsInv, N!NatsTypeOK, Filed
  <1>3. N!NatsTypeOK'
    BY <1>1, <1>2 DEF NatsInv, N!NatsTypeOK
  <1>4. Filed'
    <2>1. \A v \in Subjects : \A r \in subscriptions'[v] : subject'[r] = v
      BY <1>1, <1>2 DEF NatsInv, Filed
    <2>2. \A r : r \in live' <=> \E v \in Subjects : r \in subscriptions'[v]
      BY <1>1, <1>2 DEF NatsInv, Filed
    <2> QED BY <2>1, <2>2 DEF Filed
  <1> QED BY <1>1, <1>3, <1>4 DEF NatsInv, InLine, OneRuns

LEMMA NatsUnsubscribed ==
  ASSUME NatsInv, NEW u \in Subjects, N!Unsubscribe(u)
  PROVE  NatsInv'
  <1>1. PICK kept \in [subscriptions[u] -> 0..MaxSent] :
          /\ live' = live \ subscriptions[u] /\ connected
          /\ subscriptions' = [subscriptions EXCEPT ![u] = {}]
          /\ buffer' = [s \in Subs |-> IF s \notin subscriptions[u] \/ kept[s] >= Len(buffer[s])
                                       THEN buffer[s] ELSE SubSeq(buffer[s], 1, kept[s])]
          /\ UNCHANGED <<connected, subject, running, gone, sent, calledWith>>
    BY DEF N!Unsubscribe, N!AllOf
  <1>2. /\ sent \in Nat /\ subscriptions \in [Subjects -> SUBSET Subs]
        /\ buffer \in [Subs -> Seq(Nat)]
    BY NatsAssumed DEF NatsInv, N!NatsTypeOK
  <1>3. InLine'
    <2> SUFFICES ASSUME NEW s \in Subs PROVE Line(calledWith[s], buffer'[s], sent)
      BY <1>1 DEF InLine
    <2>1. Line(calledWith[s], buffer[s], sent)
      BY DEF NatsInv, InLine
    <2>2. CASE s \notin subscriptions[u] \/ kept[s] >= Len(buffer[s])
      BY <1>1, <2>1, <2>2
    <2>3. CASE s \in subscriptions[u] /\ ~(kept[s] >= Len(buffer[s]))
      <3>1. kept[s] \in Nat /\ kept[s] < Len(buffer[s])
        BY <1>1, <1>2, <2>3, NatsAssumed
      <3>2. Line(calledWith[s], SubSeq(buffer[s], 1, kept[s]), sent)
        BY <1>2, <2>1, <3>1, LineCut
      <3> QED BY <1>1, <2>3, <3>2
    <2> QED BY <2>2, <2>3
  <1>4. \A s \in Subs : /\ buffer'[s] \in Seq(Nat)
                        /\ \A i \in DOMAIN buffer'[s] : buffer'[s][i] \in 1..sent
    BY <1>1, <1>2, <1>3, LineTyped DEF InLine
  <1>5. buffer' \in [Subs -> Seq(Nat)]
    BY <1>1, <1>4
  <1>6. N!NatsTypeOK'
    BY <1>1, <1>2, <1>4 DEF NatsInv, N!NatsTypeOK
  <1>7. Filed'
    <2>1. \A v \in Subjects : \A r \in subscriptions'[v] : subject'[r] = v
      BY <1>1, <1>2 DEF NatsInv, Filed
    <2>2. \A r : r \in live' <=> \E v \in Subjects : r \in subscriptions'[v]
      BY <1>1, <1>2 DEF NatsInv, Filed
    <2> QED BY <2>1, <2>2 DEF Filed
  <1> QED BY <1>1, <1>3, <1>5, <1>6, <1>7 DEF NatsInv, OneRuns

\* The loop: what is next is after all that came before.
LEMMA NatsTaken ==
  ASSUME NatsInv, NEW s \in Subs, N!TakeNext(s)
  PROVE  NatsInv'
  <1>1. /\ connected /\ buffer[s] # <<>> /\ running[s] = {}
        /\ running' = [running EXCEPT ![s] = running[s] \cup {Head(buffer[s])}]
        /\ calledWith' = [calledWith EXCEPT ![s] = Append(calledWith[s], Head(buffer[s]))]
        /\ buffer' = [buffer EXCEPT ![s] = Tail(buffer[s])]
        /\ UNCHANGED <<connected, subscriptions, live, subject, gone, sent>>
    BY DEF N!TakeNext, N!Idle
  <1>2. /\ sent \in Nat /\ running \in [Subs -> SUBSET Nat]
        /\ calledWith \in [Subs -> Seq(Nat)] /\ buffer \in [Subs -> Seq(Nat)]
    BY NatsAssumed DEF NatsInv, N!NatsTypeOK
  <1>3. Line(calledWith[s], buffer[s], sent)
    BY DEF NatsInv, InLine
  <1>4. Line(Append(calledWith[s], Head(buffer[s])), Tail(buffer[s]), sent)
    BY <1>1, <1>2, <1>3, LineTaken
  <1>5. Head(buffer[s]) \in 1..sent
    <2>1. buffer[s] \in Seq(1..sent)
      BY <1>3 DEF Line
    <2> QED BY <1>1, <2>1, HeadTailProperties
  <1>6. InLine'
    BY <1>1, <1>2, <1>4 DEF NatsInv, InLine
  <1>7. \A r \in Subs : /\ calledWith'[r] \in Seq(Nat) /\ buffer'[r] \in Seq(Nat)
                        /\ \A i \in DOMAIN buffer'[r] : buffer'[r][i] \in 1..sent
    BY <1>1, <1>2, <1>6, LineTyped DEF InLine
  <1>8. calledWith' \in [Subs -> Seq(Nat)] /\ buffer' \in [Subs -> Seq(Nat)]
    BY <1>1, <1>2, <1>7
  <1>9. OneRuns' /\ running' \in [Subs -> SUBSET Nat]
    <2>1. running' = [running EXCEPT ![s] = {Head(buffer[s])}]
      BY <1>1
    <2>2. Head(buffer[s]) \in Nat
      BY <1>2, <1>5
    <2>3. \A r \in Subs : running'[r] = IF r = s THEN {Head(buffer[s])} ELSE running[r]
      BY <1>2, <2>1
    <2>4. OneRuns'
      BY <1>1, <1>5, <2>3 DEF NatsInv, OneRuns
    <2> QED BY <1>2, <2>1, <2>2, <2>4
  <1>10. N!NatsTypeOK'
    BY <1>1, <1>2, <1>5, <1>7 DEF NatsInv, N!NatsTypeOK
  <1> QED BY <1>1, <1>6, <1>8, <1>9, <1>10 DEF NatsInv, Filed

LEMMA NatsSettled ==
  ASSUME NatsInv, NEW s \in Subs, N!Settle(s)
  PROVE  NatsInv'
  <1>1. PICK m \in running[s] :
          /\ running' = [running EXCEPT ![s] = running[s] \ {m}] /\ gone' = gone
          /\ UNCHANGED <<connected, subscriptions, live, subject, buffer, sent, calledWith>>
    BY DEF N!Settle, N!LoopKept
  <1>2. running \in [Subs -> SUBSET Nat]
    BY DEF NatsInv
  <1>3. OneRuns' /\ running' \in [Subs -> SUBSET Nat]
    BY <1>1, <1>2 DEF NatsInv, OneRuns
  <1>4. N!NatsTypeOK'
    BY <1>1, <1>2 DEF NatsInv, N!NatsTypeOK
  <1> QED BY <1>1, <1>3, <1>4 DEF NatsInv, Filed, InLine

LEMMA NatsPublished ==
  ASSUME NatsInv, N!NatsPublish
  PROVE  NatsInv'
  <1>1. PICK r : /\ buffer' = [s \in Subs |-> IF s \in r THEN Append(buffer[s], sent') ELSE buffer[s]]
                 /\ sent' = sent + 1 /\ sent < MaxSent
                 /\ UNCHANGED <<connected, subscriptions, live, subject, running, gone, calledWith>>
    BY DEF N!NatsPublish
  <1>2. sent \in Nat /\ sent' \in 0..MaxSent /\ sent' \in Nat
    BY <1>1, NatsAssumed DEF NatsInv, N!NatsTypeOK
  <1>3. InLine'
    <2> SUFFICES ASSUME NEW s \in Subs PROVE Line(calledWith[s], buffer'[s], sent')
      BY <1>1 DEF InLine
    <2>1. Line(calledWith[s], buffer[s], sent)
      BY DEF NatsInv, InLine
    <2>2. /\ Line(calledWith[s], buffer[s], sent + 1)
          /\ Line(calledWith[s], Append(buffer[s], sent + 1), sent + 1)
      BY <1>2, <2>1, LineGrows, LineAppended
    <2> QED BY <1>1, <2>2
  <1>4. \A s \in Subs : /\ buffer'[s] \in Seq(Nat)
                        /\ \A i \in DOMAIN buffer'[s] : buffer'[s][i] \in 1..sent'
    BY <1>1, <1>2, <1>3, LineTyped DEF InLine
  <1>5. buffer' \in [Subs -> Seq(Nat)]
    BY <1>1, <1>4
  <1>6. \A s \in Subs : running'[s] \subseteq 1..sent'
    BY <1>1, <1>2 DEF NatsInv, N!NatsTypeOK
  <1>7. N!NatsTypeOK'
    BY <1>1, <1>2, <1>4, <1>6 DEF NatsInv, N!NatsTypeOK
  <1>8. OneRuns'
    <2>1. 1..sent \subseteq 1..sent'
      BY <1>1, <1>2
    <2> QED BY <1>1, <2>1 DEF NatsInv, OneRuns
  <1> QED BY <1>1, <1>3, <1>5, <1>7, <1>8 DEF NatsInv, Filed

LEMMA NatsStep == NatsInv /\ [N!NatsNext]_nats => NatsInv'
  <1> SUFFICES ASSUME NatsInv, [N!NatsNext]_nats PROVE NatsInv'
    OBVIOUS
  <1>1. CASE UNCHANGED nats
    BY <1>1 DEF nats, NatsInv, N!NatsTypeOK, Filed, InLine, OneRuns
  <1>2. CASE N!Destroy
    <2>1. connected' = FALSE /\ live' = {}
          /\ UNCHANGED <<subscriptions, subject, buffer, running, gone, sent, calledWith>>
      BY <1>2 DEF N!Destroy
    <2> QED BY <2>1 DEF NatsInv, N!NatsTypeOK, Filed, InLine, OneRuns
  <1> QED
    BY <1>1, <1>2, NatsSubscribed, NatsUnsubscribed, NatsTaken, NatsSettled, NatsPublished
      DEF N!NatsNext

LEMMA NatsAlways == Spec => []NatsInv
  <1>1. Init => NatsInv
    BY NatsInitially DEF Init
  <1>2. NatsInv /\ [Next]_vars => NatsInv'
    BY Steps, NatsStep
  <1> QED BY <1>1, <1>2, PTL DEF Spec

LEMMA NatsSizes == \A X : N!Cardinality(X) = Cardinality(X)
  BY DEF N!Cardinality, Cardinality

LEMMA NatsIsSafe == NatsInv => N!OneAtATime /\ N!MapIsLive
  <1> SUFFICES ASSUME NatsInv, NEW s \in Subs
               PROVE  /\ N!Cardinality(running[s]) <= 1
                      /\ \A i, j \in DOMAIN calledWith[s] : i < j => calledWith[s][i] < calledWith[s][j]
    BY DEF NatsInv, Filed, N!OneAtATime, N!MapIsLive
  <1>1. Cardinality(running[s]) <= 1
    <2>1. running[s] = {} \/ \E m : running[s] = {m}
      BY DEF NatsInv, OneRuns
    <2> QED BY <2>1, FS_EmptySet, FS_Singleton
  <1> QED BY <1>1, NatsSizes DEF NatsInv, InLine, Line, Rising

-----------------------------------------------------------------------------
(* Kong.                                                                   *)

Phases == {"down", "done", "failed", "check", "create", "update", "routes", "add", "patch"}

\* What an instance has seen of the gateway stays true: nothing is taken away.
Seen(i) ==
  /\ phase[i] \in {"update", "routes", "add", "patch", "done"} => service # None
  /\ phase[i] = "done" => route # None

\* Without faults: who has lost was beaten to the service or to the route, and
\* the one that beat it goes on or has succeeded.
Beaten ==
  faults = 0 /\ ~foreign =>
    /\ \A i \in Instances : /\ phase[i] = "patch" => route # None
                            /\ phase[i] = "failed" => service # None
    /\ service # None => \E i \in Instances : phase[i] \in {"routes", "add", "patch", "done"}
    /\ route # None => \E i \in Instances : phase[i] = "done"

\* Without overlaps only the last instance writes.
LastWrites ==
  ~overlap =>
    /\ \A i \in Instances : G!Registering(i) => i = last
    /\ last # None =>
         /\ phase[last] \in {"routes", "add", "patch", "done"} => service = Config[last]
         /\ phase[last] = "done" => route = Config[last]

KongInv ==
  /\ G!KongTypeOK
  /\ \A i \in Instances : Seen(i)
  /\ Beaten /\ LastWrites

LEMMA KongAssumed ==
  /\ \A i \in Instances : Config[i] # None /\ Config[i] \in G!Configs
  /\ Instances # {} /\ None \notin Instances /\ MaxFaults \in Nat
  BY InfrastructureAssumption DEF G!KongAssumption, G!Configs

LEMMA KongInitially == G!KongInit => KongInv
  <1> SUFFICES ASSUME G!KongInit PROVE KongInv
    OBVIOUS
  <1>1. G!KongTypeOK
    <2>1. foreign \in BOOLEAN /\ overlap \in BOOLEAN
      BY DEF G!KongInit
    <2>2. faults \in 0..MaxFaults
      BY KongAssumed DEF G!KongInit
    <2> QED BY <2>1, <2>2 DEF G!KongInit, G!KongTypeOK, G!Ended
  <1>2. \A i \in Instances : Seen(i)
    BY DEF G!KongInit, Seen
  <1>3. Beaten /\ LastWrites
    BY DEF G!KongInit, Beaten, LastWrites, G!Registering, G!Ended
  <1> QED BY <1>1, <1>2, <1>3 DEF KongInv

\* The calls of registerService, and what each does to the gateway.
LEMMA KongCalls ==
  ASSUME NEW i \in Instances, G!Register(i)
  PROVE  \/ G!Boot(i)
         \/ G!Interrupt(i)
         \/ \E p \in {"create", "update", "routes", "add", "patch", "done", "failed"} :
              G!Reply(i, p) /\ phase[i] \notin G!Ended
  BY DEF G!Register, G!CheckServiceExists, G!CreateService, G!UpdateService,
         G!GetServiceRoutes, G!AddRoute, G!PatchRoute, G!AfterCheck, G!AfterRoutes, G!In, G!Ended

LEMMA KongTyped ==
  ASSUME KongInv, [G!KongNext]_kong
  PROVE  G!KongTypeOK'
  <1>0. G!KongTypeOK
    BY DEF KongInv
  <1>1. CASE UNCHANGED kong
    BY <1>0, <1>1 DEF kong, G!KongTypeOK, G!Configs, G!Ended
  <1>2. CASE G!AddForeignRoute
    BY <1>0, <1>2 DEF G!AddForeignRoute, G!KongTypeOK, G!Configs, G!Ended
  <1>3. ASSUME NEW i \in Instances, G!Register(i) PROVE G!KongTypeOK'
    <2>1. service' \in G!Configs \cup {None} /\ route' \in G!Configs \cup {None}
      BY <1>0, <1>3, KongAssumed
        DEF G!Register, G!Boot, G!CheckServiceExists, G!CreateService, G!UpdateService,
            G!GetServiceRoutes, G!AddRoute, G!PatchRoute, G!Interrupt, G!Gateway, G!KongTypeOK
    <2>2. /\ faults' \in 0..MaxFaults /\ foreign' = foreign
          /\ phase' \in [Instances -> Phases]
      <3>1. CASE G!Boot(i)
        BY <1>0, <3>1 DEF G!Boot, G!Goto, G!Gateway, G!KongTypeOK, G!Ended, Phases
      <3>2. CASE G!Interrupt(i)
        BY <1>0, <3>2, KongAssumed
          DEF G!Interrupt, G!Fault, G!Goto, G!Gateway, G!KongTypeOK, G!Ended, Phases
      <3>3. ASSUME NEW p \in Phases, G!Reply(i, p)
            PROVE  faults' \in 0..MaxFaults /\ foreign' = foreign /\ phase' \in [Instances -> Phases]
        BY <1>0, <3>3, KongAssumed DEF G!Reply, G!Fault, G!Goto, G!KongTypeOK, G!Ended, Phases
      <3> QED BY <1>3, <3>1, <3>2, <3>3, KongCalls DEF Phases
    <2>3. last' \in Instances \cup {None} /\ overlap' \in BOOLEAN
      <3>1. CASE G!Boot(i)
        BY <1>0, <3>1 DEF G!Boot
      <3>2. CASE G!Interrupt(i)
        BY <1>0, <3>2 DEF G!Interrupt, G!KongTypeOK
      <3>3. ASSUME NEW p, G!Reply(i, p) PROVE last' \in Instances \cup {None} /\ overlap' \in BOOLEAN
        BY <1>0, <3>3 DEF G!Reply, G!KongTypeOK
      <3> QED BY <1>3, <3>1, <3>2, <3>3, KongCalls
    <2>4. G!Configs' = G!Configs
      BY DEF G!Configs
    <2> QED BY <1>0, <2>1, <2>2, <2>3, <2>4 DEF G!KongTypeOK, G!Ended, Phases
  <1> QED BY <1>1, <1>2, <1>3 DEF G!KongNext

LEMMA KongSeen ==
  ASSUME KongInv, NEW i \in Instances, G!Register(i)
  PROVE  /\ service # None => service' # None
         /\ route # None => route' # None
         /\ \A j \in Instances : Seen(j)'
  <1>0. /\ phase \in [Instances -> Phases] /\ \A j \in Instances : Seen(j)
        /\ Config[i] # None
    BY KongAssumed DEF KongInv, G!KongTypeOK, G!Ended, Phases
  <1>1. /\ service # None => service' # None
        /\ route # None => route' # None
    BY <1>0 DEF G!Register, G!Boot, G!CheckServiceExists, G!CreateService, G!UpdateService,
                G!GetServiceRoutes, G!AddRoute, G!PatchRoute, G!Interrupt, G!Gateway
  <1>2. \A j \in Instances : j # i => phase'[j] = phase[j]
    BY <1>0 DEF G!Register, G!Boot, G!CheckServiceExists, G!CreateService, G!UpdateService,
                G!GetServiceRoutes, G!AddRoute, G!PatchRoute, G!Interrupt, G!Reply, G!Goto
  <1>3. \A j \in Instances : j # i => Seen(j)'
    BY <1>0, <1>1, <1>2 DEF Seen
  <1>4. ASSUME NEW p, G!Reply(i, p) PROVE phase'[i] \in {p, "failed"}
    BY <1>0, <1>4 DEF G!Reply, G!Goto
  <1>5. Seen(i)'
    <2>1. CASE G!Boot(i)
      BY <1>0, <2>1 DEF G!Boot, G!Goto, Seen
    <2>2. CASE G!Interrupt(i)
      BY <1>0, <2>2 DEF G!Interrupt, G!Goto, Seen
    <2>3. CASE G!CheckServiceExists(i)
      <3>1. phase'[i] \in {G!AfterCheck(i), "failed"} /\ service' = service
        BY <1>4, <2>3 DEF G!CheckServiceExists
      <3> QED BY <3>1 DEF G!AfterCheck, Seen
    <2>4. CASE G!CreateService(i)
      <3>1. phase'[i] \in {"routes", "failed"} /\ service' # None
        BY <1>0, <1>4, <2>4 DEF G!CreateService
      <3> QED BY <3>1 DEF Seen
    <2>5. CASE G!UpdateService(i)
      <3>1. phase'[i] \in {"routes", "failed"} /\ service' # None
        BY <1>0, <1>4, <2>5 DEF G!UpdateService
      <3> QED BY <3>1 DEF Seen
    <2>6. CASE G!GetServiceRoutes(i)
      <3>1. phase'[i] \in {"patch", "add", "failed"} /\ service # None
        BY <1>0, <1>4, <2>6 DEF G!GetServiceRoutes, G!AfterRoutes, G!In, Seen
      <3> QED BY <1>1, <3>1 DEF Seen
    <2>7. CASE G!AddRoute(i)
      <3>1. phase'[i] \in {"done", "failed"} /\ service # None /\ route' # None
        BY <1>0, <1>4, <2>7 DEF G!AddRoute, G!In, Seen
      <3> QED BY <1>1, <3>1 DEF Seen
    <2>8. CASE G!PatchRoute(i)
      <3>1. phase'[i] \in {"done", "failed"} /\ service # None
        BY <1>0, <1>4, <2>8 DEF G!PatchRoute, G!In, Seen
      <3>2. phase'[i] = "done" => route # None
        BY <1>4, <2>8 DEF G!PatchRoute
      <3> QED BY <1>1, <3>1, <3>2 DEF Seen
    <2> QED BY <2>1, <2>2, <2>3, <2>4, <2>5, <2>6, <2>7, <2>8 DEF G!Register
  <1> QED BY <1>1, <1>3, <1>5

LEMMA KongBeaten ==
  ASSUME KongInv, NEW i \in Instances, G!Register(i)
  PROVE  Beaten'
  <1>0. /\ phase \in [Instances -> Phases] /\ Seen(i) /\ faults \in Nat
        /\ Config[i] # None
    BY KongAssumed DEF KongInv, G!KongTypeOK, G!Ended, Phases
  <1>1. /\ service # None => service' # None
        /\ route # None => route' # None
    BY KongSeen
  <1> SUFFICES ASSUME faults' = 0, ~foreign'
               PROVE  /\ \A j \in Instances : /\ phase'[j] = "patch" => route' # None
                                              /\ phase'[j] = "failed" => service' # None
                      /\ service' # None =>
                           \E j \in Instances : phase'[j] \in {"routes", "add", "patch", "done"}
                      /\ route' # None => \E j \in Instances : phase'[j] = "done"
    BY DEF Beaten
  <1>2. ASSUME NEW p, G!Reply(i, p) PROVE phase' = [phase EXCEPT ![i] = p] /\ faults = 0 /\ ~foreign
    BY <1>0, <1>2 DEF G!Reply, G!Goto, G!Fault
  <1>3. CASE G!Boot(i)
    <2>1. /\ phase' = [phase EXCEPT ![i] = "check"] /\ phase[i] = "down" /\ faults = 0 /\ ~foreign
          /\ service' = service /\ route' = route
      BY <1>3 DEF G!Boot, G!Goto, G!In, G!Gateway
    <2> QED BY <1>0, <2>1 DEF KongInv, Beaten
  <1>4. CASE G!Interrupt(i)
    BY <1>0, <1>4 DEF G!Interrupt, G!Fault
  <1>5. CASE G!CheckServiceExists(i)
    <2>1. /\ phase' = [phase EXCEPT ![i] = G!AfterCheck(i)] /\ phase[i] = "check"
          /\ faults = 0 /\ ~foreign /\ service' = service /\ route' = route
      BY <1>2, <1>5 DEF G!CheckServiceExists, G!In
    <2> QED BY <1>0, <2>1 DEF KongInv, Beaten, G!AfterCheck
  <1>6. CASE G!CreateService(i)
    <2>1. CASE service = None
      <3>1. /\ phase' = [phase EXCEPT ![i] = "routes"] /\ phase[i] = "create"
            /\ faults = 0 /\ ~foreign /\ route' = route
        BY <1>2, <1>6, <2>1 DEF G!CreateService, G!In
      <3> QED BY <1>0, <1>1, <3>1 DEF KongInv, Beaten
    <2>2. CASE service # None
      <3>1. /\ phase' = [phase EXCEPT ![i] = "failed"] /\ phase[i] = "create"
            /\ faults = 0 /\ ~foreign /\ route' = route
        BY <1>2, <1>6, <2>2 DEF G!CreateService, G!In
      <3> QED BY <1>0, <1>1, <2>2, <3>1 DEF KongInv, Beaten
    <2> QED BY <2>1, <2>2
  <1>7. CASE G!UpdateService(i)
    <2>1. /\ phase' = [phase EXCEPT ![i] = "routes"] /\ phase[i] = "update"
          /\ faults = 0 /\ ~foreign /\ route' = route /\ service # None
      BY <1>0, <1>2, <1>7 DEF G!UpdateService, G!In, Seen
    <2> QED BY <1>0, <1>1, <2>1 DEF KongInv, Beaten
  <1>8. CASE G!GetServiceRoutes(i)
    <2>1. /\ phase' = [phase EXCEPT ![i] = G!AfterRoutes(i)] /\ phase[i] = "routes"
          /\ faults = 0 /\ ~foreign /\ route' = route /\ service' = service
      BY <1>2, <1>8 DEF G!GetServiceRoutes, G!In
    <2> QED BY <1>0, <2>1 DEF KongInv, Beaten, G!AfterRoutes
  <1>9. CASE G!AddRoute(i)
    <2>1. CASE route = None
      <3>1. /\ phase' = [phase EXCEPT ![i] = "done"] /\ phase[i] = "add"
            /\ faults = 0 /\ ~foreign /\ service' = service
        BY <1>2, <1>9, <2>1 DEF G!AddRoute, G!In
      <3> QED BY <1>0, <2>1, <3>1 DEF KongInv, Beaten
    <2>2. CASE route # None
      <3>1. /\ phase' = [phase EXCEPT ![i] = "failed"] /\ phase[i] = "add" /\ service # None
            /\ faults = 0 /\ ~foreign /\ service' = service
        BY <1>0, <1>2, <1>9, <2>2 DEF G!AddRoute, G!In, Seen
      <3> QED BY <1>0, <1>1, <2>2, <3>1 DEF KongInv, Beaten
    <2> QED BY <2>1, <2>2
  <1>10. CASE G!PatchRoute(i)
    <2>1. route # None
      <3>1. faults = 0 /\ ~foreign /\ phase[i] = "patch"
        BY <1>2, <1>10 DEF G!PatchRoute, G!In
      <3> QED BY <3>1 DEF KongInv, Beaten
    <2>2. /\ phase' = [phase EXCEPT ![i] = "done"] /\ phase[i] = "patch"
          /\ faults = 0 /\ ~foreign /\ service' = service
      BY <1>2, <1>10, <2>1 DEF G!PatchRoute, G!In
    <2> QED BY <1>0, <1>1, <2>1, <2>2 DEF KongInv, Beaten
  <1> QED BY <1>3, <1>4, <1>5, <1>6, <1>7, <1>8, <1>9, <1>10 DEF G!Register

LEMMA KongLast ==
  ASSUME KongInv, NEW i \in Instances, G!Register(i)
  PROVE  LastWrites'
  <1>0. /\ phase \in [Instances -> Phases] /\ Seen(i) /\ overlap \in BOOLEAN
        /\ last \in Instances \cup {None} /\ None \notin Instances
    BY KongAssumed DEF KongInv, G!KongTypeOK, G!Ended, Phases
  <1> SUFFICES ASSUME ~overlap'
               PROVE  /\ \A j \in Instances : phase'[j] \notin G!Ended => j = last'
                      /\ last' # None =>
                           /\ phase'[last'] \in {"routes", "add", "patch", "done"}
                                => service' = Config[last']
                           /\ phase'[last'] = "done" => route' = Config[last']
    BY DEF LastWrites, G!Registering
  <1>1. CASE G!Boot(i)
    <2>1. /\ phase' = [phase EXCEPT ![i] = "check"] /\ last' = i
          /\ \A j \in Instances : phase[j] \in G!Ended
      BY <1>1 DEF G!Boot, G!Goto, G!Registering
    <2> QED BY <1>0, <2>1 DEF G!Ended
  <1>2. CASE ~G!Boot(i)
    <2>1. last' = last /\ ~overlap
      BY <1>2 DEF G!Register, G!CheckServiceExists, G!CreateService, G!UpdateService,
                  G!GetServiceRoutes, G!AddRoute, G!PatchRoute, G!Interrupt, G!Reply
    <2>2. \A j \in Instances : phase[j] \notin G!Ended => j = last
      BY <2>1 DEF KongInv, LastWrites, G!Registering
    <2>3. CASE G!Interrupt(i)
      <3>1. /\ phase' = [phase EXCEPT ![i] = "failed"] \/ phase' = [phase EXCEPT ![i] = "down"]
            /\ service' = service /\ route' = route
        BY <2>3 DEF G!Interrupt, G!Goto, G!Gateway
      <3> QED BY <1>0, <2>1, <2>2, <3>1 DEF KongInv, LastWrites, G!Ended
    <2>4. ASSUME NEW p, G!Reply(i, p)
          PROVE  phase' = [phase EXCEPT ![i] = p] \/ phase' = [phase EXCEPT ![i] = "failed"]
      BY <2>4 DEF G!Reply, G!Goto
    <2>5. ASSUME phase[i] \notin G!Ended PROVE i = last
      BY <2>2, <2>5
    <2>6. \A j \in Instances : j # i => phase'[j] = phase[j]
      BY <1>0, <1>2, <2>4, KongCalls DEF G!Interrupt, G!Goto
    <2>7. CASE G!CheckServiceExists(i)
      <3>1. i = last /\ phase'[i] \in {"create", "update", "failed"}
        BY <1>0, <2>4, <2>5, <2>7 DEF G!CheckServiceExists, G!AfterCheck, G!In, G!Ended
      <3> QED BY <2>1, <2>2, <2>6, <3>1
    <2>8. CASE G!CreateService(i)
      <3>1. i = last /\ phase'[i] \in {"routes", "failed"}
        BY <1>0, <2>4, <2>5, <2>8 DEF G!CreateService, G!In, G!Ended
      <3>2. phase'[i] = "routes" => service' = Config[i]
        BY <1>0, <2>4, <2>8 DEF G!CreateService
      <3> QED BY <2>1, <2>2, <2>6, <3>1, <3>2
    <2>9. CASE G!UpdateService(i)
      <3>1. i = last /\ phase'[i] \in {"routes", "failed"} /\ service' = Config[i]
        BY <1>0, <2>4, <2>5, <2>9 DEF G!UpdateService, G!In, G!Ended
      <3> QED BY <2>1, <2>2, <2>6, <3>1
    <2>10. CASE G!GetServiceRoutes(i)
      <3>1. /\ i = last /\ phase'[i] \in {"add", "patch", "failed"} /\ service' = service
            /\ phase[i] = "routes"
        BY <1>0, <2>4, <2>5, <2>10 DEF G!GetServiceRoutes, G!AfterRoutes, G!In, G!Ended
      <3> QED BY <1>0, <2>1, <2>2, <2>6, <3>1 DEF KongInv, LastWrites
    <2>11. CASE G!AddRoute(i)
      <3>1. /\ i = last /\ phase'[i] \in {"done", "failed"} /\ service' = service
            /\ phase[i] = "add"
        BY <1>0, <2>4, <2>5, <2>11 DEF G!AddRoute, G!In, G!Ended
      <3>2. phase'[i] = "done" => route' = Config[i]
        BY <1>0, <2>4, <2>11 DEF G!AddRoute
      <3> QED BY <1>0, <2>1, <2>2, <2>6, <3>1, <3>2 DEF KongInv, LastWrites
    <2>12. CASE G!PatchRoute(i)
      <3>1. /\ i = last /\ phase'[i] \in {"done", "failed"} /\ service' = service
            /\ phase[i] = "patch"
        BY <1>0, <2>4, <2>5, <2>12 DEF G!PatchRoute, G!In, G!Ended
      <3>2. phase'[i] = "done" => route' = Config[i]
        BY <1>0, <2>4, <2>12 DEF G!PatchRoute
      <3> QED BY <1>0, <2>1, <2>2, <2>6, <3>1, <3>2 DEF KongInv, LastWrites
    <2> QED BY <1>2, <2>3, <2>7, <2>8, <2>9, <2>10, <2>11, <2>12 DEF G!Register
  <1> QED BY <1>1, <1>2

LEMMA KongStep == KongInv /\ [G!KongNext]_kong => KongInv'
  <1> SUFFICES ASSUME KongInv, [G!KongNext]_kong PROVE KongInv'
    OBVIOUS
  <1>1. G!KongTypeOK'
    BY KongTyped
  <1>2. ASSUME NEW i \in Instances, G!Register(i) PROVE KongInv'
    BY <1>1, <1>2, KongSeen, KongBeaten, KongLast DEF KongInv
  <1>3. CASE UNCHANGED kong
    BY <1>1, <1>3 DEF kong, KongInv, Seen, Beaten, LastWrites, G!Registering
  <1>4. CASE G!AddForeignRoute
    BY <1>1, <1>4 DEF G!AddForeignRoute, KongInv, Seen, Beaten, LastWrites, G!Registering
  <1> QED BY <1>2, <1>3, <1>4 DEF G!KongNext

LEMMA KongAlways == Spec => []KongInv
  <1>1. Init => KongInv
    BY KongInitially DEF Init
  <1>2. KongInv /\ [Next]_vars => KongInv'
    BY Steps, KongStep
  <1> QED BY <1>1, <1>2, PTL DEF Spec

\* However many instances boot, fail, restart and race for the names, a success
\* that is reported is one; not all of them lose; and deployments one after
\* the other leave the last one's configuration.
THEOREM GatewayRegistered == Spec => []GatewayIsRegistered
  <1>1. KongInv => GatewayIsRegistered
    <2> SUFFICES ASSUME KongInv PROVE GatewayIsRegistered
      OBVIOUS
    <2>1. G!DoneMeansServed
      BY DEF KongInv, Seen, G!DoneMeansServed, G!In
    <2>2. G!OneRegisters
      <3>1. PICK i : i \in Instances
        BY KongAssumed
      <3> QED BY <3>1 DEF KongInv, Beaten, G!OneRegisters, G!In
    <2>3. G!LastDeployed
      BY DEF KongInv, LastWrites, G!LastDeployed, G!In
    <2> QED BY <2>1, <2>2, <2>3 DEF GatewayIsRegistered
  <1> QED BY <1>1, KongAlways, PTL

-----------------------------------------------------------------------------
(* MongoDB: the order of the pages.                                        *)

LEMMA PortfolioSizes == \A X : M!Cardinality(X) = Cardinality(X)
  BY DEF M!Cardinality, Cardinality

LEMMA PortfoliosAssumed == Limit \in Nat \ {0} /\ MaxTime \in Nat /\ NoDoc \notin Nat
  BY InfrastructureAssumption DEF M!PortfoliosAssumption

\* The stored documents that come before d.
Newer(d) == {e \in M!Stored : portfolio[e] > portfolio[d]}

Firsts(s, k) == {s[j] : j \in 1..k}

\* Of a sequence without repetitions the first k are k.
LEMMA FirstOf ==
  ASSUME NEW D, NEW n \in Nat, NEW s \in [1..n -> D],
         \A i, j \in 1..n : i # j => s[i] # s[j], NEW k \in 0..n
  PROVE  IsFiniteSet(Firsts(s, k)) /\ Cardinality(Firsts(s, k)) = k
  <1>1. PICK f : f = [j \in 1..k |-> s[j]]
    OBVIOUS
  <1>2. PICK X : X = Firsts(s, k)
    OBVIOUS
  <1>3. f \in [1..k -> X]
    BY <1>1, <1>2 DEF Firsts
  <1>4. \A i, j \in 1..k : f[i] = f[j] => i = j
    BY <1>1
  <1>5. \A x \in X : \E j \in 1..k : f[j] = x
    BY <1>1, <1>2 DEF Firsts
  <1>6. ExistsBijection(1..k, X)
    BY <1>3, <1>4, <1>5 DEF ExistsBijection, Bijection, Injection, Surjection, IsInjective
  <1>7. k \in Nat
    OBVIOUS
  <1>8. IsFiniteSet(X) /\ Cardinality(X) = k
    BY <1>6, <1>7, FS_NatBijection, FS_CountingElements
  <1> QED BY <1>2, <1>8

\* In the order of a page query each document is behind exactly the newer ones.
LEMMA OrderOfPages ==
  ASSUME M!PortfoliosTypeOK, IsFiniteSet(M!Stored), ~M!OneInstant, NEW s \in M!Sorted
  PROVE  /\ s \in Seq(M!Stored) /\ Len(s) = Cardinality(M!Stored)
         /\ \A d \in M!Stored : \E i \in 1..Len(s) : s[i] = d /\ Cardinality(Newer(d)) = i - 1
  <1>1. PICK n \in Nat : n = Cardinality(M!Stored)
    BY FS_CardinalityType
  <1>2. /\ s \in [1..n -> M!Stored] /\ \A i, j \in 1..n : i # j => s[i] # s[j]
        /\ \A i, j \in DOMAIN s : i < j => portfolio[s[i]] >= portfolio[s[j]]
    BY <1>1, PortfolioSizes DEF M!Sorted, M!SetToSeqs
  <1>3. s \in Seq(M!Stored) /\ Len(s) = n
    BY <1>2
  <1>4. Firsts(s, n) = M!Stored
    <2>1. Firsts(s, n) \subseteq M!Stored
      BY <1>2 DEF Firsts
    <2>2. n \in 0..n
      OBVIOUS
    <2>3. Cardinality(Firsts(s, n)) = n
      BY <1>2, <2>2, FirstOf
    <2> QED BY <1>1, <2>1, <2>3, FS_Subset
  <1>5. \A d \in M!Stored : portfolio[d] \in Nat
    BY PortfoliosAssumed DEF M!Stored, M!PortfoliosTypeOK
  <1>6. ASSUME NEW i \in 1..n, NEW j \in 1..n, i < j
        PROVE  portfolio[s[i]] > portfolio[s[j]]
    <2>1. portfolio[s[i]] >= portfolio[s[j]] /\ s[i] # s[j]
      BY <1>2, <1>6
    <2>2. portfolio[s[i]] # portfolio[s[j]]
      BY <1>2, <2>1 DEF M!OneInstant
    <2> QED BY <1>2, <1>5, <2>1, <2>2
  <1>7. ASSUME NEW i \in 1..n PROVE Newer(s[i]) = Firsts(s, i - 1)
    <2>1. ASSUME NEW j \in 1..n PROVE portfolio[s[j]] > portfolio[s[i]] <=> j \in 1..(i - 1)
      <3>1. CASE j < i
        BY <1>6, <3>1
      <3>2. CASE j = i
        BY <1>2, <1>5, <3>2
      <3>3. CASE j > i
        BY <1>2, <1>5, <1>6, <3>3
      <3> QED BY <3>1, <3>2, <3>3
    <2>2. 1..(i - 1) \subseteq 1..n
      OBVIOUS
    <2> QED BY <1>4, <2>1, <2>2 DEF Newer, Firsts
  <1>8. ASSUME NEW i \in 1..n PROVE Cardinality(Newer(s[i])) = i - 1
    <2>1. i - 1 \in 0..n
      OBVIOUS
    <2>2. Cardinality(Firsts(s, i - 1)) = i - 1
      BY <1>2, <2>1, FirstOf
    <2> QED BY <1>7, <2>2
  <1>9. \A d \in M!Stored : \E i \in 1..n : s[i] = d
    BY <1>4 DEF Firsts
  <1> QED BY <1>1, <1>3, <1>8, <1>9

\* skip(a) and limit(l).
Slice(s, a, l) == SubSeq(s, a + 1, IF a + l < Len(s) THEN a + l ELSE Len(s))

LEMMA PageOf ==
  ASSUME NEW D, NEW s \in Seq(D), NEW a \in Nat, NEW l \in Nat
  PROVE  /\ Slice(s, a, l) \in Seq(D)
         /\ Len(Slice(s, a, l)) =
              IF a > Len(s) THEN 0 ELSE IF a + l < Len(s) THEN l ELSE Len(s) - a
         /\ \A i \in 1..Len(s) : a < i /\ i <= a + l =>
               \E j \in DOMAIN Slice(s, a, l) : Slice(s, a, l)[j] = s[i]
  <1> DEFINE t == Slice(s, a, l)
  <1>1. PICK n : n = IF a + l < Len(s) THEN a + l ELSE Len(s)
    OBVIOUS
  <1>2. n \in Nat /\ n <= Len(s) /\ Len(s) \in Nat
    BY <1>1
  <1>3. /\ t \in Seq(D) /\ Len(t) = IF a + 1 <= n THEN n - (a + 1) + 1 ELSE 0
        /\ \A j \in 1..(n - (a + 1) + 1) : t[j] = s[(a + 1) + j - 1]
    <2>1. \A i \in (a + 1)..n : s[i] \in D
      BY <1>2
    <2>2. t = SubSeq(s, a + 1, n)
      BY <1>1 DEF Slice
    <2> QED BY <1>2, <2>1, <2>2, SubSeqProperties
  <1> HIDE DEF t
  <1>4. ASSUME NEW i \in 1..Len(s), a < i, i <= a + l
        PROVE  \E j \in DOMAIN t : t[j] = s[i]
    <2>1. i - a \in 1..(n - (a + 1) + 1) /\ (a + 1) + (i - a) - 1 = i /\ a + 1 <= n
      BY <1>1, <1>2, <1>4
    <2>2. t[i - a] = s[i]
      BY <1>3, <2>1
    <2>3. i - a \in DOMAIN t
      BY <1>3, <2>1
    <2> QED BY <2>2, <2>3
  <1> USE DEF t
  <1>5. Len(t) = IF a > Len(s) THEN 0 ELSE IF a + l < Len(s) THEN l ELSE Len(s) - a
    BY <1>1, <1>2, <1>3
  <1> QED BY <1>3, <1>4, <1>5

\* Math.ceil(total / limit): the pages before it are full, and it holds all.
LEMMA CeilOfPages ==
  ASSUME NEW t \in Nat, NEW l \in Nat \ {0}, NEW q, q = (t + l - 1) \div l, NEW p \in Nat
  PROVE  /\ q \in Nat
         /\ p >= q => t <= p * l
         /\ p < q => p * l < t
  <1>1. q \in Nat /\ q * l <= t + l - 1 /\ t + l - 1 < q * l + l
    OBVIOUS
  <1>2. p >= q => p * l >= q * l
    BY <1>1
  <1>3. p < q => p * l + l <= q * l
    BY <1>1
  <1>4. q * l \in Nat /\ p * l \in Nat
    BY <1>1
  <1> QED BY <1>1, <1>2, <1>3, <1>4

-----------------------------------------------------------------------------
(* MongoDB: reading page after page.                                       *)

\* What the two properties are about: no write between two queries of a page,
\* no two documents of the same millisecond, none deleted.
Undisturbed == ~torn /\ ~M!OneInstant /\ deleted = {}

HasCome(d) == d \in M!ToSet(read) \cup M!ToSet(data)

\* A new document puts all the others one further back: what was on the pages
\* read so far stays on them or moves to one that is still to come.
NoneLeftOut ==
  Undisturbed =>
    /\ page > 0 => \A d \in there : Cardinality(Newer(d)) < (page - 1) * Limit => d \in M!ToSet(read)
    /\ page > 0 /\ "find" \notin asked =>
         \A d \in there : Cardinality(Newer(d)) < page * Limit => HasCome(d)
    /\ asked = {"find"} => totalPages = M!Pages
    /\ page > 0 /\ asked = {} /\ page >= totalPages => \A d \in there : HasCome(d)
    /\ page = 0 /\ read # <<>> => there \subseteq M!ToSet(read)

\* Without new documents every page but the last is full.
OnceOnly ==
  Undisturbed /\ M!Stored = there =>
    /\ page > 0 => Len(read) = (page - 1) * Limit /\ (page - 1) * Limit <= Cardinality(there)
    /\ page > 0 /\ "find" \notin asked =>
         Len(data) = IF page * Limit < Cardinality(there) THEN Limit
                     ELSE Cardinality(there) - (page - 1) * Limit
    /\ page > 0 /\ "count" \notin asked => totalPages = M!Pages
    /\ page = 0 /\ read # <<>> => Len(read) = Cardinality(there)

\* Finitely many documents, and where the reader can be.
Reading ==
  /\ page \in Nat /\ totalPages \in Nat /\ data \in Seq(Docs) /\ read \in Seq(Docs)
  /\ IsFiniteSet(M!Stored)
  /\ deleted = {} => there \subseteq M!Stored
  /\ page = 0 => asked = {}

PortfoliosInv == M!PortfoliosTypeOK /\ Reading /\ NoneLeftOut /\ OnceOnly

LEMMA PortfoliosInitially == M!PortfoliosInit => PortfoliosInv
  <1> SUFFICES ASSUME M!PortfoliosInit PROVE PortfoliosInv
    OBVIOUS
  <1>1. M!Stored = {}
    BY DEF M!PortfoliosInit, M!Stored
  <1>2. torn = FALSE /\ clock \in 0..MaxTime
    BY PortfoliosAssumed DEF M!PortfoliosInit
  <1>3. Len(data) <= Limit /\ data \in Seq(Docs) /\ read \in Seq(Docs)
    BY PortfoliosAssumed DEF M!PortfoliosInit
  <1>4. M!PortfoliosTypeOK
    BY <1>2, <1>3 DEF M!PortfoliosInit, M!PortfoliosTypeOK
  <1>5. Reading
    BY <1>1, <1>3, FS_EmptySet DEF M!PortfoliosInit, Reading
  <1>6. page = 0 /\ read = <<>> /\ asked = {}
    BY DEF M!PortfoliosInit
  <1> QED BY <1>4, <1>5, <1>6 DEF PortfoliosInv, NoneLeftOut, OnceOnly

\* The number of newer documents, and of documents.
LEMMA NewerCounted ==
  ASSUME PortfoliosInv
  PROVE  /\ Cardinality(M!Stored) \in Nat
         /\ \A d : IsFiniteSet(Newer(d)) /\ Cardinality(Newer(d)) \in Nat
         /\ M!Pages \in Nat /\ M!Pages = (Cardinality(M!Stored) + Limit - 1) \div Limit
  <1>1. IsFiniteSet(M!Stored)
    BY DEF PortfoliosInv, Reading
  <1>2. Cardinality(M!Stored) \in Nat
    BY <1>1, FS_CardinalityType
  <1>3. ASSUME NEW d PROVE IsFiniteSet(Newer(d)) /\ Cardinality(Newer(d)) \in Nat
    <2>1. Newer(d) \in SUBSET M!Stored
      BY DEF Newer
    <2>2. IsFiniteSet(Newer(d))
      BY <1>1, <2>1, FS_Subset
    <2> QED BY <2>2, FS_CardinalityType
  <1>4. M!Pages = (Cardinality(M!Stored) + Limit - 1) \div Limit
    BY PortfolioSizes DEF M!Pages
  <1>5. M!Pages \in Nat
    BY <1>2, <1>4, PortfoliosAssumed
  <1> QED BY <1>2, <1>3, <1>4, <1>5

\* A write between the queries of a page is remembered.
LEMMA TornRemembered ==
  ASSUME asked \subseteq {"find", "count"}, torn \in BOOLEAN, M!Between
  PROVE  /\ torn' \in BOOLEAN
         /\ ~torn' => ~torn /\ (asked = {} \/ asked = {"find", "count"})
  <1>1. torn' <=> torn \/ Cardinality(asked) = 1
    BY PortfolioSizes DEF M!Between
  <1>2. torn' \in BOOLEAN
    BY DEF M!Between
  <1>3. asked = {"find"} \/ asked = {"count"} => Cardinality(asked) = 1
    BY FS_Singleton
  <1>4. asked = {} \/ asked = {"find"} \/ asked = {"count"} \/ asked = {"find", "count"}
    OBVIOUS
  <1> QED BY <1>1, <1>2, <1>3, <1>4

LEMMA PortfolioCreated ==
  ASSUME PortfoliosInv, NEW d \in Docs, M!CreatePortfolio(d)
  PROVE  PortfoliosInv'
  <1>1. /\ portfolio[d] = NoDoc /\ d \notin there
        /\ portfolio' = [portfolio EXCEPT ![d] = clock]
        /\ UNCHANGED <<clock, page, asked, data, totalPages, read, there, deleted>>
        /\ M!Between
    BY DEF M!CreatePortfolio, M!reader
  <1>2. /\ portfolio \in [Docs -> 0..MaxTime \cup {NoDoc}] /\ clock \in 0..MaxTime
        /\ asked \subseteq {"find", "count"} /\ torn \in BOOLEAN
    BY DEF PortfoliosInv, M!PortfoliosTypeOK
  <1>3. M!Stored' = M!Stored \cup {d} /\ d \notin M!Stored
    BY <1>1, <1>2, PortfoliosAssumed DEF M!Stored
  <1>4. IsFiniteSet(M!Stored')
    BY <1>3, FS_AddElement DEF PortfoliosInv, Reading
  <1>5. /\ torn' \in BOOLEAN
        /\ ~torn' => ~torn /\ (asked = {} \/ asked = {"find", "count"})
    BY <1>1, <1>2, TornRemembered
  <1>6. M!PortfoliosTypeOK'
    BY <1>1, <1>2, <1>5 DEF PortfoliosInv, M!PortfoliosTypeOK
  <1>7. Reading'
    BY <1>1, <1>3, <1>4 DEF PortfoliosInv, Reading
  <1>8. Undisturbed' => Undisturbed
    <2>1. M!OneInstant => M!OneInstant'
      BY <1>1, <1>2, <1>3 DEF M!OneInstant
    <2> QED BY <1>1, <1>5, <2>1 DEF Undisturbed
  <1>9. ASSUME NEW e \in M!Stored
        PROVE  /\ Cardinality(Newer(e)) \in Nat /\ Cardinality(Newer(e)') \in Nat
               /\ Cardinality(Newer(e)) <= Cardinality(Newer(e)')
    <2>1. Newer(e)' \subseteq M!Stored'
      BY DEF Newer
    <2>2. IsFiniteSet(Newer(e)')
      BY <1>4, <2>1, FS_Subset
    <2>3. Newer(e) \subseteq Newer(e)'
      BY <1>1, <1>2, <1>3 DEF Newer
    <2> QED BY <2>2, <2>3, FS_Subset, FS_CardinalityType
  <1>10. NoneLeftOut'
    <2> SUFFICES ASSUME Undisturbed' PROVE NoneLeftOut'
      BY DEF NoneLeftOut
    <2>1. Undisturbed /\ there \subseteq M!Stored /\ asked # {"find"}
      <3>1. asked = {} \/ asked = {"find", "count"}
        BY <1>5 DEF Undisturbed
      <3>2. asked # {"find"}
        BY <3>1
      <3> QED BY <1>8, <3>2 DEF Undisturbed, PortfoliosInv, Reading
    <2>2. page \in Nat /\ (page - 1) * Limit \in Int /\ page * Limit \in Int
      BY PortfoliosAssumed DEF PortfoliosInv, Reading
    <2>3. page > 0 => \A e \in there : Cardinality(Newer(e)') < (page - 1) * Limit => e \in M!ToSet(read)
      BY <1>9, <2>1, <2>2 DEF PortfoliosInv, NoneLeftOut
    <2>4. page > 0 /\ "find" \notin asked =>
            \A e \in there : Cardinality(Newer(e)') < page * Limit => HasCome(e)
      BY <1>9, <2>1, <2>2 DEF PortfoliosInv, NoneLeftOut
    <2>5. /\ page > 0 /\ asked = {} /\ page >= totalPages => \A e \in there : HasCome(e)
          /\ page = 0 /\ read # <<>> => there \subseteq M!ToSet(read)
      BY <2>1 DEF PortfoliosInv, NoneLeftOut
    <2> QED BY <1>1, <2>1, <2>3, <2>4, <2>5 DEF NoneLeftOut, HasCome, M!ToSet
  <1>11. OnceOnly'
    BY <1>1, <1>3 DEF OnceOnly
  <1> QED BY <1>6, <1>7, <1>10, <1>11 DEF PortfoliosInv

LEMMA PortfolioRemoved ==
  ASSUME PortfoliosInv, NEW d \in Docs, M!RemovePortfolio(d)
  PROVE  PortfoliosInv'
  <1>1. /\ portfolio' = [portfolio EXCEPT ![d] = NoDoc] /\ deleted' = deleted \cup {d}
        /\ UNCHANGED <<clock, page, asked, data, totalPages, read, there>>
        /\ M!Between
    BY DEF M!RemovePortfolio, M!reader
  <1>2. torn' \in BOOLEAN
    BY <1>1, TornRemembered DEF PortfoliosInv, M!PortfoliosTypeOK
  <1>3. M!PortfoliosTypeOK'
    BY <1>1, <1>2 DEF PortfoliosInv, M!PortfoliosTypeOK
  <1>4. M!Stored' = M!Stored \ {d}
    BY <1>1 DEF M!Stored, PortfoliosInv, M!PortfoliosTypeOK
  <1>5. IsFiniteSet(M!Stored')
    BY <1>4, FS_RemoveElement DEF PortfoliosInv, Reading
  <1>6. Reading'
    BY <1>1, <1>5 DEF PortfoliosInv, Reading
  <1>7. ~Undisturbed'
    BY <1>1 DEF Undisturbed
  <1> QED BY <1>3, <1>6, <1>7 DEF PortfoliosInv, NoneLeftOut, OnceOnly

\* An update keeps createdAt, and the time that passes is in no document.
LEMMA PortfolioUnmoved ==
  ASSUME PortfoliosInv,
         UNCHANGED mongodb \/ M!Millisecond \/ \E d \in Docs : M!UpdatePortfolio(d)
  PROVE  PortfoliosInv'
  <1>1. /\ portfolio' = portfolio
        /\ UNCHANGED <<page, asked, data, totalPages, read, there, deleted, torn>>
        /\ clock' \in 0..MaxTime
    <2>1. CASE UNCHANGED mongodb
      BY <2>1 DEF mongodb, PortfoliosInv, M!PortfoliosTypeOK
    <2>2. CASE M!Millisecond
      BY <2>2, PortfoliosAssumed DEF M!Millisecond, M!reader, PortfoliosInv, M!PortfoliosTypeOK
    <2>3. ASSUME NEW d \in Docs, M!UpdatePortfolio(d)
          PROVE  /\ portfolio' = portfolio
                 /\ UNCHANGED <<page, asked, data, totalPages, read, there, deleted, torn>>
                 /\ clock' \in 0..MaxTime
      BY <2>3 DEF M!UpdatePortfolio, M!Updated, M!reader, PortfoliosInv, M!PortfoliosTypeOK
    <2> QED BY <2>1, <2>2, <2>3
  <1>2. M!Stored' = M!Stored /\ M!Pages' = M!Pages /\ M!OneInstant' = M!OneInstant
    BY <1>1 DEF M!Stored, M!Pages, M!OneInstant
  <1>3. \A d : Newer(d)' = Newer(d)
    BY <1>1, <1>2 DEF Newer
  <1>4. M!PortfoliosTypeOK'
    BY <1>1 DEF PortfoliosInv, M!PortfoliosTypeOK
  <1>5. Reading'
    BY <1>1, <1>2 DEF PortfoliosInv, Reading
  <1>6. (Undisturbed' <=> Undisturbed) /\ \A d : HasCome(d)' <=> HasCome(d)
    BY <1>1, <1>2 DEF Undisturbed, HasCome, M!ToSet
  <1>7. M!ToSet(read)' = M!ToSet(read)
    BY <1>1 DEF M!ToSet
  <1>8. NoneLeftOut'
    BY <1>1, <1>2, <1>3, <1>6, <1>7 DEF PortfoliosInv, NoneLeftOut
  <1>9. OnceOnly'
    BY <1>1, <1>2, <1>6 DEF PortfoliosInv, OnceOnly
  <1> QED BY <1>4, <1>5, <1>8, <1>9 DEF PortfoliosInv

LEMMA ReadingStarts ==
  ASSUME PortfoliosInv, M!StartReading
  PROVE  PortfoliosInv'
  <1>1. /\ page' = 1 /\ asked' = {"find", "count"} /\ there' = M!Stored /\ read = <<>>
        /\ UNCHANGED <<portfolio, clock, data, totalPages, read, deleted, torn>>
    BY DEF M!StartReading
  <1>2. M!Stored' = M!Stored /\ \A d : Newer(d)' = Newer(d)
    BY <1>1 DEF M!Stored, Newer
  <1>3. M!PortfoliosTypeOK'
    BY <1>1 DEF PortfoliosInv, M!PortfoliosTypeOK, M!Stored
  <1>4. Reading'
    BY <1>1, <1>2 DEF PortfoliosInv, Reading
  <1>5. (page' - 1) * Limit = 0 /\ page' # 0
    BY <1>1, PortfoliosAssumed
  <1>6. \A d : Cardinality(Newer(d)) \in Nat
    BY NewerCounted
  <1>7. asked' # {} /\ asked' # {"find"} /\ "find" \in asked' /\ "count" \in asked'
    BY <1>1
  <1>8. NoneLeftOut'
    BY <1>2, <1>5, <1>6, <1>7 DEF NoneLeftOut
  <1>9. Cardinality(M!Stored) \in Nat
    BY NewerCounted
  <1>10. OnceOnly'
    BY <1>1, <1>2, <1>5, <1>7, <1>9 DEF OnceOnly
  <1> QED BY <1>3, <1>4, <1>8, <1>10 DEF PortfoliosInv

\* The pages in numbers.
LEMMA PageNumbers ==
  ASSUME PortfoliosInv, page > 0
  PROVE  /\ page \in Nat /\ (page - 1) * Limit \in Nat
         /\ page * Limit = (page - 1) * Limit + Limit
         /\ page >= M!Pages => Cardinality(M!Stored) <= page * Limit
         /\ page < M!Pages => page * Limit < Cardinality(M!Stored)
  <1>1. page \in Nat /\ page - 1 \in Nat
    BY DEF PortfoliosInv, Reading
  <1>2. (page - 1) * Limit \in Nat /\ page * Limit = (page - 1) * Limit + Limit
    BY <1>1, PortfoliosAssumed
  <1>3. /\ Cardinality(M!Stored) \in Nat
        /\ M!Pages = (Cardinality(M!Stored) + Limit - 1) \div Limit
    BY NewerCounted
  <1> QED BY <1>1, <1>2, <1>3, CeilOfPages, PortfoliosAssumed

LEMMA PageFound ==
  ASSUME PortfoliosInv, M!FindPage
  PROVE  PortfoliosInv'
  <1>1. PICK s, a :
          /\ s \in M!Sorted /\ a = (page - 1) * Limit
          /\ data' = SubSeq(s, a + 1, IF a + Limit < Len(s) THEN a + Limit ELSE Len(s))
    BY DEF M!FindPage, M!Skipped, M!Taken
  <1>2. /\ "find" \in asked /\ asked' = asked \ {"find"}
        /\ UNCHANGED <<portfolio, clock, page, totalPages, read, there, deleted, torn>>
    BY DEF M!FindPage
  <1>3. page > 0
    BY <1>2 DEF PortfoliosInv, Reading
  <1>4. a \in Nat /\ page * Limit = a + Limit /\ Limit \in Nat
    BY <1>1, <1>3, PageNumbers, PortfoliosAssumed
  <1>5. PICK n \in Nat : n = Cardinality(M!Stored)
    BY NewerCounted
  <1>6. s \in Seq(M!Stored) /\ Len(s) = n
    <2>1. s \in [1..n -> M!Stored]
      BY <1>1, <1>5, PortfolioSizes DEF M!Sorted, M!SetToSeqs
    <2> QED BY <2>1
  <1>7. /\ data' \in Seq(M!Stored)
        /\ Len(data') = IF a > n THEN 0 ELSE IF a + Limit < n THEN Limit ELSE n - a
        /\ \A i \in 1..n : a < i /\ i <= a + Limit => \E j \in DOMAIN data' : data'[j] = s[i]
    <2>1. data' = Slice(s, a, Limit)
      BY <1>1 DEF Slice
    <2>2. s \in Seq(M!Stored) /\ a \in Nat /\ Limit \in Nat
      BY <1>4, <1>6
    <2>3. /\ Slice(s, a, Limit) \in Seq(M!Stored)
          /\ Len(Slice(s, a, Limit)) =
               IF a > Len(s) THEN 0 ELSE IF a + Limit < Len(s) THEN Limit ELSE Len(s) - a
          /\ \A i \in 1..Len(s) : a < i /\ i <= a + Limit =>
                \E j \in DOMAIN Slice(s, a, Limit) : Slice(s, a, Limit)[j] = s[i]
      BY <2>2, PageOf, ZenonT(60)
    <2> QED BY <1>6, <2>1, <2>3
  <1>8. data' \in Seq(Docs)
    <2>1. M!Stored \subseteq Docs
      BY DEF M!Stored
    <2> QED BY <1>7, <2>1, SeqMonotonic
  <1>9. Len(data') <= Limit
    BY <1>4, <1>7
  <1>10. M!Stored' = M!Stored /\ M!Pages' = M!Pages /\ M!OneInstant' = M!OneInstant
    BY <1>2 DEF M!Stored, M!Pages, M!OneInstant
  <1>11. \A d : Newer(d)' = Newer(d)
    BY <1>2, <1>10 DEF Newer
  <1>12. M!PortfoliosTypeOK'
    BY <1>2, <1>9 DEF PortfoliosInv, M!PortfoliosTypeOK
  <1>13. Reading'
    BY <1>2, <1>3, <1>8, <1>10 DEF PortfoliosInv, Reading
  <1>14. Undisturbed' <=> Undisturbed
    BY <1>2, <1>10 DEF Undisturbed
  <1>15. ASSUME Undisturbed, NEW d \in there, Cardinality(Newer(d)) < page * Limit
         PROVE  HasCome(d)'
    <2>1. d \in M!Stored
      BY <1>15 DEF Undisturbed, PortfoliosInv, Reading
    <2>2. PICK i \in 1..n : s[i] = d /\ Cardinality(Newer(d)) = i - 1
      BY <1>1, <1>5, <1>6, <1>15, <2>1, OrderOfPages DEF Undisturbed, PortfoliosInv, Reading
    <2>3. CASE i - 1 < a
      <3>1. d \in M!ToSet(read)
        BY <1>1, <1>3, <1>15, <2>2, <2>3 DEF PortfoliosInv, NoneLeftOut
      <3> QED BY <1>2, <3>1 DEF HasCome, M!ToSet
    <2>4. CASE ~(i - 1 < a)
      <3>1. a < i /\ i <= a + Limit
        BY <1>4, <1>15, <2>2, <2>4
      <3>2. \E j \in DOMAIN data' : data'[j] = d
        BY <1>7, <2>2, <3>1
      <3> QED BY <3>2 DEF HasCome, M!ToSet
    <2> QED BY <2>3, <2>4
  <1>16. NoneLeftOut'
    <2> SUFFICES ASSUME Undisturbed PROVE NoneLeftOut'
      BY <1>14 DEF NoneLeftOut
    <2>1. \A d \in there : Cardinality(Newer(d)) < (page - 1) * Limit => d \in M!ToSet(read)
      BY <1>3 DEF PortfoliosInv, NoneLeftOut
    <2>2. ASSUME asked' = {}, page >= totalPages, NEW d \in there
          PROVE  HasCome(d)'
      <3>1. asked = {"find"}
        BY <1>2, <2>2
      <3>2. totalPages = M!Pages
        BY <3>1 DEF PortfoliosInv, NoneLeftOut
      <3>3. n <= page * Limit
        BY <1>3, <1>5, <2>2, <3>2, PageNumbers
      <3>4. d \in M!Stored
        BY DEF Undisturbed, PortfoliosInv, Reading
      <3>5. PICK i \in 1..n : Cardinality(Newer(d)) = i - 1
        BY <1>1, <1>5, <1>6, <3>4, OrderOfPages DEF Undisturbed, PortfoliosInv, Reading
      <3>6. Cardinality(Newer(d)) < page * Limit
        BY <1>4, <3>3, <3>5
      <3> QED BY <1>15, <3>6
    <2>3. asked' # {"find"} /\ page # 0
      BY <1>2, <1>3
    <2>4. M!ToSet(read)' = M!ToSet(read)
      BY <1>2 DEF M!ToSet
    <2> QED BY <1>2, <1>10, <1>11, <1>15, <2>1, <2>2, <2>3, <2>4 DEF NoneLeftOut
  <1>17. OnceOnly'
    <2> SUFFICES ASSUME Undisturbed, M!Stored = there PROVE OnceOnly'
      BY <1>2, <1>10, <1>14 DEF OnceOnly
    <2>1. Len(read) = (page - 1) * Limit /\ (page - 1) * Limit <= Cardinality(there)
      BY <1>3 DEF PortfoliosInv, OnceOnly
    <2>2. Len(data') = IF page * Limit < Cardinality(there) THEN Limit
                       ELSE Cardinality(there) - (page - 1) * Limit
      BY <1>1, <1>4, <1>5, <1>7, <2>1
    <2>3. "count" \notin asked' => totalPages = M!Pages
      BY <1>2, <1>3 DEF PortfoliosInv, OnceOnly
    <2> QED BY <1>2, <1>3, <1>10, <2>1, <2>2, <2>3 DEF OnceOnly
  <1> QED BY <1>12, <1>13, <1>16, <1>17 DEF PortfoliosInv

LEMMA PagesCounted ==
  ASSUME PortfoliosInv, M!CountDocuments
  PROVE  PortfoliosInv'
  <1>1. /\ "count" \in asked /\ asked' = asked \ {"count"} /\ totalPages' = M!Pages
        /\ UNCHANGED <<portfolio, clock, page, data, read, there, deleted, torn>>
    BY DEF M!CountDocuments
  <1>2. page > 0
    BY <1>1 DEF PortfoliosInv, Reading
  <1>3. M!Stored' = M!Stored /\ M!Pages' = M!Pages /\ M!OneInstant' = M!OneInstant
    BY <1>1 DEF M!Stored, M!Pages, M!OneInstant
  <1>4. \A d : Newer(d)' = Newer(d)
    BY <1>1, <1>3 DEF Newer
  <1>5. M!PortfoliosTypeOK'
    BY <1>1 DEF PortfoliosInv, M!PortfoliosTypeOK
  <1>6. M!Pages \in Nat
    BY NewerCounted
  <1>7. Reading'
    BY <1>1, <1>2, <1>3, <1>6 DEF PortfoliosInv, Reading
  <1>8. (Undisturbed' <=> Undisturbed) /\ \A d : HasCome(d)' <=> HasCome(d)
    BY <1>1, <1>3 DEF Undisturbed, HasCome, M!ToSet
  <1>9. M!ToSet(read)' = M!ToSet(read)
    BY <1>1 DEF M!ToSet
  <1>10. NoneLeftOut'
    <2> SUFFICES ASSUME Undisturbed PROVE NoneLeftOut'
      BY <1>8 DEF NoneLeftOut
    <2>1. /\ \A d \in there : Cardinality(Newer(d)) < (page - 1) * Limit => d \in M!ToSet(read)
          /\ "find" \notin asked =>
               \A d \in there : Cardinality(Newer(d)) < page * Limit => HasCome(d)
      BY <1>2 DEF PortfoliosInv, NoneLeftOut
    <2>2. ASSUME asked' = {}, page >= M!Pages, NEW d \in there PROVE HasCome(d)
      <3>1. "find" \notin asked
        BY <1>1, <2>2
      <3>2. PICK n \in Nat : n = Cardinality(M!Stored)
        BY NewerCounted
      <3>3. n <= page * Limit /\ page * Limit \in Nat
        BY <1>2, <2>2, <3>2, PageNumbers, PortfoliosAssumed
      <3>4. d \in M!Stored
        BY DEF Undisturbed, PortfoliosInv, Reading
      <3>5. Cardinality(Newer(d)) < n
        <4>1. Newer(d) \in SUBSET M!Stored /\ d \notin Newer(d)
          <5>1. portfolio[d] \in Nat
            BY <3>4, PortfoliosAssumed DEF M!Stored, PortfoliosInv, M!PortfoliosTypeOK
          <5> QED BY <5>1 DEF Newer
        <4>2. Newer(d) # M!Stored
          BY <3>4, <4>1
        <4>3. /\ Cardinality(Newer(d)) <= Cardinality(M!Stored)
              /\ Cardinality(M!Stored) = Cardinality(Newer(d)) => M!Stored = Newer(d)
          BY <4>1, FS_Subset DEF PortfoliosInv, Reading
        <4>4. Cardinality(Newer(d)) \in Nat
          BY NewerCounted
        <4> QED BY <3>2, <4>2, <4>3, <4>4
      <3>6. Cardinality(Newer(d)) \in Nat
        BY NewerCounted
      <3>7. Cardinality(Newer(d)) < page * Limit
        BY <3>3, <3>5, <3>6
      <3> QED BY <2>1, <3>1, <3>7
    <2> QED BY <1>1, <1>2, <1>3, <1>4, <1>8, <1>9, <2>1, <2>2 DEF NoneLeftOut
  <1>11. OnceOnly'
    BY <1>1, <1>2, <1>3, <1>8 DEF PortfoliosInv, OnceOnly
  <1> QED BY <1>5, <1>7, <1>10, <1>11 DEF PortfoliosInv

\* What has come is kept; the last page has been read when no more are counted.
LEMMA PageTurned ==
  ASSUME PortfoliosInv, M!NextPage
  PROVE  PortfoliosInv'
  <1>1. /\ page > 0 /\ asked = {}
        /\ read' = read \o data /\ data' = <<>> /\ totalPages' = 0
        /\ UNCHANGED <<portfolio, clock, there, deleted, torn>>
    BY DEF M!NextPage
  <1>2. read \in Seq(Docs) /\ data \in Seq(Docs) /\ page \in Nat /\ totalPages \in Nat
    BY DEF PortfoliosInv, Reading
  <1>3. read' \in Seq(Docs) /\ Len(read') = Len(read) + Len(data)
    BY <1>1, <1>2, ConcatProperties
  <1>4. \A d : HasCome(d) => d \in M!ToSet(read)'
    <2> SUFFICES ASSUME NEW d, HasCome(d) PROVE \E i \in DOMAIN read' : read'[i] = d
      BY DEF M!ToSet
    <2>1. DOMAIN read' = 1..(Len(read) + Len(data)) /\ Len(read) \in Nat /\ Len(data) \in Nat
      BY <1>2, <1>3
    <2>2. ASSUME NEW i \in DOMAIN read, read[i] = d PROVE \E k \in DOMAIN read' : read'[k] = d
      <3>1. i \in 1..Len(read) /\ i \in DOMAIN read'
        BY <1>2, <2>1
      <3>2. read'[i] = read[i]
        BY <1>1, <1>2, <3>1, ConcatProperties
      <3> QED BY <2>2, <3>1, <3>2
    <2>3. ASSUME NEW i \in DOMAIN data, data[i] = d PROVE \E k \in DOMAIN read' : read'[k] = d
      <3>1. i \in 1..Len(data)
        BY <1>2
      <3>2. PICK k : k = Len(read) + i
        OBVIOUS
      <3>3. k \in 1..(Len(read) + Len(data)) /\ k > Len(read) /\ k - Len(read) = i
        BY <2>1, <3>1, <3>2
      <3>4. read'[k] = data[k - Len(read)]
        BY <1>1, <1>2, <3>3, ConcatProperties
      <3> QED BY <2>1, <2>3, <3>3, <3>4
    <2> QED BY <2>2, <2>3 DEF HasCome, M!ToSet
  <1>5. M!Stored' = M!Stored /\ M!Pages' = M!Pages /\ M!OneInstant' = M!OneInstant
    BY <1>1 DEF M!Stored, M!Pages, M!OneInstant
  <1>6. \A d : Newer(d)' = Newer(d)
    BY <1>1, <1>5 DEF Newer
  <1>7. Undisturbed' <=> Undisturbed
    BY <1>1, <1>5 DEF Undisturbed
  <1>8. /\ (page - 1) * Limit \in Nat /\ page * Limit = (page - 1) * Limit + Limit
        /\ page >= M!Pages => Cardinality(M!Stored) <= page * Limit
        /\ page < M!Pages => page * Limit < Cardinality(M!Stored)
    BY <1>1, PageNumbers
  <1>9. Len(data') <= Limit /\ data' \in Seq(Docs)
    BY <1>1, PortfoliosAssumed
  <1>10. CASE page < totalPages
    <2>1. page' = page + 1 /\ asked' = {"find", "count"}
      BY <1>10 DEF M!NextPage
    <2>2. (page' - 1) * Limit = page * Limit /\ page' > 0 /\ page' \in Nat
      <3>1. page' - 1 = page
        BY <1>2, <2>1
      <3> QED BY <1>2, <2>1, <3>1
    <2>3. M!PortfoliosTypeOK'
      BY <1>1, <1>9, <2>1 DEF PortfoliosInv, M!PortfoliosTypeOK
    <2>4. Reading'
      BY <1>1, <1>3, <1>5, <1>9, <2>1, <2>2 DEF PortfoliosInv, Reading
    <2>5. NoneLeftOut'
      <3> SUFFICES ASSUME Undisturbed PROVE NoneLeftOut'
        BY <1>7 DEF NoneLeftOut
      <3>1. \A d \in there : Cardinality(Newer(d)) < page * Limit => HasCome(d)
        BY <1>1 DEF PortfoliosInv, NoneLeftOut
      <3>2. asked' # {} /\ asked' # {"find"} /\ "find" \in asked'
        BY <2>1
      <3> QED BY <1>1, <1>4, <1>6, <2>2, <3>1, <3>2 DEF NoneLeftOut
    <2>6. OnceOnly'
      <3> SUFFICES ASSUME Undisturbed, M!Stored = there PROVE OnceOnly'
        BY <1>1, <1>5, <1>7 DEF OnceOnly
      <3>1. totalPages = M!Pages /\ page * Limit < Cardinality(there)
        BY <1>1, <1>8, <1>10 DEF PortfoliosInv, OnceOnly
      <3>2. Len(read) = (page - 1) * Limit /\ Len(data) = Limit
        BY <1>1, <3>1 DEF PortfoliosInv, OnceOnly
      <3>3. Len(read') = page * Limit
        BY <1>3, <1>8, <3>2
      <3>4. Cardinality(there) \in Nat
        BY NewerCounted
      <3>5. page * Limit \in Nat /\ page * Limit <= Cardinality(there)
        BY <1>8, <3>1, <3>4, PortfoliosAssumed
      <3>6. "find" \in asked' /\ "count" \in asked' /\ page' # 0
        BY <2>1, <2>2
      <3> QED BY <1>1, <2>2, <3>3, <3>5, <3>6 DEF OnceOnly
    <2> QED BY <2>3, <2>4, <2>5, <2>6 DEF PortfoliosInv
  <1>11. CASE ~(page < totalPages)
    <2>1. page' = 0 /\ asked' = {}
      BY <1>1, <1>11 DEF M!NextPage
    <2>2. M!PortfoliosTypeOK'
      BY <1>1, <1>9, <2>1 DEF PortfoliosInv, M!PortfoliosTypeOK
    <2>3. Reading'
      BY <1>1, <1>3, <1>5, <1>9, <2>1 DEF PortfoliosInv, Reading
    <2>4. NoneLeftOut'
      <3> SUFFICES ASSUME Undisturbed PROVE NoneLeftOut'
        BY <1>7 DEF NoneLeftOut
      <3>1. page >= totalPages
        BY <1>2, <1>11
      <3>2. \A d \in there : HasCome(d)
        BY <1>1, <3>1 DEF PortfoliosInv, NoneLeftOut
      <3>3. there' \subseteq M!ToSet(read)'
        BY <1>1, <1>4, <3>2
      <3>4. asked' # {"find"} /\ ~(page' > 0)
        BY <2>1
      <3> QED BY <3>3, <3>4 DEF NoneLeftOut
    <2>5. OnceOnly'
      <3> SUFFICES ASSUME Undisturbed, M!Stored = there PROVE OnceOnly'
        BY <1>1, <1>5, <1>7 DEF OnceOnly
      <3>1. totalPages = M!Pages /\ page >= totalPages
        BY <1>1, <1>2, <1>11 DEF PortfoliosInv, OnceOnly
      <3>2. Cardinality(there) <= page * Limit /\ Cardinality(there) \in Nat
        BY <1>8, <3>1, NewerCounted
      <3>3. /\ Len(read) = (page - 1) * Limit
            /\ Len(data) = IF page * Limit < Cardinality(there) THEN Limit
                           ELSE Cardinality(there) - (page - 1) * Limit
        BY <1>1 DEF PortfoliosInv, OnceOnly
      <3>4. Len(read') = Cardinality(there)
        BY <1>3, <1>8, <3>2, <3>3, PortfoliosAssumed
      <3> QED BY <1>1, <2>1, <3>4 DEF OnceOnly
    <2> QED BY <2>2, <2>3, <2>4, <2>5 DEF PortfoliosInv
  <1> QED BY <1>10, <1>11

LEMMA PortfoliosStep == PortfoliosInv /\ [M!PortfoliosNext]_mongodb => PortfoliosInv'
  BY PortfolioCreated, PortfolioRemoved, PortfolioUnmoved, ReadingStarts, PageFound,
     PagesCounted, PageTurned
    DEF M!PortfoliosNext

LEMMA PortfoliosAlways == Spec => []PortfoliosInv
  <1>1. Init => PortfoliosInv
    BY PortfoliosInitially DEF Init
  <1>2. PortfoliosInv /\ [Next]_vars => PortfoliosInv'
    BY Steps, PortfoliosStep
  <1> QED BY <1>1, <1>2, PTL DEF Spec

LEMMA PagesRead == PortfoliosInv => M!NoneMissed /\ M!ReadOnce
  <1> SUFFICES ASSUME PortfoliosInv PROVE M!NoneMissed /\ M!ReadOnce
    OBVIOUS
  <1>1. M!NoneMissed
    BY DEF PortfoliosInv, NoneLeftOut, Undisturbed, M!NoneMissed, M!Finished
  <1>2. M!ReadOnce
    BY PortfolioSizes DEF PortfoliosInv, OnceOnly, Undisturbed, M!ReadOnce, M!Finished
  <1> QED BY <1>1, <1>2

-----------------------------------------------------------------------------
(* ScyllaDB.                                                               *)

\* What was deleted, and given no user since, has none: no other column that
\* an update writes gives it one.
Owned == \A s \in ended : row[s].user_id = Null

\* A count that has been read is the number of the rows it counted.
Counted ==
  listing.pc = "counted" =>
    IsFiniteSet(listing.stay) /\ listing.total = Cardinality(listing.stay)

ScyllaInv ==
  /\ S!ScyllaTypeOK
  /\ Owned /\ IsFiniteSet(S!Rows) /\ Counted
  /\ S!OnePageHasAll

LEMMA ScyllaAssumed ==
  Null \notin Owners /\ Null \notin BOOLEAN /\ PageRows \in Nat \ {0}
  BY InfrastructureAssumption DEF S!ScyllaAssumption

\* The sizes the module speaks of are those of FiniteSets.
LEMMA ScyllaSizes == \A X : S!Cardinality(X) = Cardinality(X)
  BY DEF S!Cardinality, Cardinality

LEMMA ScyllaInitially == S!ScyllaInit => ScyllaInv
  <1> SUFFICES ASSUME S!ScyllaInit PROVE ScyllaInv
    OBVIOUS
  <1>1. S!Rows = {}
    BY DEF S!ScyllaInit, S!NoRow, S!Rows
  <1>2. S!ScyllaTypeOK
    BY DEF S!ScyllaInit, S!ScyllaTypeOK, S!NoRow, S!Row, S!Listing
  <1>3. listing.pc = "none" /\ ended = {}
    BY DEF S!ScyllaInit, S!Listing
  <1> QED BY <1>1, <1>2, <1>3, FS_EmptySet DEF ScyllaInv, Owned, Counted, S!OnePageHasAll

\* What an upsert leaves of the row, and what it makes of it.
LEMMA Upserted ==
  ASSUME ScyllaInv, NEW s \in Sessions, NEW g \in S!Given, S!Upsert(s, g)
  PROVE  /\ row' \in [Sessions -> S!Row] /\ row \in [Sessions -> S!Row]
         /\ \A r \in Sessions \ {s} : row'[r] = row[r]
         /\ row'[s].there = TRUE
         /\ row'[s].user_id = IF g.user_id = Null THEN row[s].user_id ELSE g.user_id
         /\ ended' = IF g.user_id = Null THEN ended ELSE ended \ {s}
         /\ listing' = listing
  <1>1. row \in [Sessions -> S!Row] /\ row[s] \in S!Row
    BY DEF ScyllaInv, S!ScyllaTypeOK
  <1>2. row' = [row EXCEPT ![s] = S!ColumnsSet(s, g)]
    BY DEF S!Upsert
  <1>3. S!ColumnsSet(s, g) \in S!Row
    BY <1>1 DEF S!ColumnsSet, S!Given, S!Row
  <1>4. /\ S!ColumnsSet(s, g).there = TRUE
        /\ S!ColumnsSet(s, g).user_id = IF g.user_id = Null THEN row[s].user_id ELSE g.user_id
    BY DEF S!ColumnsSet
  <1>5. row'[s] = S!ColumnsSet(s, g) /\ row' \in [Sessions -> S!Row]
    BY <1>1, <1>2, <1>3
  <1> QED BY <1>1, <1>2, <1>4, <1>5 DEF S!Upsert

LEMMA ScyllaUpserts ==
  ASSUME ScyllaInv, NEW s \in Sessions, NEW g \in S!Given, S!Upsert(s, g)
  PROVE  ScyllaInv'
  <1>1. S!Rows' = S!Rows \cup {s}
    BY Upserted DEF S!Rows
  <1>2. IsFiniteSet(S!Rows')
    BY <1>1, FS_AddElement DEF ScyllaInv
  <1>3. ended \subseteq Sessions
    BY DEF ScyllaInv, S!ScyllaTypeOK
  <1>4. Owned'
    <2>1. /\ \A r \in Sessions \ {s} : row'[r].user_id = row[r].user_id
          /\ ended' \subseteq ended /\ (g.user_id # Null => s \notin ended')
          /\ g.user_id = Null => row'[s].user_id = row[s].user_id
      BY Upserted
    <2> QED BY <1>3, <2>1 DEF Owned, ScyllaInv
  <1>5. (S!OnePageHasAll)' /\ Counted'
    BY Upserted DEF ScyllaInv, S!OnePageHasAll, S!PagesOf, Counted
  <1>6. S!ScyllaTypeOK'
    BY <1>3, Upserted DEF ScyllaInv, S!ScyllaTypeOK
  <1> QED BY <1>2, <1>4, <1>5, <1>6 DEF ScyllaInv

LEMMA ScyllaDeletes ==
  ASSUME ScyllaInv, NEW s \in Sessions, S!DeleteSession(s)
  PROVE  ScyllaInv'
  <1>1. row \in [Sessions -> S!Row] /\ ended \subseteq Sessions /\ IsFiniteSet(S!Rows)
    BY DEF ScyllaInv, S!ScyllaTypeOK
  <1>2. /\ row' = [row EXCEPT ![s] = S!NoRow] /\ ended' = ended \cup {s} /\ listing' = listing
        /\ S!NoRow \in S!Row /\ S!NoRow.user_id = Null /\ S!NoRow.there = FALSE
    BY DEF S!DeleteSession, S!Deleted, S!NoRow, S!Row
  <1>3. S!Rows' = S!Rows \ {s}
    BY <1>1, <1>2 DEF S!Rows
  <1>4. IsFiniteSet(S!Rows')
    BY <1>1, <1>3, FS_RemoveElement
  <1>5. Owned'
    BY <1>1, <1>2 DEF Owned, ScyllaInv
  <1>6. (S!OnePageHasAll)' /\ Counted'
    BY <1>2 DEF ScyllaInv, S!OnePageHasAll, S!PagesOf, Counted
  <1>7. S!ScyllaTypeOK'
    BY <1>1, <1>2 DEF ScyllaInv, S!ScyllaTypeOK
  <1> QED BY <1>4, <1>5, <1>6, <1>7 DEF ScyllaInv

LEMMA ScyllaCounts ==
  ASSUME ScyllaInv, S!CountSessions
  PROVE  ScyllaInv'
  <1>1. IsFiniteSet(S!Rows) /\ S!Rows \subseteq Sessions
    BY DEF S!Rows, ScyllaInv
  <1>2. Cardinality(S!Rows) \in Nat
    BY <1>1, FS_CardinalityType
  <1>3. /\ listing'.pc = "counted" /\ listing'.stay = S!Rows
        /\ listing'.total = Cardinality(S!Rows) /\ listing'.data = {}
        /\ listing'.grown \in BOOLEAN
    BY ScyllaSizes DEF S!CountSessions, S!Listing
  <1>4. Counted' /\ (S!OnePageHasAll)'
    BY <1>1, <1>2, <1>3 DEF Counted, S!OnePageHasAll
  <1>5. UNCHANGED <<row, ended>>
    BY DEF S!CountSessions
  <1>6. S!ScyllaTypeOK'
    BY <1>1, <1>2, <1>3, <1>5 DEF ScyllaInv, S!ScyllaTypeOK, S!Row
  <1>7. Owned' /\ IsFiniteSet(S!Rows')
    BY <1>5 DEF ScyllaInv, Owned, S!Rows
  <1> QED BY <1>4, <1>6, <1>7 DEF ScyllaInv

\* If what is selected from was counted, and the count fits into one page, then
\* the page takes all of it.
LEMMA ScyllaSelects ==
  ASSUME ScyllaInv, S!SelectPage
  PROVE  ScyllaInv'
  <1>1. PICK now : now = S!Rows
    OBVIOUS
  <1>2. PICK size, rows :
          /\ size = IF Cardinality(now) < PageRows THEN Cardinality(now) ELSE PageRows
          /\ rows \in S!kSubset(size, now)
          /\ listing' = S!Listing("listed", listing.total, listing.stay \cap now,
                                  rows, ~(now \subseteq listing.stay))
    BY <1>1, ScyllaSizes, Zenon DEF S!SelectPage
  <1>3. /\ IsFiniteSet(listing.stay)
        /\ listing.total = Cardinality(listing.stay) /\ listing.total \in Nat
        /\ listing.stay \subseteq Sessions
    BY DEF ScyllaInv, Counted, S!SelectPage, S!ScyllaTypeOK
  <1>4. /\ rows \subseteq now /\ now \subseteq Sessions
        /\ Cardinality(now) < PageRows => Cardinality(rows) = Cardinality(now)
        /\ ~(Cardinality(now) < PageRows) => Cardinality(rows) = PageRows
    BY <1>1, <1>2, ScyllaSizes DEF S!kSubset, S!Rows
  <1>5. IsFiniteSet(now)
    BY <1>1 DEF ScyllaInv
  <1>6. /\ listing'.pc = "listed" /\ listing'.total = listing.total
        /\ listing'.stay = listing.stay \cap now /\ listing'.data = rows
    BY <1>2 DEF S!Listing
  <1>7. listing'.grown \in BOOLEAN /\ (~listing'.grown => now \subseteq listing.stay)
    <2>1. CASE now \subseteq listing.stay
      BY <1>2, <2>1 DEF S!Listing
    <2>2. CASE ~(now \subseteq listing.stay)
      BY <1>2, <2>2 DEF S!Listing
    <2> QED BY <2>1, <2>2
  <1>8. (S!OnePageHasAll)'
    <2>1. SUFFICES ASSUME S!PagesOf(listing.total) <= 1, now \subseteq listing.stay
                   PROVE  rows = now
      BY <1>6, <1>7 DEF S!OnePageHasAll, S!PagesOf
    <2>2. listing.total <= PageRows
      BY <1>3, <2>1, ScyllaAssumed DEF S!PagesOf
    <2>3. Cardinality(now) <= Cardinality(listing.stay) /\ Cardinality(now) \in Nat
      BY <1>3, <1>5, <2>1, FS_Subset, FS_CardinalityType
    <2>4. Cardinality(rows) = Cardinality(now)
      BY <1>3, <1>4, <2>2, <2>3, ScyllaAssumed
    <2> QED BY <1>4, <1>5, <2>4, FS_Subset
  <1>9. Counted'
    BY <1>6 DEF Counted
  <1>10. UNCHANGED <<row, ended>>
    BY DEF S!SelectPage
  <1>11. S!ScyllaTypeOK'
    BY <1>3, <1>4, <1>6, <1>7, <1>10 DEF ScyllaInv, S!ScyllaTypeOK, S!Row
  <1>12. Owned' /\ IsFiniteSet(S!Rows')
    BY <1>10 DEF ScyllaInv, Owned, S!Rows
  <1> QED BY <1>8, <1>9, <1>11, <1>12 DEF ScyllaInv

\* create, update and deactivateSession are upserts.
LEMMA ScyllaWrites ==
  ASSUME NEW s \in Sessions,
         \/ S!DeactivateSession(s)
         \/ \E g \in S!Given : S!CreateSession(s, g) \/ S!UpdateSession(s, g)
  PROVE  \E g \in S!Given : S!Upsert(s, g)
  <1>1. [user_id |-> Null, is_active |-> FALSE] \in S!Given
    BY DEF S!Given
  <1> QED BY <1>1 DEF S!DeactivateSession, S!CreateSession, S!UpdateSession

LEMMA ScyllaStep == ScyllaInv /\ [S!ScyllaNext]_scylladb => ScyllaInv'
  <1>1. ASSUME ScyllaInv, UNCHANGED scylladb PROVE ScyllaInv'
    BY <1>1 DEF scylladb, ScyllaInv, S!ScyllaTypeOK, S!Row, Owned, S!Rows, Counted,
                S!OnePageHasAll, S!PagesOf
  <1> QED
    BY <1>1, ScyllaWrites, ScyllaUpserts, ScyllaDeletes, ScyllaCounts, ScyllaSelects
    DEF S!ScyllaNext

LEMMA ScyllaAlways == Spec => []ScyllaInv
  <1>1. Init => ScyllaInv
    BY ScyllaInitially DEF Init
  <1>2. ScyllaInv /\ [Next]_vars => ScyllaInv'
    BY Steps, ScyllaStep
  <1> QED BY <1>1, <1>2, PTL DEF Spec

\* The user of a session that is there, as SessionTable sees it.
Owner == [s \in Sessions |-> IF s \in ended THEN Null ELSE row[s].user_id]
Answers == [u \in Owners |-> S!FindActiveSessionsByUserId(u)]

LEMMA TableInitially == S!ScyllaInit => Table!Init
  BY ScyllaAssumed
    DEF S!ScyllaInit, S!NoRow, Table!Init, S!FindActiveSessionsByUserId

\* What a write of one row makes of the answers: the session is listed for the
\* user of the row, if there is one, and only when the row is active.
LEMMA TableListed ==
  ASSUME NEW s \in Sessions, NEW b \in BOOLEAN,
         \A r \in Sessions \ {s} : row'[r] = row[r],
         (row'[s].is_active = TRUE) <=> b
  PROVE  Answers' = Table!Listed(row'[s].user_id, s, b)
  <1>1. ASSUME NEW u \in Owners
        PROVE  S!FindActiveSessionsByUserId(u)'
               = IF b /\ row'[s].user_id = u THEN S!FindActiveSessionsByUserId(u) \cup {s}
                 ELSE S!FindActiveSessionsByUserId(u) \ {s}
    BY DEF S!FindActiveSessionsByUserId
  <1> QED BY <1>1 DEF Answers, Table!Listed

LEMMA TableUpsert ==
  ASSUME ScyllaInv, ScyllaInv', NEW s \in Sessions, NEW g \in S!Given, S!Upsert(s, g)
  PROVE  [Table!Next]_<<Owner, Answers>>
  <1>1. PICK b \in BOOLEAN : (row'[s].is_active = TRUE) <=> b
    OBVIOUS
  <1>2. Answers' = Table!Listed(row'[s].user_id, s, b)
    BY <1>1, Upserted, TableListed
  <1>3. Owner = [r \in Sessions |-> row[r].user_id] /\ Owner' = [r \in Sessions |-> row'[r].user_id]
    <2>1. \A r \in Sessions : r \in ended => row[r].user_id = Null
      BY DEF ScyllaInv, Owned
    <2>2. \A r \in Sessions : r \in ended' => row'[r].user_id = Null
      BY DEF ScyllaInv, Owned
    <2> QED BY <2>1, <2>2 DEF Owner
  <1>4. CASE g.user_id # Null
    <2>1. g.user_id \in Owners /\ row'[s].user_id = g.user_id
      BY <1>4, Upserted DEF S!Given
    <2>2. Owner' = [Owner EXCEPT ![s] = g.user_id]
      BY <1>3, <2>1, Upserted
    <2> QED BY <1>2, <2>1, <2>2 DEF Table!Next, Table!Assign, Owner, Answers
  <1>5. CASE g.user_id = Null
    <2>1. row'[s].user_id = row[s].user_id
      BY <1>5, Upserted
    <2>2. Owner' = Owner
      BY <1>3, <2>1, Upserted
    <2>3. CASE row[s].user_id = Null
      <3>1. \A u \in Owners : S!FindActiveSessionsByUserId(u)' = S!FindActiveSessionsByUserId(u)
        <4>1. /\ row[s].user_id \notin Owners /\ row'[s].user_id \notin Owners
              /\ \A r \in Sessions \ {s} : row'[r] = row[r]
          BY <2>1, <2>3, ScyllaAssumed, Upserted
        <4> QED BY <4>1 DEF S!FindActiveSessionsByUserId
      <3> QED BY <2>2, <3>1 DEF Answers
    <2>4. CASE row[s].user_id # Null
      <3>1. Table!There(s) /\ Answers' = Table!Listed(Owner[s], s, b)
        BY <1>2, <1>3, <2>1, <2>4 DEF Table!There, Owner
      <3> QED BY <2>2, <3>1 DEF Table!Next, Table!Update, Owner, Answers
    <2> QED BY <2>3, <2>4
  <1> QED BY <1>4, <1>5

LEMMA TableDelete ==
  ASSUME ScyllaInv, ScyllaInv', NEW s \in Sessions, S!DeleteSession(s)
  PROVE  Table!Delete(s)
  <1>1. /\ row \in [Sessions -> S!Row]
        /\ row'[s].user_id = Null
        /\ \A r \in Sessions \ {s} : row'[r] = row[r]
    BY DEF ScyllaInv, S!ScyllaTypeOK, S!DeleteSession, S!Deleted, S!NoRow
  <1>2. \A r \in Sessions \ {s} : r \in ended' <=> r \in ended
    BY DEF S!DeleteSession
  <1>3. Owner' = [Owner EXCEPT ![s] = Null]
    BY <1>1, <1>2 DEF Owner
  <1>4. ASSUME NEW v \in Owners
        PROVE  S!FindActiveSessionsByUserId(v)' = S!FindActiveSessionsByUserId(v) \ {s}
    BY <1>1, ScyllaAssumed DEF S!FindActiveSessionsByUserId
  <1>5. Answers' = Table!Listed(Null, s, FALSE)
    BY <1>4 DEF Answers, Table!Listed
  <1> QED BY <1>3, <1>5 DEF Table!Delete, Owner, Answers

LEMMA TableStep ==
  ASSUME ScyllaInv, ScyllaInv', [S!ScyllaNext]_scylladb
  PROVE  [Table!Next]_<<Owner, Answers>>
  <1>1. ASSUME NEW s \in Sessions, S!DeleteSession(s) PROVE Table!Next
    BY <1>1, TableDelete DEF Table!Next
  <1>2. ASSUME S!SelectPage \/ S!CountSessions \/ UNCHANGED scylladb
        PROVE  UNCHANGED <<Owner, Answers>>
    <2>1. row' = row /\ ended' = ended
      BY <1>2 DEF S!SelectPage, S!CountSessions, scylladb
    <2> QED BY <2>1 DEF Owner, Answers, S!FindActiveSessionsByUserId
  <1> QED BY <1>1, <1>2, ScyllaWrites, TableUpsert DEF S!ScyllaNext

\* To whoever asks findActiveSessionsByUserId, the table of upserts is one in
\* which a session is made by a write that names its user: a row that any other
\* write leaves behind a deletion is never an answer, until it is given a user.
THEOREM UpsertsAreHidden == Spec => UpsertsStayHidden
  <1>1. Init => Table!Init
    BY TableInitially DEF Init
  <1>2. ScyllaInv /\ ScyllaInv' /\ [Next]_vars => [Table!Next]_<<Owner, Answers>>
    BY Steps, TableStep
  <1>3. ScyllaInv /\ ScyllaInv' /\ [Next]_vars
        => [Table!Next]_<<[s \in Sessions |-> IF s \in ended THEN Null ELSE row[s].user_id],
                          [u \in Owners |-> S!FindActiveSessionsByUserId(u)]>>
    BY <1>2 DEF Owner, Answers
  <1> QED BY <1>1, <1>3, ScyllaAlways, PTL DEF Spec, UpsertsStayHidden, Table!Spec

-----------------------------------------------------------------------------
(* EVM.                                                                    *)

\* A wanted token still to be looked at, or that was read as nothing, or found.
Due(t) ==
  \/ t \in E!ToSet(left)
  \/ 0 \in had[t]
  \/ \E i \in DOMAIN tokens : tokens[i][1] = t

\* From its first call on, the wallet had what it has.
Knows == call # "idle" => \A t \in E!Assets : balance[t] \in had[t]

\* A balance that has been read is one the wallet had since the request began.
Reads ==
  reading # {} =>
    \E n \in 0..Most :
      /\ reading = {n}
      /\ \/ call = "network" /\ wanted = {Ether} /\ n \in had[Ether]
         \/ call = "loop" /\ left # <<>> /\ Head(left) \in Tokens /\ n \in had[Head(left)]

EvmInv ==
  /\ E!EvmTypeOK /\ had \in [E!Assets -> SUBSET (0..Most)]
  /\ Knows /\ Reads
  /\ call \in {"idle", "balance", "network"} => tokens = <<>>
  /\ call = "balance" => wanted = {Ether}
  /\ call = "loop" \/ (call = "network" /\ reading = {}) => \A t \in wanted \ skipped : Due(t)
  /\ E!ListedWasHeld /\ E!HeldIsListed

LEMMA EvmAssumed ==
  /\ Ether \notin Tokens /\ NoAddress \notin Tokens \cup {Ether}
  /\ Lists \subseteq Seq(Tokens \cup {NoAddress})
  /\ Most \in Nat \ {0}
  BY InfrastructureAssumption DEF E!EvmAssumption

LEMMA EvmSizes == \A X : E!Cardinality(X) = Cardinality(X)
  BY DEF E!Cardinality, Cardinality

\* What is appended for a reading: a sequence of one, or of none.
LEMMA SequenceOfOne == ASSUME NEW x PROVE E!SetToSeq({x}) = <<x>>
  <1>1. Cardinality({x}) = 1
    BY FS_Singleton
  <1>2. PICK f : f = [i \in 1..1 |-> x]
    OBVIOUS
  <1>3. f \in [1..1 -> {x}] /\ E!IsInjective(f)
    BY <1>2 DEF E!IsInjective
  <1>4. E!SetToSeq({x}) \in [1..1 -> {x}]
    BY <1>1, <1>3, EvmSizes DEF E!SetToSeq
  <1> QED BY <1>4

LEMMA SequenceOfNone == E!SetToSeq({}) = <<>>
  <1>1. Cardinality({}) = 0 /\ 1..0 = {}
    BY FS_EmptySet
  <1>2. PICK f : f = [i \in 1..0 |-> 0]
    OBVIOUS
  <1>3. f \in [1..0 -> {}] /\ E!IsInjective(f)
    BY <1>1, <1>2 DEF E!IsInjective
  <1>4. E!SetToSeq({}) \in [1..0 -> {}]
    BY <1>1, <1>3, EvmSizes DEF E!SetToSeq
  <1> QED BY <1>4

LEMMA EvmInitially == E!EvmInit => EvmInv
  BY EvmAssumed
    DEF E!EvmInit, EvmInv, E!EvmTypeOK, E!Assets, Knows, Reads, E!ListedWasHeld, E!HeldIsListed

\* A payment adds to what the wallet had, and takes nothing away.
LEMMA EvmTransfer ==
  ASSUME EvmInv, NEW t \in E!Assets, NEW n \in 0..Most, E!Transfer(t, n)
  PROVE  EvmInv'
  <1>1. /\ balance \in [E!Assets -> 0..Most] /\ had \in [E!Assets -> SUBSET (0..Most)]
        /\ balance' = [balance EXCEPT ![t] = n]
        /\ UNCHANGED <<call, left, reading, tokens, wanted, skipped>>
    BY DEF EvmInv, E!EvmTypeOK, E!Transfer
  <1>2. /\ had' \in [E!Assets -> SUBSET (0..Most)]
        /\ had'[t] = had[t] \cup {n}
        /\ \A a \in E!Assets : had[a] \subseteq had'[a]
        /\ \A a \in E!Assets \ {t} : had'[a] = had[a]
    BY <1>1 DEF E!Transfer
  <1>3. E!EvmTypeOK'
    BY <1>1 DEF EvmInv, E!EvmTypeOK, E!Assets
  <1>4. Knows'
    BY <1>1, <1>2 DEF EvmInv, Knows, E!Assets
  <1>5. Reads'
    BY <1>1, <1>2 DEF EvmInv, Reads, E!Assets
  <1>6. (E!ListedWasHeld)'
    <2>1. \A i \in DOMAIN tokens : tokens[i][1] \in E!Assets
      BY DEF EvmInv, E!EvmTypeOK
    <2> QED BY <1>1, <1>2, <2>1 DEF EvmInv, E!ListedWasHeld
  <1>7. wanted \subseteq E!Assets
    BY DEF EvmInv, E!EvmTypeOK
  <1>8. (E!HeldIsListed)'
    BY <1>1, <1>2, <1>7 DEF EvmInv, E!HeldIsListed
  <1>9. ASSUME NEW a \in E!Assets, Due(a) PROVE Due(a)'
    BY <1>1, <1>2, <1>9 DEF Due, E!ToSet
  <1>10. (E!Assets)' = E!Assets
    BY DEF E!Assets
  <1> QED BY <1>1, <1>2, <1>3, <1>4, <1>5, <1>6, <1>7, <1>8, <1>9, <1>10 DEF EvmInv

LEMMA EvmAsks ==
  ASSUME EvmInv, \/ \E list \in Lists : E!GetWalletTokens(list)
                 \/ E!GetWalletBalance \/ E!GetBalance \/ E!RequestFails
  PROVE  EvmInv'
  <1>1. /\ balance \in [E!Assets -> 0..Most] /\ had \in [E!Assets -> SUBSET (0..Most)]
        /\ Ether \in E!Assets /\ Tokens \subseteq E!Assets
    BY DEF EvmInv, E!EvmTypeOK, E!Assets
  <1>2. (E!Assets)' = E!Assets
    BY DEF E!Assets
  <1>3. ASSUME NEW list \in Lists, E!GetWalletTokens(list) PROVE EvmInv'
    <2>1. /\ call = "idle" /\ call' = "network" /\ left' = list
          /\ wanted' = E!ToSet(list) \ {NoAddress} /\ had' = [t \in E!Assets |-> {balance[t]}]
          /\ UNCHANGED <<balance, reading, tokens, skipped>>
      BY <1>3 DEF E!GetWalletTokens
    <2>2. list \in Seq(Tokens \cup {NoAddress})
      BY EvmAssumed
    <2>3. wanted' \subseteq Tokens
      BY <2>1, <2>2 DEF E!ToSet
    <2>4. \A t \in wanted' : Due(t)'
      BY <2>1 DEF Due
    <2>5. tokens' = <<>> /\ reading' = {}
      BY <2>1 DEF EvmInv, Reads
    <2> QED
      BY <1>1, <1>2, <2>1, <2>2, <2>3, <2>4, <2>5
        DEF EvmInv, E!EvmTypeOK, Knows, Reads, E!ListedWasHeld, E!HeldIsListed
  <1>4. CASE E!GetWalletBalance
    <2>1. /\ call = "idle" /\ call' = "balance" /\ wanted' = {Ether}
          /\ had' = [t \in E!Assets |-> {balance[t]}]
          /\ UNCHANGED <<balance, left, reading, tokens, skipped>>
      BY <1>4 DEF E!GetWalletBalance
    <2>2. tokens' = <<>> /\ reading' = {}
      BY <2>1 DEF EvmInv, Reads
    <2> QED
      BY <1>1, <1>2, <2>1, <2>2
        DEF EvmInv, E!EvmTypeOK, Knows, Reads, E!ListedWasHeld, E!HeldIsListed
  <1>5. CASE E!GetBalance
    <2>1. /\ call = "balance" /\ call' = "network" /\ reading' = {balance[Ether]}
          /\ UNCHANGED <<balance, left, tokens, wanted, had, skipped>>
      BY <1>5 DEF E!GetBalance
    <2>2. wanted = {Ether} /\ tokens = <<>> /\ balance[Ether] \in had[Ether]
          /\ balance[Ether] \in 0..Most
      BY <1>1, <2>1 DEF EvmInv, Knows
    <2> QED
      BY <1>1, <1>2, <2>1, <2>2
        DEF EvmInv, E!EvmTypeOK, Knows, Reads, E!ListedWasHeld, E!HeldIsListed
  <1>6. CASE E!RequestFails
    <2>1. /\ call \in {"network", "balance"} /\ call' = "failed" /\ reading' = {}
          /\ UNCHANGED <<balance, left, tokens, wanted, had, skipped>>
      BY <1>6 DEF E!RequestFails
    <2> QED
      BY <1>1, <1>2, <2>1
        DEF EvmInv, E!EvmTypeOK, Knows, Reads, E!ListedWasHeld, E!HeldIsListed
  <1> QED BY <1>3, <1>4, <1>5, <1>6

LEMMA EvmNetwork ==
  ASSUME EvmInv, E!GetNetwork
  PROVE  EvmInv'
  <1>1. /\ call = "network" /\ reading' = {} /\ tokens = <<>>
        /\ UNCHANGED <<balance, left, wanted, had, skipped>>
    BY DEF EvmInv, E!GetNetwork
  <1>2. (E!Assets)' = E!Assets /\ Ether \in E!Assets
    BY DEF E!Assets
  <1>3. CASE reading = {}
    <2>1. call' = "loop"
      BY <1>3 DEF E!GetNetwork
    <2>2. tokens' = <<>>
      BY <1>3, EvmSizes, FS_EmptySet DEF E!GetNetwork
    <2>3. \A t \in wanted \ skipped : Due(t)'
      BY <1>1, <1>3, <2>2 DEF EvmInv, Due
    <2> QED
      BY <1>1, <1>2, <2>1, <2>2, <2>3
        DEF EvmInv, E!EvmTypeOK, Knows, Reads, E!ListedWasHeld, E!HeldIsListed
  <1>4. CASE reading # {}
    <2>1. PICK n \in 0..Most : reading = {n} /\ wanted = {Ether} /\ n \in had[Ether]
      BY <1>1, <1>4 DEF EvmInv, Reads
    <2>2. call' = "done"
      BY <1>4 DEF E!GetNetwork
    <2>3. Cardinality(reading) = 1 /\ (CHOOSE m \in reading : TRUE) = n
      BY <2>1, FS_Singleton
    <2>4. tokens' = [i \in 1..1 |-> <<Ether, n>>]
      BY <2>3, EvmSizes DEF E!GetNetwork
    <2>5. tokens' \in Seq(E!Assets \X (0..Most)) /\ DOMAIN tokens' = {1} /\ tokens'[1] = <<Ether, n>>
      BY <1>2, <2>4
    <2> HIDE <2>4
    <2>6. (E!ListedWasHeld)' /\ (E!HeldIsListed)'
      BY <1>1, <2>1, <2>5, EvmAssumed DEF E!ListedWasHeld, E!HeldIsListed
    <2> QED
      BY <1>1, <1>2, <2>2, <2>5, <2>6 DEF EvmInv, E!EvmTypeOK, Knows, Reads
  <1> QED BY <1>3, <1>4

\* The loop leaves an address behind, and appends what was found there: what
\* was due stays due, but for the address itself.
LEMMA Passes ==
  ASSUME left \in Seq(Tokens \cup {NoAddress}), left # <<>>, left' = Tail(left), had' = had,
         \A t : (\E i \in DOMAIN tokens : tokens[i][1] = t)
                => (\E i \in DOMAIN tokens' : tokens'[i][1] = t)
  PROVE  /\ left' \in Seq(Tokens \cup {NoAddress})
         /\ \A t : t # Head(left) /\ Due(t) => Due(t)'
  <1>1. left' \in Seq(Tokens \cup {NoAddress}) /\ Len(left') = Len(left) - 1
        /\ \A i \in 1..Len(left') : left'[i] = left[i + 1]
    BY HeadTailProperties
  <1>2. \A t : t \in E!ToSet(left) /\ t # Head(left) => t \in E!ToSet(left')
    <2> TAKE t
    <2> SUFFICES ASSUME NEW i \in 1..Len(left), t = left[i], t # Head(left)
                 PROVE  t \in E!ToSet(left')
      BY DEF E!ToSet
    <2>1. i # 1 /\ Len(left) \in Nat
      OBVIOUS
    <2>2. i - 1 \in 1..Len(left') /\ left'[i - 1] = t
      <3>1. i - 1 \in 1..Len(left')
        BY <1>1, <2>1
      <3>2. left'[i - 1] = left[(i - 1) + 1]
        BY <1>1, <3>1
      <3> QED BY <2>1, <3>1, <3>2
    <2>3. DOMAIN left' = 1..Len(left')
      BY <1>1
    <2> QED BY <2>2, <2>3 DEF E!ToSet
  <1> QED BY <1>1, <1>2 DEF Due

LEMMA EvmPasses ==
  ASSUME EvmInv, E!SkipNoAddress \/ E!Rejected
  PROVE  EvmInv'
  <1>1. /\ call = "loop" /\ left # <<>> /\ left' = Tail(left)
        /\ UNCHANGED <<balance, call, tokens, wanted, had>>
    BY DEF E!SkipNoAddress, E!Rejected, E!Others
  <1>2. left \in Seq(Tokens \cup {NoAddress}) /\ Head(left) \in Tokens \cup {NoAddress}
    BY <1>1 DEF EvmInv, E!EvmTypeOK
  <1>3. reading' = {} /\ skipped \subseteq skipped' /\ skipped' \subseteq Tokens
        /\ (Head(left) = NoAddress \/ Head(left) \in skipped')
    <2>1. CASE E!SkipNoAddress
      <3>1. reading = {}
        BY <2>1, EvmAssumed DEF EvmInv, Reads, E!SkipNoAddress
      <3> QED BY <2>1, <3>1 DEF EvmInv, E!EvmTypeOK, E!SkipNoAddress
    <2>2. CASE E!Rejected
      BY <1>2, <2>2 DEF EvmInv, E!EvmTypeOK, E!Rejected
    <2> QED BY <2>1, <2>2
  <1>4. /\ left' \in Seq(Tokens \cup {NoAddress})
        /\ \A t : t # Head(left) /\ Due(t) => Due(t)'
    BY <1>1, <1>2, Passes
  <1>5. NoAddress \notin wanted /\ (E!Assets)' = E!Assets
    BY EvmAssumed DEF EvmInv, E!EvmTypeOK, E!Assets
  <1>6. \A t \in wanted' \ skipped' : Due(t)'
    <2>1. \A t \in wanted \ skipped : Due(t)
      BY <1>1 DEF EvmInv
    <2> QED BY <1>1, <1>3, <1>4, <1>5, <2>1
  <1> QED
    BY <1>1, <1>3, <1>4, <1>5, <1>6
      DEF EvmInv, E!EvmTypeOK, Knows, Reads, E!ListedWasHeld, E!HeldIsListed

LEMMA EvmReads ==
  ASSUME EvmInv, E!BalanceOf
  PROVE  EvmInv'
  <1>1. /\ call = "loop" /\ left # <<>> /\ Head(left) # NoAddress /\ reading' = {balance[Head(left)]}
        /\ UNCHANGED <<balance, call, left, tokens, wanted, had, skipped>>
    BY DEF E!BalanceOf
  <1>2. Head(left) \in Tokens /\ Head(left) \in E!Assets /\ (E!Assets)' = E!Assets
    BY <1>1 DEF EvmInv, E!EvmTypeOK, E!Assets
  <1>3. balance[Head(left)] \in 0..Most /\ balance[Head(left)] \in had[Head(left)]
    BY <1>1, <1>2 DEF EvmInv, E!EvmTypeOK, Knows
  <1>4. Reads' /\ reading' \subseteq 0..Most
    BY <1>1, <1>2, <1>3 DEF Reads
  <1>5. \A t \in wanted' \ skipped' : Due(t)'
    BY <1>1 DEF EvmInv, Due
  <1> QED
    BY <1>1, <1>2, <1>4, <1>5
      DEF EvmInv, E!EvmTypeOK, Knows, E!ListedWasHeld, E!HeldIsListed

\* What was read is appended unless it is nothing, and then the wallet had
\* nothing of it at that moment.
LEMMA EvmFinds ==
  ASSUME EvmInv, E!AllAnswered
  PROVE  EvmInv'
  <1>1. /\ call = "loop" /\ reading # {} /\ left' = Tail(left) /\ reading' = {}
        /\ UNCHANGED <<balance, call, wanted, had, skipped>>
    BY DEF E!AllAnswered
  <1>2. PICK n \in 0..Most : /\ reading = {n} /\ left # <<>> /\ Head(left) \in Tokens
                             /\ n \in had[Head(left)]
    BY <1>1 DEF EvmInv, Reads
  <1>3. PICK a : a = Head(left)
    OBVIOUS
  <1>4. tokens \in Seq(E!Assets \X (0..Most)) /\ a \in E!Assets /\ (E!Assets)' = E!Assets
    BY <1>2, <1>3 DEF EvmInv, E!EvmTypeOK, E!Assets
  <1>5. CASE n > 0
    <2>1. {x \in {Head(left)} \X reading : E!Included(x[2])} = {<<a, n>>}
      BY <1>2, <1>3, <1>5 DEF E!Included
    <2>2. tokens' = Append(tokens, <<a, n>>)
      <3>1. tokens' = tokens \o <<(<<a, n>>)>>
        BY <2>1, SequenceOfOne DEF E!AllAnswered
      <3> QED BY <1>4, <3>1
    <2>3. /\ tokens' \in Seq(E!Assets \X (0..Most))
          /\ Len(tokens') = Len(tokens) + 1 /\ tokens'[Len(tokens) + 1] = <<a, n>>
          /\ \A i \in 1..Len(tokens) : tokens'[i] = tokens[i]
      BY <1>2, <1>4, <2>2
    <2> HIDE <2>2
    <2>4. DOMAIN tokens = 1..Len(tokens) /\ DOMAIN tokens' = 1..(Len(tokens) + 1)
          /\ Len(tokens) \in Nat
      BY <1>4, <2>3
    <2>5. /\ \A t : (\E i \in DOMAIN tokens : tokens[i][1] = t)
                    => (\E i \in DOMAIN tokens' : tokens'[i][1] = t)
          /\ \E i \in DOMAIN tokens' : tokens'[i][1] = a
      <3>1. \A i \in DOMAIN tokens : i \in DOMAIN tokens' /\ tokens'[i] = tokens[i]
        BY <2>3, <2>4
      <3>2. Len(tokens) + 1 \in DOMAIN tokens' /\ tokens'[Len(tokens) + 1][1] = a
        BY <2>3, <2>4
      <3> QED BY <3>1, <3>2
    <2>6. (E!ListedWasHeld)'
      <3> SUFFICES ASSUME NEW i \in 1..(Len(tokens) + 1)
                   PROVE  /\ tokens'[i][2] \in had[tokens'[i][1]]
                          /\ tokens'[i][1] \in Tokens => tokens'[i][2] > 0
        BY <1>1, <2>4 DEF E!ListedWasHeld
      <3>1. CASE i = Len(tokens) + 1
        BY <1>2, <1>3, <1>5, <2>3, <3>1
      <3>2. CASE i \in 1..Len(tokens)
        <4>1. tokens'[i] = tokens[i]
          BY <2>3, <3>2
        <4> QED BY <2>4, <3>2, <4>1 DEF EvmInv, E!ListedWasHeld
      <3> QED BY <2>4, <3>1, <3>2
    <2>7. left \in Seq(Tokens \cup {NoAddress})
      BY DEF EvmInv, E!EvmTypeOK
    <2>8. /\ left' \in Seq(Tokens \cup {NoAddress})
          /\ \A t : t # Head(left) /\ Due(t) => Due(t)'
      BY <1>1, <1>2, <2>5, <2>7, Passes
    <2>9. \A t \in wanted' \ skipped' : Due(t)'
      <3>1. Due(a)'
        BY <2>5 DEF Due
      <3>2. \A t \in wanted \ skipped : Due(t)
        BY <1>1 DEF EvmInv
      <3> QED BY <1>1, <1>3, <2>8, <3>1, <3>2
    <2> QED
      BY <1>1, <1>4, <2>3, <2>6, <2>8, <2>9 DEF EvmInv, E!EvmTypeOK, Knows, Reads, E!HeldIsListed
  <1>6. CASE n = 0
    <2>1. {x \in {Head(left)} \X reading : E!Included(x[2])} = {}
      BY <1>2, <1>6 DEF E!Included
    <2>2. tokens' = tokens
      <3>1. tokens' = tokens \o <<>>
        BY <2>1, SequenceOfNone DEF E!AllAnswered
      <3> QED BY <1>4, <3>1
    <2>3. left \in Seq(Tokens \cup {NoAddress})
      BY DEF EvmInv, E!EvmTypeOK
    <2>4. /\ left' \in Seq(Tokens \cup {NoAddress})
          /\ \A t : t # Head(left) /\ Due(t) => Due(t)'
      BY <1>1, <1>2, <2>2, <2>3, Passes
    <2>5. \A t \in wanted' \ skipped' : Due(t)'
      <3>1. Due(a)'
        BY <1>1, <1>2, <1>3, <1>6 DEF Due
      <3>2. \A t \in wanted \ skipped : Due(t)
        BY <1>1 DEF EvmInv
      <3> QED BY <1>1, <1>3, <2>4, <3>1, <3>2
    <2> QED
      BY <1>1, <1>4, <2>2, <2>4, <2>5
        DEF EvmInv, E!EvmTypeOK, Knows, Reads, E!HeldIsListed, E!ListedWasHeld
  <1> QED BY <1>5, <1>6

LEMMA EvmEnds ==
  ASSUME EvmInv, E!LoopEnds
  PROVE  EvmInv'
  <1>1. /\ call = "loop" /\ left = <<>> /\ call' = "done"
        /\ UNCHANGED <<balance, left, reading, tokens, wanted, had, skipped>>
    BY DEF E!LoopEnds
  <1>2. \A t \in wanted \ skipped : Due(t)
    BY <1>1 DEF EvmInv
  <1>3. E!ToSet(left) = {}
    BY <1>1 DEF E!ToSet
  <1>4. (E!HeldIsListed)'
    BY <1>1, <1>2, <1>3 DEF Due, E!HeldIsListed
  <1>5. reading' = {} /\ (E!Assets)' = E!Assets
    BY <1>1 DEF EvmInv, Reads, E!Assets
  <1> QED BY <1>1, <1>4, <1>5 DEF EvmInv, E!EvmTypeOK, Knows, Reads, E!ListedWasHeld

LEMMA EvmStep == EvmInv /\ [E!EvmNext]_evm => EvmInv'
  <1>1. ASSUME EvmInv, UNCHANGED evm PROVE EvmInv'
    BY <1>1 DEF evm, EvmInv, E!EvmTypeOK, E!Assets, Knows, Reads, Due, E!ToSet,
                E!ListedWasHeld, E!HeldIsListed
  <1> QED
    BY <1>1, EvmTransfer, EvmAsks, EvmNetwork, EvmPasses, EvmReads, EvmFinds, EvmEnds
      DEF E!EvmNext

LEMMA EvmAlways == Spec => []EvmInv
  <1>1. Init => EvmInv
    BY EvmInitially DEF Init
  <1>2. EvmInv /\ [Next]_vars => EvmInv'
    BY Steps, EvmStep
  <1> QED BY <1>1, <1>2, PTL DEF Spec

\* For all lists of addresses, with repetitions and texts that are none, all
\* payments and all rejected calls: what is listed was held, and a token held
\* all the time is listed, though no balance is of the same moment as another.
THEOREM BalancesWereTrue == Spec => []BalancesAreTrue
  <1>1. EvmInv => BalancesAreTrue
    BY DEF EvmInv, BalancesAreTrue
  <1> QED BY <1>1, EvmAlways, PTL

-----------------------------------------------------------------------------
(* The parts together.                                                     *)

\* The variables of every part keep their types.
THEOREM TypeCorrect == Spec => []TypeOK
  <1>1. KafkaInv /\ RabbitInv /\ NatsInv /\ KongInv /\ PortfoliosInv /\ ScyllaInv /\ EvmInv
        => TypeOK
    BY DEF KafkaInv, RabbitInv, NatsInv, KongInv, PortfoliosInv, ScyllaInv, EvmInv, TypeOK
  <1> QED
    BY <1>1, KafkaAlways, RabbitAlways, NatsAlways, KongAlways, PortfoliosAlways, ScyllaAlways,
       EvmAlways, PTL

\* Whatever is lost, restarted, rejected or thrown: Kafka's group is committed
\* to nothing its handler was not given and its map tells the truth, RabbitMQ
\* gives up nothing that was not handled or released by ack or noAck, and NATS
\* calls back one at a time, in order, for the subscriptions in the map.
THEOREM TransportsStaySafe == Spec => []TransportsAreSafe
  <1>1. KafkaInv /\ RabbitInv /\ NatsInv => TransportsAreSafe
    BY KafkaIsSafe, NatsIsSafe DEF RabbitInv, TransportsAreSafe
  <1> QED BY <1>1, KafkaAlways, RabbitAlways, NatsAlways, PTL

\* However many documents and pages there are: creating documents moves none
\* out of a reader's sight, without writes each comes once, and ScyllaDB's one
\* page of the table has every row that stayed.
THEOREM PagesStayComplete == Spec => []PagesAreComplete
  <1>1. PortfoliosInv /\ ScyllaInv => PagesAreComplete
    BY PagesRead DEF ScyllaInv, PagesAreComplete
  <1> QED BY <1>1, PortfoliosAlways, ScyllaAlways, PTL
=============================================================================
