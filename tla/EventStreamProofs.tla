--------------------------- MODULE EventStreamProofs ---------------------------
(***************************************************************************)
(* Theorems about EventStream, for every set of streams and every bound on *)
(* what the process has not read yet.                                      *)
(***************************************************************************)
EXTENDS EventStream, SequenceTheorems, TLAPS

Items == Commands \cup {Message}

Typed ==
  /\ entry \in BOOLEAN /\ subscribed \in BOOLEAN
  /\ handlers \subseteq Streams /\ got \subseteq Streams /\ disturbed \subseteq Streams
  /\ stream \in [Streams -> Stages]
  /\ wire \in Seq(Commands) /\ inbox \in Seq(Items)
  /\ Len(inbox) <= MaxUnread
  /\ ~entry => handlers = {}

-----------------------------------------------------------------------------
(* Queues.                                                                 *)

LEMMA InRange ==
  ASSUME NEW S, NEW q \in Seq(S), NEW x
  PROVE  x \in Range(q) <=> \E i \in 1..Len(q) : q[i] = x
  BY RangeEquality

LEMMA RangeOfAppend ==
  ASSUME NEW S, NEW q \in Seq(S), NEW x \in S
  PROVE  Range(Append(q, x)) = Range(q) \cup {x}
  <1>1. Append(q, x) \in Seq(S) /\ Len(Append(q, x)) = Len(q) + 1 /\ Len(q) \in Nat
    BY AppendProperties, LenProperties
  <1>2. \A i \in 1..Len(q) : Append(q, x)[i] = q[i]
    BY AppendProperties
  <1>3. Append(q, x)[Len(q) + 1] = x
    BY AppendProperties
  <1>4. ASSUME NEW y PROVE y \in Range(Append(q, x)) <=> y \in Range(q) \/ y = x
    <2>1. y \in Range(Append(q, x)) <=> \E i \in 1..(Len(q) + 1) : Append(q, x)[i] = y
      BY <1>1, InRange
    <2>2. y \in Range(q) <=> \E i \in 1..Len(q) : q[i] = y
      BY InRange
    <2> QED BY <1>1, <1>2, <1>3, <2>1, <2>2
  <1> QED BY <1>4

LEMMA RangeOfHeadTail ==
  ASSUME NEW S, NEW q \in Seq(S), q # <<>>
  PROVE  /\ Head(q) \in S /\ Tail(q) \in Seq(S)
         /\ Range(q) = {Head(q)} \cup Range(Tail(q))
  <1>1. Head(q) \in S /\ Tail(q) \in Seq(S) /\ Len(Tail(q)) = Len(q) - 1
    BY HeadTailProperties
  <1>2. Len(q) \in Nat \ {0} /\ Head(q) = q[1]
    BY EmptySeq
  <1>3. \A i \in 1..(Len(q) - 1) : Tail(q)[i] = q[i + 1]
    BY <1>1, HeadTailProperties
  <1>4. ASSUME NEW y PROVE y \in Range(q) <=> y \in Range(Tail(q)) \/ y = Head(q)
    <2>1. y \in Range(Tail(q)) <=> \E i \in 1..(Len(q) - 1) : Tail(q)[i] = y
      BY <1>1, InRange
    <2>2. y \in Range(q) <=> \E i \in 1..Len(q) : q[i] = y
      BY InRange
    <2>3. ASSUME NEW i \in 1..Len(q), q[i] = y, i # 1 PROVE y \in Range(Tail(q))
      <3>1. i - 1 \in 1..(Len(q) - 1) /\ Tail(q)[i - 1] = q[i]
        BY <1>2, <1>3, <2>3
      <3> QED BY <2>1, <2>3, <3>1
    <2>4. ASSUME NEW i \in 1..(Len(q) - 1), Tail(q)[i] = y PROVE y \in Range(q)
      <3>1. i + 1 \in 1..Len(q) /\ q[i + 1] = y
        BY <1>2, <1>3, <2>4
      <3> QED BY <2>2, <3>1
    <2> QED BY <1>2, <2>1, <2>2, <2>3, <2>4
  <1> QED BY <1>1, <1>4

\* What is read and what is left.
LEMMA Split ==
  ASSUME NEW S, NEW q \in Seq(S), NEW k \in 1..Len(q),
         NEW a, a = SubSeq(q, 1, k), NEW b, b = SubSeq(q, k + 1, Len(q))
  PROVE  /\ a \in Seq(S) /\ b \in Seq(S) /\ Len(b) = Len(q) - k
         /\ \A i \in 1..k : a[i] = q[i]
         /\ \A i \in 1..(Len(q) - k) : b[i] = q[k + i]
  <1>1. Len(q) \in Nat /\ \A i \in 1..Len(q) : q[i] \in S
    BY LenProperties
  <1>2. \A i \in 1..k : a[i] = q[i]
    BY <1>1, SubSeqProperties
  <1>0. a \in Seq(S) /\ Len(a) = k
    BY <1>1, SubSeqProperties
  <1>3. b \in Seq(S) /\ Len(b) = Len(q) - k
    BY <1>1, SubSeqProperties
  <1>4. \A i \in 1..(Len(q) - k) : b[i] = q[k + i]
    BY <1>1, SubSeqProperties
  <1> QED BY <1>0, <1>2, <1>3, <1>4

LEMMA SplitRange ==
  ASSUME NEW S, NEW q \in Seq(S), NEW k \in 1..Len(q)
  PROVE  Range(q) = Range(SubSeq(q, 1, k)) \cup Range(SubSeq(q, k + 1, Len(q)))
  <1> DEFINE a == SubSeq(q, 1, k)
             b == SubSeq(q, k + 1, Len(q))
  <1>1. Len(q) \in Nat /\ \A i \in 1..Len(q) : q[i] \in S
    BY LenProperties
  <1>0. a \in Seq(S) /\ Len(a) = k
    BY <1>1, SubSeqProperties
  <1>2. \A i \in 1..k : a[i] = q[i]
    BY Split
  <1>3. b \in Seq(S) /\ Len(b) = Len(q) - k
    BY Split
  <1>4. \A i \in 1..(Len(q) - k) : b[i] = q[k + i]
    BY Split
  <1>5. ASSUME NEW y PROVE y \in Range(q) <=> y \in Range(a) \/ y \in Range(b)
    <2>1. y \in Range(a) <=> \E i \in 1..k : a[i] = y
      BY <1>0, InRange
    <2>2. y \in Range(b) <=> \E i \in 1..(Len(q) - k) : b[i] = y
      BY <1>3, InRange
    <2>3. y \in Range(q) <=> \E i \in 1..Len(q) : q[i] = y
      BY InRange
    <2>4. ASSUME NEW i \in 1..Len(q), q[i] = y PROVE y \in Range(a) \/ y \in Range(b)
      <3>1. CASE i <= k
        <4>1. i \in 1..k
          BY <1>1, <3>1
        <4> QED BY <1>2, <2>1, <2>4, <4>1
      <3>2. CASE i > k
        <4>1. i - k \in 1..(Len(q) - k) /\ k + (i - k) = i
          BY <1>1, <3>2
        <4> QED BY <1>4, <2>2, <2>4, <4>1
      <3> QED BY <1>1, <3>1, <3>2
    <2>5. ASSUME NEW i \in 1..(Len(q) - k), b[i] = y PROVE y \in Range(q)
      <3>1. k + i \in 1..Len(q) /\ q[k + i] = y
        BY <1>1, <1>4, <2>5
      <3> QED BY <2>3, <3>1
    <2>6. ASSUME NEW i \in 1..k, a[i] = y PROVE y \in Range(q)
      BY <1>1, <1>2, <2>3, <2>6
    <2> QED BY <2>1, <2>2, <2>3, <2>4, <2>5, <2>6
  <1> QED BY <1>5

LEMMA ItemIs ==
  ASSUME NEW s \in Streams
  PROVE  /\ Item("subscribe", s) \in Commands /\ Item("unsubscribe", s) \in Commands
         /\ Item("subscribe", s).kind = "subscribe" /\ Item("unsubscribe", s).kind = "unsubscribe"
         /\ Item("subscribe", s) # Message /\ Item("unsubscribe", s) # Message
  BY DEF Item, Commands, Message

LEMMA SourceIs ==
  ASSUME NEW q \in Seq(Items), NEW k \in {"subscribe", "unsubscribe"}, NEW s
  PROVE  s \in Sources(q, k) <=> s \in Streams /\ Item(k, s) \in Range(q)
  <1>1. Range(q) \subseteq Items
    BY RangeOfSeq
  <1>2. \A m \in Items : m.kind = k => m \in Commands /\ m = Item(k, m.stream) /\ m.stream \in Streams
    BY DEF Items, Commands, Message, Item
  <1>3. Item(k, s).kind = k /\ Item(k, s).stream = s
    BY DEF Item
  <1> QED BY <1>1, <1>2, <1>3 DEF Sources

-----------------------------------------------------------------------------
(* Type correctness.                                                       *)

LEMMA NothingQueued ==
  /\ <<>> \in Seq(Commands) /\ <<>> \in Seq(Items)
  /\ Len(<<>>) = 0 /\ Len(<<>>) <= MaxUnread /\ Range(<<>>) = {}
  BY EmptySeq, EventStreamAssumption DEF Range

LEMMA TypedInit == Init => Typed
  BY NothingQueued DEF Init, Typed, Stages

LEMMA ReadTyped ==
  ASSUME Typed, NEW k \in 1..Len(inbox), Read(k)
  PROVE  Typed'
  <1>1. PICK a : a = SubSeq(inbox, 1, k)
    OBVIOUS
  <1>2. PICK b : b = SubSeq(inbox, k + 1, Len(inbox))
    OBVIOUS
  <1>3. inbox \in Seq(Items) /\ Len(inbox) \in Nat
    BY LenProperties DEF Typed
  <1>4. a \in Seq(Items) /\ b \in Seq(Items) /\ Len(b) = Len(inbox) - k
    BY <1>1, <1>2, <1>3, Split
  <1>5. Len(b) <= MaxUnread
    BY <1>3, <1>4, EventStreamAssumption DEF Typed
  <1>6. Sources(a, "subscribe") \subseteq Streams
    BY <1>4, SourceIs
  <1>7. /\ entry' \in BOOLEAN /\ handlers' \subseteq Streams
        /\ ~entry' => handlers' = {}
    BY <1>1, <1>6 DEF Read, Added, Typed
  <1>8. stream' \in [Streams -> Stages]
    BY DEF Read, Typed, Stages
  <1>9. got' \subseteq Streams /\ disturbed' \subseteq Streams
    BY DEF Read, Receivers, Typed
  <1> QED BY <1>2, <1>4, <1>5, <1>7, <1>8, <1>9 DEF Read, Typed

LEMMA TypedStep == Typed /\ [Next]_vars => Typed'
  <1> SUFFICES ASSUME Typed, [Next]_vars PROVE Typed'
    OBVIOUS
  <1>0. MaxUnread \in Nat /\ Len(inbox) \in Nat /\ Message \in Items /\ Commands \subseteq Items
    BY EventStreamAssumption, LenProperties DEF Typed, Items
  <1>1. ASSUME NEW s \in Streams, Open(s) PROVE Typed'
    <2>1. Append(wire, Item("subscribe", s)) \in Seq(Commands)
      BY ItemIs, AppendProperties DEF Typed
    <2>2. wire' \in Seq(Commands)
      BY <1>1, <2>1 DEF Open, Typed
    <2>3. stream' \in [Streams -> Stages] /\ handlers' \subseteq Streams
      BY <1>1 DEF Open, Typed, Stages
    <2> QED BY <1>1, <2>2, <2>3 DEF Open, Typed
  <1>2. ASSUME NEW s \in Streams, Close(s) PROVE Typed'
    <2>1. wire' \in Seq(Commands)
      BY <1>2, ItemIs, AppendProperties DEF Close, Unsubscribe, Typed
    <2>2. stream' \in [Streams -> Stages]
      BY <1>2 DEF Close, Typed, Stages
    <2> QED BY <1>2, <2>1, <2>2 DEF Close, Typed
  <1>3. CASE Serve
    <2>1. Head(wire) \in Commands /\ Tail(wire) \in Seq(Commands)
      BY <1>3, HeadTailProperties DEF Serve, Typed
    <2>2. Append(inbox, Head(wire)) \in Seq(Items) /\ Len(Append(inbox, Head(wire))) = Len(inbox) + 1
      BY <1>0, <2>1, AppendProperties DEF Typed
    <2>3. subscribed' \in BOOLEAN
      BY <1>3 DEF Serve
    <2>4. wire' \in Seq(Commands) /\ inbox' \in Seq(Items) /\ Len(inbox') <= MaxUnread
      BY <1>0, <1>3, <2>1, <2>2 DEF Serve
    <2> QED BY <1>3, <2>3, <2>4 DEF Serve, Typed
  <1>4. CASE Publish
    <2>1. Append(inbox, Message) \in Seq(Items) /\ Len(Append(inbox, Message)) = Len(inbox) + 1
      BY <1>0, AppendProperties DEF Typed
    <2>2. inbox' \in Seq(Items) /\ Len(inbox') <= MaxUnread
      BY <1>0, <1>4, <2>1 DEF Publish
    <2> QED BY <1>4, <2>2 DEF Publish, Typed
  <1>5. CASE Restart
    <2>1. stream' \in [Streams -> Stages]
      BY <1>5 DEF Restart, Typed, Stages
    <2> QED BY <1>5, <2>1, NothingQueued DEF Restart, Typed
  <1>6. CASE UNCHANGED vars
    BY <1>6 DEF vars, Typed
  <1> QED BY <1>1, <1>2, <1>3, <1>4, <1>5, <1>6, ReadTyped DEF Next

LEMMA AlwaysTyped == Spec => []Typed
  BY TypedInit, TypedStep, PTL DEF Spec

\* The map of handlers, the streams and the queues keep their types through
\* every order of opens, disconnects, replies and restarts, and callbacks exist
\* only within the channel's entry.
THEOREM TypeCorrect == Spec => []TypeOK
  <1>1. Typed => TypeOK
    BY DEF Typed, TypeOK, Items
  <1> QED BY <1>1, AlwaysTyped, PTL

-----------------------------------------------------------------------------
(* The map agrees.  A reply that has not been read yet says what the map   *)
(* does not know: the invariant counts commands on their way and replies   *)
(* together, and relies on their order.                                    *)

Subscribe(s) == Item("subscribe", s)
UnsubscribeOf(s) == Item("unsubscribe", s)
UnderWay(m) == m \in Range(inbox) \/ m \in Range(wire)

\* Nothing under way will delete the entry.
EntryStays == entry /\ \A s \in Streams : ~UnderWay(UnsubscribeOf(s))

\* An entry that stays is for a channel that is or will be subscribed.
WillBeSubscribed ==
  EntryStays => subscribed \/ \E s \in Streams : Subscribe(s) \in Range(wire)

\* A stream's one subscribe and one unsubscribe, by how far it is: that of a
\* stream that is gone follows whatever brings its callback back.
Commanded(s) ==
  /\ stream[s] = "new" => s \notin handlers /\ ~UnderWay(Subscribe(s))
  /\ stream[s] # "closed" => ~UnderWay(UnsubscribeOf(s))
  /\ stream[s] = "closed" /\ (s \in handlers \/ UnderWay(Subscribe(s)))
       => UnderWay(UnsubscribeOf(s))

\* No stream's subscribe comes behind its unsubscribe.
InOrder(q, s) ==
  \A i \in 1..Len(q), j \in 1..Len(q) :
    q[i] = UnsubscribeOf(s) /\ q[j] = Subscribe(s) => j < i

Ordered(s) ==
  /\ InOrder(inbox, s) /\ InOrder(wire, s)
  /\ UnsubscribeOf(s) \in Range(inbox) => Subscribe(s) \notin Range(wire)

\* A stream at which no unsubscribe has struck has the entry it subscribed to.
Registered(s) ==
  s \notin disturbed =>
    /\ Live(s) => entry
    /\ stream[s] = "open" => s \in handlers

MapInv ==
  /\ WillBeSubscribed
  /\ \A s \in Streams : Commanded(s) /\ Ordered(s) /\ Registered(s)

LEMMA OrderedAppend ==
  ASSUME NEW S, NEW q \in Seq(S), NEW x \in S, NEW s, InOrder(q, s),
         x = Subscribe(s) => UnsubscribeOf(s) \notin Range(q),
         NEW t, t = Append(q, x)
  PROVE  InOrder(t, s)
  <1>1. Len(q) \in Nat /\ Len(t) = Len(q) + 1
    BY AppendProperties, LenProperties
  <1>2. \A i \in 1..Len(q) : t[i] = q[i]
    BY AppendProperties
  <1>3. t[Len(q) + 1] = x
    BY AppendProperties
  <1>4. Subscribe(s) # UnsubscribeOf(s)
    BY DEF Subscribe, UnsubscribeOf, Item
  <1> SUFFICES ASSUME NEW i \in 1..Len(t), NEW j \in 1..Len(t),
                      t[i] = UnsubscribeOf(s), t[j] = Subscribe(s)
               PROVE  j < i
    BY DEF InOrder
  <1>5. CASE j = Len(q) + 1
    <2>1. i \in 1..Len(q)
      BY <1>1, <1>3, <1>4, <1>5
    <2>2. q[i] = UnsubscribeOf(s)
      BY <1>2, <2>1
    <2>3. UnsubscribeOf(s) \in Range(q)
      BY <2>1, <2>2, InRange
    <2> QED BY <1>3, <1>5, <2>3
  <1>6. CASE j # Len(q) + 1 /\ i # Len(q) + 1
    <2>1. i \in 1..Len(q) /\ j \in 1..Len(q)
      BY <1>1, <1>6
    <2> QED BY <1>2, <2>1 DEF InOrder
  <1>7. CASE j # Len(q) + 1 /\ i = Len(q) + 1
    BY <1>1, <1>7
  <1> QED BY <1>5, <1>6, <1>7

\* The tail of a queue, or what is left of it when k items have been read.
LEMMA OrderedRest ==
  ASSUME NEW S, NEW q \in Seq(S), NEW t \in Seq(S), NEW k \in Nat, Len(t) = Len(q) - k,
         \A i \in 1..Len(t) : t[i] = q[k + i], NEW s, InOrder(q, s)
  PROVE  InOrder(t, s)
  <1>1. Len(q) \in Nat /\ Len(t) \in Nat
    BY LenProperties
  <1> SUFFICES ASSUME NEW i \in 1..Len(t), NEW j \in 1..Len(t),
                      t[i] = UnsubscribeOf(s), t[j] = Subscribe(s)
               PROVE  j < i
    BY DEF InOrder
  <1>2. k + i \in 1..Len(q) /\ k + j \in 1..Len(q)
    BY <1>1
  <1>3. k + j < k + i
    <2>1. q[k + i] = UnsubscribeOf(s) /\ q[k + j] = Subscribe(s)
      OBVIOUS
    <2> QED BY <1>2, <2>1 DEF InOrder
  <1> QED BY <1>1, <1>3

\* In the order of a queue nothing of a stream comes after its unsubscribe.
LEMMA ReadInOrder ==
  ASSUME NEW S, NEW q \in Seq(S), NEW k \in 1..Len(q), NEW s, InOrder(q, s),
         NEW a, a = SubSeq(q, 1, k), NEW b, b = SubSeq(q, k + 1, Len(q)),
         UnsubscribeOf(s) \in Range(a)
  PROVE  Subscribe(s) \notin Range(b)
  <1>1. Len(q) \in Nat
    BY LenProperties
  <1>2. PICK i \in 1..k : q[i] = UnsubscribeOf(s)
    <2>1. a \in Seq(S) /\ Len(a) = k
      <3>1. \A i \in 1..k : q[i] \in S
        BY <1>1, LenProperties
      <3> QED BY <1>1, <3>1, SubSeqProperties
    <2>2. PICK i \in 1..k : a[i] = UnsubscribeOf(s)
      BY <2>1, InRange
    <2>3. a[i] = q[i]
      BY Split
    <2> QED BY <2>2, <2>3
  <1>3. b \in Seq(S) /\ Len(b) = Len(q) - k /\ \A j \in 1..(Len(q) - k) : b[j] = q[k + j]
    BY Split
  <1>4. ASSUME NEW j \in 1..Len(b), b[j] = Subscribe(s) PROVE FALSE
    <2>1. k + j \in 1..Len(q) /\ q[k + j] = Subscribe(s) /\ i \in 1..Len(q)
      BY <1>1, <1>3, <1>4
    <2>2. k + j < i
      BY <1>2, <2>1 DEF InOrder
    <2> QED BY <1>1, <2>2
  <1>5. b \in Seq(S)
    BY <1>3
  <1> QED BY <1>4, <1>5, InRange

LEMMA KeepsIs ==
  ASSUME NEW q \in Seq(Items)
  PROVE  Keeps(q) <=> \A s \in Streams : UnsubscribeOf(s) \notin Range(q)
  BY SourceIs DEF Keeps, UnsubscribeOf

LEMMA Distinct ==
  \A s, t : /\ Subscribe(s) # UnsubscribeOf(t)
            /\ Subscribe(s) = Subscribe(t) => s = t
            /\ UnsubscribeOf(s) = UnsubscribeOf(t) => s = t
            /\ Subscribe(s) # Message /\ UnsubscribeOf(s) # Message
  BY DEF Subscribe, UnsubscribeOf, Item, Message

LEMMA CommandsAre ==
  \A m \in Commands : \E s \in Streams : m = Subscribe(s) \/ m = UnsubscribeOf(s)
  BY DEF Commands, Subscribe, UnsubscribeOf, Item

LEMMA ItemsTyped ==
  /\ Message \in Items /\ Commands \subseteq Items
  /\ \A s \in Streams : Subscribe(s) \in Commands /\ UnsubscribeOf(s) \in Commands
  BY ItemIs DEF Items, Subscribe, UnsubscribeOf

LEMMA OpenAgrees ==
  ASSUME Typed, MapInv, NEW s \in Streams, Open(s)
  PROVE  MapInv'
  <1>0. wire \in Seq(Commands) /\ stream \in [Streams -> Stages] /\ stream[s] = "new"
    BY DEF Typed, Open
  <1>1. CASE entry
    <2>1. /\ stream' = [stream EXCEPT ![s] = "open"] /\ handlers' = handlers \cup {s}
          /\ entry' /\ wire' = wire /\ inbox' = inbox /\ subscribed' = subscribed
          /\ disturbed' = disturbed
      BY <1>1 DEF Open
    <2>2. WillBeSubscribed'
      BY <1>1, <2>1 DEF MapInv, WillBeSubscribed, EntryStays, UnderWay
    <2>3. ASSUME NEW t \in Streams PROVE Commanded(t)' /\ Ordered(t)' /\ Registered(t)'
      BY <1>0, <1>1, <2>1 DEF MapInv, Commanded, Ordered, InOrder, Registered, UnderWay, Live
    <2> QED BY <2>2, <2>3 DEF MapInv
  <1>2. CASE ~entry
    <2>1. /\ stream' = [stream EXCEPT ![s] = "subscribing"] /\ handlers' = handlers
          /\ entry' /\ wire' = Append(wire, Subscribe(s)) /\ inbox' = inbox
          /\ subscribed' = subscribed /\ disturbed' = disturbed
      BY <1>2 DEF Open, Subscribe
    <2>2. Range(wire') = Range(wire) \cup {Subscribe(s)}
      BY <1>0, <2>1, ItemsTyped, RangeOfAppend
    <2>3. WillBeSubscribed'
      BY <2>2 DEF WillBeSubscribed
    <2>4. ~UnderWay(Subscribe(s)) /\ ~UnderWay(UnsubscribeOf(s))
      BY <1>0 DEF MapInv, Commanded
    <2>5. ASSUME NEW t \in Streams PROVE Commanded(t)'
      BY <1>0, <2>1, <2>2, Distinct DEF MapInv, Commanded, UnderWay
    <2>6. ASSUME NEW t \in Streams PROVE Ordered(t)'
      <3>1. PICK w : w = wire'
        OBVIOUS
      <3>2. InOrder(w, t)
        BY <1>0, <2>1, <2>4, <3>1, ItemsTyped, OrderedAppend, Distinct
          DEF MapInv, Ordered, UnderWay
      <3>3. UnsubscribeOf(t) \in Range(inbox) => Subscribe(t) \notin Range(wire')
        BY <2>2, <2>4, Distinct DEF MapInv, Ordered, UnderWay
      <3> QED BY <2>1, <3>1, <3>2, <3>3 DEF MapInv, Ordered, InOrder
    <2>7. ASSUME NEW t \in Streams PROVE Registered(t)'
      BY <1>0, <2>1 DEF MapInv, Registered, Live
    <2> QED BY <2>3, <2>5, <2>6, <2>7 DEF MapInv
  <1> QED BY <1>1, <1>2

LEMMA CloseAgrees ==
  ASSUME Typed, MapInv, NEW s \in Streams, Close(s)
  PROVE  MapInv'
  <1>0. wire \in Seq(Commands) /\ stream \in [Streams -> Stages] /\ stream[s] # "closed"
    BY DEF Typed, Close, Live
  <1>1. /\ stream' = [stream EXCEPT ![s] = "closed"] /\ wire' = Append(wire, UnsubscribeOf(s))
        /\ entry' = entry /\ handlers' = handlers /\ inbox' = inbox
        /\ subscribed' = subscribed /\ disturbed' = disturbed
    BY DEF Close, Unsubscribe, UnsubscribeOf
  <1>2. Range(wire') = Range(wire) \cup {UnsubscribeOf(s)}
    BY <1>0, <1>1, ItemsTyped, RangeOfAppend
  <1>3. WillBeSubscribed'
    BY <1>2 DEF WillBeSubscribed, EntryStays, UnderWay
  <1>4. ASSUME NEW t \in Streams PROVE Commanded(t)'
    BY <1>0, <1>1, <1>2, Distinct DEF MapInv, Commanded, UnderWay
  <1>5. ASSUME NEW t \in Streams PROVE Ordered(t)'
    <2>1. PICK w : w = wire'
      OBVIOUS
    <2>2. InOrder(w, t)
      BY <1>0, <1>1, <2>1, ItemsTyped, OrderedAppend, Distinct DEF MapInv, Ordered
    <2>3. UnsubscribeOf(t) \in Range(inbox) => Subscribe(t) \notin Range(wire')
      BY <1>2, Distinct DEF MapInv, Ordered
    <2> QED BY <1>1, <2>1, <2>2, <2>3 DEF MapInv, Ordered, InOrder
  <1>6. ASSUME NEW t \in Streams PROVE Registered(t)'
    BY <1>0, <1>1 DEF MapInv, Registered, Live
  <1> QED BY <1>3, <1>4, <1>5, <1>6 DEF MapInv

LEMMA ServeAgrees ==
  ASSUME Typed, MapInv, Serve
  PROVE  MapInv'
  <1>0. wire \in Seq(Commands) /\ wire # <<>> /\ inbox \in Seq(Items)
    BY DEF Typed, Serve
  <1>1. PICK m : m = Head(wire)
    OBVIOUS
  <1>2. m \in Commands /\ m \in Items /\ Range(wire) = {m} \cup Range(Tail(wire))
    BY <1>0, <1>1, RangeOfHeadTail, ItemsTyped
  <1>3. /\ wire' = Tail(wire) /\ inbox' = Append(inbox, m) /\ (subscribed' <=> m.kind = "subscribe")
        /\ entry' = entry /\ handlers' = handlers /\ stream' = stream /\ disturbed' = disturbed
    BY <1>1 DEF Serve
  <1>4. Range(inbox') = Range(inbox) \cup {m}
    BY <1>0, <1>2, <1>3, RangeOfAppend
  <1>5. \A x : UnderWay(x)' <=> UnderWay(x)
    BY <1>2, <1>3, <1>4 DEF UnderWay
  <1>6. WillBeSubscribed'
    <2>1. PICK t \in Streams : m = Subscribe(t) \/ m = UnsubscribeOf(t)
      BY <1>2, CommandsAre
    <2>2. CASE m = Subscribe(t)
      BY <1>3, <2>2, ItemIs DEF WillBeSubscribed, Subscribe
    <2>3. CASE m = UnsubscribeOf(t)
      BY <1>4, <2>3 DEF WillBeSubscribed, EntryStays, UnderWay
    <2> QED BY <2>1, <2>2, <2>3
  <1>7. ASSUME NEW t \in Streams PROVE Commanded(t)'
    BY <1>3, <1>5 DEF MapInv, Commanded
  <1>8. ASSUME NEW t \in Streams PROVE Ordered(t)'
    <2>1. PICK i : i = inbox'
      OBVIOUS
    <2>2. PICK w : w = wire'
      OBVIOUS
    <2>3. InOrder(i, t)
      BY <1>0, <1>2, <1>3, <2>1, OrderedAppend DEF MapInv, Ordered
    <2>4. w \in Seq(Commands) /\ Len(w) = Len(wire) - 1 /\ \A n \in 1..Len(w) : w[n] = wire[n + 1]
      BY <1>0, <1>3, <2>2, HeadTailProperties
    <2>5. \A n \in 1..Len(w) : w[n] = wire[1 + n]
      BY <2>4
    <2>6. InOrder(w, t)
      BY <1>0, <2>4, <2>5, OrderedRest DEF MapInv, Ordered
    <2>7. UnsubscribeOf(t) \in Range(inbox') => Subscribe(t) \notin Range(wire')
      <3>1. CASE UnsubscribeOf(t) \in Range(inbox)
        BY <1>2, <1>3, <3>1 DEF MapInv, Ordered
      <3>2. CASE m = UnsubscribeOf(t)
        <4>1. Len(wire) \in Nat \ {0} /\ wire[1] = UnsubscribeOf(t)
          BY <1>0, <1>1, <3>2, EmptySeq
        <4>2. ASSUME NEW n \in 1..Len(w), w[n] = Subscribe(t) PROVE FALSE
          <5>1. 1 + n \in 1..Len(wire) /\ 1 \in 1..Len(wire) /\ wire[1 + n] = Subscribe(t)
            BY <2>4, <2>5, <4>1, <4>2
          <5>2. 1 + n < 1
            BY <4>1, <5>1 DEF MapInv, Ordered, InOrder
          <5> QED BY <5>2
        <4>3. w \in Seq(Commands)
          BY <2>4
        <4> QED BY <2>2, <4>2, <4>3, InRange
      <3> QED BY <1>4, <3>1, <3>2
    <2> QED BY <2>1, <2>2, <2>3, <2>6, <2>7 DEF Ordered, InOrder
  <1>9. ASSUME NEW t \in Streams PROVE Registered(t)'
    BY <1>3 DEF MapInv, Registered, Live
  <1> QED BY <1>6, <1>7, <1>8, <1>9 DEF MapInv

LEMMA PublishAgrees ==
  ASSUME Typed, MapInv, Publish
  PROVE  MapInv'
  <1>0. inbox \in Seq(Items)
    BY DEF Typed
  <1>1. /\ inbox' = Append(inbox, Message) /\ wire' = wire /\ subscribed' = subscribed
        /\ entry' = entry /\ handlers' = handlers /\ stream' = stream /\ disturbed' = disturbed
    BY DEF Publish
  <1>2. Range(inbox') = Range(inbox) \cup {Message}
    BY <1>0, <1>1, ItemsTyped, RangeOfAppend
  <1>3. \A t : (UnderWay(Subscribe(t))' <=> UnderWay(Subscribe(t)))
               /\ (UnderWay(UnsubscribeOf(t))' <=> UnderWay(UnsubscribeOf(t)))
    BY <1>1, <1>2, Distinct DEF UnderWay
  <1>4. WillBeSubscribed'
    BY <1>1, <1>3 DEF MapInv, WillBeSubscribed, EntryStays
  <1>5. ASSUME NEW t \in Streams PROVE Commanded(t)' /\ Registered(t)'
    BY <1>1, <1>3 DEF MapInv, Commanded, Registered, Live
  <1>6. ASSUME NEW t \in Streams PROVE Ordered(t)'
    <2>1. PICK i : i = inbox'
      OBVIOUS
    <2>2. InOrder(i, t)
      BY <1>0, <1>1, <2>1, ItemsTyped, OrderedAppend, Distinct DEF MapInv, Ordered
    <2>3. UnsubscribeOf(t) \in Range(inbox') => Subscribe(t) \notin Range(wire')
      BY <1>1, <1>2, Distinct DEF MapInv, Ordered
    <2> QED BY <1>1, <2>1, <2>2, <2>3 DEF MapInv, Ordered, InOrder
  <1> QED BY <1>4, <1>5, <1>6 DEF MapInv

LEMMA ReadAgrees ==
  ASSUME Typed, MapInv, NEW k \in 1..Len(inbox), Read(k)
  PROVE  MapInv'
  <1>1. PICK a : a = SubSeq(inbox, 1, k)
    OBVIOUS
  <1>2. PICK b : b = SubSeq(inbox, k + 1, Len(inbox))
    OBVIOUS
  <1>3. inbox \in Seq(Items) /\ Len(inbox) \in Nat
    BY LenProperties DEF Typed
  <1>4. a \in Seq(Items) /\ b \in Seq(Items)
    BY <1>1, <1>2, <1>3, Split
  <1>5. Len(b) = Len(inbox) - k /\ \A i \in 1..Len(b) : b[i] = inbox[k + i]
    BY <1>1, <1>2, <1>3, Split
  <1>6. Range(inbox) = Range(a) \cup Range(b)
    <2>1. Range(inbox) = Range(SubSeq(inbox, 1, k)) \cup Range(SubSeq(inbox, k + 1, Len(inbox)))
      BY <1>3, SplitRange
    <2> QED BY <1>1, <1>2, <2>1
  <1>7. /\ inbox' = b /\ wire' = wire /\ subscribed' = subscribed
        /\ (entry' <=> entry /\ Keeps(a))
        /\ handlers' = (IF Keeps(a) THEN handlers ELSE {}) \cup Added(a)
        /\ disturbed' = IF Keeps(a) THEN disturbed ELSE disturbed \cup {s \in Streams : Live(s)}
    BY <1>1, <1>2 DEF Read
  <1>8. /\ stream \in [Streams -> Stages]
        /\ \A s \in Streams : stream'[s] =
             IF stream[s] = "subscribing" /\ Subscribe(s) \in Range(a) THEN "open" ELSE stream[s]
    BY <1>1 DEF Read, Subscribe, Typed
  <1>9. Keeps(a) <=> \A s \in Streams : UnsubscribeOf(s) \notin Range(a)
    BY <1>4, KeepsIs
  <1>10. \A s \in Streams : s \in Added(a) <=> entry /\ Keeps(a) /\ Subscribe(s) \in Range(a)
    BY <1>4, SourceIs DEF Added, Subscribe
  <1>11. WillBeSubscribed'
    BY <1>6, <1>7, <1>9 DEF MapInv, WillBeSubscribed, EntryStays, UnderWay
  <1>12. ASSUME NEW s \in Streams PROVE Commanded(s)'
    <2>1. stream'[s] = "new" <=> stream[s] = "new"
      BY <1>8
    <2>2. stream'[s] = "closed" <=> stream[s] = "closed"
      BY <1>8
    <2>3. stream[s] = "new" => s \notin handlers' /\ ~UnderWay(Subscribe(s))'
      BY <1>6, <1>7, <1>10 DEF MapInv, Commanded, UnderWay
    <2>4. stream[s] # "closed" => ~UnderWay(UnsubscribeOf(s))'
      BY <1>6, <1>7 DEF MapInv, Commanded, UnderWay
    <2>5. ASSUME stream[s] = "closed", s \in handlers' PROVE UnderWay(UnsubscribeOf(s))'
      <3>1. Keeps(a)
        BY <1>7, <1>10, <2>5
      <3>2. s \in handlers \/ UnderWay(Subscribe(s))
        BY <1>6, <1>7, <1>10, <2>5 DEF UnderWay
      <3> QED BY <1>6, <1>7, <1>9, <2>5, <3>1, <3>2 DEF MapInv, Commanded, UnderWay
    <2>6. ASSUME stream[s] = "closed", UnderWay(Subscribe(s))' PROVE UnderWay(UnsubscribeOf(s))'
      <3>1. UnderWay(UnsubscribeOf(s))
        BY <1>6, <1>7, <2>6 DEF MapInv, Commanded, UnderWay
      <3>2. ASSUME UnsubscribeOf(s) \in Range(a) PROVE FALSE
        <4>1. Subscribe(s) \notin Range(b)
          BY <1>1, <1>2, <1>3, <3>2, ReadInOrder DEF MapInv, Ordered
        <4>2. Subscribe(s) \notin Range(wire)
          BY <1>6, <3>2 DEF MapInv, Ordered
        <4> QED BY <1>7, <2>6, <4>1, <4>2 DEF UnderWay
      <3> QED BY <1>6, <1>7, <3>1, <3>2 DEF UnderWay
    <2> QED BY <2>1, <2>2, <2>3, <2>4, <2>5, <2>6 DEF Commanded
  <1>13. ASSUME NEW s \in Streams PROVE Ordered(s)'
    <2>1. InOrder(b, s)
      BY <1>3, <1>4, <1>5, k \in Nat, OrderedRest DEF MapInv, Ordered
    <2> QED BY <1>6, <1>7, <2>1 DEF MapInv, Ordered, InOrder
  <1>14. ASSUME NEW s \in Streams PROVE Registered(s)'
    <2> SUFFICES ASSUME s \notin disturbed'
                 PROVE  (Live(s)' => entry') /\ (stream'[s] = "open" => s \in handlers')
      BY DEF Registered
    <2>1. Live(s)' => Live(s)
      BY <1>8 DEF Live
    <2>2. s \notin disturbed /\ (Live(s) => Keeps(a))
      BY <1>7
    <2>3. Live(s)' => entry' /\ Keeps(a)
      BY <1>7, <2>1, <2>2 DEF MapInv, Registered
    <2>4. ASSUME stream'[s] = "open" PROVE s \in handlers'
      <3>1. entry /\ Keeps(a)
        BY <1>7, <2>3, <2>4 DEF Live
      <3>2. stream[s] = "open" => s \in handlers
        BY <2>2 DEF MapInv, Registered
      <3> QED BY <1>7, <1>8, <1>10, <2>4, <3>1, <3>2
    <2> QED BY <2>3, <2>4
  <1> QED BY <1>11, <1>12, <1>13, <1>14 DEF MapInv

LEMMA RestartAgrees ==
  ASSUME Typed, MapInv, Restart
  PROVE  MapInv'
  <1>1. /\ ~entry' /\ handlers' = {} /\ wire' = <<>> /\ inbox' = <<>>
        /\ \A s \in Streams : ~Live(s)'
    BY DEF Restart, Typed, Live
  <1>2. Len(<<>>) = 0 /\ Range(<<>>) = {}
    BY NothingQueued
  <1>3. \A m : ~UnderWay(m)'
    BY <1>1, <1>2 DEF UnderWay
  <1>4. ASSUME NEW s \in Streams PROVE Commanded(s)' /\ Ordered(s)' /\ Registered(s)'
    BY <1>1, <1>2, <1>3 DEF Commanded, Ordered, InOrder, Registered, Live
  <1> QED BY <1>1, <1>4 DEF MapInv, WillBeSubscribed, EntryStays

LEMMA MapStep ==
  ASSUME Typed, MapInv, [Next]_vars
  PROVE  MapInv'
  <1>1. CASE UNCHANGED vars
    BY <1>1 DEF vars, MapInv, WillBeSubscribed, EntryStays, Commanded, Ordered, InOrder,
                Registered, Live, UnderWay
  <1> QED BY <1>1, OpenAgrees, CloseAgrees, ServeAgrees, PublishAgrees, ReadAgrees,
             RestartAgrees DEF Next

LEMMA MapInit == Init => MapInv
  BY NothingQueued DEF Init, MapInv, WillBeSubscribed, EntryStays, Commanded, Ordered, InOrder,
                       Registered, Live, UnderWay

\* What RedisService remembers agrees with Redis and with the streams, whatever
\* disconnects strike between a subscribe and its reply, and however many
\* replies and messages are read at once.
THEOREM MapAlwaysAgrees == Spec => []MapAgrees
  <1>1. Init => MapInv
    BY MapInit
  <1>2. Typed /\ MapInv => MapAgrees
    <2> SUFFICES ASSUME Typed, MapInv PROVE MapAgrees
      OBVIOUS
    <2>1. Range(<<>>) = {}
      BY NothingQueued
    <2>2. ASSUME Settled, NEW s \in Streams
          PROVE  ~UnderWay(Subscribe(s)) /\ ~UnderWay(UnsubscribeOf(s))
                 /\ Subscribe(s) \notin Range(wire)
      BY <2>1, <2>2, Distinct DEF Settled, UnderWay
    <2>3. EntryMeansSubscribed
      BY <2>2 DEF MapInv, WillBeSubscribed, EntryStays, EntryMeansSubscribed
    <2>4. ClosedIsForgotten
      BY <2>2 DEF MapInv, Commanded, ClosedIsForgotten, Typed
    <2>5. OpenIsRegistered
      BY DEF MapInv, Registered, OpenIsRegistered
    <2> QED BY <2>3, <2>4, <2>5 DEF MapAgrees
  <1> QED BY <1>1, <1>2, MapStep, AlwaysTyped, PTL DEF Spec

-----------------------------------------------------------------------------
(* Nobody waits for nothing: what the liveness property Served rests on.   *)

\* Either the stream's subscribe, or Redis' reply to it, is on its way.
Awaited(s) == stream[s] = "subscribing" => UnderWay(Subscribe(s))

\* A stream at which no unsubscribe has struck either waits for the reply to
\* its own subscribe or has its callback in the map, and once no command or
\* reply is left on the way, Redis has the channel and the next message
\* reaches it: nothing it waits for has been lost.
NobodyIsForgotten ==
  \A s \in Streams :
    Live(s) /\ s \notin disturbed =>
      \/ stream[s] = "subscribing" /\ UnderWay(Subscribe(s))
      \/ s \in handlers /\ (Settled => subscribed)

LEMMA AwaitedStep ==
  ASSUME Typed, \A s \in Streams : Awaited(s), [Next]_vars, NEW s \in Streams
  PROVE  Awaited(s)'
  <1>0. /\ stream \in [Streams -> Stages] /\ wire \in Seq(Commands) /\ inbox \in Seq(Items)
        /\ Len(inbox) \in Nat
    BY LenProperties DEF Typed
  <1> SUFFICES ASSUME stream'[s] = "subscribing" PROVE UnderWay(Subscribe(s))'
    BY DEF Awaited
  <1>1. ASSUME NEW t \in Streams, Open(t) PROVE UnderWay(Subscribe(s))'
    <2>1. CASE entry
      BY <1>0, <1>1, <2>1 DEF Open, Awaited, UnderWay
    <2>2. CASE ~entry
      <3>0. wire' = Append(wire, Subscribe(t))
        BY <1>1, <2>2 DEF Open, Subscribe
      <3>1. Range(wire') = Range(wire) \cup {Subscribe(t)}
        BY <1>0, <3>0, ItemsTyped, RangeOfAppend
      <3>2. inbox' = inbox /\ (s # t => stream'[s] = stream[s])
        BY <1>0, <1>1, <2>2 DEF Open
      <3> QED BY <3>1, <3>2 DEF Awaited, UnderWay
    <2> QED BY <2>1, <2>2
  <1>2. ASSUME NEW t \in Streams, Close(t) PROVE UnderWay(Subscribe(s))'
    <2>0. wire' = Append(wire, UnsubscribeOf(t))
      BY <1>2 DEF Close, Unsubscribe, UnsubscribeOf
    <2>1. Range(wire') = Range(wire) \cup {UnsubscribeOf(t)}
      BY <1>0, <2>0, ItemsTyped, RangeOfAppend
    <2>2. inbox' = inbox /\ stream[s] = "subscribing"
      BY <1>0, <1>2 DEF Close
    <2> QED BY <2>1, <2>2 DEF Awaited, UnderWay
  <1>3. CASE Serve
    <2>1. Head(wire) \in Items /\ Range(wire) = {Head(wire)} \cup Range(Tail(wire))
      BY <1>0, <1>3, RangeOfHeadTail, ItemsTyped DEF Serve
    <2>2. Range(inbox') = Range(inbox) \cup {Head(wire)}
      BY <1>0, <1>3, <2>1, RangeOfAppend DEF Serve
    <2> QED BY <1>3, <2>1, <2>2 DEF Serve, Awaited, UnderWay
  <1>4. CASE Publish
    <2>1. Range(inbox') = Range(inbox) \cup {Message}
      BY <1>0, <1>4, ItemsTyped, RangeOfAppend DEF Publish
    <2> QED BY <1>4, <2>1 DEF Publish, Awaited, UnderWay
  <1>5. ASSUME NEW k \in 1..Len(inbox), Read(k) PROVE UnderWay(Subscribe(s))'
    <2>1. Range(inbox) = Range(SubSeq(inbox, 1, k)) \cup Range(SubSeq(inbox, k + 1, Len(inbox)))
      BY <1>0, SplitRange
    <2>2. stream[s] = "subscribing" /\ Subscribe(s) \notin Range(SubSeq(inbox, 1, k))
      BY <1>0, <1>5 DEF Read, Subscribe
    <2>3. inbox' = SubSeq(inbox, k + 1, Len(inbox)) /\ wire' = wire
      BY <1>5 DEF Read
    <2> QED BY <2>1, <2>2, <2>3 DEF Awaited, UnderWay
  <1>6. CASE Restart
    BY <1>0, <1>6 DEF Restart, Live
  <1>7. CASE UNCHANGED vars
    BY <1>7 DEF vars, Awaited, UnderWay
  <1> QED BY <1>1, <1>2, <1>3, <1>4, <1>5, <1>6, <1>7 DEF Next

\* However opens, disconnects, replies and restarts are interleaved, a stream
\* that has been struck by no unsubscribe is never left with a subscribe that
\* nobody answers, nor with a callback for a channel that Redis has dropped.
THEOREM NobodyForgotten == Spec => []NobodyIsForgotten
  <1>1. Init => MapInv /\ \A s \in Streams : Awaited(s)
    BY MapInit DEF Init, Awaited
  <1>2. ASSUME Typed, MapInv, \A s \in Streams : Awaited(s) PROVE NobodyIsForgotten
    <2> SUFFICES ASSUME NEW s \in Streams, Live(s), s \notin disturbed, stream[s] = "open", Settled
                 PROVE  s \in handlers /\ subscribed
      BY <1>2 DEF NobodyIsForgotten, MapInv, Registered, Live, Awaited
    <2>1. s \in handlers /\ entry
      BY <1>2 DEF MapInv, Registered
    <2>2. Range(<<>>) = {}
      BY NothingQueued
    <2>3. \A t \in Streams : ~UnderWay(UnsubscribeOf(t)) /\ Subscribe(t) \notin Range(wire)
      BY <2>2, Distinct DEF Settled, UnderWay
    <2> QED BY <1>2, <2>1, <2>3 DEF MapInv, WillBeSubscribed, EntryStays
  <1>3. (\A s \in Streams : Awaited(s)) /\ Typed /\ [Next]_vars => (\A s \in Streams : Awaited(s))'
    BY AwaitedStep
  <1> QED BY <1>1, <1>2, <1>3, MapStep, AlwaysTyped, PTL DEF Spec
=============================================================================
