----------------------------- MODULE EventStream -----------------------------
(***************************************************************************)
(* The server-sent event streams (src/src/modules/sse) over RedisService   *)
(* (src/src/shared/core/transporter/redis/redis.service.ts): one process,  *)
(* its map of handlers for the channel 'sse', the subscriber connection to *)
(* Redis, and the timer that publishes on the channel.                     *)
(*                                                                         *)
(* The connection is FIFO both ways.  The process reads whatever has come  *)
(* in at once: messages are emitted while it is being parsed, and only     *)
(* then do the promises of the replies in it continue.                     *)
(***************************************************************************)
EXTENDS Integers, SequencesExt

CONSTANTS
  Streams,    \* connections to GET /sse/events, each opened once
  MaxUnread,  \* bound: messages and replies the process has not read yet
  None        \* no stream

ASSUME EventStreamAssumption ==
  /\ MaxUnread \in Nat \ {0}
  /\ None \notin Streams

VARIABLES
  entry,       \* subscriptions.has('sse')
  handlers,    \* the streams whose callback is in the entry
  stream,      \* how far each connection is
  wire,        \* commands on their way to Redis
  inbox,       \* replies and messages on their way back
  subscribed,  \* Redis has the connection subscribed to the channel
  got,         \* streams that have passed on an event
  disturbed    \* history: streams that were there when an unsubscribe continued

vars == <<entry, handlers, stream, wire, inbox, subscribed, got, disturbed>>

-----------------------------------------------------------------------------

\* "subscribing" is the await of redis.service.ts:80.
Stages == {"new", "subscribing", "open", "closed"}
Live(s) == stream[s] \in {"subscribing", "open"}

Item(k, s) == [kind |-> k, stream |-> s]
Commands == [kind : {"subscribe", "unsubscribe"}, stream : Streams]
Message == Item("message", None)

Sources(items, k) == {m.stream : m \in {n \in Range(items) : n.kind = k}}

\* The entry left in the map.
NeverDeletes(chunk) == TRUE

\* The promise of an unsubscribe that continues deletes the entry.
Keeps(chunk) == Sources(chunk, "unsubscribe") = {}

\* The callbacks added to an entry that has just been deleted.
AddedLate(chunk) == Sources(chunk, "subscribe")

\* The promise of a subscribe adds its callback, if there is an entry.
Added(chunk) == IF entry /\ Keeps(chunk) THEN Sources(chunk, "subscribe") ELSE {}

\* Only the first callback called.
FirstReceiver == IF handlers = {} THEN {} ELSE {CHOOSE s \in handlers : TRUE}

\* Every callback is called; that of a closed connection does nothing.
Receivers == {s \in handlers : Live(s)}

\* unsubscribe without a callback, up to its await.
Unsubscribe(s) == Append(wire, Item("unsubscribe", s))

\* A GET /sse/events: RedisService.subscribe up to its await, or to its end
\* when the channel has an entry already.
Open(s) ==
  /\ stream[s] = "new"
  /\ IF entry
       THEN /\ handlers' = handlers \cup {s}
            /\ stream' = [stream EXCEPT ![s] = "open"]
            /\ UNCHANGED wire
       ELSE /\ wire' = Append(wire, Item("subscribe", s))
            /\ stream' = [stream EXCEPT ![s] = "subscribing"]
            /\ UNCHANGED handlers
  /\ entry' = TRUE
  /\ UNCHANGED <<inbox, subscribed, got, disturbed>>

\* The client goes away and the controller unsubscribes the channel.
Close(s) ==
  /\ Live(s)
  /\ stream' = [stream EXCEPT ![s] = "closed"]
  /\ wire' = Unsubscribe(s)
  /\ UNCHANGED <<entry, handlers, inbox, subscribed, got, disturbed>>

\* Redis executes the next command and replies.
Serve ==
  /\ wire # <<>> /\ Len(inbox) < MaxUnread
  /\ subscribed' = (Head(wire).kind = "subscribe")
  /\ inbox' = Append(inbox, Head(wire))
  /\ wire' = Tail(wire)
  /\ UNCHANGED <<entry, handlers, stream, got, disturbed>>

\* SseService's timer, in this process or another: Redis sends the message to
\* the connection if it is subscribed.
Publish ==
  /\ subscribed /\ Len(inbox) < MaxUnread
  /\ inbox' = Append(inbox, Message)
  /\ UNCHANGED <<entry, handlers, stream, wire, subscribed, got, disturbed>>

\* The process reads the first k items: every callback in the entry gets the
\* messages, then the replies' promises continue in order.
Read(k) ==
  LET chunk == SubSeq(inbox, 1, k)
  IN  /\ got' = IF Message \in Range(chunk) THEN got \cup Receivers ELSE got
      /\ entry' = (entry /\ Keeps(chunk))
      /\ handlers' = (IF Keeps(chunk) THEN handlers ELSE {}) \cup Added(chunk)
      /\ stream' = [s \in Streams |->
           IF stream[s] = "subscribing" /\ Item("subscribe", s) \in Range(chunk)
             THEN "open" ELSE stream[s]]
      /\ disturbed' = IF Keeps(chunk) THEN disturbed
                      ELSE disturbed \cup {s \in Streams : Live(s)}
      /\ inbox' = SubSeq(inbox, k + 1, Len(inbox))
      /\ UNCHANGED <<wire, subscribed>>

\* The process ends: nobody handles the rejection of a subscribe, unsubscribe
\* or publish that Redis could not answer.  It is started again.
Restart ==
  /\ stream' = [s \in Streams |-> IF Live(s) THEN "closed" ELSE stream[s]]
  /\ entry' = FALSE /\ handlers' = {} /\ subscribed' = FALSE
  /\ wire' = <<>> /\ inbox' = <<>>
  /\ UNCHANGED <<got, disturbed>>

-----------------------------------------------------------------------------

Init ==
  /\ entry = FALSE /\ handlers = {} /\ subscribed = FALSE
  /\ stream = [s \in Streams |-> "new"]
  /\ wire = <<>> /\ inbox = <<>>
  /\ got = {} /\ disturbed = {}

Next ==
  \/ \E s \in Streams : Open(s) \/ Close(s)
  \/ Serve \/ Publish \/ Restart
  \/ \E k \in 1 .. Len(inbox) : Read(k)

\* Redis answers, the timer publishes every second, and the event loop reads
\* everything that has arrived.
Fairness == WF_vars(Serve) /\ WF_vars(Publish) /\ WF_vars(\E k \in 1 .. Len(inbox) : Read(k))

Spec == Init /\ [][Next]_vars /\ Fairness

-----------------------------------------------------------------------------
(* What holds.                                                             *)

\* Every variable has its type, and callbacks only exist within the entry.
TypeOK ==
  /\ entry \in BOOLEAN /\ handlers \subseteq Streams
  /\ stream \in [Streams -> Stages]
  /\ wire \in Seq(Commands) /\ inbox \in Seq(Commands \cup {Message})
  /\ subscribed \in BOOLEAN
  /\ got \subseteq Streams /\ disturbed \subseteq Streams
  /\ Len(inbox) <= MaxUnread
  /\ ~entry => handlers = {}

\* No command is on its way and no reply waits to be read.
Settled == wire = <<>> /\ \A m \in Range(inbox) : m = Message

\* The map and Redis agree once the commands have settled: an entry, which
\* keeps later streams from subscribing, means that Redis has the channel,
\* however opens and disconnects were interleaved with the replies.
EntryMeansSubscribed == Settled /\ entry => subscribed

\* A stream that is gone leaves no callback behind.
ClosedIsForgotten ==
  Settled => \A s \in handlers : stream[s] # "closed"

\* An open stream at which no unsubscribe has struck is registered.
OpenIsRegistered ==
  \A s \in Streams :
    stream[s] = "open" /\ s \notin disturbed => s \in handlers

\* What RedisService remembers, what Redis has subscribed and which streams
\* are open agree, under every order of opens, disconnects and replies.
MapAgrees == EntryMeansSubscribed /\ ClosedIsForgotten /\ OpenIsRegistered

\* A stream receives events unless it is closed or another client's
\* disconnect has taken its callback away.
Served ==
  \A s \in Streams : Live(s) ~> s \in got \/ ~Live(s) \/ s \in disturbed
=============================================================================
