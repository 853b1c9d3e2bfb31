----------------------------- MODULE RealtimeFeed -----------------------------
(* The realtime edge of the cockpit (apps/go/cockpit-gateway) and the      *)
(* browser that listens to it (apps/web/cockpit-web/src/realtime).  The    *)
(* gateway reads committed engine events from its own consumer group, one  *)
(* record at a time, and publishes a signal for each name the event        *)
(* concerns; a hub keeps a bounded ring of past signals and the bounded    *)
(* buffers of its subscribers per name.  A browser opens one connection    *)
(* for several names and resumes with the cursor of the last signal it     *)
(* received on any of them; a signal, or an answer that it must resync,    *)
(* makes it reload the queries concerned.                                  *)
(*                                                                         *)
(* A cursor is the offset of a record; the topic has one partition.  The   *)
(* hub's lock makes a publication of one name, a subscription to one name  *)
(* and its removal one step each.  Heartbeats, tokens and origins are left *)
(* out.                                                                    *)
EXTENDS Naturals, FiniteSets, SequencesExt

CONSTANTS
  Client,            \* browsers
  NamesOf,           \* [Client -> the sequence of names it asks for]
  EventNames,        \* the sequences of names an event may be published under
  MaxSignals,        \* bound on records
  BufferSize, ReplaySize, MaxReplayStreams, MaxSubscriptions, MaxConnections,
  MaxGatewayRestarts,
  NoCursor

VARIABLES
  committedEvents,   \* the records of the topic, each the names it concerns
  eventConsumer,     \* [committed, rest]: rest are the names still to publish
  streams,           \* the buckets: [name -> [replay, replayStart]]
  subscribers,       \* {<<client, name>>}
  connection,        \* the handler that serves each browser
  browser,           \* [Client -> [cursor, view]]
  gatewayRestarts

feedVars == <<committedEvents, eventConsumer, streams, subscribers, connection, browser,
              gatewayRestarts>>

Names == UNION {Range(n) : n \in EventNames} \union UNION {Range(NamesOf[c]) : c \in Client}

NoConnection ==
  [phase |-> "off", todo |-> <<>>, open |-> <<>>, asked |-> NoCursor, reset |-> FALSE,
   output |-> [n \in Names |-> <<>>], closed |-> {}, held |-> [n \in Names |-> NoCursor]]

FeedInit ==
  /\ committedEvents = <<>>
  /\ eventConsumer = [committed |-> 0, rest |-> <<>>]
  /\ streams = <<>>
  /\ subscribers = {}
  /\ connection = [c \in Client |-> NoConnection]
  /\ browser = [c \in Client |-> [cursor |-> NoCursor, view |-> [n \in Names |-> 0]]]
  /\ gatewayRestarts = 0

-----------------------------------------------------------------------------
(* The hub.                                                                *)

NewBucket == [replay |-> <<>>, replayStart |-> 0]

Inactive == {n \in DOMAIN streams : \A c \in Client : <<c, n>> \notin subscribers}

Without(f, names) == [n \in DOMAIN f \ names |-> f[n]]

(* The buckets after one without subscribers has made room, when the hub   *)
(* is full.                                                                *)
EvictInactive ==
  IF Cardinality(DOMAIN streams) < MaxReplayStreams \/ Inactive = {} THEN {streams}
  ELSE {Without(streams, {n}) : n \in Inactive}

(* The buckets once the one of this name is there; none when there is no   *)
(* room for it.                                                            *)
WithBucket(name) ==
  IF name \in DOMAIN streams THEN {streams}
  ELSE {[n \in DOMAIN s \union {name} |-> IF n = name THEN NewBucket ELSE s[n]] :
          s \in {e \in EvictInactive : Cardinality(DOMAIN e) < MaxReplayStreams}}

AppendReplay(bucket, cursor) ==
  IF Len(bucket.replay) < ReplaySize
  THEN [bucket EXCEPT !.replay = Append(@, cursor)]
  ELSE [replay |-> [bucket.replay EXCEPT ![bucket.replayStart + 1] = cursor],
        replayStart |-> (bucket.replayStart + 1) % Len(bucket.replay)]


OrderedReplay(bucket) ==
  SubSeq(bucket.replay, bucket.replayStart + 1, Len(bucket.replay))
    \o SubSeq(bucket.replay, 1, bucket.replayStart)

(* What a subscriber is sent first, and whether it must resync.            *)
ReplayAfter(bucket, cursor) ==
  LET ordered == OrderedReplay(bucket)
      found == SelectInSeq(ordered, LAMBDA s : s = cursor)
      after == SubSeq(ordered, found + 1, Len(ordered))
  IN  CASE cursor = NoCursor -> [replay |-> <<>>, reset |-> FALSE]
        [] cursor # NoCursor /\ found # 0 /\ Len(after) <= BufferSize ->
             [replay |-> after, reset |-> FALSE]
        [] OTHER -> [replay |-> <<>>, reset |-> TRUE]

(* One signal under one name.  A subscriber whose buffer is full is        *)
(* disconnected; a signal for which the hub has no room is dropped.        *)
PublishToIndexedSubscribers(name, cursor) ==
  LET slow == {c \in Client : <<c, name>> \in subscribers
                                /\ Len(connection[c].output[name]) >= BufferSize}
      served == {c \in Client : <<c, name>> \in subscribers} \ slow
  IN  IF WithBucket(name) = {} THEN UNCHANGED <<streams, subscribers, connection>>
      ELSE /\ \E s \in WithBucket(name) :
                streams' = [s EXCEPT ![name] = AppendReplay(@, cursor)]
           /\ subscribers' = subscribers \ (slow \X {name})
           /\ connection' = [c \in Client |->
                CASE c \in served -> [connection[c] EXCEPT !.output[name] = Append(@, cursor)]
                  [] c \in slow -> [connection[c] EXCEPT !.closed = @ \union {name}]
                  [] OTHER -> connection[c]]

-----------------------------------------------------------------------------
(* The consumer of committed engine events.                                *)

CommitEvent ==
  \E names \in EventNames :
    /\ Len(committedEvents) < MaxSignals
    /\ committedEvents' = Append(committedEvents, names)
    /\ UNCHANGED <<eventConsumer, streams, subscribers, connection, browser, gatewayRestarts>>

InHand == eventConsumer.committed + 1

(* The first name of the next record, or the next one of the record in     *)
(* hand; the record is committed once every name is published.             *)
HandleRecord ==
  /\ InHand <= Len(committedEvents)
  /\ LET names == IF eventConsumer.rest = <<>> THEN committedEvents[InHand]
                  ELSE eventConsumer.rest
     IN  /\ eventConsumer.rest # <<"commit">>
         /\ PublishToIndexedSubscribers(Head(names), InHand)
         /\ eventConsumer' = [eventConsumer EXCEPT
              !.rest = IF Len(names) = 1 THEN <<"commit">> ELSE Tail(names)]
  /\ UNCHANGED <<committedEvents, browser, gatewayRestarts>>

CommitRecord ==
  /\ eventConsumer.rest = <<"commit">>
  /\ eventConsumer' = [committed |-> InHand, rest |-> <<>>]
  /\ UNCHANGED <<committedEvents, streams, subscribers, connection, browser, gatewayRestarts>>

(* The process stops at any time and comes back with an empty hub.         *)
RestartGateway ==
  /\ gatewayRestarts < MaxGatewayRestarts
  /\ gatewayRestarts' = gatewayRestarts + 1
  /\ eventConsumer' = [eventConsumer EXCEPT !.rest = <<>>]
  /\ streams' = <<>>
  /\ subscribers' = {}
  /\ connection' = [c \in Client |-> NoConnection]
  /\ UNCHANGED <<committedEvents, browser>>

-----------------------------------------------------------------------------
(* The handler of a connection, and its browser.                           *)

Connected == {c \in Client : connection[c].phase # "off"}

(* A browser connects, with the cursor it has, while there is a slot.      *)
Connect(c) ==
  /\ connection[c].phase = "off"
  /\ Cardinality(Connected) < MaxConnections
  /\ connection' = [connection EXCEPT ![c] = [NoConnection EXCEPT
       !.phase = "subscribing", !.todo = NamesOf[c], !.asked = browser[c].cursor]]
  /\ UNCHANGED <<committedEvents, eventConsumer, streams, subscribers, browser, gatewayRestarts>>

HasRoom(name) == Cardinality(subscribers) < MaxSubscriptions /\ WithBucket(name) # {}

SubscribeFrom(c) ==
  /\ connection[c].phase = "subscribing"
  /\ connection[c].todo # <<>>
  /\ LET name == Head(connection[c].todo)
     IN  /\ HasRoom(name)
         /\ \E s \in WithBucket(name) :
              LET resumed == ReplayAfter(s[name], connection[c].asked)
              IN  /\ streams' = s
                  /\ connection' = [connection EXCEPT
                       ![c].todo = Tail(@), ![c].open = Append(@, name),
                       ![c].output[name] = resumed.replay,
                       ![c].reset = @ \/ resumed.reset]
         /\ subscribers' = subscribers \union {<<c, name>>}
  /\ UNCHANGED <<committedEvents, eventConsumer, browser, gatewayRestarts>>

SubscriptionUnavailable(c) ==
  /\ connection[c].phase = "subscribing"
  /\ connection[c].todo # <<>>
  /\ ~HasRoom(Head(connection[c].todo))
  /\ connection' = [connection EXCEPT ![c].phase = "closing"]
  /\ UNCHANGED <<committedEvents, eventConsumer, streams, subscribers, browser, gatewayRestarts>>

(* The answer starts; a browser told to resync reloads every query.        *)
StartStream(c) ==
  /\ connection[c].phase = "subscribing"
  /\ connection[c].todo = <<>>
  /\ connection' = [connection EXCEPT ![c].phase = "streaming"]
  /\ browser' = IF connection[c].reset
                THEN [browser EXCEPT ![c].view = [n \in Names |-> Len(committedEvents)]]
                ELSE browser
  /\ UNCHANGED <<committedEvents, eventConsumer, streams, subscribers, gatewayRestarts>>

(* The goroutine of a name takes the next signal of its buffer.            *)
MergeSignal(c) ==
  /\ connection[c].phase = "streaming"
  /\ \E n \in Range(connection[c].open) :
       /\ connection[c].held[n] = NoCursor
       /\ connection[c].output[n] # <<>>
       /\ connection' = [connection EXCEPT ![c].held[n] = Head(connection[c].output[n]),
                                           ![c].output[n] = Tail(@)]
  /\ UNCHANGED <<committedEvents, eventConsumer, streams, subscribers, browser, gatewayRestarts>>

(* It is written; the browser keeps its cursor and reloads the queries of  *)
(* that name.                                                              *)
WriteSignal(c) ==
  /\ connection[c].phase = "streaming"
  /\ \E n \in Range(connection[c].open) :
       /\ connection[c].held[n] # NoCursor
       /\ connection' = [connection EXCEPT ![c].held[n] = NoCursor]
       /\ browser' = [browser EXCEPT ![c].cursor = connection[c].held[n],
                                     ![c].view[n] = Max({@, connection[c].held[n]})]
  /\ UNCHANGED <<committedEvents, eventConsumer, streams, subscribers, gatewayRestarts>>

(* The browser goes away, or a buffer that was closed has been drained.    *)
EndStream(c) ==
  /\ connection[c].phase = "streaming"
  /\ connection' = [connection EXCEPT ![c].phase = "closing"]
  /\ UNCHANGED <<committedEvents, eventConsumer, streams, subscribers, browser, gatewayRestarts>>

(* One subscription is removed, and an empty bucket with it.               *)
RemoveSubscription(c) ==
  /\ connection[c].phase = "closing"
  /\ connection[c].open # <<>>
  /\ LET name == Head(connection[c].open)
         left == subscribers \ {<<c, name>>}
         unused == /\ <<c, name>> \in subscribers
                   /\ \A d \in Client : <<d, name>> \notin left
                   /\ streams[name].replay = <<>>
     IN  /\ subscribers' = left
         /\ streams' = IF unused THEN Without(streams, {name}) ELSE streams
         /\ connection' = [connection EXCEPT ![c].open = Tail(@)]
  /\ UNCHANGED <<committedEvents, eventConsumer, browser, gatewayRestarts>>

ReleaseConnection(c) ==
  /\ connection[c].phase = "closing"
  /\ connection[c].open = <<>>
  /\ connection' = [connection EXCEPT ![c] = NoConnection]
  /\ UNCHANGED <<committedEvents, eventConsumer, streams, subscribers, browser, gatewayRestarts>>

FeedNext ==
  \/ CommitEvent
  \/ HandleRecord
  \/ CommitRecord
  \/ RestartGateway
  \/ \E c \in Client :
       \/ Connect(c) \/ SubscribeFrom(c) \/ SubscriptionUnavailable(c) \/ StartStream(c)
       \/ MergeSignal(c) \/ WriteSignal(c) \/ EndStream(c)
       \/ RemoveSubscription(c) \/ ReleaseConnection(c)

FeedSpec == FeedInit /\ [][FeedNext]_feedVars

-----------------------------------------------------------------------------
(* Properties.                                                             *)

Published(name) ==
  {k \in DOMAIN committedEvents :
     /\ name \in Range(committedEvents[k])
     /\ \/ k <= eventConsumer.committed
        \/ k = InHand /\ eventConsumer.rest # <<>> /\ name \notin Range(eventConsumer.rest)}

OnTheWay(c, name) == Range(connection[c].output[name]) \union {connection[c].held[name]}

Streaming(c, name) ==
  /\ connection[c].phase = "streaming"
  /\ name \in Range(connection[c].open) \ connection[c].closed


=============================================================================
