----------------------------- MODULE EventStream -----------------------------
(***************************************************************************)
(* The way of a server event to one browser: the broadcaster that turns    *)
(* domain events and the queue-depth timer into factory events, the rooms  *)
(* of the socket.io gateway, and the socket the WebSocketProvider of the   *)
(* web UI keeps.  An event reaches the browser once for every room of it   *)
(* the socket is in; what is sent while the socket is down is lost.  The   *)
(* rooms of single entities, which only the worker output panel joins, are *)
(* left out with the panel.                                                *)
(*                                                                         *)
(* socket   the provider's connection state                                *)
(* rooms    the channels whose room the gateway has joined this socket to  *)
(* asks     the channels asked for in messages on their way to the gateway *)
(* wire     events on their way to the browser                             *)
(* drops    how often the connection was lost (bounded by MaxDrops)        *)
(***************************************************************************)
EXTENDS Naturals, Sequences

CONSTANTS
  MaxWire,    \* bound on the events under way
  MaxDrops    \* bound on lost connections

VARIABLES socket, rooms, asks, wire, drops

streamVars == <<socket, rooms, asks, wire, drops>>

EventChannel == {"tasks", "workers", "queue"}

\* The entities whose domain events are broadcast, and on which channel.
ENTITY_TYPE_TO_CHANNEL ==
  [e \in {"task", "task-lease", "worker", "review-cycle", "merge-queue-item"} |->
     CASE e \in {"task", "review-cycle"} -> "tasks"
       [] e \in {"task-lease", "worker"} -> "workers"
       [] e = "merge-queue-item"         -> "queue"]

DOMAIN_EVENT_TYPE_TO_WS_TYPE ==
  [e \in DOMAIN ENTITY_TYPE_TO_CHANNEL |->
     CASE e = "task"             -> "task.state_changed"
       [] e = "task-lease"       -> "task_lease.state_changed"
       [] e = "worker"           -> "worker.status_changed"
       [] e = "review-cycle"     -> "review_cycle.state_changed"
       [] e = "merge-queue-item" -> "merge_queue_item.state_changed"]

-----------------------------------------------------------------------------
(* The broadcaster.  Each operator is the sequence of events that reach    *)
(* this browser's socket.                                                  *)

FactoryEvent(type, channel) == [type |-> type, channel |-> channel]

BroadcastToChannel(channel, type) ==
  IF channel \in rooms THEN <<FactoryEvent(type, channel)>> ELSE <<>>

\* The event goes to the entity's room, which nobody here is in, and to its
\* channel's.
BroadcastToEntity(channel, type) == BroadcastToChannel(channel, type)

\* The summary of the worker's pool follows a worker's event, the positions of
\* the whole queue a merge queue item's.
BroadcastPoolSummary == BroadcastToEntity("workers", "pool.summary_updated")

BroadcastMergeQueueUpdate == BroadcastToChannel("queue", "merge_queue.positions_updated")

EmitEnrichment(type) ==
  CASE type = "worker"           -> BroadcastPoolSummary
    [] type = "merge-queue-item" -> BroadcastMergeQueueUpdate
    [] OTHER                     -> <<>>

\* DomainEventBroadcasterAdapter.emit, for an entity of the given type.
Emit(type) ==
  BroadcastToEntity(ENTITY_TYPE_TO_CHANNEL[type], DOMAIN_EVENT_TYPE_TO_WS_TYPE[type])
    \o EmitEnrichment(type)

Send(events) ==
  /\ Len(wire) + Len(events) <= MaxWire
  /\ wire' = wire \o events

-----------------------------------------------------------------------------
StreamInit ==
  /\ socket = "disconnected" /\ rooms = {} /\ asks = {} /\ wire = <<>> /\ drops = 0

\* The timer of QueueWorkerEventsService: the pending jobs per type, counted
\* and broadcast whether or not they changed.
QueueDepthPoll ==
  /\ Send(BroadcastToChannel("queue", "queue.depth_updated"))
  /\ UNCHANGED <<socket, rooms, asks, drops>>

DEFAULT_CHANNELS == EventChannel

\* Fault: the channels are asked for when the provider is mounted only.
SocketConnectsFault ==
  /\ socket = "disconnected"
  /\ socket' = "connected"
  /\ rooms' = {}
  /\ asks' = IF drops = 0 THEN DEFAULT_CHANNELS ELSE {}
  /\ UNCHANGED <<wire, drops>>

\* The socket connects (first or again): the provider subscribes to the three
\* default channels.  The new socket is in no room yet.
SocketConnects ==
  /\ socket = "disconnected"
  /\ socket' = "connected"
  /\ rooms' = {}
  /\ asks' = DEFAULT_CHANNELS
  /\ UNCHANGED <<wire, drops>>

\* The connection is lost with everything under way in both directions.
SocketDrops ==
  /\ socket = "connected" /\ drops < MaxDrops
  /\ socket' = "disconnected"
  /\ rooms' = {} /\ asks' = {} /\ wire' = <<>>
  /\ drops' = drops + 1

\* The gateway joins the rooms asked for.  The messages leave together and are
\* handled one after the other; what happens between them is left out.
HandleSubscribe ==
  /\ asks # {}
  /\ rooms' = rooms \cup asks
  /\ asks' = {}
  /\ UNCHANGED <<socket, wire, drops>>
=============================================================================
