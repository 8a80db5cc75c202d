--------------------------------- MODULE Cdc ---------------------------------
(***************************************************************************)
(* Change notifications (oxigraph-cdc): the registry of subscriptions, the *)
(* broadcast channel that record sends events into, and the WebSocket and  *)
(* SSE connections that read it.                                           *)
(*                                                                         *)
(* The channel is tokio's: a ring of buffer_size events that a sender      *)
(* overwrites without waiting.  A receiver that was overtaken gets the     *)
(* error Lagged once and goes on at the oldest event still in the ring.    *)
(* Events are named by their position in the stream of events sent.        *)
(***************************************************************************)
EXTENDS Integers, Sequences, SequencesExt

CONSTANTS
  Subs,          \* the ids of subscriptions
  Conns,         \* the connections, each opened at most once
  buffer_size,   \* --cdc-buffer-size
  MaxBatch,      \* the most events in one notification (100 in the code)
  MaxEvents      \* bound: how many events are sent

ASSUME ConstantsAssumption ==
  /\ buffer_size \in Nat \ {0}
  /\ MaxBatch \in Nat \ {0}
  /\ MaxEvents \in Nat

VARIABLES
  head,       \* the position of the last event sent
  registry,   \* the subscriptions in the registry
  conn,       \* the state of each connection's handler
  sub,        \* the subscription each connection was opened with
  rx,         \* the position each receiver reads next
  batch,      \* the events a WebSocket handler has collected
  sent,       \* the events sent on each connection
  start,      \* history: the first event due on each connection
  skipped     \* history: the events each receiver was overtaken by

vars == <<head, registry, conn, sub, rx, batch, sent, start, skipped>>
connVars == <<conn, sub, rx, batch, sent, start, skipped>>

Init ==
  /\ head = 0
  /\ registry = {}
  /\ conn = [c \in Conns |-> "new"]
  /\ sub \in [Conns -> Subs]
  /\ rx = [c \in Conns |-> 1]
  /\ batch = [c \in Conns |-> <<>>]
  /\ sent = [c \in Conns |-> <<>>]
  /\ start = [c \in Conns |-> 1]
  /\ skipped = [c \in Conns |-> {}]

Goto(c, state) == conn' = [conn EXCEPT ![c] = state]

-----------------------------------------------------------------------------
(* The channel *)

send ==
  /\ head < MaxEvents
  /\ head' = head + 1
  /\ UNCHANGED <<registry, connVars>>

\* The oldest event the ring still holds.
Oldest == IF head > buffer_size THEN head - buffer_size + 1 ELSE 1

\* What recv returns: the next event, or Lagged.
RecvOk(c) ==
  /\ Oldest <= rx[c]
  /\ rx[c] <= head
  /\ rx' = [rx EXCEPT ![c] = @ + 1]
  /\ UNCHANGED skipped

RecvLagged(c) ==
  /\ rx[c] < Oldest
  /\ rx' = [rx EXCEPT ![c] = Oldest]
  /\ skipped' = [skipped EXCEPT ![c] = @ \cup rx[c]..(Oldest - 1)]

-----------------------------------------------------------------------------
(* Subscriptions *)

\* POST /subscription, with a fresh uuid.
subscription_handler(s) ==
  /\ s \notin registry
  /\ \A c \in Conns : conn[c] # "new" => sub[c] # s
  /\ registry' = registry \cup {s}
  /\ UNCHANGED <<head, connVars>>

\* GET on the channel of a subscription: the receiver starts after the last
\* event, whatever state the subscription asked for.  Neither handler looks at
\* the type of the channel that was asked for.
Open(c, state) ==
  /\ conn[c] = "new"
  /\ sub[c] \in registry
  /\ Goto(c, state)
  /\ rx' = [rx EXCEPT ![c] = head + 1]
  /\ start' = [start EXCEPT ![c] = head + 1]
  /\ UNCHANGED <<head, registry, sub, batch, sent, skipped>>

websocket_handler(c) == Open(c, "waiting")
sse_handler(c) == Open(c, "streaming")

-----------------------------------------------------------------------------
(* handle_websocket *)

\* The first event of a batch.
WsFirst(c) ==
  /\ conn[c] = "waiting"
  /\ RecvOk(c)
  /\ batch' = [batch EXCEPT ![c] = <<rx[c]>>]
  /\ Goto(c, "batching")
  /\ UNCHANGED <<head, registry, sub, sent, start>>

\* The client is told how many events it missed.
WsLagged(c) ==
  /\ conn[c] = "waiting"
  /\ RecvLagged(c)
  /\ UNCHANGED <<head, registry, conn, sub, batch, sent, start>>

\* More events, until the window closes or the batch is full.
WsMore(c) ==
  /\ conn[c] = "batching"
  /\ Len(batch[c]) < MaxBatch
  /\ RecvOk(c)
  /\ batch' = [batch EXCEPT ![c] = Append(@, rx[c])]
  /\ UNCHANGED <<head, registry, conn, sub, sent, start>>

WsFull(c) ==
  /\ conn[c] = "batching"
  /\ Len(batch[c]) >= MaxBatch
  /\ Goto(c, "sending")
  /\ UNCHANGED <<head, registry, sub, rx, batch, sent, start, skipped>>

\* Mutant: only a full batch is sent.
WsWindowOpen(c) == FALSE

\* The window closes; a batch is never held past it.
WsWindowEnds(c) ==
  /\ conn[c] = "batching"
  /\ Goto(c, "sending")
  /\ UNCHANGED <<head, registry, sub, rx, batch, sent, start, skipped>>

\* Mutant: an error starts a new batch.
WsLaggedRestarts(c) ==
  /\ conn[c] = "batching"
  /\ Len(batch[c]) < MaxBatch
  /\ RecvLagged(c)
  /\ Goto(c, "waiting")
  /\ UNCHANGED <<head, registry, sub, batch, sent, start>>

\* An error ends the batch, and Lagged is dropped here.
WsLaggedInBatch(c) ==
  /\ conn[c] = "batching"
  /\ Len(batch[c]) < MaxBatch
  /\ RecvLagged(c)
  /\ Goto(c, "sending")
  /\ UNCHANGED <<head, registry, sub, batch, sent, start>>

WsSend(c) ==
  /\ conn[c] = "sending"
  /\ sent' = [sent EXCEPT ![c] = @ \o batch[c]]
  /\ batch' = [batch EXCEPT ![c] = <<>>]
  /\ Goto(c, "waiting")
  /\ UNCHANGED <<head, registry, sub, rx, start, skipped>>

\* A batch, a notice or a keepalive cannot be sent: the handler ends and takes
\* its subscription out of the registry.
WsClose(c) ==
  /\ conn[c] \in {"waiting", "sending"}
  /\ Goto(c, "closed")
  /\ registry' = registry \ {sub[c]}
  /\ UNCHANGED <<head, sub, rx, batch, sent, start, skipped>>

handle_websocket(c) ==
  \/ WsFirst(c)
  \/ WsLagged(c)
  \/ WsMore(c)
  \/ WsFull(c)
  \/ WsWindowEnds(c)
  \/ WsLaggedInBatch(c)
  \/ WsSend(c)

-----------------------------------------------------------------------------
(* The stream of sse_handler *)

SseEvent(c) ==
  /\ conn[c] = "streaming"
  /\ RecvOk(c)
  /\ sent' = [sent EXCEPT ![c] = Append(@, rx[c])]
  /\ UNCHANGED <<head, registry, conn, sub, batch, start>>

\* The filter drops Lagged.
SseLagged(c) ==
  /\ conn[c] = "streaming"
  /\ RecvLagged(c)
  /\ UNCHANGED <<head, registry, conn, sub, batch, sent, start>>

\* The client goes; the subscription stays in the registry.
SseClose(c) ==
  /\ conn[c] = "streaming"
  /\ Goto(c, "closed")
  /\ UNCHANGED <<head, registry, sub, rx, batch, sent, start, skipped>>

-----------------------------------------------------------------------------
Deliver(c) == handle_websocket(c) \/ SseEvent(c) \/ SseLagged(c)

Next ==
  \/ send
  \/ \E s \in Subs : subscription_handler(s)
  \/ \E c \in Conns : websocket_handler(c) \/ sse_handler(c)
  \/ \E c \in Conns : Deliver(c) \/ WsClose(c) \/ SseClose(c)

Spec == Init /\ [][Next]_vars

\* The runtime polls every connection that can go on.
FairSpec == Spec /\ \A c \in Conns : WF_vars(Deliver(c))

-----------------------------------------------------------------------------
(* Properties *)

Positions == 1..(MaxEvents + 1)

\* Types; a batch is bounded, and only a handler that is collecting or sending
\* holds one.
TypeOK ==
  /\ head \in 0..MaxEvents
  /\ registry \subseteq Subs
  /\ conn \in [Conns -> {"new", "waiting", "batching", "sending", "streaming", "closed"}]
  /\ sub \in [Conns -> Subs]
  /\ rx \in [Conns -> Positions]
  /\ start \in [Conns -> Positions]
  /\ skipped \in [Conns -> SUBSET Positions]
  /\ \A c \in Conns :
       /\ sent[c] \in Seq(Positions)
       /\ batch[c] \in Seq(Positions)
       /\ Len(batch[c]) <= MaxBatch
       /\ conn[c] \in {"batching", "sending"} => batch[c] # <<>>

\* What is sent on a connection, or about to be, is the events from its opening up to
\* its receiver's position, in their order and each once, but for those that were
\* overwritten in the ring before they were read: batching, its limit and its window
\* lose, repeat and reorder nothing.
LostOnlyByLag ==
  \A c \in Conns :
    LET passed == [n \in 1..(rx[c] - start[c]) |-> start[c] + n - 1]
        kept(e) == e \notin skipped[c]
    IN  sent[c] \o batch[c] = SelectSeq(passed, kept)

\* A connection that stays open is brought up to date: what was sent is
\* delivered to it or has overtaken it.
CatchesUp ==
  \A c \in Conns, n \in 1..MaxEvents :
    conn[c] \in {"waiting", "batching", "sending", "streaming"} /\ start[c] <= n /\ head >= n
      ~> \/ n \in ToSet(sent[c]) \cup skipped[c]
         \/ conn[c] = "closed"
=============================================================================
