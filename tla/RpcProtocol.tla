---------------------------- MODULE RpcProtocol -----------------------------
(***************************************************************************)
(* Remote calls of the front end over one service path in packages/core:   *)
(* rpc-protocol.ts, proxy-factory.ts, service-connection-provider.ts and   *)
(* the ChannelMultiplexer of channel.ts.  The operators say what a handler *)
(* does to this state and which messages it writes; the module Messaging   *)
(* joins them with the connection that carries the messages.               *)
(*                                                                         *)
(* A call is a promise the front end holds.  Its request travels under the *)
(* id of the protocol instance, which counts from 0 on every channel; the  *)
(* field call of a message is there for the properties only.               *)
(* Notifications, which nothing waits for, are left out.                   *)
(***************************************************************************)
EXTENDS Naturals, Sequences, SequencesExt

CONSTANTS
    MaxCalls,    \* bound: calls made in a behaviour
    MaxCancels   \* bound: calls cancelled in a behaviour

ASSUME CallsAssumption == MaxCalls \in Nat /\ MaxCancels \in Nat

Calls == 1 .. MaxCalls

VARIABLES
    status,     \* call -> "idle", "waiting", "pending", "answered" or "rejected"
    wire,       \* call -> the message id of its request
    nextId,     \* nextMessageId of the front end's protocol
    asked,      \* calls whose cancellation the front end asked for
    service,    \* the path in the front end's ServiceConnectionProvider
    open,       \* server channels whose multiplexer has the path in openChannels
    running     \* requests the server is handling

rpc == <<status, wire, nextId, asked, service, open, running>>

Message(k, n, c) == [kind |-> k, id |-> n, call |-> c]
OpenPath == Message("open", 0, 0)
AckOpen == Message("ack", 0, 0)

RpcInit ==
    /\ status = [c \in Calls |-> "idle"]
    /\ wire = [c \in Calls |-> 0] /\ nextId = 0 /\ asked = {}
    /\ service = "new"
    /\ open = {} /\ running = {}

Waiting == {c \in Calls : status[c] = "waiting"}
Pending == {c \in Calls : status[c] = "pending"}
-----------------------------------------------------------------------------
(* The front end. *)

\* The calls cs in the order they were made, in which a promise runs what waits for it.
InOrder(cs) ==
    {o \in [1 .. Cardinality(cs) -> cs] : \A j, k \in DOMAIN o : j < k => o[j] < o[k]}

\* What sendRequest writes for each of the calls cs, from id n on: the request,
\* and a cancellation at once when the token is cancelled already.
Requests(cs, n) ==
    FlattenSeq([k \in DOMAIN cs |->
        LET m == Message("request", n + k - 1, cs[k])
        IN  IF cs[k] \in asked THEN <<m, [m EXCEPT !.kind = "cancel"]>> ELSE <<m>>])

\* sendRequest for the calls cs, whose messages could be written.
Registered(cs, n) ==
    /\ status' = [c \in Calls |-> IF c \in Range(cs) THEN "pending" ELSE status[c]]
    /\ wire' = [c \in Calls |-> IF c \in Range(cs)
                                THEN n + (CHOOSE k \in DOMAIN cs : cs[k] = c) - 1 ELSE wire[c]]
    /\ nextId' = n + Len(cs)

\* The promises of cs are rejected.
Reject(cs) == status' = [c \in Calls |-> IF c \in cs THEN "rejected" ELSE status[c]]

\* Seeded fault: handleChannelClosed leaves the path with the closed channel.
StillOpen == IF service = "opening" THEN "forgotten" ELSE service

\* A channel of the front end closes: its requests are rejected.  A path whose
\* first opening was under way is forgotten; one that has been open is opened
\* again on the next channel.
ClosedService ==
    CASE service = "opening" -> "forgotten"
      [] service \in {"open", "reopening"} -> "closed"
      [] OTHER -> service

\* Seeded fault: only what was never open is opened.
OpenNew == IF ClosedService = "new" THEN <<OpenPath>> ELSE <<>>

\* handleChannelCreated: the paths to open on a new channel.
ToOpen == IF ClosedService = "forgotten" THEN <<>> ELSE <<OpenPath>>
OpeningService ==
    CASE ClosedService = "new" -> "opening"
      [] ClosedService = "closed" -> "reopening"
      [] OTHER -> ClosedService

\* Seeded fault: a request rejected by the end of its channel stays in the table.
SettledAgain(m) ==
    status' = [c \in Calls |->
        IF status[c] \in {"pending", "rejected"} /\ wire[c] = m.id THEN "answered" ELSE status[c]]

\* handleReply, handleReplyErr: an id nothing waits for is ignored.
Settled(m) ==
    status' = [c \in Calls |->
        IF c \in Pending /\ wire[c] = m.id THEN "answered" ELSE status[c]]
-----------------------------------------------------------------------------
(* The server, on channel e. *)

\* handleRequest up to the call of the service.
Started(e, m) ==
    running' = running \cup {[channel |-> e, id |-> m.id, call |-> m.call, cancelled |-> FALSE]}

\* Seeded fault: one map of token sources for all connections.
CancelledAnywhere(e, m) ==
    running' = {IF r.id = m.id THEN [r EXCEPT !.cancelled = TRUE] ELSE r : r \in running}

\* handleCancel: an id that is not being handled is ignored.
Cancelled(e, m) ==
    running' = {IF r.channel = e /\ r.id = m.id THEN [r EXCEPT !.cancelled = TRUE] ELSE r
                : r \in running}

\* handleRequest after the service returned or threw: the answer is a value or an
\* error, and "rejected" is left for calls that get neither.
Reply(r) == Message("reply", r.id, r.call)
=============================================================================
