----------------------------- MODULE Messaging ------------------------------
(***************************************************************************)
(* Remote calls over a connection whose sockets break: RpcProtocol and     *)
(* FrontendConnection put together, one action per event handler of the    *)
(* browser and of the server with everything it does on both layers.       *)
(***************************************************************************)
EXTENDS FrontendConnection, RpcProtocol

VARIABLE runs   \* history: how often the service ran for each call

vars == <<transport, rpc, runs>>

\* What a handler that only reads and writes payload leaves alone.
ends == <<timeout, load, sock, connected, channel, outbox, link, drops, fresh, gone, owner,
          attached, connection, watch, closing>>

MInit == Init /\ RpcInit /\ runs = [c \in Calls |-> 0]
-----------------------------------------------------------------------------
(* Sockets and negotiation. *)

Connect == SocketConnect /\ UNCHANGED <<rpc, runs>>
Break == SocketBreaks /\ UNCHANGED <<rpc, runs>>
Notice == ClientNotices /\ UNCHANGED <<rpc, runs>>
Accepted == ReconnectAccepted /\ UNCHANGED <<rpc, runs>>
ReconnectArrives == ReconnectFrontend /\ UNCHANGED <<rpc, runs>>
Ignore == NegotiationIgnored /\ UNCHANGED <<rpc, runs>>

NewChannel ==
    /\ ConnectNewChannel(ToOpen)
    /\ Reject(Pending) /\ service' = OpeningService
    /\ UNCHANGED <<wire, nextId, asked, open, running, runs>>

\* A page that is loaded again takes its promises with it.
Refused(reload) ==
    /\ ReconnectRefused(reload)
    /\ Reject(IF reload THEN Pending \cup Waiting ELSE Pending)
    /\ service' = IF reload THEN "new" ELSE ClosedService
    /\ UNCHANGED <<wire, nextId, asked, open, running, runs>>

\* The multiplexer of a connection that is closed forgets its paths; requests
\* being handled go on.
ClosePaths ==
    /\ open' = {e \in open : connection'[owner'[e]] = e}
    /\ UNCHANGED <<status, wire, nextId, asked, service, running, runs>>

InitialArrives == InitialConnect /\ ClosePaths
DisconnectFires(s) == (\E marked \in BOOLEAN : ServerNotices(s, marked)) /\ ClosePaths
TimerFires(s) == CloseTimeout(s) /\ ClosePaths
-----------------------------------------------------------------------------
(* The front end. *)

\* A call through the proxy, which waits for the path to be open.
Call(c) ==
    LET ms == Requests(<<c>>, nextId)
    IN  /\ status[c] = "idle" /\ \A d \in 1 .. c - 1 : status[d] # "idle"
        /\ \/ /\ service = "open" /\ ClientFits(ms)
              /\ Registered(<<c>>, nextId) /\ ClientWrite(ms)
           \/ /\ service = "open" /\ ~ClientFits(ms)
              /\ Reject({c}) /\ nextId' = nextId + 1
              /\ UNCHANGED <<wire, toServer, held>>
           \/ /\ service # "open"
              /\ status' = [status EXCEPT ![c] = "waiting"]
              /\ UNCHANGED <<wire, nextId, toServer, held>>
        /\ UNCHANGED <<ends, toClient, buffer, asked, service, open, running, runs>>

\* sendCancel: without room in the buffer it throws, and the request goes on.
Cancel(c) ==
    LET ms == <<Message("cancel", wire[c], c)>>
    IN  /\ Cardinality(asked) < MaxCancels
        /\ c \notin asked /\ status[c] \in {"waiting", "pending"}
        /\ asked' = asked \cup {c}
        /\ IF status[c] = "pending" /\ ClientFits(ms) THEN ClientWrite(ms)
                                                     ELSE UNCHANGED <<toServer, held>>
        /\ UNCHANGED <<ends, toClient, buffer, status, wire, nextId, service, open, running,
                       runs>>

\* What is in the batch behind its first message is never read.
ClientReads == toClient # <<>> /\ FromServer.type = "data" /\ toClient' = Tail(toClient)
ToClient == Head(FromServer.batch)

\* handleAckOpen: a new protocol instance, and the calls that waited for it.
PathOpens ==
    /\ ClientReads /\ channel = "open" /\ ToClient = AckOpen
    /\ service \in {"opening", "reopening"} /\ service' = "open"
    /\ \E cs \in InOrder(Waiting) : Registered(cs, 0) /\ ClientWrite(Requests(cs, 0))
    /\ UNCHANGED <<ends, buffer, asked, open, running, runs>>

ReplyArrives ==
    /\ ClientReads /\ channel = "open" /\ ToClient.kind = "reply"
    /\ Settled(ToClient)
    /\ UNCHANGED <<ends, toServer, held, buffer, wire, nextId, asked, service, open, running,
                   runs>>

-----------------------------------------------------------------------------
(* The server. *)

\* The channel whose listener is on the latest socket.
Listening == {e \in Sockets : attached[e] = sock /\ connection[owner[e]] = e}

ServerReads == toServer # <<>> /\ FromClient.type = "data" /\ toServer' = Tail(toServer)
ToServer == Head(FromClient.batch)

\* handleOpen
OpenArrives ==
    /\ ServerReads /\ ToServer = OpenPath
    /\ \E e \in Listening \ open : open' = open \cup {e} /\ ServerWrite(e, <<AckOpen>>)
    /\ UNCHANGED <<ends, held, status, wire, nextId, asked, service, running, runs>>

\* handleRequest until it awaits the service.
RequestArrives ==
    /\ ServerReads /\ ToServer.kind = "request"
    /\ \E e \in Listening \cap open : Started(e, ToServer)
    /\ runs' = [runs EXCEPT ![ToServer.call] = @ + 1]
    /\ UNCHANGED <<ends, toClient, held, buffer, status, wire, nextId, asked, service, open>>

CancelArrives ==
    /\ ServerReads /\ ToServer.kind = "cancel"
    /\ \E e \in Listening \cap open : Cancelled(e, ToServer)
    /\ UNCHANGED <<ends, toClient, held, buffer, status, wire, nextId, asked, service, open,
                   runs>>

\* No listener on the socket, or no such path behind it.
DroppedByServer ==
    /\ ServerReads
    /\ IF ToServer = OpenPath THEN Listening \ open = {} ELSE Listening \cap open = {}
    /\ UNCHANGED <<ends, toClient, held, buffer, rpc, runs>>

\* The service returns or throws.  When the answer does not fit into the buffer,
\* neither does the error that should say so.
Answer(r) ==
    /\ running' = running \ {r}
    /\ IF ServerFits(r.channel, <<Reply(r)>>) THEN ServerWrite(r.channel, <<Reply(r)>>)
                                             ELSE UNCHANGED <<toClient, buffer>>
    /\ UNCHANGED <<ends, toServer, held, status, wire, nextId, asked, service, open, runs>>
-----------------------------------------------------------------------------
User == \E c \in Calls : Call(c) \/ Cancel(c)

Program ==
    \/ Connect \/ Notice \/ NewChannel \/ Accepted \/ (\E reload \in BOOLEAN : Refused(reload))
    \/ PathOpens \/ ReplyArrives
    \/ InitialArrives \/ ReconnectArrives \/ Ignore
    \/ OpenArrives \/ RequestArrives \/ CancelArrives \/ DroppedByServer
    \/ \E r \in running : Answer(r)
    \/ \E s \in Sockets : DisconnectFires(s) \/ TimerFires(s)

Next == User \/ Break \/ Program

Spec == MInit /\ [][Next]_vars

\* The event loops do not stop, sockets reconnect and services answer; nobody
\* has to call, and no socket has to break.
FairSpec == Spec /\ WF_vars(Program)
-----------------------------------------------------------------------------
(* Properties. *)

Payload == [kind : {"open", "ack", "request", "cancel", "reply"},
            id : 0 .. MaxCalls, call : 0 .. MaxCalls]
IsData(d) == d.type = "data" /\ Len(d.batch) \in 1 .. Capacity /\ Range(d.batch) \subseteq Payload

\* Types, for FrontendConnection and RpcProtocol together.
TypeOK ==
    /\ timeout \in Timeouts /\ drops \in 0 .. MaxDrops
    /\ load \in Sockets /\ sock \in {Absent} \cup Sockets
    /\ connected \in BOOLEAN /\ link \in BOOLEAN /\ fresh \in BOOLEAN /\ outbox \in BOOLEAN
    /\ channel \in {"none", "open", "closed"}
    /\ Len(held) <= Capacity /\ Range(held) \subseteq Payload
    /\ \A d \in Range(toServer) : d \in {Initial, Reconnect} \/ IsData(d)
    /\ \A d \in Range(toClient) : d \in {Initial, Known(TRUE), Known(FALSE)} \/ IsData(d)
    /\ gone \subseteq Sockets /\ timers \subseteq Sockets
    /\ open \subseteq Sockets
    /\ {owner, attached, connection, watch, handle}
          \subseteq [Sockets -> {Absent} \cup Sockets]
    /\ DOMAIN buffer = Sockets
    /\ \A e \in Sockets : Len(buffer[e]) <= Capacity /\ Range(buffer[e]) \subseteq Payload
    /\ overtaken \in BOOLEAN /\ orphaned \in BOOLEAN
    /\ status \in [Calls -> {"idle", "waiting", "pending", "answered", "rejected"}]
    /\ wire \in [Calls -> 0 .. MaxCalls] /\ nextId \in 0 .. MaxCalls
    /\ asked \subseteq Calls /\ runs \in [Calls -> 0 .. 1]
    /\ service \in {"new", "opening", "reopening", "open", "closed", "forgotten"}
    /\ running \subseteq [channel : Sockets, id : 0 .. MaxCalls, call : Calls,
                          cancelled : BOOLEAN]

\* Nothing between the two sides is under way and neither waits for the other.
Quiet == connected /\ link /\ toServer = <<>> /\ toClient = <<>>

\* When the negotiation is over, both sides mean the same connection: the server
\* listens on the front end's socket, and a path the front end has open is open
\* there too.  Unless a socket took over before the server learned of the end of
\* the one before it, or the front end closed its channel and lost the socket it
\* was starting afresh on.
Agreement ==
    (Quiet /\ channel = "open" /\ ~overtaken) =>
        \E e \in Listening : owner[e] = load /\ (service = "open" => e \in open)

\* A close timer belongs to a connection that exists and has no socket, and is the
\* one closeTimeouts holds: a front end that came back in time is not closed by a
\* timer set before, and closeConnection finds what it closes.  Unless a socket
\* took over too early.
TimersAreCurrent ==
    ~overtaken =>
        /\ ~orphaned
        /\ \A s \in timers :
              LET i == owner[watch[s]]
              IN  handle[i] = s /\ connection[i] # Absent /\ attached[connection[i]] = Absent

\* What the server sends finds its listener: no answer or acknowledgement of an
\* earlier channel reaches the one that follows it, and a closed channel gets none.
\* (The multiplexer would log and drop it, and the path would wait for ever.)
NothingStray ==
    (toClient # <<>> /\ FromServer.type = "data") =>
        /\ channel = "open"
        /\ IF ToClient = AckOpen THEN service \in {"opening", "reopening"} ELSE service = "open"

\* An answer settles the call it was given for, although ids start again at 0 on
\* each new channel.
AnswersMatch ==
    [][\A c \in Calls : (status[c] = "pending" /\ status'[c] = "answered") =>
          ToClient.call = c]_vars

\* A service sees a cancellation only when its own caller asked for one.
CancelsMatch == \A r \in running : r.cancelled => r.call \in asked

\* The request of c, or its answer, can still arrive.
Carried(c) ==
    LET carries(queue) == \E d \in Range(queue) : d.type = "data" /\ d.batch[1].call = c
                                                  /\ d.batch[1].kind # "cancel"
        among(ms) == \E m \in Range(ms) : m.call = c /\ m.kind # "cancel"
    IN  \/ carries(toServer) \/ carries(toClient) \/ among(held)
        \/ \E r \in running : r.call = c
        \/ \E e \in Sockets : among(buffer[e]) /\ ~Quiet

\* What a call may fall victim to: a request or an answer lost with a socket while
\* the server kept the connection, and a path that was being opened when its channel
\* closed (for the first time, or lost in the same way).
Excused(c) ==
    \/ status[c] = "pending" /\ timeout # "zero" /\ ~Carried(c)
    \/ status[c] = "waiting" /\ (timeout # "zero" \/ service = "forgotten")

\* Every call is settled, unless it is excused or a socket took over before the server
\* knew of the end of the one before it.  In particular every request is settled
\* where the server keeps no connection without a socket.
CallsSettle ==
    \A c \in Calls : (status[c] \in {"waiting", "pending"}) ~>
        (status[c] \in {"answered", "rejected"} \/ Excused(c) \/ overtaken)

\* A call runs at most once, is resolved only by its run, and never changes once
\* it is settled.
Abstract == INSTANCE RemoteCall WITH
    promise <- [c \in Calls |-> CASE status[c] = "idle" -> "unmade"
                                  [] status[c] \in {"waiting", "pending"} -> "open"
                                  [] OTHER -> status[c]],
    ran <- runs
ImplementsRemoteCall == Abstract!Spec
=============================================================================
