------------------------- MODULE FrontendConnection -------------------------
(***************************************************************************)
(* The connection of a front end to its back end in packages/core:         *)
(* ws-connection-source.ts (the browser), websocket-frontend-connection-   *)
(* service.ts (the server) and socket-write-buffer.ts (what either side    *)
(* holds back while it has no socket).  A connection outlives its sockets: *)
(* each new socket negotiates either a first or a renewed connection.      *)
(*                                                                         *)
(* Sockets are numbered in the order the front end opens them, and a       *)
(* server channel is named by the socket it was created for.  Only the     *)
(* front end's latest socket can still carry messages.  Each action is one *)
(* event handler; what the payload means is the business of the module     *)
(* that composes this one.                                                 *)
(***************************************************************************)
EXTENDS Naturals, Sequences, FiniteSets

CONSTANTS
    MaxDrops,   \* bound: sockets that break
    Timeouts,   \* frontendConnectionTimeout: "zero", "positive" or "negative"
    Capacity    \* messages that fit into a SocketWriteBuffer

ASSUME ConnectionAssumption ==
    /\ MaxDrops \in Nat /\ Capacity \in Nat \ {0}
    /\ Timeouts \subseteq {"zero", "positive", "negative"} /\ Timeouts # {}

\* After a break the front end needs one socket to hear that it was forgotten
\* and another to start afresh.
Sockets == 1 .. 1 + 2 * MaxDrops
Absent == 0

VARIABLES
    timeout,          \* the configuration
    drops,            \* sockets broken so far
    (* the front end *)
    load,             \* its page loads; the front end id of the current one
    sock,             \* its latest socket
    connected,        \* its view of that socket
    channel,          \* currentChannel: "none", "open" or "closed"
    outbox,           \* an INITIAL_CONNECT waits for the next socket
    held,             \* its SocketWriteBuffer
    (* the network *)
    link,             \* the latest socket still carries messages
    toServer, toClient,
    (* the back end *)
    fresh,            \* its negotiation listeners are on the latest socket
    gone,             \* sockets whose 'disconnect' has fired
    owner,            \* channel -> front end id
    attached,         \* channel -> the socket it uses
    buffer,           \* channel -> its SocketWriteBuffer
    connection,       \* connectionsByFrontend
    watch,            \* socket -> the channel its 'disconnect' handler closes over
    timers,           \* sockets whose 'disconnect' set a timer still to fire
    handle,           \* closeTimeouts: front end -> the socket of its timer
    overtaken,        \* history: a socket took over from one of the same front end
                      \* whose 'disconnect' had not fired
    orphaned          \* history: closeConnection found no connection

frontend == <<load, sock, connected, channel, outbox, held>>
network == <<link, toServer, toClient, drops>>
channels == <<owner, attached, buffer>>
closing == <<timers, handle, overtaken, orphaned>>
backend == <<fresh, gone, channels, connection, watch, closing>>
transport == <<timeout, frontend, network, backend>>
-----------------------------------------------------------------------------
Initial == [type |-> "initial"]
Reconnect == [type |-> "reconnect"]
Known(b) == [type |-> "reconnect", known |-> b]
Data(ms) == [type |-> "data", batch |-> ms]

Init ==
    /\ timeout \in Timeouts /\ drops = 0
    /\ load = 1 /\ sock = 0 /\ connected = FALSE /\ channel = "none"
    /\ outbox = FALSE /\ held = <<>>
    /\ link = FALSE /\ toServer = <<>> /\ toClient = <<>>
    /\ fresh = FALSE /\ gone = {}
    /\ owner = [e \in Sockets |-> Absent] /\ attached = owner
    /\ buffer = [e \in Sockets |-> <<>>]
    /\ connection = [i \in Sockets |-> Absent] /\ watch = owner
    /\ timers = {} /\ handle = connection
    /\ overtaken = FALSE /\ orphaned = FALSE
-----------------------------------------------------------------------------
(* Writing.  A side with a socket sends; without one it holds back, in one   *)
(* piece: flush sends all of it as a single message.  On a broken socket     *)
(* whatever is sent is lost.                                                 *)

Sent(queue, batches) == IF link THEN queue \o batches ELSE queue

Singly(ms) == [k \in DOMAIN ms |-> Data(<<ms[k]>>)]

\* Seeded fault: ensureWriteBuffer does not look at the size.
AlwaysFits(ms) == TRUE

\* commit in the front end, for messages written one after another.
ClientFits(ms) == connected \/ Len(held) + Len(ms) <= Capacity
ClientWrite(ms) ==
    IF connected
    THEN toServer' = Sent(toServer, Singly(ms)) /\ UNCHANGED held
    ELSE held' = held \o ms /\ UNCHANGED toServer

\* commit in channel e of the back end.  What a closed channel holds back is never
\* sent, so it is dropped here.
ServerFits(e, ms) == attached[e] # Absent \/ Len(buffer[e]) + Len(ms) <= Capacity
ServerWrite(e, ms) ==
    IF attached[e] # Absent
    THEN /\ toClient' = IF attached[e] = sock THEN Sent(toClient, Singly(ms)) ELSE toClient
         /\ UNCHANGED buffer
    ELSE /\ buffer' = IF connection[owner[e]] = e THEN [buffer EXCEPT ![e] = @ \o ms] ELSE buffer
         /\ UNCHANGED toClient

\* SocketWriteBuffer.flush
Flush(ms) == IF ms = <<>> THEN <<>> ELSE <<Data(ms)>>

\* Seeded fault: nothing is drained when a new channel starts.
Undrained == held

\* SocketWriteBuffer.drain in the front end
Drained == <<>>
-----------------------------------------------------------------------------
(* The front end. *)

\* socket.io reconnects; emits made meanwhile go out first, then the 'connect'
\* handler negotiates.  Its listeners stay until they are answered, so some are
\* registered twice; the second one finds nothing left to do.
SocketConnect ==
    /\ ~connected
    /\ sock' = sock + 1 /\ connected' = TRUE /\ link' = TRUE
    /\ toServer' = (IF outbox THEN <<Initial>> ELSE <<>>)
                   \o <<IF channel = "none" THEN Initial ELSE Reconnect>>
    /\ outbox' = FALSE
    /\ toClient' = <<>> /\ fresh' = TRUE
    /\ UNCHANGED <<timeout, load, channel, held, drops, gone, channels, connection, watch,
                   closing>>

\* The socket breaks: what is under way is lost, and neither side knows yet.
SocketBreaks ==
    /\ link /\ drops < MaxDrops
    /\ drops' = drops + 1
    /\ link' = FALSE /\ toServer' = <<>> /\ toClient' = <<>>
    /\ UNCHANGED <<timeout, frontend, backend>>

ClientNotices ==
    /\ connected /\ ~link
    /\ connected' = FALSE
    /\ UNCHANGED <<timeout, load, sock, channel, outbox, held, network, backend>>

FromServer == Head(toClient)

\* initialConnectListener -> connectNewChannel, which opens the services.
ConnectNewChannel(opens) ==
    /\ toClient # <<>> /\ FromServer = Initial
    /\ toClient' = Tail(toClient)
    /\ channel' = "open" /\ held' = Drained
    /\ toServer' = Sent(toServer, Singly(opens))
    /\ UNCHANGED <<timeout, load, sock, connected, outbox, link, drops, backend>>

\* reconnectListener(true)
ReconnectAccepted ==
    /\ toClient # <<>> /\ FromServer = Known(TRUE)
    /\ toClient' = Tail(toClient)
    /\ toServer' = Sent(toServer, Flush(held)) /\ held' = <<>>
    /\ UNCHANGED <<timeout, load, sock, connected, channel, outbox, link, drops, backend>>

\* reconnectListener(false): with reloadOnReconnect the page is loaded again, under
\* a new id; else the channel is closed and the socket opened anew for an initial
\* connect.
ReconnectRefused(reload) ==
    /\ toClient # <<>> /\ FromServer = Known(FALSE)
    /\ connected' = FALSE /\ held' = IF reload THEN <<>> ELSE Drained
    /\ IF reload THEN load' = load + 1 /\ channel' = "none" /\ UNCHANGED outbox
                 ELSE channel' = "closed" /\ outbox' = TRUE /\ UNCHANGED load
    /\ link' = FALSE /\ toServer' = <<>> /\ toClient' = <<>>
    /\ UNCHANGED <<timeout, sock, drops, backend>>
-----------------------------------------------------------------------------
(* The back end. *)

FromClient == Head(toServer)

\* Seeded fault: the handle is deleted and its timer left running.
StillRunning(i) == timers

\* The timers left when the one in closeTimeouts is cleared.
Cleared(i) == timers \ {handle[i]}

\* closeConnection(i)
Closed(i) ==
    /\ connection' = [connection EXCEPT ![i] = Absent]
    /\ handle' = [handle EXCEPT ![i] = Absent]
    /\ orphaned' = (orphaned \/ connection[i] = Absent)
    /\ buffer' = IF connection[i] = Absent THEN buffer
                 ELSE [buffer EXCEPT ![connection[i]] = <<>>]

\* The current front end has a socket whose 'disconnect' is still to come.
HalfOpen == \E s \in (1 .. sock - 1) \ gone : watch[s] # Absent /\ owner[watch[s]] = load

\* initialConnectListener: an existing connection of the same front end is
\* closed, which leaves its socket to the old channel.
InitialConnect ==
    LET old == connection[load]
    IN  /\ toServer # <<>> /\ FromClient = Initial /\ fresh
        /\ toServer' = Tail(toServer) /\ fresh' = FALSE
        /\ owner' = [owner EXCEPT ![sock] = load]
        /\ attached' = [attached EXCEPT ![sock] = sock]
        /\ buffer' = IF old = Absent THEN buffer ELSE [buffer EXCEPT ![old] = <<>>]
        /\ connection' = [connection EXCEPT ![load] = sock]
        /\ timers' = IF old = Absent THEN timers ELSE Cleared(load)
        /\ handle' = IF old = Absent THEN handle ELSE [handle EXCEPT ![load] = Absent]
        /\ watch' = [watch EXCEPT ![sock] = sock]
        /\ toClient' = Append(toClient, Initial)
        /\ overtaken' = (overtaken \/ HalfOpen)
        /\ UNCHANGED <<timeout, frontend, link, drops, gone, orphaned>>

\* reconnectListener
ReconnectFrontend ==
    LET e == connection[load]
    IN  /\ toServer # <<>> /\ FromClient = Reconnect /\ fresh
        /\ toServer' = Tail(toServer) /\ fresh' = FALSE
        /\ IF e = Absent
           THEN toClient' = Append(toClient, Known(FALSE))
                /\ UNCHANGED <<attached, buffer, watch, timers, handle>>
           ELSE /\ attached' = [attached EXCEPT ![e] = sock]
                /\ toClient' = Append(toClient, Known(TRUE)) \o Flush(buffer[e])
                /\ buffer' = [buffer EXCEPT ![e] = <<>>]
                /\ watch' = [watch EXCEPT ![sock] = e]
                /\ timers' = Cleared(load)
                /\ handle' = [handle EXCEPT ![load] = Absent]
        /\ overtaken' = (overtaken \/ (e # Absent /\ HalfOpen))
        /\ UNCHANGED <<timeout, frontend, link, drops, gone, owner, connection, orphaned>>

\* The listeners are off: one of the two requests was handled before.
NegotiationIgnored ==
    /\ toServer # <<>> /\ FromClient \in {Initial, Reconnect} /\ ~fresh
    /\ toServer' = Tail(toServer)
    /\ UNCHANGED <<timeout, frontend, link, drops, toClient, backend>>

\* 'disconnect' of socket s, when the server learns of it.  The channel loses
\* whatever socket it has; a connection is closed now, later or never.  marked:
\* the window asked ConnectionCloseService for that before it closed.
ServerNotices(s, marked) ==
    LET e == watch[s]
        i == owner[e]
        now == timeout = "zero" \/ marked
    IN  /\ s \in (1 .. sock) \ gone /\ (s < sock \/ ~link)
        /\ gone' = gone \cup {s}
        /\ fresh' = (fresh /\ s # sock)
        /\ IF e = Absent
           THEN UNCHANGED <<attached, buffer, connection, closing>>
           ELSE /\ attached' = [attached EXCEPT ![e] = Absent]
                /\ IF now
                   THEN timers' = Cleared(i) /\ Closed(i)
                   ELSE /\ IF timeout = "positive"
                           THEN /\ timers' = timers \cup {s}
                                /\ handle' = [handle EXCEPT ![i] = s]
                           ELSE UNCHANGED <<timers, handle>>
                        /\ UNCHANGED <<buffer, connection, orphaned>>
                /\ UNCHANGED overtaken
        /\ UNCHANGED <<timeout, frontend, network, owner, watch>>

\* The timer set by the 'disconnect' of s fires.
CloseTimeout(s) ==
    LET i == owner[watch[s]]
    IN  /\ s \in timers
        /\ timers' = Cleared(i) \ {s} /\ Closed(i)
        /\ UNCHANGED <<timeout, frontend, network, fresh, gone, owner, attached, watch,
                   overtaken>>

=============================================================================
