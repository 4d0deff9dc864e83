------------------------- MODULE Messaging_proofs --------------------------
(***************************************************************************)
(* What holds of the calls over a connection for any number of calls,      *)
(* cancellations and broken sockets, any size of the buffers and any time- *)
(* out.                                                                    *)
(***************************************************************************)
EXTENDS Messaging, SequenceTheorems, FiniteSetTheorems, TLAPS

Joining(p, q) == p \o q
F == INSTANCE Folding WITH op <- Joining

-----------------------------------------------------------------------------
(* The invariant, from the sockets up to the calls. *)

(* The sockets. *)

\* The server may still answer, or has answered, that it does not know the front end.
Refusable ==
    \/ fresh /\ toServer # <<>> /\ toServer[1] = Reconnect
    \/ toClient # <<>> /\ toClient[1] = Known(FALSE)

Counts == drops \in 0 .. MaxDrops /\ sock \in Nat /\ load \in Nat \ {0}

Ends ==
    /\ connected \in BOOLEAN /\ link \in BOOLEAN /\ outbox \in BOOLEAN /\ fresh \in BOOLEAN
    /\ channel \in {"none", "open", "closed"}

Linked ==
    /\ link => connected
    /\ connected => sock >= 1 /\ load <= sock
    /\ load <= sock + 1
    /\ outbox => ~connected /\ channel = "closed"

\* Every socket but the first replaces one that broke or one that was refused, and
\* only a socket after a broken one can be refused.
Spent ==
    /\ sock <= 1 + 2 * drops
    /\ ~connected => sock + 1 <= 1 + 2 * drops
    /\ ~connected /\ channel # "none" /\ ~outbox => sock + 2 <= 1 + 2 * drops
    /\ connected /\ ~link => sock + 2 <= 1 + 2 * drops
    /\ link /\ Refusable => sock + 1 <= 1 + 2 * drops

Budget == Counts /\ Ends /\ Linked /\ Spent

Packet == {d \in [type : {"data"}, batch : Seq(Payload)] : Len(d.batch) \in 1 .. Capacity}

\* Each socket negotiates once, before it carries anything else.
Upwards ==
    /\ toServer \in Seq({Initial, Reconnect} \cup Packet)
    /\ ~link => toServer = <<>>
    /\ fresh /\ link => toServer # <<>> /\ toServer[1] \in {Initial, Reconnect}
    /\ \A i \in DOMAIN toServer : toServer[i] = Initial => i = 1 /\ fresh /\ channel # "open"
    /\ \A i \in DOMAIN toServer : toServer[i] = Reconnect => channel # "none"

Downwards ==
    /\ toClient \in Seq({Initial, Known(TRUE), Known(FALSE)} \cup Packet)
    /\ ~link => toClient = <<>>
    /\ fresh => toClient = <<>> /\ sock >= 1
    /\ \A i \in DOMAIN toClient : toClient[i] \notin Packet => i = 1
    /\ toClient # <<>> /\ toClient[1] = Initial => channel # "open"
    /\ toClient # <<>> /\ toClient[1] \in {Known(TRUE), Known(FALSE)} => channel # "none"

Negotiation == Upwards /\ Downwards

\* What the server keeps of sockets, channels and front ends agrees.
ChannelTypes ==
    /\ gone \subseteq 1 .. sock /\ timers \subseteq gone
    /\ owner \in [Sockets -> 0 .. load]
    /\ attached \in [Sockets -> 0 .. sock] /\ connection \in [Sockets -> 0 .. sock]
    /\ watch \in [Sockets -> 0 .. sock] /\ handle \in [Sockets -> 0 .. sock]
    /\ overtaken \in BOOLEAN /\ orphaned \in BOOLEAN

ChannelLinks ==
    /\ link => sock \notin gone
    /\ \A e \in Sockets : owner[e] # Absent => e <= sock
    /\ \A e \in Sockets : attached[e] # Absent => watch[attached[e]] = e
    /\ \A i \in Sockets : connection[i] # Absent => owner[connection[i]] = i
    /\ \A s \in Sockets : watch[s] # Absent => s <= sock /\ owner[watch[s]] # Absent
    /\ \A s \in timers : watch[s] # Absent

Channels == ChannelTypes /\ ChannelLinks

\* The part of the latest socket.
Latest ==
    /\ fresh => owner[sock] = Absent /\ watch[sock] = Absent
    /\ sock >= 1 /\ watch[sock] # Absent => connection[load] \in {Absent, watch[sock]}
    /\ connected /\ watch[sock] # Absent => owner[watch[sock]] = load
    /\ link /\ ~fresh /\ ~(toClient # <<>> /\ toClient[1] = Known(FALSE)) => watch[sock] # Absent
    /\ toClient # <<>> /\ toClient[1] = Known(FALSE) =>
          watch[sock] = Absent /\ connection[load] = Absent
    /\ toClient # <<>> /\ toClient[1] = Initial => watch[sock] = sock

\* Unless a socket took over too early, a socket that the server believes in serves the
\* connection of its front end, and that connection has no timer.
Serving ==
    ~overtaken =>
        \A s \in (1 .. sock) \ gone : watch[s] # Absent =>
            LET e == watch[s]
            IN  /\ connection[owner[e]] = e /\ attached[e] = s
                /\ \A t \in timers : owner[watch[t]] # owner[e]

(* The calls. *)

\* The channel of the current front end, as the server has it.
Mine == {e \in 1 .. sock : connection[load] = e \/ attached[e] = sock}

Made == {c \in Calls : status[c] \notin {"idle", "waiting"}}

CallTypes ==
    /\ status \in [Calls -> {"idle", "waiting", "pending", "answered", "rejected"}]
    /\ wire \in [Calls -> 0 .. MaxCalls] /\ nextId \in Nat /\ nextId <= Cardinality(Made)
    /\ asked \subseteq Calls /\ \A c \in asked : status[c] # "idle"
    /\ runs \in [Calls -> 0 .. 1] /\ \A c \in Calls \ Made : runs[c] = 0

Buffers ==
    /\ held \in Seq(Payload) /\ Len(held) <= Capacity
    /\ buffer \in [Sockets -> Seq(Payload)] /\ \A e \in Sockets : Len(buffer[e]) <= Capacity
    /\ \A e \in Sockets : owner[e] = Absent => buffer[e] = <<>>

Opened ==
    /\ open \subseteq 1 .. sock
    /\ \A e \in open : owner[e] # Absent /\ connection[owner[e]] = e

RunningTypes ==
    /\ running \subseteq [channel : 1 .. sock, id : 0 .. MaxCalls, call : Calls,
                          cancelled : BOOLEAN]
    /\ \A r \in running : /\ owner[r.channel] # Absent
                          /\ runs[r.call] = 1 /\ r.id = wire[r.call]
                          /\ r.cancelled => r.call \in asked

Opening == service \in {"opening", "reopening"}

ServiceStates ==
    /\ channel = "none" => service = "new"
    /\ channel = "closed" => service \in {"forgotten", "closed"}
    /\ channel = "open" => service \in {"opening", "reopening", "open", "forgotten"}
    /\ held # <<>> => service = "open"
    /\ ~Opening /\ service # "open" => Mine \cap open = {}
    /\ service = "open" => connection[load] \in open \cup {Absent}

\* The messages of a queue that are read, and that one of the set ms is there once.
Carries(q) == {q[i].batch[1] : i \in {j \in DOMAIN q : q[j].type = "data"}}
Single(q, ms) ==
    \A i, j \in DOMAIN q :
        (/\ q[i].type = "data" /\ q[i].batch[1] \in ms
         /\ q[j].type = "data" /\ q[j].batch[1] \in ms) => i = j

RequestsOf(c) == {m \in Payload : m.kind = "request" /\ m.call = c}

\* A request is on its way once, and its call has not run.
RequestsOnce ==
    \A c \in Calls :
        /\ Single(toServer, RequestsOf(c))
        /\ RequestsOf(c) \cap (Carries(toServer) \cup Range(held)) # {} => runs[c] = 0
        /\ RequestsOf(c) \cap Carries(toServer) # {} => RequestsOf(c) \cap Range(held) = {}

\* A path is asked for once and acknowledged once.
OpeningOnce ==
    /\ Single(toServer, {OpenPath}) /\ Single(toClient, {AckOpen})
    /\ OpenPath \in Carries(toServer) =>
          Opening /\ Mine \cap open = {} /\ AckOpen \notin Carries(toClient)
    /\ AckOpen \in Carries(toClient) => Opening /\ connection[load] \in open \cup {Absent}

\* Messages about one of the calls I.
Asking(I) == {m \in Payload : /\ m.kind \in {"request", "cancel"}
                              /\ m.call \in I /\ m.id = wire[m.call]
                              /\ m.kind = "cancel" => m.call \in asked}
Replying(I) == {m \in Payload : /\ m.kind = "reply" /\ m.call \in I /\ m.id = wire[m.call]
                                /\ runs[m.call] = 1}

\* I are the calls of the protocol instance of the front end: their ids differ, and what
\* is on its way between the two sides is about them.
Numbered(I) ==
    /\ I \subseteq Made /\ Pending \subseteq I /\ (service # "open" => I = {})
    /\ \A c, d \in I : wire[c] = wire[d] => c = d
    /\ \A c \in I : wire[c] < nextId
OnTheWay(I) ==
    /\ Carries(toServer) \subseteq {OpenPath} \cup Asking(I) /\ Range(held) \subseteq Asking(I)
    /\ Carries(toClient) \subseteq {AckOpen} \cup Replying(I)
    /\ \A e \in Mine : Range(buffer[e]) \subseteq Replying(I)
    /\ \A r \in running : r.channel \in Mine => r.call \in I
Instance(I) == Numbered(I) /\ OnTheWay(I)

CallsInv ==
    /\ CallTypes /\ Buffers /\ Opened /\ RunningTypes /\ ServiceStates /\ RequestsOnce
    /\ OpeningOnce /\ \E I \in SUBSET Calls : Instance(I)
-----------------------------------------------------------------------------
(* Queues. *)

\* What the assumptions on the constants give, and how many sockets there can be.
LEMMA Constants ==
    /\ MaxDrops \in Nat /\ Capacity \in Nat \ {0} /\ MaxCalls \in Nat
    /\ Sockets = 1 .. 1 + 2 * MaxDrops
BY ConnectionAssumption, CallsAssumption DEF ConnectionAssumption, CallsAssumption, Sockets

\* The places of a sequence.
LEMMA Places == ASSUME NEW S, NEW q \in Seq(S)
                PROVE  /\ DOMAIN q = 1 .. Len(q) /\ Len(q) \in Nat
                       /\ \A i \in DOMAIN q : q[i] \in S
                       /\ q # <<>> <=> 1 \in DOMAIN q
BY LenProperties, EmptySeq

\* Taking the first element.
LEMMA Taken ==
    ASSUME NEW S, NEW q \in Seq(S), q # <<>>, NEW p, p = Tail(q)
    PROVE  /\ p \in Seq(S) /\ Head(q) = q[1] /\ 1 \in DOMAIN q
           /\ \A i \in DOMAIN p : i \in Nat /\ i + 1 \in DOMAIN q /\ p[i] = q[i + 1]
<1>1. /\ p \in Seq(S) /\ Len(p) = Len(q) - 1 /\ \A i \in 1 .. Len(p) : p[i] = q[i + 1]
  BY HeadTailProperties
<1>2. /\ DOMAIN p = 1 .. Len(p) /\ DOMAIN q = 1 .. Len(q) /\ Len(q) \in Nat /\ Len(p) \in Nat
      /\ 1 \in DOMAIN q
  BY <1>1, Places
<1>3. \A i \in 1 .. Len(p) : i \in Nat /\ i + 1 \in 1 .. Len(q) BY <1>1, <1>2
<1>4. Head(q) = q[1] OBVIOUS
<1> QED BY <1>1, <1>2, <1>3, <1>4

\* Adding elements at the end.
LEMMA Joined ==
    ASSUME NEW S, NEW q \in Seq(S), NEW t \in Seq(S), NEW p, p = q \o t
    PROVE  /\ p \in Seq(S) /\ Len(p) = Len(q) + Len(t)
           /\ \A i \in DOMAIN p :
                 \/ i \in DOMAIN q /\ p[i] = q[i]
                 \/ i - Len(q) \in DOMAIN t /\ i > Len(q) /\ p[i] = t[i - Len(q)]
           /\ \A i \in DOMAIN q : i \in DOMAIN p /\ i <= Len(q) /\ p[i] = q[i]
<1>1. /\ p \in Seq(S) /\ Len(p) = Len(q) + Len(t)
      /\ \A i \in 1 .. Len(q) + Len(t) : p[i] = IF i <= Len(q) THEN q[i] ELSE t[i - Len(q)]
  BY ConcatProperties
<1>2. /\ DOMAIN p = 1 .. Len(p) /\ DOMAIN q = 1 .. Len(q) /\ DOMAIN t = 1 .. Len(t)
      /\ Len(q) \in Nat /\ Len(t) \in Nat
  BY <1>1, Places
<1>3. \A i \in 1 .. Len(q) + Len(t) :
         IF i <= Len(q) THEN i \in 1 .. Len(q) ELSE i - Len(q) \in 1 .. Len(t) /\ i > Len(q)
  BY <1>2
<1>4. \A i \in 1 .. Len(q) : i \in 1 .. Len(q) + Len(t) /\ i <= Len(q) BY <1>2
<1> QED BY <1>1, <1>2, <1>3, <1>4

\* Payload is wrapped in packets.
LEMMA PacketForm ==
    /\ \A d \in Packet : /\ d.type = "data" /\ d.batch \in Seq(Payload)
                         /\ 1 \in DOMAIN d.batch /\ d.batch[1] \in Payload
                         /\ d # Initial /\ d # Reconnect /\ d # Known(TRUE) /\ d # Known(FALSE)
    /\ \A ms \in Seq(Payload) : Len(ms) \in 1 .. Capacity => Data(ms) \in Packet
    /\ \A ms : Data(ms).type = "data" /\ Data(ms).batch = ms
    /\ \A m : Data(<<m>>).batch[1] = m
    /\ Initial.type # "data" /\ Reconnect.type # "data" /\ \A b : Known(b).type # "data"
    /\ Initial # Reconnect /\ Known(TRUE) # Known(FALSE) /\ \A b : Initial # Known(b)
<1>1. ASSUME NEW d \in Packet
      PROVE  /\ d.type = "data" /\ d.batch \in Seq(Payload)
             /\ 1 \in DOMAIN d.batch /\ d.batch[1] \in Payload
             /\ d # Initial /\ d # Reconnect /\ d # Known(TRUE) /\ d # Known(FALSE)
  <2>1. d.type = "data" /\ d.batch \in Seq(Payload) /\ Len(d.batch) \in 1 .. Capacity
    BY DEF Packet
  <2>2. DOMAIN d.batch = 1 .. Len(d.batch) /\ 1 \in 1 .. Len(d.batch) BY <2>1, Constants
  <2>3. d.batch[1] \in Payload BY <2>1, <2>2
  <2> QED BY <2>1, <2>2, <2>3 DEF Initial, Reconnect, Known
<1>2. ASSUME NEW ms \in Seq(Payload), Len(ms) \in 1 .. Capacity PROVE Data(ms) \in Packet
  BY <1>2 DEF Data, Packet
<1>3. /\ \A ms : Data(ms).type = "data" /\ Data(ms).batch = ms
      /\ \A m : Data(<<m>>).batch[1] = m
  BY DEF Data
<1>4. /\ Initial.type # "data" /\ Reconnect.type # "data" /\ \A b : Known(b).type # "data"
      /\ Initial # Reconnect /\ Known(TRUE) # Known(FALSE) /\ \A b : Initial # Known(b)
  BY DEF Initial, Reconnect, Known
<1> QED BY <1>1, <1>2, <1>3, <1>4

\* Messages sent singly travel in one data message each.
LEMMA SinglyForm ==
    ASSUME NEW ms \in Seq(Payload)
    PROVE  /\ Singly(ms) \in Seq(Packet) /\ Len(Singly(ms)) = Len(ms)
           /\ DOMAIN Singly(ms) = DOMAIN ms
           /\ \A k \in DOMAIN ms : Singly(ms)[k] = Data(<<ms[k]>>)
<1>1. DOMAIN ms = 1 .. Len(ms) /\ Len(ms) \in Nat /\ \A k \in DOMAIN ms : ms[k] \in Payload
  BY Places
<1>2. \A k \in 1 .. Len(ms) : Data(<<ms[k]>>) \in Packet
  <2> TAKE k \in 1 .. Len(ms)
  <2> DEFINE m == ms[k]
  <2>1. m \in Payload BY <1>1
  <2> HIDE DEF m
  <2>2. <<m>> \in Seq(Payload) /\ Len(<<m>>) \in 1 .. Capacity BY <2>1, Constants
  <2>3. Data(<<m>>) \in Packet BY <2>2, PacketForm
  <2> QED BY <2>3 DEF m
<1>3. Singly(ms) = [k \in 1 .. Len(ms) |-> Data(<<ms[k]>>)] BY <1>1 DEF Singly
<1>4. Singly(ms) \in Seq(Packet)
  BY <1>1, <1>2, <1>3
<1>5. Len(Singly(ms)) = Len(ms) BY <1>1, <1>3
<1> QED BY <1>1, <1>3, <1>4, <1>5

\* A buffer is flushed as at most one data message.
LEMMA FlushForm ==
    ASSUME NEW ms \in Seq(Payload), Len(ms) <= Capacity
    PROVE  /\ Flush(ms) \in Seq(Packet)
           /\ \A i \in DOMAIN Flush(ms) : i = 1 /\ Flush(ms)[1] = Data(ms) /\ 1 \in DOMAIN ms
<1>1. CASE ms = <<>> BY <1>1, EmptySeq DEF Flush
<1>2. CASE ms # <<>>
  <2>1. Len(ms) \in 1 .. Capacity /\ 1 \in DOMAIN ms
    BY <1>2, Constants, EmptySeq, Places
  <2> DEFINE d == Data(ms)
  <2>2. d \in Packet BY <2>1, PacketForm
  <2> HIDE DEF d
  <2>3. <<d>> \in Seq(Packet) /\ DOMAIN <<d>> = 1 .. 1 /\ <<d>>[1] = d BY <2>2
  <2>4. Flush(ms) = <<d>> BY <1>2 DEF Flush, d
  <2> QED BY <2>1, <2>3, <2>4 DEF d
<1> QED BY <1>1, <1>2
-----------------------------------------------------------------------------
(* The sockets. *)

\* Both directions carry packets once the negotiation is over.
Takes(q) == q # <<>> /\ q[1] \in Packet /\ q' = Tail(q)
Sends(q) == link /\ \E t \in Seq(Packet) : q' = q \o t

\* What the handlers of calls do to the connection.
PayloadStep ==
    /\ UNCHANGED ends
    /\ UNCHANGED toServer \/ Takes(toServer) \/ Sends(toServer)
    /\ UNCHANGED toClient \/ Takes(toClient) \/ (~fresh /\ Sends(toClient))

Negotiates ==
    \/ SocketConnect \/ SocketBreaks \/ ClientNotices \/ ConnectNewChannel(ToOpen)
    \/ ReconnectAccepted \/ (\E reload \in BOOLEAN : ReconnectRefused(reload))
    \/ InitialConnect \/ ReconnectFrontend \/ NegotiationIgnored
    \/ (\E s \in Sockets, marked \in BOOLEAN : ServerNotices(s, marked))
    \/ (\E s \in Sockets : CloseTimeout(s))

\* No step on the payload makes the server refuse the front end.
LEMMA MayRefuse ==
    ASSUME Negotiation, PayloadStep, link, Refusable'
    PROVE  Refusable
<1>1. UNCHANGED <<fresh, link>> BY DEF PayloadStep, ends
<1>2. CASE fresh' /\ toServer' # <<>> /\ toServer'[1] = Reconnect
  <2>1. toServer # <<>> /\ toServer[1] \in {Initial, Reconnect}
    BY <1>1, <1>2 DEF Negotiation, Upwards, Downwards
  <2>2. ~Takes(toServer) BY <2>1, PacketForm DEF Takes
  <2>3. CASE UNCHANGED toServer BY <1>1, <1>2, <2>3 DEF Refusable
  <2>4. CASE Sends(toServer)
    <3>1. PICK t \in Seq(Packet) : toServer' = toServer \o t BY <2>4 DEF Sends
    <3>2. toServer \in Seq({Initial, Reconnect} \cup Packet) BY DEF Negotiation, Upwards, Downwards
    <3>3. t \in Seq({Initial, Reconnect} \cup Packet) BY <3>1, SeqMonotonic
    <3>4. 1 \in DOMAIN toServer BY <2>1, <3>2, Places
    <3>5. toServer'[1] = toServer[1] BY <3>1, <3>2, <3>3, <3>4, Joined
    <3> QED BY <1>1, <1>2, <2>1, <3>5 DEF Refusable
  <2> QED BY <2>2, <2>3, <2>4 DEF PayloadStep
<1>3. CASE toClient' # <<>> /\ toClient'[1] = Known(FALSE)
  <2> DEFINE S == {Initial, Known(TRUE), Known(FALSE)} \cup Packet
  <2>1. toClient \in Seq(S) /\ \A i \in DOMAIN toClient : toClient[i] \notin Packet => i = 1
    BY DEF Negotiation, Upwards, Downwards
  <2>2. Known(FALSE) \notin Packet BY PacketForm
  <2> HIDE DEF S
  <2>3. CASE Takes(toClient)
    <3>1. toClient' \in Seq(S) /\ \A i \in DOMAIN toClient' :
              i \in Nat /\ i + 1 \in DOMAIN toClient /\ toClient'[i] = toClient[i + 1]
      BY <2>1, <2>3, Taken DEF Takes
    <3>2. 1 \in DOMAIN toClient' BY <1>3, <3>1, Places
    <3>3. 1 + 1 \in DOMAIN toClient /\ toClient[1 + 1] = Known(FALSE) BY <1>3, <3>1, <3>2
    <3>4. toClient[1 + 1] \notin Packet BY <2>2, <3>3
    <3>5. 1 + 1 = 1 BY <2>1, <3>3, <3>4
    <3> QED BY <3>5
  <2>4. CASE Sends(toClient)
    <3>1. PICK t \in Seq(Packet) : toClient' = toClient \o t BY <2>4 DEF Sends
    <3>2. t \in Seq(S) BY <3>1, SeqMonotonic DEF S
    <3>3. toClient' \in Seq(S) /\ \A i \in DOMAIN toClient' :
              \/ i \in DOMAIN toClient /\ toClient'[i] = toClient[i]
              \/ i - Len(toClient) \in DOMAIN t /\ toClient'[i] = t[i - Len(toClient)]
      BY <2>1, <3>1, <3>2, Joined
    <3>4. 1 \in DOMAIN toClient' BY <1>3, <3>3, Places
    <3>5. \A k \in DOMAIN t : t[k] \in Packet BY <3>1, Places
    <3>6. 1 \in DOMAIN toClient /\ toClient[1] = Known(FALSE) BY <1>3, <2>2, <3>3, <3>4, <3>5
    <3> QED BY <2>1, <3>6, Places DEF Refusable
  <2>5. CASE UNCHANGED toClient BY <1>3, <2>5 DEF Refusable
  <2> QED BY <2>3, <2>4, <2>5 DEF PayloadStep
<1> QED BY <1>2, <1>3 DEF Refusable

\* What an end reads is the head of its queue.
LEMMA Heads ==
    ASSUME Negotiation
    PROVE  /\ toClient # <<>> => FromServer = toClient[1]
           /\ toServer # <<>> => FromClient = toServer[1]
BY DEF Negotiation, Upwards, Downwards, FromServer, FromClient

\* Only the first message from the server can be an answer to the negotiation.
LEMMA NothingKnown ==
    ASSUME Negotiation, toClient # <<>>, Tail(toClient) # <<>>
    PROVE  Tail(toClient)[1] \in Packet
<1> DEFINE S == {Initial, Known(TRUE), Known(FALSE)} \cup Packet
<1>1. toClient \in Seq(S) /\ \A i \in DOMAIN toClient : toClient[i] \notin Packet => i = 1
  BY DEF Negotiation, Upwards, Downwards
<1> HIDE DEF S
<1>2. PICK p : p = Tail(toClient) OBVIOUS
<1>3. p \in Seq(S) /\ p # <<>>
      /\ \A i \in DOMAIN p : i \in Nat /\ i + 1 \in DOMAIN toClient /\ p[i] = toClient[i + 1]
  BY <1>1, <1>2, Taken
<1>4. 1 \in DOMAIN p BY <1>3, Places
<1>5. 1 + 1 \in DOMAIN toClient /\ p[1] = toClient[1 + 1] BY <1>3, <1>4
<1>6. 1 + 1 # 1 OBVIOUS
<1>7. toClient[1 + 1] \in Packet BY <1>1, <1>5, <1>6
<1> QED BY <1>2, <1>5, <1>7

\* Every socket is paid for by a broken one or by a refusal that follows a broken one.
LEMMA BudgetStep ==
    ASSUME Budget, Negotiation, Buffers, Negotiates \/ PayloadStep \/ UNCHANGED transport
    PROVE  Budget'
<1>1. drops \in Nat /\ sock \in Nat /\ load \in Nat /\ MaxDrops \in Nat
  BY Constants DEF Budget, Counts
<1>2. CASE SocketConnect
  <2>1. link' /\ Refusable' => channel # "none" /\ ~outbox
    <3>1. ~(toClient' # <<>>) BY <1>2 DEF SocketConnect
    <3>2. outbox => toServer'[1] = Initial BY <1>2, EmptySeq DEF SocketConnect
    <3>3. channel = "none" /\ ~outbox => toServer'[1] = Initial
      BY <1>2 DEF SocketConnect
    <3> QED BY <3>1, <3>2, <3>3, PacketForm DEF Refusable
  <2>2. /\ ~connected /\ sock' = sock + 1 /\ connected' = TRUE /\ link' = TRUE /\ outbox' = FALSE
        /\ fresh' = TRUE /\ UNCHANGED <<drops, load, channel>>
    BY <1>2 DEF SocketConnect
  <2>3. Counts' /\ Ends'
    <3>1. Counts' BY <1>1, <2>2 DEF Budget, Counts
    <3>2. Ends' BY <2>2, Zenon DEF Budget, Ends
    <3> QED BY <3>1, <3>2
  <2>4. Linked' BY <1>1, <2>2 DEF Budget, Linked
  <2>5. Spent' BY <1>1, <2>1, <2>2 DEF Budget, Spent
  <2> QED BY <2>3, <2>4, <2>5 DEF Budget
<1>3. CASE SocketBreaks
  <2>1. /\ link /\ drops < MaxDrops /\ drops' = drops + 1 /\ link' = FALSE
        /\ UNCHANGED <<sock, load, connected, outbox, fresh, channel>>
    BY <1>3 DEF SocketBreaks, frontend, backend
  <2>2. Counts' /\ Ends'
    <3>1. Counts' BY <1>1, <2>1 DEF Budget, Counts
    <3>2. Ends' BY <2>1, Zenon DEF Budget, Ends
    <3> QED BY <3>1, <3>2
  <2>3. Linked' BY <1>1, <2>1 DEF Budget, Linked
  <2>4. Spent' BY <1>1, <2>1 DEF Budget, Spent, Linked
  <2> QED BY <2>2, <2>3, <2>4 DEF Budget
<1>4. CASE ClientNotices
  <2>1. /\ connected /\ ~link /\ connected' = FALSE
        /\ UNCHANGED <<sock, load, outbox, fresh, channel, link, drops>>
    BY <1>4 DEF ClientNotices, network, backend
  <2>2. Counts' /\ Ends'
    <3>1. Counts' BY <1>1, <2>1 DEF Budget, Counts
    <3>2. Ends' BY <2>1, Zenon DEF Budget, Ends
    <3> QED BY <3>1, <3>2
  <2>3. Linked' BY <1>1, <2>1 DEF Budget, Linked
  <2>4. Spent' BY <1>1, <2>1 DEF Budget, Spent, Linked
  <2> QED BY <2>2, <2>3, <2>4 DEF Budget
<1>5. CASE ConnectNewChannel(ToOpen)
  <2>1. /\ toClient # <<>> /\ toClient[1] = Initial /\ channel' = "open"
        /\ UNCHANGED <<sock, load, outbox, fresh, connected, link, drops>>
    BY <1>5 DEF ConnectNewChannel, backend, FromServer
  <2>2. link /\ connected /\ ~outbox
    BY <2>1, Zenon DEF Negotiation, Upwards, Downwards, Budget, Linked
  <2>3. ~Refusable'
    <3>1. ~fresh BY <2>1 DEF Negotiation, Upwards, Downwards
    <3>2. toClient' # <<>> => toClient'[1] # Known(FALSE)
      <4>1. toClient' = Tail(toClient) BY <1>5 DEF ConnectNewChannel
      <4> QED BY <2>1, <4>1, NothingKnown, PacketForm
    <3> QED BY <2>1, <3>1, <3>2 DEF Refusable
  <2>4. Counts' /\ Ends'
    <3>1. Counts' BY <1>1, <2>1 DEF Budget, Counts
    <3>2. Ends' BY <2>1, Zenon DEF Budget, Ends
    <3> QED BY <3>1, <3>2
  <2>5. Linked' BY <1>1, <2>1, <2>2 DEF Budget, Linked
  <2>6. Spent' BY <1>1, <2>1, <2>2, <2>3 DEF Budget, Spent
  <2> QED BY <2>4, <2>5, <2>6 DEF Budget
<1>6. CASE ReconnectAccepted
  <2>1. /\ toClient # <<>> /\ toClient' = Tail(toClient)
        /\ UNCHANGED <<sock, load, outbox, fresh, connected, link, drops, channel>>
    BY <1>6 DEF ReconnectAccepted, backend
  <2>2. link /\ connected /\ ~outbox
    BY <2>1, Zenon DEF Negotiation, Upwards, Downwards, Budget, Linked
  <2>3. ~Refusable'
    <3>1. ~fresh BY <2>1 DEF Negotiation, Upwards, Downwards
    <3>2. toClient' # <<>> => toClient'[1] # Known(FALSE)
      BY <2>1, NothingKnown, PacketForm
    <3> QED BY <2>1, <3>1, <3>2 DEF Refusable
  <2>4. Counts' /\ Ends'
    <3>1. Counts' BY <1>1, <2>1 DEF Budget, Counts
    <3>2. Ends' BY <2>1, Zenon DEF Budget, Ends
    <3> QED BY <3>1, <3>2
  <2>5. Linked' BY <1>1, <2>1, <2>2 DEF Budget, Linked
  <2>6. Spent' BY <1>1, <2>1, <2>2, <2>3 DEF Budget, Spent
  <2> QED BY <2>4, <2>5, <2>6 DEF Budget
<1>7. ASSUME NEW reload \in BOOLEAN, ReconnectRefused(reload) PROVE Budget'
  <2>1. /\ toClient # <<>> /\ toClient[1] = Known(FALSE) /\ connected' = FALSE /\ link' = FALSE
        /\ UNCHANGED <<sock, fresh, drops>>
    <3>1. toClient # <<>> /\ FromServer = Known(FALSE) /\ connected' = FALSE /\ link' = FALSE
      BY <1>7, Zenon DEF ReconnectRefused
    <3>2. UNCHANGED <<sock, fresh, drops>> BY <1>7 DEF ReconnectRefused, backend
    <3>3. toClient[1] = FromServer BY <3>1, Heads
    <3> QED BY <3>1, <3>2, <3>3, Zenon
  <2>2. link /\ connected /\ ~outbox
    BY <2>1, Zenon DEF Negotiation, Upwards, Downwards, Budget, Linked
  <2>3. \/ load' = load + 1 /\ channel' = "none" /\ outbox' = outbox
        \/ load' = load /\ channel' = "closed" /\ outbox' = TRUE
    BY <1>7 DEF ReconnectRefused
  <2>4. Counts' /\ Ends'
    <3>1. Counts' BY <1>1, <2>1, <2>3 DEF Budget, Counts
    <3>2. Ends' BY <2>1, <2>3, Zenon DEF Budget, Ends
    <3> QED BY <3>1, <3>2
  <2>5. Linked' BY <1>1, <2>1, <2>2, <2>3 DEF Budget, Linked
  <2>6. sock + 1 <= 1 + 2 * drops BY <1>1, <2>1, <2>2 DEF Budget, Spent, Refusable
  <2>7. Spent' BY <1>1, <2>1, <2>2, <2>3, <2>6 DEF Spent
  <2> QED BY <2>4, <2>5, <2>7 DEF Budget
<1>8. ASSUME UNCHANGED <<sock, load, connected, channel, outbox, link, drops>>,
             fresh' \in BOOLEAN, link /\ Refusable' => Refusable
      PROVE  Budget'
  <2>1. Counts' /\ Ends'
    <3>1. Counts' BY <1>1, <1>8 DEF Budget, Counts
    <3>2. Ends' BY <1>8, Zenon DEF Budget, Ends
    <3> QED BY <3>1, <3>2
  <2>2. Linked' BY <1>1, <1>8 DEF Budget, Linked
  <2>3. Spent' BY <1>1, <1>8 DEF Budget, Spent
  <2> QED BY <2>1, <2>2, <2>3 DEF Budget
<1>9. CASE InitialConnect
  <2>1. /\ UNCHANGED <<sock, load, connected, channel, outbox, link, drops>> /\ fresh /\ ~fresh'
        /\ toClient' = Append(toClient, Initial) /\ fresh' = FALSE
    BY <1>9 DEF InitialConnect, frontend
  <2>2. ~Refusable'
    <3>1. toClient = <<>> BY <2>1 DEF Negotiation, Upwards, Downwards
    <3>2. toClient'[1] = Initial BY <2>1, <3>1
    <3> QED BY <2>1, <3>2, PacketForm DEF Refusable
  <2> QED BY <1>8, <2>1, <2>2
<1>10. CASE ReconnectFrontend
  <2>1. /\ UNCHANGED <<sock, load, connected, channel, outbox, link, drops>> /\ fresh' = FALSE
        /\ fresh /\ toServer # <<>> /\ toServer[1] = Reconnect
    BY <1>10 DEF ReconnectFrontend, frontend, FromClient
  <2>2. Refusable BY <2>1 DEF Refusable
  <2> QED BY <1>8, <2>1, <2>2
<1>11. CASE NegotiationIgnored
  <2>1. /\ UNCHANGED <<sock, load, connected, channel, outbox, link, drops, fresh, toClient>>
        /\ ~fresh
    BY <1>11 DEF NegotiationIgnored, frontend, backend
  <2>2. Refusable' => Refusable BY <2>1 DEF Refusable
  <2>3. fresh' \in BOOLEAN BY <2>1 DEF Budget, Ends
  <2> QED BY <1>8, <2>1, <2>2, <2>3
<1>12. ASSUME NEW s \in Sockets, NEW marked \in BOOLEAN, ServerNotices(s, marked) PROVE Budget'
  <2>1. /\ UNCHANGED <<sock, load, connected, channel, outbox, link, drops, toServer, toClient>>
        /\ fresh' = (fresh /\ s # sock)
    BY <1>12 DEF ServerNotices, frontend, network
  <2>2. Refusable' => Refusable BY <2>1 DEF Refusable
  <2> QED BY <1>8, <2>1, <2>2
<1>13. ASSUME NEW s \in Sockets, CloseTimeout(s) PROVE Budget'
  <2>1. UNCHANGED <<sock, load, connected, channel, outbox, link, drops, toServer, toClient, fresh>>
    BY <1>13 DEF CloseTimeout, frontend, network
  <2>2. Refusable' <=> Refusable BY <2>1 DEF Refusable
  <2>3. fresh' \in BOOLEAN BY <2>1 DEF Budget, Ends
  <2> QED BY <1>8, <2>1, <2>2, <2>3
<1>14. CASE PayloadStep
  <2>1. UNCHANGED <<sock, load, connected, channel, outbox, link, drops, fresh>>
    BY <1>14 DEF PayloadStep, ends
  <2>2. link /\ Refusable' => Refusable BY <1>14, MayRefuse
  <2>3. fresh' \in BOOLEAN BY <2>1 DEF Budget, Ends
  <2> QED BY <1>8, <2>1, <2>2, <2>3
<1>15. CASE UNCHANGED transport
  <2>1. UNCHANGED <<sock, load, connected, channel, outbox, link, drops, toServer, toClient, fresh>>
    BY <1>15 DEF transport, frontend, network, backend
  <2>2. Refusable' <=> Refusable BY <2>1 DEF Refusable
  <2>3. fresh' \in BOOLEAN BY <2>1 DEF Budget, Ends
  <2> QED BY <1>8, <2>1, <2>2, <2>3
<1> QED
  BY <1>2, <1>3, <1>4, <1>5, <1>6, <1>7, <1>9, <1>10, <1>11, <1>12, <1>13, <1>14, <1>15
  DEF Negotiates

\* So there are never more sockets, or page loads, than Sockets has.
LEMMA InSockets ==
    ASSUME Budget
    PROVE  /\ load \in Sockets /\ 1 .. sock \subseteq Sockets /\ sock \in Nat /\ load \in Nat \ {0}
           /\ sock >= 1 => sock \in Sockets /\ sock \in 1 .. sock
<1>1. drops \in 0 .. MaxDrops /\ sock \in Nat /\ load \in Nat \ {0} /\ connected \in BOOLEAN
  BY DEF Budget, Counts, Ends
<1>2. sock <= 1 + 2 * MaxDrops BY <1>1, Constants DEF Budget, Spent
<1>3. load <= 1 + 2 * MaxDrops
  <2>1. CASE connected BY <1>1, <1>2, <2>1, Constants DEF Budget, Linked
  <2>2. CASE ~connected BY <1>1, <2>2, Constants DEF Budget, Linked, Spent
  <2> QED BY <2>1, <2>2
<1> QED BY <1>1, <1>2, <1>3, Constants

\* The server takes the first message of its queue.
LEMMA UpTaken ==
    ASSUME Upwards, toServer # <<>>, toServer' = Tail(toServer), ~fresh',
           UNCHANGED <<link, channel>>
    PROVE  Upwards'
<1> DEFINE S == {Initial, Reconnect} \cup Packet
<1>1. toServer \in Seq(S) BY DEF Upwards
<1> HIDE DEF S
<1>2. toServer' \in Seq(S) /\ \A i \in DOMAIN toServer' :
          i \in Nat /\ i + 1 \in DOMAIN toServer /\ toServer'[i] = toServer[i + 1]
  BY <1>1, Taken
<1>3. link' BY DEF Upwards
<1>4. ASSUME NEW i \in DOMAIN toServer'
      PROVE  /\ toServer'[i] # Initial
             /\ toServer'[i] = Reconnect => channel # "none"
  <2>1. i \in Nat /\ i + 1 \in DOMAIN toServer /\ toServer'[i] = toServer[i + 1] BY <1>2
  <2>2. 1 \in DOMAIN toServer BY <1>1, Places
  <2>3. DOMAIN toServer' = 1 .. Len(toServer') /\ Len(toServer') \in Nat BY <1>2, Places
  <2>4. i + 1 # 1 BY <2>3
  <2> QED BY <2>1, <2>4 DEF Upwards
<1> QED BY <1>2, <1>3, <1>4 DEF Upwards, S

\* The front end appends data to its queue.
LEMMA UpJoined ==
    ASSUME Upwards, NEW t \in Seq(Packet), toServer' = toServer \o t, link,
           UNCHANGED <<link, fresh>>, channel' = channel \/ (~fresh /\ channel' = "open")
    PROVE  Upwards'
<1> DEFINE S == {Initial, Reconnect} \cup Packet
<1>1. toServer \in Seq(S) /\ t \in Seq(S) BY SeqMonotonic DEF Upwards
<1> HIDE DEF S
<1>2. /\ toServer' \in Seq(S)
      /\ \A i \in DOMAIN toServer' :
            \/ i \in DOMAIN toServer /\ toServer'[i] = toServer[i]
            \/ i - Len(toServer) \in DOMAIN t /\ toServer'[i] = t[i - Len(toServer)]
      /\ \A i \in DOMAIN toServer : i \in DOMAIN toServer' /\ toServer'[i] = toServer[i]
  BY <1>1, Joined
<1>3. \A k \in DOMAIN t : t[k] \in Packet BY Places
<1>4. \A i \in DOMAIN toServer' :
         toServer'[i] \in {Initial, Reconnect} =>
             i \in DOMAIN toServer /\ toServer'[i] = toServer[i]
  BY <1>2, <1>3, PacketForm
<1>5. fresh => toServer' # <<>> /\ toServer'[1] \in {Initial, Reconnect}
  <2>1. fresh => 1 \in DOMAIN toServer BY <1>1, Places DEF Upwards
  <2>2. fresh => 1 \in DOMAIN toServer' /\ toServer'[1] = toServer[1] BY <1>2, <2>1
  <2>3. fresh => toServer' # <<>> BY <1>2, <2>2, Places
  <2> QED BY <2>2, <2>3 DEF Upwards
<1>6. \A i \in DOMAIN toServer' : toServer'[i] = Initial => i = 1 /\ fresh /\ channel' # "open"
  BY <1>4 DEF Upwards
<1>7. \A i \in DOMAIN toServer' : toServer'[i] = Reconnect => channel' # "none"
  BY <1>4 DEF Upwards
<1> QED BY <1>2, <1>5, <1>6, <1>7 DEF Upwards, S

\* The queue to the server is lost with its socket.
LEMMA UpEmpty ==
    ASSUME toServer' = <<>>, ~link' \/ ~fresh'
    PROVE  Upwards'
BY EmptySeq DEF Upwards

\* The front end takes the first message of its queue.
LEMMA DownTaken ==
    ASSUME Downwards, toClient # <<>>, toClient' = Tail(toClient), ~fresh', link' = link
    PROVE  Downwards'
<1> DEFINE S == {Initial, Known(TRUE), Known(FALSE)} \cup Packet
<1>1. toClient \in Seq(S) BY DEF Downwards
<1> HIDE DEF S
<1>2. toClient' \in Seq(S) /\ \A i \in DOMAIN toClient' :
          i \in Nat /\ i + 1 \in DOMAIN toClient /\ toClient'[i] = toClient[i + 1]
  BY <1>1, Taken
<1>3. link BY DEF Downwards
<1>4. ASSUME NEW i \in DOMAIN toClient' PROVE toClient'[i] \in Packet
  <2>1. i \in Nat /\ i + 1 \in DOMAIN toClient /\ toClient'[i] = toClient[i + 1] BY <1>2
  <2>2. DOMAIN toClient' = 1 .. Len(toClient') /\ Len(toClient') \in Nat BY <1>2, Places
  <2>3. i + 1 # 1 BY <2>2
  <2>4. toClient[i + 1] \in Packet BY <2>1, <2>3 DEF Downwards
  <2> QED BY <2>1, <2>4
<1>5. toClient' # <<>> => toClient'[1] \in Packet BY <1>2, <1>4, Places
<1> QED BY <1>2, <1>3, <1>4, <1>5, PacketForm DEF Downwards, S

\* The server appends data to its queue.
LEMMA DownJoined ==
    ASSUME Downwards, NEW t \in Seq(Packet), toClient' = toClient \o t, link, ~fresh',
           UNCHANGED <<link, channel>>
    PROVE  Downwards'
<1> DEFINE S == {Initial, Known(TRUE), Known(FALSE)} \cup Packet
<1>1. toClient \in Seq(S) /\ t \in Seq(S) BY SeqMonotonic DEF Downwards
<1> HIDE DEF S
<1>2. /\ toClient' \in Seq(S)
      /\ \A i \in DOMAIN toClient' :
            \/ i \in DOMAIN toClient /\ toClient'[i] = toClient[i]
            \/ i - Len(toClient) \in DOMAIN t /\ toClient'[i] = t[i - Len(toClient)]
  BY <1>1, Joined
<1>3. \A k \in DOMAIN t : t[k] \in Packet BY Places
<1>4. \A i \in DOMAIN toClient' :
         toClient'[i] \notin Packet => i \in DOMAIN toClient /\ toClient'[i] = toClient[i]
  BY <1>2, <1>3
<1>5. \A i \in DOMAIN toClient' : toClient'[i] \notin Packet => i = 1 BY <1>4 DEF Downwards
<1>6. toClient' # <<>> => 1 \in DOMAIN toClient' BY <1>2, Places
<1>7. toClient' # <<>> /\ toClient'[1] \notin Packet =>
         toClient # <<>> /\ toClient'[1] = toClient[1]
  BY <1>1, <1>4, <1>6, Places
<1>8. Initial \notin Packet /\ Known(TRUE) \notin Packet /\ Known(FALSE) \notin Packet
  BY PacketForm
<1>9. /\ toClient' # <<>> /\ toClient'[1] = Initial => channel' # "open"
      /\ toClient' # <<>> /\ toClient'[1] \in {Known(TRUE), Known(FALSE)} => channel' # "none"
  BY <1>7, <1>8 DEF Downwards
<1> QED BY <1>2, <1>5, <1>9 DEF Downwards, S

\* The queue to the front end is lost with its socket.
LEMMA DownEmpty ==
    ASSUME toClient' = <<>>, fresh' => sock' >= 1
    PROVE  Downwards'
BY EmptySeq DEF Downwards

\* Negotiation comes first on every socket, whatever step is taken.
LEMMA NegotiationStep ==
    ASSUME Budget, Negotiation, Channels, Buffers, ToOpen \in Seq(Payload),
           Negotiates \/ PayloadStep \/ UNCHANGED transport
    PROVE  Negotiation'
<1> USE DEF Negotiation
<1>1. /\ sock \in Nat /\ link \in BOOLEAN /\ fresh \in BOOLEAN
      /\ channel \in {"none", "open", "closed"}
  BY DEF Budget, Counts, Ends
<1>2. CASE SocketConnect
  <2>1. /\ sock' = sock + 1 /\ link' = TRUE /\ fresh' = TRUE /\ channel' = channel
        /\ toServer' = (IF outbox THEN <<Initial>> ELSE <<>>)
                          \o <<IF channel = "none" THEN Initial ELSE Reconnect>>
        /\ toClient' = <<>>
    BY <1>2 DEF SocketConnect
  <2>2. \/ toServer' = <<Initial>> /\ channel = "none"
        \/ toServer' = <<Reconnect>> /\ channel # "none"
        \/ toServer' = <<Initial, Reconnect>> /\ channel = "closed"
    <3>1. PICK r : r = IF channel = "none" THEN Initial ELSE Reconnect OBVIOUS
    <3>2. <<>> \o <<r>> = <<r>> /\ <<Initial>> \o <<r>> = <<Initial, r>>
      <4>1. PICK i : i = Initial OBVIOUS
      <4>2. <<i>> \in Seq({i, r}) /\ <<r>> \in Seq({i, r}) OBVIOUS
      <4>3. <<>> \o <<r>> = <<r>> BY <4>2, ConcatEmptySeq
      <4>4. PICK p : p = <<i>> \o <<r>> OBVIOUS
      <4>5. /\ p \in Seq({i, r}) /\ Len(p) = Len(<<i>>) + Len(<<r>>)
            /\ \A k \in 1 .. Len(<<i>>) + Len(<<r>>) :
                  p[k] = IF k <= Len(<<i>>) THEN <<i>>[k] ELSE <<r>>[k - Len(<<i>>)]
        BY <4>2, <4>4, ConcatProperties
      <4>6. Len(<<i>>) = 1 /\ Len(<<r>>) = 1 /\ <<i>>[1] = i /\ <<r>>[1] = r OBVIOUS
      <4>7. Len(p) = 2 /\ p[1] = i /\ p[2] = r BY <4>5, <4>6
      <4>8. PICK q : q = <<i, r>> OBVIOUS
      <4>9. q \in Seq({i, r}) /\ Len(q) = 2 /\ q[1] = i /\ q[2] = r BY <4>8
      <4>10. \A k \in 1 .. Len(p) : p[k] = q[k] BY <4>7, <4>9
      <4>11. p = q BY <4>5, <4>7, <4>9, <4>10, SeqEqual
      <4> QED BY <4>1, <4>3, <4>4, <4>8, <4>11
    <3>3. toServer' = IF outbox THEN <<Initial, r>> ELSE <<r>> BY <2>1, <3>1, <3>2
    <3>4. outbox => channel = "closed" BY DEF Budget, Linked
    <3> QED BY <3>1, <3>3, <3>4
  <2>3. /\ toServer' \in Seq({Initial, Reconnect} \cup Packet) /\ toServer' # <<>>
        /\ toServer'[1] \in {Initial, Reconnect}
        /\ \A i \in DOMAIN toServer' : toServer'[i] = Initial => i = 1 /\ channel # "open"
        /\ \A i \in DOMAIN toServer' : toServer'[i] = Reconnect => channel # "none"
    <3>1. CASE toServer' = <<Initial>> /\ channel = "none" BY <3>1, PacketForm
    <3>2. CASE toServer' = <<Reconnect>> /\ channel # "none" BY <3>2, PacketForm
    <3>3. CASE toServer' = <<Initial, Reconnect>> /\ channel = "closed" BY <3>3, PacketForm
    <3> QED BY <2>2, <3>1, <3>2, <3>3
  <2>4. Upwards' BY <2>1, <2>3 DEF Upwards
  <2>5. Downwards' BY <1>1, <2>1, DownEmpty
  <2> QED BY <2>4, <2>5
<1>3. ASSUME toServer' = <<>>, toClient' = <<>>, link' = FALSE, UNCHANGED <<fresh, sock>>
      PROVE  Negotiation'
  <2>1. Upwards' BY <1>3, UpEmpty
  <2>2. Downwards' BY <1>3, DownEmpty DEF Downwards
  <2> QED BY <2>1, <2>2
<1>4. CASE SocketBreaks
  BY <1>3, <1>4 DEF SocketBreaks, frontend, backend
<1>5. CASE ClientNotices
  BY <1>1, <1>5 DEF ClientNotices, Upwards, Downwards, network, backend
<1>6. CASE ConnectNewChannel(ToOpen)
  <2>1. /\ toClient # <<>> /\ toClient' = Tail(toClient) /\ channel' = "open"
        /\ toServer' = Sent(toServer, Singly(ToOpen)) /\ UNCHANGED <<link, fresh>>
    BY <1>6 DEF ConnectNewChannel, backend
  <2>2. link /\ ~fresh BY <2>1 DEF Downwards
  <2>3. Downwards' BY <2>1, <2>2, DownTaken
  <2>4. Singly(ToOpen) \in Seq(Packet) BY SinglyForm
  <2>5. toServer' = toServer \o Singly(ToOpen) BY <2>1, <2>2 DEF Sent
  <2>6. Upwards' BY <2>1, <2>2, <2>4, <2>5, UpJoined
  <2> QED BY <2>3, <2>6
<1>7. CASE ReconnectAccepted
  <2>1. /\ toClient # <<>> /\ toClient' = Tail(toClient)
        /\ toServer' = Sent(toServer, Flush(held)) /\ UNCHANGED <<link, fresh, channel>>
    BY <1>7 DEF ReconnectAccepted, backend
  <2>2. link /\ ~fresh BY <2>1 DEF Downwards
  <2>3. Downwards' BY <2>1, <2>2, DownTaken
  <2>4. Flush(held) \in Seq(Packet) BY FlushForm DEF Buffers
  <2>5. toServer' = toServer \o Flush(held) BY <2>1, <2>2 DEF Sent
  <2>6. Upwards' BY <2>1, <2>2, <2>4, <2>5, UpJoined
  <2> QED BY <2>3, <2>6
<1>8. ASSUME NEW reload \in BOOLEAN, ReconnectRefused(reload) PROVE Negotiation'
  BY <1>3, <1>8 DEF ReconnectRefused, backend
<1>9. CASE InitialConnect
  <2>1. /\ toServer # <<>> /\ toServer[1] = Initial /\ toServer' = Tail(toServer)
        /\ fresh' = FALSE /\ fresh /\ toClient' = Append(toClient, Initial)
        /\ UNCHANGED <<link, channel>>
    BY <1>9, Heads DEF InitialConnect, frontend
  <2>2. link /\ toClient = <<>> /\ channel # "open"
    <3>1. 1 \in DOMAIN toServer BY <2>1, Places DEF Upwards
    <3> QED BY <2>1, <3>1 DEF Upwards, Downwards
  <2>3. Upwards' BY <2>1, UpTaken
  <2>4. toClient' = <<Initial>> BY <2>1, <2>2
  <2>5. Downwards'
    <3>1. toClient' \in Seq({Initial, Known(TRUE), Known(FALSE)} \cup Packet)
          /\ \A i \in DOMAIN toClient' : i = 1
      BY <2>4
    <3>2. toClient'[1] = Initial BY <2>4
    <3> QED BY <2>1, <2>2, <3>1, <3>2, PacketForm DEF Downwards
  <2> QED BY <2>3, <2>5
<1>10. CASE ReconnectFrontend
  <2> DEFINE S == {Initial, Known(TRUE), Known(FALSE)} \cup Packet
  <2>1. /\ toServer # <<>> /\ toServer[1] = Reconnect /\ toServer' = Tail(toServer)
        /\ fresh' = FALSE /\ fresh /\ UNCHANGED <<link, channel>>
    BY <1>10, Heads DEF ReconnectFrontend, frontend
  <2>2. link /\ toClient = <<>> /\ channel # "none"
    <3>1. 1 \in DOMAIN toServer BY <2>1, Places DEF Upwards
    <3> QED BY <2>1, <3>1 DEF Upwards, Downwards
  <2>3. Upwards' BY <2>1, UpTaken
  <2>4. PICK k \in {Known(TRUE), Known(FALSE)}, t \in Seq(Packet) : toClient' = <<k>> \o t
    <3>1. CASE connection[load] = Absent
      <4>1. toClient' = Append(toClient, Known(FALSE)) BY <1>10, <3>1 DEF ReconnectFrontend
      <4>2. PICK k : k = Known(FALSE) OBVIOUS
      <4>3. toClient' = <<k>> BY <2>2, <4>1, <4>2
      <4>4. <<k>> \in Seq({k}) /\ <<>> \in Seq(Packet) OBVIOUS
      <4>5. <<k>> \o <<>> = <<k>> BY <4>4, ConcatEmptySeq
      <4> QED BY <4>2, <4>3, <4>4, <4>5
    <3>2. CASE connection[load] # Absent
      <4>1. toClient' = Append(toClient, Known(TRUE)) \o Flush(buffer[connection[load]])
        BY <1>10, <3>2 DEF ReconnectFrontend
      <4>2. connection[load] \in Sockets
        <5>1. connection[load] \in 0 .. sock BY InSockets DEF Channels, ChannelTypes
        <5>2. connection[load] \in 1 .. sock BY <3>2, <5>1, <1>1 DEF Absent
        <5> QED BY <5>2, InSockets
      <4>3. Flush(buffer[connection[load]]) \in Seq(Packet) BY <4>2, FlushForm DEF Buffers
      <4>4. PICK k : k = Known(TRUE) OBVIOUS
      <4>5. Append(toClient, Known(TRUE)) = <<k>> BY <2>2, <4>4
      <4> QED BY <4>1, <4>3, <4>4, <4>5
    <3> QED BY <3>1, <3>2
  <2>5. Downwards'
    <3>1. k \notin Packet /\ k # Initial BY PacketForm
    <3> USE <2>2
    <3>2. <<k>> \in Seq(S) /\ t \in Seq(S) /\ DOMAIN <<k>> = {1} /\ <<k>>[1] = k
      <4>1. k \in S OBVIOUS
      <4> HIDE DEF S
      <4>2. <<k>> \in Seq(S) /\ DOMAIN <<k>> = {1} /\ <<k>>[1] = k BY <4>1
      <4>3. t \in Seq(S) BY SeqMonotonic DEF S
      <4> QED BY <4>2, <4>3
    <3> HIDE DEF S
    <3>3. /\ toClient' \in Seq(S)
          /\ \A i \in DOMAIN toClient' :
                \/ i \in DOMAIN <<k>> /\ toClient'[i] = <<k>>[i]
                \/ i - Len(<<k>>) \in DOMAIN t /\ toClient'[i] = t[i - Len(<<k>>)]
          /\ \A i \in DOMAIN <<k>> : i \in DOMAIN toClient' /\ toClient'[i] = <<k>>[i]
      BY <2>4, <3>2, Joined
    <3>4. \A i \in DOMAIN t : t[i] \in Packet BY Places
    <3>5. \A i \in DOMAIN toClient' : toClient'[i] \notin Packet => i = 1 BY <3>2, <3>3, <3>4
    <3>6. toClient'[1] = k BY <3>2, <3>3
    <3> QED BY <2>1, <3>1, <3>3, <3>5, <3>6 DEF Downwards, S
  <2> QED BY <2>3, <2>5
<1>11. CASE NegotiationIgnored
  <2>1. /\ toServer # <<>> /\ toServer' = Tail(toServer) /\ ~fresh
        /\ UNCHANGED <<fresh, sock, link, channel, toClient>>
    BY <1>11 DEF NegotiationIgnored, frontend, backend
  <2>2. Upwards' BY <2>1, UpTaken
  <2>3. Downwards' BY <2>1 DEF Downwards
  <2> QED BY <2>2, <2>3
<1>12. ASSUME UNCHANGED <<link, channel, sock, toServer, toClient>>,
              fresh' = fresh \/ (fresh' = FALSE /\ ~link)
       PROVE  Negotiation'
  <2>1. fresh' => fresh BY <1>12
  <2>2. Upwards'
    <3>1. toServer # <<>> => fresh' = fresh BY <1>12 DEF Upwards
    <3>2. \A i \in DOMAIN toServer : toServer # <<>> BY Places DEF Upwards
    <3> QED BY <1>12, <2>1, <3>1, <3>2 DEF Upwards
  <2>3. Downwards' BY <1>12, <2>1 DEF Downwards
  <2> QED BY <2>2, <2>3
<1>13. ASSUME NEW s \in Sockets, NEW marked \in BOOLEAN, ServerNotices(s, marked)
       PROVE  Negotiation'
  <2>1. /\ UNCHANGED <<link, channel, sock, toServer, toClient>>
        /\ fresh' = (fresh /\ s # sock) /\ s \in 1 .. sock /\ (s < sock \/ ~link)
    BY <1>13 DEF ServerNotices, frontend, network
  <2>2. s = sock => ~link BY <1>1, <2>1
  <2> QED BY <1>1, <1>12, <2>1, <2>2
<1>14. ASSUME NEW s \in Sockets, CloseTimeout(s) PROVE Negotiation'
  BY <1>12, <1>14 DEF CloseTimeout, frontend, network
<1>15. CASE PayloadStep
  <2>1. UNCHANGED <<sock, channel, link, fresh>> BY <1>15 DEF PayloadStep, ends
  <2>2. Upwards'
    <3>1. CASE UNCHANGED toServer BY <2>1, <3>1 DEF Upwards
    <3>2. CASE Takes(toServer)
      <4>1. toServer[1] \notin {Initial, Reconnect} BY <3>2, PacketForm DEF Takes
      <4>2. ~fresh BY <3>2, <4>1 DEF Upwards, Takes
      <4> QED BY <2>1, <3>2, <4>2, UpTaken DEF Takes
    <3>3. CASE Sends(toServer) BY <2>1, <3>3, UpJoined DEF Sends
    <3> QED BY <1>15, <3>1, <3>2, <3>3 DEF PayloadStep
  <2>3. Downwards'
    <3>1. CASE UNCHANGED toClient BY <2>1, <3>1 DEF Downwards
    <3>2. CASE Takes(toClient)
      <4>1. ~fresh BY <3>2 DEF Downwards, Takes
      <4> QED BY <2>1, <3>2, <4>1, DownTaken DEF Takes
    <3>3. CASE ~fresh /\ Sends(toClient) BY <2>1, <3>3, DownJoined DEF Sends
    <3> QED BY <1>15, <3>1, <3>2, <3>3 DEF PayloadStep
  <2> QED BY <2>2, <2>3
<1>16. CASE UNCHANGED transport
  BY <1>12, <1>16 DEF transport, frontend, network, backend
<1> QED
  BY <1>2, <1>4, <1>5, <1>6, <1>7, <1>8, <1>9, <1>10, <1>11, <1>13, <1>14, <1>15, <1>16
  DEF Negotiates

\* An answer to the negotiation is still the first message after it.
LEMMA HeadStays ==
    ASSUME Negotiation, PayloadStep, NEW x, x \notin Packet
    PROVE  (toClient' # <<>> /\ toClient'[1] = x) <=> (toClient # <<>> /\ toClient[1] = x)
<1> DEFINE S == {Initial, Known(TRUE), Known(FALSE)} \cup Packet
<1>1. toClient \in Seq(S) BY DEF Negotiation, Downwards
<1> HIDE DEF S
<1>2. CASE UNCHANGED toClient BY <1>2
<1>3. CASE Takes(toClient)
  <2>1. toClient' = Tail(toClient) /\ toClient # <<>> /\ toClient[1] \in Packet
    BY <1>3 DEF Takes
  <2>2. toClient' # <<>> => toClient'[1] \in Packet BY <2>1, NothingKnown
  <2> QED BY <2>1, <2>2
<1>4. CASE Sends(toClient)
  <2>1. PICK t \in Seq(Packet) : toClient' = toClient \o t BY <1>4 DEF Sends
  <2>2. t \in Seq(S) BY SeqMonotonic DEF S
  <2>3. /\ toClient' \in Seq(S)
        /\ \A i \in DOMAIN toClient' :
              \/ i \in DOMAIN toClient /\ toClient'[i] = toClient[i]
              \/ i - Len(toClient) \in DOMAIN t /\ toClient'[i] = t[i - Len(toClient)]
        /\ \A i \in DOMAIN toClient : i \in DOMAIN toClient' /\ toClient'[i] = toClient[i]
    BY <1>1, <2>1, <2>2, Joined
  <2>4. \A k \in DOMAIN t : t[k] \in Packet BY Places
  <2>5. ASSUME toClient' # <<>>, toClient'[1] = x PROVE toClient # <<>> /\ toClient[1] = x
    <3>1. 1 \in DOMAIN toClient' BY <2>3, <2>5, Places
    <3>2. 1 \in DOMAIN toClient /\ toClient'[1] = toClient[1] BY <2>3, <2>4, <2>5, <3>1
    <3> QED BY <1>1, <2>5, <3>2, Places
  <2>6. ASSUME toClient # <<>>, toClient[1] = x PROVE toClient' # <<>> /\ toClient'[1] = x
    <3>1. 1 \in DOMAIN toClient BY <1>1, <2>6, Places
    <3>2. 1 \in DOMAIN toClient' /\ toClient'[1] = toClient[1] BY <2>3, <3>1
    <3> QED BY <2>3, <2>6, <3>2, Places
  <2> QED BY <2>5, <2>6
<1> QED BY <1>2, <1>3, <1>4 DEF PayloadStep
-----------------------------------------------------------------------------
(* Channels and front ends. *)

Bookkeeping == <<gone, owner, attached, connection, watch, closing>>

\* The channel a socket was watched for and its front end.
LEMMA Watched ==
    ASSUME Budget, Channels, NEW s \in Sockets, watch[s] # Absent
    PROVE  /\ watch[s] \in Sockets /\ owner[watch[s]] \in Sockets /\ s <= sock
           /\ owner[watch[s]] # Absent
<1>1. /\ sock \in Nat /\ load \in Nat \ {0} /\ load \in Sockets /\ Sockets \subseteq Nat \ {0}
  BY InSockets, Constants
<1>2. watch[s] \in 1 .. sock BY <1>1 DEF Channels, ChannelTypes, Absent
<1>3. watch[s] \in Sockets BY <1>2, InSockets
<1>4. owner[watch[s]] \in 1 .. load /\ s <= sock
  BY <1>1, <1>3 DEF Channels, ChannelTypes, ChannelLinks, Absent
<1>5. 1 .. load \subseteq Sockets BY <1>1, Constants
<1> QED BY <1>1, <1>3, <1>4, <1>5 DEF Absent

\* The channels of the server keep to the sockets and the page loads they were made for.
LEMMA ChannelsStep ==
    ASSUME Budget, Budget', Negotiation, Channels, Latest,
           Negotiates \/ PayloadStep \/ UNCHANGED transport
    PROVE  Channels'
<1> USE DEF Channels
<1>1. /\ sock \in Nat /\ sock' \in Nat /\ load \in Nat \ {0} /\ load' \in Nat \ {0}
      /\ load \in Sockets /\ Sockets \subseteq Nat \ {0}
  BY InSockets, Constants DEF Budget, Counts
<1>2. ASSUME UNCHANGED Bookkeeping, sock' >= sock, load' >= load,
             link' => link \/ sock' > sock, link' => sock' = sock \/ sock' > sock
      PROVE  Channels'
  <2>1. UNCHANGED <<gone, owner, attached, connection, watch, timers, handle, overtaken, orphaned>>
    BY <1>2 DEF Bookkeeping, closing
  <2>2. 1 .. sock \subseteq 1 .. sock' /\ 0 .. sock \subseteq 0 .. sock'
        /\ 0 .. load \subseteq 0 .. load'
    BY <1>1, <1>2
  <2>3. ChannelTypes' BY <2>1, <2>2 DEF ChannelTypes
  <2>4. link' => sock' \notin gone'
    <3>1. CASE sock' = sock BY <1>1, <1>2, <2>1, <3>1 DEF ChannelLinks
    <3>2. CASE sock' > sock
      <4>1. sock' \notin 1 .. sock BY <1>1, <3>2
      <4> QED BY <2>1, <4>1 DEF ChannelTypes
    <3> QED BY <1>2, <3>1, <3>2
  <2>5. /\ \A e \in Sockets : owner[e] # Absent => e <= sock'
        /\ \A s \in Sockets : watch[s] # Absent => s <= sock' /\ owner[watch[s]] # Absent
    BY <1>1, <1>2 DEF ChannelLinks
  <2>6. ChannelLinks' BY <2>1, <2>4, <2>5 DEF ChannelLinks
  <2> QED BY <2>3, <2>6
<1>3. CASE SocketConnect
  <2>1. UNCHANGED Bookkeeping /\ sock' = sock + 1 /\ load' = load
    BY <1>3 DEF SocketConnect, Bookkeeping, channels
  <2> QED BY <1>1, <1>2, <2>1
<1>4. ASSUME SocketBreaks \/ ClientNotices \/ ConnectNewChannel(ToOpen) \/ ReconnectAccepted
             \/ (\E reload \in BOOLEAN : ReconnectRefused(reload))
      PROVE  Channels'
  <2>1. UNCHANGED Bookkeeping
    <3>1. UNCHANGED backend
      BY <1>4 DEF SocketBreaks, ClientNotices, ConnectNewChannel, ReconnectAccepted,
                  ReconnectRefused
    <3> QED BY <3>1 DEF backend, channels, Bookkeeping
  <2>2. sock' = sock
    BY <1>4 DEF SocketBreaks, ClientNotices, ConnectNewChannel, ReconnectAccepted,
                ReconnectRefused, frontend
  <2>3. load' = load \/ load' = load + 1
    <3>1. ASSUME NEW reload \in BOOLEAN, ReconnectRefused(reload)
          PROVE  load' = load \/ load' = load + 1
      BY <3>1 DEF ReconnectRefused
    <3>2. CASE SocketBreaks BY <3>2 DEF SocketBreaks, frontend
    <3>3. CASE ClientNotices BY <3>3 DEF ClientNotices
    <3>4. CASE ConnectNewChannel(ToOpen) BY <3>4 DEF ConnectNewChannel
    <3>5. CASE ReconnectAccepted BY <3>5 DEF ReconnectAccepted
    <3> QED BY <1>4, <3>1, <3>2, <3>3, <3>4, <3>5
  <2>4. link' => link
    BY <1>4 DEF SocketBreaks, ClientNotices, ConnectNewChannel, ReconnectAccepted,
                ReconnectRefused, network
  <2> QED BY <1>1, <1>2, <2>1, <2>2, <2>3, <2>4
<1>5. CASE InitialConnect
  <2>1. /\ toServer # <<>> /\ fresh /\ UNCHANGED <<load, sock, link, gone, orphaned>>
        /\ owner' = [owner EXCEPT ![sock] = load]
        /\ attached' = [attached EXCEPT ![sock] = sock]
        /\ connection' = [connection EXCEPT ![load] = sock]
        /\ watch' = [watch EXCEPT ![sock] = sock]
        /\ timers' \subseteq timers /\ overtaken' = (overtaken \/ HalfOpen)
        /\ handle' = handle \/ handle' = [handle EXCEPT ![load] = Absent]
    BY <1>5 DEF InitialConnect, frontend, Cleared
  <2>2. sock \in Sockets /\ sock \in 1 .. sock /\ sock >= 1
    BY <1>1, <2>1, InSockets DEF Negotiation, Downwards
  <2>3. owner[sock] = Absent /\ watch[sock] = Absent BY <2>1 DEF Latest
  <2>4. ChannelTypes'
    <3>1. overtaken' \in BOOLEAN /\ orphaned' \in BOOLEAN
      BY <2>1, Zenon DEF ChannelTypes, HalfOpen
    <3>2. sock \in 0 .. sock /\ 0 \in 0 .. sock /\ load \in 0 .. load BY <1>1
    <3>3. owner' \in [Sockets -> 0 .. load] BY <2>1, <3>2 DEF ChannelTypes
    <3>4. attached' \in [Sockets -> 0 .. sock] BY <2>1, <3>2 DEF ChannelTypes
    <3>5. connection' \in [Sockets -> 0 .. sock] BY <2>1, <3>2 DEF ChannelTypes
    <3>6. watch' \in [Sockets -> 0 .. sock] BY <2>1, <3>2 DEF ChannelTypes
    <3>7. handle' \in [Sockets -> 0 .. sock] BY <2>1, <3>2 DEF ChannelTypes, Absent
    <3> QED BY <2>1, <3>1, <3>3, <3>4, <3>5, <3>6, <3>7 DEF ChannelTypes
  <2>5. ChannelLinks'
    <3>1. /\ owner'[sock] = load /\ \A e \in Sockets \ {sock} : owner'[e] = owner[e]
          /\ attached'[sock] = sock /\ \A e \in Sockets \ {sock} : attached'[e] = attached[e]
          /\ watch'[sock] = sock /\ \A s \in Sockets \ {sock} : watch'[s] = watch[s]
          /\ connection'[load] = sock
          /\ \A i \in Sockets \ {load} : connection'[i] = connection[i]
      BY <1>1, <2>1, <2>2 DEF ChannelTypes
    <3>2. /\ \A x \in Nat : x # Absent /\ x <= sock => x \in Sockets
          /\ \A e \in Sockets : attached[e] \in Nat /\ attached[e] <= sock
          /\ \A e \in Sockets : connection[e] \in Nat /\ connection[e] <= sock
          /\ \A e \in Sockets : watch[e] \in Nat /\ watch[e] <= sock
          /\ Absent \notin Sockets /\ load # Absent
      <4>1. \A x \in Nat : x # Absent /\ x <= sock => x \in 1 .. sock BY <1>1 DEF Absent
      <4>2. 1 .. sock \subseteq Sockets BY InSockets
      <4>3. /\ \A e \in Sockets : attached[e] \in 0 .. sock /\ connection[e] \in 0 .. sock
                                    /\ watch[e] \in 0 .. sock
        BY DEF ChannelTypes
      <4>4. \A x \in 0 .. sock : x \in Nat /\ x <= sock BY <1>1
      <4>5. Absent \notin Sockets /\ load # Absent BY <1>1 DEF Absent
      <4> QED BY <4>1, <4>2, <4>3, <4>4, <4>5
    <3>3. \A e \in Sockets : owner'[e] # Absent => e <= sock
      BY <1>1, <3>1 DEF ChannelLinks
    <3>4. ASSUME NEW e \in Sockets, attached'[e] # Absent PROVE watch'[attached'[e]] = e
      <4>1. CASE e = sock BY <3>1, <4>1
      <4>2. CASE e # sock
        <5>1. attached'[e] = attached[e] /\ attached[e] \in Sockets BY <3>1, <3>2, <3>4, <4>2
        <5>2. watch[attached[e]] = e BY <3>4, <5>1 DEF ChannelLinks
        <5>3. attached[e] # sock BY <2>3, <3>2, <5>2
        <5> QED BY <3>1, <5>1, <5>2, <5>3
      <4> QED BY <4>1, <4>2
    <3>5. ASSUME NEW i \in Sockets, connection'[i] # Absent PROVE owner'[connection'[i]] = i
      <4>1. CASE i = load BY <3>1, <4>1
      <4>2. CASE i # load
        <5>1. connection'[i] = connection[i] /\ connection[i] \in Sockets
          BY <3>1, <3>2, <3>5, <4>2
        <5>2. owner[connection[i]] = i BY <3>5, <5>1 DEF ChannelLinks
        <5>3. connection[i] # sock BY <2>3, <3>2, <5>2
        <5> QED BY <3>1, <5>1, <5>2, <5>3
      <4> QED BY <4>1, <4>2
    <3>6. ASSUME NEW s \in Sockets, watch'[s] # Absent
          PROVE  s <= sock /\ owner'[watch'[s]] # Absent
      <4>1. CASE s = sock BY <1>1, <3>1, <3>2, <4>1
      <4>2. CASE s # sock
        <5>1. watch'[s] = watch[s] /\ watch[s] \in Sockets BY <3>1, <3>2, <3>6, <4>2
        <5>2. s <= sock /\ owner[watch[s]] # Absent BY <3>6, <5>1 DEF ChannelLinks
        <5>3. watch[s] # sock BY <2>3, <5>2
        <5> QED BY <3>1, <5>1, <5>2, <5>3
      <4> QED BY <4>1, <4>2
    <3>7. ASSUME NEW s \in timers' PROVE watch'[s] # Absent
      <4>1. s \in timers /\ watch[s] # Absent BY <2>1, <3>7 DEF ChannelLinks
      <4>2. s \in Sockets
        <5>1. s \in 1 .. sock BY <4>1 DEF ChannelTypes
        <5> QED BY <5>1, InSockets
      <4> QED BY <2>3, <3>1, <4>1, <4>2
    <3> QED BY <2>1, <3>3, <3>4, <3>5, <3>6, <3>7 DEF ChannelLinks
  <2> QED BY <2>4, <2>5
<1>6. CASE ReconnectFrontend
  <2> DEFINE e == connection[load]
  <2>1. /\ toServer # <<>> /\ fresh
        /\ UNCHANGED <<load, sock, link, gone, orphaned, owner, connection>>
        /\ overtaken' = (overtaken \/ (e # Absent /\ HalfOpen))
    BY <1>6 DEF ReconnectFrontend, frontend
  <2>2. sock \in Sockets /\ sock \in 1 .. sock /\ sock >= 1
    BY <1>1, <2>1, InSockets DEF Negotiation, Downwards
  <2>3. owner[sock] = Absent /\ watch[sock] = Absent BY <2>1 DEF Latest
  <2>4. overtaken' \in BOOLEAN /\ orphaned' \in BOOLEAN
    BY <2>1, Zenon DEF ChannelTypes, HalfOpen
  <2>5. CASE e = Absent
    <3>1. UNCHANGED <<attached, watch, timers, handle>> BY <1>6, <2>5 DEF ReconnectFrontend
    <3>2. ChannelTypes' BY <2>1, <2>4, <3>1 DEF ChannelTypes
    <3>3. ChannelLinks' BY <2>1, <3>1 DEF ChannelLinks
    <3> QED BY <3>2, <3>3
  <2>6. CASE e # Absent
    <3>1. /\ attached' = [attached EXCEPT ![e] = sock] /\ watch' = [watch EXCEPT ![sock] = e]
          /\ timers' \subseteq timers /\ handle' = [handle EXCEPT ![load] = Absent]
      BY <1>6, <2>6 DEF ReconnectFrontend, Cleared
    <3>2. e \in 0 .. sock /\ e \in Sockets /\ owner[e] = load
      <4>1. e \in 0 .. sock BY <1>1 DEF ChannelTypes
      <4>2. e \in 1 .. sock BY <1>1, <4>1, <2>6 DEF Absent
      <4> QED BY <1>1, <2>6, <4>1, <4>2, InSockets DEF ChannelLinks
    <3> HIDE DEF e
    <3>3. ChannelTypes'
      <4>1. attached' \in [Sockets -> 0 .. sock] /\ watch' \in [Sockets -> 0 .. sock]
            /\ handle' \in [Sockets -> 0 .. sock]
        BY <1>1, <2>2, <3>1, <3>2 DEF ChannelTypes, Absent
      <4> QED BY <2>1, <2>4, <3>1, <4>1 DEF ChannelTypes
    <3>4. ChannelLinks'
      <4>1. \A f \in Sockets : attached'[f] # Absent => watch'[attached'[f]] = f
        BY <1>1, <2>2, <2>3, <3>1, <3>2 DEF ChannelTypes, ChannelLinks, Absent
      <4>2. \A s \in Sockets : watch'[s] # Absent => s <= sock /\ owner[watch'[s]] # Absent
        BY <1>1, <2>2, <2>3, <3>1, <3>2 DEF ChannelTypes, ChannelLinks, Absent
      <4>3. \A s \in timers' : watch'[s] # Absent
        BY <1>1, <2>2, <2>6, <3>1, <3>2 DEF ChannelTypes, ChannelLinks, Absent
      <4> QED BY <2>1, <4>1, <4>2, <4>3 DEF ChannelLinks
    <3> QED BY <3>3, <3>4
  <2> QED BY <2>5, <2>6
<1>7. CASE NegotiationIgnored
  <2>1. UNCHANGED Bookkeeping /\ UNCHANGED <<sock, load, link>>
    BY <1>7 DEF NegotiationIgnored, Bookkeeping, frontend, backend, channels
  <2> QED BY <1>1, <1>2, <2>1
<1>8. CASE PayloadStep
  <2>1. UNCHANGED Bookkeeping /\ UNCHANGED <<sock, load, link>>
    BY <1>8 DEF PayloadStep, ends, Bookkeeping
  <2> QED BY <1>1, <1>2, <2>1
<1>9. CASE UNCHANGED transport
  <2>1. UNCHANGED Bookkeeping /\ UNCHANGED <<sock, load, link>>
    BY <1>9 DEF transport, Bookkeeping, frontend, network, backend, channels
  <2> QED BY <1>1, <1>2, <2>1
<1>10. ASSUME UNCHANGED <<owner, watch, sock, load, link, overtaken>>,
              \/ gone' = gone
              \/ \E s \in (1 .. sock) \ gone : gone' = gone \cup {s} /\ (s < sock \/ ~link),
              timers' \subseteq gone', \A s \in timers' : watch[s] # Absent,
              attached' = attached
                 \/ \E e \in Sockets : attached' = [attached EXCEPT ![e] = Absent],
              connection' = connection
                 \/ \E i \in Sockets : connection' = [connection EXCEPT ![i] = Absent],
              handle' \in [Sockets -> 0 .. sock], orphaned' \in BOOLEAN
       PROVE  Channels'
  <2>1. gone' \subseteq 1 .. sock /\ (link => sock \notin gone')
    <3>1. CASE gone' = gone BY <3>1 DEF ChannelTypes, ChannelLinks
    <3>2. ASSUME NEW s \in (1 .. sock) \ gone, gone' = gone \cup {s}, s < sock \/ ~link
          PROVE  gone' \subseteq 1 .. sock /\ (link => sock \notin gone')
      <4>1. s = sock => ~link BY <1>1, <3>2
      <4> QED BY <3>2, <4>1 DEF ChannelTypes, ChannelLinks
    <3> QED BY <1>10, <3>1, <3>2
  <2>2. 0 \in 0 .. sock BY <1>1
  <2>3. /\ attached' \in [Sockets -> 0 .. sock]
        /\ \A e \in Sockets : attached'[e] # Absent => attached'[e] = attached[e]
    BY <1>10, <2>2 DEF ChannelTypes, Absent
  <2>4. /\ connection' \in [Sockets -> 0 .. sock]
        /\ \A i \in Sockets : connection'[i] # Absent => connection'[i] = connection[i]
    BY <1>10, <2>2 DEF ChannelTypes, Absent
  <2>5. ChannelTypes' BY <1>10, <2>1, <2>3, <2>4 DEF ChannelTypes
  <2>6. ChannelLinks' BY <1>10, <2>1, <2>3, <2>4 DEF ChannelLinks
  <2> QED BY <2>5, <2>6
<1>11. ASSUME NEW s \in Sockets, watch[s] # Absent
       PROVE  watch[s] \in Sockets /\ owner[watch[s]] \in Sockets
  BY <1>11, Watched
<1>12. ASSUME NEW i \in Sockets, Closed(i)
       PROVE  /\ connection' = [connection EXCEPT ![i] = Absent]
              /\ handle' \in [Sockets -> 0 .. sock] /\ orphaned' \in BOOLEAN
  <2>1. orphaned' \in BOOLEAN BY <1>12, Zenon DEF Closed
  <2>2. 0 \in 0 .. sock BY <1>1
  <2>3. handle' \in [Sockets -> 0 .. sock] BY <1>12, <2>2 DEF Closed, ChannelTypes, Absent
  <2> QED BY <1>12, <2>1, <2>3 DEF Closed
<1>13. ASSUME NEW s \in Sockets, NEW marked \in BOOLEAN, ServerNotices(s, marked)
       PROVE  Channels'
  <2> DEFINE e == watch[s]
             i == owner[e]
  <2>1. /\ s \in (1 .. sock) \ gone /\ (s < sock \/ ~link) /\ gone' = gone \cup {s}
        /\ UNCHANGED <<owner, watch, sock, load, link>>
    BY <1>13 DEF ServerNotices, frontend, network
  <2>2. CASE e = Absent
    <3>1. UNCHANGED <<attached, connection, timers, handle, overtaken, orphaned>>
      BY <1>13, <2>2 DEF ServerNotices, closing
    <3> QED BY <1>10, <2>1, <3>1 DEF ChannelTypes, ChannelLinks
  <2>3. CASE e # Absent
    <3>1. e \in Sockets /\ i \in Sockets BY <1>11, <2>3
    <3>2. attached' = [attached EXCEPT ![e] = Absent] /\ overtaken' = overtaken
      BY <1>13, <2>3 DEF ServerNotices
    <3>3. \/ timers' = Cleared(i) /\ Closed(i)
          \/ /\ UNCHANGED <<connection, orphaned>>
             /\ \/ timers' = timers \cup {s} /\ handle' = [handle EXCEPT ![i] = s]
                \/ UNCHANGED <<timers, handle>>
      BY <1>13, <2>3 DEF ServerNotices
    <3>4. timers' \subseteq timers \cup {s} BY <3>3 DEF Cleared
    <3>5. timers' \subseteq gone' /\ \A t \in timers' : watch[t] # Absent
      BY <2>1, <2>3, <3>4 DEF ChannelTypes, ChannelLinks
    <3>6. /\ handle' \in [Sockets -> 0 .. sock] /\ orphaned' \in BOOLEAN
          /\ connection' = connection \/ connection' = [connection EXCEPT ![i] = Absent]
      <4>1. CASE Closed(i) BY <1>12, <3>1, <4>1
      <4>2. CASE UNCHANGED <<connection, orphaned>> /\ handle' = [handle EXCEPT ![i] = s]
        <5>1. s \in 0 .. sock BY <1>1, <2>1
        <5> HIDE DEF i
        <5> QED BY <3>1, <4>2, <5>1 DEF ChannelTypes
      <4>3. CASE UNCHANGED <<connection, orphaned, handle>> BY <4>3 DEF ChannelTypes
      <4> QED BY <3>3, <4>1, <4>2, <4>3
    <3> HIDE DEF e, i
    <3> QED BY <1>10, <2>1, <3>1, <3>2, <3>5, <3>6
  <2> QED BY <2>2, <2>3
<1>14. ASSUME NEW s \in Sockets, CloseTimeout(s) PROVE Channels'
  <2> DEFINE i == owner[watch[s]]
  <2>1. /\ s \in timers /\ timers' = Cleared(i) \ {s} /\ Closed(i)
        /\ UNCHANGED <<owner, watch, sock, load, link, gone, attached, overtaken>>
    BY <1>14 DEF CloseTimeout, frontend, network
  <2>2. i \in Sockets BY <1>11, <2>1 DEF ChannelLinks
  <2> HIDE DEF i
  <2>3. /\ connection' = [connection EXCEPT ![i] = Absent]
        /\ handle' \in [Sockets -> 0 .. sock] /\ orphaned' \in BOOLEAN
    BY <1>12, <2>1, <2>2
  <2>4. timers' \subseteq timers BY <2>1 DEF Cleared
  <2> QED BY <1>10, <2>1, <2>2, <2>3, <2>4 DEF ChannelTypes, ChannelLinks
<1> QED BY <1>3, <1>4, <1>5, <1>6, <1>7, <1>8, <1>9, <1>13, <1>14 DEF Negotiates

\* What the server answers to a renewed connection.
LEMMA Renewed ==
    ASSUME Budget, Negotiation, Channels, Buffers, ReconnectFrontend
    PROVE  /\ toClient' # <<>>
           /\ toClient'[1] = IF connection[load] = Absent THEN Known(FALSE) ELSE Known(TRUE)
<1>1. toClient = <<>>
  BY DEF Negotiation, Downwards, ReconnectFrontend
<1>2. CASE connection[load] = Absent
  <2>1. toClient' = Append(toClient, Known(FALSE)) BY <1>2 DEF ReconnectFrontend
  <2>2. PICK k : k = Known(FALSE) BY Zenon
  <2>3. toClient' = <<k>> BY <1>1, <2>1, <2>2
  <2> QED BY <1>2, <2>2, <2>3
<1>3. CASE connection[load] # Absent
  <2>1. toClient' = Append(toClient, Known(TRUE)) \o Flush(buffer[connection[load]])
    BY <1>3 DEF ReconnectFrontend
  <2>2. connection[load] \in Sockets
    <3>1. connection[load] \in 0 .. sock BY InSockets DEF Channels, ChannelTypes
    <3>2. connection[load] \in 1 .. sock BY <1>3, <3>1, InSockets DEF Absent
    <3> QED BY <3>2, InSockets
  <2>3. PICK t \in Seq(Packet) : t = Flush(buffer[connection[load]])
    BY <2>2, FlushForm DEF Buffers
  <2>4. PICK k : k = Known(TRUE) OBVIOUS
  <2>5. toClient' = <<k>> \o t BY <1>1, <2>1, <2>3, <2>4
  <2>6. <<k>> \in Seq({k} \cup Packet) /\ t \in Seq({k} \cup Packet) BY SeqMonotonic
  <2>7. \A i \in DOMAIN <<k>> : i \in DOMAIN toClient' /\ toClient'[i] = <<k>>[i]
    BY <2>5, <2>6, Joined
  <2>8. 1 \in DOMAIN toClient' /\ toClient'[1] = k BY <2>7
  <2>9. toClient' \in Seq({k} \cup Packet) BY <2>5, <2>6, Joined
  <2> QED BY <1>3, <2>4, <2>8, <2>9, Places
<1> QED BY <1>2, <1>3

\* The front end and the server go on agreeing about the newest socket.
LEMMA LatestStep ==
    ASSUME Budget, Negotiation, Channels, Latest, Buffers,
           Negotiates \/ PayloadStep \/ UNCHANGED transport
    PROVE  Latest'
<1> DEFINE Refusal == toClient # <<>> /\ toClient[1] = Known(FALSE)
           Welcome == toClient # <<>> /\ toClient[1] = Initial
<1>1. /\ sock \in Nat /\ load \in Sockets /\ (sock >= 1 => sock \in Sockets)
      /\ connected => sock >= 1
      /\ link => connected
  BY InSockets DEF Budget, Linked
<1>2. ASSUME UNCHANGED <<sock, load, owner, watch>>, fresh' => fresh,
             connection'[load] \in {connection[load], Absent},
             connected' => connected, Welcome' => Welcome, Refusal' => Refusal,
             link' /\ ~fresh' /\ ~Refusal' => link /\ ~fresh /\ ~Refusal
      PROVE  Latest'
  <2> HIDE DEF Refusal, Welcome
  <2>1. /\ fresh' => owner[sock] = Absent /\ watch[sock] = Absent
        /\ connected' /\ watch[sock] # Absent => owner[watch[sock]] = load
    BY <1>2 DEF Latest
  <2>2. sock >= 1 /\ watch[sock] # Absent => connection'[load] \in {Absent, watch[sock]}
    BY <1>2 DEF Latest
  <2>3. link' /\ ~fresh' /\ ~Refusal' => watch[sock] # Absent
    BY <1>2 DEF Latest, Refusal
  <2>4. Refusal' => watch[sock] = Absent /\ connection'[load] = Absent
    BY <1>2 DEF Latest, Refusal
  <2>5. Welcome' => watch[sock] = sock
    BY <1>2 DEF Latest, Welcome
  <2> QED BY <1>2, <2>1, <2>2, <2>3, <2>4, <2>5 DEF Latest, Refusal, Welcome
<1>3. CASE SocketConnect
  <2>1. /\ sock' = sock + 1 /\ load' = load /\ fresh' = TRUE /\ toClient' = <<>>
        /\ UNCHANGED <<owner, watch, connection>>
    BY <1>3 DEF SocketConnect, channels
  <2>2. sock' \in Sockets /\ sock' \in Nat \ {0}
    <3>1. ~connected BY <1>3 DEF SocketConnect
    <3>2. drops \in 0 .. MaxDrops /\ sock + 1 <= 1 + 2 * drops
      BY <3>1 DEF Budget, Counts, Spent
    <3> QED BY <1>1, <2>1, <3>2, Constants
  <2>3. ~(sock' <= sock) BY <1>1, <2>1
  <2>4. owner'[sock'] = Absent /\ watch'[sock'] = Absent
    BY <2>1, <2>2, <2>3 DEF Channels, ChannelLinks
  <2> QED BY <2>1, <2>4 DEF Latest
<1>4. CASE SocketBreaks
  <2>1. /\ UNCHANGED <<sock, load, owner, watch, fresh, connection, connected>>
        /\ link' = FALSE /\ toClient' = <<>>
    BY <1>4 DEF SocketBreaks, frontend, backend, channels
  <2> QED BY <1>2, <2>1
<1>5. CASE ClientNotices
  <2>1. /\ UNCHANGED <<sock, load, owner, watch, fresh, connection, link, toClient>>
        /\ connected' = FALSE
    BY <1>5 DEF ClientNotices, network, backend, channels
  <2> QED BY <1>2, <2>1
<1>6. ASSUME toClient # <<>>, toClient[1] # Known(FALSE), toClient' = Tail(toClient),
             UNCHANGED <<sock, load, owner, watch, fresh, connection, link, connected>>
      PROVE  Latest'
  <2>1. toClient' # <<>> => toClient'[1] \in Packet BY <1>6, NothingKnown
  <2>2. ~Refusal' /\ ~Welcome' BY <2>1, PacketForm
  <2> QED BY <1>2, <1>6, <2>2
<1>7. CASE ConnectNewChannel(ToOpen)
  <2>1. /\ toClient # <<>> /\ toClient[1] = Initial /\ toClient' = Tail(toClient)
        /\ UNCHANGED <<sock, load, owner, watch, fresh, connection, link, connected>>
    BY <1>7, Heads DEF ConnectNewChannel, backend, channels
  <2> QED BY <1>6, <2>1, PacketForm
<1>8. CASE ReconnectAccepted
  <2>1. /\ toClient # <<>> /\ toClient[1] = Known(TRUE) /\ toClient' = Tail(toClient)
        /\ UNCHANGED <<sock, load, owner, watch, fresh, connection, link, connected>>
    BY <1>8, Heads DEF ReconnectAccepted, backend, channels
  <2> QED BY <1>6, <2>1, PacketForm
<1>9. ASSUME NEW reload \in BOOLEAN, ReconnectRefused(reload) PROVE Latest'
  <2>1. /\ toClient # <<>> /\ toClient[1] = Known(FALSE) /\ toClient' = <<>>
        /\ connected' = FALSE /\ link' = FALSE
        /\ UNCHANGED <<sock, owner, watch, fresh, connection>>
    <3>1. toClient # <<>> /\ FromServer = Known(FALSE) BY <1>9 DEF ReconnectRefused
    <3>2. /\ toClient' = <<>> /\ connected' = FALSE /\ link' = FALSE
          /\ UNCHANGED <<sock, owner, watch, fresh, connection>>
      BY <1>9 DEF ReconnectRefused, backend, channels
    <3>3. FromServer = toClient[1] BY <3>1, Heads
    <3> QED BY <3>1, <3>2, <3>3
  <2>2. ~fresh /\ watch[sock] = Absent BY <2>1 DEF Latest, Negotiation, Downwards
  <2> QED BY <2>1, <2>2 DEF Latest
<1>10. CASE InitialConnect
  <2>1. /\ toServer # <<>> /\ fresh /\ fresh' = FALSE
        /\ UNCHANGED <<sock, load, link, connected>>
        /\ owner' = [owner EXCEPT ![sock] = load] /\ watch' = [watch EXCEPT ![sock] = sock]
        /\ connection' = [connection EXCEPT ![load] = sock]
        /\ toClient' = Append(toClient, Initial)
    BY <1>10 DEF InitialConnect, frontend
  <2>2. sock \in Sockets /\ sock # Absent
    BY <1>1, <2>1, Constants DEF Negotiation, Downwards, Absent
  <2>3. /\ owner'[sock] = load /\ watch'[sock] = sock /\ connection'[load] = sock
    BY <1>1, <2>1, <2>2 DEF Channels, ChannelTypes
  <2>4. toClient' = <<Initial>> BY <2>1 DEF Negotiation, Downwards
  <2>5. toClient'[1] = Initial BY <2>4
  <2> QED BY <2>1, <2>2, <2>3, <2>5, PacketForm DEF Latest
<1>11. CASE ReconnectFrontend
  <2> DEFINE e == connection[load]
  <2>1. /\ fresh /\ fresh' = FALSE
        /\ UNCHANGED <<sock, load, link, connected, owner, connection>>
    BY <1>11 DEF ReconnectFrontend, frontend
  <2>2. sock \in Sockets BY <1>1, <2>1 DEF Negotiation, Downwards
  <2>3. watch[sock] = Absent BY <2>1 DEF Latest
  <2>4. CASE e = Absent
    <3>1. watch' = watch /\ toClient'[1] = Known(FALSE) /\ toClient' # <<>>
      BY <1>11, <2>4, Renewed DEF ReconnectFrontend
    <3> QED BY <2>1, <2>3, <2>4, <3>1, PacketForm DEF Latest
  <2>5. CASE e # Absent
    <3>1. watch' = [watch EXCEPT ![sock] = e] /\ toClient'[1] = Known(TRUE) /\ toClient' # <<>>
      BY <1>11, <2>5, Renewed DEF ReconnectFrontend
    <3>2. watch'[sock] = e BY <2>2, <3>1 DEF Channels, ChannelTypes
    <3>3. owner[e] = load BY <1>1, <2>5 DEF Channels, ChannelLinks
    <3> HIDE DEF e
    <3>4. connection'[load] = e BY <2>1 DEF e
    <3> QED BY <2>1, <2>5, <3>1, <3>2, <3>3, <3>4, PacketForm DEF Latest
  <2> QED BY <2>4, <2>5
<1>12. CASE NegotiationIgnored
  <2>1. UNCHANGED <<sock, load, owner, watch, fresh, connection, link, connected, toClient>>
    BY <1>12 DEF NegotiationIgnored, frontend, backend, channels
  <2> QED BY <1>2, <2>1
<1>13. ASSUME NEW i, connection' = [connection EXCEPT ![i] = Absent]
       PROVE  connection'[load] \in {connection[load], Absent}
  BY <1>1, <1>13 DEF Channels, ChannelTypes
<1>14. ASSUME NEW s \in Sockets, NEW marked \in BOOLEAN, ServerNotices(s, marked)
       PROVE  Latest'
  <2>1. /\ UNCHANGED <<sock, load, owner, watch, link, connected, toClient>>
        /\ fresh' = (fresh /\ s # sock) /\ s \in 1 .. sock /\ (s < sock \/ ~link)
    BY <1>14 DEF ServerNotices, frontend, network
  <2>2. connection' = connection
        \/ connection' = [connection EXCEPT ![owner[watch[s]]] = Absent]
    BY <1>14 DEF ServerNotices, Closed
  <2>3. connection'[load] \in {connection[load], Absent} BY <1>13, <2>2
  <2>4. s = sock => ~link BY <1>1, <2>1
  <2>5. link' /\ ~fresh' => link /\ ~fresh BY <2>1, <2>4, Zenon
  <2>6. fresh' => fresh BY <2>1, Zenon
  <2>7. (Refusal' <=> Refusal) /\ (Welcome' <=> Welcome) /\ connected' = connected BY <2>1
  <2> HIDE DEF Refusal, Welcome
  <2> QED BY <1>2, <2>1, <2>3, <2>5, <2>6, <2>7
<1>15. ASSUME NEW s \in Sockets, CloseTimeout(s) PROVE Latest'
  <2>1. UNCHANGED <<sock, load, owner, watch, link, connected, toClient, fresh>>
    BY <1>15 DEF CloseTimeout, frontend, network
  <2>2. connection' = [connection EXCEPT ![owner[watch[s]]] = Absent]
    BY <1>15 DEF CloseTimeout, Closed
  <2>3. connection'[load] \in {connection[load], Absent} BY <1>13, <2>2
  <2>7. (Refusal' <=> Refusal) /\ (Welcome' <=> Welcome) BY <2>1
  <2> HIDE DEF Refusal, Welcome
  <2> QED BY <1>2, <2>1, <2>3, <2>7
<1>16. CASE PayloadStep
  <2>1. UNCHANGED <<sock, load, owner, watch, link, connected, fresh, connection>>
    BY <1>16 DEF PayloadStep, ends
  <2>2. Known(FALSE) \notin Packet /\ Initial \notin Packet BY PacketForm
  <2>3. (Refusal' <=> Refusal) /\ (Welcome' <=> Welcome) BY <1>16, <2>2, HeadStays
  <2> HIDE DEF Refusal, Welcome
  <2> QED BY <1>2, <2>1, <2>3
<1>17. CASE UNCHANGED transport
  <2>1. UNCHANGED <<sock, load, owner, watch, link, connected, fresh, connection, toClient>>
    BY <1>17 DEF transport, frontend, network, backend, channels
  <2> QED BY <1>2, <2>1
<1> QED
  BY <1>3, <1>4, <1>5, <1>7, <1>8, <1>9, <1>10, <1>11, <1>12, <1>14, <1>15, <1>16, <1>17
  DEF Negotiates

\* A channel with a socket is not about to be closed, and the timers are current.
LEMMA ServingStep ==
    ASSUME Budget, Budget', Negotiation, Channels, Latest, Serving, TimersAreCurrent,
           Negotiates \/ PayloadStep \/ UNCHANGED transport
    PROVE  Serving' /\ TimersAreCurrent'
<1> DEFINE I(s) == owner[watch[s]]
           Served(s) == /\ connection[I(s)] = watch[s] /\ attached[watch[s]] = s
                        /\ \A t \in timers : I(t) # I(s)
           Timed(s) == /\ handle[I(s)] = s /\ connection[I(s)] # Absent
                       /\ attached[connection[I(s)]] = Absent
<1>1. /\ sock \in Nat /\ load \in Sockets /\ load # Absent /\ (sock >= 1 => sock \in Sockets)
      /\ 1 .. sock \subseteq Sockets /\ Sockets \subseteq Nat \ {0}
      /\ timers \subseteq gone /\ gone \subseteq 1 .. sock
  <2>1. timers \subseteq gone /\ gone \subseteq 1 .. sock BY DEF Channels, ChannelTypes
  <2>2. Sockets \subseteq Nat \ {0} BY Constants
  <2> QED BY <2>1, <2>2, InSockets DEF Absent
<1>2. /\ \A s \in Sockets : watch[s] # Absent =>
              watch[s] \in Sockets /\ I(s) \in Sockets /\ I(s) # Absent
      /\ \A s \in timers : watch[s] # Absent
      /\ \A e \in Sockets : owner[e] # Absent => e <= sock
      /\ \A i \in Sockets : connection[i] # Absent =>
            owner[connection[i]] = i /\ connection[i] \in Sockets
  <2>1. ASSUME NEW i \in Sockets, connection[i] # Absent PROVE connection[i] \in Sockets
    <3>1. connection[i] \in 0 .. sock BY DEF Channels, ChannelTypes
    <3>2. connection[i] \in 1 .. sock BY <1>1, <2>1, <3>1 DEF Absent
    <3> QED BY <1>1, <3>2
  <2> QED BY <2>1, Watched DEF Channels, ChannelLinks
<1>3. ASSUME ~overtaken
      PROVE  /\ \A s \in (1 .. sock) \ gone : watch[s] # Absent => Served(s)
             /\ ~orphaned /\ \A s \in timers : Timed(s)
  BY <1>3 DEF Serving, TimersAreCurrent
<1>4. SUFFICES ASSUME ~overtaken', ~overtaken
               PROVE  /\ \A s \in (1 .. sock') \ gone' : watch'[s] # Absent => Served(s)'
                      /\ ~orphaned' /\ \A s \in timers' : Timed(s)'
  <2>1. ~overtaken' => ~overtaken
    <3>1. CASE InitialConnect BY <3>1, Zenon DEF InitialConnect
    <3>2. CASE ReconnectFrontend BY <3>2, Zenon DEF ReconnectFrontend
    <3>3. CASE overtaken' = overtaken BY <3>3
    <3>4. Negotiates => InitialConnect \/ ReconnectFrontend \/ overtaken' = overtaken
      BY DEF Negotiates, SocketConnect, SocketBreaks, ClientNotices, ConnectNewChannel,
             ReconnectAccepted, ReconnectRefused, NegotiationIgnored, ServerNotices, CloseTimeout,
             backend, closing
    <3>5. PayloadStep \/ UNCHANGED transport => overtaken' = overtaken
      BY DEF PayloadStep, ends, transport, backend, closing
    <3> QED BY <3>1, <3>2, <3>3, <3>4, <3>5
  <2> QED BY <1>4, <2>1 DEF Serving, TimersAreCurrent
<1> DEFINE Goal == /\ \A s \in (1 .. sock') \ gone' : watch'[s] # Absent => Served(s)'
                   /\ ~orphaned' /\ \A s \in timers' : Timed(s)'
<1>5. ASSUME UNCHANGED <<owner, attached, connection, watch, timers, handle, orphaned>>,
             gone \subseteq gone'
      PROVE  Goal
  <2>1. ASSUME NEW s \in (1 .. sock') \ gone', watch'[s] # Absent PROVE Served(s)'
    <3>1. s \in Sockets /\ s \in Nat \ {0}
      <4>1. drops' \in 0 .. MaxDrops /\ sock' \in Nat /\ sock' <= 1 + 2 * drops'
        BY DEF Budget, Counts, Spent
      <4>2. \A n \in Nat, d \in 0 .. MaxDrops : n <= 1 + 2 * d => 1 .. n \subseteq Sockets
        BY ONLY Constants
      <4>3. 1 .. sock' \subseteq Sockets BY <4>1, <4>2
      <4> QED BY <1>1, <4>3
    <3>2. s <= sock BY <1>5, <2>1, <3>1 DEF Channels, ChannelLinks
    <3>3. s \in (1 .. sock) \ gone /\ watch[s] # Absent BY <1>1, <1>5, <2>1, <3>1, <3>2
    <3>4. Served(s) BY <1>3, <1>4, <3>3
    <3> QED BY <1>5, <3>4
  <2>2. \A s \in timers' : Timed(s)' BY <1>3, <1>4, <1>5
  <2> QED BY <1>3, <1>4, <1>5, <2>1, <2>2
<1>6. ASSUME SocketConnect PROVE Goal
  BY <1>5, <1>6 DEF SocketConnect, channels, closing
<1>7. ASSUME \/ SocketBreaks \/ ClientNotices \/ ConnectNewChannel(ToOpen) \/ ReconnectAccepted
             \/ \E reload \in BOOLEAN : ReconnectRefused(reload)
      PROVE  Goal
  <2>1. UNCHANGED backend
    BY <1>7 DEF SocketBreaks, ClientNotices, ConnectNewChannel, ReconnectAccepted,
                ReconnectRefused
  <2> QED BY <1>5, <2>1 DEF backend, channels, closing
<1>8. ASSUME NegotiationIgnored \/ PayloadStep \/ UNCHANGED transport PROVE Goal
  BY <1>5, <1>8 DEF NegotiationIgnored, PayloadStep, transport, ends, backend, channels, closing
\* A socket takes over.
<1>9. ASSUME fresh, toServer # <<>>, UNCHANGED <<sock, load, gone, orphaned>>, ~HalfOpen,
             NEW e \in Sockets, connection'[load] = e,
             e = sock \/ (e = connection[load] /\ owner' = owner),
             owner' = owner \/ owner' = [owner EXCEPT ![sock] = load],
             owner'[e] = load,
             connection' = [connection EXCEPT ![load] = e],
             attached' = [attached EXCEPT ![e] = sock], watch' = [watch EXCEPT ![sock] = e],
             handle' = handle \/ handle' = [handle EXCEPT ![load] = Absent],
             timers' \subseteq timers,
             \A t \in timers' : connection[load] # Absent => t # handle[load]
      PROVE  Goal
  <2>1. /\ sock \in Sockets /\ sock \notin gone /\ owner[sock] = Absent /\ watch[sock] = Absent
    BY <1>1, <1>9 DEF Negotiation, Upwards, Downwards, Channels, ChannelLinks, Latest
  <2>2. /\ owner' \in [Sockets -> Nat] /\ watch'[sock] = e /\ attached'[e] = sock
        /\ \A f \in Sockets \ {sock} : owner'[f] = owner[f] /\ watch'[f] = watch[f]
        /\ \A f \in Sockets \ {e} : attached'[f] = attached[f]
        /\ \A i \in Sockets \ {load} : connection'[i] = connection[i] /\ handle'[i] = handle[i]
    <3>1. /\ owner \in [Sockets -> Nat] /\ DOMAIN watch = Sockets /\ DOMAIN attached = Sockets
          /\ DOMAIN connection = Sockets /\ DOMAIN handle = Sockets
      <4>1. 0 .. load \subseteq Nat BY <1>1
      <4> QED BY <4>1 DEF Channels, ChannelTypes
    <3>2. /\ owner' \in [Sockets -> Nat]
          /\ \A f \in Sockets \ {sock} : owner'[f] = owner[f]
      BY <1>1, <1>9, <3>1
    <3>3. watch'[sock] = e /\ \A f \in Sockets \ {sock} : watch'[f] = watch[f]
      BY <1>9, <2>1, <3>1
    <3>4. attached'[e] = sock /\ \A f \in Sockets \ {e} : attached'[f] = attached[f]
      BY <1>9, <3>1
    <3>5. \A i \in Sockets \ {load} : connection'[i] = connection[i] /\ handle'[i] = handle[i]
      BY <1>9, <3>1
    <3> QED BY <3>2, <3>3, <3>4, <3>5
  <2>3. ASSUME NEW t \in timers'
        PROVE  t \in timers /\ t # sock /\ I(t)' = I(t) /\ I(t) # load
    <3>1. t \in timers /\ t # sock /\ t \in Sockets BY <1>1, <1>9, <2>1
    <3>2. watch'[t] = watch[t] /\ watch[t] \in Sockets /\ I(t) # Absent
      BY <1>2, <2>2, <3>1
    <3>3. I(t)' = I(t) BY <2>1, <2>2, <3>2
    <3>4. Timed(t) BY <1>3, <1>4, <3>1
    <3>5. I(t) = load => FALSE BY <1>9, <3>4
    <3> QED BY <3>1, <3>3, <3>5
  <2>4. ASSUME NEW s \in (1 .. sock') \ gone', watch'[s] # Absent PROVE Served(s)'
    <3>1. CASE s = sock
      <4>1. watch'[s] = e /\ I(s)' = load BY <1>9, <2>2, <3>1
      <4> QED BY <1>9, <2>2, <2>3, <3>1, <4>1
    <3>2. CASE s # sock
      <4>1. s \in (1 .. sock - 1) \ gone /\ s \in Sockets BY <1>1, <1>9, <3>2
      <4>2. watch'[s] = watch[s] /\ watch[s] # Absent /\ watch[s] \in Sockets /\ I(s) # Absent
        BY <1>2, <2>2, <2>4, <3>2, <4>1
      <4>3. I(s) # load BY <1>9, <4>1, <4>2 DEF HalfOpen
      <4>4. Served(s)
        <5>1. s \in (1 .. sock) \ gone BY <1>1, <4>1
        <5> QED BY <1>3, <1>4, <4>2, <5>1
      <4>5. I(s)' = I(s) /\ I(s) \in Sockets BY <1>2, <2>1, <2>2, <4>1, <4>2
      <4>6. watch[s] # e
        <5>1. watch[s] # sock BY <2>1, <4>2
        <5>2. owner'[watch[s]] # load BY <4>3, <4>5, <4>2
        <5> QED BY <1>9, <5>2
      <4>7. attached'[watch[s]] = s /\ connection'[I(s)] = watch[s]
        BY <2>2, <4>2, <4>3, <4>4, <4>5, <4>6
      <4>8. \A t \in timers' : I(t)' # I(s) BY <2>3, <4>4
      <4> HIDE DEF I
      <4>9. connection'[I(s)'] = watch'[s] /\ attached'[watch'[s]] = s
        BY <4>2, <4>5, <4>7
      <4>10. \A t \in timers' : I(t)' # I(s)' BY <4>5, <4>8
      <4> QED BY <4>9, <4>10
    <3> QED BY <3>1, <3>2
  <2>5. ASSUME NEW t \in timers' PROVE Timed(t)'
    <3>1. t \in timers /\ I(t)' = I(t) /\ I(t) # load BY <2>3
    <3>2. Timed(t) /\ t \in Sockets /\ I(t) \in Sockets BY <1>1, <1>2, <1>3, <1>4, <3>1
    <3>3. handle'[I(t)] = t /\ connection'[I(t)] = connection[I(t)] BY <2>2, <3>1, <3>2
    <3>4. connection[I(t)] \in Sockets /\ owner[connection[I(t)]] = I(t) BY <1>2, <3>2
    <3>5. connection[I(t)] # e
      <4>1. I(t) # Absent BY <1>2, <3>1, <3>2
      <4>2. connection[I(t)] # sock BY <2>1, <3>4, <4>1
      <4>3. e = connection[load] => owner[e] = load
        <5>1. e # Absent BY <1>1 DEF Absent
        <5> QED BY <1>1, <1>2, <5>1
      <4> QED BY <1>9, <3>1, <3>4, <4>2, <4>3
    <3>6. attached'[connection[I(t)]] = Absent BY <2>2, <3>2, <3>4, <3>5
    <3> HIDE DEF I
    <3>7. handle'[I(t)'] = t /\ connection'[I(t)'] = connection[I(t)]
      BY <3>1, <3>3
    <3> QED BY <3>2, <3>6, <3>7
  <2> QED BY <1>3, <1>4, <1>9, <2>4, <2>5
<1>10. ASSUME InitialConnect PROVE Goal
  <2>1. /\ fresh /\ toServer # <<>> /\ UNCHANGED <<sock, load, gone, orphaned>>
        /\ owner' = [owner EXCEPT ![sock] = load]
        /\ attached' = [attached EXCEPT ![sock] = sock]
        /\ connection' = [connection EXCEPT ![load] = sock]
        /\ watch' = [watch EXCEPT ![sock] = sock]
        /\ timers' = IF connection[load] = Absent THEN timers ELSE timers \ {handle[load]}
        /\ handle' = handle \/ handle' = [handle EXCEPT ![load] = Absent]
    BY <1>10 DEF InitialConnect, frontend, Cleared
  <2>2. ~HalfOpen BY <1>4, <1>10, Zenon DEF InitialConnect
  <2>3. sock \in Sockets BY <1>1, <2>1 DEF Negotiation, Downwards
  <2>4. connection'[load] = sock /\ owner'[sock] = load
    BY <1>1, <2>1, <2>3 DEF Channels, ChannelTypes
  <2>5. timers' \subseteq timers /\ \A t \in timers' : connection[load] # Absent => t # handle[load]
    BY <2>1
  <2> HIDE DEF Goal
  <2> QED BY <1>9, <2>1, <2>2, <2>3, <2>4, <2>5
<1>11. ASSUME ReconnectFrontend PROVE Goal
  <2> DEFINE e == connection[load]
  <2>1. /\ fresh /\ toServer # <<>> /\ UNCHANGED <<sock, load, gone, orphaned, owner, connection>>
    BY <1>11 DEF ReconnectFrontend, frontend
  <2>2. CASE e = Absent
    <3>1. UNCHANGED <<attached, watch, timers, handle>> BY <1>11, <2>2 DEF ReconnectFrontend
    <3> QED BY <1>5, <2>1, <3>1
  <2>3. CASE e # Absent
    <3>1. /\ attached' = [attached EXCEPT ![e] = sock] /\ watch' = [watch EXCEPT ![sock] = e]
          /\ timers' = timers \ {handle[load]} /\ handle' = [handle EXCEPT ![load] = Absent]
      BY <1>11, <2>3 DEF ReconnectFrontend, Cleared
    <3>2. ~HalfOpen BY <1>4, <1>11, <2>3, Zenon DEF ReconnectFrontend
    <3>3. e \in Sockets /\ owner'[e] = load BY <1>1, <1>2, <2>1, <2>3
    <3>4. connection'[load] = e /\ connection' = [connection EXCEPT ![load] = e]
      BY <1>1, <2>1 DEF Channels, ChannelTypes
    <3>5. timers' \subseteq timers /\ \A t \in timers' : t # handle[load] BY <3>1
    <3>6. e = connection[load] OBVIOUS
    <3> HIDE DEF e, Goal
    <3> QED BY <1>9, <2>1, <3>1, <3>2, <3>3, <3>4, <3>5, <3>6
  <2> QED BY <2>2, <2>3
<1>12. ASSUME NEW s \in (1 .. sock) \ gone, watch[s] # Absent, UNCHANGED <<sock, owner, watch>>,
              gone' = gone \cup {s}, attached' = [attached EXCEPT ![watch[s]] = Absent],
              \/ timers' \subseteq timers /\ Closed(I(s))
              \/ /\ timers' \subseteq timers \cup {s} /\ UNCHANGED <<connection, orphaned>>
                 /\ handle' = [handle EXCEPT ![I(s)] = s]
              \/ UNCHANGED <<timers, connection, orphaned, handle>>
       PROVE  Goal
  <2> DEFINE e == watch[s]
             i == I(s)
  <2>1. s \in Sockets /\ e \in Sockets /\ i \in Sockets /\ owner[e] = i BY <1>1, <1>2, <1>12
  <2>2. connection[i] = e /\ attached[e] = s /\ \A t \in timers : I(t) # i
    BY <1>3, <1>4, <1>12
  <2>3. /\ attached'[e] = Absent
        /\ \A f \in Sockets \ {e} : attached'[f] = attached[f]
        /\ \A j \in Sockets \ {i} : connection'[j] = connection[j] /\ handle'[j] = handle[j]
    BY <1>12, <2>1 DEF Closed, Channels, ChannelTypes
  <2>4. ASSUME NEW r \in (1 .. sock') \ gone', watch'[r] # Absent PROVE Served(r)'
    <3>1. r \in (1 .. sock) \ gone /\ r # s /\ watch[r] # Absent /\ r \in Sockets
      BY <1>1, <1>12, <2>4
    <3>2. Served(r) /\ watch[r] \in Sockets /\ I(r) \in Sockets BY <1>2, <1>3, <1>4, <3>1
    <3>3. watch[r] # e /\ I(r) # i BY <2>2, <3>1, <3>2
    <3>4. connection'[I(r)] = watch[r] /\ attached'[watch[r]] = r BY <2>3, <3>2, <3>3
    <3>5. \A t \in timers' : I(t) # I(r) BY <1>12, <3>2, <3>3
    <3> QED BY <1>12, <3>4, <3>5
  <2>5. ~orphaned'
    <3>1. e # Absent BY <1>12
    <3>2. connection[i] # Absent BY <2>2, <3>1
    <3> QED BY <1>3, <1>4, <1>12, <3>2 DEF Closed
  <2>6. ASSUME NEW t \in timers' PROVE Timed(t)'
    <3>1. CASE t \in timers
      <4>1. Timed(t) /\ I(t) # i /\ t \in Sockets /\ I(t) \in Sockets
        BY <1>1, <1>2, <1>3, <1>4, <2>2, <3>1
      <4>2. handle'[I(t)] = t /\ connection'[I(t)] = connection[I(t)] BY <2>3, <4>1
      <4>3. connection[I(t)] \in Sockets BY <1>2, <4>1
      <4>4. attached'[connection[I(t)]] = Absent BY <2>3, <4>1, <4>3
      <4> QED BY <1>12, <4>1, <4>2, <4>4
    <3>2. CASE t \notin timers
      <4>1. t = s /\ UNCHANGED connection /\ handle' = [handle EXCEPT ![i] = s] BY <1>12, <2>6, <3>2
      <4>2. handle'[i] = s BY <2>1, <4>1 DEF Channels, ChannelTypes
      <4> QED BY <1>12, <2>2, <2>3, <4>1, <4>2
    <3> QED BY <3>1, <3>2
  <2> QED BY <2>4, <2>5, <2>6
<1>13. ASSUME NEW s \in Sockets, NEW marked \in BOOLEAN, ServerNotices(s, marked)
       PROVE  Goal
  <2>1. /\ s \in (1 .. sock) \ gone /\ gone' = gone \cup {s} /\ UNCHANGED <<sock, owner, watch>>
    BY <1>13 DEF ServerNotices, frontend
  <2>2. CASE watch[s] = Absent
    <3>1. UNCHANGED <<attached, connection, closing>>
      BY <1>13, <2>2 DEF ServerNotices
    <3> HIDE DEF Goal
    <3> QED BY <1>5, <2>1, <3>1 DEF closing
  <2>3. CASE watch[s] # Absent
    <3>1. attached' = [attached EXCEPT ![watch[s]] = Absent]
      BY <1>13, <2>3 DEF ServerNotices
    <3>2. \/ timers' \subseteq timers /\ Closed(I(s))
          \/ /\ timers' \subseteq timers \cup {s} /\ UNCHANGED <<connection, orphaned>>
             /\ handle' = [handle EXCEPT ![I(s)] = s]
          \/ UNCHANGED <<timers, connection, orphaned, handle>>
      BY <1>13, <2>3 DEF ServerNotices, Cleared
    <3> HIDE DEF Goal, I
    <3> QED BY <1>12, <2>1, <2>3, <3>1, <3>2
  <2> QED BY <2>2, <2>3
<1>14. ASSUME NEW s \in Sockets, CloseTimeout(s) PROVE Goal
  <2> DEFINE i == I(s)
  <2>1. /\ s \in timers /\ timers' = Cleared(i) \ {s} /\ Closed(i)
        /\ UNCHANGED <<owner, watch, sock, gone, attached>>
    BY <1>14 DEF CloseTimeout, frontend
  <2>2. Timed(s) /\ i \in Sockets BY <1>1, <1>2, <1>3, <1>4, <2>1
  <2>3. /\ timers' \subseteq timers \ {s}
        /\ \A j \in Sockets \ {i} : connection'[j] = connection[j] /\ handle'[j] = handle[j]
    BY <2>1, <2>2 DEF Closed, Cleared, Channels, ChannelTypes
  <2>4. ASSUME NEW r \in (1 .. sock') \ gone', watch'[r] # Absent PROVE Served(r)'
    <3>1. r \in (1 .. sock) \ gone /\ watch[r] # Absent /\ r \in Sockets BY <1>1, <2>1, <2>4
    <3>2. Served(r) /\ I(r) \in Sockets BY <1>2, <1>3, <1>4, <3>1
    <3>3. I(r) # i BY <2>1, <3>2
    <3> QED BY <2>1, <2>3, <3>2, <3>3
  <2>5. ~orphaned' BY <1>3, <1>4, <2>1, <2>2 DEF Closed
  <2>6. ASSUME NEW t \in timers' PROVE Timed(t)'
    <3>1. t \in timers /\ t # s /\ Timed(t) /\ I(t) \in Sockets
      BY <1>1, <1>2, <1>3, <1>4, <2>3
    <3>2. I(t) # i BY <2>2, <3>1
    <3> QED BY <2>1, <2>3, <3>1, <3>2
  <2> QED BY <2>4, <2>5, <2>6
<1>15. Goal
  <2> HIDE DEF Goal
  <2> QED BY <1>6, <1>7, <1>8, <1>10, <1>11, <1>13, <1>14 DEF Negotiates
<1> QED BY <1>15
-----------------------------------------------------------------------------
(* What the queues carry. *)

\* An empty queue carries nothing.
LEMMA CarriesNothing == Carries(<<>>) = {} /\ \A ms : Single(<<>>, ms)
BY EmptySeq DEF Carries, Single

\* A queue that loses its head carries no more, and no longer the message it lost.
LEMMA CarriesTaken ==
    ASSUME NEW S, NEW q \in Seq(S), q # <<>>, NEW p, p = Tail(q)
    PROVE  /\ Carries(p) \subseteq Carries(q)
           /\ \A ms : Single(q, ms) => Single(p, ms)
           /\ q[1].type = "data" => q[1].batch[1] \in Carries(q)
           /\ \A ms : Single(q, ms) /\ q[1].type = "data" /\ q[1].batch[1] \in ms =>
                 Carries(p) \cap ms = {}
<1>1. /\ 1 \in DOMAIN q
      /\ \A i \in DOMAIN p : i \in Nat /\ i + 1 \in DOMAIN q /\ p[i] = q[i + 1]
      /\ p \in Seq(S)
  BY Taken
<1>2. \A i \in DOMAIN p : i + 1 # 1
  <2>1. DOMAIN p = 1 .. Len(p) /\ Len(p) \in Nat BY <1>1, Places
  <2> QED BY <2>1
<1>3. Carries(p) \subseteq Carries(q) BY <1>1 DEF Carries
<1>4. ASSUME NEW ms, Single(q, ms) PROVE Single(p, ms)
  <2> SUFFICES ASSUME NEW i \in DOMAIN p, NEW j \in DOMAIN p,
                      p[i].type = "data", p[i].batch[1] \in ms,
                      p[j].type = "data", p[j].batch[1] \in ms
               PROVE  i = j
    BY DEF Single
  <2>1. i + 1 = j + 1 BY <1>1, <1>4 DEF Single
  <2> QED BY <1>1, <2>1
<1>5. q[1].type = "data" => q[1].batch[1] \in Carries(q) BY <1>1 DEF Carries
<1>6. ASSUME NEW ms, Single(q, ms), q[1].type = "data", q[1].batch[1] \in ms
      PROVE  Carries(p) \cap ms = {}
  <2> SUFFICES ASSUME NEW i \in DOMAIN p, p[i].type = "data", p[i].batch[1] \in ms PROVE FALSE
    BY DEF Carries
  <2>1. i + 1 = 1 BY <1>1, <1>6 DEF Single
  <2> QED BY <1>2, <2>1
<1> QED BY <1>3, <1>4, <1>5, <1>6

\* A queue joined from two carries what they carry.
LEMMA CarriesJoined ==
    ASSUME NEW S, NEW q \in Seq(S), NEW t \in Seq(S), NEW p, p = q \o t
    PROVE  /\ Carries(p) \subseteq Carries(q) \cup Carries(t)
           /\ \A ms : (/\ Single(q, ms) /\ Single(t, ms)
                       /\ Carries(q) \cap ms = {} \/ Carries(t) \cap ms = {}) => Single(p, ms)
<1> DEFINE n == Len(q)
<1>1. /\ \A i \in DOMAIN p : \/ i \in DOMAIN q /\ p[i] = q[i]
                             \/ i - n \in DOMAIN t /\ p[i] = t[i - n]
      /\ DOMAIN p \subseteq Nat /\ n \in Nat
  <2>1. /\ p \in Seq(S)
        /\ \A i \in DOMAIN p : \/ i \in DOMAIN q /\ p[i] = q[i]
                               \/ i - n \in DOMAIN t /\ p[i] = t[i - n]
    BY Joined
  <2>2. DOMAIN p = 1 .. Len(p) /\ Len(p) \in Nat /\ n \in Nat BY <2>1, Places
  <2> QED BY <2>1, <2>2
<1> HIDE DEF n
<1>2. Carries(p) \subseteq Carries(q) \cup Carries(t) BY <1>1 DEF Carries
<1>3. ASSUME NEW ms, Single(q, ms), Single(t, ms),
             Carries(q) \cap ms = {} \/ Carries(t) \cap ms = {}
      PROVE  Single(p, ms)
  <2> SUFFICES ASSUME NEW i \in DOMAIN p, NEW j \in DOMAIN p,
                      p[i].type = "data", p[i].batch[1] \in ms,
                      p[j].type = "data", p[j].batch[1] \in ms
               PROVE  i = j
    BY DEF Single
  <2>1. CASE Carries(t) \cap ms = {}
    <3>1. \A k \in DOMAIN t : t[k].type = "data" => t[k].batch[1] \notin ms BY <2>1 DEF Carries
    <3>2. i \in DOMAIN q /\ p[i] = q[i] /\ j \in DOMAIN q /\ p[j] = q[j] BY <1>1, <3>1
    <3> QED BY <1>3, <3>2 DEF Single
  <2>2. CASE Carries(q) \cap ms = {}
    <3>1. \A k \in DOMAIN q : q[k].type = "data" => q[k].batch[1] \notin ms BY <2>2 DEF Carries
    <3>2. i - n \in DOMAIN t /\ p[i] = t[i - n] /\ j - n \in DOMAIN t /\ p[j] = t[j - n]
      BY <1>1, <3>1
    <3>3. i - n = j - n BY <1>3, <3>2 DEF Single
    <3> QED BY <1>1, <3>3
  <2> QED BY <1>3, <2>1, <2>2
<1> QED BY <1>2, <1>3

\* Messages sent singly are carried as often as they were sent.
LEMMA CarriesSingly ==
    ASSUME NEW ms \in Seq(Payload)
    PROVE  /\ Carries(Singly(ms)) \subseteq Range(ms)
           /\ \A X : (\A i, j \in DOMAIN ms : ms[i] \in X /\ ms[j] \in X => i = j) =>
                 Single(Singly(ms), X)
<1> PICK t : t = Singly(ms) OBVIOUS
<1>1. DOMAIN t = DOMAIN ms /\ \A k \in DOMAIN ms : t[k].batch[1] = ms[k]
  BY SinglyForm, PacketForm
<1>2. Carries(t) \subseteq Range(ms) BY <1>1 DEF Carries, Range
<1>3. \A X : (\A i, j \in DOMAIN ms : ms[i] \in X /\ ms[j] \in X => i = j) => Single(t, X)
  BY <1>1 DEF Single
<1> QED BY <1>2, <1>3

\* A flushed buffer is carried once.
LEMMA CarriesFlush ==
    ASSUME NEW ms \in Seq(Payload), Len(ms) <= Capacity
    PROVE  Carries(Flush(ms)) \subseteq Range(ms) /\ \A X : Single(Flush(ms), X)
<1> PICK t : t = Flush(ms) OBVIOUS
<1>1. \A i \in DOMAIN t : i = 1 /\ t[1] = Data(ms) /\ 1 \in DOMAIN ms BY FlushForm
<1>2. Data(ms).batch = ms BY PacketForm
<1>3. Carries(t) \subseteq Range(ms) BY <1>1, <1>2 DEF Carries, Range
<1>4. \A X : Single(t, X) BY <1>1 DEF Single
<1> QED BY <1>3, <1>4

\* Words of the negotiation carry nothing.
LEMMA CarriesWord ==
    ASSUME NEW w, w.type # "data"
    PROVE  Carries(<<w>>) = {} /\ \A X : Single(<<w>>, X)
<1>1. DOMAIN <<w>> = {1} /\ <<w>>[1] = w OBVIOUS
<1> QED BY <1>1 DEF Carries, Single
-----------------------------------------------------------------------------
(* What the front end writes for several calls. *)

\* The function that FlattenSeq chooses.
Flattens(f, qs, n) == f = [i \in 1 .. n |-> IF i = 1 THEN qs[i] ELSE f[i - 1] \o qs[i]]

LEMMA FlattenExists == ASSUME NEW qs, NEW n \in Nat PROVE \E f : Flattens(f, qs, n)
<1> DEFINE T == {m \in Nat : \E f : Flattens(f, qs, m)}
<1>1. 0 \in T
  <2> DEFINE f == [i \in 1 .. 0 |-> qs[i]]
  <2>1. f = [i \in 1 .. 0 |-> IF i = 1 THEN qs[i] ELSE f[i - 1] \o qs[i]] BY 1 .. 0 = {}
  <2>2. Flattens(f, qs, 0) BY <2>1 DEF Flattens
  <2> QED BY <2>2
<1>2. ASSUME NEW m \in Nat, m \in T PROVE m + 1 \in T
  <2>1. PICK f : Flattens(f, qs, m) BY <1>2
  <2> DEFINE h == [i \in 1 .. m + 1 |->
                     IF i <= m THEN f[i] ELSE IF i = 1 THEN qs[i] ELSE f[i - 1] \o qs[i]]
             H == [i \in 1 .. m + 1 |-> IF i = 1 THEN qs[i] ELSE h[i - 1] \o qs[i]]
  <2>2. ASSUME NEW i \in 1 .. m + 1 PROVE h[i] = H[i]
    <3>1. i # 1 => i - 1 \in 1 .. m + 1 /\ i - 1 <= m OBVIOUS
    <3>2. i # 1 => h[i - 1] = f[i - 1] BY <3>1
    <3>3. CASE i <= m
      <4>1. i \in 1 .. m BY <3>3
      <4>2. f[i] = IF i = 1 THEN qs[i] ELSE f[i - 1] \o qs[i] BY <2>1, <4>1 DEF Flattens
      <4> QED BY <3>2, <3>3, <4>2
    <3>4. CASE ~(i <= m) BY <3>2, <3>4
    <3> QED BY <3>3, <3>4
  <2>3. h = H BY <2>2
  <2>4. Flattens(h, qs, m + 1) BY <2>3 DEF Flattens
  <2> QED BY <2>4
<1>3. n \in T BY <1>1, <1>2, F!Induction
<1> QED BY <1>3

\* A sequence of sequences is flattened one at a time.
LEMMA FlattenForm ==
    ASSUME NEW S, NEW qs \in Seq(S), qs # <<>>
    PROVE  \E f : /\ f[1] = qs[1] /\ FlattenSeq(qs) = f[Len(qs)]
                  /\ \A i \in 1 .. Len(qs) - 1 : f[i + 1] = f[i] \o qs[i + 1]
<1> DEFINE f == CHOOSE g : Flattens(g, qs, Len(qs))
<1>1. Len(qs) \in Nat /\ Len(qs) # 0 BY LenProperties, EmptySeq
<1>2. Flattens(f, qs, Len(qs)) BY <1>1, FlattenExists
<1>3. FlattenSeq(qs) = f[Len(qs)] BY <1>1 DEF FlattenSeq, Flattens
<1> HIDE DEF f
<1>4. \A i \in 1 .. Len(qs) : f[i] = IF i = 1 THEN qs[i] ELSE f[i - 1] \o qs[i]
  BY <1>2 DEF Flattens
<1>5. f[1] = qs[1]
  <2>1. 1 \in 1 .. Len(qs) BY <1>1
  <2> QED BY <1>4, <2>1
<1>6. ASSUME NEW i \in 1 .. Len(qs) - 1 PROVE f[i + 1] = f[i] \o qs[i + 1]
  <2>1. i + 1 \in 1 .. Len(qs) /\ i + 1 # 1 /\ (i + 1) - 1 = i BY <1>1
  <2> QED BY <1>4, <2>1
<1> QED BY <1>3, <1>5, <1>6

\* R are the requests of the calls cs, numbered from n on, each followed by a
\* cancel request when its caller has asked for that already.
AskFor(R, cs, n) ==
    /\ R \in Seq(Payload)
    /\ \A i \in DOMAIN R : \E k \in DOMAIN cs :
          /\ R[i].call = cs[k] /\ R[i].id = n + k - 1
          /\ R[i].kind = "request" \/ (R[i].kind = "cancel" /\ cs[k] \in asked)
    /\ \A i, j \in DOMAIN R :
          R[i].kind = "request" /\ R[j].kind = "request" /\ R[i].call = R[j].call => i = j

\* The requests that are written for the calls cs are theirs, and one request for each.
LEMMA RequestsForm ==
    ASSUME NEW n \in Nat, NEW cs \in Seq(Calls), n + Len(cs) <= MaxCalls,
           \A j, k \in DOMAIN cs : cs[j] = cs[k] => j = k,
           NEW R, R = Requests(cs, n)
    PROVE  AskFor(R, cs, n)
<1> SUFFICES /\ R \in Seq(Payload)
             /\ \A i \in DOMAIN R : \E k \in DOMAIN cs :
                   /\ R[i].call = cs[k] /\ R[i].id = n + k - 1
                   /\ R[i].kind = "request" \/ (R[i].kind = "cancel" /\ cs[k] \in asked)
             /\ \A i, j \in DOMAIN R :
                   R[i].kind = "request" /\ R[j].kind = "request" /\ R[i].call = R[j].call => i = j
  BY DEF AskFor
<1> DEFINE N == Len(cs)
           m(k) == Message("request", n + k - 1, cs[k])
           qs == [k \in DOMAIN cs |->
                    IF cs[k] \in asked THEN <<m(k), [m(k) EXCEPT !.kind = "cancel"]>> ELSE <<m(k)>>]
           About(x, k) == /\ x.call = cs[k] /\ x.id = n + k - 1
                          /\ x.kind = "request" \/ (x.kind = "cancel" /\ cs[k] \in asked)
           Good(g, k) ==
               /\ g \in Seq(Payload)
               /\ \A i \in DOMAIN g : \E j \in 1 .. k : About(g[i], j)
               /\ \A i, j \in DOMAIN g :
                     g[i].kind = "request" /\ g[j].kind = "request" /\ g[i].call = g[j].call =>
                        i = j
<1>1. N \in Nat /\ DOMAIN cs = 1 .. N /\ \A k \in 1 .. N : cs[k] \in Calls BY Places
<1>2. Requests(cs, n) = FlattenSeq(qs) BY DEF Requests
<1>3. ASSUME NEW k \in 1 .. N
      PROVE  /\ qs[k] \in Seq(Payload)
             /\ \A i \in DOMAIN qs[k] : About(qs[k][i], k)
             /\ \A i, j \in DOMAIN qs[k] :
                   qs[k][i].kind = "request" /\ qs[k][j].kind = "request" => i = j
  <2>1. PICK x, y : x = m(k) /\ y = [m(k) EXCEPT !.kind = "cancel"] OBVIOUS
  <2>2. /\ x.call = cs[k] /\ x.id = n + k - 1 /\ x.kind = "request"
        /\ y.call = cs[k] /\ y.id = n + k - 1 /\ y.kind = "cancel"
    BY <2>1 DEF Message
  <2>3. x \in Payload /\ y \in Payload
    <3>1. n + k - 1 \in 0 .. MaxCalls BY <1>1, Constants
    <3>2. cs[k] \in 0 .. MaxCalls BY <1>1, Constants DEF Calls
    <3> HIDE DEF N
    <3> QED BY <2>1, <3>1, <3>2 DEF Message, Payload
  <2>4. qs[k] = IF cs[k] \in asked THEN <<x, y>> ELSE <<x>> BY <1>1, <2>1
  <2> HIDE DEF qs, m
  <2>5. CASE cs[k] \in asked
    <3>1. PICK q : q = <<x, y>> OBVIOUS
    <3>2. q \in Seq(Payload) /\ DOMAIN q = {1, 2} /\ q[1] = x /\ q[2] = y BY <2>3, <3>1
    <3>3. qs[k] = q BY <2>4, <2>5, <3>1
    <3> QED BY <2>2, <2>5, <3>2, <3>3
  <2>6. CASE cs[k] \notin asked
    <3>1. PICK q : q = <<x>> OBVIOUS
    <3>2. q \in Seq(Payload) /\ DOMAIN q = {1} /\ q[1] = x BY <2>3, <3>1
    <3>3. qs[k] = q BY <2>4, <2>6, <3>1
    <3> QED BY <2>2, <3>2, <3>3
  <2> QED BY <2>5, <2>6
<1>4. DOMAIN qs = 1 .. N BY <1>1
<1> HIDE DEF qs, m
<1>5. ASSUME NEW k \in Nat, k + 1 \in 1 .. N, NEW g, NEW h, Good(g, k), h = g \o qs[k + 1]
      PROVE  Good(h, k + 1)
  <2> DEFINE t == qs[k + 1]
  <2>1. /\ t \in Seq(Payload) /\ \A i \in DOMAIN t : About(t[i], k + 1)
        /\ \A i, j \in DOMAIN t : t[i].kind = "request" /\ t[j].kind = "request" => i = j
    BY <1>3, <1>5
  <2>2. g \in Seq(Payload) BY <1>5
  <2> HIDE DEF t
  <2>3. /\ h \in Seq(Payload)
        /\ \A i \in DOMAIN h : \/ i \in DOMAIN g /\ h[i] = g[i]
                               \/ i - Len(g) \in DOMAIN t /\ h[i] = t[i - Len(g)]
    BY <1>5, <2>1, <2>2, Joined DEF t
  <2>4. \A i \in DOMAIN h : i \in Nat
    <3>1. DOMAIN h = 1 .. Len(h) BY <2>3, Places
    <3> QED BY <3>1
  <2>5. Len(g) \in Nat BY <2>2, Places
  <2>6. \A i \in DOMAIN g : \E j \in 1 .. k : About(g[i], j) BY <1>5
  <2>7. \A i, j \in DOMAIN g :
           g[i].kind = "request" /\ g[j].kind = "request" /\ g[i].call = g[j].call =>
                        i = j
    BY <1>5
  <2>8. \A i \in DOMAIN g, j \in DOMAIN t : g[i].call # t[j].call
    <3> SUFFICES ASSUME NEW i \in DOMAIN g, NEW j \in DOMAIN t, g[i].call = t[j].call PROVE FALSE
      OBVIOUS
    <3>1. PICK l \in 1 .. k : g[i].call = cs[l] BY <2>6
    <3>2. t[j].call = cs[k + 1] BY <2>1
    <3>3. l \in 1 .. N /\ l # k + 1 BY <1>1, <1>5
    <3> QED BY <1>1, <1>5, <3>1, <3>2, <3>3
  <2>9. ASSUME NEW i \in DOMAIN h PROVE \E j \in 1 .. k + 1 : About(h[i], j)
    <3>1. CASE i \in DOMAIN g /\ h[i] = g[i]
      <4>1. PICK j \in 1 .. k : About(g[i], j) BY <2>6, <3>1
      <4>2. j \in 1 .. k + 1 OBVIOUS
      <4> HIDE DEF About
      <4> QED BY <3>1, <4>1, <4>2
    <3>2. CASE i - Len(g) \in DOMAIN t /\ h[i] = t[i - Len(g)]
      <4>1. About(h[i], k + 1) BY <2>1, <3>2
      <4>2. k + 1 \in 1 .. k + 1 OBVIOUS
      <4> HIDE DEF About
      <4> QED BY <4>1, <4>2
    <3> QED BY <2>3, <3>1, <3>2
  <2>10. ASSUME NEW i \in DOMAIN h, NEW j \in DOMAIN h, h[i].kind = "request",
                h[j].kind = "request", h[i].call = h[j].call
         PROVE  i = j
    <3>1. CASE i \in DOMAIN g /\ h[i] = g[i] BY <2>3, <2>7, <2>8, <2>10, <3>1
    <3>2. CASE i - Len(g) \in DOMAIN t /\ h[i] = t[i - Len(g)]
      <4>1. j - Len(g) \in DOMAIN t /\ h[j] = t[j - Len(g)] BY <2>3, <2>8, <2>10, <3>2
      <4>2. i - Len(g) = j - Len(g) BY <2>1, <2>10, <3>2, <4>1
      <4> QED BY <2>4, <2>5, <4>2
    <3> QED BY <2>3, <3>1, <3>2
  <2> QED BY <2>3, <2>9, <2>10
<1>6. Good(Requests(cs, n), N)
  <2>1. CASE N = 0
    <3>1. qs = <<>> BY <1>4, <2>1 DEF qs
    <3>2. FlattenSeq(qs) = <<>> BY <3>1, EmptySeq DEF FlattenSeq
    <3> QED BY <1>2, <3>2, EmptySeq
  <2>2. CASE N # 0
    <3>1. qs \in Seq(Seq(Payload)) /\ qs # <<>> /\ Len(qs) = N
      <4>1. \A k \in 1 .. N : qs[k] \in Seq(Payload) BY <1>3
      <4>2. qs = [k \in 1 .. N |-> qs[k]] BY <1>1 DEF qs
      <4>3. qs \in [1 .. N -> Seq(Payload)] BY <4>1, <4>2
      <4>4. qs \in Seq(Seq(Payload)) /\ Len(qs) = N BY <1>1, <4>3
      <4>5. 1 \in DOMAIN qs BY <1>1, <1>4, <2>2
      <4> QED BY <4>4, <4>5, EmptySeq
    <3> PICK f : /\ f[1] = qs[1] /\ FlattenSeq(qs) = f[Len(qs)]
                 /\ \A i \in 1 .. Len(qs) - 1 : f[i + 1] = f[i] \o qs[i + 1]
      BY ONLY <3>1, FlattenForm
    <3>2. /\ f[1] = qs[1] /\ FlattenSeq(qs) = f[N]
          /\ \A i \in 1 .. N - 1 : f[i + 1] = f[i] \o qs[i + 1]
      BY <3>1
    <3> DEFINE T == {k \in Nat : k + 1 <= N => Good(f[k + 1], k + 1)}
    <3>3. 0 \in T
      <4>1. 1 \in 1 .. N /\ 0 + 1 = 1 BY <1>1, <2>2
      <4>2. /\ qs[1] \in Seq(Payload)
            /\ \A i \in DOMAIN qs[1] : About(qs[1][i], 1)
            /\ \A i, j \in DOMAIN qs[1] :
                  qs[1][i].kind = "request" /\ qs[1][j].kind = "request" => i = j
        BY <1>3, <4>1
      <4> HIDE DEF About
      <4>3. Good(qs[1], 1) BY <4>2
      <4> HIDE DEF Good
      <4> QED BY <3>2, <4>1, <4>3
    <3>4. ASSUME NEW k \in Nat, k \in T PROVE k + 1 \in T
      <4> SUFFICES ASSUME (k + 1) + 1 <= N PROVE Good(f[(k + 1) + 1], (k + 1) + 1) OBVIOUS
      <4>1. k + 1 \in 1 .. N - 1 /\ (k + 1) + 1 \in 1 .. N /\ k + 1 \in Nat /\ k + 1 <= N BY <1>1
      <4>2. f[(k + 1) + 1] = f[k + 1] \o qs[(k + 1) + 1] BY <3>2, <4>1
      <4>3. Good(f[k + 1], k + 1) BY <3>4, <4>1
      <4> HIDE DEF Good
      <4> QED BY <1>5, <4>1, <4>2, <4>3
    <3>5. N - 1 \in Nat /\ (N - 1) + 1 = N /\ N <= N BY <1>1, <2>2
    <3> HIDE DEF Good
    <3>6. N - 1 \in T
      <4> HIDE DEF T
      <4> QED BY <3>3, <3>4, <3>5, F!Induction
    <3>7. (N - 1) + 1 <= N => Good(f[(N - 1) + 1], (N - 1) + 1) BY <3>6
    <3>8. Good(f[N], N) BY <3>5, <3>7
    <3> QED BY <1>2, <3>2, <3>8
  <2> QED BY <2>1, <2>2
<1>7. Good(R, N) BY <1>6
<1> QED BY <1>1, <1>7

\* Sets of calls are finite.
LEMMA FewCalls ==
    /\ IsFiniteSet(Calls) /\ Cardinality(Calls) = MaxCalls
    /\ \A cs \in SUBSET Calls : IsFiniteSet(cs) /\ Cardinality(cs) \in Nat
                                /\ Cardinality(cs) <= MaxCalls
    /\ \A ds \in SUBSET Calls : \A cs \in SUBSET ds : Cardinality(cs) <= Cardinality(ds)
<1>1. IsFiniteSet(Calls) /\ Cardinality(Calls) = MaxCalls
  <2>1. IsFiniteSet(1 .. MaxCalls) /\ Cardinality(1 .. MaxCalls) = MaxCalls
    BY Constants, FS_Interval
  <2> QED BY <2>1 DEF Calls
<1>2. \A cs \in SUBSET Calls : IsFiniteSet(cs) /\ Cardinality(cs) \in Nat
                               /\ Cardinality(cs) <= MaxCalls
  BY <1>1, FS_Subset, FS_CardinalityType
<1>3. \A ds \in SUBSET Calls : \A cs \in SUBSET ds : Cardinality(cs) <= Cardinality(ds)
  BY <1>2, FS_Subset
<1> QED BY <1>1, <1>2, <1>3

\* The calls that wait are taken up in the order they were made, each once.
LEMMA InOrderForm ==
    ASSUME NEW W \in SUBSET Calls, NEW cs \in InOrder(W)
    PROVE  /\ cs \in Seq(Calls) /\ Len(cs) = Cardinality(W) /\ Range(cs) = W
           /\ \A j, k \in DOMAIN cs : cs[j] = cs[k] => j = k
<1> DEFINE n == Cardinality(W)
<1>1. n \in Nat /\ IsFiniteSet(W) BY FewCalls
<1>2. cs \in [1 .. n -> W] /\ \A j, k \in 1 .. n : j < k => cs[j] < cs[k]
  BY DEF InOrder
<1>3. ASSUME NEW j \in 1 .. n, NEW k \in 1 .. n, cs[j] = cs[k] PROVE j = k
  <2>1. cs[j] \in Nat /\ cs[k] \in Nat
    <3>1. cs[j] \in Calls /\ cs[k] \in Calls BY <1>2
    <3> QED BY <3>1, Constants DEF Calls
  <2> HIDE DEF n
  <2>2. ~(j < k) /\ ~(k < j) BY <1>2, <1>3, <2>1
  <2> QED BY <1>1, <2>2
<1> HIDE DEF n
<1>4. cs \in Injection(1 .. n, W) BY <1>2, <1>3 DEF Injection, IsInjective
<1>5. Cardinality(1 .. n) = n BY <1>1, FS_Interval
<1>6. cs \in Surjection(1 .. n, W) BY <1>1, <1>4, <1>5, FS_Injection DEF n
<1>7. Range(cs) = W BY <1>2, <1>6 DEF Surjection, Range
<1>8. cs \in Seq(Calls) /\ Len(cs) = n BY <1>1, <1>2
<1> QED BY <1>2, <1>3, <1>7, <1>8 DEF n

\* Messages written by the front end.
LEMMA ClientWrites ==
    ASSUME Budget, Negotiation, Buffers, NEW ms \in Seq(Payload), ClientFits(ms), ClientWrite(ms)
    PROVE  /\ UNCHANGED toServer \/ Sends(toServer)
           /\ held' \in Seq(Payload) /\ Len(held') <= Capacity
           /\ Carries(toServer') \subseteq Carries(toServer) \cup Range(ms)
           /\ Range(held') \subseteq Range(held) \cup Range(ms)
           /\ UNCHANGED held \/ UNCHANGED toServer
           /\ held' # <<>> => held # <<>> \/ ms # <<>>
           /\ \A X : (/\ Single(toServer, X)
                      /\ Carries(toServer) \cap X = {} \/ Range(ms) \cap X = {}
                      /\ \A i, j \in DOMAIN ms : ms[i] \in X /\ ms[j] \in X => i = j)
                     => Single(toServer', X)
<1> DEFINE S == {Initial, Reconnect} \cup Packet
           t == Singly(ms)
<1>1. CASE connected /\ link
  <2>1. toServer' = toServer \o t /\ UNCHANGED held BY <1>1 DEF ClientWrite, Sent
  <2>2. t \in Seq(Packet) BY SinglyForm
  <2>3. toServer \in Seq(S) /\ t \in Seq(S)
    BY <2>2, SeqMonotonic DEF Negotiation, Upwards
  <2>4. /\ Carries(t) \subseteq Range(ms)
        /\ \A X : (\A i, j \in DOMAIN ms : ms[i] \in X /\ ms[j] \in X => i = j) => Single(t, X)
    BY CarriesSingly
  <2> HIDE DEF S, t
  <2>5. /\ Carries(toServer') \subseteq Carries(toServer) \cup Carries(t)
        /\ \A X : (/\ Single(toServer, X) /\ Single(t, X)
                   /\ Carries(toServer) \cap X = {} \/ Carries(t) \cap X = {})
                  => Single(toServer', X)
    BY <2>1, <2>3, CarriesJoined
  <2>6. \A X : Range(ms) \cap X = {} => Carries(t) \cap X = {} BY <2>4
  <2>7. Sends(toServer) BY <1>1, <2>1, <2>2 DEF Sends
  <2>8. ASSUME NEW X, Single(toServer, X), Carries(toServer) \cap X = {} \/ Range(ms) \cap X = {},
               \A i, j \in DOMAIN ms : ms[i] \in X /\ ms[j] \in X => i = j
        PROVE  Single(toServer', X)
    BY <2>4, <2>5, <2>6, <2>8
  <2> QED BY <2>1, <2>4, <2>5, <2>7, <2>8 DEF Buffers
<1>2. CASE connected /\ ~link
  <2>1. UNCHANGED <<toServer, held>> BY <1>2 DEF ClientWrite, Sent
  <2> QED BY <2>1 DEF Buffers
<1>3. CASE ~connected
  <2>1. held' = held \o ms /\ UNCHANGED toServer BY <1>3 DEF ClientWrite
  <2>2. Len(held) + Len(ms) <= Capacity BY <1>3 DEF ClientFits
  <2>3. held \in Seq(Payload) BY DEF Buffers
  <2>4. /\ held' \in Seq(Payload) /\ Len(held') = Len(held) + Len(ms)
        /\ \A i \in DOMAIN held' : \/ i \in DOMAIN held /\ held'[i] = held[i]
                                   \/ i - Len(held) \in DOMAIN ms /\ held'[i] = ms[i - Len(held)]
    BY <2>1, <2>3, Joined
  <2>5. Range(held') \subseteq Range(held) \cup Range(ms) BY <2>4 DEF Range
  <2>6. held' # <<>> => held # <<>> \/ ms # <<>>
    BY <2>1, <2>3, ConcatEmptySeq
  <2> QED BY <2>1, <2>2, <2>4, <2>5, <2>6
<1> QED BY <1>1, <1>2, <1>3

\* A message written by channel e of the server.
LEMMA ServerWrites ==
    ASSUME Budget, Negotiation, Buffers, NEW e \in Sockets, owner[e] # Absent,
           NEW m \in Payload, ServerFits(e, <<m>>), ServerWrite(e, <<m>>), UNCHANGED <<owner, held>>
    PROVE  /\ UNCHANGED toClient \/ (attached[e] = sock /\ Sends(toClient))
           /\ Buffers'
           /\ Carries(toClient') \subseteq
                 Carries(toClient) \cup (IF attached[e] = sock THEN {m} ELSE {})
           /\ \A f \in Sockets \ {e} : buffer'[f] = buffer[f]
           /\ Range(buffer'[e]) \subseteq Range(buffer[e]) \cup {m}
           /\ attached[e] # Absent => UNCHANGED buffer
           /\ \A X : Single(toClient, X) /\ (Carries(toClient) \cap X = {} \/ m \notin X)
                     => Single(toClient', X)
<1> DEFINE S == {Initial, Known(TRUE), Known(FALSE)} \cup Packet
           ms == <<m>>
           t == Singly(ms)
<1>1. ms \in Seq(Payload) /\ DOMAIN ms = {1} /\ Range(ms) = {m} /\ Len(ms) = 1
  <2>1. ms \in Seq(Payload) /\ DOMAIN ms = {1} /\ ms[1] = m /\ Len(ms) = 1 OBVIOUS
  <2> QED BY <2>1 DEF Range
<1> HIDE DEF ms
<1>2. CASE attached[e] = sock /\ attached[e] # Absent /\ link
  <2>1. toClient' = toClient \o t /\ UNCHANGED buffer BY <1>2 DEF ServerWrite, Sent, ms
  <2>2. t \in Seq(Packet) BY <1>1, SinglyForm
  <2>3. toClient \in Seq(S) /\ t \in Seq(S)
    BY <2>2, SeqMonotonic DEF Negotiation, Downwards
  <2>4. /\ Carries(t) \subseteq {m}
        /\ \A X : Single(t, X)
    BY <1>1, CarriesSingly
  <2> HIDE DEF S, t
  <2>5. /\ Carries(toClient') \subseteq Carries(toClient) \cup Carries(t)
        /\ \A X : (/\ Single(toClient, X) /\ Single(t, X)
                   /\ Carries(toClient) \cap X = {} \/ Carries(t) \cap X = {})
                  => Single(toClient', X)
    BY <2>1, <2>3, CarriesJoined
  <2>6. \A X : m \notin X => Carries(t) \cap X = {} BY <2>4
  <2>7. Sends(toClient) BY <1>2, <2>1, <2>2 DEF Sends
  <2>8. Buffers' BY <2>1 DEF Buffers
  <2>9. ASSUME NEW X, Single(toClient, X), Carries(toClient) \cap X = {} \/ m \notin X
        PROVE  Single(toClient', X)
    BY <2>4, <2>5, <2>6, <2>9
  <2> QED BY <1>2, <2>1, <2>4, <2>5, <2>7, <2>8, <2>9
<1>3. CASE attached[e] # Absent /\ ~(attached[e] = sock /\ link)
  <2>1. UNCHANGED <<toClient, buffer>> BY <1>3 DEF ServerWrite, Sent
  <2> QED BY <2>1 DEF Buffers
<1>4. CASE attached[e] = Absent
  <2>1. UNCHANGED toClient BY <1>4 DEF ServerWrite
  <2>2. CASE buffer' = buffer BY <1>4, <2>1, <2>2 DEF Buffers
  <2>3. CASE buffer' = [buffer EXCEPT ![e] = @ \o ms]
    <3>1. Len(buffer[e]) + Len(ms) <= Capacity BY <1>4 DEF ServerFits, ms
    <3>2. buffer[e] \in Seq(Payload) BY DEF Buffers
    <3>3. buffer'[e] = buffer[e] \o ms /\ \A f \in Sockets \ {e} : buffer'[f] = buffer[f]
      BY <2>3 DEF Buffers
    <3> PICK b, d : b = buffer[e] /\ d = buffer'[e] OBVIOUS
    <3>4. /\ d \in Seq(Payload) /\ Len(d) = Len(b) + Len(ms)
          /\ \A i \in DOMAIN d : \/ i \in DOMAIN b /\ d[i] = b[i]
                                 \/ i - Len(b) \in DOMAIN ms /\ d[i] = ms[i - Len(b)]
      <4>1. b \in Seq(Payload) /\ d = b \o ms BY <3>2, <3>3
      <4>2. ms \in Seq(Payload) BY <1>1
      <4> QED BY ONLY <4>1, <4>2, Joined
    <3>5. Range(d) \subseteq Range(b) \cup {m}
      <4>1. \A i \in DOMAIN ms : ms[i] = m BY <1>1 DEF ms
      <4> QED BY <3>4, <4>1 DEF Range
    <3>6. Buffers'
      <4>1. buffer' \in [Sockets -> Seq(Payload)] BY <2>3, <3>3, <3>4 DEF Buffers
      <4>2. \A f \in Sockets : Len(buffer'[f]) <= Capacity BY <3>1, <3>3, <3>4 DEF Buffers
      <4>3. \A f \in Sockets : owner'[f] = Absent => buffer'[f] = <<>> BY <3>3 DEF Buffers
      <4> QED BY <4>1, <4>2, <4>3 DEF Buffers
    <3> QED BY <1>4, <2>1, <3>3, <3>5, <3>6
  <2> QED BY <1>4, <2>2, <2>3 DEF ServerWrite, ms
<1> QED BY <1>2, <1>3, <1>4
-----------------------------------------------------------------------------
(* The calls. *)

\* The messages of the service path are told apart from requests and replies.
LEMMA Words ==
    /\ OpenPath \in Payload /\ AckOpen \in Payload /\ OpenPath # AckOpen
    /\ OpenPath.kind = "open" /\ AckOpen.kind = "ack"
    /\ \A I : OpenPath \notin Asking(I) /\ AckOpen \notin Replying(I)
    /\ \A c : OpenPath \notin RequestsOf(c)
    /\ Asking({}) = {} /\ Replying({}) = {}
<1>1. 0 \in 0 .. MaxCalls BY Constants
<1>2. OpenPath \in Payload /\ AckOpen \in Payload BY <1>1 DEF OpenPath, AckOpen, Message, Payload
<1>3. OpenPath.kind = "open" /\ AckOpen.kind = "ack" BY DEF OpenPath, AckOpen, Message
<1> QED BY <1>2, <1>3 DEF Asking, Replying, RequestsOf

\* The channels of the current front end.
LEMMA MineForm ==
    ASSUME Budget, Channels, Latest
    PROVE  /\ Mine \subseteq Sockets /\ Mine \subseteq 1 .. sock
           /\ \A e \in Mine : owner[e] # Absent
           /\ \A e \in Sockets : attached[e] = sock /\ sock >= 1 =>
                 watch[sock] = e /\ e \in Mine
           /\ \A e \in Sockets : connection[load] = e => e \in Mine
<1>1. /\ load \in Sockets /\ 1 .. sock \subseteq Sockets /\ sock \in Nat
      /\ Sockets \subseteq Nat \ {0} /\ load # 0
      /\ sock >= 1 => sock \in Sockets
  BY InSockets, Constants
<1>2. ASSUME NEW e \in Sockets, attached[e] = sock, sock >= 1
      PROVE  watch[sock] = e /\ e \in Mine
  <2>1. attached[e] # Absent BY <1>1, <1>2 DEF Absent
  <2>2. watch[sock] = e BY <1>2, <2>1 DEF Channels, ChannelLinks
  <2>3. watch[sock] \in 0 .. sock BY <1>1, <1>2 DEF Channels, ChannelTypes
  <2>4. e \in 1 .. sock BY <1>1, <2>2, <2>3
  <2> QED BY <1>2, <2>2, <2>4 DEF Mine
<1>3. ASSUME NEW e \in Sockets, connection[load] = e PROVE e \in Mine
  <2>1. connection[load] \in 0 .. sock BY <1>1 DEF Channels, ChannelTypes
  <2>2. e \in 1 .. sock BY <1>1, <1>3, <2>1
  <2> QED BY <1>3, <2>2 DEF Mine
<1>4. ASSUME NEW e \in Mine PROVE owner[e] # Absent
  <2>1. e \in 1 .. sock /\ e \in Sockets /\ sock >= 1 BY <1>1 DEF Mine
  <2>2. CASE connection[load] = e
    <3>1. connection[load] # Absent BY <1>1, <2>1, <2>2 DEF Absent
    <3>2. owner[e] = load BY <1>1, <2>2, <3>1 DEF Channels, ChannelLinks
    <3> QED BY <1>1, <3>2 DEF Absent
  <2>3. CASE attached[e] = sock
    <3>1. watch[sock] = e BY <1>2, <2>1, <2>3
    <3>2. watch[sock] # Absent BY <1>1, <2>1, <3>1 DEF Absent
    <3> QED BY <1>1, <2>1, <3>1, <3>2 DEF Channels, ChannelLinks
  <2> QED BY <2>2, <2>3 DEF Mine
<1> QED BY <1>1, <1>2, <1>3, <1>4 DEF Mine

\* Steps that make no call and answer none, on which no channel of the front end comes to
\* carry or to hold back more than it did.
LEMMA CallsKept ==
    ASSUME CallsInv, Buffers', Opened',
           UNCHANGED <<status, wire, nextId, asked, service, running, runs, channel>>,
           1 .. sock \subseteq 1 .. sock',
           \A e \in 1 .. sock : owner[e] # Absent => owner'[e] # Absent,
           Range(held') \subseteq Range(held), held' # <<>> => held # <<>>,
           Carries(toServer') \subseteq Carries(toServer) \cup Range(held),
           Carries(toServer') \subseteq Carries(toServer) \/ held' = <<>>,
           \A X : Single(toServer, X) /\ (Carries(toServer) \cap X = {} \/ Range(held) \cap X = {})
                  => Single(toServer', X),
           \A m \in Carries(toClient') : \/ m \in Carries(toClient)
                                         \/ \E e \in Mine : m \in Range(buffer[e]),
           Single(toClient, {AckOpen}) => Single(toClient', {AckOpen}),
           \A e \in Mine' :
              \/ /\ e \in Mine /\ Range(buffer'[e]) \subseteq Range(buffer[e])
                 /\ e \in open' => e \in open
              \/ owner[e] = Absent /\ Range(buffer'[e]) = {} /\ e \notin open',
           \/ service # "open" /\ Carries(toClient') = {}
           \/ connection[load] \in open \cup {Absent} => connection'[load'] \in open' \cup {Absent}
    PROVE  CallsInv'
<1> USE DEF CallsInv
<1>1. PICK I \in SUBSET Calls : Instance(I) OBVIOUS
<1>2. Made' = Made /\ Pending' = Pending /\ Opening' = Opening BY DEF Made, Pending, Opening
<1>3. Asking(I)' = Asking(I) /\ Replying(I)' = Replying(I) BY DEF Asking, Replying
<1>4. CallTypes' BY <1>2 DEF CallTypes
<1>5. RunningTypes'
  <2>1. running' = running /\ wire' = wire /\ asked' = asked /\ runs' = runs OBVIOUS
  <2>2. running' \subseteq [channel : 1 .. sock', id : 0 .. MaxCalls, call : Calls,
                            cancelled : BOOLEAN]
    BY <2>1 DEF RunningTypes
  <2>3. \A r \in running : r.channel \in 1 .. sock BY DEF RunningTypes
  <2> QED BY <2>1, <2>2, <2>3 DEF RunningTypes
<1>6. Mine' \cap open' # {} => Mine \cap open # {} OBVIOUS
<1>7. AckOpen \in Carries(toClient') => AckOpen \in Carries(toClient)
  BY <1>1, Words DEF Instance, OnTheWay
<1>8. ServiceStates' BY <1>2, <1>6 DEF ServiceStates
<1>9. OpenPath \in Carries(toServer') => OpenPath \in Carries(toServer)
  BY <1>1, Words DEF Instance, OnTheWay
<1>10. OpeningOnce'
  <2>1. Range(held) \cap {OpenPath} = {} BY <1>1, Words DEF Instance, OnTheWay
  <2>2. Single(toServer', {OpenPath}) BY <2>1 DEF OpeningOnce
  <2>3. Single(toClient', {AckOpen}) BY DEF OpeningOnce
  <2>4. OpenPath \in Carries(toServer') =>
           Opening /\ Mine' \cap open' = {} /\ AckOpen \notin Carries(toClient')
    BY <1>6, <1>7, <1>9 DEF OpeningOnce
  <2>5. AckOpen \in Carries(toClient') => Opening /\ connection'[load'] \in open' \cup {Absent}
    BY <1>7 DEF OpeningOnce
  <2> QED BY <1>2, <2>2, <2>3, <2>4, <2>5 DEF OpeningOnce
<1>11. RequestsOnce'
  <2> SUFFICES ASSUME NEW c \in Calls
               PROVE  /\ Single(toServer', RequestsOf(c))
                      /\ RequestsOf(c) \cap (Carries(toServer') \cup Range(held')) # {} =>
                            runs'[c] = 0
                      /\ RequestsOf(c) \cap Carries(toServer') # {} =>
                            RequestsOf(c) \cap Range(held') = {}
    BY DEF RequestsOnce, RequestsOf
  <2>1. Single(toServer', RequestsOf(c)) BY DEF RequestsOnce
  <2>2. RequestsOf(c) \cap (Carries(toServer') \cup Range(held')) # {} => runs'[c] = 0
    BY DEF RequestsOnce
  <2>3. RequestsOf(c) \cap Carries(toServer') # {} => RequestsOf(c) \cap Range(held') = {}
    <3>1. CASE Carries(toServer') \subseteq Carries(toServer) BY <3>1 DEF RequestsOnce
    <3>2. CASE held' = <<>>
      <4>1. Range(held') = {} BY <3>2 DEF Range
      <4> QED BY <4>1
    <3> QED BY <3>1, <3>2
  <2> QED BY <2>1, <2>2, <2>3
<1>12. Instance(I)'
  <2>1. Numbered(I)' BY <1>1, <1>2 DEF Instance, Numbered
  <2>2. Carries(toServer') \subseteq {OpenPath} \cup Asking(I) /\ Range(held') \subseteq Asking(I)
    BY <1>1 DEF Instance, OnTheWay
  <2>3. Carries(toClient') \subseteq {AckOpen} \cup Replying(I)
    BY <1>1 DEF Instance, OnTheWay
  <2>4. \A e \in Mine' : Range(buffer'[e]) \subseteq Replying(I)
    BY <1>1 DEF Instance, OnTheWay
  <2>5. \A r \in running : r.channel \in Mine' => r.call \in I
    <3>1. \A r \in running : owner[r.channel] # Absent BY DEF RunningTypes
    <3> QED BY <1>1, <3>1 DEF Instance, OnTheWay
  <2> QED BY <1>3, <2>1, <2>2, <2>3, <2>4, <2>5 DEF Instance, OnTheWay
<1> QED BY <1>4, <1>5, <1>8, <1>10, <1>11, <1>12

\* Buffers that are kept or emptied stay within their limits.
LEMMA BuffersKept ==
    ASSUME Buffers, held' \in {held, <<>>}, buffer' \in [Sockets -> Seq(Payload)],
           \A e \in Sockets : buffer'[e] \in {buffer[e], <<>>},
           \A e \in Sockets : owner'[e] = Absent => owner[e] = Absent
    PROVE  Buffers'
<1>1. <<>> \in Seq(Payload) /\ Len(<<>>) <= Capacity BY Constants, EmptySeq
<1>2. held' \in Seq(Payload) /\ Len(held') <= Capacity BY <1>1 DEF Buffers
<1>3. \A e \in Sockets : Len(buffer'[e]) <= Capacity BY <1>1 DEF Buffers
<1>4. \A e \in Sockets : owner'[e] = Absent => buffer'[e] = <<>> BY DEF Buffers
<1> QED BY <1>2, <1>3, <1>4 DEF Buffers

\* What is held back goes or stays as it is.
LEMMA RangeKept ==
    ASSUME NEW p, NEW q, p \in {q, <<>>}
    PROVE  Range(p) \subseteq Range(q) /\ (p # <<>> => q # <<>>)
<1>1. Range(<<>>) = {} BY EmptySeq DEF Range
<1> QED BY <1>1

\* Steps on which the server neither learns nor does anything about channels.
LEMMA CallsPassed ==
    ASSUME Budget, Channels, Latest, CallsInv,
           UNCHANGED <<status, wire, nextId, asked, service, running, runs, channel>>,
           UNCHANGED <<open, owner, attached, buffer, connection, load, sock>>,
           held' \in {held, <<>>},
           Carries(toServer') \subseteq Carries(toServer) \cup Range(held),
           Carries(toServer') \subseteq Carries(toServer) \/ held' = <<>>,
           \A X : Single(toServer, X) /\ (Carries(toServer) \cap X = {} \/ Range(held) \cap X = {})
                  => Single(toServer', X),
           Carries(toClient') \subseteq Carries(toClient),
           Single(toClient, {AckOpen}) => Single(toClient', {AckOpen})
    PROVE  CallsInv'
<1>1. Buffers /\ Opened BY DEF CallsInv
<1>2. Buffers' BY <1>1, BuffersKept DEF Buffers
<1>3. Opened' BY <1>1 DEF Opened
<1>4. Mine' = Mine BY DEF Mine
<1>5. Range(held') \subseteq Range(held) /\ (held' # <<>> => held # <<>>) BY RangeKept
<1> QED BY <1>2, <1>3, <1>4, <1>5, CallsKept

\* The socket breaks, or the front end notices.
LEMMA CallsBroken ==
    ASSUME Budget, Channels, Latest, CallsInv, SocketBreaks \/ ClientNotices,
           UNCHANGED <<rpc, runs>>
    PROVE  CallsInv'
<1>1. /\ UNCHANGED <<status, wire, nextId, asked, service, running, runs, channel>>
      /\ UNCHANGED <<open, owner, attached, buffer, connection, load, sock>>
      /\ UNCHANGED held
  BY DEF SocketBreaks, ClientNotices, rpc, frontend, backend, channels
<1>2. toServer' \in {toServer, <<>>} /\ toClient' \in {toClient, <<>>}
  BY DEF SocketBreaks, ClientNotices, network
<1>3. /\ Carries(toServer') \subseteq Carries(toServer)
      /\ Carries(toClient') \subseteq Carries(toClient)
      /\ \A X : Single(toServer, X) => Single(toServer', X)
      /\ \A X : Single(toClient, X) => Single(toClient', X)
  BY <1>2, CarriesNothing
<1> QED BY <1>1, <1>3, CallsPassed

\* The front end hears that it is known again and flushes its buffer.
LEMMA CallsAccepted ==
    ASSUME Budget, Negotiation, Channels, Latest, CallsInv, ReconnectAccepted,
           UNCHANGED <<rpc, runs>>
    PROVE  CallsInv'
<1>1. /\ UNCHANGED <<status, wire, nextId, asked, service, running, runs, channel>>
      /\ UNCHANGED <<open, owner, attached, buffer, connection, load, sock>>
      /\ toClient # <<>> /\ toClient' = Tail(toClient) /\ held' = <<>>
      /\ toServer' = Sent(toServer, Flush(held))
  BY DEF ReconnectAccepted, rpc, backend, channels
<1>2. /\ Carries(toClient') \subseteq Carries(toClient)
      /\ \A X : Single(toClient, X) => Single(toClient', X)
  BY <1>1, CarriesTaken DEF Negotiation, Downwards
<1>3. /\ Carries(toServer') \subseteq Carries(toServer) \cup Range(held)
      /\ \A X : Single(toServer, X) /\ (Carries(toServer) \cap X = {} \/ Range(held) \cap X = {})
                => Single(toServer', X)
  <2>1. CASE ~link BY <1>1, <2>1 DEF Sent
  <2>2. CASE link
    <3> DEFINE S == {Initial, Reconnect} \cup Packet
    <3> PICK t : t = Flush(held) OBVIOUS
    <3>1. held \in Seq(Payload) /\ Len(held) <= Capacity BY DEF CallsInv, Buffers
    <3>2. t \in Seq(Packet) BY <3>1, FlushForm
    <3>3. t \in Seq(S) /\ toServer \in Seq(S)
      BY <3>2, SeqMonotonic DEF Negotiation, Upwards
    <3> HIDE DEF S
    <3>4. toServer' = toServer \o t BY <1>1, <2>2 DEF Sent
    <3>5. Carries(t) \subseteq Range(held) /\ \A X : Single(t, X) BY <3>1, CarriesFlush
    <3>6. /\ Carries(toServer') \subseteq Carries(toServer) \cup Carries(t)
          /\ \A X : (/\ Single(toServer, X) /\ Single(t, X)
                     /\ Carries(toServer) \cap X = {} \/ Carries(t) \cap X = {})
                    => Single(toServer', X)
      BY <3>3, <3>4, CarriesJoined
    <3>7. \A X : Range(held) \cap X = {} => Carries(t) \cap X = {} BY <3>5
    <3>8. Carries(toServer') \subseteq Carries(toServer) \cup Range(held) BY <3>5, <3>6
    <3>9. ASSUME NEW X, Single(toServer, X),
                 Carries(toServer) \cap X = {} \/ Range(held) \cap X = {}
          PROVE  Single(toServer', X)
      BY <3>5, <3>6, <3>7, <3>9
    <3> QED BY <3>8, <3>9
  <2> QED BY <2>1, <2>2
<1> QED BY <1>1, <1>2, <1>3, CallsPassed

\* The server ignores a negotiation on a socket it serves already.
LEMMA CallsIgnored ==
    ASSUME Budget, Negotiation, Channels, Latest, CallsInv, NegotiationIgnored,
           UNCHANGED <<rpc, runs>>
    PROVE  CallsInv'
<1>1. /\ UNCHANGED <<status, wire, nextId, asked, service, running, runs, channel>>
      /\ UNCHANGED <<open, owner, attached, buffer, connection, load, sock, held, toClient>>
      /\ toServer # <<>> /\ toServer' = Tail(toServer)
  BY DEF NegotiationIgnored, rpc, frontend, backend, channels
<1>2. /\ Carries(toServer') \subseteq Carries(toServer)
      /\ \A X : Single(toServer, X) => Single(toServer', X)
  BY <1>1, CarriesTaken DEF Negotiation, Upwards
<1> QED BY <1>1, <1>2, CallsPassed

\* The server drops a message for a channel it no longer has.
LEMMA CallsDropped ==
    ASSUME Budget, Negotiation, Channels, Latest, CallsInv, DroppedByServer
    PROVE  CallsInv'
<1>1. /\ UNCHANGED <<status, wire, nextId, asked, service, running, runs, channel>>
      /\ UNCHANGED <<open, owner, attached, buffer, connection, load, sock, held, toClient>>
      /\ toServer # <<>> /\ toServer' = Tail(toServer)
  BY DEF DroppedByServer, ServerReads, rpc, ends
<1>2. /\ Carries(toServer') \subseteq Carries(toServer)
      /\ \A X : Single(toServer, X) => Single(toServer', X)
  BY <1>1, CarriesTaken DEF Negotiation, Upwards
<1> QED BY <1>1, <1>2, CallsPassed

\* The front end connects a new socket.
LEMMA CallsConnected ==
    ASSUME Budget, Budget', Negotiation, Channels, Latest, CallsInv, Connect
    PROVE  CallsInv'
<1>1. /\ UNCHANGED <<status, wire, nextId, asked, service, running, runs, channel>>
      /\ UNCHANGED <<open, owner, attached, buffer, connection, load, held>>
      /\ sock' = sock + 1 /\ toClient' = <<>>
      /\ toServer' = (IF outbox THEN <<Initial>> ELSE <<>>)
                        \o <<IF channel = "none" THEN Initial ELSE Reconnect>>
  BY DEF Connect, SocketConnect, rpc, channels
<1>2. /\ sock \in Nat /\ load \in Sockets /\ 1 .. sock \subseteq Sockets
      /\ Sockets \subseteq Nat \ {0}
  BY InSockets, Constants
<1>3. Carries(toServer') = {} /\ \A X : Single(toServer', X)
  <2> PICK p, r : /\ p = IF outbox THEN <<Initial>> ELSE <<>>
                  /\ r = IF channel = "none" THEN Initial ELSE Reconnect
    OBVIOUS
  <2>1. r \in {Initial, Reconnect} /\ r.type # "data" BY PacketForm
  <2> PICK t : t = <<r>> OBVIOUS
  <2>2. t \in Seq({Initial, Reconnect}) BY <2>1
  <2>3. Carries(t) = {} /\ \A X : Single(t, X) BY <2>1, CarriesWord
  <2>4. p \in Seq({Initial, Reconnect}) /\ Carries(p) = {} /\ \A X : Single(p, X)
    <3>1. CASE outbox
      <4>1. p = <<Initial>> BY <3>1
      <4>2. Carries(<<Initial>>) = {} /\ \A X : Single(<<Initial>>, X) BY PacketForm, CarriesWord
      <4>3. <<Initial>> \in Seq({Initial, Reconnect}) OBVIOUS
      <4> QED BY <4>1, <4>2, <4>3
    <3>2. CASE ~outbox
      <4>1. p = <<>> BY <3>2
      <4> QED BY <4>1, CarriesNothing, EmptySeq
    <3> QED BY <3>1, <3>2
  <2>5. toServer' = p \o t BY <1>1
  <2>6. /\ Carries(toServer') \subseteq Carries(p) \cup Carries(t)
        /\ \A X : (/\ Single(p, X) /\ Single(t, X)
                   /\ Carries(p) \cap X = {} \/ Carries(t) \cap X = {}) => Single(toServer', X)
    BY <2>2, <2>4, <2>5, CarriesJoined
  <2>7. \A X : Single(toServer', X) BY <2>3, <2>4, <2>6
  <2>8. Carries(toServer') = {} BY <2>3, <2>4, <2>6
  <2> QED BY <2>7, <2>8
<1>4. Carries(toClient') = {} /\ \A X : Single(toClient', X) BY <1>1, CarriesNothing
<1>5. 1 .. sock \subseteq 1 .. sock' BY <1>1, <1>2
<1>6. Buffers /\ Opened BY DEF CallsInv
<1>7. Buffers' BY <1>1, <1>6 DEF Buffers
<1>8. Opened' BY <1>1, <1>5, <1>6 DEF Opened
<1>9. Mine' \subseteq Mine
  <2> SUFFICES ASSUME NEW e \in 1 .. sock', connection[load] = e \/ attached[e] = sock'
               PROVE  e \in Mine
    BY <1>1 DEF Mine
  <2>1. 1 .. sock' \subseteq Sockets
    <3>1. sock' <= 1 + 2 * drops' /\ drops' \in 0 .. MaxDrops /\ sock' \in Nat
      BY DEF Budget, Spent, Counts
    <3>2. \A n \in Nat, d \in 0 .. MaxDrops : n <= 1 + 2 * d => n <= 1 + 2 * MaxDrops
      BY ONLY Constants
    <3>3. sock' <= 1 + 2 * MaxDrops BY <3>1, <3>2
    <3> QED BY <3>1, <3>3, Constants
  <2>2. attached[e] \in 0 .. sock BY <2>1 DEF Channels, ChannelTypes
  <2>3. attached[e] # sock' BY <1>1, <1>2, <2>2
  <2>4. connection[load] = e /\ e \in Sockets BY <2>1, <2>3
  <2> QED BY <2>4, MineForm
<1> QED BY <1>1, <1>3, <1>4, <1>5, <1>7, <1>8, <1>9, CallsKept

\* The server starts a channel for a front end that has none.
LEMMA CallsInitial ==
    ASSUME Budget, Negotiation, Channels, Latest, CallsInv, InitialArrives
    PROVE  CallsInv'
<1>1. /\ UNCHANGED <<status, wire, nextId, asked, service, running, runs, channel>>
      /\ UNCHANGED <<load, held, sock>>
      /\ toServer # <<>> /\ toServer[1] = Initial /\ toServer' = Tail(toServer) /\ fresh
      /\ toClient' = Append(toClient, Initial)
  BY Heads DEF InitialArrives, InitialConnect, ClosePaths, frontend
<1>2. /\ owner' = [owner EXCEPT ![sock] = load]
      /\ attached' = [attached EXCEPT ![sock] = sock]
      /\ buffer' = IF connection[load] = Absent THEN buffer
                   ELSE [buffer EXCEPT ![connection[load]] = <<>>]
      /\ connection' = [connection EXCEPT ![load] = sock]
      /\ open' = {e \in open : connection'[owner'[e]] = e}
  BY DEF InitialArrives, InitialConnect, ClosePaths
<1>3. /\ sock \in Nat /\ load \in Sockets /\ 1 .. sock \subseteq Sockets
      /\ Sockets \subseteq Nat \ {0} /\ load # 0
      /\ sock >= 1 => sock \in Sockets /\ sock \in 1 .. sock
  BY InSockets, Constants
<1>4. sock >= 1 /\ toClient = <<>> BY <1>1 DEF Negotiation, Downwards
<1>5. sock \in Sockets /\ sock \in 1 .. sock /\ load \in Sockets /\ load # Absent
  BY <1>3, <1>4 DEF Absent
<1>6. owner[sock] = Absent BY <1>1 DEF Latest
<1>7. /\ owner \in [Sockets -> 0 .. load] /\ attached \in [Sockets -> 0 .. sock]
      /\ connection \in [Sockets -> 0 .. sock]
  BY DEF Channels, ChannelTypes
<1>8. channel # "open"
  <2>1. 1 \in DOMAIN toServer BY <1>1, Places DEF Negotiation, Upwards
  <2> QED BY <1>1, <2>1 DEF Negotiation, Upwards
<1>9. service # "open" BY <1>8 DEF CallsInv, ServiceStates, Ends, Budget
<1>10. Carries(toClient') = {} /\ \A X : Single(toClient', X)
  <2> PICK w : w = Initial OBVIOUS
  <2>1. toClient' = <<w>> BY <1>1, <1>4
  <2> QED BY <2>1, CarriesWord, PacketForm
<1>11. /\ Carries(toServer') \subseteq Carries(toServer)
       /\ \A X : Single(toServer, X) => Single(toServer', X)
  BY <1>1, CarriesTaken DEF Negotiation, Upwards
<1>12. /\ owner'[sock] = load /\ \A e \in Sockets \ {sock} : owner'[e] = owner[e]
       /\ attached'[sock] = sock /\ \A e \in Sockets \ {sock} : attached'[e] = attached[e]
       /\ connection'[load] = sock
  BY <1>2, <1>5, <1>7
<1>13. Buffers /\ Opened BY DEF CallsInv
<1>14. /\ buffer' \in [Sockets -> Seq(Payload)]
       /\ \A e \in Sockets : buffer'[e] \in {buffer[e], <<>>}
  BY <1>2, <1>13, EmptySeq DEF Buffers
<1>15. Buffers'
  <2>1. \A e \in Sockets : owner'[e] = Absent => owner[e] = Absent BY <1>5, <1>12
  <2>2. held' \in {held, <<>>} BY <1>1
  <2> QED BY <1>13, <1>14, <2>1, <2>2, BuffersKept
<1>16. open' \subseteq open /\ sock \notin open BY <1>2, <1>6, <1>13 DEF Opened
<1>17. \A e \in open' : e \in 1 .. sock' /\ owner'[e] # Absent /\ connection'[owner'[e]] = e
  BY <1>1, <1>2, <1>3, <1>12, <1>13, <1>16 DEF Opened
<1>18. Opened' BY <1>17 DEF Opened
<1>19. \A e \in Mine' : owner[e] = Absent /\ Range(buffer'[e]) = {} /\ e \notin open'
  <2> SUFFICES ASSUME NEW e \in Mine' PROVE e = sock /\ buffer'[sock] = <<>>
    BY <1>6, <1>16, EmptySeq DEF Range
  <2>1. e \in 1 .. sock /\ (connection'[load] = e \/ attached'[e] = sock) BY <1>1 DEF Mine
  <2>2. e = sock
    <3> SUFFICES ASSUME e # sock, attached[e] = sock PROVE FALSE BY <1>3, <1>12, <2>1
    <3>1. watch[sock] = e BY <1>3, <1>4, <2>1, MineForm
    <3>2. watch[sock] = Absent BY <1>1 DEF Latest
    <3> QED BY <1>3, <2>1, <3>1, <3>2 DEF Absent
  <2>3. buffer[sock] = <<>> BY <1>5, <1>6, <1>13 DEF Buffers
  <2> QED BY <1>5, <1>14, <2>2, <2>3
<1>20. \A e \in 1 .. sock : owner[e] # Absent => owner'[e] # Absent BY <1>3, <1>5, <1>12
<1>21. 1 .. sock \subseteq 1 .. sock' /\ Range(held') \subseteq Range(held)
       /\ (held' # <<>> => held # <<>>)
  BY <1>1
<1> QED BY <1>1, <1>9, <1>10, <1>11, <1>15, <1>18, <1>19, <1>20, <1>21, CallsKept

\* What a channel holds back goes to the socket its front end came back on.
LEMMA CallsReconnected ==
    ASSUME Budget, Negotiation, Channels, Latest, CallsInv, ReconnectArrives
    PROVE  CallsInv'
<1>1. /\ UNCHANGED <<status, wire, nextId, asked, service, running, runs, channel>>
      /\ UNCHANGED <<load, held, sock, open, owner, connection>>
      /\ toServer # <<>> /\ toServer' = Tail(toServer) /\ fresh
  BY DEF ReconnectArrives, ReconnectFrontend, rpc, frontend
<1>2. /\ sock \in Nat /\ load \in Sockets /\ 1 .. sock \subseteq Sockets
      /\ Sockets \subseteq Nat \ {0} /\ load # 0
  BY InSockets, Constants
<1>3. sock >= 1 /\ toClient = <<>> BY <1>1 DEF Negotiation, Downwards
<1>4. /\ Carries(toServer') \subseteq Carries(toServer)
      /\ \A X : Single(toServer, X) => Single(toServer', X)
  BY <1>1, CarriesTaken DEF Negotiation, Upwards
<1>5. Buffers /\ Opened BY DEF CallsInv
<1>6. Opened' BY <1>1, <1>5 DEF Opened
<1>7. CASE connection[load] = Absent
  <2>1. /\ UNCHANGED <<attached, buffer>>
        /\ toClient' = Append(toClient, Known(FALSE))
    BY <1>7 DEF ReconnectArrives, ReconnectFrontend
  <2>2. Carries(toClient') = {} /\ \A X : Single(toClient', X)
    <3> DEFINE w == Known(FALSE)
    <3>1. toClient' = <<w>> BY <1>3, <2>1
    <3> QED BY <3>1, CarriesWord, PacketForm
  <2> QED BY <1>1, <1>4, <2>1, <2>2, CallsPassed
<1>8. CASE connection[load] # Absent
  <2> PICK e : e = connection[load] OBVIOUS
  <2>1. /\ attached' = [attached EXCEPT ![e] = sock]
        /\ toClient' = Append(toClient, Known(TRUE)) \o Flush(buffer[e])
        /\ buffer' = [buffer EXCEPT ![e] = <<>>]
    BY <1>8 DEF ReconnectArrives, ReconnectFrontend
  <2>2. e \in Sockets /\ e \in Mine
    <3>1. connection[load] \in 0 .. sock BY <1>2 DEF Channels, ChannelTypes
    <3>2. e \in 1 .. sock BY <1>2, <1>8, <3>1 DEF Absent
    <3> QED BY <1>2, <3>2 DEF Mine
  <2>3. /\ \A f \in Sockets \ {e} : attached'[f] = attached[f] /\ buffer'[f] = buffer[f]
        /\ buffer'[e] = <<>> /\ buffer' \in [Sockets -> Seq(Payload)]
    BY <1>5, <2>1, <2>2, EmptySeq DEF Channels, ChannelTypes, Buffers
  <2>4. Buffers'
    <3>1. \A f \in Sockets : buffer'[f] \in {buffer[f], <<>>} BY <2>3
    <3>2. held' \in {held, <<>>} /\ owner' = owner BY <1>1
    <3> QED BY <1>5, <2>3, <3>1, <3>2, BuffersKept
  <2>5. Mine' \subseteq {e}
    <3> SUFFICES ASSUME NEW f \in 1 .. sock, f # e,
                        connection[load] = f \/ attached'[f] = sock
                 PROVE  FALSE
      BY <1>1 DEF Mine
    <3>1. attached[f] = sock BY <1>2, <2>3
    <3>2. watch[sock] = f BY <1>2, <1>3, <3>1, MineForm
    <3>3. watch[sock] = Absent BY <1>1 DEF Latest
    <3> QED BY <1>2, <3>2, <3>3 DEF Absent
  <2>6. \A f \in Mine' : /\ f \in Mine /\ Range(buffer'[f]) \subseteq Range(buffer[f])
                         /\ f \in open' => f \in open
    <3>1. Range(<<>>) = {} BY EmptySeq DEF Range
    <3> QED BY <1>1, <2>2, <2>3, <2>5, <3>1
  <2>7. Carries(toClient') \subseteq Range(buffer[e]) /\ \A X : Single(toClient', X)
    <3> PICK k : k = Known(TRUE) OBVIOUS
    <3> PICK b, t : b = buffer[e] /\ t = Flush(b) OBVIOUS
    <3> PICK p : p = <<k>> OBVIOUS
    <3>1. b \in Seq(Payload) /\ Len(b) <= Capacity BY <1>5, <2>2 DEF Buffers
    <3>2. t \in Seq(Packet) BY <3>1, FlushForm
    <3>3. Carries(t) \subseteq Range(b) /\ \A X : Single(t, X) BY <3>1, CarriesFlush
    <3>4. Carries(p) = {} /\ \A X : Single(p, X) BY PacketForm, CarriesWord
    <3>5. p \in Seq({k} \cup Packet) /\ t \in Seq({k} \cup Packet)
      <4>1. p \in Seq({k} \cup Packet) OBVIOUS
      <4>2. t \in Seq({k} \cup Packet) BY <3>2, SeqMonotonic
      <4> QED BY <4>1, <4>2
    <3>6. toClient' = p \o t BY <1>3, <2>1
    <3>7. /\ Carries(toClient') \subseteq Carries(p) \cup Carries(t)
          /\ \A X : (/\ Single(p, X) /\ Single(t, X)
                     /\ Carries(p) \cap X = {} \/ Carries(t) \cap X = {}) => Single(toClient', X)
      BY ONLY <3>5, <3>6, CarriesJoined
    <3>8. Carries(toClient') \subseteq Range(buffer[e]) BY <3>3, <3>4, <3>7
    <3>9. \A X : Single(toClient', X) BY <3>3, <3>4, <3>7
    <3> QED BY <3>8, <3>9
  <2>8. Range(held') \subseteq Range(held) /\ (held' # <<>> => held # <<>>)
        /\ 1 .. sock \subseteq 1 .. sock'
    BY <1>1
  <2>9. \A m \in Carries(toClient') : \E f \in Mine : m \in Range(buffer[f]) BY <2>2, <2>7
  <2> QED BY <1>1, <1>4, <1>6, <2>4, <2>6, <2>7, <2>8, <2>9, CallsKept
<1> QED BY <1>7, <1>8

\* A channel is closed, or its socket is found gone.
LEMMA CallsClosed ==
    ASSUME Budget, Channels, Latest, CallsInv,
           UNCHANGED <<timeout, frontend, network>>, ClosePaths,
           UNCHANGED owner,
           attached' \in [Sockets -> 0 .. sock], connection' \in [Sockets -> 0 .. sock],
           \A e \in Sockets : attached'[e] \in {attached[e], Absent},
           \A i \in Sockets : connection'[i] \in {connection[i], Absent},
           buffer' \in [Sockets -> Seq(Payload)],
           \A e \in Sockets : buffer'[e] \in {buffer[e], <<>>}
    PROVE  CallsInv'
<1>1. /\ UNCHANGED <<status, wire, nextId, asked, service, running, runs, channel>>
      /\ UNCHANGED <<load, held, sock, toServer, toClient>>
      /\ open' = {e \in open : connection'[owner'[e]] = e}
  BY DEF ClosePaths, frontend, network
<1>2. /\ sock \in Nat /\ load \in Sockets /\ 1 .. sock \subseteq Sockets
      /\ Sockets \subseteq Nat \ {0} /\ load # 0
  BY InSockets, Constants
<1>3. Buffers /\ Opened BY DEF CallsInv
<1>4. Buffers'
  <2>1. held' \in {held, <<>>} BY <1>1
  <2> QED BY <1>3, <2>1, BuffersKept
<1>5. Opened' BY <1>1, <1>3 DEF Opened
<1>6. Mine' \subseteq Mine
  <2> SUFFICES ASSUME NEW e \in 1 .. sock, connection'[load] = e \/ attached'[e] = sock
               PROVE  connection[load] = e \/ attached[e] = sock
    BY <1>1 DEF Mine
  <2>1. e # Absent /\ sock # Absent BY <1>2 DEF Absent
  <2> QED BY <1>2, <2>1
<1>7. \A e \in Mine' : /\ e \in Mine /\ Range(buffer'[e]) \subseteq Range(buffer[e])
                       /\ e \in open' => e \in open
  <2>1. \A e \in Sockets : Range(buffer'[e]) \subseteq Range(buffer[e]) BY RangeKept
  <2>2. Mine \subseteq Sockets BY MineForm
  <2> QED BY <1>1, <1>6, <2>1, <2>2
<1>8. connection[load] \in open \cup {Absent} => connection'[load'] \in open' \cup {Absent}
  <2> SUFFICES ASSUME connection[load] \in open, connection'[load] # Absent
               PROVE  connection'[load] \in open'
    BY <1>1, <1>2
  <2>1. connection'[load] = connection[load] /\ connection[load] # Absent BY <1>2
  <2>2. connection[load] \in Sockets BY <1>2, <1>3 DEF Opened
  <2>3. owner[connection[load]] = load BY <1>2, <2>1 DEF Channels, ChannelLinks
  <2> QED BY <1>1, <2>1, <2>3
<1>9. Range(held') \subseteq Range(held) /\ (held' # <<>> => held # <<>>)
      /\ 1 .. sock \subseteq 1 .. sock'
  BY <1>1
<1> QED BY <1>1, <1>4, <1>5, <1>7, <1>8, <1>9, CallsKept

\* The server notices a broken socket, or its timer closes the channel.
LEMMA CallsDisconnected ==
    ASSUME Budget, Channels, Latest, CallsInv,
           NEW s \in Sockets, DisconnectFires(s) \/ TimerFires(s)
    PROVE  CallsInv'
<1>1. ClosePaths BY DEF DisconnectFires, TimerFires
<1>2. UNCHANGED <<timeout, frontend, network, owner>>
  BY DEF DisconnectFires, TimerFires, ServerNotices, CloseTimeout
<1>3. 0 \in 0 .. sock BY InSockets
<1>4. /\ attached \in [Sockets -> 0 .. sock] /\ connection \in [Sockets -> 0 .. sock]
      /\ buffer \in [Sockets -> Seq(Payload)]
  BY DEF Channels, ChannelTypes, CallsInv, Buffers
<1>5. /\ attached' \in [Sockets -> 0 .. sock]
      /\ \A e \in Sockets : attached'[e] \in {attached[e], Absent}
  <2>1. attached' = attached \/ attached' = [attached EXCEPT ![watch[s]] = Absent]
    BY DEF DisconnectFires, TimerFires, ServerNotices, CloseTimeout
  <2> QED BY <1>3, <1>4, <2>1 DEF Absent
<1>6. \/ UNCHANGED <<connection, buffer>>
      \/ \E i : /\ connection' = [connection EXCEPT ![i] = Absent]
                /\ buffer' = IF connection[i] = Absent THEN buffer
                             ELSE [buffer EXCEPT ![connection[i]] = <<>>]
  BY DEF DisconnectFires, TimerFires, ServerNotices, CloseTimeout, Closed
<1>7. /\ connection' \in [Sockets -> 0 .. sock]
      /\ \A i \in Sockets : connection'[i] \in {connection[i], Absent}
  BY <1>3, <1>4, <1>6 DEF Absent
<1>8. /\ buffer' \in [Sockets -> Seq(Payload)]
      /\ \A e \in Sockets : buffer'[e] \in {buffer[e], <<>>}
  <2>1. buffer' = buffer \/ \E d : buffer' = [buffer EXCEPT ![d] = <<>>] BY <1>6
  <2>2. <<>> \in Seq(Payload) OBVIOUS
  <2> QED BY <1>4, <2>1, <2>2
<1> QED BY <1>1, <1>2, <1>5, <1>7, <1>8, CallsClosed

\* A message that is not carried is not carried twice.
LEMMA SingleNone ==
    ASSUME NEW q, NEW X, Carries(q) \cap X = {} PROVE Single(q, X)
BY DEF Carries, Single

\* The protocol instance of the front end ends, and none follows yet.
LEMMA CallsRestarted ==
    ASSUME CallsInv, UNCHANGED <<wire, nextId, asked, open, running, runs>>,
           UNCHANGED <<owner, connection, buffer, sock>>, held' = <<>>,
           NEW cs \in {Pending, Pending \cup Waiting}, Reject(cs),
           ServiceStates', service' # "open",
           Carries(toClient') = {}, Carries(toServer') \subseteq {OpenPath},
           Single(toServer', {OpenPath}),
           OpenPath \in Carries(toServer') => Opening' /\ Mine' \cap open = {},
           \A e \in Mine' : Range(buffer[e]) = {}, \A r \in running : r.channel \notin Mine'
    PROVE  CallsInv'
<1> USE DEF CallsInv
<1>1. /\ status' \in [Calls -> {"idle", "waiting", "pending", "answered", "rejected"}]
      /\ \A c \in Calls : status'[c] = IF c \in cs THEN "rejected" ELSE status[c]
  BY DEF Reject, CallTypes
<1>2. Pending \subseteq cs /\ cs \subseteq Calls BY DEF Pending, Waiting
<1>3. Made \subseteq Made' /\ Made' \subseteq Calls BY <1>1, <1>2 DEF Made
<1>4. Pending' = {} BY <1>1, <1>2 DEF Pending
<1>5. CallTypes'
  <2>1. nextId \in Nat /\ nextId <= Cardinality(Made) BY DEF CallTypes
  <2>2. /\ Cardinality(Made) <= Cardinality(Made')
        /\ Cardinality(Made) \in Nat /\ Cardinality(Made') \in Nat
    BY <1>3, FewCalls
  <2>3. nextId' \in Nat /\ nextId' <= Cardinality(Made') BY <2>1, <2>2
  <2>4. \A c \in asked : status'[c] # "idle" BY <1>1, <1>2 DEF CallTypes
  <2>5. \A c \in Calls \ Made' : runs[c] = 0 BY <1>3 DEF CallTypes
  <2>6. /\ wire' \in [Calls -> 0 .. MaxCalls] /\ asked' \subseteq Calls
        /\ runs' \in [Calls -> 0 .. 1]
    BY DEF CallTypes
  <2> QED BY <1>1, <2>3, <2>4, <2>5, <2>6 DEF CallTypes
<1>6. Buffers' BY Constants, EmptySeq DEF Buffers
<1>7. Opened' BY DEF Opened
<1>8. RunningTypes' BY DEF RunningTypes
<1>9. Range(held') = {} BY EmptySeq DEF Range
<1>10. RequestsOnce'
  <2>1. \A c \in Calls : Carries(toServer') \cap RequestsOf(c) = {} BY Words
  <2>2. \A c \in Calls : Single(toServer', RequestsOf(c)) BY <2>1, SingleNone
  <2>3. \A c \in Calls : RequestsOf(c)' = RequestsOf(c) BY DEF RequestsOf
  <2> QED BY <1>9, <2>1, <2>2, <2>3 DEF RequestsOnce
<1>11. OpeningOnce'
  <2>1. Single(toClient', {AckOpen}) BY SingleNone
  <2> QED BY <2>1 DEF OpeningOnce
<1>12. Instance({})'
  <2>1. Numbered({})' BY <1>4 DEF Numbered
  <2>2. OnTheWay({})' BY <1>9 DEF OnTheWay
  <2> QED BY <2>1, <2>2 DEF Instance
<1> QED BY <1>5, <1>6, <1>7, <1>8, <1>10, <1>11, <1>12

\* The only message a new channel is opened with is the one that opens the service path.
LEMMA OpensForm ==
    /\ ToOpen \in Seq(Payload)
    /\ Carries(Singly(ToOpen)) \subseteq {OpenPath} /\ \A X : Single(Singly(ToOpen), X)
    /\ ClosedService = "forgotten" => Carries(Singly(ToOpen)) = {}
<1> DEFINE o == OpenPath
<1>1. o \in Payload BY Words
<1> HIDE DEF o
<1>2. ToOpen = <<>> \/ (ToOpen = <<o>> /\ ClosedService # "forgotten") BY DEF ToOpen, o
<1>3. CASE ToOpen = <<>>
  <2> PICK t : t = ToOpen OBVIOUS
  <2>1. t \in Seq(Payload) /\ DOMAIN t = {} /\ Range(t) = {} BY <1>3, EmptySeq DEF Range
  <2>2. Carries(Singly(t)) \subseteq Range(t) /\ \A X : Single(Singly(t), X)
    BY <2>1, CarriesSingly
  <2> QED BY <2>1, <2>2
<1>4. CASE ToOpen = <<o>> /\ ClosedService # "forgotten"
  <2> PICK t : t = ToOpen OBVIOUS
  <2>1. t \in Seq(Payload) /\ DOMAIN t = {1} /\ t[1] = o BY <1>1, <1>4
  <2>2. Range(t) = {o} BY <2>1 DEF Range
  <2>3. Carries(Singly(t)) \subseteq Range(t) /\ \A X : Single(Singly(t), X)
    BY <2>1, CarriesSingly
  <2> QED BY <1>4, <2>1, <2>2, <2>3 DEF o
<1> QED BY <1>2, <1>3, <1>4

\* A channel that has just been created carries no more than the opening of its path.
LEMMA CallsCreated ==
    ASSUME Budget, Negotiation, CallsInv, NewChannel
    PROVE  CallsInv'
<1>1. /\ UNCHANGED <<wire, nextId, asked, open, running, runs>>
      /\ UNCHANGED <<owner, attached, connection, buffer, sock, load, link>>
      /\ held' = <<>> /\ channel' = "open" /\ service' = OpeningService
      /\ toClient # <<>> /\ toClient[1] = Initial /\ toClient' = Tail(toClient)
      /\ toServer' = Sent(toServer, Singly(ToOpen)) /\ Reject(Pending)
  BY DEF NewChannel, ConnectNewChannel, FromServer, Drained, backend, channels
<1>2. channel # "open" BY <1>1 DEF Negotiation, Downwards
<1>3. service \in {"new", "closed", "forgotten"}
  BY <1>2 DEF CallsInv, ServiceStates, Budget, Ends
<1>4. PICK I \in SUBSET Calls : Instance(I) BY DEF CallsInv
<1>5. Instance({}) BY <1>3, <1>4 DEF Instance, Numbered
<1>6. /\ ClosedService = service
      /\ service = "forgotten" => OpeningService = "forgotten"
      /\ service # "forgotten" => OpeningService \in {"opening", "reopening"}
  BY <1>3 DEF ClosedService, OpeningService
<1>7. Carries(toServer) = {}
  BY <1>3, <1>5, Words DEF CallsInv, OpeningOnce, Opening, Instance, OnTheWay
<1>8. Carries(toClient) = {}
  BY <1>3, <1>5, Words DEF CallsInv, OpeningOnce, Opening, Instance, OnTheWay
<1>9. Carries(toClient') = {}
  BY <1>1, <1>8, CarriesTaken DEF Negotiation, Downwards
<1>10. /\ Carries(toServer') \subseteq {OpenPath} /\ Single(toServer', {OpenPath})
       /\ service = "forgotten" => Carries(toServer') = {}
  <2> DEFINE S == {Initial, Reconnect} \cup Packet
  <2> PICK t : t = Singly(ToOpen) OBVIOUS
  <2>1. link BY <1>1 DEF Negotiation, Downwards
  <2>2. t \in Seq(Packet) BY OpensForm, SinglyForm
  <2>3. t \in Seq(S) /\ toServer \in Seq(S) BY <2>2, SeqMonotonic DEF Negotiation, Upwards
  <2> HIDE DEF S
  <2>4. toServer' = toServer \o t BY <1>1, <2>1 DEF Sent
  <2>5. /\ Carries(t) \subseteq {OpenPath} /\ \A X : Single(t, X)
        /\ service = "forgotten" => Carries(t) = {}
    BY <1>6, OpensForm
  <2>6. /\ Carries(toServer') \subseteq Carries(toServer) \cup Carries(t)
        /\ \A X : (/\ Single(toServer, X) /\ Single(t, X)
                   /\ Carries(toServer) \cap X = {} \/ Carries(t) \cap X = {})
                  => Single(toServer', X)
    BY <2>3, <2>4, CarriesJoined
  <2>7. Single(toServer', {OpenPath}) BY <1>7, <2>5, <2>6, SingleNone
  <2>8. Carries(toServer') \subseteq Carries(t) BY <1>7, <2>6
  <2> QED BY <2>5, <2>7, <2>8
<1>11. Mine' = Mine /\ Mine \cap open = {}
  BY <1>1, <1>3 DEF Mine, CallsInv, ServiceStates, Opening
<1>12. service' \in {"opening", "reopening", "forgotten"} BY <1>1, <1>3, <1>6
<1>13. ServiceStates' BY <1>1, <1>11, <1>12 DEF ServiceStates
<1>14. OpenPath \in Carries(toServer') => Opening' /\ Mine' \cap open = {}
  BY <1>1, <1>6, <1>10, <1>11 DEF Opening
<1>15. /\ \A e \in Mine' : Range(buffer[e]) = {}
       /\ \A r \in running : r.channel \notin Mine'
  BY <1>5, <1>11, Words DEF Instance, OnTheWay
<1> QED BY <1>1, <1>9, <1>10, <1>12, <1>13, <1>14, <1>15, CallsRestarted

\* A front end the server does not know keeps no channel.
LEMMA CallsRefused ==
    ASSUME Budget, Budget', Negotiation, Channels, Latest, CallsInv,
           NEW reload \in BOOLEAN, Refused(reload)
    PROVE  CallsInv'
<1>1. /\ UNCHANGED <<wire, nextId, asked, open, running, runs>>
      /\ UNCHANGED <<owner, attached, connection, buffer, sock>>
      /\ held' = <<>> /\ toServer' = <<>> /\ toClient' = <<>>
      /\ toClient # <<>> /\ toClient[1] = Known(FALSE)
      /\ IF reload THEN load' = load + 1 /\ channel' = "none"
                   ELSE channel' = "closed" /\ UNCHANGED load
      /\ Reject(IF reload THEN Pending \cup Waiting ELSE Pending)
      /\ service' = IF reload THEN "new" ELSE ClosedService
  <2>1. /\ UNCHANGED <<wire, nextId, asked, open, running, runs>>
        /\ UNCHANGED <<owner, attached, connection, buffer, sock>>
        /\ toServer' = <<>> /\ toClient' = <<>> /\ toClient # <<>>
    BY DEF Refused, ReconnectRefused, backend, channels
  <2>2. toClient[1] = Known(FALSE) BY <2>1, Heads DEF Refused, ReconnectRefused
  <2>3. held' = <<>> BY DEF Refused, ReconnectRefused, Drained
  <2>4. IF reload THEN load' = load + 1 /\ channel' = "none"
                  ELSE channel' = "closed" /\ UNCHANGED load
    BY DEF Refused, ReconnectRefused
  <2>5. /\ Reject(IF reload THEN Pending \cup Waiting ELSE Pending)
        /\ service' = IF reload THEN "new" ELSE ClosedService
    BY DEF Refused
  <2> QED BY <2>1, <2>2, <2>3, <2>4, <2>5
<1>2. /\ load \in Sockets /\ load' \in Sockets /\ sock \in Nat /\ load \in Nat \ {0}
      /\ 1 .. sock \subseteq Sockets /\ Sockets \subseteq Nat \ {0}
  <2>1. load' \in Sockets
    <3>1. CASE UNCHANGED load BY <3>1, InSockets
    <3>2. CASE load' = load + 1
      <4>1. /\ load' \in Nat \ {0} /\ load' <= sock' + 1 /\ drops' \in 0 .. MaxDrops
            /\ sock' \in Nat /\ sock' <= 1 + 2 * drops'
        BY DEF Budget, Counts, Linked, Spent
      <4>2. sock' + 1 <= 1 + 2 * drops' BY <1>1 DEF Refused, ReconnectRefused, Budget, Spent
      <4>3. \A n, k \in Nat, d \in 0 .. MaxDrops :
               n + 1 <= 1 + 2 * d /\ k <= n + 1 => k <= 1 + 2 * MaxDrops
        BY ONLY Constants
      <4>4. load' <= 1 + 2 * MaxDrops BY <4>1, <4>2, <4>3
      <4> QED BY <4>1, <4>4, Constants
    <3> QED BY <1>1, <3>1, <3>2
  <2> QED BY <2>1, InSockets, Constants
<1>3. link BY <1>1 DEF Negotiation, Downwards
<1>4. sock >= 1 BY <1>3 DEF Budget, Linked
<1>5. watch[sock] = Absent /\ connection[load] = Absent BY <1>1 DEF Latest
<1>6. connection[load'] = Absent
  <2>1. CASE UNCHANGED load BY <1>5, <2>1
  <2>2. CASE load' = load + 1
    <3> SUFFICES ASSUME connection[load'] # Absent PROVE FALSE OBVIOUS
    <3>1. connection[load'] \in 0 .. sock BY <1>2 DEF Channels, ChannelTypes
    <3>2. connection[load'] \in Sockets BY <1>2, <3>1 DEF Absent
    <3>3. owner[connection[load']] = load' BY <1>2 DEF Channels, ChannelLinks
    <3>4. owner[connection[load']] \in 0 .. load BY <3>2 DEF Channels, ChannelTypes
    <3> QED BY <1>2, <2>2, <3>3, <3>4
  <2> QED BY <1>1, <2>1, <2>2
<1>7. Mine' = {}
  <2> SUFFICES ASSUME NEW e \in 1 .. sock, connection[load'] = e \/ attached[e] = sock
               PROVE  FALSE
    BY <1>1 DEF Mine
  <2>1. e \in Sockets /\ e # Absent BY <1>2 DEF Absent
  <2>2. attached[e] # sock
    <3> SUFFICES ASSUME attached[e] = sock PROVE FALSE OBVIOUS
    <3>1. watch[sock] = e BY <1>4, <2>1, MineForm
    <3> QED BY <1>5, <2>1, <3>1
  <2> QED BY <1>6, <2>1, <2>2
<1>8. /\ Carries(toServer') = {} /\ Carries(toClient') = {}
      /\ \A X : Single(toServer', X)
  BY <1>1, CarriesNothing
<1>9. channel # "none" BY <1>1 DEF Negotiation, Downwards
<1>10. service \in {"opening", "reopening", "open", "forgotten", "closed"}
  BY <1>9 DEF CallsInv, ServiceStates, Budget, Ends
<1>11. ServiceStates' /\ service' # "open"
  <2>1. CASE reload BY <1>1, <1>7, <2>1 DEF ServiceStates
  <2>2. CASE ~reload
    <3>1. ClosedService \in {"forgotten", "closed"} BY <1>10 DEF ClosedService
    <3> QED BY <1>1, <1>7, <2>2, <3>1 DEF ServiceStates
  <2> QED BY <2>1, <2>2
<1>12. PICK cs : cs = IF reload THEN Pending \cup Waiting ELSE Pending OBVIOUS
<1>13. cs \in {Pending, Pending \cup Waiting} /\ Reject(cs) BY <1>1, <1>12
<1> QED BY <1>1, <1>7, <1>8, <1>11, <1>13, CallsRestarted

\* The front end registers the calls cs and writes their requests.
LEMMA CallsRegistered ==
    ASSUME Budget, Negotiation, CallsInv, NEW I \in SUBSET Calls, Instance(I),
           NEW n \in Nat, NEW cs \in Seq(Calls), \A j, k \in DOMAIN cs : cs[j] = cs[k] => j = k,
           Range(cs) \cap Made = {}, n + Len(cs) <= MaxCalls,
           n + Len(cs) <= Cardinality(Made \cup Range(cs)), \A c \in I : wire[c] < n,
           Registered(cs, n), ClientFits(Requests(cs, n)), ClientWrite(Requests(cs, n)),
           UNCHANGED <<ends, buffer, asked, open, running, runs>>,
           channel = "open", service' = "open", connection[load] \in open \cup {Absent},
           OpenPath \notin Carries(toServer),
           Carries(toClient') \subseteq Carries(toClient) \ {AckOpen},
           \A c \in Range(cs) : status[c] # "pending", \A c \in asked : status[c] # "idle"
    PROVE  CallsInv'
<1> USE DEF CallsInv
<1> DEFINE J == I \cup Range(cs)
<1> PICK R : R = Requests(cs, n) OBVIOUS
<1>1. /\ UNCHANGED <<asked, open, running, runs, buffer, channel, owner, attached, connection>>
      /\ UNCHANGED <<load, sock, connected, link>>
  BY DEF ends
<1>2. /\ R \in Seq(Payload)
      /\ \A i \in DOMAIN R : \E k \in DOMAIN cs :
            /\ R[i].call = cs[k] /\ R[i].id = n + k - 1
            /\ R[i].kind = "request" \/ (R[i].kind = "cancel" /\ cs[k] \in asked)
      /\ \A i, j \in DOMAIN R :
            R[i].kind = "request" /\ R[j].kind = "request" /\ R[i].call = R[j].call => i = j
  <2>1. n + Len(cs) <= MaxCalls /\ \A j, k \in DOMAIN cs : cs[j] = cs[k] => j = k OBVIOUS
  <2>2. AskFor(R, cs, n)
    BY ONLY <2>1, R = Requests(cs, n), n \in Nat, cs \in Seq(Calls), RequestsForm
  <2> QED BY <2>2 DEF AskFor
<1>3. /\ held' \in Seq(Payload) /\ Len(held') <= Capacity
      /\ Carries(toServer') \subseteq Carries(toServer) \cup Range(R)
      /\ Range(held') \subseteq Range(held) \cup Range(R)
      /\ UNCHANGED held \/ UNCHANGED toServer
      /\ \A X : (/\ Single(toServer, X)
                 /\ Carries(toServer) \cap X = {} \/ Range(R) \cap X = {}
                 /\ \A i, j \in DOMAIN R : R[i] \in X /\ R[j] \in X => i = j)
                => Single(toServer', X)
  <2>1. Buffers /\ ClientFits(R) /\ ClientWrite(R) OBVIOUS
  <2> QED BY <1>2, <2>1, ClientWrites
<1>4. DOMAIN cs = 1 .. Len(cs) /\ Len(cs) \in Nat /\ \A k \in DOMAIN cs : cs[k] \in Calls BY Places
<1>5. /\ \A c \in Calls : status'[c] = IF c \in Range(cs) THEN "pending" ELSE status[c]
      /\ status' \in [Calls -> {"idle", "waiting", "pending", "answered", "rejected"}]
  BY DEF Registered, CallTypes
<1>6. /\ \A k \in DOMAIN cs : wire'[cs[k]] = n + k - 1
      /\ \A c \in Calls \ Range(cs) : wire'[c] = wire[c]
      /\ wire' \in [Calls -> 0 .. MaxCalls]
  <2>1. /\ \A c \in Calls : wire'[c] = IF c \in Range(cs)
              THEN n + (CHOOSE k \in DOMAIN cs : cs[k] = c) - 1 ELSE wire[c]
        /\ wire' = [c \in Calls |-> wire'[c]]
    BY DEF Registered
  <2>2. \A k \in DOMAIN cs : (CHOOSE j \in DOMAIN cs : cs[j] = cs[k]) = k OBVIOUS
  <2>3. \A k \in DOMAIN cs : wire'[cs[k]] = n + k - 1 BY <1>4, <2>1, <2>2 DEF Range
  <2>4. \A c \in Calls \ Range(cs) : wire'[c] = wire[c] BY <2>1
  <2>5. \A k \in DOMAIN cs : n + k - 1 \in 0 .. MaxCalls BY <1>4, Constants
  <2>6. \A c \in Calls : wire'[c] \in 0 .. MaxCalls
    BY <2>3, <2>4, <2>5 DEF Range, CallTypes
  <2> QED BY <2>1, <2>3, <2>4, <2>6
<1>7. Range(cs) \subseteq Calls /\ Made' = Made \cup Range(cs) BY <1>4, <1>5 DEF Made, Range
<1>8. CallTypes'
  <2>1. nextId' = n + Len(cs) BY DEF Registered
  <2>2. nextId' \in Nat /\ nextId' <= Cardinality(Made') BY <1>4, <1>7, <2>1
  <2>3. \A c \in asked : status'[c] # "idle" BY <1>5 DEF CallTypes
  <2> QED BY <1>1, <1>5, <1>6, <1>7, <2>2, <2>3 DEF CallTypes
<1>9. Buffers' BY <1>1, <1>3 DEF Buffers
<1>10. Opened' BY <1>1 DEF Opened
<1>11. RunningTypes'
  <2>1. \A r \in running : r.call \in Calls \ Range(cs)
    <3>1. \A r \in running : r.call \in Calls /\ runs[r.call] = 1 BY DEF RunningTypes
    <3>2. \A c \in Calls \ Made : runs[c] = 0 BY DEF CallTypes
    <3> QED BY <3>1, <3>2
  <2>2. \A r \in running : wire'[r.call] = wire[r.call] BY <1>6, <2>1
  <2> QED BY <1>1, <2>2 DEF RunningTypes
<1>12. Mine' = Mine BY <1>1 DEF Mine
<1>13. ServiceStates' BY <1>1 DEF ServiceStates
<1>14. \A i \in DOMAIN R : R[i] \in Payload BY <1>2
<1>15. Range(R) \subseteq Asking(J)'
  <2> SUFFICES ASSUME NEW i \in DOMAIN R PROVE R[i] \in Asking(J)' BY DEF Range
  <2>1. PICK k \in DOMAIN cs :
           /\ R[i].call = cs[k] /\ R[i].id = n + k - 1
           /\ R[i].kind = "request" \/ (R[i].kind = "cancel" /\ cs[k] \in asked)
    BY <1>2
  <2>2. R[i].call \in J /\ R[i].id = wire'[R[i].call] BY <1>6, <2>1 DEF Range
  <2>3. R[i].kind \in {"request", "cancel"} /\ (R[i].kind = "cancel" => R[i].call \in asked')
    BY <1>1, <2>1
  <2> QED BY <1>14, <2>2, <2>3 DEF Asking
<1>16. \A c \in I : c \in Calls /\ c \notin Range(cs) /\ wire'[c] = wire[c]
  BY <1>6 DEF Instance, Numbered
<1>17. Asking(I) \subseteq Asking(J)' BY <1>1, <1>16 DEF Asking
<1>18. Replying(I) \subseteq Replying(J)' BY <1>1, <1>16 DEF Replying
<1>19. Numbered(J)'
  <2>1. J \subseteq Made' BY <1>7 DEF Instance, Numbered
  <2>2. Pending' \subseteq J BY <1>5 DEF Pending, Instance, Numbered
  <2>3. service' = "open" OBVIOUS
  <2>4. \A c \in J : \/ c \in I /\ wire'[c] = wire[c] /\ wire'[c] < n
                     \/ \E k \in DOMAIN cs : c = cs[k] /\ wire'[c] = n + k - 1
    BY <1>6, <1>16 DEF Range
  <2>5. nextId' = n + Len(cs) BY DEF Registered
  <2>6. \A c \in I : wire[c] \in Nat BY DEF CallTypes
  <2>7. \A c \in J : wire'[c] < nextId' BY <1>4, <2>4, <2>5, <2>6
  <2>8. ASSUME NEW c \in J, NEW d \in J, wire'[c] = wire'[d] PROVE c = d
    <3>1. CASE c \in I /\ d \in I /\ wire'[c] = wire[c] /\ wire'[d] = wire[d]
      BY <2>8, <3>1 DEF Instance, Numbered
    <3>2. ASSUME NEW k \in DOMAIN cs, wire'[c] = n + k - 1, wire'[d] < n, d \in I PROVE FALSE
      BY <1>4, <2>6, <2>8, <3>2
    <3>3. ASSUME NEW k \in DOMAIN cs, wire'[d] = n + k - 1, wire'[c] < n, c \in I PROVE FALSE
      BY <1>4, <2>6, <2>8, <3>3
    <3>4. ASSUME NEW j \in DOMAIN cs, NEW k \in DOMAIN cs, c = cs[j], d = cs[k],
                 wire'[c] = n + j - 1, wire'[d] = n + k - 1
          PROVE  c = d
      <4>1. n + j - 1 = n + k - 1 BY <2>8, <3>4
      <4>2. j = k BY <1>4, <4>1
      <4> QED BY <3>4, <4>2
    <3> QED BY <2>4, <3>1, <3>2, <3>3, <3>4
  <2> QED BY <2>1, <2>2, <2>3, <2>7, <2>8 DEF Numbered
<1>20. OnTheWay(J)'
  <2>1. Carries(toServer') \subseteq {OpenPath} \cup Asking(J)'
    BY <1>3, <1>15, <1>17 DEF Instance, OnTheWay
  <2>2. Range(held') \subseteq Asking(J)' BY <1>3, <1>15, <1>17 DEF Instance, OnTheWay
  <2>3. Carries(toClient') \subseteq {AckOpen} \cup Replying(J)'
    BY <1>18 DEF Instance, OnTheWay
  <2>4. \A e \in Mine' : Range(buffer'[e]) \subseteq Replying(J)'
    BY <1>1, <1>12, <1>18 DEF Instance, OnTheWay
  <2>5. \A r \in running' : r.channel \in Mine' => r.call \in J
    BY <1>1, <1>12 DEF Instance, OnTheWay
  <2> QED BY <2>1, <2>2, <2>3, <2>4, <2>5 DEF OnTheWay
<1>21. OpeningOnce'
  <2>1. OpenPath \notin Carries(toServer') BY <1>3, <1>15, Words DEF Asking
  <2>2. Single(toServer', {OpenPath}) BY <2>1, SingleNone
  <2>3. Single(toClient', {AckOpen}) BY SingleNone
  <2> QED BY <2>1, <2>2, <2>3 DEF OpeningOnce
<1>22. RequestsOnce'
  <2> SUFFICES ASSUME NEW c \in Calls
               PROVE  /\ Single(toServer', RequestsOf(c))
                      /\ RequestsOf(c) \cap (Carries(toServer') \cup Range(held')) # {} =>
                            runs[c] = 0
                      /\ RequestsOf(c) \cap Carries(toServer') # {} =>
                            RequestsOf(c) \cap Range(held') = {}
    BY <1>1 DEF RequestsOnce, RequestsOf
  <2>1. CASE c \in Range(cs)
    <3>1. c \notin Made /\ c \notin I BY <2>1 DEF Instance, Numbered
    <3>2. RequestsOf(c) \cap Asking(I) = {} BY <3>1 DEF RequestsOf, Asking
    <3>3. RequestsOf(c) \cap (Carries(toServer) \cup Range(held)) = {}
      BY <3>2, Words DEF Instance, OnTheWay
    <3>4. runs[c] = 0 BY <3>1 DEF CallTypes
    <3>5. Single(toServer, RequestsOf(c)) BY DEF RequestsOnce
    <3>6. \A i, j \in DOMAIN R : R[i] \in RequestsOf(c) /\ R[j] \in RequestsOf(c) => i = j
      BY <1>2 DEF RequestsOf
    <3>7. Single(toServer', RequestsOf(c)) BY <1>3, <3>3, <3>5, <3>6
    <3>8. RequestsOf(c) \cap Carries(toServer') # {} => RequestsOf(c) \cap Range(held') = {}
      BY <1>3, <3>3
    <3> QED BY <3>4, <3>7, <3>8
  <2>2. CASE c \notin Range(cs)
    <3>1. \A i \in DOMAIN R : R[i] \notin RequestsOf(c)
      BY <1>2, <2>2 DEF RequestsOf, Range
    <3>2. RequestsOf(c) \cap Range(R) = {} BY <3>1 DEF Range
    <3>3. Single(toServer', RequestsOf(c)) BY <1>3, <3>1, <3>2 DEF RequestsOnce
    <3>4. RequestsOf(c) \cap (Carries(toServer') \cup Range(held')) # {} => runs[c] = 0
      BY <1>3, <3>2 DEF RequestsOnce
    <3>5. RequestsOf(c) \cap Carries(toServer') # {} => RequestsOf(c) \cap Range(held') = {}
      BY <1>3, <3>2 DEF RequestsOnce
    <3> QED BY <3>3, <3>4, <3>5
  <2> QED BY <2>1, <2>2
<1>23. J \in SUBSET Calls BY <1>7
<1>24. Instance(J)' BY <1>19, <1>20 DEF Instance
<1> QED BY <1>8, <1>9, <1>10, <1>11, <1>13, <1>21, <1>22, <1>23, <1>24

\* Steps that write nothing: a call is settled or put off.
LEMMA CallsSettled ==
    ASSUME CallsInv,
           UNCHANGED <<ends, toServer, held, buffer, wire, asked, service, open, running, runs>>,
           status' \in [Calls -> {"idle", "waiting", "pending", "answered", "rejected"}],
           Made \subseteq Made', Pending' \subseteq Pending,
           \A c \in asked : status'[c] # "idle",
           nextId' \in Nat, nextId <= nextId', nextId' <= Cardinality(Made'),
           Carries(toClient') \subseteq Carries(toClient),
           Single(toClient, {AckOpen}) => Single(toClient', {AckOpen})
    PROVE  CallsInv'
<1> USE DEF CallsInv
<1>1. UNCHANGED <<channel, owner, attached, connection, load, sock>> BY DEF ends
<1>2. PICK I \in SUBSET Calls : Instance(I) OBVIOUS
<1>3. /\ Asking(I)' = Asking(I) /\ Replying(I)' = Replying(I)
      /\ Mine' = Mine /\ Opening' = Opening
      /\ \A c : RequestsOf(c)' = RequestsOf(c)
  BY <1>1 DEF Asking, Replying, Mine, Opening, RequestsOf
<1>4. CallTypes' BY DEF CallTypes
<1>5. Buffers' BY <1>1 DEF Buffers
<1>6. Opened' BY <1>1 DEF Opened
<1>7. RunningTypes' BY <1>1 DEF RunningTypes
<1>8. ServiceStates' BY <1>1, <1>3 DEF ServiceStates
<1>9. RequestsOnce' BY <1>3 DEF RequestsOnce
<1>10. OpeningOnce' BY <1>1, <1>3 DEF OpeningOnce
<1>11. Numbered(I)'
  <2>1. \A c \in I : wire[c] \in Nat /\ wire[c] < nextId /\ nextId \in Nat
    BY <1>2 DEF Instance, Numbered, CallTypes
  <2>2. \A c \in I : wire[c] < nextId' BY <2>1
  <2> QED BY <1>2, <2>2 DEF Instance, Numbered
<1>12. OnTheWay(I)' BY <1>2, <1>3 DEF Instance, OnTheWay
<1> QED BY <1>4, <1>5, <1>6, <1>7, <1>8, <1>9, <1>10, <1>11, <1>12 DEF Instance

\* A call is made.
LEMMA CallsMade ==
    ASSUME Budget, Negotiation, CallsInv, NEW c \in Calls, Call(c)
    PROVE  PayloadStep /\ CallsInv'
<1> USE DEF CallsInv
<1>1. /\ status[c] = "idle"
      /\ UNCHANGED <<ends, toClient, buffer, asked, service, open, running, runs>>
  BY DEF Call
<1>2. c \notin Made /\ c \notin Pending /\ Made \subseteq Calls BY <1>1 DEF Made, Pending
<1>3. /\ Cardinality(Made) \in Nat /\ Cardinality(Made \cup {c}) = Cardinality(Made) + 1
      /\ Cardinality(Made \cup {c}) <= MaxCalls
  <2>1. IsFiniteSet(Made) /\ Made \cup {c} \subseteq Calls BY <1>2, FewCalls
  <2>2. Cardinality(Made) \in Nat /\ Cardinality(Made \cup {c}) <= MaxCalls BY <2>1, FewCalls
  <2>3. Cardinality(Made \cup {c}) = Cardinality(Made) + 1 BY <1>2, <2>1, FS_AddElement
  <2> QED BY <2>2, <2>3
<1>4. nextId \in Nat /\ nextId <= Cardinality(Made) /\ nextId + 1 <= MaxCalls
  <2>1. nextId \in Nat /\ nextId <= Cardinality(Made) BY DEF CallTypes
  <2> QED BY <1>3, <2>1, Constants
<1>5. \A d \in asked : status[d] # "idle" BY DEF CallTypes
<1>6. ASSUME service = "open", ClientFits(Requests(<<c>>, nextId)),
             Registered(<<c>>, nextId), ClientWrite(Requests(<<c>>, nextId))
      PROVE  PayloadStep /\ CallsInv'
  <2> PICK cs : cs = <<c>> OBVIOUS
  <2> PICK R : R = Requests(cs, nextId) OBVIOUS
  <2>1. /\ cs \in Seq(Calls) /\ Len(cs) = 1 /\ DOMAIN cs = {1} /\ cs[1] = c
    OBVIOUS
  <2>2. Range(cs) = {c} /\ \A j, k \in DOMAIN cs : cs[j] = cs[k] => j = k BY <2>1 DEF Range
  <2>3. nextId + Len(cs) <= MaxCalls BY <1>4, <2>1
  <2>4. R \in Seq(Payload)
    <3>1. nextId \in Nat BY <1>4
    <3>2. \A j, k \in DOMAIN cs : cs[j] = cs[k] => j = k BY <2>2
    <3> QED BY ONLY <2>1, <2>3, <3>1, <3>2, R = Requests(cs, nextId), RequestsForm
         DEF AskFor
  <2>5. ClientFits(R) /\ ClientWrite(R) BY <1>6
  <2>6. UNCHANGED toServer \/ Sends(toServer) BY <2>4, <2>5, ClientWrites
  <2>7. PayloadStep BY <1>1, <2>6 DEF PayloadStep
  <2>8. PICK I \in SUBSET Calls : Instance(I) OBVIOUS
  <2>9. nextId + Len(cs) <= Cardinality(Made \cup Range(cs))
    <3>1. Made \cup Range(cs) = Made \cup {c} BY <2>2
    <3>2. nextId + Len(cs) <= Cardinality(Made \cup {c}) BY <1>3, <1>4, <2>1
    <3> QED BY <3>1, <3>2
  <2>10. Range(cs) \cap Made = {} BY <1>2, <2>2
  <2>11. channel = "open" BY <1>6 DEF ServiceStates, Budget, Ends
  <2>12. /\ connection[load] \in open \cup {Absent}
         /\ OpenPath \notin Carries(toServer) /\ AckOpen \notin Carries(toClient)
    BY <1>6 DEF ServiceStates, OpeningOnce, Opening
  <2>13. \A d \in I : wire[d] < nextId BY <2>8 DEF Instance, Numbered
  <2>14. Registered(cs, nextId) /\ service' = "open" BY <1>1, <1>6
  <2>15. \A d \in Range(cs) : status[d] # "pending" BY <1>1, <2>2
  <2>16. ClientFits(Requests(cs, nextId)) /\ ClientWrite(Requests(cs, nextId)) BY <2>5
  <2>17. Carries(toClient') \subseteq Carries(toClient) \ {AckOpen} BY <1>1, <2>12
  <2>18. CallsInv'
    BY <1>1, <1>4, <1>5, <2>1, <2>2, <2>3, <2>8, <2>9, <2>10, <2>11, <2>12, <2>13, <2>14,
       <2>15, <2>16, <2>17, CallsRegistered
  <2> QED BY <2>7, <2>18
<1>7. ASSUME Reject({c}), nextId' = nextId + 1, UNCHANGED <<wire, toServer, held>>
      PROVE  PayloadStep /\ CallsInv'
  <2>1. PayloadStep BY <1>1, <1>7 DEF PayloadStep
  <2>2. /\ status' \in [Calls -> {"idle", "waiting", "pending", "answered", "rejected"}]
        /\ \A d \in Calls : status'[d] = IF d = c THEN "rejected" ELSE status[d]
    BY <1>7 DEF Reject, CallTypes
  <2>3. Made' = Made \cup {c} /\ Pending' = Pending BY <1>2, <2>2 DEF Made, Pending
  <2>4. nextId' \in Nat /\ nextId <= nextId' /\ nextId' <= Cardinality(Made')
    BY <1>3, <1>4, <1>7, <2>3
  <2>5. \A d \in asked : status'[d] # "idle" BY <2>2 DEF CallTypes
  <2>6. CallsInv' BY <1>1, <1>7, <2>2, <2>3, <2>4, <2>5, CallsSettled
  <2> QED BY <2>1, <2>6
<1>8. ASSUME status' = [status EXCEPT ![c] = "waiting"], UNCHANGED <<wire, nextId, toServer, held>>
      PROVE  PayloadStep /\ CallsInv'
  <2>1. PayloadStep BY <1>1, <1>8 DEF PayloadStep
  <2>2. /\ status' \in [Calls -> {"idle", "waiting", "pending", "answered", "rejected"}]
        /\ \A d \in Calls : status'[d] = IF d = c THEN "waiting" ELSE status[d]
    BY <1>8 DEF CallTypes
  <2>3. Made' = Made /\ Pending' = Pending BY <1>2, <2>2 DEF Made, Pending
  <2>4. nextId' \in Nat /\ nextId <= nextId' /\ nextId' <= Cardinality(Made')
    BY <1>3, <1>4, <1>8, <2>3
  <2>5. \A d \in asked : status'[d] # "idle" BY <2>2 DEF CallTypes
  <2>6. CallsInv' BY <1>1, <1>8, <2>2, <2>3, <2>4, <2>5, CallsSettled
  <2> QED BY <2>1, <2>6
<1> QED BY <1>6, <1>7, <1>8 DEF Call

\* What reading a message does to a queue.
LEMMA ClientHears ==
    ASSUME Negotiation, ClientReads
    PROVE  /\ Takes(toClient) /\ link /\ ~fresh /\ ToClient \in Carries(toClient)
           /\ Carries(toClient') \subseteq Carries(toClient)
           /\ \A X : Single(toClient, X) => Single(toClient', X)
           /\ \A X : Single(toClient, X) /\ ToClient \in X => Carries(toClient') \cap X = {}
<1> DEFINE S == {Initial, Known(TRUE), Known(FALSE)} \cup Packet
<1>1. /\ toClient # <<>> /\ toClient' = Tail(toClient) /\ FromServer = toClient[1]
      /\ toClient[1].type = "data"
  BY Heads DEF ClientReads, FromServer
<1>2. toClient \in Seq(S) BY DEF Negotiation, Downwards
<1>3. toClient[1] \in Packet
  <2>1. toClient[1] \in S BY <1>1, <1>2, Places
  <2> QED BY <1>1, <2>1, PacketForm
<1> HIDE DEF S
<1>4. ToClient = toClient[1].batch[1] BY <1>1, <1>3, PacketForm DEF ToClient
<1>5. link /\ ~fresh BY <1>1 DEF Negotiation, Downwards
<1>6. Takes(toClient) BY <1>1, <1>3 DEF Takes
<1> QED BY <1>1, <1>2, <1>4, <1>5, <1>6, CarriesTaken

\* What the server reads leaves the queue, and the rest of the queue stays.
LEMMA ServerHears ==
    ASSUME Negotiation, ServerReads
    PROVE  /\ Takes(toServer) /\ link /\ ToServer \in Carries(toServer)
           /\ Carries(toServer') \subseteq Carries(toServer)
           /\ \A X : Single(toServer, X) => Single(toServer', X)
           /\ \A X : Single(toServer, X) /\ ToServer \in X => Carries(toServer') \cap X = {}
<1> DEFINE S == {Initial, Reconnect} \cup Packet
<1>1. /\ toServer # <<>> /\ toServer' = Tail(toServer) /\ FromClient = toServer[1]
      /\ toServer[1].type = "data"
  BY Heads DEF ServerReads, FromClient
<1>2. toServer \in Seq(S) BY DEF Negotiation, Upwards
<1>3. toServer[1] \in Packet
  <2>1. toServer[1] \in S BY <1>1, <1>2, Places
  <2> QED BY <1>1, <2>1, PacketForm
<1> HIDE DEF S
<1>4. ToServer = toServer[1].batch[1] BY <1>1, <1>3, PacketForm DEF ToServer
<1>5. link BY <1>1 DEF Negotiation, Upwards
<1>6. Takes(toServer) BY <1>1, <1>3 DEF Takes
<1> QED BY <1>1, <1>2, <1>4, <1>5, <1>6, CarriesTaken

\* A call is cancelled.
LEMMA CallsCancelled ==
    ASSUME Budget, Negotiation, CallsInv, NEW c \in Calls, Cancel(c)
    PROVE  PayloadStep /\ CallsInv'
<1> USE DEF CallsInv
<1> PICK m : m = Message("cancel", wire[c], c) OBVIOUS
<1> PICK ms : ms = <<m>> OBVIOUS
<1>1. /\ UNCHANGED <<ends, toClient, buffer, status, wire, nextId, service, open, running, runs>>
      /\ status[c] \in {"waiting", "pending"} /\ asked' = asked \cup {c}
      /\ \/ status[c] = "pending" /\ ClientFits(ms) /\ ClientWrite(ms)
         \/ UNCHANGED <<toServer, held>>
  BY DEF Cancel
<1>2. UNCHANGED <<channel, owner, attached, connection, load, sock>> BY <1>1 DEF ends
<1>3. PICK I \in SUBSET Calls : Instance(I) OBVIOUS
<1>4. /\ Asking(I) \subseteq Asking(I)' /\ Replying(I)' = Replying(I)
      /\ Mine' = Mine /\ Opening' = Opening /\ Made' = Made /\ Pending' = Pending
      /\ \A d : RequestsOf(d)' = RequestsOf(d)
  BY <1>1, <1>2 DEF Asking, Replying, Mine, Opening, RequestsOf, Made, Pending
<1>5. m \in Payload /\ m.kind = "cancel" /\ m.call = c /\ m.id = wire[c]
  <2>1. wire[c] \in 0 .. MaxCalls /\ c \in 0 .. MaxCalls BY Constants DEF CallTypes, Calls
  <2> QED BY <2>1 DEF Message, Payload
<1>6. /\ ms \in Seq(Payload) /\ DOMAIN ms = {1} /\ ms[1] = m BY <1>5
<1>7. Range(ms) = {m} BY <1>6 DEF Range
<1>8. /\ UNCHANGED toServer \/ Sends(toServer)
      /\ held' \in Seq(Payload) /\ Len(held') <= Capacity
      /\ Carries(toServer') \subseteq Carries(toServer) \cup {m}
      /\ Range(held') \subseteq Range(held) \cup {m}
      /\ m \in Carries(toServer') \cup Range(held') =>
            status[c] = "pending" \/ m \in Carries(toServer) \cup Range(held)
      /\ held' # <<>> => held # <<>> \/ status[c] = "pending"
      /\ \A X : m \notin X /\ Single(toServer, X) => Single(toServer', X)
  <2>1. CASE status[c] = "pending" /\ ClientFits(ms) /\ ClientWrite(ms)
    <3>1. /\ UNCHANGED toServer \/ Sends(toServer)
          /\ held' \in Seq(Payload) /\ Len(held') <= Capacity
          /\ Carries(toServer') \subseteq Carries(toServer) \cup Range(ms)
          /\ Range(held') \subseteq Range(held) \cup Range(ms)
          /\ \A X : (/\ Single(toServer, X)
                     /\ Carries(toServer) \cap X = {} \/ Range(ms) \cap X = {}
                     /\ \A i, j \in DOMAIN ms : ms[i] \in X /\ ms[j] \in X => i = j)
                    => Single(toServer', X)
      BY <1>6, <2>1, ClientWrites
    <3>2. ASSUME NEW X, m \notin X, Single(toServer, X) PROVE Single(toServer', X)
      <4>1. Range(ms) \cap X = {} BY <1>7, <3>2
      <4>2. \A i, j \in DOMAIN ms : ms[i] \in X /\ ms[j] \in X => i = j BY <1>6
      <4> QED BY <3>1, <3>2, <4>1, <4>2
    <3> QED BY <1>7, <2>1, <3>1, <3>2
  <2>2. CASE UNCHANGED <<toServer, held>> BY <2>2 DEF Buffers
  <2> QED BY <1>1, <2>1, <2>2
<1>9. status[c] = "pending" => service = "open" /\ m \in Asking(I)'
  <2> SUFFICES ASSUME status[c] = "pending" PROVE service = "open" /\ m \in Asking(I)' OBVIOUS
  <2>1. c \in I BY <1>3 DEF Instance, Numbered, Pending
  <2>2. service = "open" BY <1>3, <2>1 DEF Instance, Numbered
  <2> QED BY <1>1, <1>5, <2>1, <2>2 DEF Asking
<1>10. PayloadStep BY <1>1, <1>8 DEF PayloadStep
<1>11. CallTypes' BY <1>1, <1>4 DEF CallTypes
<1>12. Buffers' BY <1>1, <1>2, <1>8 DEF Buffers
<1>13. Opened' BY <1>1, <1>2 DEF Opened
<1>14. RunningTypes' BY <1>1, <1>2 DEF RunningTypes
<1>15. ServiceStates' BY <1>1, <1>2, <1>4, <1>8, <1>9 DEF ServiceStates
<1>16. RequestsOnce'
  <2>1. \A d : m \notin RequestsOf(d) BY <1>5 DEF RequestsOf
  <2>2. \A d \in Calls : Single(toServer', RequestsOf(d)) BY <1>8, <2>1 DEF RequestsOnce
  <2>3. \A d : /\ RequestsOf(d) \cap Carries(toServer') \subseteq
                   RequestsOf(d) \cap Carries(toServer)
               /\ RequestsOf(d) \cap Range(held') \subseteq RequestsOf(d) \cap Range(held)
    BY <1>8, <2>1
  <2> QED BY <1>1, <1>4, <2>2, <2>3 DEF RequestsOnce
<1>17. OpeningOnce'
  <2>1. m \notin {OpenPath} BY <1>5, Words
  <2>2. Single(toServer', {OpenPath}) BY <1>8, <2>1 DEF OpeningOnce
  <2>3. OpenPath \in Carries(toServer') => OpenPath \in Carries(toServer) BY <1>8, <2>1
  <2> QED BY <1>1, <1>2, <1>4, <2>2, <2>3 DEF OpeningOnce
<1>18. Numbered(I)' BY <1>1, <1>3, <1>4 DEF Instance, Numbered
<1>19. OnTheWay(I)'
  <2>1. Carries(toServer') \subseteq {OpenPath} \cup Asking(I)'
    BY <1>3, <1>4, <1>8, <1>9 DEF Instance, OnTheWay
  <2>2. Range(held') \subseteq Asking(I)'
    <3>1. m # OpenPath BY <1>5, Words
    <3>2. m \in Range(held') => m \in Asking(I)'
      BY <1>3, <1>4, <1>8, <1>9, <3>1 DEF Instance, OnTheWay
    <3> QED BY <1>3, <1>4, <1>8, <3>2 DEF Instance, OnTheWay
  <2> QED BY <1>1, <1>3, <1>4, <2>1, <2>2 DEF Instance, OnTheWay
<1>20. Instance(I)' BY <1>18, <1>19 DEF Instance
<1> QED BY <1>10, <1>11, <1>12, <1>13, <1>14, <1>15, <1>16, <1>17, <1>20

\* The path is open: the calls that waited for it are written.
LEMMA CallsOpened ==
    ASSUME Budget, Negotiation, CallsInv, PathOpens
    PROVE  PayloadStep /\ CallsInv'
<1> USE DEF CallsInv
<1>1. /\ ClientReads /\ channel = "open" /\ ToClient = AckOpen
      /\ service \in {"opening", "reopening"} /\ service' = "open"
      /\ UNCHANGED <<ends, buffer, asked, open, running, runs>>
  BY DEF PathOpens
<1>2. PICK cs \in InOrder(Waiting) : Registered(cs, 0) /\ ClientWrite(Requests(cs, 0))
  BY DEF PathOpens
<1>3. Waiting \in SUBSET Calls BY DEF Waiting
<1>4. /\ cs \in Seq(Calls) /\ Len(cs) = Cardinality(Waiting) /\ Range(cs) = Waiting
      /\ \A j, k \in DOMAIN cs : cs[j] = cs[k] => j = k
  BY <1>3, InOrderForm
<1>5. 0 \in Nat /\ 0 + Len(cs) <= MaxCalls
  <2>1. Cardinality(Waiting) \in Nat /\ Cardinality(Waiting) <= MaxCalls BY <1>3, FewCalls
  <2> QED BY <1>4, <2>1
<1>6. PICK R : R = Requests(cs, 0) OBVIOUS
<1>7. R \in Seq(Payload)
  <2>1. \A j, k \in DOMAIN cs : cs[j] = cs[k] => j = k BY <1>4
  <2> QED BY ONLY <1>4, <1>5, <1>6, <2>1, RequestsForm DEF AskFor
<1>8. Takes(toClient) /\ link /\ ToClient \in Carries(toClient) BY <1>1, ClientHears
<1>9. connected BY <1>8 DEF Budget, Linked
<1>10. ClientFits(R) /\ ClientWrite(R) BY <1>2, <1>6, <1>9 DEF ClientFits
<1>11. UNCHANGED toServer \/ Sends(toServer) BY <1>7, <1>10, ClientWrites
<1>12. PayloadStep BY <1>1, <1>8, <1>11 DEF PayloadStep
<1>13. Waiting \cap Made = {} /\ Waiting \cap Pending = {} BY DEF Waiting, Made, Pending
<1>14. 0 + Len(cs) <= Cardinality(Made \cup Range(cs))
  <2>1. Made \cup Waiting \in SUBSET Calls /\ Waiting \in SUBSET (Made \cup Waiting)
    BY <1>3 DEF Made
  <2>2. Cardinality(Waiting) <= Cardinality(Made \cup Waiting) BY <2>1, FewCalls
  <2>3. Cardinality(Waiting) \in Nat BY <1>3, FewCalls
  <2>4. Made \cup Range(cs) = Made \cup Waiting BY <1>4
  <2>5. 0 + Len(cs) = Cardinality(Waiting) BY <1>4, <2>3
  <2> QED BY <2>2, <2>4, <2>5
<1>15. Instance({}) BY <1>1 DEF Instance, Numbered
<1>16. /\ connection[load] \in open \cup {Absent} /\ OpenPath \notin Carries(toServer)
       /\ Single(toClient, {AckOpen})
  BY <1>1, <1>8 DEF OpeningOnce
<1>17. Carries(toClient') \subseteq Carries(toClient) \ {AckOpen}
  <2>1. Carries(toClient') \subseteq Carries(toClient) BY <1>1, ClientHears
  <2>2. Carries(toClient') \cap {AckOpen} = {} BY <1>1, <1>16, ClientHears
  <2> QED BY <2>1, <2>2
<1>18. \A d \in asked : status[d] # "idle" BY DEF CallTypes
<1>19. \A d \in Range(cs) : status[d] # "pending" BY <1>4 DEF Waiting
<1>20. Range(cs) \cap Made = {} BY <1>4, <1>13
<1>21. ClientFits(Requests(cs, 0)) /\ ClientWrite(Requests(cs, 0)) BY <1>6, <1>10
<1>22. CallsInv'
  BY <1>1, <1>2, <1>4, <1>5, <1>14, <1>15, <1>16, <1>17, <1>18, <1>19, <1>20, <1>21,
     CallsRegistered
<1> QED BY <1>12, <1>22

\* An answer arrives.
LEMMA CallsAnswered ==
    ASSUME Budget, Negotiation, CallsInv, ReplyArrives
    PROVE  PayloadStep /\ CallsInv'
<1> USE DEF CallsInv
<1>1. /\ ClientReads /\ Settled(ToClient)
      /\ UNCHANGED <<ends, toServer, held, buffer, wire, nextId, asked, service, open, running,
                     runs>>
  BY DEF ReplyArrives
<1>2. /\ Takes(toClient) /\ Carries(toClient') \subseteq Carries(toClient)
      /\ \A X : Single(toClient, X) => Single(toClient', X)
  BY <1>1, ClientHears
<1>3. /\ status' \in [Calls -> {"idle", "waiting", "pending", "answered", "rejected"}]
      /\ \A c \in Calls : status'[c] = status[c] \/ (c \in Pending /\ status'[c] = "answered")
  BY <1>1 DEF Settled, CallTypes
<1>4. Made' = Made /\ Pending' \subseteq Pending BY <1>3 DEF Made, Pending
<1>5. \A c \in asked : status'[c] # "idle" BY <1>3 DEF CallTypes
<1>6. nextId' \in Nat /\ nextId <= nextId' /\ nextId' <= Cardinality(Made')
  BY <1>1, <1>4 DEF CallTypes
<1>7. CallsInv' BY <1>1, <1>2, <1>3, <1>4, <1>5, <1>6, CallsSettled
<1>8. PayloadStep BY <1>1, <1>2 DEF PayloadStep
<1> QED BY <1>7, <1>8

\* The channel that listens is the one the front end means.
LEMMA Listens ==
    ASSUME Budget, Negotiation, Channels, Latest, link, NEW e \in Listening
    PROVE  /\ e \in Sockets /\ e \in Mine /\ e \in 1 .. sock /\ owner[e] = load /\ owner[e] # Absent
           /\ connection[load] = e /\ attached[e] = sock /\ attached[e] # Absent /\ ~fresh
<1>1. /\ sock \in Nat /\ load \in Sockets /\ 1 .. sock \subseteq Sockets
      /\ Sockets \subseteq Nat \ {0} /\ load # 0
  BY InSockets, Constants
<1>2. connected /\ sock >= 1 BY DEF Budget, Linked
<1>3. e \in Sockets /\ attached[e] = sock /\ connection[owner[e]] = e BY DEF Listening
<1>4. watch[sock] = e /\ e \in Mine BY <1>2, <1>3, MineForm
<1>5. e # Absent /\ sock # Absent BY <1>1, <1>2, <1>3 DEF Absent
<1>6. owner[e] = load BY <1>2, <1>4, <1>5 DEF Latest
<1>7. ~fresh BY <1>4, <1>5 DEF Latest, Budget, Ends
<1>8. e \in 1 .. sock BY <1>4, MineForm
<1> QED BY <1>1, <1>3, <1>4, <1>5, <1>6, <1>7, <1>8 DEF Absent

\* The server opens the path.
LEMMA CallsOpening ==
    ASSUME Budget, Negotiation, Channels, Latest, CallsInv, OpenArrives
    PROVE  PayloadStep /\ CallsInv'
<1> USE DEF CallsInv
<1>1. /\ ServerReads /\ ToServer = OpenPath
      /\ UNCHANGED <<ends, held, status, wire, nextId, asked, service, running, runs>>
  BY DEF OpenArrives
<1>2. PICK e \in Listening \ open : open' = open \cup {e} /\ ServerWrite(e, <<AckOpen>>)
  BY DEF OpenArrives
<1>3. /\ UNCHANGED <<channel, owner, attached, connection, load, sock>> BY <1>1 DEF ends
<1>4. /\ Takes(toServer) /\ link /\ OpenPath \in Carries(toServer)
      /\ Carries(toServer') \subseteq Carries(toServer)
      /\ \A X : Single(toServer, X) => Single(toServer', X)
      /\ \A X : Single(toServer, X) /\ OpenPath \in X => Carries(toServer') \cap X = {}
  BY <1>1, ServerHears
<1>5. /\ e \in Sockets /\ e \in Mine /\ e \in 1 .. sock /\ owner[e] = load /\ owner[e] # Absent
      /\ connection[load] = e /\ attached[e] = sock /\ attached[e] # Absent /\ ~fresh
  BY <1>2, <1>4, Listens
<1> PICK m : m = AckOpen OBVIOUS
<1>6. m \in Payload BY Words
<1>7. ServerFits(e, <<m>>) /\ ServerWrite(e, <<m>>) /\ UNCHANGED <<owner, held>>
  BY <1>1, <1>2, <1>3, <1>5 DEF ServerFits
<1>8. /\ UNCHANGED toClient \/ Sends(toClient)
      /\ Buffers' /\ UNCHANGED buffer
      /\ Carries(toClient') \subseteq Carries(toClient) \cup {m}
      /\ \A X : Single(toClient, X) /\ (Carries(toClient) \cap X = {} \/ m \notin X)
                => Single(toClient', X)
  BY <1>5, <1>6, <1>7, ServerWrites
<1>9. PayloadStep BY <1>1, <1>4, <1>5, <1>8 DEF PayloadStep
<1>10. PICK I \in SUBSET Calls : Instance(I) OBVIOUS
<1>11. /\ Asking(I)' = Asking(I) /\ Replying(I)' = Replying(I)
       /\ Mine' = Mine /\ Opening' = Opening /\ Made' = Made /\ Pending' = Pending
       /\ \A d : RequestsOf(d)' = RequestsOf(d)
  BY <1>1, <1>3 DEF Asking, Replying, Mine, Opening, RequestsOf, Made, Pending
<1>12. Opening /\ AckOpen \notin Carries(toClient) BY <1>4 DEF OpeningOnce
<1>13. CallTypes' BY <1>1, <1>11 DEF CallTypes
<1>14. Opened' BY <1>2, <1>3, <1>5 DEF Opened
<1>15. RunningTypes' BY <1>1, <1>3 DEF RunningTypes
<1>16. ServiceStates' BY <1>1, <1>3, <1>11, <1>12 DEF ServiceStates, Opening
<1>17. RequestsOnce' BY <1>1, <1>4, <1>11 DEF RequestsOnce
<1>18. OpeningOnce'
  <2>1. OpenPath \notin Carries(toServer') BY <1>4 DEF OpeningOnce
  <2>2. Single(toServer', {OpenPath}) BY <1>4 DEF OpeningOnce
  <2>3. Carries(toClient) \cap {AckOpen} = {} BY <1>12
  <2>4. Single(toClient', {AckOpen}) BY <1>8, <2>3 DEF OpeningOnce
  <2>5. connection'[load'] \in open' BY <1>2, <1>3, <1>5
  <2> QED BY <1>11, <1>12, <2>1, <2>2, <2>4, <2>5 DEF OpeningOnce
<1>19. Numbered(I)' BY <1>1, <1>10, <1>11 DEF Instance, Numbered
<1>20. OnTheWay(I)' BY <1>1, <1>4, <1>8, <1>10, <1>11 DEF Instance, OnTheWay
<1> QED BY <1>8, <1>9, <1>13, <1>14, <1>15, <1>16, <1>17, <1>18, <1>19, <1>20 DEF Instance

\* The server starts to run a call.
LEMMA CallsRun ==
    ASSUME Budget, Negotiation, Channels, Latest, CallsInv, RequestArrives
    PROVE  /\ PayloadStep /\ CallsInv'
           /\ \E c \in Calls : c \in Made /\ runs[c] = 0 /\ runs' = [runs EXCEPT ![c] = @ + 1]
<1> USE DEF CallsInv
<1> PICK m : m = ToServer OBVIOUS
<1>1. /\ ServerReads /\ m.kind = "request"
      /\ runs' = [runs EXCEPT ![m.call] = @ + 1]
      /\ UNCHANGED <<ends, toClient, held, buffer, status, wire, nextId, asked, service, open>>
  BY DEF RequestArrives
<1>2. PICK e \in Listening \cap open :
         running' = running \cup
             {[channel |-> e, id |-> m.id, call |-> m.call, cancelled |-> FALSE]}
  BY DEF RequestArrives, Started
<1> PICK r : r = [channel |-> e, id |-> m.id, call |-> m.call, cancelled |-> FALSE] OBVIOUS
<1>3. UNCHANGED <<channel, owner, attached, connection, load, sock>> BY <1>1 DEF ends
<1>4. /\ Takes(toServer) /\ link /\ m \in Carries(toServer)
      /\ Carries(toServer') \subseteq Carries(toServer)
      /\ \A X : Single(toServer, X) => Single(toServer', X)
      /\ \A X : Single(toServer, X) /\ m \in X => Carries(toServer') \cap X = {}
  BY <1>1, ServerHears
<1>5. e \in 1 .. sock /\ owner[e] # Absent /\ e \in Mine BY <1>2, <1>4, Listens
<1>6. PayloadStep BY <1>1, <1>4 DEF PayloadStep
<1>7. PICK I \in SUBSET Calls : Instance(I) OBVIOUS
<1>8. m \in Asking(I)
  <2>1. m # OpenPath BY <1>1, Words
  <2> QED BY <1>4, <1>7, <2>1 DEF Instance, OnTheWay
<1> PICK c : c = m.call OBVIOUS
<1>9. /\ m \in Payload /\ c \in I /\ c \in Calls /\ m.id = wire[c] /\ c \in Made
      /\ m \in RequestsOf(c)
  BY <1>1, <1>7, <1>8 DEF Asking, RequestsOf, Instance, Numbered
<1>10. runs[c] = 0 BY <1>4, <1>9 DEF RequestsOnce
<1>11. runs' = [runs EXCEPT ![c] = @ + 1] BY <1>1
<1>12. /\ runs' \in [Calls -> 0 .. 1] /\ runs'[c] = 1
       /\ \A d \in Calls \ {c} : runs'[d] = runs[d]
  <2>1. runs \in [Calls -> 0 .. 1] BY DEF CallTypes
  <2>2. runs' = [runs EXCEPT ![c] = 1] BY <1>9, <1>10, <1>11, <2>1
  <2> QED BY <1>9, <2>1, <2>2
<1>13. /\ Asking(I)' = Asking(I)
       /\ Mine' = Mine /\ Opening' = Opening /\ Made' = Made /\ Pending' = Pending
       /\ \A d : RequestsOf(d)' = RequestsOf(d)
  BY <1>1, <1>3 DEF Asking, Mine, Opening, RequestsOf, Made, Pending
<1>14. Replying(I) \subseteq Replying(I)'
  <2>1. \A d \in I : runs[d] = 1 => runs'[d] = 1 BY <1>7, <1>12
  <2> QED BY <1>1, <2>1 DEF Replying
<1>15. CallTypes'
  <2>1. \A d \in Calls \ Made : runs'[d] = 0 BY <1>9, <1>12 DEF CallTypes
  <2> QED BY <1>1, <1>12, <1>13, <2>1 DEF CallTypes
<1>16. Buffers' /\ Opened' BY <1>1, <1>3 DEF Buffers, Opened
<1>17. RunningTypes'
  <2>1. r \in [channel : 1 .. sock, id : 0 .. MaxCalls, call : Calls, cancelled : BOOLEAN]
    BY <1>5, <1>9 DEF Payload
  <2>2. /\ r.channel = e /\ r.call = c /\ r.id = wire[c] /\ r.cancelled = FALSE BY <1>9
  <2>3. running' = running \cup {r} BY <1>2
  <2>4. \A q \in running : runs'[q.call] = 1
    <3>1. \A q \in running : q.call \in Calls /\ runs[q.call] = 1 BY DEF RunningTypes
    <3> QED BY <1>12, <3>1
  <2>5. running' \subseteq [channel : 1 .. sock', id : 0 .. MaxCalls, call : Calls,
                            cancelled : BOOLEAN]
    BY <1>3, <2>1, <2>3 DEF RunningTypes
  <2>6. \A q \in running' : /\ owner[q.channel] # Absent
                            /\ runs'[q.call] = 1 /\ q.id = wire[q.call]
                            /\ q.cancelled => q.call \in asked
    BY <1>5, <1>12, <2>2, <2>3, <2>4 DEF RunningTypes
  <2> QED BY <1>1, <1>3, <2>5, <2>6 DEF RunningTypes
<1>18. ServiceStates' BY <1>1, <1>3, <1>13 DEF ServiceStates
<1>19. RequestsOnce'
  <2>1. \A d \in Calls : Single(toServer', RequestsOf(d)) BY <1>4 DEF RequestsOnce
  <2>2. RequestsOf(c) \cap (Carries(toServer') \cup Range(held)) = {}
    BY <1>4, <1>9 DEF RequestsOnce
  <2>3. \A d \in Calls \ {c} :
           RequestsOf(d) \cap (Carries(toServer') \cup Range(held)) # {} => runs'[d] = 0
    BY <1>4, <1>12 DEF RequestsOnce
  <2>4. \A d \in Calls : RequestsOf(d) \cap Carries(toServer') # {} =>
                            RequestsOf(d) \cap Range(held) = {}
    BY <1>4 DEF RequestsOnce
  <2> QED BY <1>1, <1>13, <2>1, <2>2, <2>3, <2>4 DEF RequestsOnce
<1>20. OpeningOnce' BY <1>1, <1>3, <1>4, <1>13 DEF OpeningOnce
<1>21. Numbered(I)' BY <1>1, <1>7, <1>13 DEF Instance, Numbered
<1>22. OnTheWay(I)'
  <2>1. \A q \in running' : q.channel \in Mine => q.call \in I
    BY <1>2, <1>7, <1>9 DEF Instance, OnTheWay
  <2> QED BY <1>1, <1>4, <1>7, <1>13, <1>14, <2>1 DEF Instance, OnTheWay
<1>23. CallsInv' BY <1>15, <1>16, <1>17, <1>18, <1>19, <1>20, <1>21, <1>22 DEF Instance
<1> QED BY <1>6, <1>9, <1>10, <1>11, <1>23

\* What the server still runs of the current front end is told of cancellations.
LEMMA CallsStopped ==
    ASSUME Budget, Negotiation, Channels, Latest, CallsInv, CancelArrives
    PROVE  PayloadStep /\ CallsInv'
<1> USE DEF CallsInv
<1> PICK m : m = ToServer OBVIOUS
<1>1. /\ ServerReads /\ m.kind = "cancel"
      /\ UNCHANGED <<ends, toClient, held, buffer, status, wire, nextId, asked, service, open,
                     runs>>
  BY DEF CancelArrives
<1>2. PICK e \in Listening \cap open :
         running' = {IF r.channel = e /\ r.id = m.id THEN [r EXCEPT !.cancelled = TRUE] ELSE r
                     : r \in running}
  BY DEF CancelArrives, Cancelled
<1>3. UNCHANGED <<channel, owner, attached, connection, load, sock>> BY <1>1 DEF ends
<1>4. /\ Takes(toServer) /\ link /\ m \in Carries(toServer)
      /\ Carries(toServer') \subseteq Carries(toServer)
      /\ \A X : Single(toServer, X) => Single(toServer', X)
  BY <1>1, ServerHears
<1>5. e \in Mine BY <1>2, <1>4, Listens
<1>6. PayloadStep BY <1>1, <1>4 DEF PayloadStep
<1>7. PICK I \in SUBSET Calls : Instance(I) OBVIOUS
<1>8. m \in Asking(I)
  <2>1. m # OpenPath BY <1>1, Words
  <2> QED BY <1>4, <1>7, <2>1 DEF Instance, OnTheWay
<1>9. m.call \in I /\ m.call \in asked /\ m.id = wire[m.call] BY <1>1, <1>8 DEF Asking
<1>10. /\ Asking(I)' = Asking(I) /\ Replying(I)' = Replying(I)
       /\ Mine' = Mine /\ Opening' = Opening /\ Made' = Made /\ Pending' = Pending
       /\ \A d : RequestsOf(d)' = RequestsOf(d)
  BY <1>1, <1>3 DEF Asking, Replying, Mine, Opening, RequestsOf, Made, Pending
<1>11. \A q \in running' : \E r \in running :
          \/ q = r
          \/ r.channel = e /\ r.id = m.id /\ q = [r EXCEPT !.cancelled = TRUE]
  BY <1>2
<1>12. \A q \in running' : \E r \in running :
          /\ q \in [channel : 1 .. sock, id : 0 .. MaxCalls, call : Calls, cancelled : BOOLEAN]
          /\ q.channel = r.channel /\ q.call = r.call /\ q.id = r.id
          /\ q.cancelled => r.cancelled \/ r.call \in asked
  <2> TAKE q \in running'
  <2> PICK r \in running :
          \/ q = r
          \/ r.channel = e /\ r.id = m.id /\ q = [r EXCEPT !.cancelled = TRUE]
    BY <1>11
  <2>1. /\ r \in [channel : 1 .. sock, id : 0 .. MaxCalls, call : Calls, cancelled : BOOLEAN]
        /\ r.id = wire[r.call]
    BY DEF RunningTypes
  <2>2. CASE q = r BY <2>1, <2>2
  <2>3. CASE r.channel = e /\ r.id = m.id /\ q = [r EXCEPT !.cancelled = TRUE]
    <3>1. /\ q \in [channel : 1 .. sock, id : 0 .. MaxCalls, call : Calls, cancelled : BOOLEAN]
          /\ q.channel = r.channel /\ q.call = r.call /\ q.id = r.id
      BY <2>1, <2>3
    <3>2. r.call \in I BY <1>5, <1>7, <2>3 DEF Instance, OnTheWay
    <3>3. wire[r.call] = wire[m.call] BY <1>9, <2>1, <2>3
    <3>4. r.call = m.call BY <1>7, <1>9, <3>2, <3>3 DEF Instance, Numbered
    <3> QED BY <1>9, <3>1, <3>4
  <2> QED BY <2>2, <2>3
<1>13. CallTypes' BY <1>1, <1>10 DEF CallTypes
<1>14. Buffers' /\ Opened' BY <1>1, <1>3 DEF Buffers, Opened
<1>15. RunningTypes'
  <2>1. running' \subseteq [channel : 1 .. sock', id : 0 .. MaxCalls, call : Calls,
                            cancelled : BOOLEAN]
    BY <1>3, <1>12
  <2>2. \A q \in running' : /\ owner[q.channel] # Absent
                            /\ runs[q.call] = 1 /\ q.id = wire[q.call]
                            /\ q.cancelled => q.call \in asked
    BY <1>12 DEF RunningTypes
  <2> QED BY <1>1, <1>3, <2>1, <2>2 DEF RunningTypes
<1>16. ServiceStates' BY <1>1, <1>3, <1>10 DEF ServiceStates
<1>17. RequestsOnce' BY <1>1, <1>4, <1>10 DEF RequestsOnce
<1>18. OpeningOnce' BY <1>1, <1>3, <1>4, <1>10 DEF OpeningOnce
<1>19. Numbered(I)' BY <1>1, <1>7, <1>10 DEF Instance, Numbered
<1>20. OnTheWay(I)'
  <2>1. \A q \in running' : q.channel \in Mine => q.call \in I
    BY <1>7, <1>12 DEF Instance, OnTheWay
  <2> QED BY <1>1, <1>4, <1>7, <1>10, <2>1 DEF Instance, OnTheWay
<1> QED BY <1>6, <1>13, <1>14, <1>15, <1>16, <1>17, <1>18, <1>19, <1>20 DEF Instance

\* The server answers.
LEMMA CallsReplied ==
    ASSUME Budget, Negotiation, Channels, Latest, CallsInv, NEW r \in running, Answer(r)
    PROVE  PayloadStep /\ CallsInv'
<1> USE DEF CallsInv
<1> PICK e, m : e = r.channel /\ m = Reply(r) OBVIOUS
<1>1. /\ running' = running \ {r}
      /\ UNCHANGED <<ends, toServer, held, status, wire, nextId, asked, service, open, runs>>
      /\ \/ ServerFits(e, <<m>>) /\ ServerWrite(e, <<m>>)
         \/ UNCHANGED <<toClient, buffer>>
  BY DEF Answer
<1>2. UNCHANGED <<channel, owner, attached, connection, load, sock>> BY <1>1 DEF ends
<1>3. /\ r \in [channel : 1 .. sock, id : 0 .. MaxCalls, call : Calls, cancelled : BOOLEAN]
      /\ owner[e] # Absent /\ runs[r.call] = 1 /\ r.id = wire[r.call]
  BY DEF RunningTypes
<1>4. e \in 1 .. sock /\ e \in Sockets BY <1>3, InSockets
<1>5. m \in Payload /\ m.kind = "reply" /\ m.call = r.call /\ m.id = r.id
  <2>1. r.id \in 0 .. MaxCalls /\ r.call \in 0 .. MaxCalls BY <1>3, Constants DEF Calls
  <2> QED BY <2>1 DEF Reply, Message, Payload
<1>6. /\ UNCHANGED toClient \/ (attached[e] = sock /\ Sends(toClient))
      /\ Buffers'
      /\ Carries(toClient') \subseteq
            Carries(toClient) \cup (IF attached[e] = sock THEN {m} ELSE {})
      /\ \A f \in Sockets \ {e} : buffer'[f] = buffer[f]
      /\ Range(buffer'[e]) \subseteq Range(buffer[e]) \cup {m}
      /\ \A X : Single(toClient, X) /\ (Carries(toClient) \cap X = {} \/ m \notin X)
                => Single(toClient', X)
  <2>1. CASE ServerFits(e, <<m>>) /\ ServerWrite(e, <<m>>)
    <3>1. UNCHANGED <<owner, held>> /\ Buffers BY <1>1, <1>2
    <3> QED BY <1>3, <1>4, <1>5, <2>1, <3>1, ServerWrites
  <2>2. CASE UNCHANGED <<toClient, buffer>> BY <1>1, <1>2, <2>2 DEF Buffers
  <2> QED BY <1>1, <2>1, <2>2
<1>7. attached[e] = sock => e \in Mine BY <1>4 DEF Mine
<1>8. UNCHANGED toClient \/ (~fresh /\ Sends(toClient))
  <2> SUFFICES ASSUME attached[e] = sock, Sends(toClient) PROVE ~fresh BY <1>6
  <2>1. sock >= 1 /\ e # Absent BY <1>4, InSockets DEF Absent
  <2>2. watch[sock] = e BY <1>4, <2>1, MineForm
  <2> QED BY <2>1, <2>2 DEF Latest, Budget, Ends
<1>9. PayloadStep BY <1>1, <1>8 DEF PayloadStep
<1>10. PICK I \in SUBSET Calls : Instance(I) OBVIOUS
<1>11. e \in Mine => m \in Replying(I)
  BY <1>3, <1>5, <1>10 DEF Replying, Instance, OnTheWay
<1>12. /\ Asking(I)' = Asking(I) /\ Replying(I)' = Replying(I)
       /\ Mine' = Mine /\ Opening' = Opening /\ Made' = Made /\ Pending' = Pending
       /\ \A d : RequestsOf(d)' = RequestsOf(d)
  BY <1>1, <1>2 DEF Asking, Replying, Mine, Opening, RequestsOf, Made, Pending
<1>13. CallTypes' BY <1>1, <1>12 DEF CallTypes
<1>14. Opened' BY <1>1, <1>2 DEF Opened
<1>15. RunningTypes' BY <1>1, <1>2 DEF RunningTypes
<1>16. ServiceStates' BY <1>1, <1>2, <1>12 DEF ServiceStates
<1>17. RequestsOnce' BY <1>1, <1>12 DEF RequestsOnce
<1>18. OpeningOnce'
  <2>1. m # AckOpen BY <1>5, Words
  <2>2. m \notin {AckOpen} BY <2>1
  <2>3. Single(toClient', {AckOpen}) BY <1>6, <2>2 DEF OpeningOnce
  <2>4. AckOpen \in Carries(toClient') => AckOpen \in Carries(toClient) BY <1>6, <2>1
  <2> QED BY <1>1, <1>2, <1>12, <2>3, <2>4 DEF OpeningOnce
<1>19. Numbered(I)' BY <1>1, <1>10, <1>12 DEF Instance, Numbered
<1>20. OnTheWay(I)'
  <2>1. Carries(toClient') \subseteq {AckOpen} \cup Replying(I)
    BY <1>6, <1>7, <1>10, <1>11 DEF Instance, OnTheWay
  <2>2. \A f \in Mine : Range(buffer'[f]) \subseteq Replying(I)
    <3>1. Mine \subseteq Sockets BY MineForm
    <3> QED BY <1>6, <1>10, <1>11, <3>1 DEF Instance, OnTheWay
  <2> QED BY <1>1, <1>10, <1>12, <2>1, <2>2 DEF Instance, OnTheWay
<1> QED
  BY <1>6, <1>9, <1>13, <1>14, <1>15, <1>16, <1>17, <1>18, <1>19, <1>20 DEF Instance
-----------------------------------------------------------------------------
(* The invariant. *)

Inv ==
    /\ timeout \in Timeouts
    /\ Budget /\ Negotiation /\ Channels /\ Latest /\ Serving /\ TimersAreCurrent
    /\ CallsInv

\* The invariant holds before the first socket.
LEMMA InitInv == ASSUME MInit PROVE Inv
<1> USE DEF MInit, Init, RpcInit
<1> USE Constants
<1>1. timeout \in Timeouts OBVIOUS
<1>2. Budget
  <2>1. drops \in 0 .. MaxDrops /\ sock \in Nat /\ load \in Nat \ {0} OBVIOUS
  <2>2. Ends BY DEF Ends
  <2>3. Linked BY DEF Linked
  <2>4. ~Refusable BY DEF Refusable
  <2>5. Spent BY <2>4 DEF Spent
  <2> QED BY <2>1, <2>2, <2>3, <2>5 DEF Budget, Counts
<1>3. toServer = <<>> /\ toClient = <<>> /\ DOMAIN toServer = {} /\ DOMAIN toClient = {}
  OBVIOUS
<1>4. Negotiation
  <2>1. Upwards BY <1>3, EmptySeq DEF Upwards
  <2>2. Downwards BY <1>3, EmptySeq DEF Downwards
  <2> QED BY <2>1, <2>2 DEF Negotiation
<1>5. Channels
  <2>1. /\ 0 \in 0 .. sock /\ 0 \in 0 .. load /\ Absent = 0 BY DEF Absent
  <2>2. ChannelTypes BY <2>1 DEF ChannelTypes
  <2>3. /\ \A e \in Sockets : owner[e] = Absent /\ attached[e] = Absent /\ watch[e] = Absent
        /\ \A i \in Sockets : connection[i] = Absent
    OBVIOUS
  <2>4. ChannelLinks BY <2>3 DEF ChannelLinks
  <2> QED BY <2>2, <2>4 DEF Channels
<1>6. Latest BY <1>3 DEF Latest
<1>7. Serving
  <2>1. 1 .. sock = {} OBVIOUS
  <2> QED BY <2>1 DEF Serving
<1>8. TimersAreCurrent BY DEF TimersAreCurrent
<1>9. CallsInv
  <2>1. /\ Made = {} /\ Pending = {} /\ Mine = {} /\ open = {} /\ running = {}
        /\ Carries(toServer) = {} /\ Carries(toClient) = {} /\ Range(held) = {}
        /\ \A e \in Sockets : buffer[e] = <<>>
        /\ \A X : Single(toServer, X) /\ Single(toClient, X)
    <3>1. 1 .. sock = {} OBVIOUS
    <3>2. Range(<<>>) = {} BY EmptySeq DEF Range
    <3> QED BY <1>3, <3>1, <3>2, CarriesNothing DEF Made, Pending, Mine
  <2>2. CallTypes
    <3>1. Cardinality(Made) = 0 BY <2>1, FS_EmptySet
    <3>2. 0 \in 0 .. MaxCalls /\ 0 \in 0 .. 1 OBVIOUS
    <3> QED BY <3>1, <3>2 DEF CallTypes
  <2>3. Buffers BY <2>1, EmptySeq DEF Buffers
  <2>4. Opened BY DEF Opened
  <2>5. RunningTypes BY DEF RunningTypes
  <2>6. ServiceStates BY <2>1 DEF ServiceStates
  <2>7. RequestsOnce BY <2>1 DEF RequestsOnce
  <2>8. OpeningOnce BY <2>1 DEF OpeningOnce
  <2>9. Numbered({}) BY <2>1 DEF Numbered
  <2>10. OnTheWay({}) BY <2>1 DEF OnTheWay
  <2> QED BY <2>2, <2>3, <2>4, <2>5, <2>6, <2>7, <2>8, <2>9, <2>10 DEF CallsInv, Instance
<1> QED BY <1>1, <1>2, <1>4, <1>5, <1>6, <1>7, <1>8, <1>9 DEF Inv

\* Every step negotiates, or carries messages of calls, or leaves the connection alone.
LEMMA Moves ==
    ASSUME Budget, Negotiation, Channels, Latest, CallsInv, [Next]_vars
    PROVE  /\ Negotiates \/ PayloadStep \/ UNCHANGED transport
           /\ UNCHANGED timeout
<1>1. ASSUME Negotiates PROVE UNCHANGED timeout
  BY <1>1 DEF Negotiates, SocketConnect, SocketBreaks, ClientNotices, ConnectNewChannel,
     ReconnectAccepted, ReconnectRefused, InitialConnect, ReconnectFrontend,
     NegotiationIgnored, ServerNotices, CloseTimeout
<1>2. ASSUME PayloadStep PROVE UNCHANGED timeout BY <1>2 DEF PayloadStep, ends
<1>3. CASE UNCHANGED vars BY <1>3 DEF vars, transport
<1>4. CASE User BY <1>2, <1>4, CallsMade, CallsCancelled DEF User
<1>5. CASE Break BY <1>1, <1>5 DEF Break, Negotiates
<1>6. ASSUME \/ Connect \/ Notice \/ NewChannel \/ Accepted
             \/ (\E reload \in BOOLEAN : Refused(reload))
             \/ InitialArrives \/ ReconnectArrives \/ Ignore
      PROVE  Negotiates
  BY <1>6 DEF Negotiates, Connect, Notice, NewChannel, Accepted, Refused, InitialArrives,
     ReconnectArrives, Ignore
<1>7. ASSUME NEW s \in Sockets, DisconnectFires(s) \/ TimerFires(s) PROVE Negotiates
  BY <1>7 DEF Negotiates, DisconnectFires, TimerFires
<1>8. ASSUME PathOpens \/ ReplyArrives \/ OpenArrives \/ RequestArrives \/ CancelArrives
             \/ (\E r \in running : Answer(r))
      PROVE  PayloadStep
  BY <1>8, CallsOpened, CallsAnswered, CallsOpening, CallsRun, CallsStopped, CallsReplied
<1>9. ASSUME DroppedByServer PROVE PayloadStep
  <2>1. ServerReads /\ UNCHANGED <<ends, toClient>> BY <1>9 DEF DroppedByServer
  <2>2. Takes(toServer) BY <2>1, ServerHears
  <2> QED BY <2>1, <2>2 DEF PayloadStep
<1>10. CASE Program BY <1>1, <1>2, <1>6, <1>7, <1>8, <1>9, <1>10 DEF Program
<1> QED BY <1>3, <1>4, <1>5, <1>10 DEF Next

\* Every step of the user, the network or the program keeps the part about the calls.
LEMMA CallsStep ==
    ASSUME Budget, Budget', Negotiation, Channels, Latest, CallsInv, [Next]_vars
    PROVE  CallsInv'
<1>1. CASE UNCHANGED vars
  <2>1. /\ UNCHANGED <<status, wire, nextId, asked, service, running, runs, channel>>
        /\ UNCHANGED <<open, owner, attached, buffer, connection, load, sock>>
        /\ UNCHANGED <<held, toServer, toClient>>
    BY <1>1 DEF vars, rpc, transport, frontend, network, backend, channels
  <2> QED BY <2>1, CallsPassed
<1>2. CASE User BY <1>2, CallsMade, CallsCancelled DEF User
<1>3. CASE Break BY <1>3, CallsBroken DEF Break
<1>4. CASE Program
  <2>1. ASSUME Connect \/ Notice \/ NewChannel \/ Accepted PROVE CallsInv'
    BY <2>1, CallsConnected, CallsBroken, CallsCreated, CallsAccepted DEF Notice, Accepted
  <2>2. ASSUME NEW reload \in BOOLEAN, Refused(reload) PROVE CallsInv' BY <2>2, CallsRefused
  <2>3. ASSUME InitialArrives \/ ReconnectArrives \/ Ignore PROVE CallsInv'
    BY <2>3, CallsInitial, CallsReconnected, CallsIgnored DEF Ignore
  <2>4. ASSUME NEW s \in Sockets, DisconnectFires(s) \/ TimerFires(s) PROVE CallsInv'
    BY <2>4, CallsDisconnected
  <2>5. ASSUME PathOpens \/ ReplyArrives \/ OpenArrives \/ RequestArrives \/ CancelArrives
               \/ DroppedByServer \/ (\E r \in running : Answer(r))
        PROVE  CallsInv'
    BY <2>5, CallsOpened, CallsAnswered, CallsOpening, CallsRun, CallsStopped, CallsDropped,
       CallsReplied
  <2> QED BY <1>4, <2>1, <2>2, <2>3, <2>4, <2>5 DEF Program
<1> QED BY <1>1, <1>2, <1>3, <1>4 DEF Next

\* The invariant is inductive.
LEMMA NextInv == ASSUME Inv, [Next]_vars PROVE Inv'
<1> USE DEF Inv
<1>1. /\ Negotiates \/ PayloadStep \/ UNCHANGED transport
      /\ timeout' \in Timeouts
  BY Moves
<1>2. Buffers BY DEF CallsInv
<1>3. Budget' BY <1>1, <1>2, BudgetStep
<1>4. Negotiation' BY <1>1, <1>2, OpensForm, NegotiationStep
<1>5. Channels' BY <1>1, <1>3, ChannelsStep
<1>6. Latest' BY <1>1, <1>2, LatestStep
<1>7. Serving' /\ TimersAreCurrent' BY <1>1, <1>3, ServingStep
<1>8. CallsInv' BY <1>3, CallsStep
<1> QED BY <1>1, <1>3, <1>4, <1>5, <1>6, <1>7, <1>8

\* The inductive invariant: each of the theorems about the connection and the calls
\* below is a consequence of it.
THEOREM InvHolds == Spec => []Inv
<1>1. MInit => Inv BY InitInv
<1>2. Inv /\ [Next]_vars => Inv' BY NextInv
<1> QED BY <1>1, <1>2, PTL DEF Spec
-----------------------------------------------------------------------------
(* What the callers may rely on. *)

\* The variables of the connection and of the calls keep their types: the sockets suffice,
\* buffers keep their limits, ids stay below the number of calls and a service runs at most
\* once for each (Messaging's two layers together).
THEOREM TypeCorrect == Spec => []TypeOK
<1>1. ASSUME Inv PROVE TypeOK
  <2> USE <1>1 DEF Inv
  <2>1. /\ load \in Sockets /\ 1 .. sock \subseteq Sockets /\ sock \in Nat
        /\ sock >= 1 => sock \in Sockets
    BY InSockets
  <2>2. 0 .. sock \subseteq {Absent} \cup Sockets BY <2>1 DEF Absent
  <2>3. 0 .. load \subseteq {Absent} \cup Sockets
    <3>1. 1 .. load \subseteq Sockets BY <2>1, Constants
    <3> QED BY <2>1, <3>1 DEF Absent
  <2>4. /\ timeout \in Timeouts /\ drops \in 0 .. MaxDrops
        /\ load \in Sockets /\ sock \in {Absent} \cup Sockets
        /\ connected \in BOOLEAN /\ link \in BOOLEAN /\ fresh \in BOOLEAN /\ outbox \in BOOLEAN
        /\ channel \in {"none", "open", "closed"}
    BY <2>1 DEF Budget, Counts, Ends, Absent
  <2>5. \A q \in Seq(Payload) : Range(q) \subseteq Payload
    <3> TAKE q \in Seq(Payload)
    <3>1. \A i \in DOMAIN q : q[i] \in Payload BY Places
    <3> QED BY <3>1 DEF Range
  <2>6. \A d \in Packet : IsData(d) BY <2>5 DEF Packet, IsData
  <2>7. \A d \in Range(toServer) : d \in {Initial, Reconnect} \/ IsData(d)
    BY <2>6, Places DEF Negotiation, Upwards, Range
  <2>8. \A d \in Range(toClient) : d \in {Initial, Known(TRUE), Known(FALSE)} \/ IsData(d)
    <3> DEFINE S == {Initial, Known(TRUE), Known(FALSE)} \cup Packet
    <3>1. toClient \in Seq(S) BY DEF Negotiation, Downwards
    <3>2. \A d \in S : d \in {Initial, Known(TRUE), Known(FALSE)} \/ IsData(d) BY <2>6
    <3> HIDE DEF S
    <3>3. \A i \in DOMAIN toClient : toClient[i] \in S BY <3>1, Places
    <3> QED BY <3>2, <3>3 DEF Range
  <2>9. /\ Len(held) <= Capacity /\ Range(held) \subseteq Payload
        /\ DOMAIN buffer = Sockets
        /\ \A e \in Sockets : Len(buffer[e]) <= Capacity /\ Range(buffer[e]) \subseteq Payload
    BY <2>5 DEF CallsInv, Buffers
  <2>10. /\ gone \subseteq Sockets /\ timers \subseteq Sockets
         /\ overtaken \in BOOLEAN /\ orphaned \in BOOLEAN
    BY <2>1 DEF Channels, ChannelTypes
  <2>11. {owner, attached, connection, watch, handle} \subseteq [Sockets -> {Absent} \cup Sockets]
    <3> DEFINE T == {Absent} \cup Sockets
    <3>1. 0 .. sock \subseteq T /\ 0 .. load \subseteq T BY <2>2, <2>3
    <3> HIDE DEF T
    <3>2. owner \in [Sockets -> T] BY <3>1 DEF Channels, ChannelTypes
    <3>3. attached \in [Sockets -> T] /\ connection \in [Sockets -> T]
      BY <3>1 DEF Channels, ChannelTypes
    <3>4. watch \in [Sockets -> T] /\ handle \in [Sockets -> T]
      BY <3>1 DEF Channels, ChannelTypes
    <3> QED BY <3>2, <3>3, <3>4 DEF T
  <2>12. open \subseteq Sockets BY <2>1 DEF CallsInv, Opened
  <2>13. /\ status \in [Calls -> {"idle", "waiting", "pending", "answered", "rejected"}]
         /\ wire \in [Calls -> 0 .. MaxCalls]
         /\ asked \subseteq Calls /\ runs \in [Calls -> 0 .. 1]
    BY DEF CallsInv, CallTypes
  <2>14. nextId \in 0 .. MaxCalls
    <3>1. nextId \in Nat /\ nextId <= Cardinality(Made) BY DEF CallsInv, CallTypes
    <3>2. Made \in SUBSET Calls BY DEF Made
    <3>3. Cardinality(Made) \in Nat /\ Cardinality(Made) <= MaxCalls BY <3>2, FewCalls
    <3> QED BY <3>1, <3>3, Constants
  <2>15. service \in {"new", "opening", "reopening", "open", "closed", "forgotten"}
    BY <2>4 DEF CallsInv, ServiceStates
  <2>16. running \subseteq [channel : Sockets, id : 0 .. MaxCalls, call : Calls,
                            cancelled : BOOLEAN]
    BY <2>1 DEF CallsInv, RunningTypes
  <2> QED
    BY <2>4, <2>7, <2>8, <2>9, <2>10, <2>11, <2>12, <2>13, <2>14, <2>15, <2>16 DEF TypeOK
<1> QED BY <1>1, InvHolds, PTL

\* When nothing is under way both sides mean the same connection, and a path the front end
\* has open is open on the server too (socket-connection and connection services).
THEOREM AgreementHolds == Spec => []Agreement
<1>1. ASSUME Inv PROVE Agreement
  <2> USE <1>1 DEF Inv
  <2> SUFFICES ASSUME Quiet, channel = "open", ~overtaken
               PROVE  \E e \in Listening : owner[e] = load /\ (service = "open" => e \in open)
    BY DEF Agreement
  <2>1. connected /\ link /\ toServer = <<>> /\ toClient = <<>> BY DEF Quiet
  <2>2. /\ sock \in Nat /\ 1 .. sock \subseteq Sockets
        /\ sock >= 1 => sock \in Sockets /\ sock \in 1 .. sock
    BY InSockets
  <2>3. sock >= 1 BY <2>1 DEF Budget, Linked
  <2>4. ~fresh BY <2>1 DEF Negotiation, Upwards, Budget, Ends
  <2> PICK e : e = watch[sock] OBVIOUS
  <2>5. e # Absent BY <2>1, <2>4 DEF Latest
  <2>6. e \in Sockets /\ owner[e] \in Sockets BY <2>2, <2>3, <2>5, Watched
  <2>7. owner[e] = load BY <2>1, <2>5 DEF Latest
  <2>8. sock \notin gone BY <2>1 DEF Channels, ChannelLinks
  <2>9. connection[load] = e /\ attached[e] = sock BY <2>2, <2>3, <2>5, <2>7, <2>8 DEF Serving
  <2>10. e \in Listening BY <2>6, <2>7, <2>9 DEF Listening
  <2>11. service = "open" => e \in open BY <2>5, <2>9 DEF CallsInv, ServiceStates
  <2> QED BY <2>7, <2>10, <2>11
<1> QED BY <1>1, InvHolds, PTL

\* A close timer is the one closeTimeouts holds, of a connection that waits for a socket.
THEOREM TimersAreCurrentHolds == Spec => []TimersAreCurrent
<1>1. Inv => TimersAreCurrent BY DEF Inv
<1> QED BY <1>1, InvHolds, PTL

\* No answer or acknowledgement of an earlier channel reaches the one that follows it.
THEOREM NothingStrayHolds == Spec => []NothingStray
<1>1. ASSUME Inv PROVE NothingStray
  <2> USE <1>1 DEF Inv
  <2> SUFFICES ASSUME toClient # <<>>, FromServer.type = "data"
               PROVE  /\ channel = "open"
                      /\ IF ToClient = AckOpen THEN service \in {"opening", "reopening"}
                         ELSE service = "open"
    BY DEF NothingStray
  <2> DEFINE S == {Initial, Known(TRUE), Known(FALSE)} \cup Packet
  <2>1. toClient \in Seq(S) /\ FromServer = toClient[1]
    BY Heads DEF FromServer, Negotiation, Downwards
  <2>2. toClient[1] \in Packet
    <3>1. toClient[1] \in S BY <2>1, Places
    <3> QED BY <2>1, <3>1, PacketForm
  <2> HIDE DEF S
  <2>3. ToClient = toClient[1].batch[1] BY <2>1, <2>2, PacketForm DEF ToClient
  <2>4. ToClient \in Carries(toClient) BY <2>1, <2>3, CarriesTaken
  <2>5. PICK I \in SUBSET Calls : Instance(I) BY DEF CallsInv
  <2>6. CASE ToClient = AckOpen
    <3>1. Opening BY <2>4, <2>6 DEF CallsInv, OpeningOnce
    <3>2. channel = "open" BY <3>1 DEF Opening, CallsInv, ServiceStates, Budget, Ends
    <3> QED BY <2>6, <3>1, <3>2 DEF Opening
  <2>7. CASE ToClient # AckOpen
    <3>1. ToClient \in Replying(I) BY <2>4, <2>5, <2>7 DEF Instance, OnTheWay
    <3>2. I # {} BY <3>1 DEF Replying
    <3>3. service = "open" BY <2>5, <3>2 DEF Instance, Numbered
    <3>4. channel = "open" BY <3>3 DEF CallsInv, ServiceStates, Budget, Ends
    <3> QED BY <2>7, <3>3, <3>4
  <2> QED BY <2>6, <2>7
<1> QED BY <1>1, InvHolds, PTL

\* A service sees a cancellation only when its own caller asked for one.
THEOREM CancelsMatchHolds == Spec => []CancelsMatch
<1>1. Inv => CancelsMatch BY DEF Inv, CallsInv, RunningTypes, CancelsMatch
<1> QED BY <1>1, InvHolds, PTL

\* What a step does to the calls.
LEMMA StatusSteps ==
    ASSUME Inv, [Next]_vars
    PROVE  \/ UNCHANGED <<status, runs>>
           \/ \E c \in Calls, x \in {"waiting", "pending", "rejected"} :
                 /\ status[c] = "idle" /\ status' = [status EXCEPT ![c] = x] /\ UNCHANGED runs
           \/ \E cs \in SUBSET (Pending \cup Waiting) : Reject(cs) /\ UNCHANGED runs
           \/ /\ status' = [c \in Calls |-> IF c \in Waiting THEN "pending" ELSE status[c]]
              /\ UNCHANGED runs
           \/ /\ ToClient.call \in Pending /\ runs[ToClient.call] = 1 /\ UNCHANGED runs
              /\ status' = [status EXCEPT ![ToClient.call] = "answered"]
           \/ \E c \in Calls : /\ c \in Made /\ runs[c] = 0 /\ runs' = [runs EXCEPT ![c] = @ + 1]
                               /\ UNCHANGED status
<1> USE DEF Inv
<1>1. status \in [Calls -> {"idle", "waiting", "pending", "answered", "rejected"}]
  BY DEF CallsInv, CallTypes
<1>2. ASSUME UNCHANGED vars \/ Break \/ Connect \/ Notice \/ Accepted \/ InitialArrives
             \/ ReconnectArrives \/ Ignore
             \/ (\E s \in Sockets : DisconnectFires(s) \/ TimerFires(s))
             \/ OpenArrives \/ CancelArrives \/ DroppedByServer \/ (\E r \in running : Answer(r))
             \/ (\E c \in Calls : Cancel(c))
      PROVE  UNCHANGED <<status, runs>>
  BY <1>2 DEF vars, rpc, Break, Connect, Notice, Accepted, InitialArrives, ClosePaths,
     ReconnectArrives, Ignore, DisconnectFires, TimerFires, OpenArrives, CancelArrives,
     DroppedByServer, Answer, Cancel
<1>3. ASSUME NEW c \in Calls, Call(c)
      PROVE  \E x \in {"waiting", "pending", "rejected"} :
                status[c] = "idle" /\ status' = [status EXCEPT ![c] = x] /\ UNCHANGED runs
  <2>1. status[c] = "idle" /\ UNCHANGED runs BY <1>3 DEF Call
  <2>2. ASSUME Registered(<<c>>, nextId) PROVE status' = [status EXCEPT ![c] = "pending"]
    <3>1. Range(<<c>>) = {c} BY DEF Range
    <3> QED BY <1>1, <2>2, <3>1 DEF Registered
  <2>3. ASSUME Reject({c}) PROVE status' = [status EXCEPT ![c] = "rejected"]
    BY <1>1, <2>3 DEF Reject
  <2> QED BY <1>3, <2>1, <2>2, <2>3 DEF Call
<1>4. ASSUME NewChannel \/ (\E reload \in BOOLEAN : Refused(reload))
      PROVE  \E cs \in SUBSET (Pending \cup Waiting) : Reject(cs) /\ UNCHANGED runs
  BY <1>4 DEF NewChannel, Refused
<1>5. ASSUME PathOpens
      PROVE  /\ status' = [c \in Calls |-> IF c \in Waiting THEN "pending" ELSE status[c]]
             /\ UNCHANGED runs
  <2>1. PICK cs \in InOrder(Waiting) : Registered(cs, 0) BY <1>5 DEF PathOpens
  <2>2. Range(cs) = Waiting
    <3>1. Waiting \in SUBSET Calls BY DEF Waiting
    <3> QED BY <2>1, <3>1, InOrderForm
  <2> QED BY <1>5, <2>1, <2>2 DEF Registered, PathOpens
<1>6. ASSUME ReplyArrives
      PROVE  \/ UNCHANGED <<status, runs>>
             \/ /\ ToClient.call \in Pending /\ runs[ToClient.call] = 1 /\ UNCHANGED runs
                /\ status' = [status EXCEPT ![ToClient.call] = "answered"]
  <2> PICK m, c : m = ToClient /\ c = m.call OBVIOUS
  <2>1. m.kind = "reply" /\ m \in Carries(toClient) /\ Settled(m) /\ UNCHANGED runs
    BY <1>6, ClientHears DEF ReplyArrives
  <2>2. PICK I \in SUBSET Calls : Instance(I) BY DEF CallsInv
  <2>3. m \in Replying(I)
    <3>1. m # AckOpen BY <2>1, Words
    <3> QED BY <2>1, <2>2, <3>1 DEF Instance, OnTheWay
  <2>4. c \in I /\ c \in Calls /\ m.id = wire[c] /\ runs[c] = 1 BY <2>3 DEF Replying
  <2>5. \A d \in Pending : wire[d] = m.id <=> d = c
    BY <2>2, <2>4 DEF Instance, Numbered
  <2>6. \A d \in Calls : status'[d] = IF d = c /\ c \in Pending THEN "answered" ELSE status[d]
    BY <2>1, <2>5 DEF Settled
  <2>7. status' = [d \in Calls |-> status'[d]] BY <2>1 DEF Settled
  <2>8. CASE c \in Pending
    <3>1. status' = [status EXCEPT ![c] = "answered"] BY <1>1, <2>6, <2>7, <2>8
    <3> QED BY <2>1, <2>4, <2>8, <3>1
  <2>9. CASE c \notin Pending
    <3>1. status' = status BY <1>1, <2>6, <2>7, <2>9
    <3> QED BY <2>1, <3>1
  <2> QED BY <2>8, <2>9
<1>7. ASSUME RequestArrives
      PROVE  \E c \in Calls : /\ c \in Made /\ runs[c] = 0 /\ runs' = [runs EXCEPT ![c] = @ + 1]
                              /\ UNCHANGED status
  <2>1. UNCHANGED status BY <1>7 DEF RequestArrives
  <2> QED BY <1>7, <2>1, CallsRun
<1>8. CASE User BY <1>2, <1>3, <1>8 DEF User
<1>9. CASE Program BY <1>2, <1>4, <1>5, <1>6, <1>7, <1>9 DEF Program
<1> QED BY <1>2, <1>8, <1>9 DEF Next

\* An answer settles the call it was given for, although the ids of requests start again at
\* 0 on every new channel (handleReply).
THEOREM AnswersMatchHolds == Spec => AnswersMatch
<1>1. ASSUME Inv, [Next]_vars, NEW c \in Calls, status[c] = "pending", status'[c] = "answered"
      PROVE  ToClient.call = c
  <2>1. status \in [Calls -> {"idle", "waiting", "pending", "answered", "rejected"}]
    BY <1>1 DEF Inv, CallsInv, CallTypes
  <2>2. \A d \in Calls, x \in {"waiting", "pending", "rejected"} :
           status' = [status EXCEPT ![d] = x] => status'[c] # "answered"
    BY <1>1, <2>1
  <2>3. \A cs : Reject(cs) => status'[c] # "answered" BY <1>1 DEF Reject
  <2>4. status' # [d \in Calls |-> IF d \in Waiting THEN "pending" ELSE status[d]] BY <1>1
  <2>5. status' # status BY <1>1
  <2>6. status' = [status EXCEPT ![ToClient.call] = "answered"]
    BY <1>1, <2>2, <2>3, <2>4, <2>5, StatusSteps
  <2> QED BY <1>1, <2>1, <2>6
<1>2. Inv /\ [Next]_vars =>
         [\A c \in Calls : (status[c] = "pending" /\ status'[c] = "answered") =>
             ToClient.call = c]_vars
  BY <1>1
<1> QED BY <1>2, InvHolds, PTL DEF Spec, AnswersMatch

\* The calls keep what RemoteCall promises: each runs at most once, is answered only by its
\* run, and does not change once it is settled (rpc-protocol.ts).
THEOREM RemoteCallImplemented == Spec => ImplementsRemoteCall
<1> DEFINE P(s) == [c \in Calls |-> CASE s[c] = "idle" -> "unmade"
                                      [] s[c] \in {"waiting", "pending"} -> "open"
                                      [] OTHER -> s[c]]
           St == {"idle", "waiting", "pending", "answered", "rejected"}
<1>1. \A s \in [Calls -> St], c \in Calls :
         /\ s[c] = "idle" => P(s)[c] = "unmade"
         /\ s[c] \in {"waiting", "pending"} => P(s)[c] = "open"
         /\ s[c] \in {"answered", "rejected"} => P(s)[c] = s[c]
  OBVIOUS
<1>2. \A s, t \in [Calls -> St] :
         (\A c \in Calls : P(s)[c] = P(t)[c]) => P(s) = P(t)
  OBVIOUS
<1>3. MInit => Abstract!Init
  BY DEF MInit, RpcInit, Abstract!Init
<1>4. ASSUME Inv, [Next]_vars PROVE [Abstract!Next]_<<P(status), runs>>
  <2>1. /\ status \in [Calls -> St] /\ runs \in [Calls -> 0 .. 1]
        /\ \A c \in Calls \ Made : runs[c] = 0
    BY <1>4 DEF Inv, CallsInv, CallTypes
  <2>2. CASE UNCHANGED <<status, runs>> BY <2>2
  <2>3. ASSUME NEW c \in Calls, NEW x \in {"waiting", "pending", "rejected"},
               status[c] = "idle", status' = [status EXCEPT ![c] = x], UNCHANGED runs
        PROVE  Abstract!Next
    <3>1. CASE x \in {"waiting", "pending"}
      <4>1. P(status)' = [P(status) EXCEPT ![c] = "open"] BY <2>1, <2>3, <3>1
      <4>2. P(status)[c] = "unmade" BY <1>1, <2>1, <2>3
      <4>3. Abstract!Make(c) BY <2>3, <4>1, <4>2 DEF Abstract!Make
      <4> QED BY <4>3 DEF Abstract!Next
    <3>2. CASE x = "rejected"
      <4>1. P(status)' = [d \in Calls |-> IF d \in {c} THEN "rejected" ELSE P(status)[d]]
        BY <2>1, <2>3, <3>2
      <4>2. P(status)[c] = "unmade" BY <1>1, <2>1, <2>3
      <4>3. Abstract!RejectAll({c}) BY <2>3, <4>1, <4>2 DEF Abstract!RejectAll
      <4> QED BY <4>3 DEF Abstract!Next
    <3> QED BY <3>1, <3>2
  <2>4. ASSUME NEW cs \in SUBSET (Pending \cup Waiting), Reject(cs), UNCHANGED runs
        PROVE  Abstract!Next
    <3>1. cs \subseteq Calls /\ \A c \in cs : status[c] \in {"waiting", "pending"}
      BY DEF Pending, Waiting
    <3>2. P(status)' = [d \in Calls |-> IF d \in cs THEN "rejected" ELSE P(status)[d]]
      BY <2>1, <2>4, <3>1 DEF Reject
    <3>3. \A c \in cs : P(status)[c] \in {"unmade", "open"} BY <1>1, <2>1, <3>1
    <3>4. Abstract!RejectAll(cs) BY <2>4, <3>2, <3>3 DEF Abstract!RejectAll
    <3> QED BY <3>1, <3>4 DEF Abstract!Next
  <2>5. ASSUME status' = [c \in Calls |-> IF c \in Waiting THEN "pending" ELSE status[c]],
               UNCHANGED runs
        PROVE  UNCHANGED <<P(status), runs>>
    BY <2>1, <2>5 DEF Waiting
  <2>6. ASSUME NEW c \in Pending, runs[c] = 1, status' = [status EXCEPT ![c] = "answered"],
               UNCHANGED runs
        PROVE  Abstract!Next
    <3>1. c \in Calls /\ status[c] = "pending" BY DEF Pending
    <3>2. P(status)' = [P(status) EXCEPT ![c] = "answered"] BY <2>1, <2>6, <3>1
    <3>3. P(status)[c] = "open" BY <1>1, <2>1, <3>1
    <3>4. Abstract!Answer(c) BY <2>6, <3>2, <3>3 DEF Abstract!Answer
    <3> QED BY <3>1, <3>4 DEF Abstract!Next
  <2>7. ASSUME NEW c \in Calls, c \in Made, runs[c] = 0, runs' = [runs EXCEPT ![c] = @ + 1],
               UNCHANGED status
        PROVE  Abstract!Next
    <3>1. runs' = [runs EXCEPT ![c] = 1] BY <2>1, <2>7
    <3>2. status[c] \in {"pending", "answered", "rejected"} BY <2>1, <2>7 DEF Made
    <3>3. P(status)[c] # "unmade" BY <1>1, <2>1, <3>2
    <3>4. UNCHANGED P(status) BY <2>7
    <3>5. Abstract!Run(c) BY <2>7, <3>1, <3>3, <3>4 DEF Abstract!Run
    <3> QED BY <3>5 DEF Abstract!Next
  <2> QED BY <1>4, <2>2, <2>3, <2>4, <2>5, <2>6, <2>7, StatusSteps
<1> QED BY <1>3, <1>4, InvHolds, PTL DEF Spec, ImplementsRemoteCall, Abstract!Spec
=============================================================================
