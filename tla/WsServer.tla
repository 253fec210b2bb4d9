------------------------------- MODULE WsServer -------------------------------
(***************************************************************************)
(* The dashboard server (src/engine/WsServer.hpp) as the engine's tick     *)
(* runs it (src/engine/main.cpp): service() accepts, polls, dispatches the *)
(* commands read and reaps the dead, then a push may be broadcast. Bytes   *)
(* are units: a message is cut in a few of them, so that one may be half   *)
(* received, half decoded or half sent.                                    *)
(***************************************************************************)
EXTENDS Naturals, Sequences, SequencesExt

CONSTANTS
    Conns,          \* the connections browsers make, each at most once
    Casts,          \* who may play together: functions from Conns to a role, that
                    \* is, the messages to send in order and the ways to leave
    max_backlog,    \* in units
    MaxRequest,     \* the longest request accepted (16384 bytes), in units
    SocketBuffer,   \* bound: units a socket holds on their way to the browser
    MaxPushes       \* bound: broadcasts

\* Requests are "upgrade" (to a websocket), "get" (anything else) and "junk",
\* which is too long for one; frames are "text" (a command), "ping", "other"
\* (binary, continuation), "close" and "bad" (not masked, or too long). The
\* server sends "101", "page", "ack", "pong" and "push". ver is the number of
\* commands handled when an ack or a push was made.
Message(kind, n, ver) == [kind |-> kind, n |-> n, ver |-> ver]
Fatal == {"close", "bad"}

Size(kind) ==
    IF kind = "junk" THEN MaxRequest + 1 ELSE IF kind \in {"get", "text", "page"} THEN 2 ELSE 1
UnitsOf(m) == [k \in 1..Size(m.kind) |-> [msg |-> m, part |-> k]]
UnitsOfAll(messages) == FlattenSeq([i \in DOMAIN messages |-> UnitsOf(messages[i])])
EndsMessage(x) == x.part = Size(x.msg.kind)
HasEnd(units) == \E j \in DOMAIN units : EndsMessage(units[j])

\* What a browser sends: at most one request, and frames after it.
Requests == {"upgrade", "get", "junk"}
Frames == {"text", "ping", "other", "close", "bad"}
Scripts ==
    LET messages(kinds) == [kind : kinds, n : Nat, ver : {0}]
    IN {s \in Seq(messages(Requests \union Frames)) :
           \A i \in DOMAIN s : s[i].kind \in Requests <=> i = 1}

ASSUME ServerConstants ==
    /\ IsFiniteSet(Conns)
    /\ max_backlog \in Nat /\ MaxRequest \in Nat /\ SocketBuffer \in Nat /\ MaxPushes \in Nat
ASSUME CastsAreBrowsers ==
    \A who \in Casts : \A c \in Conns :
        who[c].script \in Scripts /\ who[c].leaves \subseteq {"fin", "reset"}

\* The elements of a sequence that are good, in its order.
Among(s, good) ==
    FlattenSeq([i \in DOMAIN s |-> IF s[i] \in good THEN <<s[i]>> ELSE <<>>])

VARIABLES
    cast,     \* who plays
    conn,     \* conn[c]: both ends of a connection and the sockets between
    backlog,  \* connections waiting to be accepted
    clients,  \* clients_, as connections
    phase,    \* "idle" between service() and a push, "accept" or "poll" within
              \* service() and after a push, "gone" after the engine's end
    at,       \* the index of the poll loop
    revents,  \* what poll() reported, for each client
    pending,  \* pending_: the commands read, each with the fd it came from
    pushes, dropped, pages, commands,
    handled   \* history: the commands the handler was given

vars == <<cast, conn, backlog, clients, phase, at, revents, pending, pushes, dropped,
          pages, commands, handled>>
counters == <<pushes, dropped, pages, commands>>

\* up and down are the units in flight, got those the browser has read; ended
\* is how the browser ended the connection: "no", "fin" or "reset". The rest is
\* struct Client, and queued the history of what was put into out.
NewConn ==
    [written |-> 0, up |-> <<>>, down |-> <<>>, got |-> <<>>, ended |-> "no",
     fd |-> 0, open |-> FALSE, dead |-> FALSE, serve_only |-> FALSE, closed |-> FALSE,
     in |-> <<>>, out |-> <<>>, queued |-> <<>>]

Script(c) == cast[c].script

Init ==
    /\ cast \in Casts
    /\ conn = [c \in Conns |-> NewConn]
    /\ backlog = <<>>
    /\ clients = <<>>
    /\ phase = "idle"
    /\ at = 0
    /\ revents = <<>>
    /\ pending = <<>>
    /\ pushes = 0 /\ dropped = 0 /\ pages = 0 /\ commands = 0
    /\ handled = <<>>
-----------------------------------------------------------------------------
\* What a socket holding down takes of out.
Room(r) == Min({SocketBuffer - Len(r.down), Len(r.out)})
Taken(r) == SubSeq(r.out, 1, Room(r))
Left(r) == SubSeq(r.out, Room(r) + 1, Len(r.out))

\* Mutants of Flushed: what the socket does not take is forgotten; a served
\* page leaves the connection open.
FlushedOrLost(r) ==
    [r EXCEPT !.out = <<>>, !.down = @ \o Taken(r), !.dead = @ \/ r.serve_only]
FlushedKeepingOpen(r) == [r EXCEPT !.out = Left(r), !.down = @ \o Taken(r)]

\* flush(): the socket takes what it has room for. A reset connection is dead,
\* and so is one that has got the whole of its page.
Flushed(r) ==
    IF r.out # <<>> /\ r.ended = "reset"
    THEN [r EXCEPT !.dead = TRUE]
    ELSE [r EXCEPT !.out = Left(r), !.down = @ \o Taken(r),
                   !.dead = @ \/ (Left(r) = <<>> /\ r.serve_only)]

\* Mutant of Fits: the frame itself is not counted.
FitsWithoutIt(r, kind) == Len(r.out) <= max_backlog

Fits(r, kind) == Len(r.out) + Size(kind) <= max_backlog

Put(r, m) == [r EXCEPT !.out = @ \o UnitsOf(m), !.queued = Append(@, m)]

\* handshake(): whatever was in the buffers gives way to the one response.
Handshaken(r, kind) ==
    LET m == Message(IF kind = "upgrade" THEN "101" ELSE "page", 0, 0)
        fresh == [r EXCEPT !.in = <<>>, !.out = <<>>, !.open = @ \/ kind = "upgrade",
                           !.serve_only = @ \/ kind = "get"]
    IN Flushed(Put(fresh, m))

\* Mutant of Undecoded: decoded frames stay in the buffer.
UndecodedToo(units) == units

\* The part of the units received that is no whole frame yet.
Undecoded(units) ==
    LET ends == {j \in DOMAIN units : EndsMessage(units[j])}
    IN SubSeq(units, Max({0} \union ends) + 1, Len(units))

\* The whole messages of one kind among the units.
WholeOf(units, kind) ==
    FlattenSeq([i \in DOMAIN units |->
        IF EndsMessage(units[i]) /\ units[i].msg.kind = kind THEN <<units[i].msg>> ELSE <<>>])

UpToFatal(units) ==
    LET fatal == {j \in DOMAIN units : units[j].msg.kind \in Fatal}
    IN IF fatal = {} THEN units ELSE SubSeq(units, 1, Min(fatal) - 1)

\* decode_frames(): a close or a bad frame ends the client, after what came
\* before it. Pings are answered as far as the backlog allows.
Decoded(r, units, good) ==
    LET pings == WholeOf(good, "ping")
        room == IF Len(r.out) < max_backlog THEN max_backlog - Len(r.out) ELSE 0
        pongs == [i \in 1..Min({room, Len(pings)}) |-> Message("pong", pings[i].n, 0)]
    IN [r EXCEPT !.in = Undecoded(good), !.dead = @ \/ good # units,
                 !.out = @ \o UnitsOfAll(pongs), !.queued = @ \o pongs]

\* Mutant of SeesEnd: the end of the stream is taken for "nothing yet".
NeverSeesEnd(r) == FALSE

\* recv() returns 0.
SeesEnd(r) == r.ended = "fin"
-----------------------------------------------------------------------------
\* service() begins: accept() of one connection; the kernel gives it the
\* lowest free descriptor.
AcceptNew ==
    /\ phase \in {"idle", "accept"}
    /\ phase' = "accept"
    /\ backlog # <<>>
    /\ LET used == {conn[clients[i]].fd : i \in DOMAIN clients}
           fd == Min((1..(Len(clients) + 1)) \ used)
       IN conn' = [conn EXCEPT ![Head(backlog)].fd = fd]
    /\ clients' = Append(clients, Head(backlog))
    /\ backlog' = Tail(backlog)
    /\ UNCHANGED <<cast, at, revents, pending, counters, handled>>

\* accept() would block. Without clients service() returns; with some, poll()
\* reports what is then acted on client after client.
Poll ==
    /\ phase \in {"idle", "accept"}
    /\ backlog = <<>>
    /\ clients # <<>>
    /\ phase' = "poll"
    /\ at' = 1
    /\ revents' = [i \in DOMAIN clients |->
          LET r == conn[clients[i]]
          IN [err |-> r.ended = "reset",
              readable |-> r.up # <<>> \/ r.ended = "fin",
              writable |-> r.out # <<>> /\ Len(r.down) < SocketBuffer]]
    /\ UNCHANGED <<cast, conn, backlog, clients, pending, counters, handled>>

Connected(c) == c \in ToSet(backlog) \union ToSet(clients)

Polling == phase = "poll" /\ at \in DOMAIN clients

FlushIfWritable(r) == IF revents[at].writable THEN Flushed(r) ELSE r

\* POLLERR or POLLHUP, or nothing to read.
PollUnreadable ==
    /\ Polling
    /\ revents[at].err \/ ~revents[at].readable
    /\ LET r == conn[clients[at]]
       IN conn' = [conn EXCEPT ![clients[at]] =
                      IF revents[at].err THEN [r EXCEPT !.dead = TRUE] ELSE FlushIfWritable(r)]
    /\ at' = at + 1
    /\ UNCHANGED <<cast, backlog, clients, phase, revents, pending, counters, handled>>

Readable == Polling /\ ~revents[at].err /\ revents[at].readable

\* on_readable() before the handshake, without a whole request. Too long a
\* request ends the client.
ReadPartOfRequest ==
    /\ Readable
    /\ LET c == clients[at]
           r == conn[c]
           units == r.in \o r.up
           read == [r EXCEPT !.in = units, !.up = <<>>,
                             !.dead = @ \/ SeesEnd(r) \/ Len(units) > MaxRequest]
       IN /\ ~r.open
          /\ ~HasEnd(units) \/ Len(units) > MaxRequest
          /\ conn' = [conn EXCEPT ![c] = FlushIfWritable(read)]
    /\ at' = at + 1
    /\ UNCHANGED <<cast, backlog, clients, phase, revents, pending, counters, handled>>

\* on_readable() of the rest of a request: handshake() or serve_page(). What
\* recv() returned beyond the request is discarded with it.
ReadRequest ==
    /\ Readable
    /\ LET c == clients[at]
           r == conn[c]
           units == r.in \o r.up
           end == Min({j \in DOMAIN units : EndsMessage(units[j])})
           kind == units[end].msg.kind
       IN /\ ~r.open
          /\ HasEnd(units)
          /\ \E n \in end..Min({Len(units), MaxRequest}) :
                conn' = [conn EXCEPT ![c] = FlushIfWritable(
                    Handshaken([r EXCEPT !.up = SubSeq(units, n + 1, Len(units))], kind))]
          /\ pages' = IF kind = "get" THEN pages + 1 ELSE pages
    /\ at' = at + 1
    /\ UNCHANGED <<cast, backlog, clients, phase, revents, pending, pushes, dropped,
                   commands, handled>>

\* on_readable() of frames: commands are queued with the descriptor they came
\* from.
ReadFrames ==
    /\ Readable
    /\ LET c == clients[at]
           r == conn[c]
       IN /\ r.open
          /\ \E units \in {r.in \o r.up} : \E good \in {UpToFatal(units)} :
                LET decoded == Decoded([r EXCEPT !.up = <<>>], units, good)
                    texts == WholeOf(good, "text")
                IN /\ conn' = [conn EXCEPT ![c] =
                          FlushIfWritable([decoded EXCEPT !.dead = @ \/ SeesEnd(r)])]
                   /\ pending' = pending \o
                          [i \in DOMAIN texts |-> [fd |-> r.fd, from |-> c, n |-> texts[i].n]]
                   /\ commands' = commands + Len(texts)
    /\ at' = at + 1
    /\ UNCHANGED <<cast, backlog, clients, phase, revents, pushes, dropped, pages, handled>>

\* The poll loop is through.
Polled == phase = "poll" /\ at > Len(clients)

\* Mutants of Addressees: everyone connected is answered; only those with
\* nothing waiting are.
AnyAddressee(fd) == {c \in ToSet(clients) : ~conn[c].dead /\ conn[c].open}
IdleAddressees(fd) ==
    {c \in ToSet(clients) :
        conn[c].fd = fd /\ ~conn[c].dead /\ conn[c].open /\ conn[c].out = <<>>}

\* The clients a reply to a descriptor may go to.
Addressees(fd) ==
    {c \in ToSet(clients) : conn[c].fd = fd /\ ~conn[c].dead /\ conn[c].open}

\* dispatch_pending() of one command: the handler answers, and the answer is
\* queued for the client of that descriptor, if it is still there.
Dispatch ==
    /\ Polled
    /\ pending # <<>>
    /\ pending' = Tail(pending)
    /\ handled' = Append(handled, [from |-> Head(pending).from, n |-> Head(pending).n])
    /\ LET ack == Message("ack", Head(pending).n, Len(handled'))
           to == Addressees(Head(pending).fd)
           fitting == {c \in to : Fits(conn[c], "ack")}
       IN /\ conn' = [c \in Conns |->
                         IF c \in fitting THEN Flushed(Put(conn[c], ack)) ELSE conn[c]]
          /\ dropped' = dropped + Cardinality(to \ fitting)
    /\ UNCHANGED <<cast, backlog, clients, phase, at, revents, pushes, pages, commands>>

\* The connections once the dead among the clients are closed.
Reaped(now) ==
    [c \in Conns |-> IF c \in ToSet(clients) /\ now[c].dead
                     THEN [now[c] EXCEPT !.closed = TRUE, !.fd = 0] ELSE now[c]]

Living(now) == Among(clients, {c \in Conns : ~now[c].dead})

\* service() ends.
Reap ==
    /\ Polled
    /\ pending = <<>>
    /\ conn' = Reaped(conn)
    /\ clients' = Living(conn)
    /\ phase' = "idle"
    /\ at' = 0
    /\ revents' = <<>>
    /\ UNCHANGED <<cast, backlog, pending, counters, handled>>

Watching == {c \in ToSet(clients) : conn[c].open /\ ~conn[c].dead}

\* A push is due after service(), and broadcast: each open client gets the push, or loses it to its backlog.
Broadcast ==
    /\ phase = "idle"
    /\ Watching # {}
    /\ pushes < MaxPushes
    /\ LET fitting == {c \in Watching : Fits(conn[c], "push")}
           push == Message("push", pushes + 1, Len(handled))
           now == [c \in Conns |->
                      IF c \in fitting THEN Flushed(Put(conn[c], push)) ELSE conn[c]]
       IN /\ conn' = Reaped(now)
          /\ clients' = Living(now)
          /\ dropped' = dropped + Cardinality(Watching \ fitting)
    /\ pushes' = pushes + 1
    /\ phase' = "accept"
    /\ UNCHANGED <<cast, backlog, at, revents, pending, pages, commands, handled>>

\* ~Server(): the engine returns or throws between two calls of the server.
Shutdown ==
    /\ phase \in {"idle", "accept"}
    /\ phase' = "gone"
    /\ conn' = [c \in Conns |-> IF Connected(c) THEN [conn[c] EXCEPT !.closed = TRUE] ELSE conn[c]]
    /\ clients' = <<>>
    /\ backlog' = <<>>
    /\ UNCHANGED <<cast, at, revents, pending, counters, handled>>

ServiceNext ==
    \/ AcceptNew \/ Poll \/ PollUnreadable \/ ReadPartOfRequest \/ ReadRequest
    \/ ReadFrames \/ Dispatch \/ Reap \/ Broadcast

ServerNext == ServiceNext \/ Shutdown
-----------------------------------------------------------------------------
serverVars == <<cast, clients, phase, at, revents, pending, counters, handled>>

Connect(c) ==
    /\ phase # "gone"
    /\ conn[c] = NewConn
    /\ ~Connected(c)
    /\ backlog' = Append(backlog, c)
    /\ UNCHANGED <<conn, serverVars>>

\* The browser sends the next unit of its script. It sends frames only once it
\* has the server's 101.
Write(c) ==
    LET r == conn[c]
        units == UnitsOfAll(Script(c))
        next == units[r.written + 1]
    IN /\ Connected(c)
       /\ r.ended = "no"
       /\ r.written < Len(units)
       /\ next.msg.kind \in {"upgrade", "get", "junk"} \/ \E i \in DOMAIN r.got : r.got[i].msg.kind = "101"
       /\ conn' = [conn EXCEPT ![c].up = Append(@, next), ![c].written = @ + 1]
       /\ UNCHANGED <<backlog, serverVars>>

\* The browser takes a unit from its socket.
Read(c) ==
    /\ conn[c].down # <<>>
    /\ conn[c].ended = "no"
    /\ conn' = [conn EXCEPT ![c].got = Append(@, Head(conn[c].down)), ![c].down = Tail(@)]
    /\ UNCHANGED <<backlog, serverVars>>

\* The browser goes away, in good order or not.
End(c, how) ==
    /\ Connected(c)
    /\ how \in cast[c].leaves
    /\ conn[c].ended \in {"no", "fin"} \ {how}
    /\ conn' = [conn EXCEPT ![c].ended = how]
    /\ UNCHANGED <<backlog, serverVars>>

BrowserNext(c) == Connect(c) \/ Write(c) \/ Read(c) \/ End(c, "fin") \/ End(c, "reset")

Next == ServerNext \/ \E c \in Conns : BrowserNext(c)

Spec == Init /\ [][Next]_vars

\* The engine services the server at every tick for as long as it runs, and a
\* browser that stays reads what reaches it.
FairSpec == Spec /\ WF_vars(ServiceNext) /\ \A c \in Conns : WF_vars(Read(c))
-----------------------------------------------------------------------------
\* Client records hold what their types say; no two listed clients have one
\* descriptor; and a client that does not read holds at most max_backlog_
\* ("never the engine blocked", src/engine/WsServer.hpp:292) or the page.
TypeOK ==
    /\ \A c \in Conns :
          /\ conn[c].written \in 0..Len(UnitsOfAll(Script(c)))
          /\ \A u \in ToSet(conn[c].up \o conn[c].in \o conn[c].down \o conn[c].out) :
                u.part \in 1..Size(u.msg.kind)
          /\ conn[c].fd \in 0..Cardinality(Conns)
          /\ Len(conn[c].down) <= SocketBuffer
          /\ Len(conn[c].out) <= Max({max_backlog, Size("page")})
    /\ ToSet(clients) \union ToSet(backlog) \subseteq Conns
    /\ \A i, j \in DOMAIN clients :
          conn[clients[i]].fd # 0 /\ (i # j => conn[clients[i]].fd # conn[clients[j]].fd)
    /\ phase \in {"idle", "accept", "poll", "gone"}
    /\ at \in Nat /\ Len(revents) <= Len(clients)
    /\ pushes \in Nat /\ dropped \in Nat /\ pages \in Nat /\ commands \in Nat

IsAck(m, k) == m.kind = "ack" /\ m.ver = k

\* Every reply goes to the connection its command came on, in the order of the
\* commands and once: replies are addressed by descriptor (pending_), and a
\* descriptor is used again as soon as its connection is closed.
AcksGoHome ==
    \A c \in Conns : \A i \in DOMAIN conn[c].queued :
        LET m == conn[c].queued[i]
        IN m.kind = "ack" =>
              /\ m.ver \in DOMAIN handled
              /\ handled[m.ver] = [from |-> c, n |-> m.n]
              /\ \A k \in m.ver..Len(handled), j \in 1..(i - 1) : ~IsAck(conn[c].queued[j], k)

CommandsOf(messages) == Among(messages, {m \in ToSet(messages) : m.kind = "text"})
HandledOf(c) == Among(handled, {h \in ToSet(handled) : h.from = c})

\* Each command is handled at most once and in order, however its frames are
\* cut, run together or followed by the end of the stream (decode_frames()).
CommandsRunOnce ==
    \A c \in Conns :
        \E k \in 0..Len(CommandsOf(Script(c))) :
            /\ [i \in DOMAIN HandledOf(c) |-> HandledOf(c)[i].n]
                  = [i \in 1..k |-> CommandsOf(Script(c))[i].n]
            /\ k > 0 =>
                  CommandsOf(Script(c))[k] \in
                      {x.msg : x \in ToSet(SubSeq(UnitsOfAll(Script(c)), 1, conn[c].written))}

\* A command whose browser is still there is answered, or its answer is counted
\* among the frames dropped to slow clients (dispatch_pending()).
AnsweredOrCounted ==
    Cardinality({k \in DOMAIN handled :
        /\ ~conn[handled[k].from].dead
        /\ ~\E i \in DOMAIN conn[handled[k].from].queued :
               IsAck(conn[handled[k].from].queued[i], k)})
    <= dropped

\* What is put into out reaches the browser whole and in order: partial sends
\* and dropped frames never tear the stream (flush(), broadcast()).
StreamIntact ==
    \A c \in Conns :
        conn[c].got \o conn[c].down \o conn[c].out = UnitsOfAll(conn[c].queued)

\* A connection the browser has ended is closed, whatever state it was in.
EndedIsReaped ==
    \A c \in Conns : (Connected(c) /\ conn[c].ended # "no") ~> conn[c].closed

\* Who asks for the page gets all of it and then the end of the connection,
\* unless it goes away or the engine ends: however often the page is cut by a
\* full socket, the last flush closes (serve_only).
PageThenClose ==
    \A c \in Conns :
        (Connected(c) /\ conn[c].written = 2 /\ Script(c)[1].kind = "get")
            ~> /\ conn[c].closed
               /\ HasEnd(conn[c].got) \/ conn[c].ended # "no" \/ phase = "gone"
=============================================================================
