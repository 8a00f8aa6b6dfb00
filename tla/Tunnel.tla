------------------------------- MODULE Tunnel -------------------------------
(***************************************************************************)
(* TCP connections carried between two peers: src/src/modules/net_tun.c on *)
(* the servers and clients of src/src/modules/net_tcp.c.  A peer that has  *)
(* created a tunnel accepts a client; the other connects to the server the *)
(* tunnel ends at; each forwards what it reads to the descriptor that the  *)
(* other has told it.                                                      *)
(*                                                                         *)
(* Descriptors are numbers that a process gives out again, the lowest free *)
(* one first, and messages name sockets by them.  conn, which tells which  *)
(* connection a socket and a message really belong to, is not in the code, *)
(* and no guard looks at it.  When a message for one connection is applied *)
(* to the socket of another, mixed says so and the model ends.             *)
(***************************************************************************)
EXTENDS Naturals, Sequences, FiniteSets, SequencesExt

CONSTANTS
    Peer,       \* the two peers
    Opener,     \* the peers whose applications created a tunnel to the other
    MayStop,    \* the peers that stop
    None,       \* no socket, or no entry of the map
    MaxFd,      \* bound on descriptors: 1..MaxFd
    MaxConn,    \* bound on clients accepted
    MaxWrite,   \* bound on chunks that clients and servers write
    MaxLost     \* bound on losses of the other peer

Fd   == 1..MaxFd
Conn == 1..MaxConn

\* A socket of a process: watched by cmd_tun_read_cb, shut down by us, closed by
\* the client or server at its other end, written to since then, and the chunks
\* that can be read from it.
Socket == [conn : Conn, watched : BOOLEAN, shut : BOOLEAN, closed : BOOLEAN,
           reset : BOOLEAN, unread : Seq(1..MaxWrite)]

ASSUME TunnelAssumption ==
    /\ \E p, q \in Peer : p # q /\ Peer = {p, q}
    /\ Opener \subseteq Peer /\ MayStop \subseteq Peer
    /\ None \notin Socket \cup Fd
    /\ MaxFd \in Nat /\ MaxConn \in Nat /\ MaxWrite \in Nat /\ MaxLost \in Nat

VARIABLES
    up,        \* the peers that run
    linked,    \* the peers have each other in the ARP table
    socket,    \* socket[p]: the sockets of p's descriptors
    map,       \* ktun->map of p: the other peer's descriptor, by its own
    chan,      \* chan[p]: CMD_TUN commands for p, in order
    accepted,  \* the number of clients accepted
    wrote,     \* wrote[p][c]: chunks written at p's end of connection c: history
    got,       \* got[p][c]: chunks delivered whole at p's end: history
    cut,       \* <<p, c, n>>: chunk n, of which write did not take all there: history
    refused,   \* the connections whose server did not answer: history
    losses,    \* losses so far
    mixed      \* a message was applied to another connection

vars == <<up, linked, socket, map, chan, accepted, wrote, got, cut, refused, losses, mixed>>

Other(p) == CHOOSE q \in Peer : q # p

Free(p) == {f \in Fd : socket[p][f] = None}

LowestFree(p) == CHOOSE f \in Free(p) : \A g \in Free(p) : f <= g

\* struct of a command: {cmd, fd, from_fd}, and a chunk of data.
Msg(cmd, fd, from, c, n) == [cmd |-> cmd, fd |-> fd, from |-> from, conn |-> c, chunk |-> n]

\* ksnCoreSendCmdto: a command for a peer that is not in the table is dropped, and
\* one for a peer that has stopped goes nowhere.
Send(q, m, ch) == IF linked /\ q \in up THEN [ch EXCEPT ![q] = Append(@, m)] ELSE ch

\* Mutant: the map has the peer's own descriptor.
MutantOwnFd(p, f, g, s) ==
    /\ socket' = [socket EXCEPT ![p][f] = [s EXCEPT !.watched = TRUE]]
    /\ map' = [map EXCEPT ![p][f] = f]

\* cmd_tun_created_cb: an entry of the map and a watcher.
Connected(p, f, g, s) ==
    /\ socket' = [socket EXCEPT ![p][f] = [s EXCEPT !.watched = TRUE]]
    /\ map' = [map EXCEPT ![p][f] = g]

NewSocket(c) ==
    [conn |-> c, watched |-> FALSE, shut |-> FALSE, closed |-> FALSE, reset |-> FALSE,
     unread |-> <<>>]

-----------------------------------------------------------------------------

Init ==
    /\ up = Peer
    /\ linked = TRUE
    /\ socket = [p \in Peer |-> [f \in Fd |-> None]]
    /\ map = [p \in Peer |-> [f \in Fd |-> None]]
    /\ chan = [p \in Peer |-> <<>>]
    /\ accepted = 0
    /\ wrote = [p \in Peer |-> [c \in Conn |-> 0]]
    /\ got = [p \in Peer |-> [c \in Conn |-> <<>>]]
    /\ cut = {}
    /\ refused = {}
    /\ losses = 0
    /\ mixed = FALSE

(* What clients and servers do at the other end of a socket. *)

\* A client connects to the port of a tunnel: ksnTcpServerAccept and
\* ksn_tun_accept_cb.  The socket waits, without a watcher, for the answer; when
\* the command can not be sent, it is closed at once.
Accept(p) ==
    /\ p \in Opener \cap up
    /\ Free(p) # {}
    /\ accepted < MaxConn
    /\ accepted' = accepted + 1
    /\ LET f == LowestFree(p) IN
       /\ socket' = IF linked THEN [socket EXCEPT ![p][f] = NewSocket(accepted')] ELSE socket
       /\ chan' = Send(Other(p), Msg("CREATE", None, f, accepted', 0), chan)
    /\ UNCHANGED <<up, linked, map, wrote, got, cut, refused, losses, mixed>>

\* The chunks written: peer, connection and number.
Written == {w \in Peer \X Conn \X (1..MaxWrite) : w[3] <= wrote[w[1]][w[2]]}

EndWrites(p, f) ==
    /\ socket[p][f] # None
    /\ ~socket[p][f].closed
    /\ Cardinality(Written) < MaxWrite
    /\ LET c == socket[p][f].conn IN
       /\ wrote' = [wrote EXCEPT ![p][c] = @ + 1]
       /\ socket' = [socket EXCEPT ![p][f].unread = Append(@, wrote'[p][c])]
    /\ UNCHANGED <<up, linked, map, chan, accepted, got, cut, refused, losses, mixed>>

EndCloses(p, f) ==
    /\ socket[p][f] # None
    /\ ~socket[p][f].closed
    /\ socket' = [socket EXCEPT ![p][f].closed = TRUE]
    /\ UNCHANGED <<up, linked, map, chan, accepted, wrote, got, cut, refused, losses, mixed>>

(* cmd_tun_read_cb *)

Readable(p, f) == socket[p][f] # None /\ socket[p][f].watched

\* Mutant: what came last is forwarded first.
MutantReadsLast(p, f) ==
    /\ Readable(p, f)
    /\ socket[p][f].unread # <<>>
    /\ LET s == socket[p][f] IN
       /\ socket' = [socket EXCEPT ![p][f].unread = SubSeq(@, 1, Len(@) - 1)]
       /\ chan' = Send(Other(p), Msg("DATA", map[p][f], None, s.conn, s.unread[Len(s.unread)]), chan)
    /\ UNCHANGED <<up, linked, map, accepted, wrote, got, cut, refused, losses, mixed>>

\* A chunk goes to the descriptor that the map has.
ReadData(p, f) ==
    /\ Readable(p, f)
    /\ socket[p][f].unread # <<>>
    /\ LET s == socket[p][f] IN
       /\ socket' = [socket EXCEPT ![p][f].unread = Tail(@)]
       /\ chan' = Send(Other(p), Msg("DATA", map[p][f], None, s.conn, Head(s.unread)), chan)
    /\ UNCHANGED <<up, linked, map, accepted, wrote, got, cut, refused, losses, mixed>>

\* Mutant: the end is taken before what can still be read.
MutantEndUnread(p, f) ==
    /\ Readable(p, f)
    /\ socket[p][f].closed \/ socket[p][f].shut
    /\ socket' = [socket EXCEPT ![p][f] = None]
    /\ map' = [map EXCEPT ![p][f] = None]
    /\ chan' = Send(Other(p), Msg("NOT_CREATED", map[p][f], None, socket[p][f].conn, 0), chan)
    /\ UNCHANGED <<up, linked, accepted, wrote, got, cut, refused, losses, mixed>>

\* Mutant: the other peer is not told.
MutantEndUntold(p, f) ==
    /\ Readable(p, f)
    /\ socket[p][f].unread = <<>>
    /\ socket[p][f].closed \/ socket[p][f].shut
    /\ socket' = [socket EXCEPT ![p][f] = None]
    /\ map' = [map EXCEPT ![p][f] = None]
    /\ UNCHANGED chan
    /\ UNCHANGED <<up, linked, accepted, wrote, got, cut, refused, losses, mixed>>

\* The end: the socket is closed, the other peer told, and the entry removed.
ReadEnd(p, f) ==
    /\ Readable(p, f)
    /\ socket[p][f].unread = <<>>
    /\ socket[p][f].closed \/ socket[p][f].shut
    /\ socket' = [socket EXCEPT ![p][f] = None]
    /\ map' = [map EXCEPT ![p][f] = None]
    /\ chan' = Send(Other(p), Msg("NOT_CREATED", map[p][f], None, socket[p][f].conn, 0), chan)
    /\ UNCHANGED <<up, linked, accepted, wrote, got, cut, refused, losses, mixed>>

(* cmd_tun_cb *)

Got(p, cmd) == p \in up /\ chan[p] # <<>> /\ Head(chan[p]).cmd = cmd

Received(p) == [chan EXCEPT ![p] = Tail(@)]

\* The server at the end of the tunnel accepts the connection ...
Create(p) ==
    /\ Got(p, "CREATE")
    /\ Free(p) # {}
    /\ LET m == Head(chan[p])
           f == LowestFree(p)
       IN  /\ Connected(p, f, m.from, NewSocket(m.conn))
           /\ chan' = Send(Other(p), Msg("CREATED", m.from, f, m.conn, 0), Received(p))
    /\ UNCHANGED <<up, linked, accepted, wrote, got, cut, refused, losses, mixed>>

\* Mutant: nothing is sent.
MutantRefusedUntold(p) ==
    /\ Got(p, "CREATE")
    /\ LET m == Head(chan[p]) IN
       /\ chan' = Received(p)
       /\ refused' = refused \cup {m.conn}
    /\ UNCHANGED <<up, linked, socket, map, accepted, wrote, got, cut, losses, mixed>>

\* ... or does not, or there is no descriptor for it.
CreateFails(p) ==
    /\ Got(p, "CREATE")
    /\ LET m == Head(chan[p]) IN
       /\ chan' = Send(Other(p), Msg("NOT_CREATED", m.from, None, m.conn, 0), Received(p))
       /\ refused' = refused \cup {m.conn}
    /\ UNCHANGED <<up, linked, socket, map, accepted, wrote, got, cut, losses, mixed>>

\* The socket that waits has no watcher: it is still the one that was accepted.
Created(p) ==
    /\ Got(p, "CREATED")
    /\ LET m == Head(chan[p]) IN
       Connected(p, m.fd, m.from, socket[p][m.fd])
    /\ chan' = Received(p)
    /\ UNCHANGED <<up, linked, accepted, wrote, got, cut, refused, losses, mixed>>

\* The message is applied to whatever socket has the descriptor now.
Mixes(p) ==
    LET m == Head(chan[p]) IN
    mixed' = (socket[p][m.fd] # None /\ socket[p][m.fd].conn # m.conn)

\* cmd_tun_write_cb: to a socket that is open, to a descriptor that is not, where
\* write fails, or to a socket that its other end has closed, which answers with a
\* reset.  What an open socket does not take, because its buffer is full and
\* ksnTcpClientCreate made it non-blocking, or because a signal came, is lost.
Data(p) ==
    /\ Got(p, "DATA")
    /\ LET m == Head(chan[p])
           s == socket[p][m.fd]
       IN  IF s = None THEN UNCHANGED <<socket, got, cut>>
           ELSE /\ ~s.shut
                /\ socket' = [socket EXCEPT ![p][m.fd].reset = s.closed]
                /\ IF s.closed THEN UNCHANGED <<got, cut>>
                   ELSE \/ /\ got' = [got EXCEPT ![p][s.conn] = Append(@, m.chunk)]
                           /\ UNCHANGED cut
                        \/ /\ cut' = cut \cup {<<p, s.conn, m.chunk>>}
                           /\ UNCHANGED got
    /\ Mixes(p)
    /\ chan' = Received(p)
    /\ UNCHANGED <<up, linked, map, accepted, wrote, refused, losses>>

\* The process ends: its descriptors are closed, and nobody tells the other peer.
Die(p) ==
    /\ up' = up \ {p}
    /\ chan' = [chan EXCEPT ![p] = <<>>]
    /\ socket' = [socket EXCEPT ![p] = [f \in Fd |-> None]]
    /\ map' = [map EXCEPT ![p] = [f \in Fd |-> None]]

\* write to a socket that is shut down or reset: SIGPIPE, which nothing ignores or
\* handles, ends the process.
BrokenPipe(p) ==
    /\ Got(p, "DATA")
    /\ LET s == socket[p][Head(chan[p]).fd] IN s # None /\ (s.shut \/ s.reset)
    /\ Mixes(p)
    /\ Die(p)
    /\ UNCHANGED <<linked, accepted, wrote, got, cut, refused, losses>>

\* cmd_tun_disconnected_cb shuts the socket down; cmd_tun_read_cb, if it has a
\* watcher, is to read the end and close it.
Disconnected(p) ==
    /\ Got(p, "NOT_CREATED")
    /\ LET m == Head(chan[p]) IN
       socket' = IF socket[p][m.fd] # None
                 THEN [socket EXCEPT ![p][m.fd].shut = TRUE] ELSE socket
    /\ Mixes(p)
    /\ chan' = Received(p)
    /\ UNCHANGED <<up, linked, map, accepted, wrote, got, cut, refused, losses>>

(* Peers. *)

\* The peers lose each other, with all that is on its way; the tunnels stay.
Lose ==
    /\ linked
    /\ losses < MaxLost
    /\ losses' = losses + 1
    /\ linked' = FALSE
    /\ chan' = [p \in Peer |-> <<>>]
    /\ UNCHANGED <<up, socket, map, accepted, wrote, got, cut, refused, mixed>>

Meet ==
    /\ ~linked
    /\ up = Peer
    /\ linked' = TRUE
    /\ UNCHANGED <<up, socket, map, chan, accepted, wrote, got, cut, refused, losses, mixed>>

\* ksnTunDestroy closes every descriptor of the map and tells the other peer; the
\* end of the process closes the rest.
Stop(p) ==
    /\ p \in up \cap MayStop
    /\ up' = up \ {p}
    /\ LET ends == SetToSeq({f \in Fd : map[p][f] # None})
           told == [i \in DOMAIN ends |->
                      Msg("NOT_CREATED", map[p][ends[i]], None, socket[p][ends[i]].conn, 0)]
       IN  chan' = [chan EXCEPT ![p] = <<>>,
                                ![Other(p)] = IF linked /\ Other(p) \in up THEN @ \o told ELSE @]
    /\ socket' = [socket EXCEPT ![p] = [f \in Fd |-> None]]
    /\ map' = [map EXCEPT ![p] = [f \in Fd |-> None]]
    /\ UNCHANGED <<linked, accepted, wrote, got, cut, refused, losses, mixed>>

-----------------------------------------------------------------------------

\* What a peer does by itself.
Step(p) ==
    \/ Create(p) \/ CreateFails(p) \/ Created(p)
    \/ Data(p) \/ BrokenPipe(p) \/ Disconnected(p)
    \/ \E f \in Fd : ReadData(p, f) \/ ReadEnd(p, f)

Next ==
    /\ ~mixed
    /\ \/ \E p \in Peer :
             \/ Accept(p) \/ Step(p) \/ Stop(p)
             \/ \E f \in Fd : EndWrites(p, f) \/ EndCloses(p, f)
       \/ Lose \/ Meet

Spec == Init /\ [][Next]_vars

\* The loop of a peer goes on as long as there is something to read or to process;
\* clients and servers need not do anything, and lost peers need not meet again.
FairSpec == Spec /\ \A p \in Peer : WF_vars(~mixed /\ Step(p))

-----------------------------------------------------------------------------

Message ==
    [cmd : {"CREATE", "CREATED", "NOT_CREATED", "DATA"}, fd : Fd \cup {None},
     from : Fd \cup {None}, conn : Conn, chunk : 0..MaxWrite]

TypeOK ==
    /\ up \subseteq Peer
    /\ linked \in BOOLEAN /\ mixed \in BOOLEAN
    /\ socket \in [Peer -> [Fd -> Socket \cup {None}]]
    /\ map \in [Peer -> [Fd -> Fd \cup {None}]]
    /\ chan \in [Peer -> Seq(Message)]
    /\ accepted \in 0..MaxConn
    /\ wrote \in [Peer -> [Conn -> 0..MaxWrite]]
    /\ got \in [Peer -> [Conn -> Seq(1..MaxWrite)]]
    /\ cut \subseteq Peer \X Conn \X (1..MaxWrite)
    /\ refused \subseteq Conn
    /\ losses \in 0..MaxLost

\* p's socket of connection c, if it has one, is among these.
SocketsOf(p, c) == {f \in Fd : socket[p][f] # None /\ socket[p][f].conn = c}

InFlight(p, c, cmds) ==
    \E i \in DOMAIN chan[p] : chan[p][i].conn = c /\ chan[p][i].cmd \in cmds

\* Nothing has happened that the tunnels do not notice.
Quiet == losses = 0 /\ up = Peer /\ ~mixed

\* The map, the watchers and the sockets agree: cmd_tun_read_cb always finds where
\* its data is to go, and cmd_tun_disconnected_send whom to tell.
MapWatched ==
    \A p \in Peer, f \in Fd :
        map[p][f] # None <=> socket[p][f] # None /\ socket[p][f].watched

\* The descriptors that two peers have told each other are of one connection, as
\* long as neither knows, or is about to be told, that it has ended.
OneConnection ==
    Quiet => \A p \in Peer, f \in Fd :
        map[p][f] # None =>
            LET s == socket[p][f]
                q == Other(p)
                g == map[p][f]
            IN  \/ s.shut \/ InFlight(p, s.conn, {"NOT_CREATED"})
                \/ /\ socket[q][g] # None /\ socket[q][g].conn = s.conn
                   /\ map[q][g] = f \/ InFlight(q, s.conn, {"CREATED"})

\* The entries of the two maps refer to sockets that exist and to each other.
PartnersAgree == MapWatched /\ OneConnection

\* An accepted client waits for an answer that is still to come, or was refused.
WaitingAnswered ==
    Quiet => \A p \in Peer, f \in Fd :
        socket[p][f] # None /\ ~socket[p][f].watched =>
            LET c == socket[p][f].conn IN
            \/ InFlight(Other(p), c, {"CREATE"})
            \/ InFlight(p, c, {"CREATED", "NOT_CREATED"})
            \/ c \in refused /\ socket[p][f].shut

\* Chunk n of connection c was written at p's end, whole or cut.
Arrived(p, c, n) ==
    (\E i \in DOMAIN got[p][c] : got[p][c][i] = n) \/ <<p, c, n>> \in cut

\* What an end of a connection gets is what the other end wrote, in order and with no
\* chunk of another connection.  As long as the peers did not lose each other, a
\* chunk is missing before one that came only if cmd_tun_write_cb, which ignores the
\* result of write, lost it.
OwnData ==
    \A p \in Peer, c \in Conn :
        LET g == got[p][c] IN
        ~mixed => /\ \A i, j \in DOMAIN g : i < j => g[i] < g[j]
                  /\ \A i \in DOMAIN g : g[i] <= wrote[Other(p)][c]
                  /\ losses = 0 => \A i \in DOMAIN g : \A n \in 1..g[i] : Arrived(p, c, n)

\* A connection that was ended by its other end has delivered everything that was
\* written there before, but for what short writes cut, unless its own end was closed.
EndedComplete ==
    Quiet => \A p \in Peer, f \in Fd :
        LET s == socket[p][f] IN
        s # None /\ s.shut /\ ~s.closed =>
            \A n \in 1..wrote[Other(p)][s.conn] : Arrived(p, s.conn, n)

\* "Send received tunnel data to socket": what comes for a connection is applied to
\* its own socket, and not to one that has got the descriptor after it.
NeverMixed == ~mixed

\* c has ended at one side, and the loop there can see it.
Ended(c) ==
    \E p \in Peer : \E f \in SocketsOf(p, c) :
        socket[p][f].watched /\ (socket[p][f].closed \/ socket[p][f].shut)

\* A connection that ends at one side ends at the other: no client or server waits
\* for a partner that has gone, and both descriptors are given back.
EndsAtBoth ==
    \A c \in Conn : Ended(c) ~> (\A p \in Peer : SocketsOf(p, c) = {}) \/ ~Quiet
=============================================================================
