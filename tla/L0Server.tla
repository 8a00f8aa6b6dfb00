------------------------------ MODULE L0Server ------------------------------
(***************************************************************************)
(* The L0 server, through which clients that are no peers use the network: *)
(* src/src/modules/l0-server.c.  Clients connect by TCP, where the file    *)
(* descriptor of the socket is the key of their record, or by TR-UDP,      *)
(* where the channel is given a fake descriptor.  A client logs in under a *)
(* name, and answers of peers find it by that name, in a second map.       *)
(*                                                                         *)
(* Time passes from one check of the clients to the next (10 seconds); a   *)
(* record's age is the number of checks since its last packet.  Clients    *)
(* send and close, until they die without a word; the pings that a check   *)
(* sends to quiet clients, and their answers, are among what clients send. *)
(* Subscribers of the server's events, among them the one that confirms    *)
(* logins, are one application.  Requests of clients, answers, broadcasts  *)
(* and lists read the maps and do not change them.                         *)
(*                                                                         *)
(* The event loop makes each handler atomic.  Use of freed memory is noted *)
(* in wild, after which the model makes no step.                           *)
(***************************************************************************)
EXTENDS Naturals, FiniteSets

CONSTANTS
    Name,           \* names of clients
    None,           \* no record, or no name
    TcpFd,          \* descriptors the process can have for TCP clients
    Addr,           \* addresses of TR-UDP clients
    MAX_FD_NUMBER,  \* where fake descriptors begin
    MaxChannel,     \* bound on fake descriptors handed out
    DisconnectAge,  \* DISCONNECT_TIMEOUT, in checks
    MaxDead         \* bound on clients that die

FakeFd == MAX_FD_NUMBER .. MAX_FD_NUMBER + MaxChannel - 1

Fd == TcpFd \cup FakeFd

\* ksnLNullData: the name and the age of its last packet, and whether the
\* client was told that its login is accepted.
Client == [name : Name \cup {None}, age : 0..DisconnectAge, confirmed : BOOLEAN]

ASSUME L0Assumption ==
    /\ None \notin Name
    /\ None \notin Client
    /\ MAX_FD_NUMBER \in Nat \ {0}
    /\ TcpFd \subseteq 1 .. MAX_FD_NUMBER - 1
    /\ MaxChannel \in Nat
    /\ DisconnectAge \in Nat \ {0}
    /\ MaxDead \in Nat

VARIABLES
    client,      \* kl->map: the client of each descriptor, or None
    byName,      \* kl->map_n: the descriptor of each name, or 0
    clients,     \* kl->stat.clients
    fd_trudp,    \* the next fake descriptor
    channel,     \* tcd->fd of the channel of each address, or 0
    open,        \* TCP descriptors that are open
    subscribed,  \* the application is in the list of subscribers
    app,         \* the application runs, and gets what is sent to it
    told,        \* names that the application was told to be connected
    checks,      \* names whose login it has not yet confirmed
    kicked,      \* names that were kicked since they last logged in
    leaked,      \* descriptors of clients that were kicked
    dead,        \* descriptors whose client is silent
    deaths,      \* how many clients have died
    wild,        \* freed memory was used
    running      \* the server runs

vars == <<client, byName, clients, fd_trudp, channel, open, subscribed, app, told,
          checks, kicked, leaked, dead, deaths, wild, running>>

\* What the handlers change together.
Start == [client |-> client, byName |-> byName, clients |-> clients, open |-> open,
          told |-> told, checks |-> checks, kicked |-> kicked, dead |-> dead]

Listening == subscribed /\ app

Commit(h) ==
    /\ client' = h.client
    /\ byName' = h.byName
    /\ clients' = h.clients
    /\ open' = h.open
    /\ told' = h.told
    /\ checks' = h.checks
    /\ kicked' = h.kicked
    /\ dead' = h.dead
    /\ UNCHANGED <<subscribed, app>>

-----------------------------------------------------------------------------
(* The functions of the module.                                            *)

\* ksnLNullClientIsConnected.
ClientIsConnected(h, n) == h.byName[n]

\* ksnLNullClientRegister: a record without a name.
ClientRegister(h, fd) ==
    [h EXCEPT !.client[fd] = [name |-> None, age |-> 0, confirmed |-> FALSE],
              !.clients = @ + 1]

\* Mutant of ClientDisconnect: a client that is gone is counted again.
MutantDisconnectTwice(h, fd, kick) ==
    IF h.client[fd] = None THEN [h EXCEPT !.clients = @ - 1]
    ELSE [h EXCEPT !.clients = @ - 1, !.client[fd] = None, !.dead = @ \ {fd}]

\* Mutant of ClientDisconnect: subscribers are not told.
MutantDisconnectUntold(h, fd, kick) ==
    IF h.client[fd] = None THEN h
    ELSE LET n == h.client[fd].name
         IN  [h EXCEPT
                !.open = IF kick THEN @ ELSE @ \ {fd},
                !.clients = @ - 1,
                !.byName = IF n = None THEN @ ELSE [@ EXCEPT ![n] = 0],
                !.client[fd] = None,
                !.dead = @ \ {fd}]

\* Mutant of ClientDisconnect: the socket is not closed.
MutantDisconnectLeaks(h, fd, kick) ==
    IF h.client[fd] = None THEN h
    ELSE LET n == h.client[fd].name
         IN  [h EXCEPT
                !.clients = @ - 1,
                !.told = IF kick THEN @ ELSE @ \ {n},
                !.kicked = IF kick /\ Listening THEN @ \cup ({n} \ {None}) ELSE @,
                !.byName = IF n = None THEN @ ELSE [@ EXCEPT ![n] = 0],
                !.client[fd] = None,
                !.dead = @ \ {fd}]

\* Mutant of ClientDisconnect: the name stays in the map of names.
MutantDisconnectKeepsName(h, fd, kick) ==
    IF h.client[fd] = None THEN h
    ELSE LET n == h.client[fd].name
         IN  [h EXCEPT
                !.open = IF kick THEN @ ELSE @ \ {fd},
                !.clients = @ - 1,
                !.told = IF kick THEN @ ELSE @ \ {n},
                !.kicked = IF kick /\ Listening THEN @ \cup ({n} \ {None}) ELSE @,
                !.client[fd] = None,
                !.dead = @ \ {fd}]

\* ksnLNullClientDisconnect with remove_f 1, or 2 for a client that is kicked:
\* the socket of a kicked client is not closed and subscribers are not told.
ClientDisconnect(h, fd, kick) ==
    IF h.client[fd] = None THEN h
    ELSE LET n == h.client[fd].name
         IN  [h EXCEPT
                !.open = IF kick THEN @ ELSE @ \ {fd},
                !.clients = @ - 1,
                !.told = IF kick THEN @ ELSE @ \ {n},
                !.kicked = IF kick /\ Listening THEN @ \cup ({n} \ {None}) ELSE @,
                !.byName = IF n = None THEN @ ELSE [@ EXCEPT ![n] = 0],
                !.client[fd] = None,
                !.dead = @ \ {fd}]

\* Mutant of UpdateClientName: the name keeps the descriptor it had.
MutantKeepsOldFd(h, fd, n) ==
    LET fd_ex == ClientIsConnected(h, n)
        alone == IF fd_ex \notin {0, fd} THEN ClientDisconnect(h, fd_ex, FALSE) ELSE h
    IN  [alone EXCEPT !.client[fd].name = n,
                      !.byName[n] = IF fd_ex = 0 THEN fd ELSE @]

\* updateClientName: another client of the name is disconnected, and the name
\* refers to fd.  A name that fd had before keeps its entry.
UpdateClientName(h, fd, n) ==
    LET fd_ex == ClientIsConnected(h, n)
        alone == IF fd_ex \notin {0, fd} THEN ClientDisconnect(h, fd_ex, FALSE) ELSE h
    IN  [alone EXCEPT !.client[fd].name = n, !.byName[n] = fd]

\* confirmAuth.
ConfirmAuth(h, fd) == [h EXCEPT !.client[fd].confirmed = TRUE]

\* ksnLNullClientAuthCheck of a good payload: subscribers are told and one of
\* them will confirm the login, or there are none and it is confirmed at once.
\* The list of subscribers does not show whether they still run.
\* What the client was told under another name counts no more.
ClientAuthCheck(h, fd, n) ==
    LET before == h.client[fd]
        named == UpdateClientName(h, fd, n)
        waits == [named EXCEPT !.client[fd].confirmed = before.confirmed /\ before.name = n]
    IN  IF ~subscribed THEN ConfirmAuth(named, fd)
        ELSE IF ~app THEN waits
        ELSE [waits EXCEPT !.told = @ \cup {n}, !.checks = @ \cup {n}, !.kicked = @ \ {n}]

\* A packet from the client.
Refresh(h, fd) == [h EXCEPT !.client[fd].age = 0]

\* ksnLNulltrudpCheckPaket: the first packet of a channel, or of one whose
\* client was disconnected, makes a record.
Registered(h, fd) == IF h.client[fd] = None THEN ClientRegister(h, fd) ELSE h

-----------------------------------------------------------------------------
(* The actions.                                                            *)

Init ==
    /\ client = [fd \in Fd |-> None]
    /\ byName = [n \in Name |-> 0]
    /\ clients = 0
    /\ fd_trudp = MAX_FD_NUMBER
    /\ channel = [a \in Addr |-> 0]
    /\ open = {}
    /\ subscribed = FALSE
    /\ app = TRUE
    /\ told = {}
    /\ checks = {}
    /\ kicked = {}
    /\ leaked = {}
    /\ dead = {}
    /\ deaths = 0
    /\ wild = FALSE
    /\ running = TRUE

Running == running /\ ~wild

Connected == {fd \in Fd : client[fd] # None}

LoggedIn(fd, n) == client[fd] # None /\ client[fd].name = n

Unanswered(fd) == client[fd] # None /\ client[fd].name # None /\ ~client[fd].confirmed

Online == {n \in Name : \E fd \in Fd : LoggedIn(fd, n)}

\* What a handler does that opens no channel and leaks nothing.
Handle(h) ==
    /\ Commit(h)
    /\ UNCHANGED <<fd_trudp, channel, leaked, deaths, wild, running>>

\* Names under which a connection logs in: clients keep to one.  The first name of
\* a client that logs in under a second would stay in map_n, and whoever logs in
\* under it would disconnect this client.
LoginNames(fd) ==
    IF client[fd] = None \/ client[fd].name = None THEN Name ELSE {client[fd].name}

\* A TCP client whose socket is read.
Reads(fd) == fd \in TcpFd /\ client[fd] # None /\ fd \notin dead

\* cmd_l0_accept_cb: a TCP client connects.
Accept(fd) ==
    /\ Running
    /\ fd \in TcpFd \ open
    /\ Handle(ClientRegister([Start EXCEPT !.open = @ \cup {fd}], fd))

\* cmd_l0_read_cb: a login.
TcpLogin(fd) ==
    /\ Running
    /\ Reads(fd)
    /\ \E n \in LoginNames(fd) : Handle(ClientAuthCheck(Refresh(Start, fd), fd, n))

\* cmd_l0_read_cb: a login that is refused.  The client is disconnected and its
\* record freed; the loop over the packets of the buffer goes on reading it.
TcpBadLogin(fd) ==
    /\ Running
    /\ Reads(fd)
    /\ Commit(ClientDisconnect(Start, fd, FALSE))
    /\ wild' = TRUE
    /\ UNCHANGED <<fd_trudp, channel, leaked, deaths, running>>

\* cmd_l0_read_cb: any other packet, an answer to a ping among them.
TcpData(fd) ==
    /\ Running
    /\ Reads(fd)
    /\ Handle(Refresh(Start, fd))

\* cmd_l0_read_cb: the client closed the connection, or a bad key exchange.
TcpClose(fd) ==
    /\ Running
    /\ Reads(fd)
    /\ Handle(ClientDisconnect(Start, fd, FALSE))

\* The fake descriptor of a channel, ksnLNullGetNextFakeFd when it has none.
ChannelFd(a) == IF channel[a] # 0 THEN channel[a] ELSE fd_trudp

\* A packet comes through the channel of a, and h is what is done about it.
UdpPacket(a, h) ==
    /\ Commit(h)
    /\ channel' = [channel EXCEPT ![a] = ChannelFd(a)]
    /\ fd_trudp' = IF channel[a] # 0 THEN fd_trudp ELSE fd_trudp + 1
    /\ UNCHANGED <<leaked, deaths, wild, running>>

UdpReads(a) == ChannelFd(a) \in FakeFd \ dead

\* processPacket: a login.  It does not count as a packet of the client.
UdpLogin(a) ==
    /\ Running
    /\ UdpReads(a)
    /\ LET fd == ChannelFd(a)
       IN  \E n \in LoginNames(fd) :
              UdpPacket(a, ClientAuthCheck(Registered(Start, fd), fd, n))

\* processPacket: a login or a key exchange that is refused.
UdpBadLogin(a) ==
    /\ Running
    /\ UdpReads(a)
    /\ LET fd == ChannelFd(a)
       IN  UdpPacket(a, ClientDisconnect(Registered(Start, fd), fd, FALSE))

\* processPacket: any other packet.  One of a client that has not logged in is
\* answered with a reset of the channel; the record that was made for it stays.
\* No record is made for a small packet that ksnCoreParsePacket took for one of a
\* peer, which left a command in rd->cmd.  A login, whose first byte is 0, is not.
UdpData(a) ==
    /\ Running
    /\ UdpReads(a)
    /\ LET fd == ChannelFd(a)
           h == Registered(Start, fd)
       IN  \/ UdpPacket(a, IF h.client[fd].name = None THEN h ELSE Refresh(h, fd))
           \/ client[fd] = None /\ UdpPacket(a, ClientDisconnect(Start, fd, FALSE))

\* trudp_event_cb, DISCONNECTED: a channel has lost its client.
ChannelLost(a) ==
    /\ Running
    /\ channel[a] # 0
    /\ Commit(ClientDisconnect(Start, channel[a], FALSE))
    /\ channel' = [channel EXCEPT ![a] = 0]
    /\ UNCHANGED <<fd_trudp, leaked, deaths, wild, running>>

\* Silent for so long, by the time of the next check.
Silent(fd) == client[fd] # None /\ client[fd].age + 1 >= DisconnectAge

\* Ten seconds have passed for every record.
Aged == [fd \in Fd |->
            IF client[fd] = None THEN None
            ELSE [client[fd] EXCEPT !.age = IF @ < DisconnectAge THEN @ + 1 ELSE @]]

\* Mutant of CheckConnected: nobody is disconnected.
MutantCheckOnlyAges ==
    /\ Running
    /\ Handle([Start EXCEPT !.client = Aged])

\* _check_connected: all clients that were silent too long are to be
\* disconnected.  The iterator stops at the first, since the map has changed:
\* those after it, in the order of the hash map, wait for the next check.
CheckConnected ==
    /\ Running
    /\ \/ \E fd \in Fd :
            /\ Silent(fd)
            /\ Handle(ClientDisconnect([Start EXCEPT !.client = Aged], fd, FALSE))
       \/ /\ \A fd \in Fd : ~Silent(fd)
          /\ Handle([Start EXCEPT !.client = Aged])

\* cmd_l0_check_cb: the application confirms a login, by name.
AuthConfirmed(n) ==
    LET fd == ClientIsConnected(Start, n)
        got == [Start EXCEPT !.checks = @ \ {n}]
    IN  /\ Running
        /\ n \in checks
        /\ Handle(IF fd = 0 THEN got
                  ELSE IF client[fd] = None THEN got ELSE ConfirmAuth(got, fd))

\* cmd_l0_kick_client: the application kicks a client, by name.
KickClient(n) ==
    LET fd == ClientIsConnected(Start, n)
    IN  /\ Running
        /\ fd # 0
        /\ Commit(ClientDisconnect(Start, fd, TRUE))
        /\ leaked' = leaked \cup ({fd} \cap TcpFd)
        /\ UNCHANGED <<fd_trudp, channel, deaths, wild, running>>

Applies ==
    UNCHANGED <<client, byName, clients, fd_trudp, channel, open, leaked, dead,
                deaths, wild, running>>

\* teoSScrSubscription: the application subscribes, and asks who is connected.
Subscribe ==
    /\ Running
    /\ app
    /\ ~subscribed
    /\ subscribed' = TRUE
    /\ told' = Online
    /\ Applies
    /\ UNCHANGED <<app, checks, kicked>>

\* teoSScrUnSubscription.  The application still confirms what it was told of.
Unsubscribe ==
    /\ Running
    /\ Listening
    /\ subscribed' = FALSE
    /\ told' = {}
    /\ kicked' = {}
    /\ Applies
    /\ UNCHANGED <<app, checks>>

\* The application is lost.  Nothing takes it off the list of subscribers.
AppLost ==
    /\ Running
    /\ app
    /\ app' = FALSE
    /\ told' = {}
    /\ checks' = {}
    /\ kicked' = {}
    /\ Applies
    /\ UNCHANGED subscribed

\* A client dies without closing its connection.
Die(fd) ==
    /\ Running
    /\ client[fd] # None
    /\ fd \notin dead
    /\ deaths < MaxDead
    /\ dead' = dead \cup {fd}
    /\ deaths' = deaths + 1
    /\ UNCHANGED <<client, byName, clients, fd_trudp, channel, open, subscribed, app, told,
                   checks, kicked, leaked, wild, running>>

\* ksnLNullStop: every client is disconnected, then both maps are cleared.
Stop ==
    /\ Running
    /\ running' = FALSE
    /\ open' = open \ Connected
    /\ clients' = clients - Cardinality(Connected)
    /\ told' = told \ Online
    /\ client' = [fd \in Fd |-> None]
    /\ byName' = [n \in Name |-> 0]
    /\ dead' = {}
    /\ UNCHANGED <<fd_trudp, channel, subscribed, app, checks, kicked, leaked, deaths, wild>>

Next ==
    \/ \E fd \in Fd :
        \/ Accept(fd)
        \/ TcpLogin(fd)
        \/ TcpBadLogin(fd)
        \/ TcpData(fd)
        \/ TcpClose(fd)
        \/ Die(fd)
    \/ \E a \in Addr :
        \/ UdpLogin(a)
        \/ UdpBadLogin(a)
        \/ UdpData(a)
        \/ ChannelLost(a)
    \/ \E n \in Name :
        \/ AuthConfirmed(n)
        \/ KickClient(n)
    \/ CheckConnected
    \/ Subscribe
    \/ Unsubscribe
    \/ AppLost
    \/ Stop

Spec == Init /\ [][Next]_vars

\* The check adds itself to the callback queue again, and the application
\* confirms the logins it is told of.
Fairness ==
    /\ WF_vars(CheckConnected)
    /\ \A n \in Name : WF_vars(AuthConfirmed(n))

FairSpec == Spec /\ Fairness
-----------------------------------------------------------------------------
\* Every variable has its type.
TypeOK ==
    /\ client \in [Fd -> Client \cup {None}]
    /\ byName \in [Name -> Fd \cup {0}]
    /\ clients \in Nat
    /\ fd_trudp \in MAX_FD_NUMBER .. MAX_FD_NUMBER + MaxChannel
    /\ channel \in [Addr -> FakeFd \cup {0}]
    /\ open \subseteq TcpFd
    /\ subscribed \in BOOLEAN
    /\ app \in BOOLEAN
    /\ told \subseteq Name
    /\ checks \subseteq Name
    /\ kicked \subseteq Name
    /\ leaked \subseteq TcpFd
    /\ dead \subseteq Connected
    /\ deaths \in 0..MaxDead
    /\ wild \in BOOLEAN
    /\ running \in BOOLEAN

\* An answer, a confirmation or a kick that is sent to a name finds the client
\* that is logged in under it, or nobody: no name in map_n outlives its client
\* (ksnLNullClientIsConnected).
NamesCurrent == \A n \in Name : byName[n] # 0 => LoggedIn(byName[n], n)

\* Every client that is logged in is found by its name: no answer to it is lost,
\* and a broadcast reaches it (ksnLNullSendBroadcast looks its name up).
ClientsReachable == \A fd \in Fd, n \in Name : LoggedIn(fd, n) => byName[n] = fd

\* The two maps are inverse to each other, whoever takes over a name.
MapsInverse == NamesCurrent /\ ClientsReachable

\* The number of clients that statistics and events report is that of the map,
\* whichever way each of them came and went.
ClientsCounted == clients = Cardinality(Connected)

\* The descriptors that are open are those of the clients, but for those of
\* clients that were kicked, which nobody closes.
OnlyKickedLeak == open = (Connected \cap TcpFd) \cup leaked

\* Counter and descriptors agree with the map, however a client has ended.
ClientsAccounted == ClientsCounted /\ OnlyKickedLeak

\* Whoever subscribed to the server's events knows who is connected, but for
\* clients that were kicked, of which it gets no event.
SubscribersAgree == Listening => told = Online \cup kicked

\* A client that is silent for good is disconnected, or the server ends.
SilentGone ==
    \A fd \in Fd : fd \in dead ~> (fd \notin dead \/ ~Running)

\* A login is confirmed, unless the client is gone or the application that was
\* to confirm it is.
LoginAnswered ==
    \A fd \in Fd :
        Unanswered(fd) ~> ~Unanswered(fd) \/ ~app \/ ~Running
=============================================================================
