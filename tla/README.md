# Teonet in TLA+

Teonet (`src/`) is a C library for peer-to-peer networks: a program that links
it becomes a *peer* of a named network, finds the other peers through one of
them, the *r-host*, exchanges commands with all of them over UDP (through the
reliable TR-UDP protocol), and offers clients and modules of its own on top.
Every peer is one thread that runs a libev event loop; all protocol code is
callbacks of that loop.

This directory holds TLA+ models of that protocol code, the TLC runs that check
them on small instances, and TLAPS proofs of what holds for every instance.
Paths below are relative to `src/src/` unless they begin with `src/`.

## 1. The system

| component | state it keeps | operations | talks to |
|---|---|---|---|
| event manager, `ev_mgr.c` | `runEventMgr`, the list of networks, idle and timer watchers, `async_queue` | start, stop, `timer_cb`, `idle_cb`, `idle_activity_cb`, `check_connected_cb`, `connect_r_host_cb`, `ksnetEvMgrAsync` | starts and destroys all modules; the application's `event_cb` |
| peer table, `net_arp.c` | name -> address, mode, type, id of the pending type request | add, remove, get, get all, find by address | removing a peer ends its TR-UDP channel and its streams (not its subscriptions: nothing calls `teoSScrUnSubscriptionAll`) |
| network core, `net_core.c` | socket, host name, last time of a packet | send by name or address, `ksnCoreCheckNewPeer`, `ksnCoreProcessPacket`, `peer_type_cb`, destroy | table, commands, splitting, encryption, TR-UDP |
| core commands, `net_com.c` | the reconnect map | one callback per command: CONNECT_R, CONNECT, DISCONNECTED, HOST_INFO, ECHO, RECONNECT, SPLIT, ... | table, callback queue, modules |
| reconnect, `net_recon.c` | names asked for, with a queued callback each | send, process, answer, callback | r-host, callback queue |
| TR-UDP glue, `tr-udp.c` | none of its own | send, receive, channel events | libtrudp (a git submodule, not in the repository) |
| splitting, `net_split.c` | packet counter, map of received subpackets, time of the last | split, combine | core |
| callback queue, `modules/cque.c` | id counter, map id -> callback, timer | add, execute, remove, set data, destroy | every module that waits for an answer |
| streams, `modules/stream.c` | (peer, name) -> two pipes, watchers, created flag | create, close, close all of a peer, data | core, callback queue, table |
| L0 server, `modules/l0-server.c` | fd -> client, name -> fd, statistics | accept, receive, kill, check connected, send to client, broadcast | TCP or TR-UDP clients, core, subscribe |
| TCP proxy, `modules/tcp_proxy.c` | fd -> connection, name -> fd, the client's fd | connect, stop, package build and process | core, event manager |
| subscribe, `modules/subscribe.c` | event -> list of peers | subscribe, unsubscribe, send event | core |
| asynchronous calls, `modules/async_calls.c` | two mutexes, condition variable, multithreading flag | call from any thread, run in the loop | the event manager's `async_queue`; every send function of the library |
| multi-network manager, `net_multi.c` | list of networks, last index | add, remove, set current | event manager |
| TCP tunnel and server, `modules/net_tun.c`, `modules/net_tcp.c` | fd -> tunnel, server watchers | create, accept, data, disconnect | core |

Also in the repository and not modelled: TeoDB (a wrapper around libpbl's key
file), logging, metrics, encryption (a stateless transformation), VPN, the
terminal, hotkeys, configuration, daemon and utilities, the applications in
`src/app`, and the embedded libraries. `PROJECT.json` lists them with reasons.

### What is hard here

* Peers start, stop, crash and restart in any order; a restarted peer has an
  empty table while the others still hold its entry.
* Two transports carry one protocol: CONNECT_R and DISCONNECTED are plain
  datagrams, all else goes through TR-UDP, so they overtake one another and the
  former may be lost or arrive after their sender has restarted.
* Every request is repeated by a timer (1, 2, 5, 10 and 14 seconds) that races
  with the answer; a callback queue serves all of them.
* Callbacks of the queue call back into the queue, in nested form, while their
  record is still in its map.
* Ids and numbers wrap: 32 bit callback ids, 16 bit packet numbers, 15 bit
  subpacket numbers next to a flag.
* One map collects subpackets of all senders, and only silence of all of them
  ever cleans it.
* Threads other than the loop's call the library; whether they may wait for the
  loop is a flag that all of them, and the loop, read again at every step.
* Names, file descriptors and numbers are given out again while messages that
  carry the old ones are on their way (tunnels, L0 clients).
* A shutdown takes place in steps (flag, loop break, destruction of modules)
  between which callbacks still run.

### What makes the components correct

* callback queue: a callback is called at most once and never after it was
  removed; no record is forgotten; a timed one is resolved in the end.
* mesh (core, table, commands, reconnect, event manager): the network becomes a
  full mesh and returns to it after trouble; a peer that is gone for good is
  forgotten; the application's events agree with the table; a node whose r-host
  is gone knows it.
* splitting: what is combined is one packet of one sender, whole; order is
  kept, nothing comes twice, and nothing is lost without a cause.
* streams: both ends agree whether a stream exists; no watcher outlives its
  record; data goes to the stream it was written to.
* L0 server: the two client maps are inverse to each other; counter, descriptors
  and subscribers agree with them, however a client ends; a silent client is
  disconnected; a login is confirmed.
* asynchronous calls: a call is made once and in order; the record of a call is
  freed once and not used after; nobody is left with a mutex held.
* tunnels: the two descriptors of a connection refer to each other; each end gets
  what the other wrote, in order, and all but what a short write lost; the end of one
  is the end of both.

## 2. The modules

| module | models | role |
|---|---|---|
| `CQue` | `modules/cque.c`, stop flag of `ev_mgr.c` | component |
| `OneShotCalls` | what the callback queue promises | abstract specification |
| `CQueProofs` | | proofs about `CQue` |
| `Mesh` | `net_core.c`, `net_com.c`, `net_arp.c`, `net_recon.c`, the checks of `ev_mgr.c`, `tr-udp.c` | composition: every node runs all of these |
| `MeshProofs` | | proofs about `Mesh` |
| `Split` | `net_split.c`, with `ksnCoreSendto` and `cmd_split_cb` | component |
| `PacketTransport` | what splitting promises | abstract specification |
| `SplitProofs` | | proofs about `Split` |
| `Stream` | `modules/stream.c`, with the removal of a peer (`net_arp.c`) | composition of two peers |
| `StreamProofs` | | proofs about `Stream` |
| `L0Server` | `modules/l0-server.c`, with the subscribers of its events (`modules/subscribe.c`) and lost channels (`tr-udp.c`) | component and its application |
| `L0ServerProofs` | | proofs about `L0Server` |
| `Async` | `modules/async_calls.c` and the queue of `ev_mgr.c` | composition of threads and the loop |
| `AsyncProofs` | | proofs about `Async` |
| `Tunnel` | `modules/net_tun.c`, with `modules/net_tcp.c` | composition of two peers, their clients and servers |
| `TunnelProofs` | | proofs about `Tunnel` |

### CQue

The variables are the fields of `ksnCQueClass` (`nextId`, `map`), the active
libev timers (`timers`), the callbacks that are running (`frames`, innermost
last), the phase of the event loop, and history: how often each callback was
called (`calls`), what was cancelled (`gone`) or overwritten (`lost`). A call of
`ksnCQueAdd` has a serial number, which the code does not have: it is how the
properties tell two records apart that have had the same id.

`Exec` and `TimerCb` are the code up to the callback, `Return` the code after
it; between them the callback may do anything a client can (`Add`, `Exec` of
another record, `Remove`, `SetData`), so nested calls to `MaxDepth` are explored.
Two restrictions are the clients': a callback does not execute or remove its
own record. `AddRefused` is the failing `pblMapAdd`. `Destroy` is possible in every phase of the loop, also after `runEventMgr` was
cleared and before `ev_run` returns, when it leaves the timers running; a timer that
then expires is `FreedTimerCb`. Undefined behaviour (the timeout field that is never
set for timeout 0, the use of a freed watcher after the ids have wrapped, a timer of
a destroyed queue) sets `wild`, after which the model makes no step; the unset field
is a choice (`junk`).

### Mesh

One action per entry point of a node: a packet from a TR-UDP channel
(`Deliver`), a datagram (`DeliverUdp`), a channel event (`ChannelLost`,
`ChannelReset`), each queued callback (`PeerTypeCb`, `ConnectCqueCb`,
`ReconnectCqueCb`), each periodic check (`CheckConnected`, `Echo`,
`ConnectToRHost`), start, stop and crash. A handler is an operator on a record
of the node's state, the messages it sent and the channels it destroyed, and the
handlers call each other as the functions do: `Packet` is
`ksnCoreProcessPacket`, which calls `CheckNewPeer` and then `Process`, the switch
of `ksnCommandCheck`.

What is abstracted:

* Names and addresses are one: a node is its name, and the r-host's address is
  known to all (`r_host_addr`, `r_port`).
* libtrudp is external. As `tr-udp.c` uses it, a channel is a reliable FIFO
  while it lives; destroying it (`ksnetArpRemove`, `cmd_connect_cque_cb`) drops
  what is queued, and the peer sees the next channel start anew (`reset`) before
  any packet of it.
* A packet to a node that is down vanishes.
* `Quiet(n, p)`: a timer by which n repeats a request to p (`ConnectToRHost`, `Echo`,
  `PeerTypeCb`, `ReconnectCqueCb`) fires when nothing is on its way between the two,
  and at most `MaxBusy` channels and datagrams elsewhere: it waits a second or more,
  packets take milliseconds. Trouble is *not* limited so: lost datagrams, given up
  channels, checks that time out, stops and crashes may come with anything on its way,
  and `ConnectCqueCb`, which destroys a channel, races with everything.
* Echo between two peers that know each other changes nothing but
  `last_activity`, and is left out; the echo to a peer that does not know the
  sender is what re-introduces them, and is modelled.
* RESET, RESEND, GET_NUM_PEERS and the commands of modules do not touch the
  table and are left out; so are trip times, ports, encryption and VPN.
* `FormedSpec` starts from the state after a network has formed, `NewOrFormedSpec`
  from that or, with no trouble to come, from an empty network: `MeshForms` of the run
  that has both shows that the state is reached and stays.

### Split

`Send` is `ksnCoreSendto`: small packets go as they are, large ones become
subpackets with number and last flag; `Receive` is the branch of
`ksnCoreProcessPacket` and `cmd_split_cb`: a subpacket is stored under sender,
packet number and subpacket number, and the one with the last flag combines what
is there. `Pause` lets more than ten seconds pass, so that the next subpacket
clears the map; `Cut` loses a channel with everything undelivered; `Restart`
starts the sender's packet numbers again.

A part is known by the serial number of its packet and its position, so that
the properties can tell parts of two packets with the same 16 bit number apart.
Freed memory, the packet header and the VPN path (never split) are left out. One
receiver is enough: receivers share nothing.

### Stream

One stream name between two peers. A peer's record has the two pipes, the
`created` flag and history (what its application wrote and read, and the record
of the other end it was connected to). `queued` holds the records that a queued
`kq_connect_cb` points to: unlike the map, the queue is not cleaned by
`ksnStreamClose`. A handler is an operator on the peer's part, as in `Mesh`;
`Deliver` is `cmd_stream_cb`, `ConnectCb` the five second callback at its
timeout, `StreamInCb` and `StreamOutCb` the watchers, `ArpRemove` what
`ksnetArpRemove` does to the channel and, through `ksnStreamClosePeer`, to the
streams. `Stop` is `ksnetEvMgrFree`, in its order: callbacks are dropped, then
streams are closed; `Crash` is neither.

The channel is that of `Mesh`: reliable and in order while it lives; a peer that
destroys it loses what it had queued, and nothing of the old channel is
delivered after that. A serial number stands for the memory of a record and
travels with the messages as history. Use of freed memory (a stale pointer in a
queued callback, a record replaced under its watchers, the callback queue's
entry of a second CREATED) is noted in `wild` and ends the behaviour.

Left out: that a full pipe blocks, that pipe descriptors are never closed, and
calls of the module from inside its own events. The applications of the run
`stream` keep a discipline, `MayReuse`: a name is used again only after the peer
closed the stream or was lost. After an own close, data of the old stream may
still arrive in the new one, and after a timeout a late answer connects the new
record to the old stream: the code has nothing that tells them apart.

### L0Server

`client` is `kl->map` and `byName` is `kl->map_n`; `clients` the counter of the
statistics, `channel` the fake descriptor of each TR-UDP channel, `open` the TCP
descriptors the process holds. The functions of the module are operators on the
part of the state they change together (`ClientRegister`, `ClientDisconnect`,
`UpdateClientName`, `ClientAuthCheck`, `ConfirmAuth`), and the handlers call them
as the code does: `TcpLogin`, `TcpData`, `TcpClose`, `TcpBadLogin` are the branches
of `cmd_l0_read_cb`, `UdpLogin`, `UdpData` (also of a channel that has not logged
in), `UdpBadLogin` those of `ksnLNulltrudpCheckPaket` and `processPacket`,
`CheckConnected` is `_check_connected`, `AuthConfirmed` `cmd_l0_check_cb`, `KickClient`
`cmd_l0_kick_client`, `ChannelLost` the channel event, and `Stop` `ksnLNullStop`.
`told`, `checks` and `kicked` are what the one application knows that subscribes
to the server's events and confirms logins.

Time is counted in checks: `age` is the time since a client's last packet.
`CheckConnected` disconnects one silent client, any of them: the removal changes
the map, and its iterator then has no next entry. Clients die without a word
(`Die`). A refused TCP login, after which the loop of the handler reads the freed
record, sets `wild` and ends the behaviour.

Left out: what is sent to clients and peers, broadcast and lists (they read the
maps only), encryption, and clients that log in under a second name
(`LoginNames`, see section 5).

### Async

A thread is at a place in `SEND_ASYNC` (`at`), which is a macro of the four calls
and of the check before them; each action is what it does between two accesses of
what others use: `CheckMultiThread` (the test of the mode) and `TryMultiThread`,
`LockFunc`, `LockCv` (the mode again) and `TakeCv`, `Add` (the queue and the signal of
libev), `Wait`, `Wake` or `TimedOut`, `Waited`, `Unlock`, `Decide`
(whether the call is repeated, and who frees the record), `Return`, `CheckReturns`.
The loop is at a place in `event_cb` (`lat`): `SigAsync` takes an element, `Begin`,
`LoopLock`, `Perform`, `Tell` and `LoopUnlock` are a call, `CheckAnswers`, `Answer`
and `CheckDropped` the check; `IdleAsync` wakes it again for the rest.

`f_multi_thread` and `ud->rv` are read where the code reads them, without a lock.
A record (`ud`) is known by its call, and `live` holds those that are allocated:
what a read of freed memory gives is any value, a use of it sets `undefined`, and
so does unlocking the mutex of another thread; the model ends there. What a call
does is one step, `Perform`, that is refused (a wrong address), finds the send
queue full, or sends.

Left out: the end of the loop and of the module while threads call, and the events
that applications put into the same queue.

### Tunnel

Two peers with a process each, whose descriptors are given out again, the lowest
free one first, as the kernel does. A socket is watched or not, shut down or not,
closed by its other end or not, with the chunks that can be read. `Accept` is
`ksnTcpServerAccept` with `ksn_tun_accept_cb`, `Create` and `CreateFails` are
`cmd_tun_create_cb` with `ksnTcpClientCreate`, `Created`, `Data` and `Disconnected`
the other commands, `ReadData` and `ReadEnd` are `cmd_tun_read_cb`, `Stop` is
`ksnTunDestroy` and the end of the process. `EndWrites` and `EndCloses` are the
clients and servers. The channel is that of `Mesh`; `Lose` drops all that is on
its way; the tunnels stay, and nobody is told.

The connection a socket or a message belongs to (`conn`) is not in the code, and no
guard looks at it. The first message that is applied to a socket of another
connection sets `mixed`, and the model ends. `BrokenPipe` is the second chunk for a
socket whose other end has closed: SIGPIPE ends the process.

The socket that `cmd_tun_write_cb` writes to does not block, and nobody looks at what
`write` returned: `Data` gives the socket the whole chunk (`got`) or a part of it, or
none (`cut`), and the code goes on alike. `got` and `cut` are history.

Left out: clients that end only their sending half, read errors, ports, and creating or removing the server of a tunnel.

## 3. The runs

| run | question | bounds |
|---|---|---|
| `cque` | can nested callbacks, wrapping ids, failed adds and Destroy make a callback run twice or be forgotten? Is a timed call resolved? | 3 ids and 4 adds: the ids wrap and one is reused; callbacks nested to depth 2; 2 data values |
| `mesh_heal` | do an r-host and two peers, one by UDP or by TCP proxy, started in any order, become a full mesh? Does the formed one survive an outage or crash anywhere? | 3 nodes: the least with two peers to introduce to each other; one trouble of either kind, restart included |
| `mesh_gone` | is a peer that went for good forgotten, whatever packets it left and whatever else broke? | 3 nodes, the peer's goodbye or crash and one outage (a lost datagram, a channel given up, a check that timed out) before, after or while its packets are on their way |
| `mesh_stop` | do table, r-host name, type request and events stay consistent through repeated outages, goodbyes, crashes and restarts of both ends, and does the pair find each other, or forget the other, after them? | 2 nodes, from nothing, 3 outages and 3 stops in any order and at any point, retries with up to 9 busy channels and datagrams (that is, any) |
| `split` | is anything mixed, reordered, repeated, lost without cause or left behind? | 2 senders, packets of 1, 2, 3 and too many parts, 2 packet numbers so that they repeat, 4 packets, 2 pauses, losses or restarts |
| `stream` | do the ends agree whether the stream exists, does data stay in order and complete, does every request and every orphan end? | 2 peers, 2 streams of the same name one after the other, 3 chunks each way with a buffer of 2, one loss of the peer, one stop or crash of the acceptor |
| `l0_server` | do maps, counter, descriptors and subscribers agree however clients come and go; is a silent client disconnected and a login confirmed? | 1 TCP and 1 TR-UDP client with two channels, 2 names, a check that counts to 2, 2 deaths, one application |
| `async` | is every call made once, synchronously, with its record freed once, as long as the loop answers in time? | 2 threads with 2 calls each, one full send queue, either value of the option |
| `async_late` | what is left of that when the loop is late? | 1 thread with 3 calls, 2 late answers, the mode is given up after the second, one full send queue |
| `async_lock` (violation) | does the loop release its mutex? | 1 thread, one late answer |
| `tunnel` | do both ends agree, does each get the other's data, does one end close the other? | 2 peers with 2 descriptors each, 2 clients, 2 chunks, one loss of the peer, one stop |
| `tunnel_reuse` (violation) | is a message applied to the connection it was sent for? | 2 peers with 2 descriptors each, 2 clients, 1 chunk |

Why these bounds are enough to be of use: the hazards need an id to be reused
(one more add than ids), a packet number to be reused while remains of its first
packet are in the map (three large packets of one sender with two numbers and
one loss), two peers that introduce a third to each other, a second outage
while the first one is being repaired (`mesh_gone`, `mesh_stop`), a second
stream of the same name while remains of the first are in channels, pipes or the
callback queue, two connections that want one name (`l0_server`), two threads that
find the mode undefined together (`async`), two late answers, so that a call is under
way in the queue while the next one is made (`async_late`), and a second client that
gets the descriptor of the first (`tunnel`).

`CHECK_DEADLOCK FALSE` is set throughout: a queue without records, a formed
network without outages and a sender that has used up its bound really have
nothing to do.

### Properties

* `AtMostOnce`, `Accounted`, `OnlyWrapOverwrites`, `ImplementsOneShot`, `TimedCallResolved` (CQue).
* `MeshForms` (liveness): once all nodes run and outages end, every node knows
  every other and its type, for good. `NoGhosts` (liveness): a node that is gone
  for good is forgotten and no longer asked for. Of three nodes one trouble
  (`MeshForms`) or two (`NoGhosts`) are checked, of two nodes six: a third node with
  more trouble has too many states, and that a second failure during the repair of a
  broken pair is repaired too is not shown. `RHostKnown`, `EventsAgree`,
  `UntypedIsAsked` relate the table to the r-host's name,
  to what the application was told and to the queued requests.
* `NoMix`, `NotLost`, `NoLeftovers`, `InOrder` (Split).
* `EndsAgree`: what each end may conclude about the other from having the stream;
  the acceptor's part shows the price of the timeout, an acceptor that is never
  told. `DataInOrder` and `NothingLost` follow each chunk through
  two pipes and the channel. `OnlyCallbacksDangle`: under the discipline above no
  other freed memory is used. `PendingResolved`, `OrphanClosed` (liveness).
* `MapsInverse` (`NamesCurrent`, `ClientsReachable`); `ClientsAccounted` relates the
  map to the counter and to the open descriptors, `SubscribersAgree` to what the
  application was told; both name the exception, a kicked client, whose socket
  stays open and whose end is not announced. `SilentGone`, `LoginAnswered`
  (liveness).
* `OnceInOrder`, `Synchronous`, `FreedOnce` (no use after the free of a call's
  record, no leak, no mutex unlocked for another) and `Served` (liveness) say what
  asynchronous calls promise; `TwiceOnlyIfFull` and `LostOnlyIfFull` what survives
  late answers when one thread calls.
* `PartnersAgree`, `WaitingAnswered`, `OwnData`, `EndedComplete` and
  `EndsAtBoth` (liveness): what a tunnel promises as long as the peers did not
  lose each other and no descriptor was mistaken. It does not promise all data: a
  chunk that `write` cut is missing from the middle of the stream, and the stream
  goes on, and ends, as if it were whole. `OwnData` says that nothing else is missing
  before what was given, and nothing is out of order or another connection's;
  `EndedComplete` that nothing else is missing at an end that was shut down.

Each property is checked in one run where it is hardest. `TypeOK` is checked in
`split` and `l0_server`, and is part of the inductive invariant that is proved in
every proof module.

### Fairness

* CQue: libev dispatches expired timers while the loop runs (`TimerCb`),
  callbacks return (`Return`), and `timer_cb`, a repeating timer, sees a cleared
  `runEventMgr` (`BreakLoop`). Nothing is assumed of clients.
* Mesh: TR-UDP retransmits, so a packet of a live channel arrives (`Deliver`) and
  a new channel is noticed (`ChannelReset`); datagrams arrive unless one of the
  bounded losses takes them; `idle_activity_cb` runs every 11.5 seconds on every
  node, so a silent dead peer is noticed (`CheckConnected` of a peer that is
  down), trip times are asked for (`Echo`) and a node without r-host connects
  (`ConnectToRHost`); queued callbacks are called (`PeerTypeCb`,
  `ReconnectCqueCb`). Outages, stops and starts are never forced.

* Stream: packets arrive, new channels are noticed, watchers of readable pipes
  and the five second callback are called, and a dead peer is noticed. Nothing
  is assumed of applications but that they read when told of data.

* L0Server: the check puts itself into the callback queue again, and the
  application confirms the logins it was told of. Nothing is assumed of clients.
* Async: a thread that can go on does, and so does the loop. That a thread gets
  a mutex it waits for is weak fairness only because calls and full queues are
  bounded, so that the others stop taking it. The run `async` lets no wait time
  out: it asks what holds when the loop answers within 150 milliseconds.
* Tunnel: each peer's loop goes on as long as there is a packet or a readable
  socket. Clients and servers need not write or close, peers need not meet again.

All of it is weak fairness: each of these actions stays enabled until it happens
or something else makes it unnecessary.

## 4. What is proved

TLAPS checks these for every value of the constants that satisfies the named
assumption of the module (`CQueAssumption`, `MeshAssumption`, `SplitAssumption`,
`StreamAssumption`, `L0Assumption`, `AsyncAssumption`, `TunnelAssumption`): they say
that bounds are numbers, that the two peers of a stream or tunnel are two, and that
the values for nobody and nothing are nobody's. Every invariant and every action
property of the runs is stated by a theorem, some under a hypothesis:

| theorems | hypothesis | why |
|---|---|---|
| `EventsAlwaysAgree` | no r-host that can say goodbye has TCP clients (`Named = {}`) | its goodbye is taken for theirs, see section 5 |
| all of `StreamProofs` | one peer creates the stream, and uses the name again only after a CLOSE of the other or a loss (`Usage`) | otherwise the code cannot tell an old stream from a new one |
| `CallsOnceInOrder`, `CallsSynchronous`, `RecordsFreedOnce` | no wait has ended before its answer, so far | after that none of them is true |
| `LateCallsKept` | no freed record was used, so far | the loop may drop a call whose record was freed |
| `CallsTwiceOnlyIfFull`, `CallsLostOnlyIfFull` | a single calling thread (`OneCaller`) | with two threads neither is true, see section 5 |

The runs of section 3 are instances of these hypotheses (`mesh_stop` has no TCP
clients, `stream` one creator, `async` no late answer, `async_late` one thread).

`CQueProofs`: the inductive invariant is `IInv`: types, `AtMostOnce`, `Accounted`,
`OnlyWrapOverwrites` and, while nothing undefined has happened, three facts that
make them inductive. `IdDistance` says that the id counter stands as many ids
past a record as there were adds since, or has wrapped: it is what turns "the id
is taken" into "2^32 - 1 adds ago". `OnePlace` says that a serial is in one place
only; `FramesHold` that a running callback was counted and is still in the map
under the id its frame will remove. From it follow `CallbackAtMostOnce`,
`NoCallForgotten`, `OverwriteNeedsWrap`, and
`QueueImplementsOneShot`, the refinement of `OneShotCalls` (a waiting call is
called or dropped, once).

`MeshProofs`: a handler of `Mesh` is a composition of operators on a node's record,
and so is the proof: a lemma for each operator says what it does to the table, to
the r-host's name, to the counts of queued calls and to the application's view, and
that what it sends may be sent. `IInv` says of every node that its r-host is at
`r_host_addr` and in the table (`RHostOK`), that TCP children are the r-host's
(`ChildrenOK`), that the id in `cque_id_peer_type` is that of a queued call and an
entry without type has one (`AskedOK`), and that the application knows the typed
entries (`EventsOK`); and of every packet that it may be on its way: only the r-host
sends the empty command by which it makes itself known (`Sendable`), and only certain
goodbyes are under way (`UdpOK`). These are why `RHostKnown` alone is not inductive:
the next packet might be from somebody who is no r-host. `AskedOK` needs the count of
old calls for a former entry of the same name (`chains`), because one of them may run
after the entry was made anew. From it follow `MeshTypeOK`, `RHostAlwaysKnown`,
`UntypedAlwaysAsked` and `EventsAlwaysAgree`, from the empty and from the formed network.

`SplitProofs`: `SubpacketLengths` and `SubpacketNumbersFit` are about the
arithmetic of `ksnSplitPacket` for every length and MAX_DATA_LEN.
`SplitInvariant` is the inductive invariant. `NoMix` alone is not inductive: one
must know that each channel holds the subpackets of its sender's packets in
order (`ChanOK`, `ChanInOrder`), that under the keys of the packet now being
received from p the map has parts of that packet or nothing (`MapOK`: remains of
an older packet with the same number were overwritten, subpacket by subpacket,
before the last one can combine them), and that what is under way was sent after
what was processed (`GotBefore`). From it follow `TypeCorrect`, `NeverMixed` and
`KeepsOrder`, the refinement of `PacketTransport`. `NothingLost` and `MapClean` have an
invariant of their own, `LosslessInv`: until a channel is lost or a pause clears the
map, it holds the parts of the packet that is being received up to the one that
comes next, and nothing else.

`StreamProofs`: `Base` says of each peer what its record, its queued callbacks and
what it sends may be (a CREATE is for the last record, CREATED comes first and CLOSE
last, what can be read begins with the first chunk). `Link` relates the ends, as long
as the channel is the same at both: a CREATE finds no stream and an empty channel
back (`Asked`), CREATED an initiator that waits or gave up (`Answered`), a connected
initiator the acceptor's last record (`Connected`), and when the name may be used
again nothing is left of the last stream (`Over`). `Flow` follows the chunks: those on
their way go on where those of the input pipe end, and end where those of the output
pipe begin. A loss ends `Link` for as long as one peer has not noticed, and what is
then read from the new channel begins anew, which is why `IInv` is
`Base /\ (reset = {} => Link)`. From it follow `StreamTypeOK`, `EndsAlwaysAgree`,
`DataAlwaysInOrder`, `ChunksNeverLost` and `OnlyCallbacksLeft`.

`L0ServerProofs`: the handlers of the server are functions on what they change
together, so the proof first shows, function by function, that a record in which
the two maps are inverse, the counter is the number of clients and the silent
clients are connected (`Consistent`) is turned into such a record. The step of an
action then follows from the lemmas about the functions it calls. Two of the
properties are not inductive. That open descriptors are those of clients or were
leaked (`OnlyKickedLeak`) needs that a leaked descriptor belongs to no client, so
that accept never returns it (`Opened`). That subscribers were told of all who are
online or were kicked (`SubscribersAgree`) needs that no one who is online was
kicked since, and that nothing counts as kicked while nobody listens (`Informed`).
From the invariant follow `TypeCorrect`, `NamesAndClients`, `CountsAndDescriptors`
and `SubscribersInformed`, for every number of clients, names and channels.

`AsyncProofs`: as long as every wait is ended by its answer there are three modes
(`Mode`): with the multi-thread mode on (`Multi`) one thread at a time is between
`LOCK_FUNC` and `UNLOCK_FUNC`, its element is in the queue, then in the loop, and then
it is signalled (`InExchange`), and a record is its caller's (`Owned`); with the mode
given up or forbidden (`Single`) nobody locks or waits, the queue keeps each thread's
order behind what was made (`Queued`), and a record is the loop's once it is put in;
and before the first thread has tried the mode nothing has happened (`Fresh`). A late
answer breaks all of it, so the theorems are `[](timeouts = 0 => ...)`, from
`IInv \/ Late` with `Late` stable.

After late answers less is true, and has invariants of its own. `KInv`: what was put
into the queue is there or was made or refused, or a send queue was full (`Kept`),
until a freed record is used; from it `LateCallsKept`. `OInv`, for a single thread:
records are made in the order in which they were put in (`InTurn`), and as long as no
send queue was full a record is put in for the first time, stays allocated and is
without an answer until the loop has made it, and a thread that goes on with the mode
on has its answer (`PutOnce`): therefore no call is repeated and no queued record is
freed. From it `CallsTwiceOnlyIfFull` and `CallsLostOnlyIfFull`, which hold even in
the last state of a behaviour that ends with the use of a freed record.

`TunnelProofs`: `IInv` says of every connection, and of nothing that relates two
connections, where its sockets and commands are: CREATE is all there is of it besides
the socket that waits (`Asked`), CREATED comes first and to that socket (`Answered`),
NOT_CREATED last (`Final`), the commands and maps name the other's socket as long as
both have one (`Named`), and chunks are in order, behind those delivered and before
those that can be read (`InOrder`, `UnreadInOrder`), without a gap but for short writes until the peers lose
each other (`NoGap`). What two ends know of each other (`Noticed`, `Complete`) holds
as long as nothing has happened that the tunnels do not notice. A step of one peer is
shown to be a step of one connection (`StepOf`) that keeps all that holds of the
others (`StepKeeps`), although connections share descriptors: a command may name a
descriptor that another connection has got since, but as soon as it is applied the
model ends (`mixed`). From it follow
`TunnelTypeOK`, `MapsName`, `ClientsAnswered`, `OwnDataOnly` and `ShutHasArrived`.

Left to TLC: liveness under fairness (`TimedCallResolved`, `MeshForms`, `NoGhosts`,
`PendingResolved`, `OrphanClosed`, `SilentGone`, `LoginAnswered`, `Served`,
`EndsAtBoth`), which is out of the provers' reach, and the two violations, which one
behaviour shows. What the abstractions leave out (section 2) is in no theorem.

## 5. Disagreements found

Two have a run of their own:

* `async_lock`: `event_cb` locks `cv_mutex` under one reading of the mode and
  unlocks it under another. One answer later than 150 milliseconds leaves the mutex
  locked by the loop, and after that no thread gets a call through.
* `tunnel_reuse`: a peer closes its descriptor before the other knows, and messages
  for the old connection are written to, or shut down, whatever has the number
  next: one client gets another's data, or is disconnected in its place.

The others were found by model-checking the same modules, or by reading, and show
where a property had to be stated with an exception:

* `ksnCQueAdd` with timeout 0 starts no timer, though its documentation says that
  the timeout is then set automatically (`cque.c:255`, `:279`).
* `teoCqueStopAll` skips stopping the watchers when `runEventMgr` is already
  cleared, although the loop still runs (`cque.c:71`): a timer that expires then runs
  on freed memory (`FreedTimerCb`). No property forbids it; the others are checked and
  proved with it.
* The r-host learns a peer's type from CONNECT_R and therefore never sends
  EV_K_CONNECTED for a peer that joins by UDP (`net_core.c:760`): `EventsAgree`
  leaves the r-host out.
* When an r-host stops, the others remove its TCP children but announce the
  r-host's name (`net_com.c:1337`): `mesh_stop` has no TCP children.
* Closing a stream before it is connected, or losing its peer, leaves
  `kq_connect_cb` queued with a pointer to the freed record (`stream.c:288`), the
  exception in `OnlyCallbacksDangle`.
* `ksnStreamCreate` means to refuse an existing stream, but the test is
  unreachable and the stream is replaced (`stream.c:163`, `:206`).
* An L0 client that logs in a second time under another name leaves its first
  name in the map (`l0-server.c:756`): whoever logs in under that name later
  disconnects it.
* `_check_connected` disconnects one silent client at a time and pings none after
  it: the removal ends the iteration (`l0-server.c:1156`).
* A kicked L0 client keeps its socket open and is never announced as disconnected
  (`l0-server.c:1050`, `:1063`), and a refused TCP login frees a record that the
  handler goes on reading (`l0-server.c:293`).
* After a late answer an asynchronous call may be made twice (it found the send
  queue full, was repeated and timed out, `async_calls.c:336`), or never (it found
  the queue full when its caller had gone), and its record may be used after it
  was freed or never freed: `async_late` checks what is left.
* With a second thread that is less: a thread whose call was put in with the mode off
  goes on without waiting (`async_calls.c:325`), and if the check of another thread turns
  the mode on (`:357`) before it asks whether to repeat the call (`:336`), it finds
  no answer and puts the call in again. The call is made twice, with no full send
  queue: `TwiceOnlyIfFull` is stated, checked and proved for one calling thread.
* A tunnel's client that is refused keeps a descriptor at the peer for ever
  (`net_tun.c:602`). What a write to a tunnel's socket does not take is lost without a
  word, from the middle of the stream (`net_tun.c:487`, non-blocking by
  `net_tcp.c:613`); a write to a socket that the other end has closed ends the
  process by SIGPIPE, which nothing ignores (`net_tun.c:487`).

## 6. Not modelled

The TCP proxy carries the packets of the core over one TCP connection: its peers
are in `Mesh`, its framing of packets in a byte stream is not modelled. The
multi-network manager keeps a list of networks that share a loop and nothing else;
each of them is a node of `Mesh`. TeoDB, logging, metrics, encryption, VPN,
terminal, configuration, daemon, utilities and applications keep no protocol state
of their own (`PROJECT.json` has the reason for each). The greater part of the
source lines of the repository is code of others that is kept in it (mongoose, fossa,
libpbl, libcli): it is modelled by what its callers rely on and by nothing else, so
that the share of all lines that the models stand for stays small even where the
library itself is covered.

## 7. Plan

1. Proofs: that asynchronous calls of one thread are what an abstract specification
   of a call promises, late answers included, and the same for the two ends of a
   stream; the action properties that the invariants of `Mesh` suggest (when an event
   about a peer may be told).
2. The framing of packets in the TCP proxy, as a function on byte streams.
