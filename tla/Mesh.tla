-------------------------------- MODULE Mesh --------------------------------
(***************************************************************************)
(* The peers of one Teonet network: how they find each other through the   *)
(* r-host, notice that a peer is gone, and reconnect.  Every node runs the *)
(* handlers of src/src/net_core.c, net_com.c, net_arp.c and net_recon.c    *)
(* and the periodic checks of ev_mgr.c.                                    *)
(*                                                                         *)
(* A handler is an operator on a record h: the node's state h.s, what it   *)
(* has sent so far to each peer through TR-UDP h.out and as datagrams      *)
(* h.udp, and the peers whose TR-UDP channel it has destroyed h.cut.       *)
(* Commit makes a step of the system of it.                                *)
(*                                                                         *)
(* CONNECT_R and DISCONNECTED are plain datagrams (CMD_TRUDP_CHECK): they  *)
(* are lost and overtaken.  All other commands go through TR-UDP, which is *)
(* reliable and ordered for as long as the channel lives.                  *)
(***************************************************************************)
EXTENDS Naturals, Sequences, FiniteSets, SequencesExt

CONSTANTS
    Node,         \* the peers of the network
    RHost,        \* the r-host: the node all others have in their r_host_addr
    MayTcp,       \* nodes that may be configured to connect by TCP proxy
    None,         \* an empty r_host_name, a message without data
    MaxLapses,    \* bound on outages: lost datagrams, checks that time out on
                  \* a live peer, channels that TR-UDP gives up on
    MaxStops,     \* bound on nodes that stop or crash
    MaxTrouble,   \* bound on both together
    MayStop,      \* the nodes that do
    Goodbye,      \* whether they stop by ksnCoreDestroy (TRUE) or crash (FALSE)
    MayStart,     \* the nodes that start, at first or again after a stop
    MaxBusy       \* bound on busy channels and datagrams elsewhere at a retry

ASSUME MeshAssumption ==
    /\ IsFiniteSet(Node)
    /\ RHost \in Node
    /\ MayTcp \subseteq Node \ {RHost}
    /\ None \notin Node
    /\ MaxLapses \in Nat
    /\ MaxStops \in Nat
    /\ MaxTrouble \in Nat
    /\ MayStop \subseteq Node
    /\ Goodbye \subseteq BOOLEAN
    /\ MayStart \subseteq Node
    /\ MaxBusy \in Nat

VARIABLES
    byTcp,   \* the nodes that connect through the r-host's TCP proxy (r_tcp_f)
    up,      \* the nodes whose event manager runs
    node,    \* the state each node keeps
    chan,    \* chan[n][p]: TR-UDP packets from n that p has not received yet
    udp,     \* datagrams on their way
    reset,   \* reset[n]: peers that began a new channel to n; n has not noticed
    lapses,  \* outages so far
    stops    \* stops and crashes so far

vars == <<byTcp, up, node, chan, udp, reset, lapses, stops>>

\* ksnet_arp_data_ext: mode is 1 for this node's r-host and 2 for a TCP proxy
\* child, typed tells whether the peer's type is known, asked whether
\* cque_id_peer_type is the id of a queued peer_type_cb.
Entry == [mode : 0..2, typed : BOOLEAN, asked : BOOLEAN]

ArpTable == UNION {[D -> Entry] : D \in SUBSET Node}

\* The state of a node: its ARP table, r_host_name, the reconnect map, the
\* peers it waits for two seconds in cmd_connect_cque_cb, the number of queued
\* peer_type_cb calls for each peer, and the last event the application got.
NodeState ==
    [arp : ArpTable, rhost : Node \cup {None}, recon : SUBSET Node, wait : SUBSET Node,
     chains : [Node -> Nat], view : [Node -> {"none", "up", "down"}]]

Fresh == [arp |-> <<>>, rhost |-> None, recon |-> {}, wait |-> {},
          chains |-> [p \in Node |-> 0], view |-> [p \in Node |-> "none"]]

Arp(n) == node[n].arp

Knows(n, p) == p \in DOMAIN Arp(n)

Peers(h) == DOMAIN h.s.arp

-----------------------------------------------------------------------------
(* Sending.                                                                *)

\* The commands that are sent as plain datagrams.
Datagram(cmd) == cmd \in {"CONNECT_R", "DISCONNECTED"}

Msg(cmd, arg) == [cmd |-> cmd, arg |-> arg]

\* What TR-UDP carries: CONNECT, RECONNECT and RECONNECT_ANSWER are about a peer.
Message ==
    [cmd : {"NONE", "ECHO", "ECHO_ANSWER", "HOST_INFO", "HOST_INFO_ANSWER"},
     arg : {None, RHost}]
    \cup [cmd : {"CONNECT", "RECONNECT", "RECONNECT_ANSWER"}, arg : Node]

\* ksnCoreSendto: to an address, whether or not it is in the table.
Sendto(h, to, cmd, arg) ==
    IF Datagram(cmd)
    THEN [h EXCEPT !.udp = @ \cup {[to |-> to, cmd |-> cmd, arg |-> arg]}]
    ELSE [h EXCEPT !.out[to] = Append(@, Msg(cmd, arg))]

\* ksnCoreSendCmdto: to a peer by its name, which must be in the table.
SendCmdto(h, to, cmd, arg) ==
    IF to \in Peers(h) THEN Sendto(h, to, cmd, arg) ELSE h

\* ksnetArpGetAll(send_cmd_connect_cb): tell every other peer about p.
SendConnect(h, p) ==
    [h EXCEPT !.out = [q \in Node |-> IF q \in Peers(h) \ {p}
                                      THEN Append(@[q], Msg("CONNECT", p)) ELSE @[q]]]

\* ksnetArpGetAll(send_cmd_connect_cb_b): tell p about every other peer.
SendConnectB(h, p) ==
    [h EXCEPT !.out[p] = @ \o SetToSeq({Msg("CONNECT", q) : q \in Peers(h) \ {p}})]

\* What n's handler sent through TR-UDP to p, after n may have cut the channel.
\* What is sent to a node that is down never arrives.
Queue(n, h, p) ==
    IF p \notin up THEN <<>>
    ELSE (IF p \in h.cut THEN <<>> ELSE chan[n][p]) \o h.out[p]

Datagrams(n, h) ==
    {[from |-> n, to |-> m.to, cmd |-> m.cmd, arg |-> m.arg] :
        m \in {d \in h.udp : d.to \in up}}

Start(n) == [s |-> node[n], out |-> [p \in Node |-> <<>>], udp |-> {}, cut |-> {}]

\* The handler's changes become visible.  A peer of which n destroyed its
\* channel will see n's next channel start anew.
Commit(n, h) ==
    /\ node' = [node EXCEPT ![n] = h.s]
    /\ chan' = [chan EXCEPT ![n] = [p \in Node |-> Queue(n, h, p)]]
    /\ udp' = udp \cup Datagrams(n, h)

\* The peers that will see a channel of n start anew.  The ends of n's own new
\* channels have nothing to notice any more.
ResetAfterCut(n, h) ==
    [p \in Node |-> IF p = n THEN reset[n] \ h.cut
                    ELSE IF p \in h.cut /\ Knows(p, n) THEN reset[p] \cup {n}
                    ELSE reset[p]]

-----------------------------------------------------------------------------
(* The handlers.                                                           *)

\* Mutant of ReconnectSend: the r-host is never asked.
MutantNoReconnect(h, p) == h

\* ksnReconnectSend: ask the r-host to reconnect this node with p, unless that
\* was asked already or the r-host is not connected.
ReconnectSend(h, p) ==
    IF /\ h.s.rhost # None
       /\ h.s.rhost \in Peers(h)
       /\ p \notin h.s.recon
    THEN Sendto([h EXCEPT !.s.recon = @ \cup {p}], h.s.rhost, "RECONNECT", p)
    ELSE h

\* ksnetArpRemove: the entry goes, and the TR-UDP channel with what it queued.
ArpRemove(h, p) ==
    IF p \in Peers(h)
    THEN [h EXCEPT !.s.arp = [q \in Peers(h) \ {p} |-> h.s.arp[q]],
                   !.out[p] = <<>>,
                   !.cut = @ \cup {p}]
    ELSE h

\* Mutant of Disconnected: the name of a lost r-host is kept.
MutantKeepRHost(h, from, about) ==
    LET name == IF about = None THEN from ELSE about
        asked == IF h.s.rhost = from THEN h ELSE ReconnectSend(h, name)
    IN  ArpRemove([asked EXCEPT !.s.view[from] = "down"], name)

\* Mutant of Disconnected: no event for the loss of the r-host.
MutantSilentRHost(h, from, about) ==
    LET name == IF about = None THEN from ELSE about
        isRHost == h.s.rhost = from
        asked == IF isRHost THEN [h EXCEPT !.s.rhost = None] ELSE ReconnectSend(h, name)
    IN  ArpRemove(IF isRHost THEN asked ELSE [asked EXCEPT !.s.view[from] = "down"], name)

\* cmd_disconnected_cb: a DISCONNECTED from peer "from", naming peer "about" if
\* it has data.  The event and the check for the r-host go by "from".
Disconnected(h, from, about) ==
    LET name == IF about = None THEN from ELSE about
        isRHost == h.s.rhost = from
        asked == IF isRHost THEN [h EXCEPT !.s.rhost = None] ELSE ReconnectSend(h, name)
    IN  ArpRemove([asked EXCEPT !.s.view[from] = "down"], name)

\* The ARP table with an entry for p.
WithEntry(arp, p, entry) ==
    [q \in DOMAIN arp \cup {p} |-> IF q = p THEN entry ELSE arp[q]]

\* Mutant of CheckNewPeer: a table entry is made without asking for host info.
MutantNoHostInfo(h, n, p, cmd, arg) ==
    LET isRHost == h.s.rhost = None /\ n # RHost /\ p = RHost
        entry == [mode |-> IF isRHost THEN 1 ELSE 0, typed |-> cmd = "CONNECT_R",
                  asked |-> FALSE]
    IN  IF p \notin Peers(h)
        THEN [h EXCEPT !.s.arp = WithEntry(@, p, entry),
                       !.s.rhost = IF isRHost THEN p ELSE @]
        ELSE h

\* ksnCoreCheckNewPeer: the first packet from p adds it to the table and asks
\* for its type.  A node without r-host takes the peer at r_host_addr as its
\* r-host and tells it and all others about each other; a NONE with two bytes
\* of data makes a known peer the r-host.
CheckNewPeer(h, n, p, cmd, arg) ==
    LET isRHost == h.s.rhost = None /\ n # RHost /\ p = RHost
        entry == [mode |-> IF isRHost THEN 1 ELSE 0, typed |-> cmd = "CONNECT_R",
                  asked |-> TRUE]
        added == [h EXCEPT !.s.arp = WithEntry(@, p, entry),
                           !.s.rhost = IF isRHost THEN p ELSE @,
                           !.s.chains[p] = @ + 1]
        asking == Sendto(added, p, "HOST_INFO", None)
    IN  IF p \notin Peers(h)
        THEN IF isRHost THEN SendConnect(SendConnectB(asking, p), p) ELSE asking
        ELSE IF cmd = "NONE" /\ arg = RHost
        THEN [h EXCEPT !.s.rhost = p, !.s.arp[p].mode = 1]
        ELSE h

\* Mutant of ConnectR: the r-host only answers the child.
MutantNoBroadcast(h, p, tcp) ==
    SendCmdto(IF tcp THEN [h EXCEPT !.s.arp[p].mode = 2, !.s.view[p] = "up"] ELSE h,
              p, "NONE", RHost)

\* cmd_connect_r_cb at the r-host: a child by UDP and all other peers are told
\* about each other; the others are told about a child by TCP, whose
\* connection is an event at once.
ConnectR(h, p, tcp) ==
    LET answered == SendCmdto(h, p, "NONE", RHost)
    IN  IF tcp
        THEN SendConnect([answered EXCEPT !.s.arp[p].mode = 2, !.s.view[p] = "up"], p)
        ELSE SendConnectB(SendConnect(answered, p), p)

\* cmd_connect_cb: knock on the peer's door if it is not known; either way
\* look at its channel in two seconds.
Connect(h, q) ==
    LET waiting == [h EXCEPT !.s.wait = @ \cup {q}]
    IN  IF q \in Peers(h) THEN waiting ELSE Sendto(waiting, q, "NONE", None)

\* cmd_host_info_answer_cb: end the request; a type learned now is the event
\* that the peer is connected.
HostInfoAnswer(h, p) ==
    LET e == h.s.arp[p]
        ended == IF e.asked
                 THEN [h EXCEPT !.s.chains[p] = @ - 1, !.s.arp[p].asked = FALSE] ELSE h
    IN  IF e.typed THEN ended
        ELSE [ended EXCEPT !.s.arp[p].typed = TRUE, !.s.view[p] = "up"]

\* Mutant of Reconnect: no answer for a peer that is not connected.
MutantNoAnswer(h, p, q) ==
    IF q \notin Peers(h) \/ p = q THEN h
    ELSE SendCmdto(SendCmdto(h, p, "CONNECT", q), q, "CONNECT", p)

\* ksnReconnectProcess at the r-host (with send_cmd_connected_cb).
Reconnect(h, p, q) ==
    IF q \notin Peers(h) THEN SendCmdto(h, p, "RECONNECT_ANSWER", q)
    ELSE IF p = q THEN h
    ELSE SendCmdto(SendCmdto(h, p, "CONNECT", q), q, "CONNECT", p)

\* ksnReconnectProcessAnswer: the r-host does not know q, stop asking.
ReconnectAnswer(h, q) == [h EXCEPT !.s.recon = @ \ {q}]

\* ksnCommandCheck.
Process(h, p, cmd, arg) ==
    CASE cmd = "NONE" -> h
      [] cmd = "ECHO" -> Sendto(h, p, "ECHO_ANSWER", None)
      [] cmd = "ECHO_ANSWER" -> h
      [] cmd = "HOST_INFO" -> Sendto(h, p, "HOST_INFO_ANSWER", None)
      [] cmd = "HOST_INFO_ANSWER" -> HostInfoAnswer(h, p)
      [] cmd = "CONNECT_R" -> ConnectR(h, p, p \in byTcp)
      [] cmd = "CONNECT" -> Connect(h, arg)
      [] cmd = "DISCONNECTED" -> Disconnected(h, p, arg)
      [] cmd = "RECONNECT" -> Reconnect(h, p, arg)
      [] cmd = "RECONNECT_ANSWER" -> ReconnectAnswer(h, arg)

\* ksnCoreProcessPacket.
Packet(n, p, cmd, arg) ==
    Process(CheckNewPeer(Start(n), n, p, cmd, arg), p, cmd, arg)

-----------------------------------------------------------------------------
\* No node has started yet.
NewNetwork ==
    /\ byTcp \in SUBSET MayTcp
    /\ up = {}
    /\ node = [n \in Node |-> Fresh]
    /\ chan = [n \in Node |-> [p \in Node |-> <<>>]]
    /\ udp = {}
    /\ reset = [n \in Node |-> {}]

Init == NewNetwork /\ lapses = 0 /\ stops = 0

\* The state after the network has formed and settled, to start a run from.
Formed ==
    /\ byTcp \in SUBSET MayTcp
    /\ up = Node
    /\ node = [n \in Node |->
          [Fresh EXCEPT
              !.arp = [p \in Node \ {n} |->
                  [mode |-> IF p = RHost THEN 1 ELSE IF n = RHost /\ p \in byTcp THEN 2 ELSE 0,
                   typed |-> TRUE, asked |-> FALSE]],
              !.rhost = IF n = RHost THEN None ELSE RHost,
              !.view = [p \in Node |-> IF p = n THEN "none"
                          ELSE IF n = RHost /\ p \notin byTcp THEN "none" ELSE "up"]]]
    /\ chan = [n \in Node |-> [p \in Node |-> <<>>]]
    /\ udp = {}
    /\ reset = [n \in Node |-> {}]
    /\ lapses = 0
    /\ stops = 0

\* A run may also start from either: a new network without trouble, all of
\* which is spent, or one that has formed and has its trouble ahead.
NewOrFormed == (NewNetwork /\ lapses = MaxLapses /\ stops = MaxStops) \/ Formed

\* An application starts: idle_cb connects to the r-host.  What is left of the
\* packets from this address is not part of the channels it opens; peers that
\* know it will see them start anew.
StartNode(n) ==
    /\ n \in MayStart \ up
    /\ up' = up \cup {n}
    /\ chan' = [chan EXCEPT ![n] = [p \in Node |-> <<>>]]
    /\ reset' = [p \in Node |-> IF Knows(p, n) THEN reset[p] \cup {n} ELSE reset[p] \ {n}]
    /\ udp' = IF n = RHost THEN udp
              ELSE udp \cup Datagrams(n, Sendto(Start(n), RHost, "CONNECT_R", None))
    /\ UNCHANGED <<byTcp, node, lapses, stops>>

\* TR-UDP hands the next packet from p to host_cb of n.
Deliver(p, n) ==
    LET m == Head(chan[p][n])
        h == Packet(n, p, m.cmd, m.arg)
        rest == [chan EXCEPT ![p][n] = Tail(@)]
    IN  /\ n \in up
        /\ chan[p][n] # <<>>
        /\ p \notin reset[n] /\ n \notin reset[p]
        /\ node' = [node EXCEPT ![n] = h.s]
        /\ chan' = [rest EXCEPT ![n] = [q \in Node |-> Queue(n, h, q)]]
        /\ reset' = ResetAfterCut(n, h)
        /\ UNCHANGED <<byTcp, up, udp, lapses, stops>>

\* A datagram arrives at n.
DeliverUdp(m) ==
    LET h == Packet(m.to, m.from, m.cmd, m.arg)
    IN  /\ m.to \in up
        /\ node' = [node EXCEPT ![m.to] = h.s]
        /\ chan' = [chan EXCEPT ![m.to] = [p \in Node |-> Queue(m.to, h, p)]]
        /\ udp' = udp \ {m}
        /\ reset' = ResetAfterCut(m.to, h)
        /\ UNCHANGED <<byTcp, up, lapses, stops>>

\* One more outage is within the bounds.
MayLapse == lapses < MaxLapses /\ lapses + stops < MaxTrouble

\* A datagram is lost.
LoseUdp(m) ==
    /\ MayLapse
    /\ lapses' = lapses + 1
    /\ udp' = udp \ {m}
    /\ UNCHANGED <<byTcp, up, node, chan, reset, stops>>

\* A timer repeats a request after a second or later: what the two nodes sent
\* each other has arrived by then, and so has most of what the others sent.
Quiet(n, p) ==
    /\ chan[n][p] = <<>> /\ chan[p][n] = <<>>
    /\ \A m \in udp : {m.from, m.to} # {n, p}
    /\ Cardinality(udp) + Cardinality({d \in Node \X Node : chan[d[1]][d[2]] # <<>>}) <= MaxBusy

\* connect_r_host_cb in idle_activity_cb: connect to the r-host if there is none.
ConnectToRHost(n) ==
    /\ n \in up \ {RHost}
    /\ node[n].rhost = None
    /\ Quiet(n, RHost)
    /\ Commit(n, Sendto(Start(n), RHost, "CONNECT_R", None))
    /\ RHost \in up
    /\ UNCHANGED <<byTcp, up, reset, lapses, stops>>

\* check_connected_cb asks for the trip time.  Between peers that know each
\* other echo and answer only refresh last_activity; they are left out.
Echo(n, p) ==
    /\ n \in up
    /\ Knows(n, p)
    /\ ~Knows(p, n)
    /\ Quiet(n, p)
    /\ Commit(n, SendCmdto(Start(n), p, "ECHO", None))
    /\ UNCHANGED <<byTcp, up, reset, lapses, stops>>

\* An outage between n and p: p is down, or it costs one of the bounded lapses.
Outage(p) ==
    /\ p \in up => MayLapse
    /\ lapses' = IF p \in up THEN lapses + 1 ELSE lapses

\* Mutant of CheckConnected: peers whose type is not known yet are not checked.
MutantCheckTyped(n, p) ==
    LET h == Disconnected(Sendto(Start(n), p, "DISCONNECTED", None), p, None)
    IN  /\ n \in up
        /\ Knows(n, p)
        /\ Arp(n)[p].typed
        /\ Outage(p)
        /\ Commit(n, h)
        /\ reset' = ResetAfterCut(n, h)
        /\ UNCHANGED <<byTcp, up, stops>>

\* check_connected_cb disconnects a peer that was silent for 14 seconds.
CheckConnected(n, p) ==
    LET h == Disconnected(Sendto(Start(n), p, "DISCONNECTED", None), p, None)
    IN  /\ n \in up
        /\ Knows(n, p)
        /\ Outage(p)
        /\ Commit(n, h)
        /\ reset' = ResetAfterCut(n, h)
        /\ UNCHANGED <<byTcp, up, stops>>

\* TR-UDP gives the channel up (DISCONNECTED event): remove_peer_addr.
ChannelLost(n, p) ==
    LET h == Disconnected(Start(n), p, None)
    IN  /\ n \in up
        /\ Knows(n, p)
        /\ Outage(p)
        /\ Commit(n, h)
        /\ reset' = ResetAfterCut(n, h)
        /\ UNCHANGED <<byTcp, up, stops>>

\* TR-UDP sees the peer's channel start anew (SEND_RESET, GOT_RESET events):
\* remove_peer_addr.  Both ends have new channels afterwards.
ChannelReset(n, p) ==
    /\ n \in up
    /\ p \in reset[n]
    /\ IF Knows(n, p)
       THEN Commit(n, Disconnected(Start(n), p, None))
       ELSE UNCHANGED <<node, chan, udp>>
    /\ reset' = [reset EXCEPT ![n] = @ \ {p}]
    /\ UNCHANGED <<byTcp, up, lapses, stops>>

\* peer_type_cb after a second: ask again while the peer is in the table.
PeerTypeCb(n, p) ==
    LET again == [Start(n) EXCEPT !.s.arp[p].asked = TRUE]
        ended == [Start(n) EXCEPT !.s.chains[p] = @ - 1]
    IN  /\ n \in up
        /\ node[n].chains[p] > 0
        /\ Quiet(n, p)
        /\ Commit(n, IF Knows(n, p) THEN Sendto(again, p, "HOST_INFO", None) ELSE ended)
        /\ UNCHANGED <<byTcp, up, reset, lapses, stops>>

\* cmd_connect_cque_cb after two seconds: drop the channel of a peer that did
\* not connect.
ConnectCqueCb(n, p) ==
    LET h == [Start(n) EXCEPT !.s.wait = @ \ {p}, !.cut = IF Knows(n, p) THEN {} ELSE {p}]
    IN  /\ n \in up
        /\ p \in node[n].wait
        /\ IF Knows(n, p) THEN lapses' = lapses ELSE Outage(p)
        /\ Commit(n, h)
        /\ reset' = ResetAfterCut(n, h)
        /\ UNCHANGED <<byTcp, up, stops>>

\* ksnReconnectCQueCallback after five seconds: ask again if not connected.
ReconnectCqueCb(n, p) ==
    LET h == [Start(n) EXCEPT !.s.recon = @ \ {p}]
    IN  /\ n \in up
        /\ p \in node[n].recon
        /\ Quiet(n, RHost)
        /\ Commit(n, IF Knows(n, p) THEN h ELSE ReconnectSend(h, p))
        /\ UNCHANGED <<byTcp, up, reset, lapses, stops>>

\* The node is gone; what it has sent is still on its way, and a channel that
\* began anew may take it.
Leave(n, bye) ==
    /\ n \in up \cap MayStop
    /\ stops < MaxStops /\ lapses + stops < MaxTrouble
    /\ stops' = stops + 1
    /\ up' = up \ {n}
    /\ node' = [node EXCEPT ![n] = Fresh]
    /\ chan' = [p \in Node |-> [chan[p] EXCEPT ![n] = <<>>]]
    /\ udp' = {m \in udp \cup bye : m.to # n}
    /\ reset' = [reset EXCEPT ![n] = {}]
    /\ UNCHANGED <<byTcp, lapses>>

Crash(n) == FALSE \in Goodbye /\ Leave(n, {})

\* ksnCoreDestroy tells everyone that the TCP proxy children are disconnected,
\* then that this node is.
Byes(n) ==
    LET children == {p \in DOMAIN Arp(n) : Arp(n)[p].mode = 2}
    IN  {[from |-> n, to |-> p, cmd |-> "DISCONNECTED", arg |-> a] :
            p \in DOMAIN Arp(n) \cap up, a \in children \cup {None}}

Stop(n) == TRUE \in Goodbye /\ Leave(n, Byes(n))

Next ==
    \/ \E n \in Node : StartNode(n)
    \/ \E n, p \in Node : Deliver(p, n)
    \/ \E m \in udp : DeliverUdp(m)
    \/ \E m \in udp : LoseUdp(m)
    \/ \E n \in Node : ConnectToRHost(n)
    \/ \E n, p \in Node : Echo(n, p)
    \/ \E n, p \in Node : CheckConnected(n, p)
    \/ \E n, p \in Node : ChannelLost(n, p)
    \/ \E n, p \in Node : ChannelReset(n, p)
    \/ \E n, p \in Node : PeerTypeCb(n, p)
    \/ \E n, p \in Node : ConnectCqueCb(n, p)
    \/ \E n, p \in Node : ReconnectCqueCb(n, p)
    \/ \E n \in Node : Crash(n)
    \/ \E n \in Node : Stop(n)

Spec == Init /\ [][Next]_vars

\* TR-UDP delivers and notices new channels, datagrams that are not lost
\* arrive, silence is noticed, and timers fire.
Fairness ==
    /\ \A n \in Node : \A p \in Node \ {n} :
        /\ WF_vars(Deliver(p, n))
        /\ WF_vars(ChannelReset(n, p))
        /\ WF_vars(\E m \in udp : m.from = p /\ m.to = n /\ DeliverUdp(m))
        /\ WF_vars(p \notin up /\ CheckConnected(n, p))
        /\ WF_vars(Echo(n, p))
        /\ WF_vars(PeerTypeCb(n, p))
        /\ WF_vars(ReconnectCqueCb(n, p))
    /\ \A n \in Node \ {RHost} : WF_vars(ConnectToRHost(n))

FairSpec == Spec /\ Fairness

FormedSpec == Formed /\ [][Next]_vars

FairFormedSpec == FormedSpec /\ Fairness

FairNewOrFormedSpec == NewOrFormed /\ [][Next]_vars /\ Fairness

-----------------------------------------------------------------------------
\* Every node's state has its type; in particular a request for host info is
\* ended at most once (chains never goes below zero).
TypeOK ==
    /\ byTcp \subseteq MayTcp
    /\ up \subseteq Node
    /\ node \in [Node -> NodeState]
    /\ chan \in [Node -> [Node -> Seq(Message)]]
    /\ udp \subseteq [from : Node, to : up, cmd : {"CONNECT_R", "DISCONNECTED"},
                      arg : Node \cup {None}]
    /\ reset \in [Node -> SUBSET Node]
    /\ lapses \in 0..MaxLapses
    /\ stops \in 0..MaxStops

\* r_host_name is the name of a peer in the table.  connect_r_host_cb connects
\* only when it is empty, so a node for which this fails has lost the r-host
\* and does not know.
RHostKnown == \A n \in Node : node[n].rhost # None => Knows(n, node[n].rhost)

\* What the application was told last about a peer is true: it heard CONNECTED
\* of exactly the peers whose type is known (EV_K_CONNECTED, EV_K_DISCONNECTED).
\* Not at the r-host, which knows the type from CONNECT_R: nothing announces a
\* peer to its application.
EventsAgree ==
    \A n \in up \ {RHost}, p \in Node :
        node[n].view[p] = "up" <=> Knows(n, p) /\ Arp(n)[p].typed

\* As long as the type of a peer is not known, a peer_type_cb that asks for it
\* is queued, and the entry has its id, whatever old requests for a former
\* entry of the same name do.
UntypedIsAsked ==
    \A n \in Node : \A p \in DOMAIN Arp(n) :
        ~Arp(n)[p].typed => Arp(n)[p].asked /\ node[n].chains[p] > 0

\* Every node knows every other and its type.
FullMesh == \A n, p \in Node : n # p => Knows(n, p) /\ Arp(n)[p].typed

\* Once all nodes run and the bounded outages are over, the network becomes a
\* full mesh and stays one.
MeshForms == <>[](up = Node) => <>[]FullMesh

\* A node that is gone for good is forgotten, whatever packets it left, and
\* the others stop asking the r-host for it.
NoGhosts ==
    \A p \in MayStop : <>[](p \notin up) =>
        <>[](\A n \in up : ~Knows(n, p) /\ p \notin node[n].recon)
=============================================================================
