----------------------------- MODULE MeshProofs -----------------------------
(***************************************************************************)
(* Theorems about the peers of a network, for every number of nodes, every *)
(* set of TCP clients and every number of outages and stops.               *)
(*                                                                         *)
(* A handler of Mesh is a composition of operators on a record h.  Each    *)
(* has a lemma that says what it does to the node's state h.s and that     *)
(* what it sends may be sent (Handler); from them follows that a packet    *)
(* leaves a sound state sound (NodeOK).                                    *)
(***************************************************************************)
EXTENDS Mesh, FiniteSetTheorems, SequenceTheorems, TLAPS

\* The peers that a goodbye can name: the TCP clients of the r-host.
Named == IF RHost \in MayStop /\ TRUE \in Goodbye THEN MayTcp ELSE {}

\* What n may send through TR-UDP: the r-host alone makes itself known by NONE.
Sendable(n) == {m \in Message : m.cmd = "NONE" /\ m.arg = RHost => n = RHost}

\* What is sent as a datagram: CONNECT_R goes to the r-host.
Gram == [to : {RHost}, cmd : {"CONNECT_R"}, arg : {None}]
        \cup [to : Node, cmd : {"DISCONNECTED"}, arg : Named \cup {None}]

Handler(n) == [s : NodeState, out : [Node -> Seq(Sendable(n))],
               udp : SUBSET Gram, cut : SUBSET Node]

\* The r-host of a node is the node at r_host_addr, and in the table.
RHostOK(s) == s.rhost # None => s.rhost = RHost /\ RHost \in DOMAIN s.arp

\* Only the r-host has TCP children, nodes that connect by TCP.
ChildrenOK(n, s) ==
    \A p \in DOMAIN s.arp : s.arp[p].mode = 2 => n = RHost /\ p \in MayTcp

\* The id in cque_id_peer_type is that of a queued call, and an entry without
\* type has one.
AskedOK(s) ==
    \A p \in DOMAIN s.arp :
        /\ s.arp[p].typed \/ s.arp[p].asked
        /\ s.arp[p].asked => s.chains[p] > 0

\* The application knows the peers in the table whose type is known.
EventsOK(n, s) ==
    n # RHost /\ Named = {} =>
        \A p \in Node : s.view[p] = "up" <=> p \in DOMAIN s.arp /\ s.arp[p].typed

NodeOK(n, s) == RHostOK(s) /\ ChildrenOK(n, s) /\ AskedOK(s) /\ EventsOK(n, s)

UdpOK == \A m \in udp : [to |-> m.to, cmd |-> m.cmd, arg |-> m.arg] \in Gram

IInv ==
    /\ TypeOK
    /\ \A n \in Node : NodeOK(n, node[n])
    /\ \A n \in Node : chan[n] \in [Node -> Seq(Sendable(n))]
    /\ UdpOK
-----------------------------------------------------------------------------
(* The ARP table.                                                          *)

LEMMA ArpType ==
    \A arp : arp \in ArpTable <=> arp \in [DOMAIN arp -> Entry] /\ DOMAIN arp \subseteq Node
BY DEF ArpTable

\* ksnetArpAdd: the new entry is there, the others are as they were.
LEMMA WithEntryType ==
    ASSUME NEW arp \in ArpTable, NEW p \in Node, NEW e \in Entry
    PROVE  LET a == WithEntry(arp, p, e) IN
           /\ a \in ArpTable
           /\ DOMAIN a = DOMAIN arp \cup {p}
           /\ a[p] = e
           /\ \A q \in DOMAIN arp : q # p => a[q] = arp[q]
<1>1. arp \in [DOMAIN arp -> Entry] /\ DOMAIN arp \subseteq Node
  BY ArpType
<1>2. WithEntry(arp, p, e) \in [DOMAIN arp \cup {p} -> Entry]
  BY <1>1 DEF WithEntry
<1> QED
  BY <1>1, <1>2, ArpType DEF WithEntry

\* A changed entry of the table.
LEMMA ChangeType ==
    ASSUME NEW arp \in ArpTable, NEW p \in DOMAIN arp, NEW e \in Entry
    PROVE  LET a == [arp EXCEPT ![p] = e] IN
           /\ a \in ArpTable
           /\ DOMAIN a = DOMAIN arp
           /\ a[p] = e
           /\ \A q \in DOMAIN arp : q # p => a[q] = arp[q]
<1>1. arp \in [DOMAIN arp -> Entry] /\ DOMAIN arp \subseteq Node
  BY ArpType
<1>2. [arp EXCEPT ![p] = e] \in [DOMAIN arp -> Entry]
  BY <1>1
<1> QED
  BY <1>1, <1>2, ArpType

\* ksnetArpRemove: the entry is gone, the others are as they were.
LEMMA WithoutType ==
    ASSUME NEW arp \in ArpTable, NEW p
    PROVE  LET a == [q \in DOMAIN arp \ {p} |-> arp[q]] IN
           /\ a \in ArpTable
           /\ DOMAIN a = DOMAIN arp \ {p}
           /\ \A q \in DOMAIN arp \ {p} : a[q] = arp[q]
<1>1. arp \in [DOMAIN arp -> Entry] /\ DOMAIN arp \subseteq Node
  BY ArpType
<1>2. [q \in DOMAIN arp \ {p} |-> arp[q]] \in [DOMAIN arp \ {p} -> Entry]
  BY <1>1
<1> QED
  BY <1>1, <1>2, ArpType

LEMMA KnownIsNode ==
    ASSUME NEW n, NEW h \in Handler(n), NEW p \in Peers(h)
    PROVE  p \in Node
<1>1. h.s.arp \in ArpTable
  BY DEF Handler, NodeState
<1> QED
  BY <1>1, ArpType DEF Peers
-----------------------------------------------------------------------------
(* Sending leaves the state alone.                                         *)

LEMMA OutChange ==
    ASSUME NEW n, NEW h \in Handler(n), NEW e
    PROVE  /\ [h EXCEPT !.out = e] = [s |-> h.s, out |-> e, udp |-> h.udp, cut |-> h.cut]
           /\ \A p : [h EXCEPT !.out[p] = e]
                     = [s |-> h.s, out |-> [h.out EXCEPT ![p] = e], udp |-> h.udp,
                        cut |-> h.cut]
BY DEF Handler

LEMMA SendtoOK ==
    ASSUME NEW n, NEW h \in Handler(n), NEW to \in Node, NEW cmd, NEW arg,
           ~Datagram(cmd), Msg(cmd, arg) \in Sendable(n)
    PROVE  LET r == Sendto(h, to, cmd, arg) IN
           r \in Handler(n) /\ r.s = h.s /\ r.cut = h.cut /\ r.udp = h.udp
<1> DEFINE r == [s |-> h.s, out |-> [h.out EXCEPT ![to] = Append(h.out[to], Msg(cmd, arg))],
                 udp |-> h.udp, cut |-> h.cut]
<1>1. Sendto(h, to, cmd, arg) = r
  BY DEF Sendto, Handler
<1>2. h.out \in [Node -> Seq(Sendable(n))] /\ h.s \in NodeState
      /\ h.udp \in SUBSET Gram /\ h.cut \in SUBSET Node
  BY DEF Handler
<1>3. Append(h.out[to], Msg(cmd, arg)) \in Seq(Sendable(n))
  BY <1>2, AppendProperties
<1>4. r.out \in [Node -> Seq(Sendable(n))]
  BY <1>2, <1>3
<1> QED
  BY <1>1, <1>2, <1>4 DEF Handler

LEMMA SendGramOK ==
    ASSUME NEW n, NEW h \in Handler(n), NEW to, NEW cmd, NEW arg, Datagram(cmd),
           [to |-> to, cmd |-> cmd, arg |-> arg] \in Gram
    PROVE  LET r == Sendto(h, to, cmd, arg) IN r \in Handler(n) /\ r.s = h.s
<1> DEFINE r == [s |-> h.s, out |-> h.out,
                 udp |-> h.udp \cup {[to |-> to, cmd |-> cmd, arg |-> arg]}, cut |-> h.cut]
<1>1. Sendto(h, to, cmd, arg) = r
  BY DEF Sendto, Handler
<1>2. h.out \in [Node -> Seq(Sendable(n))] /\ h.s \in NodeState
      /\ h.udp \in SUBSET Gram /\ h.cut \in SUBSET Node
  BY DEF Handler
<1> QED
  BY <1>1, <1>2 DEF Handler

LEMMA SendCmdtoOK ==
    ASSUME NEW n, NEW h \in Handler(n), NEW to, NEW cmd, NEW arg,
           ~Datagram(cmd), Msg(cmd, arg) \in Sendable(n)
    PROVE  LET r == SendCmdto(h, to, cmd, arg) IN
           r \in Handler(n) /\ r.s = h.s /\ r.cut = h.cut /\ r.udp = h.udp
BY SendtoOK, KnownIsNode DEF SendCmdto

LEMMA SendConnectOK ==
    ASSUME NEW n, NEW h \in Handler(n), NEW p \in Node
    PROVE  LET r == SendConnect(h, p) IN r \in Handler(n) /\ r.s = h.s
<1> DEFINE out == [q \in Node |-> IF q \in Peers(h) \ {p}
                                  THEN Append(h.out[q], Msg("CONNECT", p)) ELSE h.out[q]]
<1>1. SendConnect(h, p) = [s |-> h.s, out |-> out, udp |-> h.udp, cut |-> h.cut]
  BY ONLY OutChange, h \in Handler(n) DEF SendConnect
<1>2. h.out \in [Node -> Seq(Sendable(n))] /\ h.s \in NodeState
      /\ h.udp \in SUBSET Gram /\ h.cut \in SUBSET Node
  BY DEF Handler
<1>3. Msg("CONNECT", p) \in Sendable(n)
  BY DEF Msg, Sendable, Message
<1>4. \A q \in Node : Append(h.out[q], Msg("CONNECT", p)) \in Seq(Sendable(n))
  BY <1>2, <1>3, AppendProperties
<1>5. out \in [Node -> Seq(Sendable(n))]
  BY <1>2, <1>4
<1> QED
  BY <1>1, <1>2, <1>5 DEF Handler

\* SetToSeq lists the members of a finite set.
LEMMA SetToSeqType ==
    ASSUME NEW S, IsFiniteSet(S)
    PROVE  SetToSeq(S) \in Seq(S)
<1>1. Cardinality(S) \in Nat
  BY FS_CardinalityType
<1>2. PICK f : ExistsBijection(1..Cardinality(S), S) /\ f \in Bijection(1..Cardinality(S), S)
  BY FS_CardinalityType DEF ExistsBijection
<1>3. f \in [1..Cardinality(S) -> S] /\ IsInjective(f)
  BY <1>2 DEF Bijection, Injection, IsInjective
<1>4. SetToSeq(S) \in [1..Cardinality(S) -> S]
  BY <1>3 DEF SetToSeq
<1> QED
  BY <1>1, <1>4

LEMMA SendConnectBOK ==
    ASSUME NEW n, NEW h \in Handler(n), NEW p \in Node, IsFiniteSet(Node)
    PROVE  LET r == SendConnectB(h, p) IN r \in Handler(n) /\ r.s = h.s
<1> DEFINE ms == {Msg("CONNECT", q) : q \in Peers(h) \ {p}}
           out == [h.out EXCEPT ![p] = h.out[p] \o SetToSeq(ms)]
<1>1. SendConnectB(h, p) = [s |-> h.s, out |-> out, udp |-> h.udp, cut |-> h.cut]
  <2> DEFINE e == h.out[p] \o SetToSeq(ms)
  <2>1. SendConnectB(h, p) = [h EXCEPT !.out[p] = e]
    BY DEF SendConnectB
  <2> QED
    BY ONLY <2>1, OutChange, h \in Handler(n)
<1>2. h.out \in [Node -> Seq(Sendable(n))] /\ h.s \in NodeState
      /\ h.udp \in SUBSET Gram /\ h.cut \in SUBSET Node
  BY DEF Handler
<1>3. Peers(h) \subseteq Node
  BY KnownIsNode
<1>4. ms \subseteq Sendable(n)
  BY <1>3 DEF Msg, Sendable, Message
<1>5. IsFiniteSet(ms)
  <2>1. IsFiniteSet(Peers(h) \ {p})
    BY <1>3, FS_Subset
  <2> QED
    <3>1. [q \in Peers(h) \ {p} |-> Msg("CONNECT", q)] \in Surjection(Peers(h) \ {p}, ms)
      BY DEF Surjection
    <3> QED
      BY <2>1, <3>1, FS_Surjection
<1>6. SetToSeq(ms) \in Seq(ms)
  BY <1>5, SetToSeqType
<1>7. SetToSeq(ms) \in Seq(Sendable(n))
  BY <1>4, <1>6
<1>8. h.out[p] \o SetToSeq(ms) \in Seq(Sendable(n))
  BY <1>2, <1>7, ConcatProperties
<1>9. out \in [Node -> Seq(Sendable(n))]
  BY <1>2, <1>8
<1> QED
  BY <1>1, <1>2, <1>9 DEF Handler
-----------------------------------------------------------------------------
(* The handlers: changes of the state.                                     *)

LEMMA StateFields ==
    ASSUME NEW n, NEW h \in Handler(n)
    PROVE  /\ h.s.arp \in ArpTable
           /\ h.s.rhost \in Node \cup {None}
           /\ h.s.recon \subseteq Node
           /\ h.s.wait \subseteq Node
           /\ h.s.chains \in [Node -> Nat]
           /\ h.s.view \in [Node -> {"none", "up", "down"}]
           /\ h.out \in [Node -> Seq(Sendable(n))]
           /\ h.udp \in SUBSET Gram
           /\ h.cut \in SUBSET Node
BY DEF Handler, NodeState

LEMMA StateChange ==
    ASSUME NEW n, NEW h \in Handler(n), NEW t \in NodeState
    PROVE  LET r == [h EXCEPT !.s = t] IN
           r \in Handler(n) /\ r.s = t /\ r.out = h.out /\ r.udp = h.udp /\ r.cut = h.cut
BY DEF Handler

\* ksnReconnectSend: the reconnect map alone changes.
LEMMA ReconnectSendOK ==
    ASSUME NEW n, NEW h \in Handler(n), NEW p \in Node
    PROVE  LET r == ReconnectSend(h, p) IN
           /\ r \in Handler(n)
           /\ r.s.arp = h.s.arp /\ r.s.rhost = h.s.rhost
           /\ r.s.chains = h.s.chains /\ r.s.view = h.s.view
<1> DEFINE t == [h.s EXCEPT !.recon = @ \cup {p}]
           g == [h EXCEPT !.s = t]
<1>1. /\ t \in NodeState
      /\ t.arp = h.s.arp /\ t.rhost = h.s.rhost
      /\ t.chains = h.s.chains /\ t.view = h.s.view
  <2>1. h.s \in NodeState
    BY DEF Handler
  <2> QED
    BY <2>1 DEF NodeState
<1> HIDE DEF t
<1>2. g \in Handler(n) /\ g.s = t
  BY <1>1, StateChange
<1> HIDE DEF g
<1>3. Msg("RECONNECT", p) \in Sendable(n) /\ ~Datagram("RECONNECT")
  BY DEF Msg, Sendable, Message, Datagram
<1>4. CASE h.s.rhost \in Peers(h) /\ ReconnectSend(h, p) = Sendto(g, h.s.rhost, "RECONNECT", p)
  <2>1. h.s.rhost \in Node
    BY <1>4, KnownIsNode
  <2> QED
    BY <1>1, <1>2, <1>3, <1>4, <2>1, SendtoOK
<1>5. CASE ReconnectSend(h, p) = h
  BY <1>5
<1> QED
  BY <1>4, <1>5 DEF ReconnectSend, g, t

\* ksnetArpRemove: the table alone changes.
LEMMA ArpRemoveOK ==
    ASSUME NEW n, NEW h \in Handler(n), NEW p
    PROVE  LET r == ArpRemove(h, p) IN
           /\ r \in Handler(n)
           /\ DOMAIN r.s.arp = DOMAIN h.s.arp \ {p}
           /\ \A q \in DOMAIN r.s.arp : r.s.arp[q] = h.s.arp[q]
           /\ r.s.rhost = h.s.rhost /\ r.s.chains = h.s.chains /\ r.s.view = h.s.view
<1> DEFINE a == [q \in DOMAIN h.s.arp \ {p} |-> h.s.arp[q]]
           t == [s |-> [arp |-> a, rhost |-> h.s.rhost, recon |-> h.s.recon,
                        wait |-> h.s.wait, chains |-> h.s.chains, view |-> h.s.view],
                 out |-> [h.out EXCEPT ![p] = <<>>], udp |-> h.udp, cut |-> h.cut \cup {p}]
<1>1. a \in ArpTable /\ DOMAIN a = DOMAIN h.s.arp \ {p}
      /\ \A q \in DOMAIN a : a[q] = h.s.arp[q]
  BY StateFields, WithoutType
<1>2. CASE p \in Peers(h)
  <2>1. p \in Node
    BY <1>2, KnownIsNode
  <2>2. ArpRemove(h, p) = t
    <3> HIDE DEF a
    <3>1. ArpRemove(h, p) = [h EXCEPT !.s.arp = a, !.out[p] = <<>>, !.cut = @ \cup {p}]
      BY <1>2 DEF ArpRemove, a, Peers
    <3> QED
      BY <3>1 DEF Handler, NodeState
  <2>3. t \in Handler(n)
    <3> HIDE DEF a
    <3>1. [h.out EXCEPT ![p] = <<>>] \in [Node -> Seq(Sendable(n))]
      BY <2>1, StateFields
    <3> QED
      BY <1>1, <2>1, <3>1, StateFields DEF Handler, NodeState
  <2> QED
    BY <1>1, <2>2, <2>3
<1>3. CASE p \notin Peers(h)
  BY <1>3 DEF ArpRemove, Peers
<1> QED
  BY <1>2, <1>3

\* cmd_disconnected_cb: when the data names another peer than the sender, the
\* sender's event and the entry that goes are of different peers; only a
\* goodbye of the r-host does that, and it never names the r-host.
LEMMA DisconnectedOK ==
    ASSUME NEW n \in Node, NEW h \in Handler(n), NodeOK(n, h.s), NEW from \in Node,
           NEW about \in Named \cup {None}
    PROVE  LET r == Disconnected(h, from, about) IN r \in Handler(n) /\ NodeOK(n, r.s)
<1> DEFINE name == IF about = None THEN from ELSE about
           isRHost == h.s.rhost = from
           rhost == IF isRHost THEN None ELSE h.s.rhost
           g == [h EXCEPT !.s.rhost = None]
           asked == IF isRHost THEN g ELSE ReconnectSend(h, name)
           told == [asked EXCEPT !.s.view[from] = "down"]
           r == ArpRemove(told, name)
<1>1. name \in Node /\ (about # None => about # RHost /\ Named # {})
  BY MeshAssumption DEF Named
<1>2. /\ asked \in Handler(n)
      /\ asked.s.arp = h.s.arp /\ asked.s.chains = h.s.chains /\ asked.s.view = h.s.view
      /\ asked.s.rhost = rhost
  <2>1. CASE isRHost
    <3> DEFINE t == [h.s EXCEPT !.rhost = None]
    <3>1. /\ t \in NodeState
          /\ t.arp = h.s.arp /\ t.rhost = None
          /\ t.chains = h.s.chains /\ t.view = h.s.view
      <4>1. h.s \in NodeState
        BY DEF Handler
      <4> QED
        BY <4>1 DEF NodeState
    <3>2. g = [h EXCEPT !.s = t]
      OBVIOUS
    <3> HIDE DEF t, g
    <3>3. g \in Handler(n) /\ g.s = t
      BY <3>1, <3>2, StateChange
    <3> QED
      BY <2>1, <3>1, <3>3
  <2>2. CASE ~isRHost
    BY <1>1, <2>2, ReconnectSendOK
  <2> QED
    BY <2>1, <2>2
<1> HIDE DEF asked
<1>3. /\ told \in Handler(n)
      /\ told.s.arp = h.s.arp /\ told.s.chains = h.s.chains /\ told.s.rhost = rhost
      /\ told.s.view = [h.s.view EXCEPT ![from] = "down"]
  <2> DEFINE t == [asked.s EXCEPT !.view[from] = "down"]
  <2>1. /\ t \in NodeState
        /\ t.arp = h.s.arp /\ t.rhost = rhost /\ t.chains = h.s.chains
        /\ t.view = [h.s.view EXCEPT ![from] = "down"]
    <3>1. asked.s \in NodeState
      BY <1>2 DEF Handler
    <3> QED
      BY <1>2, <3>1 DEF NodeState
  <2>2. told = [asked EXCEPT !.s = t]
    OBVIOUS
  <2> HIDE DEF t, told
  <2> QED
    BY <1>2, <2>1, <2>2, StateChange
<1> HIDE DEF told
<1>4. /\ r \in Handler(n)
      /\ DOMAIN r.s.arp = DOMAIN h.s.arp \ {name}
      /\ \A q \in DOMAIN r.s.arp : r.s.arp[q] = h.s.arp[q]
      /\ r.s.chains = h.s.chains /\ r.s.rhost = rhost
      /\ r.s.view = [h.s.view EXCEPT ![from] = "down"]
  BY <1>3, ArpRemoveOK
<1>5. Disconnected(h, from, about) = r
  BY DEF Disconnected, told, asked
<1> HIDE DEF r
<1>6. RHostOK(r.s)
  BY <1>1, <1>4 DEF NodeOK, RHostOK
<1>7. ChildrenOK(n, r.s) /\ AskedOK(r.s)
  BY <1>4 DEF NodeOK, ChildrenOK, AskedOK
<1>8. EventsOK(n, r.s)
  <2> SUFFICES ASSUME n # RHost, Named = {}, NEW p \in Node
               PROVE  r.s.view[p] = "up" <=> p \in DOMAIN r.s.arp /\ r.s.arp[p].typed
    BY DEF EventsOK
  <2>1. h.s.view[p] = "up" <=> p \in DOMAIN h.s.arp /\ h.s.arp[p].typed
    BY DEF NodeOK, EventsOK
  <2>2. name = from
    BY <1>1
  <2>3. h.s.view \in [Node -> {"none", "up", "down"}]
    BY StateFields
  <2> QED
    BY <1>4, <2>1, <2>2, <2>3
<1> QED
  BY <1>4, <1>5, <1>6, <1>7, <1>8 DEF NodeOK

\* ksnCoreCheckNewPeer: a new entry has a queued peer_type_cb and its id, and
\* the peer that becomes the r-host is in the table.
LEMMA CheckNewPeerOK ==
    ASSUME NEW n \in Node, NEW h \in Handler(n), NodeOK(n, h.s), NEW p \in Node, NEW cmd, NEW arg,
           cmd = "CONNECT_R" => n = RHost,
           cmd = "NONE" /\ arg = RHost => p = RHost
    PROVE  LET r == CheckNewPeer(h, n, p, cmd, arg) IN
           r \in Handler(n) /\ NodeOK(n, r.s) /\ p \in Peers(r)
<1> DEFINE isRHost == h.s.rhost = None /\ n # RHost /\ p = RHost
           typed == cmd = "CONNECT_R"
           entry == [mode |-> IF isRHost THEN 1 ELSE 0, typed |-> typed, asked |-> TRUE]
           arp == WithEntry(h.s.arp, p, entry)
           rhost == IF isRHost THEN p ELSE h.s.rhost
           chains == [h.s.chains EXCEPT ![p] = @ + 1]
           t == [h.s EXCEPT !.arp = arp, !.rhost = rhost, !.chains = chains]
           added == [h EXCEPT !.s.arp = WithEntry(@, p, entry),
                              !.s.rhost = IF isRHost THEN p ELSE @,
                              !.s.chains[p] = @ + 1]
           asking == Sendto(added, p, "HOST_INFO", None)
           telling == SendConnectB(asking, p)
           r == CheckNewPeer(h, n, p, cmd, arg)
<1>1. h.s \in NodeState /\ None \notin Node /\ RHost \in Node /\ IsFiniteSet(Node)
  BY MeshAssumption DEF Handler
<1>2. CASE p \notin Peers(h)
  <2>1. entry \in Entry /\ entry.mode # 2 /\ entry.asked /\ entry.typed = typed
    <3>1. typed \in BOOLEAN
      OBVIOUS
    <3> HIDE DEF typed
    <3> QED
      BY <3>1 DEF Entry
  <2>2. /\ arp \in ArpTable
        /\ DOMAIN arp = DOMAIN h.s.arp \cup {p}
        /\ arp[p] = entry
        /\ \A q \in DOMAIN h.s.arp : q # p => arp[q] = h.s.arp[q]
    <3> HIDE DEF entry
    <3>1. h.s.arp \in ArpTable
      BY StateFields
    <3> QED
      <4>1. arp = WithEntry(h.s.arp, p, entry)
        BY DEF arp
      <4> HIDE DEF arp
      <4> QED
        BY ONLY <2>1, <3>1, <4>1, p \in Node, WithEntryType
  <2>3. chains \in [Node -> Nat] /\ rhost \in Node \cup {None}
    BY StateFields
  <2>4. added = [h EXCEPT !.s = t]
    <3> DEFINE c == h.s.chains[p] + 1
               d == [h EXCEPT !.s.arp = arp, !.s.rhost = rhost, !.s.chains[p] = c]
               u == [h.s EXCEPT !.arp = arp, !.rhost = rhost,
                                !.chains = [h.s.chains EXCEPT ![p] = c]]
    <3>1. added = d
      OBVIOUS
    <3>2. t = u
      OBVIOUS
    <3> HIDE DEF added, t, arp, rhost, c
    <3>3. d = [h EXCEPT !.s = u]
      BY <1>1 DEF NodeState, Handler
    <3> HIDE DEF d, u
    <3> QED
      BY <3>1, <3>2, <3>3
  <2>13. /\ t \in NodeState
         /\ t.arp = arp /\ t.rhost = rhost /\ t.chains = chains /\ t.view = h.s.view
    <3> HIDE DEF arp, chains, rhost
    <3> QED
      BY <1>1, <2>2, <2>3 DEF NodeState
  <2>5. Msg("HOST_INFO", None) \in Sendable(n) /\ ~Datagram("HOST_INFO")
    BY DEF Msg, Sendable, Message, Datagram
  <2>6. NodeOK(n, t)
    <3> HIDE DEF t, entry, arp
    <3> USE <1>1, <2>1, <2>2, <2>13
    <3>1. RHostOK(t)
      BY DEF NodeOK, RHostOK
    <3>2. ChildrenOK(n, t)
      BY DEF NodeOK, ChildrenOK
    <3>3. AskedOK(t)
      <4>1. h.s.chains \in [Node -> Nat]
        BY StateFields
      <4> QED
        BY <4>1 DEF NodeOK, AskedOK
    <3>4. EventsOK(n, t)
      BY <1>2 DEF NodeOK, EventsOK, Peers
    <3> QED
      BY <3>1, <3>2, <3>3, <3>4 DEF NodeOK
  <2> HIDE DEF t, entry, arp, added
  <2>7. added \in Handler(n) /\ added.s = t
    BY <2>13, <2>4, StateChange
  <2>8. asking \in Handler(n) /\ asking.s = t
    BY <2>5, <2>7, SendtoOK
  <2> HIDE DEF asking
  <2>9. telling \in Handler(n) /\ telling.s = t
    BY <1>1, <2>8, SendConnectBOK
  <2> HIDE DEF telling
  <2>10. SendConnect(telling, p) \in Handler(n) /\ SendConnect(telling, p).s = t
    BY <2>9, SendConnectOK
  <2>11. r = IF isRHost THEN SendConnect(telling, p) ELSE asking
    BY <1>2 DEF CheckNewPeer, telling, asking, added, entry, arp
  <2>12. p \in DOMAIN t.arp
    BY <2>2, <2>13
    <2> QED
    BY <2>6, <2>8, <2>10, <2>11, <2>12 DEF Peers
<1>3. CASE p \in Peers(h) /\ cmd = "NONE" /\ arg = RHost
  <2> DEFINE e == [h.s.arp[p] EXCEPT !.mode = 1]
             u == [h.s EXCEPT !.rhost = p, !.arp[p].mode = 1]
  <2>1. h.s.arp \in ArpTable /\ p \in DOMAIN h.s.arp /\ h.s.arp[p] \in Entry
    BY <1>3, StateFields, ArpType DEF Peers
  <2>2. e \in Entry /\ e.mode = 1 /\ e.typed = h.s.arp[p].typed /\ e.asked = h.s.arp[p].asked
    BY <2>1 DEF Entry
  <2> HIDE DEF e
  <2>3. /\ [h.s.arp EXCEPT ![p] = e] \in ArpTable
        /\ DOMAIN [h.s.arp EXCEPT ![p] = e] = DOMAIN h.s.arp
        /\ [h.s.arp EXCEPT ![p] = e][p] = e
        /\ \A q \in DOMAIN h.s.arp : q # p => [h.s.arp EXCEPT ![p] = e][q] = h.s.arp[q]
    BY <2>1, <2>2, ChangeType
  <2>4. u = [h.s EXCEPT !.rhost = p, !.arp = [h.s.arp EXCEPT ![p] = e]]
    BY DEF e
  <2> HIDE DEF u
  <2>5. /\ u \in NodeState
        /\ u.arp = [h.s.arp EXCEPT ![p] = e]
        /\ u.rhost = p /\ u.chains = h.s.chains /\ u.view = h.s.view
    BY <1>1, <2>3, <2>4 DEF NodeState
  <2>6. r = [h EXCEPT !.s = u]
    BY <1>3 DEF CheckNewPeer, u
  <2>7. r \in Handler(n) /\ r.s = u
    <3> HIDE DEF r
    <3> QED
      BY <2>5, <2>6, StateChange
  <2>8. NodeOK(n, u)
    <3> USE <1>1, <1>3, <2>1, <2>2, <2>3, <2>5
    <3>1. RHostOK(u)
      BY DEF NodeOK, RHostOK
    <3>2. ChildrenOK(n, u)
      BY DEF NodeOK, ChildrenOK
    <3>3. AskedOK(u)
      BY DEF NodeOK, AskedOK
    <3>4. EventsOK(n, u)
      BY DEF NodeOK, EventsOK
    <3> QED
      BY <3>1, <3>2, <3>3, <3>4 DEF NodeOK
  <2> QED
    BY <2>1, <2>3, <2>5, <2>7, <2>8 DEF Peers
<1>4. CASE p \in Peers(h) /\ ~(cmd = "NONE" /\ arg = RHost)
  BY <1>4 DEF CheckNewPeer
<1> QED
  BY <1>2, <1>3, <1>4

\* cmd_connect_r_cb at the r-host, for a child that CheckNewPeer put there.
LEMMA ConnectROK ==
    ASSUME NEW h \in Handler(RHost), NodeOK(RHost, h.s), NEW p \in Peers(h),
           NEW tcp, tcp => p \in MayTcp
    PROVE  LET r == ConnectR(h, p, tcp) IN r \in Handler(RHost) /\ NodeOK(RHost, r.s)
<1> DEFINE answered == SendCmdto(h, p, "NONE", RHost)
           a == answered.s
           e == [a.arp[p] EXCEPT !.mode = 2]
           u == [a EXCEPT !.arp[p].mode = 2, !.view[p] = "up"]
           child == [answered EXCEPT !.s.arp[p].mode = 2, !.s.view[p] = "up"]
           telling == SendConnect(answered, p)
<1>1. h.s \in NodeState /\ RHost \in Node /\ p \in Node /\ IsFiniteSet(Node)
  BY MeshAssumption, KnownIsNode DEF Handler
<1>2. Msg("NONE", RHost) \in Sendable(RHost) /\ ~Datagram("NONE")
  BY DEF Msg, Sendable, Message, Datagram
<1>3. answered \in Handler(RHost) /\ answered.s = h.s
  BY <1>2, SendCmdtoOK
<1>4. CASE tcp
  <2>1. a = h.s /\ h.s.arp \in ArpTable /\ p \in DOMAIN h.s.arp /\ h.s.arp[p] \in Entry
    BY <1>3, StateFields, ArpType DEF Peers
  <2>2. child = [answered EXCEPT !.s = u]
    OBVIOUS
  <2> HIDE DEF answered
  <2>3. e \in Entry /\ e.mode = 2 /\ e.typed = h.s.arp[p].typed /\ e.asked = h.s.arp[p].asked
    BY <2>1 DEF Entry
  <2>4. u = [a EXCEPT !.arp = [a.arp EXCEPT ![p] = e], !.view[p] = "up"]
    OBVIOUS
  <2> HIDE DEF e, u, a, child
  <2>5. /\ [h.s.arp EXCEPT ![p] = e] \in ArpTable
        /\ DOMAIN [h.s.arp EXCEPT ![p] = e] = DOMAIN h.s.arp
        /\ [h.s.arp EXCEPT ![p] = e][p] = e
        /\ \A q \in DOMAIN h.s.arp : q # p => [h.s.arp EXCEPT ![p] = e][q] = h.s.arp[q]
    BY <2>1, <2>3, ChangeType
  <2>6. /\ u \in NodeState
        /\ u.arp = [h.s.arp EXCEPT ![p] = e]
        /\ u.rhost = h.s.rhost /\ u.chains = h.s.chains
    BY <1>1, <2>1, <2>4, <2>5 DEF NodeState
  <2>7. child \in Handler(RHost) /\ child.s = u
    BY <1>3, <2>2, <2>6, StateChange
  <2>8. SendConnect(child, p) \in Handler(RHost) /\ SendConnect(child, p).s = u
    BY <1>1, <2>7, SendConnectOK
  <2>9. NodeOK(RHost, u)
    <3> USE <1>1, <1>4, <2>1, <2>3, <2>5, <2>6
    <3>1. RHostOK(u)
      BY DEF NodeOK, RHostOK
    <3>2. ChildrenOK(RHost, u)
      BY DEF NodeOK, ChildrenOK
    <3>3. AskedOK(u)
      BY DEF NodeOK, AskedOK
    <3> QED
      BY <3>1, <3>2, <3>3 DEF NodeOK, EventsOK
  <2>10. ConnectR(h, p, tcp) = SendConnect(child, p)
    BY <1>4 DEF ConnectR, child, answered
  <2> QED
    BY <2>8, <2>9, <2>10
<1>5. CASE ~tcp
  <2> HIDE DEF answered
  <2>1. telling \in Handler(RHost) /\ telling.s = h.s
    BY <1>1, <1>3, SendConnectOK
  <2> HIDE DEF telling
  <2>2. SendConnectB(telling, p) \in Handler(RHost) /\ SendConnectB(telling, p).s = h.s
    BY <1>1, <2>1, SendConnectBOK
  <2>3. ConnectR(h, p, tcp) = SendConnectB(telling, p)
    BY <1>5 DEF ConnectR, telling, answered
  <2> QED
    BY <2>2, <2>3
<1> QED
  BY <1>4, <1>5

\* NodeOK is about the table, r_host_name, the queued calls and the events.
LEMMA NodeOKSame ==
    ASSUME NEW n, NEW s, NEW t, NodeOK(n, s),
           t.arp = s.arp, t.rhost = s.rhost, t.chains = s.chains, t.view = s.view
    PROVE  NodeOK(n, t)
BY DEF NodeOK, RHostOK, ChildrenOK, AskedOK, EventsOK

\* cmd_connect_cb.
LEMMA ConnectOK ==
    ASSUME NEW n \in Node, NEW h \in Handler(n), NodeOK(n, h.s), NEW q \in Node
    PROVE  LET r == Connect(h, q) IN r \in Handler(n) /\ NodeOK(n, r.s)
<1> DEFINE t == [h.s EXCEPT !.wait = @ \cup {q}]
           waiting == [h EXCEPT !.s.wait = @ \cup {q}]
<1>1. /\ t \in NodeState
      /\ t.arp = h.s.arp /\ t.rhost = h.s.rhost
      /\ t.chains = h.s.chains /\ t.view = h.s.view
  <2>1. h.s \in NodeState
    BY DEF Handler
  <2> QED
    BY <2>1 DEF NodeState
<1>2. waiting = [h EXCEPT !.s = t]
  OBVIOUS
<1> HIDE DEF t, waiting
<1>3. waiting \in Handler(n) /\ waiting.s = t
  BY <1>1, <1>2, StateChange
<1>4. NodeOK(n, t)
  BY <1>1, NodeOKSame
<1>5. Msg("NONE", None) \in Sendable(n) /\ ~Datagram("NONE")
  BY MeshAssumption DEF Msg, Sendable, Message, Datagram
<1>6. Sendto(waiting, q, "NONE", None) \in Handler(n)
      /\ Sendto(waiting, q, "NONE", None).s = t
  BY <1>3, <1>5, SendtoOK
<1> QED
  BY <1>3, <1>4, <1>6 DEF Connect, waiting

\* cmd_host_info_answer_cb: the request that is ended is the entry's own, and
\* the event goes with the type.
LEMMA HostInfoAnswerOK ==
    ASSUME NEW n \in Node, NEW h \in Handler(n), NodeOK(n, h.s), NEW p \in Peers(h)
    PROVE  LET r == HostInfoAnswer(h, p) IN r \in Handler(n) /\ NodeOK(n, r.s)
<1> DEFINE e == h.s.arp[p]
           ended == IF e.asked
                    THEN [h EXCEPT !.s.chains[p] = @ - 1, !.s.arp[p].asked = FALSE] ELSE h
           r == HostInfoAnswer(h, p)
<1>1. h.s \in NodeState /\ p \in Node /\ h.s.arp \in ArpTable /\ p \in DOMAIN h.s.arp
      /\ e \in Entry /\ h.s.chains \in [Node -> Nat]
  BY StateFields, KnownIsNode, ArpType DEF Handler, Peers
<1> DEFINE f == [e EXCEPT !.asked = FALSE]
           A == [h.s.arp EXCEPT ![p] = f]
           C == [h.s.chains EXCEPT ![p] = @ - 1]
<1>2. f \in Entry /\ f.mode = e.mode /\ f.typed = e.typed /\ f.asked = FALSE
  BY <1>1 DEF Entry
<1>3. /\ A \in ArpTable /\ DOMAIN A = DOMAIN h.s.arp /\ A[p] = f
      /\ \A q \in DOMAIN h.s.arp : q # p => A[q] = h.s.arp[q]
  <2> HIDE DEF f
  <2> QED
    BY <1>1, <1>2, ChangeType
<1>4. e.asked => C \in [Node -> Nat]
  BY <1>1 DEF NodeOK, AskedOK
<1>5. /\ ended \in Handler(n)
      /\ ended.s.rhost = h.s.rhost /\ ended.s.view = h.s.view
      /\ ended.s.arp = IF e.asked THEN A ELSE h.s.arp
      /\ ended.s.chains = IF e.asked THEN C ELSE h.s.chains
  <2>1. CASE e.asked
    <3> DEFINE t == [h.s EXCEPT !.arp = A, !.chains = C]
    <3>1. ended = [h EXCEPT !.s = t]
      <4> DEFINE d == [h EXCEPT !.s.chains[p] = h.s.chains[p] - 1, !.s.arp[p].asked = FALSE]
      <4>1. ended = d
        BY <2>1
      <4> HIDE DEF ended
      <4>2. d = [h EXCEPT !.s = t]
        BY <1>1 DEF NodeState, Handler
      <4> HIDE DEF d, t
      <4> QED
        BY <4>1, <4>2
    <3> HIDE DEF ended, A, C
    <3>2. t \in NodeState /\ t.arp = A /\ t.chains = C /\ t.rhost = h.s.rhost
          /\ t.view = h.s.view
      BY <1>1, <1>3, <1>4, <2>1 DEF NodeState
    <3> HIDE DEF t
    <3> QED
      BY <2>1, <3>1, <3>2, StateChange
  <2>2. CASE ~e.asked
    BY <2>2
  <2> QED
    BY <2>1, <2>2
<1> DEFINE g == [ended.s.arp[p] EXCEPT !.typed = TRUE]
           B == [ended.s.arp EXCEPT ![p] = g]
           V == [h.s.view EXCEPT ![p] = "up"]
           u == [ended.s EXCEPT !.arp = B, !.view = V]
           typed == [ended EXCEPT !.s.arp[p].typed = TRUE, !.s.view[p] = "up"]
<1>6. r = IF e.typed THEN ended ELSE typed
  BY DEF HostInfoAnswer
<1>7. typed = [ended EXCEPT !.s = u]
  <2>1. ended.s.view = h.s.view
    BY <1>5
  <2> HIDE DEF ended
  <2>2. u = [ended.s EXCEPT !.arp[p].typed = TRUE, !.view[p] = "up"]
    BY <2>1
  <2> HIDE DEF u
  <2> QED
    BY <2>2
<1> HIDE DEF ended, A, C, f, typed, r
<1>8. ended.s.arp \in ArpTable /\ p \in DOMAIN ended.s.arp /\ ended.s.arp[p] \in Entry
      /\ ended.s \in NodeState
  BY <1>1, <1>3, <1>5, ArpType DEF Handler
<1>9. g \in Entry /\ g.mode = ended.s.arp[p].mode /\ g.typed = TRUE
      /\ g.asked = ended.s.arp[p].asked
  BY <1>8 DEF Entry
<1>10. /\ B \in ArpTable /\ DOMAIN B = DOMAIN ended.s.arp /\ B[p] = g
       /\ \A q \in DOMAIN ended.s.arp : q # p => B[q] = ended.s.arp[q]
  <2> HIDE DEF g
  <2> QED
    BY <1>8, <1>9, ChangeType
<1>11. V \in [Node -> {"none", "up", "down"}]
  BY StateFields
<1>12. /\ u \in NodeState
       /\ u.arp = B /\ u.view = V /\ u.rhost = ended.s.rhost /\ u.chains = ended.s.chains
  <2> HIDE DEF B, V
  <2> QED
    BY <1>8, <1>10, <1>11 DEF NodeState
<1> HIDE DEF u
<1>13. typed \in Handler(n) /\ typed.s = u
  BY <1>5, <1>7, <1>12, StateChange
<1> HIDE DEF g, B
<1>14. r \in Handler(n)
  BY <1>5, <1>6, <1>13
<1>15. /\ RHostOK(h.s) /\ ChildrenOK(n, h.s) /\ AskedOK(h.s) /\ EventsOK(n, h.s)
  BY DEF NodeOK
<1>16. RHostOK(r.s)
  BY <1>3, <1>5, <1>6, <1>10, <1>12, <1>13, <1>15 DEF RHostOK
<1>17. ChildrenOK(n, r.s)
  <2>1. ChildrenOK(n, ended.s)
    BY <1>2, <1>3, <1>5, <1>15 DEF ChildrenOK
  <2>2. ChildrenOK(n, u)
    BY <2>1, <1>8, <1>9, <1>10, <1>12 DEF ChildrenOK
  <2> QED
    BY <2>1, <2>2, <1>6, <1>13
<1>18. \A q \in DOMAIN ended.s.arp : ended.s.arp[q].asked => ended.s.chains[q] > 0
  <2> SUFFICES ASSUME NEW q \in DOMAIN ended.s.arp, ended.s.arp[q].asked
               PROVE  ended.s.chains[q] > 0
    OBVIOUS
  <2>1. q \in DOMAIN h.s.arp /\ q \in Node
    BY <1>1, <1>3, <1>5, ArpType
  <2>2. h.s.arp[q].asked => h.s.chains[q] > 0
    BY <2>1, <1>15 DEF AskedOK
  <2>3. CASE q = p
    BY <2>2, <2>3, <1>2, <1>3, <1>5
  <2>4. CASE q # p
    BY <2>1, <2>2, <2>4, <1>1, <1>3, <1>5 DEF C
  <2> QED
    BY <2>3, <2>4
<1>19. AskedOK(r.s)
  <2>1. CASE e.typed
    BY <2>1, <1>2, <1>3, <1>5, <1>6, <1>15, <1>18 DEF AskedOK
  <2>2. CASE ~e.typed
    BY <2>2, <1>3, <1>5, <1>6, <1>9, <1>10, <1>12, <1>13, <1>15, <1>18 DEF AskedOK
  <2> QED
    BY <2>1, <2>2
<1>20. EventsOK(n, r.s)
  <2>1. CASE e.typed
    BY <2>1, <1>2, <1>3, <1>5, <1>6, <1>15 DEF EventsOK
  <2>2. CASE ~e.typed
    <3>1. h.s.view \in [Node -> {"none", "up", "down"}]
      BY StateFields
    <3> QED
      BY <2>2, <3>1, <1>1, <1>2, <1>3, <1>5, <1>6, <1>9, <1>10, <1>12, <1>13, <1>15
         DEF EventsOK, V
  <2> QED
    BY <2>1, <2>2
<1> QED
  BY <1>14, <1>16, <1>17, <1>19, <1>20 DEF NodeOK, r

\* ksnReconnectProcess and ksnReconnectProcessAnswer.
LEMMA ReconnectOK ==
    ASSUME NEW n \in Node, NEW h \in Handler(n), NodeOK(n, h.s), NEW p \in Node, NEW q \in Node
    PROVE  LET r == Reconnect(h, p, q) IN r \in Handler(n) /\ NodeOK(n, r.s)
<1> DEFINE told == SendCmdto(h, p, "CONNECT", q)
           both == SendCmdto(told, q, "CONNECT", p)
           no == SendCmdto(h, p, "RECONNECT_ANSWER", q)
<1>1. /\ Msg("CONNECT", p) \in Sendable(n) /\ Msg("CONNECT", q) \in Sendable(n)
      /\ Msg("RECONNECT_ANSWER", q) \in Sendable(n)
      /\ ~Datagram("CONNECT") /\ ~Datagram("RECONNECT_ANSWER")
  BY DEF Msg, Sendable, Message, Datagram
<1>2. told \in Handler(n) /\ told.s = h.s /\ no \in Handler(n) /\ no.s = h.s
  BY <1>1, SendCmdtoOK
<1> HIDE DEF told
<1>3. both \in Handler(n) /\ both.s = h.s
  BY <1>1, <1>2, SendCmdtoOK
<1> QED
  BY <1>2, <1>3 DEF Reconnect, told

LEMMA ReconnectAnswerOK ==
    ASSUME NEW n \in Node, NEW h \in Handler(n), NodeOK(n, h.s), NEW q
    PROVE  LET r == ReconnectAnswer(h, q) IN r \in Handler(n) /\ NodeOK(n, r.s)
<1> DEFINE t == [h.s EXCEPT !.recon = @ \ {q}]
           r == ReconnectAnswer(h, q)
<1>1. /\ t \in NodeState
      /\ t.arp = h.s.arp /\ t.rhost = h.s.rhost
      /\ t.chains = h.s.chains /\ t.view = h.s.view
  <2>1. h.s \in NodeState
    BY DEF Handler
  <2> QED
    BY <2>1 DEF NodeState
<1>2. r = [h EXCEPT !.s = t]
  BY DEF ReconnectAnswer
<1>3. NodeOK(n, t)
  <2> HIDE DEF t
  <2> QED
    BY <1>1, NodeOKSame
<1>4. r \in Handler(n) /\ r.s = t
  <2> HIDE DEF t, r
  <2> QED
    BY <1>1, <1>2, StateChange
<1> QED
  BY <1>3, <1>4

\* What n may receive from p.
Received(n, p, cmd, arg) ==
    /\ \/ Msg(cmd, arg) \in Message
       \/ Datagram(cmd)
    /\ cmd = "CONNECT_R" => n = RHost
    /\ cmd = "NONE" /\ arg = RHost => p = RHost
    /\ cmd = "DISCONNECTED" => arg \in Named \cup {None}

\* ksnCommandCheck, after CheckNewPeer.
LEMMA ProcessOK ==
    ASSUME NEW n \in Node, NEW h \in Handler(n), NodeOK(n, h.s), NEW p \in Peers(h),
           NEW cmd, NEW arg, Received(n, p, cmd, arg), byTcp \subseteq MayTcp
    PROVE  LET r == Process(h, p, cmd, arg) IN r \in Handler(n) /\ NodeOK(n, r.s)
<1>1. p \in Node
  BY KnownIsNode
<1>2. cmd \in {"CONNECT", "RECONNECT", "RECONNECT_ANSWER"} => arg \in Node
  BY DEF Received, Message, Msg, Datagram
<1>3. /\ Msg("ECHO_ANSWER", None) \in Sendable(n) /\ ~Datagram("ECHO_ANSWER")
      /\ Msg("HOST_INFO_ANSWER", None) \in Sendable(n) /\ ~Datagram("HOST_INFO_ANSWER")
  BY DEF Msg, Sendable, Message, Datagram
<1>4. CASE cmd \in {"NONE", "ECHO_ANSWER"}
  BY <1>4 DEF Process
<1>5. CASE cmd = "ECHO"
  BY <1>1, <1>3, <1>5, SendtoOK DEF Process
<1>6. CASE cmd = "HOST_INFO"
  BY <1>1, <1>3, <1>6, SendtoOK DEF Process
<1>7. CASE cmd = "HOST_INFO_ANSWER"
  <2>1. Process(h, p, cmd, arg) = HostInfoAnswer(h, p)
    BY <1>7 DEF Process
  <2> QED
    BY <2>1, HostInfoAnswerOK
<1>8. CASE cmd = "CONNECT_R"
  <2>1. Process(h, p, cmd, arg) = ConnectR(h, p, p \in byTcp)
    BY <1>8 DEF Process
  <2>2. n = RHost
    BY <1>8 DEF Received
  <2>3. p \in byTcp => p \in MayTcp
    OBVIOUS
  <2> QED
    BY <2>1, <2>2, <2>3, ConnectROK
<1>9. CASE cmd = "CONNECT"
  <2>1. Process(h, p, cmd, arg) = Connect(h, arg)
    BY <1>9 DEF Process
  <2> QED
    BY <1>2, <1>9, <2>1, ConnectOK
<1>10. CASE cmd = "DISCONNECTED"
  <2>1. Process(h, p, cmd, arg) = Disconnected(h, p, arg)
    BY <1>10 DEF Process
  <2>2. arg \in Named \cup {None}
    BY <1>10 DEF Received
  <2> QED
    BY <1>1, <2>1, <2>2, DisconnectedOK
<1>11. CASE cmd = "RECONNECT"
  <2>1. Process(h, p, cmd, arg) = Reconnect(h, p, arg)
    BY <1>11 DEF Process
  <2> QED
    BY <1>1, <1>2, <1>11, <2>1, ReconnectOK
<1>12. CASE cmd = "RECONNECT_ANSWER"
  <2>1. Process(h, p, cmd, arg) = ReconnectAnswer(h, arg)
    BY <1>12 DEF Process
  <2> QED
    BY <2>1, ReconnectAnswerOK
<1>13. cmd \in {"NONE", "ECHO", "ECHO_ANSWER", "HOST_INFO", "HOST_INFO_ANSWER", "CONNECT",
               "RECONNECT", "RECONNECT_ANSWER", "CONNECT_R", "DISCONNECTED"}
  BY DEF Received, Message, Msg, Datagram
<1> QED
  BY <1>4, <1>5, <1>6, <1>7, <1>8, <1>9, <1>10, <1>11, <1>12, <1>13

LEMMA StartOK ==
    ASSUME IInv, NEW n \in Node
    PROVE  Start(n) \in Handler(n) /\ Start(n).s = node[n] /\ NodeOK(n, node[n])
<1>1. node[n] \in NodeState /\ NodeOK(n, node[n])
  BY DEF IInv, TypeOK
<1>2. <<>> \in Seq(Sendable(n))
  OBVIOUS
<1> QED
  BY <1>1, <1>2 DEF Start, Handler

\* ksnCoreProcessPacket.
LEMMA PacketOK ==
    ASSUME IInv, NEW n \in Node, NEW p \in Node, NEW cmd, NEW arg, Received(n, p, cmd, arg)
    PROVE  LET r == Packet(n, p, cmd, arg) IN r \in Handler(n) /\ NodeOK(n, r.s)
<1> DEFINE g == CheckNewPeer(Start(n), n, p, cmd, arg)
<1>1. Start(n) \in Handler(n) /\ NodeOK(n, Start(n).s)
  BY StartOK
<1>2. g \in Handler(n) /\ NodeOK(n, g.s) /\ p \in Peers(g)
  BY <1>1, CheckNewPeerOK DEF Received
<1>3. byTcp \subseteq MayTcp
  BY DEF IInv, TypeOK
<1> HIDE DEF g
<1>4. Process(g, p, cmd, arg) \in Handler(n) /\ NodeOK(n, Process(g, p, cmd, arg).s)
  BY <1>2, <1>3, ProcessOK
<1> QED
  BY <1>4 DEF Packet, g
-----------------------------------------------------------------------------
(* The steps of the system.                                                *)

ChanOK(c) ==
    /\ c \in [Node -> [Node -> Seq(Message)]]
    /\ \A n \in Node : c[n] \in [Node -> Seq(Sendable(n))]

LEMMA SendableIsMessage ==
    ASSUME NEW n
    PROVE  Seq(Sendable(n)) \subseteq Seq(Message)
<1>1. Sendable(n) \subseteq Message
  BY DEF Sendable
<1> QED
  BY <1>1

LEMMA QueueOK ==
    ASSUME IInv, NEW n \in Node, NEW h \in Handler(n), NEW c, ChanOK(c)
    PROVE  ChanOK([c EXCEPT ![n] = [p \in Node |-> Queue(n, h, p)]])
<1> DEFINE d == [c EXCEPT ![n] = [p \in Node |-> Queue(n, h, p)]]
<1>1. \A p \in Node : Queue(n, h, p) \in Seq(Sendable(n))
  <2> SUFFICES ASSUME NEW p \in Node PROVE Queue(n, h, p) \in Seq(Sendable(n))
    OBVIOUS
  <2>1. h.out[p] \in Seq(Sendable(n))
    BY StateFields
  <2>2. chan[n][p] \in Seq(Sendable(n))
    BY DEF IInv
  <2>3. chan[n][p] \o h.out[p] \in Seq(Sendable(n)) /\ <<>> \o h.out[p] \in Seq(Sendable(n))
    BY <2>1, <2>2, ConcatProperties, <<>> \in Seq(Sendable(n))
  <2> QED
    BY <2>3 DEF Queue
<1>2. [p \in Node |-> Queue(n, h, p)] \in [Node -> Seq(Sendable(n))]
  BY <1>1
<1>3. [p \in Node |-> Queue(n, h, p)] \in [Node -> Seq(Message)]
  BY <1>1, SendableIsMessage
<1> HIDE DEF Queue
<1> QED
  BY <1>2, <1>3 DEF ChanOK

LEMMA UdpTypes ==
    IInv => \A m \in udp : /\ m \in [from : Node, to : Node, cmd : {"CONNECT_R", "DISCONNECTED"},
                                     arg : Node \cup {None}]
                           /\ Received(m.to, m.from, m.cmd, m.arg)
<1> SUFFICES ASSUME IInv, NEW m \in udp
             PROVE  /\ m \in [from : Node, to : Node, cmd : {"CONNECT_R", "DISCONNECTED"},
                              arg : Node \cup {None}]
                    /\ Received(m.to, m.from, m.cmd, m.arg)
  OBVIOUS
<1>1. m \in [from : Node, to : Node, cmd : {"CONNECT_R", "DISCONNECTED"}, arg : Node \cup {None}]
  BY DEF IInv, TypeOK
<1>2. [to |-> m.to, cmd |-> m.cmd, arg |-> m.arg] \in Gram
  BY DEF IInv, UdpOK
<1>3. (m.cmd = "CONNECT_R" => m.to = RHost) /\ (m.cmd = "DISCONNECTED" => m.arg \in Named \cup {None})
  BY <1>2 DEF Gram
<1> QED
  BY <1>1, <1>3 DEF Received, Datagram

LEMMA DatagramsOK ==
    ASSUME IInv, NEW n \in Node, NEW h \in Handler(n)
    PROVE  \A m \in udp \cup Datagrams(n, h) :
               /\ m \in [from : Node, to : up, cmd : {"CONNECT_R", "DISCONNECTED"},
                         arg : Node \cup {None}]
               /\ [to |-> m.to, cmd |-> m.cmd, arg |-> m.arg] \in Gram
<1>1. \A m \in udp : /\ m \in [from : Node, to : up, cmd : {"CONNECT_R", "DISCONNECTED"},
                               arg : Node \cup {None}]
                     /\ [to |-> m.to, cmd |-> m.cmd, arg |-> m.arg] \in Gram
  BY DEF IInv, TypeOK, UdpOK
<1>2. h.udp \subseteq Gram
  BY StateFields
<1>3. Named \subseteq Node /\ RHost \in Node
  BY MeshAssumption DEF Named
<1>4. ASSUME NEW d \in h.udp, d.to \in up
      PROVE  LET m == [from |-> n, to |-> d.to, cmd |-> d.cmd, arg |-> d.arg] IN
             /\ m \in [from : Node, to : up, cmd : {"CONNECT_R", "DISCONNECTED"},
                       arg : Node \cup {None}]
             /\ [to |-> m.to, cmd |-> m.cmd, arg |-> m.arg] \in Gram
  BY <1>2, <1>3, <1>4 DEF Gram
<1> QED
  BY <1>1, <1>4 DEF Datagrams

\* A handler of n commits.
LEMMA CommitOK ==
    ASSUME IInv, NEW n \in Node, NEW h \in Handler(n), NodeOK(n, h.s),
           node' = [node EXCEPT ![n] = h.s], ChanOK(chan'),
           udp' \subseteq udp \cup Datagrams(n, h),
           byTcp' = byTcp, up' = up, reset' \in [Node -> SUBSET Node],
           lapses' \in 0..MaxLapses, stops' \in 0..MaxStops
    PROVE  IInv'
<1>1. h.s \in NodeState
  BY DEF Handler
<1>2. node' \in [Node -> NodeState] /\ \A p \in Node : NodeOK(p, node'[p])
  BY <1>1 DEF IInv, TypeOK
<1>3. \A m \in udp' :
               /\ m \in [from : Node, to : up, cmd : {"CONNECT_R", "DISCONNECTED"},
                         arg : Node \cup {None}]
               /\ [to |-> m.to, cmd |-> m.cmd, arg |-> m.arg] \in Gram
  BY DatagramsOK
<1>4. TypeOK'
  BY <1>2, <1>3 DEF IInv, TypeOK, ChanOK
<1>5. UdpOK'
  BY <1>3 DEF UdpOK
<1> QED
  BY <1>2, <1>4, <1>5 DEF IInv, ChanOK

LEMMA ResetOK ==
    ASSUME IInv, NEW n \in Node, NEW h
    PROVE  ResetAfterCut(n, h) \in [Node -> SUBSET Node]
<1>1. \A p \in Node : reset[p] \in SUBSET Node
  BY DEF IInv, TypeOK
<1>2. \A p \in Node : (IF p = n THEN reset[n] \ h.cut
                      ELSE IF p \in h.cut /\ Knows(p, n) THEN reset[p] \cup {n}
                      ELSE reset[p]) \in SUBSET Node
  BY <1>1
<1> QED
  BY <1>2 DEF ResetAfterCut

\* An action that ends with Commit, perhaps after a cut.
LEMMA CommitStep ==
    ASSUME IInv, NEW n \in Node, NEW h \in Handler(n), NodeOK(n, h.s), Commit(n, h),
           reset' = reset \/ reset' = ResetAfterCut(n, h)
                          \/ \E p \in Node : reset' = [reset EXCEPT ![n] = @ \ {p}],
           byTcp' = byTcp, up' = up, lapses' \in 0..MaxLapses, stops' = stops
    PROVE  IInv'
<1>1. ChanOK(chan)
  BY DEF IInv, TypeOK, ChanOK
<1>2. ChanOK(chan')
  BY <1>1, QueueOK DEF Commit
<1>3. reset' \in [Node -> SUBSET Node]
  <2>1. CASE reset' = ResetAfterCut(n, h)
    BY <2>1, ResetOK
  <2>2. CASE reset' = reset \/ \E p \in Node : reset' = [reset EXCEPT ![n] = @ \ {p}]
    BY <2>2 DEF IInv, TypeOK
  <2> QED
    BY <2>1, <2>2
<1>4. stops' \in 0..MaxStops
  BY DEF IInv, TypeOK
<1> QED
  BY <1>2, <1>3, <1>4, CommitOK DEF Commit

LEMMA OutageOK ==
    ASSUME IInv, NEW p, Outage(p)
    PROVE  lapses' \in 0..MaxLapses
BY MeshAssumption DEF IInv, TypeOK, Outage, MayLapse

LEMMA FreshOK ==
    ASSUME NEW n \in Node
    PROVE  Fresh \in NodeState /\ NodeOK(n, Fresh)
<1>1. <<>> \in ArpTable /\ DOMAIN <<>> = {}
  <2>1. DOMAIN <<>> = 1..0 /\ 1..0 = {}
    BY Len(<<>>) = 0, LenProperties, <<>> \in Seq({})
  <2>2. <<>> \in [{} -> Entry]
    BY <2>1, EmptySeq
  <2> QED
    BY <2>1, <2>2, ArpType
<1>2. Fresh \in NodeState
  BY <1>1 DEF Fresh, NodeState
<1>3. NodeOK(n, Fresh)
  BY <1>1 DEF Fresh, NodeOK, RHostOK, ChildrenOK, AskedOK, EventsOK
<1> QED
  BY <1>2, <1>3

LEMMA NoPackets ==
    ASSUME NEW n
    PROVE  <<>> \in Seq(Sendable(n)) /\ <<>> \in Seq(Message)
OBVIOUS

LEMMA StartNodeStep ==
    ASSUME IInv, NEW n \in Node, StartNode(n)
    PROVE  IInv'
<1> DEFINE h == Sendto(Start(n), RHost, "CONNECT_R", None)
<1>1. h \in Handler(n) /\ h.s = node[n]
  <2>1. [to |-> RHost, cmd |-> "CONNECT_R", arg |-> None] \in Gram /\ Datagram("CONNECT_R")
    BY DEF Gram, Datagram
  <2> QED
    BY <2>1, StartOK, SendGramOK
<1> HIDE DEF h
<1>2. \A m \in udp' : /\ m \in [from : Node, to : up, cmd : {"CONNECT_R", "DISCONNECTED"},
                                arg : Node \cup {None}]
                      /\ [to |-> m.to, cmd |-> m.cmd, arg |-> m.arg] \in Gram
  <2>1. udp' \subseteq udp \cup Datagrams(n, h)
    BY DEF StartNode, h
  <2> QED
    BY <1>1, <2>1, DatagramsOK
<1>3. ChanOK(chan')
  <2>1. ChanOK(chan)
    BY DEF IInv, TypeOK, ChanOK
  <2> QED
    BY <2>1, NoPackets DEF StartNode, ChanOK
<1>4. reset' \in [Node -> SUBSET Node]
  BY DEF StartNode, IInv, TypeOK
<1>5. TypeOK' /\ UdpOK'
  BY <1>2, <1>3, <1>4 DEF StartNode, IInv, TypeOK, UdpOK, ChanOK
<1> QED
  BY <1>3, <1>5 DEF StartNode, IInv, ChanOK

LEMMA DeliverStep ==
    ASSUME IInv, NEW n \in Node, NEW p \in Node, Deliver(p, n)
    PROVE  IInv'
<1> DEFINE m == Head(chan[p][n])
           h == Packet(n, p, m.cmd, m.arg)
           rest == [chan EXCEPT ![p][n] = Tail(@)]
<1>1. chan[p][n] \in Seq(Sendable(p)) /\ chan[p][n] \in Seq(Message) /\ chan[p][n] # <<>>
  BY DEF IInv, TypeOK, Deliver
<1>2. m \in Sendable(p)
  BY <1>1, HeadTailProperties
<1>3. Received(n, p, m.cmd, m.arg)
  <2> HIDE DEF m
  <2>1. m \in Message /\ (m.cmd = "NONE" /\ m.arg = RHost => p = RHost)
    BY <1>2 DEF Sendable
  <2>2. Msg(m.cmd, m.arg) = m /\ ~Datagram(m.cmd)
    BY <2>1 DEF Message, Msg, Datagram
  <2> QED
    BY <2>1, <2>2 DEF Received, Datagram
<1> HIDE DEF m
<1>4. h \in Handler(n) /\ NodeOK(n, h.s)
  BY <1>3, PacketOK
<1> HIDE DEF h
<1>5. ChanOK(rest)
  <2>1. ChanOK(chan)
    BY DEF IInv, TypeOK, ChanOK
  <2>2. Tail(chan[p][n]) \in Seq(Sendable(p)) /\ Tail(chan[p][n]) \in Seq(Message)
    BY <1>1, HeadTailProperties
  <2> QED
    BY <2>1, <2>2 DEF ChanOK
<1> HIDE DEF rest
<1>6. ChanOK(chan')
  BY <1>4, <1>5, QueueOK DEF Deliver, h, m, rest
<1>7. /\ node' = [node EXCEPT ![n] = h.s] /\ udp' = udp /\ byTcp' = byTcp /\ up' = up
      /\ lapses' = lapses /\ stops' = stops
  BY DEF Deliver, h, m
<1>8. reset' \in [Node -> SUBSET Node]
  BY ResetOK DEF Deliver, h, m
<1>9. lapses' \in 0..MaxLapses /\ stops' \in 0..MaxStops
  BY <1>7 DEF IInv, TypeOK
<1>10. udp' \subseteq udp \cup Datagrams(n, h)
  BY <1>7
<1> QED
  BY <1>4, <1>6, <1>7, <1>8, <1>9, <1>10, CommitOK

LEMMA DeliverUdpStep ==
    ASSUME IInv, NEW m \in udp, DeliverUdp(m)
    PROVE  IInv'
<1> DEFINE n == m.to
           h == Packet(m.to, m.from, m.cmd, m.arg)
<1>1. n \in Node /\ h \in Handler(n) /\ NodeOK(n, h.s)
  BY UdpTypes, PacketOK
<1>2. /\ node' = [node EXCEPT ![n] = h.s] /\ byTcp' = byTcp /\ up' = up
      /\ lapses' = lapses /\ stops' = stops /\ udp' \subseteq udp
      /\ chan' = [chan EXCEPT ![n] = [p \in Node |-> Queue(n, h, p)]]
      /\ reset' = ResetAfterCut(n, h)
  BY DEF DeliverUdp
<1> HIDE DEF n, h
<1>3. ChanOK(chan)
  BY DEF IInv, TypeOK, ChanOK
<1>4. ChanOK(chan')
  BY <1>1, <1>2, <1>3, QueueOK
<1>5. reset' \in [Node -> SUBSET Node]
  BY <1>1, <1>2, ResetOK
<1>6. lapses' \in 0..MaxLapses /\ stops' \in 0..MaxStops
  BY <1>2 DEF IInv, TypeOK
<1>7. udp' \subseteq udp \cup Datagrams(n, h)
  BY <1>2
<1> QED
  BY <1>1, <1>2, <1>4, <1>5, <1>6, <1>7, CommitOK

LEMMA LoseUdpStep ==
    ASSUME IInv, NEW m \in udp, LoseUdp(m)
    PROVE  IInv'
<1>1. lapses' \in 0..MaxLapses
  BY MeshAssumption DEF LoseUdp, MayLapse, IInv, TypeOK
<1>2. TypeOK' /\ UdpOK'
  BY <1>1 DEF LoseUdp, IInv, TypeOK, UdpOK
<1> QED
  BY <1>2 DEF LoseUdp, IInv

LEMMA ConnectToRHostStep ==
    ASSUME IInv, NEW n \in Node, ConnectToRHost(n)
    PROVE  IInv'
<1> DEFINE h == Sendto(Start(n), RHost, "CONNECT_R", None)
<1>1. h \in Handler(n) /\ NodeOK(n, h.s)
  <2>1. [to |-> RHost, cmd |-> "CONNECT_R", arg |-> None] \in Gram /\ Datagram("CONNECT_R")
    BY DEF Gram, Datagram
  <2> QED
    BY <2>1, StartOK, SendGramOK
<1>2. Commit(n, h) /\ lapses' \in 0..MaxLapses
  BY DEF ConnectToRHost, IInv, TypeOK
<1> HIDE DEF h
<1> QED
  BY <1>1, <1>2, CommitStep DEF ConnectToRHost

LEMMA EchoStep ==
    ASSUME IInv, NEW n \in Node, NEW p \in Node, Echo(n, p)
    PROVE  IInv'
<1> DEFINE h == SendCmdto(Start(n), p, "ECHO", None)
<1>1. h \in Handler(n) /\ NodeOK(n, h.s)
  <2>1. Msg("ECHO", None) \in Sendable(n) /\ ~Datagram("ECHO")
    BY DEF Msg, Sendable, Message, Datagram
  <2> QED
    BY <2>1, StartOK, SendCmdtoOK
<1>2. Commit(n, h) /\ lapses' \in 0..MaxLapses
  BY DEF Echo, IInv, TypeOK
<1> HIDE DEF h
<1> QED
  BY <1>1, <1>2, CommitStep DEF Echo

LEMMA CheckConnectedStep ==
    ASSUME IInv, NEW n \in Node, NEW p \in Node, CheckConnected(n, p)
    PROVE  IInv'
<1> DEFINE g == Sendto(Start(n), p, "DISCONNECTED", None)
           h == Disconnected(g, p, None)
<1>1. g \in Handler(n) /\ NodeOK(n, g.s)
  <2>1. [to |-> p, cmd |-> "DISCONNECTED", arg |-> None] \in Gram /\ Datagram("DISCONNECTED")
    BY DEF Gram, Datagram
  <2> QED
    BY <2>1, StartOK, SendGramOK
<1>2. Commit(n, h) /\ reset' = ResetAfterCut(n, h)
  BY DEF CheckConnected
<1> HIDE DEF g
<1>3. h \in Handler(n) /\ NodeOK(n, h.s)
  BY <1>1, DisconnectedOK
<1>4. lapses' \in 0..MaxLapses
  BY OutageOK DEF CheckConnected
<1> HIDE DEF h
<1> QED
  BY <1>2, <1>3, <1>4, CommitStep DEF CheckConnected

LEMMA ChannelLostStep ==
    ASSUME IInv, NEW n \in Node, NEW p \in Node, ChannelLost(n, p)
    PROVE  IInv'
<1> DEFINE h == Disconnected(Start(n), p, None)
<1>1. h \in Handler(n) /\ NodeOK(n, h.s)
  <2>1. Start(n) \in Handler(n) /\ NodeOK(n, Start(n).s)
    BY StartOK
  <2> QED
    BY <2>1, DisconnectedOK
<1>2. Commit(n, h) /\ reset' = ResetAfterCut(n, h)
  BY DEF ChannelLost
<1>3. lapses' \in 0..MaxLapses
  BY OutageOK DEF ChannelLost
<1> HIDE DEF h
<1> QED
  BY <1>1, <1>2, <1>3, CommitStep DEF ChannelLost

LEMMA ChannelResetStep ==
    ASSUME IInv, NEW n \in Node, NEW p \in Node, ChannelReset(n, p)
    PROVE  IInv'
<1> DEFINE h == Disconnected(Start(n), p, None)
<1>1. lapses' \in 0..MaxLapses
  BY DEF ChannelReset, IInv, TypeOK
<1>2. CASE Knows(n, p)
  <2>1. h \in Handler(n) /\ NodeOK(n, h.s)
    <3>1. Start(n) \in Handler(n) /\ NodeOK(n, Start(n).s)
      BY StartOK
    <3> QED
      BY <3>1, DisconnectedOK
  <2>2. Commit(n, h)
    BY <1>2 DEF ChannelReset
  <2> HIDE DEF h
  <2> QED
    BY <1>1, <2>1, <2>2, CommitStep DEF ChannelReset
<1>3. CASE ~Knows(n, p)
  <2>1. UNCHANGED <<byTcp, up, node, chan, udp, lapses, stops>>
    BY <1>3 DEF ChannelReset
  <2>2. reset' \in [Node -> SUBSET Node]
    BY DEF ChannelReset, IInv, TypeOK
  <2> QED
    BY <2>1, <2>2 DEF IInv, TypeOK, UdpOK
<1> QED
  BY <1>2, <1>3

LEMMA PeerTypeCbStep ==
    ASSUME IInv, NEW n \in Node, NEW p \in Node, PeerTypeCb(n, p)
    PROVE  IInv'
<1> DEFINE s == node[n]
           e == [s.arp[p] EXCEPT !.asked = TRUE]
           A == [s.arp EXCEPT ![p] = e]
           C == [s.chains EXCEPT ![p] = @ - 1]
           t == [s EXCEPT !.arp = A]
           u == [s EXCEPT !.chains = C]
           again == [Start(n) EXCEPT !.s.arp[p].asked = TRUE]
           ended == [Start(n) EXCEPT !.s.chains[p] = @ - 1]
           asking == Sendto(again, p, "HOST_INFO", None)
<1>1. /\ Start(n) \in Handler(n) /\ Start(n).s = s /\ NodeOK(n, s)
      /\ s \in NodeState /\ s.arp \in ArpTable /\ s.chains \in [Node -> Nat]
      /\ s.chains[p] > 0
  <2>1. s \in NodeState
    BY DEF IInv, TypeOK
  <2> QED
    BY <2>1, StartOK DEF PeerTypeCb, NodeState
<1>2. lapses' \in 0..MaxLapses
  BY DEF PeerTypeCb, IInv, TypeOK
<1>3. CASE Knows(n, p)
  <2>1. p \in DOMAIN s.arp /\ s.arp[p] \in Entry
    BY <1>1, <1>3, ArpType DEF Knows, Arp
  <2>2. e \in Entry /\ e.mode = s.arp[p].mode /\ e.typed = s.arp[p].typed /\ e.asked = TRUE
    BY <2>1 DEF Entry
  <2>3. /\ A \in ArpTable /\ DOMAIN A = DOMAIN s.arp /\ A[p] = e
        /\ \A q \in DOMAIN s.arp : q # p => A[q] = s.arp[q]
    <3> HIDE DEF e
    <3> QED
      BY <1>1, <2>1, <2>2, ChangeType
  <2>4. again = [Start(n) EXCEPT !.s = t]
    BY <1>1
  <2> HIDE DEF s, e, A, again
  <2>5. /\ t \in NodeState /\ t.arp = A
        /\ t.rhost = s.rhost /\ t.chains = s.chains /\ t.view = s.view
    BY <1>1, <2>3 DEF NodeState
  <2> HIDE DEF t
  <2>6. again \in Handler(n) /\ again.s = t
    BY <1>1, <2>4, <2>5, StateChange
  <2>7. NodeOK(n, t)
    <3> USE <1>1, <2>1, <2>2, <2>3, <2>5
    <3>1. RHostOK(t)
      BY DEF NodeOK, RHostOK
    <3>2. ChildrenOK(n, t)
      BY DEF NodeOK, ChildrenOK
    <3>3. AskedOK(t)
      BY DEF NodeOK, AskedOK
    <3>4. EventsOK(n, t)
      BY DEF NodeOK, EventsOK
    <3> QED
      BY <3>1, <3>2, <3>3, <3>4 DEF NodeOK
  <2>8. asking \in Handler(n) /\ asking.s = t
    <3>1. Msg("HOST_INFO", None) \in Sendable(n) /\ ~Datagram("HOST_INFO")
      BY DEF Msg, Sendable, Message, Datagram
    <3> QED
      BY <2>6, <3>1, SendtoOK
  <2>9. Commit(n, asking)
    BY <1>3 DEF PeerTypeCb, again
  <2> HIDE DEF asking
  <2> QED
    BY <1>2, <2>7, <2>8, <2>9, CommitStep DEF PeerTypeCb
<1>4. CASE ~Knows(n, p)
  <2>1. p \notin DOMAIN s.arp
    BY <1>4 DEF Knows, Arp
  <2>2. C \in [Node -> Nat] /\ \A q \in Node : q # p => C[q] = s.chains[q]
    BY <1>1
  <2>3. ended = [Start(n) EXCEPT !.s = u]
    BY <1>1
  <2> HIDE DEF s, C, ended
  <2>4. /\ u \in NodeState /\ u.chains = C
        /\ u.rhost = s.rhost /\ u.arp = s.arp /\ u.view = s.view
    BY <1>1, <2>2 DEF NodeState
  <2> HIDE DEF u
  <2>5. ended \in Handler(n) /\ ended.s = u
    BY <1>1, <2>3, <2>4, StateChange
  <2>6. NodeOK(n, u)
    <3>1. AskedOK(u)
      <4>1. DOMAIN s.arp \subseteq Node
        BY <1>1, ArpType
      <4> QED
        BY <1>1, <2>1, <2>2, <2>4, <4>1 DEF NodeOK, AskedOK
    <3>2. RHostOK(u) /\ ChildrenOK(n, u) /\ EventsOK(n, u)
      BY <1>1, <2>4 DEF NodeOK, RHostOK, ChildrenOK, EventsOK
    <3> QED
      BY <3>1, <3>2 DEF NodeOK
  <2>7. Commit(n, ended)
    BY <1>4 DEF PeerTypeCb, ended
  <2> QED
    BY <1>2, <2>5, <2>6, <2>7, CommitStep DEF PeerTypeCb
<1> QED
  BY <1>3, <1>4

LEMMA ConnectCqueCbStep ==
    ASSUME IInv, NEW n \in Node, NEW p \in Node, ConnectCqueCb(n, p)
    PROVE  IInv'
<1> DEFINE s == node[n]
           cut == IF Knows(n, p) THEN {} ELSE {p}
           t == [s EXCEPT !.wait = @ \ {p}]
           g == [Start(n) EXCEPT !.s = t]
           h == [Start(n) EXCEPT !.s.wait = @ \ {p},
                                 !.cut = IF Knows(n, p) THEN {} ELSE {p}]
<1>1. Start(n) \in Handler(n) /\ Start(n).s = s /\ NodeOK(n, s) /\ s \in NodeState
  BY StartOK DEF IInv, TypeOK
<1>2. h = [g EXCEPT !.cut = cut]
  BY <1>1
<1> HIDE DEF s, h
<1>3. /\ t \in NodeState
      /\ t.arp = s.arp /\ t.rhost = s.rhost /\ t.chains = s.chains /\ t.view = s.view
  BY <1>1 DEF NodeState
<1> HIDE DEF t
<1>4. g \in Handler(n) /\ g.s = t
  BY <1>1, <1>3, StateChange
<1>5. NodeOK(n, t)
  BY <1>1, <1>3, NodeOKSame
<1> HIDE DEF g
<1>6. h \in Handler(n) /\ h.s = t
  <2>1. cut \in SUBSET Node
    OBVIOUS
  <2> HIDE DEF cut
  <2> QED
    BY <1>2, <1>4, <2>1 DEF Handler
<1>7. lapses' \in 0..MaxLapses
  BY OutageOK DEF ConnectCqueCb, IInv, TypeOK
<1>8. Commit(n, h) /\ reset' = ResetAfterCut(n, h)
  BY DEF ConnectCqueCb, h
<1> QED
  BY <1>5, <1>6, <1>7, <1>8, CommitStep DEF ConnectCqueCb

LEMMA ReconnectCqueCbStep ==
    ASSUME IInv, NEW n \in Node, NEW p \in Node, ReconnectCqueCb(n, p)
    PROVE  IInv'
<1> DEFINE g == ReconnectAnswer(Start(n), p)
           h == IF Knows(n, p) THEN g ELSE ReconnectSend(g, p)
<1>1. g \in Handler(n) /\ NodeOK(n, g.s)
  <2>1. Start(n) \in Handler(n) /\ NodeOK(n, Start(n).s)
    BY StartOK
  <2> QED
    BY <2>1, ReconnectAnswerOK
<1>2. Commit(n, h)
  BY DEF ReconnectCqueCb, ReconnectAnswer
<1> HIDE DEF g
<1>3. h \in Handler(n) /\ NodeOK(n, h.s)
  BY <1>1, ReconnectSendOK, NodeOKSame
<1>4. lapses' \in 0..MaxLapses
  BY DEF ReconnectCqueCb, IInv, TypeOK
<1> HIDE DEF h
<1> QED
  BY <1>2, <1>3, <1>4, CommitStep DEF ReconnectCqueCb

\* A node that is gone leaves datagrams behind that others may take.
LEMMA LeaveStep ==
    ASSUME IInv, NEW n \in Node, NEW bye, Leave(n, bye),
           bye \subseteq [from : Node, to : up, cmd : {"DISCONNECTED"}, arg : Named \cup {None}]
    PROVE  IInv'
<1>1. Named \subseteq Node
  BY MeshAssumption DEF Named
<1>2. \A m \in udp \cup bye :
               /\ m \in [from : Node, to : up, cmd : {"CONNECT_R", "DISCONNECTED"},
                         arg : Node \cup {None}]
               /\ [to |-> m.to, cmd |-> m.cmd, arg |-> m.arg] \in Gram
  BY <1>1 DEF IInv, TypeOK, UdpOK, Gram
<1>3. \A m \in udp' :
               /\ m \in [from : Node, to : up', cmd : {"CONNECT_R", "DISCONNECTED"},
                         arg : Node \cup {None}]
               /\ [to |-> m.to, cmd |-> m.cmd, arg |-> m.arg] \in Gram
  BY <1>2 DEF Leave
<1>4. ChanOK(chan')
  <2>1. ChanOK(chan)
    BY DEF IInv, TypeOK, ChanOK
  <2>2. \A p \in Node : [chan[p] EXCEPT ![n] = <<>>] \in [Node -> Seq(Message)]
                        /\ [chan[p] EXCEPT ![n] = <<>>] \in [Node -> Seq(Sendable(p))]
    BY <2>1, NoPackets DEF ChanOK
  <2> QED
    BY <2>2 DEF Leave, ChanOK
<1>5. node' \in [Node -> NodeState] /\ \A p \in Node : NodeOK(p, node'[p])
  BY FreshOK DEF Leave, IInv, TypeOK
<1>6. stops' \in 0..MaxStops
  BY MeshAssumption DEF Leave, IInv, TypeOK
<1>7. TypeOK'
  BY <1>3, <1>4, <1>5, <1>6 DEF Leave, IInv, TypeOK, ChanOK
<1>8. UdpOK'
  BY <1>3 DEF UdpOK
<1> QED
  BY <1>4, <1>5, <1>7, <1>8 DEF IInv, ChanOK

LEMMA CrashStep ==
    ASSUME IInv, NEW n \in Node, Crash(n)
    PROVE  IInv'
BY LeaveStep DEF Crash

\* ksnCoreDestroy: only the r-host has TCP children to name.
LEMMA StopStep ==
    ASSUME IInv, NEW n \in Node, Stop(n)
    PROVE  IInv'
<1> DEFINE children == {p \in DOMAIN Arp(n) : Arp(n)[p].mode = 2}
<1>1. TRUE \in Goodbye /\ n \in MayStop /\ Leave(n, Byes(n))
  BY DEF Stop, Leave
<1>2. ChildrenOK(n, node[n])
  BY DEF IInv, NodeOK
<1>3. children \subseteq Named
  BY <1>1, <1>2 DEF ChildrenOK, Arp, Named
<1>4. DOMAIN Arp(n) \subseteq Node
  BY ArpType DEF Arp, IInv, TypeOK, NodeState
<1>5. Byes(n) \subseteq [from : Node, to : up, cmd : {"DISCONNECTED"}, arg : Named \cup {None}]
  BY <1>3, <1>4 DEF Byes
<1> QED
  BY <1>1, <1>5, LeaveStep
-----------------------------------------------------------------------------
LEMMA InitOK == Init => IInv
<1> SUFFICES ASSUME Init PROVE IInv
  OBVIOUS
<1>1. \A n \in Node : chan[n] \in [Node -> Seq(Sendable(n))] /\ chan[n] \in [Node -> Seq(Message)]
  BY NoPackets DEF Init, NewNetwork
<1>2. TypeOK
  BY <1>1, FreshOK, MeshAssumption DEF Init, NewNetwork, TypeOK
<1>3. \A n \in Node : NodeOK(n, node[n])
  BY FreshOK DEF Init, NewNetwork
<1>4. UdpOK
  BY DEF Init, NewNetwork, UdpOK
<1> QED
  BY <1>1, <1>2, <1>3, <1>4 DEF IInv

\* The network after it has formed and settled.
LEMMA FormedOK == Formed => IInv
<1> SUFFICES ASSUME Formed PROVE IInv
  OBVIOUS
<1> USE MeshAssumption
<1>1. \A n \in Node : chan[n] \in [Node -> Seq(Sendable(n))] /\ chan[n] \in [Node -> Seq(Message)]
  BY NoPackets DEF Formed
<1>2. ASSUME NEW n \in Node PROVE node[n] \in NodeState /\ NodeOK(n, node[n])
  <2> DEFINE arp == [p \in Node \ {n} |->
                  [mode |-> IF p = RHost THEN 1 ELSE IF n = RHost /\ p \in byTcp THEN 2 ELSE 0,
                   typed |-> TRUE, asked |-> FALSE]]
             rhost == IF n = RHost THEN None ELSE RHost
             view == [p \in Node |-> IF p = n THEN "none"
                          ELSE IF n = RHost /\ p \notin byTcp THEN "none" ELSE "up"]
  <2>1. node[n] = [Fresh EXCEPT !.arp = arp, !.rhost = rhost, !.view = view]
    BY DEF Formed
  <2>2. arp \in ArpTable /\ DOMAIN arp = Node \ {n}
    <3>1. arp \in [Node \ {n} -> Entry]
      BY DEF Entry
    <3> QED
      BY <3>1, ArpType
  <2>3. \A p \in Node \ {n} : /\ arp[p].mode = 2 => n = RHost /\ p \in byTcp
                             /\ arp[p].typed = TRUE /\ arp[p].asked = FALSE
    OBVIOUS
  <2>4. rhost \in Node \cup {None} /\ (rhost # None => rhost = RHost /\ RHost \in Node \ {n})
    OBVIOUS
  <2>5. view \in [Node -> {"none", "up", "down"}]
        /\ (n # RHost => \A p \in Node : view[p] = "up" <=> p # n)
    OBVIOUS
  <2>6. Fresh \in NodeState
    BY FreshOK
  <2> HIDE DEF arp, rhost, view
  <2>7. /\ node[n] \in NodeState /\ node[n].arp = arp
        /\ node[n].rhost = rhost /\ node[n].view = view
    BY <2>1, <2>2, <2>4, <2>5, <2>6 DEF NodeState
  <2>8. byTcp \subseteq MayTcp
    BY DEF Formed
  <2>9. RHostOK(node[n]) /\ ChildrenOK(n, node[n]) /\ AskedOK(node[n]) /\ EventsOK(n, node[n])
    BY <2>2, <2>3, <2>4, <2>5, <2>7, <2>8 DEF RHostOK, ChildrenOK, AskedOK, EventsOK
  <2> QED
    BY <2>7, <2>9 DEF NodeOK
<1>3. TypeOK
  <2>1. node \in [Node -> NodeState]
    <3>1. node = [n \in Node |-> node[n]]
      BY DEF Formed
    <3> QED
      BY <1>2, <3>1
  <2>2. chan = [n \in Node |-> chan[n]]
    BY DEF Formed
  <2>3. /\ byTcp \subseteq MayTcp /\ up \subseteq Node /\ udp = {}
        /\ reset \in [Node -> SUBSET Node] /\ lapses = 0 /\ stops = 0
    BY DEF Formed
  <2> QED
    BY <1>1, <2>1, <2>2, <2>3 DEF TypeOK
<1>4. UdpOK
  BY DEF Formed, UdpOK
<1> QED
  BY <1>1, <1>2, <1>3, <1>4 DEF IInv

LEMMA StepOK == IInv /\ [Next]_vars => IInv'
<1> SUFFICES ASSUME IInv, [Next]_vars PROVE IInv'
  OBVIOUS
<1>1. ASSUME NEW n \in Node, StartNode(n) PROVE IInv'
  BY <1>1, StartNodeStep
<1>2. ASSUME NEW n \in Node, NEW p \in Node, Deliver(p, n) PROVE IInv'
  BY <1>2, DeliverStep
<1>3. ASSUME NEW m \in udp, DeliverUdp(m) PROVE IInv'
  BY <1>3, DeliverUdpStep
<1>4. ASSUME NEW m \in udp, LoseUdp(m) PROVE IInv'
  BY <1>4, LoseUdpStep
<1>5. ASSUME NEW n \in Node, ConnectToRHost(n) PROVE IInv'
  BY <1>5, ConnectToRHostStep
<1>6. ASSUME NEW n \in Node, NEW p \in Node, Echo(n, p) PROVE IInv'
  BY <1>6, EchoStep
<1>7. ASSUME NEW n \in Node, NEW p \in Node, CheckConnected(n, p) PROVE IInv'
  BY <1>7, CheckConnectedStep
<1>8. ASSUME NEW n \in Node, NEW p \in Node, ChannelLost(n, p) PROVE IInv'
  BY <1>8, ChannelLostStep
<1>9. ASSUME NEW n \in Node, NEW p \in Node, ChannelReset(n, p) PROVE IInv'
  BY <1>9, ChannelResetStep
<1>10. ASSUME NEW n \in Node, NEW p \in Node, PeerTypeCb(n, p) PROVE IInv'
  BY <1>10, PeerTypeCbStep
<1>11. ASSUME NEW n \in Node, NEW p \in Node, ConnectCqueCb(n, p) PROVE IInv'
  BY <1>11, ConnectCqueCbStep
<1>12. ASSUME NEW n \in Node, NEW p \in Node, ReconnectCqueCb(n, p) PROVE IInv'
  BY <1>12, ReconnectCqueCbStep
<1>13. ASSUME NEW n \in Node, Crash(n) PROVE IInv'
  BY <1>13, CrashStep
<1>14. ASSUME NEW n \in Node, Stop(n) PROVE IInv'
  BY <1>14, StopStep
<1>15. CASE UNCHANGED vars
  <2> USE <1>15 DEF vars
  <2>1. TypeOK'
    BY DEF IInv, TypeOK
  <2>2. UdpOK'
    BY DEF IInv, UdpOK
  <2> QED
    BY <2>1, <2>2 DEF IInv
<1> QED
  BY <1>1, <1>2, <1>3, <1>4, <1>5, <1>6, <1>7, <1>8, <1>9, <1>10, <1>11, <1>12, <1>13, <1>14,
     <1>15 DEF Next

LEMMA Inductive == Spec => []IInv
BY InitOK, StepOK, PTL DEF Spec

LEMMA FormedInductive == FormedSpec => []IInv
BY FormedOK, StepOK, PTL DEF FormedSpec

\* Every node's table, r_host_name and counts of queued calls, and every
\* packet, have their types; peer_type_cb calls are never ended twice.
THEOREM MeshTypeOK == Spec => []TypeOK
<1>1. IInv => TypeOK
  BY DEF IInv
<1> QED
  BY <1>1, Inductive, PTL

\* Whatever outages, crashes and goodbyes do, r_host_name names a peer in the
\* table: a node that lost its r-host knows, and connect_r_host_cb connects.
THEOREM RHostAlwaysKnown == (Spec => []RHostKnown) /\ (FormedSpec => []RHostKnown)
<1>1. IInv => RHostKnown
  BY DEF IInv, NodeOK, RHostOK, RHostKnown, Knows, Arp
<1> QED
  BY <1>1, Inductive, FormedInductive, PTL

\* An entry without a type has a queued peer_type_cb, and cque_id_peer_type is
\* its id, whatever old calls for a former entry of the same name do.
THEOREM UntypedAlwaysAsked == (Spec => []UntypedIsAsked) /\ (FormedSpec => []UntypedIsAsked)
<1>1. IInv => UntypedIsAsked
  BY DEF IInv, NodeOK, AskedOK, UntypedIsAsked, Arp
<1> QED
  BY <1>1, Inductive, FormedInductive, PTL

\* In a network in which no r-host with TCP clients says goodbye, each
\* application was told last of a peer what its table says.
THEOREM EventsAlwaysAgree == Named = {} /\ (Spec \/ FormedSpec) => []EventsAgree
<1> DEFINE Inv == IInv /\ Named = {}
<1>1. (Init \/ Formed) /\ Named = {} => Inv
  BY InitOK, FormedOK
<1>2. Inv /\ [Next]_vars => Inv'
  BY StepOK
<1>3. Inv => EventsAgree
  BY DEF IInv, TypeOK, NodeOK, EventsOK, EventsAgree, Knows, Arp
<1> QED
  BY <1>1, <1>2, <1>3, PTL DEF Spec, FormedSpec
=============================================================================
