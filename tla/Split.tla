------------------------------- MODULE Split -------------------------------
(***************************************************************************)
(* Large packets, src/src/net_split.c: ksnCoreSendto cuts a packet longer  *)
(* than MAX_DATA_LEN into subpackets, which go to the receiver through     *)
(* TR-UDP one by one; the receiver stores them in one map for all senders  *)
(* and, when a subpacket with the last flag comes, combines the packet     *)
(* from the map and processes it.                                          *)
(*                                                                         *)
(* The map loses subpackets: it is cleared when the last one was added     *)
(* more than ten seconds ago, and a channel that is lost loses what it     *)
(* has not delivered.  Nothing is ever said about a packet that could not  *)
(* be combined, and what was stored of it stays.                           *)
(*                                                                         *)
(* A packet is known by its serial number here, its position in "sent",    *)
(* and a part of it by that number and its position in the packet.         *)
(***************************************************************************)
EXTENDS Naturals, Sequences

CONSTANTS
    Peer,        \* the senders, with one receiver
    Lengths,     \* lengths of the packets they send
    MaxData,     \* MAX_DATA_LEN, 448
    MaxPacket,   \* MAX_PACKET_LEN, 5 * 1024 * 1024
    LastFlag,    \* LAST_PACKET_FLAG, 0x8000
    Numbers,     \* number of packet numbers, 2^16
    MaxSent,     \* bound on the packets sent
    MaxLapses    \* bound on pauses of ten seconds, lost channels and restarts

ASSUME SplitAssumption ==
    /\ Lengths \subseteq Nat
    /\ MaxData \in Nat \ {0}
    /\ MaxPacket \in Nat
    /\ MaxPacket >= MaxData
    /\ LastFlag \in Nat \ {0}
    /\ MaxPacket <= MaxData * LastFlag
    /\ Numbers \in Nat \ {0}
    /\ MaxSent \in Nat
    /\ MaxLapses \in Nat

VARIABLES
    number,   \* number[p]: packet_number of sender p
    sent,     \* the packets sent so far: sender and length
    chan,     \* chan[p]: the packets under way from p, in TR-UDP's order
    map,      \* ks->map: <<sender, packet number, subpacket number>> -> part
    quiet,    \* more than ten seconds have passed since last_added
    got,      \* the packets processed: sender and parts
    lapses    \* pauses, lost channels and restarts so far

vars == <<number, sent, chan, map, quiet, got, lapses>>

Part == [msg : Nat, sub : Nat]

\* A packet on its way: a whole small one, or a subpacket (CMD_SPLIT) with
\* the last flag and the subpacket number as the receiver reads them.
Packet == [cmd : {"SPLIT", "OTHER"}, num : 0..(Numbers - 1), sub : 0..(LastFlag - 1),
           last : {0, 1}, part : Part]

-----------------------------------------------------------------------------
(* The sender.                                                             *)

NumSubpackets(len) == len \div MaxData + (IF len % MaxData = 0 THEN 0 ELSE 1)

\* Bytes of data in subpacket i of a packet cut into n.
DataLen(len, i, n) == IF i = n - 1 THEN len - MaxData * i ELSE MaxData

\* A subpacket number and the flag share 16 bits: i | 0x8000, & 0x7FFF.
Subpacket(s, num, i, n) ==
    [cmd |-> "SPLIT", num |-> num, sub |-> i % LastFlag,
     last |-> IF i = n - 1 \/ i >= LastFlag THEN 1 ELSE 0, part |-> [msg |-> s, sub |-> i]]

\* ksnSplitPacket.
SplitPacket(s, num, len) ==
    LET n == NumSubpackets(len)
    IN  [k \in 1..n |-> Subpacket(s, num, k - 1, n)]

Small(s) == <<[cmd |-> "OTHER", num |-> 0, sub |-> 0, last |-> 1,
               part |-> [msg |-> s, sub |-> 0]]>>

\* Mutant of SizeOk: packets of any length are cut.
MutantAnySize(len) == TRUE

\* ksnCoreSendto refuses a longer packet and returns -1.
SizeOk(len) == len <= MaxPacket - MaxData

\* Mutant of NextNumber: the counter is wider than its 16 bits in the key.
MutantNumberWide(num) == num + 1

\* packet_number++ on a uint16_t.
NextNumber(num) == (num + 1) % Numbers

\* ksnCoreSendto.
Send(p, len) ==
    LET s == Len(sent) + 1
        large == len > MaxData
    IN  /\ s <= MaxSent
        /\ SizeOk(len)
        /\ sent' = Append(sent, [from |-> p, len |-> len])
        /\ number' = [number EXCEPT ![p] = IF large THEN NextNumber(@) ELSE @]
        /\ chan' = [chan EXCEPT ![p] = @ \o
                        (IF large THEN SplitPacket(s, number[p], len) ELSE Small(s))]
        /\ UNCHANGED <<map, quiet, got, lapses>>

-----------------------------------------------------------------------------
(* The receiver.                                                           *)

\* Mutant of Key: the sender's name is not in the key.
MutantKeyNoFrom(p, num, i) == <<"peer", num, i>>

\* create_key.
Key(p, num, i) == <<p, num, i>>

\* The map after the check of last_added: all of it is cleared after a pause.
Kept == IF quiet THEN <<>> ELSE map

\* The map with the part that came from p in packet m.
Stored(p, m) ==
    LET key == Key(p, m.num, m.sub)
    IN  [k \in DOMAIN Kept \cup {key} |-> IF k = key THEN m.part ELSE Kept[k]]

\* The subpackets of m's packet that are found, counted up from 0 to the first
\* missing one.
Present(p, m) ==
    {i \in 0..m.sub : \A j \in 0..i : Key(p, m.num, j) \in DOMAIN Stored(p, m)}

\* The parts are taken out of the map one by one until one is missing.
Taken(p, m) ==
    LET keys == {Key(p, m.num, i) : i \in Present(p, m)}
    IN  [k \in DOMAIN Stored(p, m) \ keys |-> Stored(p, m)[k]]

\* The combined packet, if no part is missing.
Combined(p, m) ==
    [from |-> p, parts |-> [k \in 1..(m.sub + 1) |-> Stored(p, m)[Key(p, m.num, k - 1)]]]

\* Mutant of CombineLast: the parts stay in the map after they are combined.
MutantCombineKeeps(p, m) ==
    /\ map' = Stored(p, m)
    /\ got' = IF Present(p, m) = 0..m.sub THEN Append(got, Combined(p, m)) ELSE got

\* ksnSplitCombine when the last flag is set, and cmd_split_cb.
CombineLast(p, m) ==
    /\ map' = Taken(p, m)
    /\ got' = IF Present(p, m) = 0..m.sub THEN Append(got, Combined(p, m)) ELSE got

\* Mutant of QuietAfterAdd: last_added is not set.
MutantQuietStays == quiet

\* ks->last_added = current_time.
QuietAfterAdd == FALSE

\* ksnCoreProcessPacket: a small packet is processed, a subpacket is stored.
Receive(p) ==
    LET m == Head(chan[p])
    IN  /\ chan[p] # <<>>
        /\ chan' = [chan EXCEPT ![p] = Tail(@)]
        /\ IF m.cmd # "SPLIT"
           THEN /\ got' = Append(got, [from |-> p, parts |-> <<m.part>>])
                /\ UNCHANGED <<map, quiet>>
           ELSE /\ quiet' = QuietAfterAdd
                /\ IF m.last = 1 THEN CombineLast(p, m)
                             ELSE map' = Stored(p, m) /\ UNCHANGED got
        /\ UNCHANGED <<number, sent, lapses>>

-----------------------------------------------------------------------------
Init ==
    /\ number = [p \in Peer |-> 0]
    /\ sent = <<>>
    /\ chan = [p \in Peer |-> <<>>]
    /\ map = <<>>
    /\ quiet = TRUE
    /\ got = <<>>
    /\ lapses = 0

Lapse ==
    /\ lapses < MaxLapses
    /\ lapses' = lapses + 1

\* Ten seconds pass without a subpacket from anyone.
Pause ==
    /\ ~quiet
    /\ Lapse
    /\ quiet' = TRUE
    /\ UNCHANGED <<number, sent, chan, map, got>>

\* The TR-UDP channel from p is lost with all it has not delivered.
Cut(p) ==
    /\ chan[p] # <<>>
    /\ Lapse
    /\ chan' = [chan EXCEPT ![p] = <<>>]
    /\ UNCHANGED <<number, sent, map, quiet, got>>

\* Sender p restarts: a new channel, and packet numbers from 0 again.
Restart(p) ==
    /\ Lapse
    /\ chan' = [chan EXCEPT ![p] = <<>>]
    /\ number' = [number EXCEPT ![p] = 0]
    /\ UNCHANGED <<sent, map, quiet, got>>

Next ==
    \/ \E p \in Peer, len \in Lengths : Send(p, len)
    \/ \E p \in Peer : Receive(p)
    \/ Pause
    \/ \E p \in Peer : Cut(p)
    \/ \E p \in Peer : Restart(p)

Spec == Init /\ [][Next]_vars

-----------------------------------------------------------------------------
\* The variables have their types; a subpacket number fits below the flag.
TypeOK ==
    /\ number \in [Peer -> 0..(Numbers - 1)]
    /\ sent \in Seq([from : Peer, len : Nat])
    /\ chan \in [Peer -> Seq(Packet)]
    /\ DOMAIN map \subseteq Peer \X (0..(Numbers - 1)) \X (0..(LastFlag - 1))
    /\ map \in [DOMAIN map -> Part]
    /\ quiet \in BOOLEAN
    /\ got \in Seq([from : Peer, parts : Seq(Part)])
    /\ lapses \in 0..MaxLapses

\* The number of packets that ksnCoreSendto makes of one of this length.
NumParts(len) == IF len > MaxData THEN NumSubpackets(len) ELSE 1

\* All parts of packet s, in order.
Whole(s) ==
    [k \in 1..NumParts(sent[s].len) |-> [msg |-> s, sub |-> k - 1]]

\* Every packet that is processed is one packet that its sender has sent,
\* complete and with its parts in order, however packet numbers wrap and
\* repeat, whatever the map still holds of packets that lost parts, and however
\* the subpackets of other senders come between (ksnSplitCombine).
NoMix ==
    \A k \in DOMAIN got : \E s \in DOMAIN sent :
        got[k] = [from |-> sent[s].from, parts |-> Whole(s)]

\* As long as no channel is lost and no pause clears the map, every packet is
\* processed: its last part is still on its way or it has been combined.
NotLost ==
    lapses = 0 => \A s \in DOMAIN sent :
        \/ \E k \in DOMAIN got : got[k].parts[1].msg = s
        \/ \E k \in DOMAIN chan[sent[s].from] :
                chan[sent[s].from][k].last = 1 /\ chan[sent[s].from][k].part.msg = s

\* Without losses the map holds nothing but the parts of packets that are on
\* their way now: a packet that was combined leaves nothing behind.
NoLeftovers ==
    lapses = 0 => \A key \in DOMAIN map :
        /\ chan[key[1]] # <<>>
        /\ Head(chan[key[1]]).part.msg = map[key].msg

-----------------------------------------------------------------------------
(* The inductive invariant.                                                *)

\* A packet on its way from p is what Send made of one of p's packets in log.
Genuine(log, p, m) ==
    /\ m.part.msg \in DOMAIN log
    /\ log[m.part.msg].from = p
    /\ m.part.sub = m.sub
    /\ m.sub < NumParts(log[m.part.msg].len)
    /\ m.last = 1 <=> m.sub = NumParts(log[m.part.msg].len) - 1
    /\ m.cmd = "SPLIT" <=> log[m.part.msg].len > MaxData

\* What comes after m in a channel: the next subpacket, or another packet.
Follows(m, next) ==
    IF m.last = 1 THEN next.sub = 0
    ELSE next.num = m.num /\ next.sub = m.sub + 1 /\ next.part.msg = m.part.msg

\* Every channel holds the packets of its sender in order, subpacket by
\* subpacket, and only the first of them can have lost subpackets to the receiver.
ChanOK ==
    \A p \in Peer : \A i \in DOMAIN chan[p] :
        /\ Genuine(sent, p, chan[p][i])
        /\ IF i < Len(chan[p]) THEN Follows(chan[p][i], chan[p][i + 1])
                               ELSE chan[p][i].last = 1

\* A later packet of a channel was sent later.
ChanInOrder ==
    \A p \in Peer : \A i, j \in DOMAIN chan[p] : i < j =>
        /\ chan[p][i].part.msg <= chan[p][j].part.msg
        /\ chan[p][i].last = 1 => chan[p][i].part.msg < chan[p][j].part.msg

\* Under the keys of the packet that is being received from p the map holds
\* parts of that packet or nothing: the remains of an earlier packet with the
\* same number were overwritten.
MapOK ==
    \A p \in Peer : chan[p] # <<>> =>
        \A i \in 0..(LastFlag - 1) :
            i < chan[p][1].sub /\ Key(p, chan[p][1].num, i) \in DOMAIN map =>
                map[Key(p, chan[p][1].num, i)] = [msg |-> chan[p][1].part.msg, sub |-> i]

\* What is on its way from p was sent after what was processed from p.
GotBefore ==
    \A k \in DOMAIN got : \A i \in DOMAIN chan[got[k].from] :
        got[k].parts[1].msg < chan[got[k].from][i].part.msg

IInv == TypeOK /\ NoMix /\ ChanOK /\ ChanInOrder /\ MapOK /\ GotBefore

\* Who sent each packet, and which packets were processed.
Origin == [s \in DOMAIN sent |-> sent[s].from]
Processed == [k \in DOMAIN got |-> got[k].parts[1].msg]

Transport == INSTANCE PacketTransport WITH
    Sender <- Peer, origin <- Origin, processed <- Processed

\* Splitting and combining keep the order of each sender's packets and process
\* none twice.
InOrder == Transport!Spec
=============================================================================
