---------------------------- MODULE SplitProofs ----------------------------
(***************************************************************************)
(* Proofs about splitting and combining for every set of senders, packet   *)
(* lengths and number of packet numbers: subpackets fit their fields, no   *)
(* packets are mixed, their order is kept, and as long as no channel is    *)
(* lost and no pause clears the map, each is processed and leaves nothing. *)
(***************************************************************************)
EXTENDS Split, SequenceTheorems, TLAPS

\* Division as the C operators / and % do it.
LEMMA DivMod ==
    ASSUME NEW a \in Nat, NEW b \in Nat \ {0}
    PROVE  /\ a \div b \in Nat
           /\ a % b \in 0..(b - 1)
           /\ a = b * (a \div b) + (a % b)
<1>1. a \div b \in Nat
  OBVIOUS
<1>2. a % b \in 0..(b - 1)
  OBVIOUS
<1>3. a = b * (a \div b) + (a % b)
  OBVIOUS
<1> QED
  BY <1>1, <1>2, <1>3

\* ksnSplitPacket cuts a packet into data of MAX_DATA_LEN and a rest that is
\* not empty and not longer.
THEOREM SubpacketLengths ==
    ASSUME NEW len \in Nat \ {0}
    PROVE  LET n == NumSubpackets(len)
           IN  /\ n \in Nat \ {0}
               /\ DataLen(len, n - 1, n) \in 1..MaxData
               /\ len = MaxData * (n - 1) + DataLen(len, n - 1, n)
<1> DEFINE d == len \div MaxData
           r == len % MaxData
<1>1. /\ d \in Nat
      /\ r \in 0..(MaxData - 1)
      /\ len = MaxData * d + r
  BY SplitAssumption, DivMod
<1>2. /\ NumSubpackets(len) = d + (IF r = 0 THEN 0 ELSE 1)
      /\ DataLen(len, NumSubpackets(len) - 1, NumSubpackets(len))
            = len - MaxData * (NumSubpackets(len) - 1)
  BY DEF NumSubpackets, DataLen
<1> HIDE DEF d, r
<1> MaxData \in Nat \ {0}
  BY SplitAssumption
<1>3. CASE r = 0
  <2>1. d # 0
    <3> SUFFICES ASSUME d = 0 PROVE FALSE
      OBVIOUS
    <3>1. MaxData * d = 0
      OBVIOUS
    <3> QED
      BY <3>1, <1>1, <1>3
  <2>2. d - 1 \in Nat
    BY <1>1, <2>1
  <2>3. MaxData * d = MaxData * (d - 1) + MaxData
    BY <1>1
  <2>4. MaxData * (d - 1) \in Int
    BY <2>2
  <2>5. NumSubpackets(len) = d
    BY <1>1, <1>2, <1>3
  <2>6. DataLen(len, d - 1, d) = len - MaxData * (d - 1)
    BY <1>2, <2>5
  <2>7. len = MaxData * (d - 1) + MaxData
    BY <1>1, <1>3, <2>3, <2>4
  <2>8. DataLen(len, d - 1, d) = MaxData
    BY <2>4, <2>6, <2>7
  <2>9. /\ d \in Nat \ {0}
        /\ DataLen(len, d - 1, d) \in 1..MaxData
        /\ len = MaxData * (d - 1) + DataLen(len, d - 1, d)
    BY <1>1, <2>1, <2>7, <2>8
  <2> QED
    BY <2>5, <2>9
<1>4. CASE r # 0
  BY <1>1, <1>2, <1>4
<1> QED
  BY <1>3, <1>4

\* The length check of ksnCoreSendto keeps subpacket numbers below the flag.
THEOREM SubpacketNumbersFit ==
    ASSUME NEW len \in Nat, len > MaxData, SizeOk(len)
    PROVE  NumSubpackets(len) \in 2..LastFlag
<1> DEFINE d == len \div MaxData
           r == len % MaxData
<1>1. /\ d \in Nat
      /\ r \in 0..(MaxData - 1)
      /\ len = MaxData * d + r
  BY SplitAssumption, DivMod
<1>2. NumSubpackets(len) = d + (IF r = 0 THEN 0 ELSE 1)
  BY DEF NumSubpackets
<1>3. /\ MaxData \in Nat \ {0}
      /\ LastFlag \in Nat
      /\ MaxPacket \in Nat
      /\ len + MaxData <= MaxPacket
      /\ MaxPacket <= MaxData * LastFlag
  BY SplitAssumption DEF SizeOk
<1> HIDE DEF d, r
<1>4. d + 1 <= LastFlag
  <2> SUFFICES ASSUME LastFlag <= d PROVE FALSE
    BY <1>1, <1>3
  <2>1. MaxData * LastFlag <= MaxData * d
    BY <1>1, <1>3
  <2>2. MaxData * LastFlag \in Int /\ MaxData * d \in Int
    BY <1>1, <1>3
  <2> QED
    BY <1>1, <1>3, <2>1, <2>2
<1>5. d >= 1
  <2> SUFFICES ASSUME d = 0 PROVE FALSE
    BY <1>1
  <2>1. MaxData * d = 0
    BY <1>3
  <2> QED
    BY <1>1, <1>3, <2>1
<1>6. r = 0 => d >= 2
  <2> SUFFICES ASSUME r = 0, d = 1 PROVE FALSE
    BY <1>1, <1>5
  <2>1. MaxData * d = MaxData
    BY <1>3
  <2> QED
    BY <1>1, <1>3, <2>1
<1> QED
  BY <1>1, <1>2, <1>3, <1>4, <1>5, <1>6

LEMMA SmallRest ==
    ASSUME NEW b \in Nat \ {0}, NEW a \in 0..(b - 1), NEW d \in Nat, NEW r \in Nat,
           a = b * d + r
    PROVE  r = a
<1>1. d = 0
  <2> SUFFICES ASSUME d >= 1 PROVE FALSE
    OBVIOUS
  <2>1. b * d >= b /\ b * d \in Int
    OBVIOUS
  <2> QED
    BY <2>1
<1>2. b * d = 0
  BY <1>1
<1> QED
  BY <1>2

LEMMA SmallMod ==
    ASSUME NEW b \in Nat \ {0}, NEW a \in 0..(b - 1)
    PROVE  a % b = a
<1>1. a \in Nat
  OBVIOUS
<1>2. a \div b \in Nat /\ a % b \in Nat /\ a = b * (a \div b) + (a % b)
  BY <1>1, DivMod
<1> QED
  BY <1>2, SmallRest

LEMMA OneElement ==
    ASSUME NEW S, NEW e \in S
    PROVE  <<e>> \in Seq(S) /\ Len(<<e>>) = 1
  OBVIOUS

\* What ksnCoreSendto makes of one packet: subpackets numbered from 0, with the
\* flag in the last.
LEMMA NewPackets ==
    ASSUME NEW s \in Nat, NEW num \in 0..(Numbers - 1), NEW len \in Nat, SizeOk(len),
           NEW new, new = IF len > MaxData THEN SplitPacket(s, num, len) ELSE Small(s)
    PROVE  /\ NumParts(len) \in Nat \ {0}
           /\ new \in Seq(Packet)
           /\ Len(new) = NumParts(len)
           /\ \A k \in 1..NumParts(len) :
                /\ new[k].cmd = "SPLIT" <=> len > MaxData
                /\ new[k].num = new[1].num
                /\ new[k].sub = k - 1
                /\ new[k].part = [msg |-> s, sub |-> k - 1]
                /\ new[k].last = 1 <=> k = NumParts(len)
<1> USE SplitAssumption
<1>1. CASE len > MaxData
  <2> DEFINE n == NumSubpackets(len)
  <2>1. n \in 2..LastFlag /\ NumParts(len) = n /\ n \in Nat
    BY <1>1, SubpacketNumbersFit DEF NumParts
  <2> HIDE DEF n
  <2>2. \A k \in 1..n : Subpacket(s, num, k - 1, n) =
            [cmd |-> "SPLIT", num |-> num, sub |-> k - 1, last |-> IF k = n THEN 1 ELSE 0,
             part |-> [msg |-> s, sub |-> k - 1]]
    <3> SUFFICES ASSUME NEW k \in 1..n
                 PROVE  /\ (k - 1) % LastFlag = k - 1
                        /\ (k - 1 = n - 1 \/ k - 1 >= LastFlag) <=> k = n
      BY DEF Subpacket
    <3>1. (k - 1) % LastFlag = k - 1
      BY <2>1, SmallMod
    <3> QED
      BY <2>1, <3>1
  <2>3. new = [k \in 1..n |-> Subpacket(s, num, k - 1, n)]
    BY <1>1 DEF SplitPacket, n
  <2>4. \A k \in 1..n : Subpacket(s, num, k - 1, n) \in Packet
    <3> SUFFICES ASSUME NEW k \in 1..n
                 PROVE  [cmd |-> "SPLIT", num |-> num, sub |-> k - 1, last |-> IF k = n THEN 1 ELSE 0,
                         part |-> [msg |-> s, sub |-> k - 1]] \in Packet
      BY <2>2
    <3>1. k - 1 \in Nat /\ k - 1 \in 0..(LastFlag - 1)
      BY <2>1
    <3>2. [msg |-> s, sub |-> k - 1] \in Part
      BY <3>1 DEF Part
    <3> QED
      BY <3>1, <3>2 DEF Packet
  <2>5. new \in Seq(Packet) /\ Len(new) = n
    <3>1. n \in Nat
      BY <2>1
    <3> QED
      BY <3>1, <2>3, <2>4, SMTT(30)
  <2>6. \A k \in 1..n : new[k] = [cmd |-> "SPLIT", num |-> num, sub |-> k - 1, last |-> IF k = n THEN 1 ELSE 0,
                                  part |-> [msg |-> s, sub |-> k - 1]]
    BY <2>2, <2>3
  <2>7. 1 \in 1..n
    BY <2>1
  <2>8. ASSUME NEW k \in 1..n
        PROVE  /\ new[k].cmd = "SPLIT" <=> len > MaxData
               /\ new[k].num = new[1].num
               /\ new[k].sub = k - 1
               /\ new[k].part = [msg |-> s, sub |-> k - 1]
               /\ new[k].last = 1 <=> k = n
    <3>1. new[k] = [cmd |-> "SPLIT", num |-> num, sub |-> k - 1, last |-> IF k = n THEN 1 ELSE 0,
                    part |-> [msg |-> s, sub |-> k - 1]]
      BY <2>6
    <3>2. new[1] = [cmd |-> "SPLIT", num |-> num, sub |-> 1 - 1, last |-> IF 1 = n THEN 1 ELSE 0,
                    part |-> [msg |-> s, sub |-> 1 - 1]]
      BY <2>6, <2>7
    <3>3. new[k].cmd = "SPLIT"
      BY <3>1
    <3>4. new[k].num = num /\ new[1].num = num
      BY <3>1, <3>2
    <3>5. new[k].sub = k - 1
      BY <3>1
    <3>6. new[k].part = [msg |-> s, sub |-> k - 1]
      BY <3>1
    <3>7. new[k].last = 1 <=> k = n
      BY <3>1
    <3> QED
      BY <1>1, <3>3, <3>4, <3>5, <3>6, <3>7
  <2>9. n \in Nat \ {0}
    BY <2>1
  <2> QED
    BY <2>1, <2>5, <2>8, <2>9, Zenon
<1>2. CASE ~(len > MaxData)
  <2>1. NumParts(len) = 1
    BY <1>2 DEF NumParts
  <2>2. new = <<[cmd |-> "OTHER", num |-> 0, sub |-> 0, last |-> 1,
                 part |-> [msg |-> s, sub |-> 0]]>>
    BY <1>2 DEF Small
  <2>3. [cmd |-> "OTHER", num |-> 0, sub |-> 0, last |-> 1,
         part |-> [msg |-> s, sub |-> 0]] \in Packet
    BY DEF Packet, Part
  <2>4. new \in Seq(Packet) /\ Len(new) = 1
    BY <2>2, <2>3, OneElement
  <2>5. /\ new[1].cmd = "OTHER"
        /\ new[1].sub = 0
        /\ new[1].part = [msg |-> s, sub |-> 0]
        /\ new[1].last = 1
    BY <2>2
  <2>6. \A k \in 1..1 : k = 1 /\ k - 1 = 0
    OBVIOUS
  <2>7. \A k \in 1..1 :
            /\ new[k].cmd = "SPLIT" <=> len > MaxData
            /\ new[k].num = new[1].num
            /\ new[k].sub = k - 1
            /\ new[k].part = [msg |-> s, sub |-> k - 1]
            /\ new[k].last = 1 <=> k = 1
    BY <1>2, <2>5, <2>6, Zenon
  <2> QED
    BY <2>1, <2>4, <2>7
<1> QED
  BY <1>1, <1>2

-----------------------------------------------------------------------------
(* What is on its way from p after p has sent one more packet.             *)
LEMMA Sent ==
    ASSUME IInv, NEW p \in Peer, NEW len \in Lengths, Send(p, len)
    PROVE  LET s == Len(sent) + 1
               old == Len(chan[p])
               n == NumParts(len)
           IN  /\ s \in Nat \ {0} /\ old \in Nat /\ n \in Nat \ {0}
               /\ sent' \in Seq([from : Peer, len : Nat])
               /\ DOMAIN sent' = DOMAIN sent \cup {s}
               /\ DOMAIN sent = 1..(s - 1)
               /\ sent'[s].from = p /\ sent'[s].len = len
               /\ \A t \in DOMAIN sent : sent'[t] = sent[t]
               /\ chan' \in [Peer -> Seq(Packet)]
               /\ \A q \in Peer \ {p} : chan'[q] = chan[q]
               /\ DOMAIN chan[p] = 1..old
               /\ Len(chan'[p]) = old + n /\ DOMAIN chan'[p] = 1..(old + n)
               /\ \A i \in 1..old : chan'[p][i] = chan[p][i]
               /\ \A k \in 1..n :
                    /\ chan'[p][old + k].cmd = "SPLIT" <=> len > MaxData
                    /\ chan'[p][old + k].num = chan'[p][old + 1].num
                    /\ chan'[p][old + k].sub = k - 1
                    /\ chan'[p][old + k].part = [msg |-> s, sub |-> k - 1]
                    /\ chan'[p][old + k].last = 1 <=> k = n
<1> DEFINE s == Len(sent) + 1
           old == Len(chan[p])
           n == NumParts(len)
           new == IF len > MaxData THEN SplitPacket(s, number[p], len) ELSE Small(s)
           item == [from |-> p, len |-> len]
<1>1. /\ sent \in Seq([from : Peer, len : Nat])
      /\ chan \in [Peer -> Seq(Packet)]
      /\ chan[p] \in Seq(Packet)
      /\ number[p] \in 0..(Numbers - 1)
      /\ len \in Nat
  BY SplitAssumption DEF IInv, TypeOK
<1>2. /\ sent' = Append(sent, item)
      /\ chan' = [chan EXCEPT ![p] = chan[p] \o new]
      /\ SizeOk(len)
  BY DEF Send
<1>3. Len(sent) \in Nat /\ old \in Nat /\ s \in Nat \ {0}
  BY <1>1
<1>4. /\ n \in Nat \ {0}
      /\ new \in Seq(Packet)
      /\ Len(new) = n
      /\ \A k \in 1..n :
            /\ new[k].cmd = "SPLIT" <=> len > MaxData
            /\ new[k].num = new[1].num
            /\ new[k].sub = k - 1
            /\ new[k].part = [msg |-> s, sub |-> k - 1]
            /\ new[k].last = 1 <=> k = n
  <2>1. new = IF len > MaxData THEN SplitPacket(s, number[p], len) ELSE Small(s)
    OBVIOUS
  <2>2. s \in Nat
    BY <1>3
  <2>3. number[p] \in 0..(Numbers - 1) /\ len \in Nat /\ SizeOk(len)
    BY <1>1, <1>2
  <2> HIDE DEF new, s
  <2> QED
    BY <2>1, <2>2, <2>3, NewPackets
<1> HIDE DEF new, n
<1>5. /\ sent' \in Seq([from : Peer, len : Nat])
      /\ Len(sent') = s
      /\ sent'[s] = item
      /\ \A t \in 1..Len(sent) : sent'[t] = sent[t]
  <2>1. item \in [from : Peer, len : Nat]
    BY <1>1
  <2> HIDE DEF item
  <2> QED
    BY <1>1, <1>2, <2>1, AppendProperties
<1>6. DOMAIN sent' = 1..s /\ DOMAIN sent = 1..(s - 1)
  BY <1>1, <1>3, <1>5
<1>7. /\ chan[p] \o new \in Seq(Packet)
      /\ Len(chan[p] \o new) = old + n
      /\ \A i \in 1..(old + n) :
            (chan[p] \o new)[i] = IF i <= old THEN chan[p][i] ELSE new[i - old]
  <2>1. /\ chan[p] \o new \in Seq(Packet)
        /\ Len(chan[p] \o new) = Len(chan[p]) + Len(new)
        /\ \A i \in 1..(Len(chan[p]) + Len(new)) :
              (chan[p] \o new)[i] =
                  IF i <= Len(chan[p]) THEN chan[p][i] ELSE new[i - Len(chan[p])]
    <3>1. chan[p] \in Seq(Packet) /\ new \in Seq(Packet)
      BY <1>1, <1>4
    <3> QED
      BY <3>1, ConcatProperties, Zenon
  <2> QED
    BY <1>4, <2>1
<1>8. /\ chan' \in [Peer -> Seq(Packet)]
      /\ chan'[p] = chan[p] \o new
      /\ \A q \in Peer \ {p} : chan'[q] = chan[q]
  BY <1>1, <1>2, <1>7
<1>9. Len(chan'[p]) = old + n /\ DOMAIN chan'[p] = 1..(old + n) /\ DOMAIN chan[p] = 1..old
  BY <1>1, <1>7, <1>8
<1>10. \A i \in 1..old : chan'[p][i] = chan[p][i]
  BY <1>3, <1>4, <1>7, <1>8
<1>11. \A k \in 1..n : chan'[p][old + k] = new[k]
  <2> SUFFICES ASSUME NEW k \in 1..n PROVE chan'[p][old + k] = new[k]
    OBVIOUS
  <2>1. old + k \in 1..(old + n) /\ ~(old + k <= old) /\ (old + k) - old = k
    BY <1>3, <1>4
  <2> QED
    BY <1>7, <1>8, <2>1
<1>12. 1 \in 1..n
  BY <1>4
<1> HIDE DEF item
<1>13. sent'[s].from = p /\ sent'[s].len = len
  BY <1>5 DEF item
<1> HIDE DEF s, old
<1> QED
  <2>1. \A k \in 1..n :
            /\ chan'[p][old + k].cmd = "SPLIT" <=> len > MaxData
            /\ chan'[p][old + k].num = chan'[p][old + 1].num
            /\ chan'[p][old + k].sub = k - 1
            /\ chan'[p][old + k].part = [msg |-> s, sub |-> k - 1]
            /\ chan'[p][old + k].last = 1 <=> k = n
    BY <1>4, <1>11, <1>12
  <2>2. DOMAIN sent' = DOMAIN sent \cup {s}
    BY <1>3, <1>6 DEF s
  <2>3. DOMAIN sent = 1..(s - 1) /\ \A t \in DOMAIN sent : sent'[t] = sent[t]
    BY <1>5, <1>6 DEF s
  <2>4. /\ s \in Nat \ {0} /\ old \in Nat /\ n \in Nat \ {0}
        /\ sent' \in Seq([from : Peer, len : Nat])
        /\ chan' \in [Peer -> Seq(Packet)]
        /\ \A q \in Peer \ {p} : chan'[q] = chan[q]
        /\ DOMAIN chan[p] = 1..old
        /\ Len(chan'[p]) = old + n /\ DOMAIN chan'[p] = 1..(old + n)
        /\ \A i \in 1..old : chan'[p][i] = chan[p][i]
    BY <1>3, <1>4, <1>5, <1>8, <1>9, <1>10
  <2> QED
    BY <1>13, <2>1, <2>2, <2>3, <2>4, Zenon DEF s, old, n

LEMMA SeqElement ==
    ASSUME NEW S, NEW q \in Seq(S), NEW k \in DOMAIN q
    PROVE  q[k] \in S
  OBVIOUS

LEMMA Types ==
    ASSUME TypeOK
    PROVE  /\ chan \in [Peer -> Seq(Packet)]
           /\ got \in Seq([from : Peer, parts : Seq(Part)])
           /\ \A q \in Peer : Len(chan[q]) \in Nat /\ DOMAIN chan[q] = 1..Len(chan[q])
           /\ \A q \in Peer : \A i \in DOMAIN chan[q] : chan[q][i] \in Packet
           /\ \A k \in DOMAIN got : got[k].from \in Peer
<1>1. chan \in [Peer -> Seq(Packet)] /\ got \in Seq([from : Peer, parts : Seq(Part)])
  BY DEF TypeOK
<1>2. ASSUME NEW q \in Peer
      PROVE  /\ Len(chan[q]) \in Nat /\ DOMAIN chan[q] = 1..Len(chan[q])
             /\ \A i \in DOMAIN chan[q] : chan[q][i] \in Packet
  <2>1. chan[q] \in Seq(Packet)
    BY <1>1
  <2> QED
    BY <2>1
<1>3. ASSUME NEW k \in DOMAIN got PROVE got[k].from \in Peer
  <2>1. got[k] \in [from : Peer, parts : Seq(Part)]
    BY <1>1, SeqElement, Zenon
  <2> QED
    BY <2>1
<1> QED
  BY <1>1, <1>2, <1>3

LEMMA PartsNat == \A len \in Nat : NumParts(len) \in Nat \ {0}
<1> SUFFICES ASSUME NEW len \in Nat PROVE NumParts(len) \in Nat \ {0}
  OBVIOUS
<1>1. CASE len > MaxData
  <2>1. len \in Nat \ {0}
    BY <1>1, SplitAssumption
  <2>2. NumSubpackets(len) \in Nat \ {0}
    BY <2>1, SubpacketLengths
  <2> QED
    BY <1>1, <2>2 DEF NumParts
<1>2. CASE ~(len > MaxData)
  BY <1>2 DEF NumParts
<1> QED
  BY <1>1, <1>2

\* What was processed has a serial number, and comes from who has sent it.
LEMMA GotWasSent ==
    ASSUME TypeOK, NoMix, NEW k \in DOMAIN got
    PROVE  /\ got[k].parts[1].msg \in DOMAIN sent
           /\ sent[got[k].parts[1].msg].from = got[k].from
<1>1. PICK s \in DOMAIN sent : got[k] = [from |-> sent[s].from, parts |-> Whole(s)]
  BY DEF NoMix
<1>2. sent[s].len \in Nat
  <2>1. sent \in Seq([from : Peer, len : Nat])
    BY DEF TypeOK
  <2>2. sent[s] \in [from : Peer, len : Nat]
    BY <2>1, SeqElement, Zenon
  <2> QED
    BY <2>2
<1>3. 1 \in 1..NumParts(sent[s].len)
  BY <1>2, PartsNat
<1>4. Whole(s)[1] = [msg |-> s, sub |-> 1 - 1]
  BY <1>3 DEF Whole
<1>5. got[k].parts[1].msg = s
  BY <1>1, <1>4
<1> QED
  BY <1>1, <1>5

\* A packet's record in "sent" never changes: what was genuine stays so.
LEMMA StaysGenuine ==
    ASSUME NEW log, NEW longer, NEW q, NEW m, Genuine(log, q, m),
           DOMAIN log \subseteq DOMAIN longer,
           \A t \in DOMAIN log : longer[t] = log[t]
    PROVE  Genuine(longer, q, m)
  BY DEF Genuine

LEMMA SendIInv ==
    ASSUME IInv, NEW p \in Peer, NEW len \in Lengths, Send(p, len)
    PROVE  IInv'
<1> DEFINE s == Len(sent) + 1
           old == Len(chan[p])
           n == NumParts(len)
<1>1. /\ s \in Nat \ {0} /\ old \in Nat /\ n \in Nat \ {0}
      /\ sent' \in Seq([from : Peer, len : Nat])
      /\ DOMAIN sent' = DOMAIN sent \cup {s}
      /\ DOMAIN sent = 1..(s - 1)
      /\ sent'[s].from = p /\ sent'[s].len = len
      /\ \A t \in DOMAIN sent : sent'[t] = sent[t]
      /\ chan' \in [Peer -> Seq(Packet)]
      /\ \A q \in Peer \ {p} : chan'[q] = chan[q]
      /\ DOMAIN chan[p] = 1..old
      /\ Len(chan'[p]) = old + n /\ DOMAIN chan'[p] = 1..(old + n)
      /\ \A i \in 1..old : chan'[p][i] = chan[p][i]
  BY Sent
<1>2. \A k \in 1..n :
            /\ chan'[p][old + k].cmd = "SPLIT" <=> len > MaxData
            /\ chan'[p][old + k].num = chan'[p][old + 1].num
            /\ chan'[p][old + k].sub = k - 1
            /\ chan'[p][old + k].part = [msg |-> s, sub |-> k - 1]
            /\ chan'[p][old + k].last = 1 <=> k = n
  BY Sent
<1>3. UNCHANGED <<map, quiet, got, lapses>>
  BY DEF Send
<1>n. n = NumParts(len)
  OBVIOUS
<1> HIDE DEF s, old, n
<1>4. /\ chan \in [Peer -> Seq(Packet)]
      /\ got \in Seq([from : Peer, parts : Seq(Part)])
      /\ \A q \in Peer : Len(chan[q]) \in Nat /\ DOMAIN chan[q] = 1..Len(chan[q])
      /\ \A k \in DOMAIN got : got[k].from \in Peer
  BY Types DEF IInv
<1>msg. \A k \in 1..n : chan'[p][old + k].part.msg = s
  <2> SUFFICES ASSUME NEW k \in 1..n PROVE chan'[p][old + k].part.msg = s
    OBVIOUS
  <2>1. chan'[p][old + k].part = [msg |-> s, sub |-> k - 1]
    BY <1>2, Zenon
  <2> QED
    BY <2>1
<1>old. \A q \in Peer : \A i \in DOMAIN chan[q] : chan[q][i].part.msg \in 1..(s - 1)
  BY <1>1 DEF IInv, ChanOK, Genuine
<1>5. \A i \in 1..(old + n) : i \in 1..old \/ \E k \in 1..n : i = old + k
  <2> SUFFICES ASSUME NEW i \in 1..(old + n), i > old PROVE i - old \in 1..n /\ i = old + (i - old)
    BY <1>1
  <2> QED
    BY <1>1
<1>first. chan'[p][old + 1].sub = 0
  <2>1. 1 \in 1..n
    BY <1>1
  <2>2. chan'[p][old + 1].sub = 1 - 1
    BY <1>2, <2>1, Zenon
  <2> QED
    BY <2>2
<1>6. TypeOK'
  <2>1. number' \in [Peer -> 0..(Numbers - 1)]
    <3>1. number \in [Peer -> 0..(Numbers - 1)]
      BY DEF IInv, TypeOK
    <3>2. \A x \in 0..(Numbers - 1) : NextNumber(x) \in 0..(Numbers - 1)
      BY SplitAssumption, DivMod DEF NextNumber
    <3> QED
      BY <3>1, <3>2 DEF Send
  <2> QED
    BY <1>1, <1>3, <2>1 DEF IInv, TypeOK
<1>7. NoMix'
  <2>1. \A t \in DOMAIN sent : Whole(t)' = Whole(t) /\ sent'[t].from = sent[t].from
    BY <1>1 DEF Whole
  <2>2. \A k \in DOMAIN got : \E t \in DOMAIN sent :
            got[k] = [from |-> sent[t].from, parts |-> Whole(t)]
    BY DEF IInv, NoMix
  <2>3. got' = got /\ DOMAIN sent \subseteq DOMAIN sent'
    BY <1>1, <1>3
  <2>4. \A k \in DOMAIN got' : \E t \in DOMAIN sent' :
            got'[k] = [from |-> sent'[t].from, parts |-> Whole(t)']
    <3> SUFFICES ASSUME NEW k \in DOMAIN got
                 PROVE  \E t \in DOMAIN sent' :
                            got[k] = [from |-> sent'[t].from, parts |-> Whole(t)']
      BY <2>3
    <3>1. PICK t \in DOMAIN sent : got[k] = [from |-> sent[t].from, parts |-> Whole(t)]
      BY <2>2
    <3>2. t \in DOMAIN sent' /\ Whole(t)' = Whole(t) /\ sent'[t].from = sent[t].from
      BY <2>1, <2>3
    <3> QED
      BY <3>1, <3>2
  <2> QED
    BY <2>4 DEF NoMix
<1>8. ChanOK'
  <2> SUFFICES ASSUME NEW q \in Peer, NEW i \in DOMAIN chan'[q]
               PROVE  /\ Genuine(sent', q, chan'[q][i])
                      /\ IF i < Len(chan'[q]) THEN Follows(chan'[q][i], chan'[q][i + 1])
                         ELSE chan'[q][i].last = 1
    BY DEF ChanOK
  <2>a. DOMAIN sent \subseteq DOMAIN sent' /\ \A t \in DOMAIN sent : sent'[t] = sent[t]
    BY <1>1
  <2>1. CASE q # p
    <3>1. chan'[q] = chan[q]
      BY <1>1, <2>1
    <3>2. /\ Genuine(sent, q, chan[q][i])
          /\ IF i < Len(chan[q]) THEN Follows(chan[q][i], chan[q][i + 1])
             ELSE chan[q][i].last = 1
      BY <3>1 DEF IInv, ChanOK
    <3> QED
      BY <2>a, <3>1, <3>2, StaysGenuine
  <2>2. CASE q = p /\ i \in 1..old
    <3>1. Genuine(sent, p, chan[p][i])
      BY <1>1, <2>2 DEF IInv, ChanOK
    <3>2. Genuine(sent', p, chan'[p][i])
      <4>1. chan'[p][i] = chan[p][i]
        BY <1>1, <2>2
      <4>2. Genuine(sent', p, chan[p][i])
        BY <2>a, <3>1, StaysGenuine
      <4> QED
        BY <4>1, <4>2
    <3>3. i < Len(chan'[p])
      BY <1>1, <2>2
    <3>4. CASE i < old
      <4>1. i \in DOMAIN chan[p] /\ i < Len(chan[p]) /\ i \in 1..old /\ i + 1 \in 1..old
        BY <1>1, <2>2, <3>4 DEF old
      <4>2. Follows(chan[p][i], chan[p][i + 1])
        BY <4>1 DEF IInv, ChanOK
      <4>3. chan'[p][i] = chan[p][i] /\ chan'[p][i + 1] = chan[p][i + 1]
        BY <1>1, <4>1
      <4> QED
        BY <2>2, <3>2, <3>3, <4>2, <4>3
    <3>5. CASE i = old
      <4>1. chan[p][old].last = 1
        BY <1>1, <2>2, <3>5 DEF IInv, ChanOK, old
      <4>2. chan'[p][old + 1].sub = 0
        BY <1>first
      <4> QED
        BY <1>1, <2>2, <3>2, <3>3, <3>5, <4>1, <4>2 DEF Follows
    <3> QED
      BY <1>1, <2>2, <3>4, <3>5
  <2>3. CASE q = p /\ \E k \in 1..n : i = old + k
    <3>1. PICK k \in 1..n : i = old + k
      BY <2>3
    <3>2. /\ chan'[p][i].part = [msg |-> s, sub |-> k - 1]
          /\ chan'[p][i].sub = k - 1
          /\ chan'[p][i].cmd = "SPLIT" <=> len > MaxData
          /\ chan'[p][i].last = 1 <=> k = n
          /\ chan'[p][i].num = chan'[p][old + 1].num
      BY <1>2, <3>1
    <3>3. Genuine(sent', p, chan'[p][i])
      <4>1. chan'[p][i].part.msg = s /\ chan'[p][i].part.sub = k - 1
        BY <3>2
      <4>2. NumParts(sent'[s].len) = n
        BY <1>1, <1>n
      <4>3. k - 1 < n /\ (k = n <=> k - 1 = n - 1)
        BY <1>1
      <4> QED
        BY <1>1, <3>2, <4>1, <4>2, <4>3 DEF Genuine, NumParts, NumSubpackets
    <3>4. CASE k = n
      BY <1>1, <2>3, <3>1, <3>2, <3>3, <3>4
    <3>5. CASE k # n
      <4>1. k + 1 \in 1..n /\ i + 1 = old + (k + 1)
        BY <1>1, <3>1, <3>5
      <4>2. /\ chan'[p][i + 1].part = [msg |-> s, sub |-> (k + 1) - 1]
            /\ chan'[p][i + 1].sub = (k + 1) - 1
            /\ chan'[p][i + 1].num = chan'[p][old + 1].num
        BY <1>2, <4>1
      <4>3. (k + 1) - 1 = (k - 1) + 1 /\ i < Len(chan'[p])
        BY <1>1, <4>1
      <4>4. Follows(chan'[p][i], chan'[p][i + 1])
        BY <3>2, <3>5, <4>2, <4>3 DEF Follows
      <4> QED
        BY <2>3, <3>3, <4>3, <4>4
    <3> QED
      BY <3>4, <3>5
  <2> QED
    BY <1>1, <1>5, <2>1, <2>2, <2>3
<1>9. ChanInOrder'
  <2> SUFFICES ASSUME NEW q \in Peer, NEW i \in DOMAIN chan'[q], NEW j \in DOMAIN chan'[q], i < j
               PROVE  /\ chan'[q][i].part.msg <= chan'[q][j].part.msg
                      /\ chan'[q][i].last = 1 => chan'[q][i].part.msg < chan'[q][j].part.msg
    BY DEF ChanInOrder
  <2>1. CASE q # p
    <3>1. chan'[q] = chan[q]
      BY <1>1, <2>1
    <3> QED
      BY <3>1 DEF IInv, ChanInOrder
  <2>2. CASE q = p /\ i \in 1..old /\ j \in 1..old
    <3>1. /\ chan'[p][i] = chan[p][i] /\ chan'[p][j] = chan[p][j]
          /\ i \in DOMAIN chan[p] /\ j \in DOMAIN chan[p]
      BY <1>1, <2>2
    <3> QED
      BY <2>2, <3>1 DEF IInv, ChanInOrder
  <2>3. CASE q = p /\ i \in 1..old /\ \E k \in 1..n : j = old + k
    <3>1. chan'[p][i].part.msg \in 1..(s - 1)
      BY <1>1, <1>old, <2>3
    <3>2. chan'[p][j].part.msg = s
      BY <1>msg, <2>3
    <3> QED
      BY <1>1, <2>3, <3>1, <3>2
  <2>4. CASE q = p /\ \E k \in 1..n : i = old + k
    <3>1. PICK k \in 1..n : i = old + k
      BY <2>4
    <3>2. PICK l \in 1..n : j = old + l
      <4>1. j \in 1..(old + n) /\ j > old
        BY <1>1, <2>4, <3>1
      <4>2. j - old \in 1..n /\ j = old + (j - old)
        BY <1>1, <4>1
      <4> QED
        BY <4>2, Zenon
    <3>3. k # n
      BY <1>1, <3>1, <3>2
    <3>4. chan'[p][i].part.msg = s /\ chan'[p][j].part.msg = s /\ ~(chan'[p][i].last = 1)
      BY <1>2, <1>msg, <3>1, <3>2, <3>3
    <3> QED
      BY <1>1, <2>4, <3>4
  <2> QED
    BY <1>1, <1>5, <2>1, <2>2, <2>3, <2>4
<1>10. MapOK'
  <2> SUFFICES ASSUME NEW q \in Peer, chan'[q] # <<>>, NEW i \in 0..(LastFlag - 1),
                      i < chan'[q][1].sub, Key(q, chan'[q][1].num, i) \in DOMAIN map
               PROVE  map[Key(q, chan'[q][1].num, i)] = [msg |-> chan'[q][1].part.msg, sub |-> i]
    BY <1>3 DEF MapOK, Key
  <2>1. CASE q # p
    <3>1. chan'[q] = chan[q]
      BY <1>1, <2>1
    <3> QED
      BY <3>1 DEF IInv, MapOK
  <2>2. CASE q = p /\ old = 0
    <3>1. chan'[p][1].sub = 0
      BY <1>first, <2>2
    <3> QED
      BY <2>2, <3>1
  <2>3. CASE q = p /\ old # 0
    <3>1. 1 \in 1..old
      BY <1>1, <2>3
    <3>2. chan'[p][1] = chan[p][1]
      BY <1>1, <3>1
    <3>3. chan[p] # <<>>
      BY <2>3 DEF old
    <3> QED
      BY <2>3, <3>2, <3>3 DEF IInv, MapOK
  <2> QED
    BY <2>1, <2>2, <2>3
<1>11. GotBefore'
  <2> SUFFICES ASSUME NEW k \in DOMAIN got, NEW i \in DOMAIN chan'[got[k].from]
               PROVE  got[k].parts[1].msg < chan'[got[k].from][i].part.msg
    BY <1>3 DEF GotBefore
  <2>1. got[k].parts[1].msg \in 1..(s - 1)
    BY <1>1, GotWasSent DEF IInv
  <2>2. got[k].from \in Peer
    BY <1>4
  <2>3. CASE got[k].from # p
    <3>1. chan'[got[k].from] = chan[got[k].from]
      BY <1>1, <2>2, <2>3
    <3> QED
      BY <3>1 DEF IInv, GotBefore
  <2>4. CASE got[k].from = p /\ i \in 1..old
    BY <1>1, <2>4 DEF IInv, GotBefore
  <2>5. CASE got[k].from = p /\ \E l \in 1..n : i = old + l
    <3>1. PICK l \in 1..n : i = old + l
      BY <2>5
    <3>2. chan'[p][i].part.msg = s
      BY <1>msg, <3>1
    <3> QED
      BY <1>1, <2>1, <2>5, <3>2
  <2> QED
    BY <1>1, <1>5, <2>2, <2>3, <2>4, <2>5
<1> QED
  BY <1>6, <1>7, <1>8, <1>9, <1>10, <1>11 DEF IInv

-----------------------------------------------------------------------------
(* What is on its way from p after the receiver has taken a packet from it. *)
LEMMA Received ==
    ASSUME IInv, NEW p \in Peer, Receive(p)
    PROVE  LET m == chan[p][1]
               old == Len(chan[p])
           IN  /\ old \in Nat \ {0} /\ DOMAIN chan[p] = 1..old
               /\ Head(chan[p]) = m
               /\ m \in Packet
               /\ Genuine(sent, p, m)
               /\ chan' \in [Peer -> Seq(Packet)]
               /\ \A q \in Peer \ {p} : chan'[q] = chan[q]
               /\ Len(chan'[p]) = old - 1 /\ DOMAIN chan'[p] = 1..(old - 1)
               /\ \A i \in 1..(old - 1) : chan'[p][i] = chan[p][i + 1]
<1> DEFINE m == chan[p][1]
           old == Len(chan[p])
           c == chan[p]
<1>1. /\ chan \in [Peer -> Seq(Packet)]
      /\ c \in Seq(Packet)
      /\ c # <<>>
      /\ chan' = [chan EXCEPT ![p] = Tail(c)]
  BY DEF IInv, TypeOK, Receive
<1>2. /\ old \in Nat \ {0} /\ DOMAIN c = 1..old
      /\ Head(c) = m
  <2> HIDE DEF c
  <2>1. Len(c) \in Nat \ {0} /\ DOMAIN c = 1..Len(c) /\ Head(c) = c[1]
    BY <1>1
  <2> QED
    BY <2>1 DEF c
<1>3. 1 \in DOMAIN c
  BY <1>2
<1>4. m \in Packet
  BY <1>1, <1>3, SeqElement, Zenon
<1>5. Genuine(sent, p, m)
  BY <1>3, Zenon DEF IInv, ChanOK
<1>6. /\ Tail(c) \in Seq(Packet)
      /\ Len(Tail(c)) = Len(c) - 1
      /\ \A i \in 1..Len(Tail(c)) : Tail(c)[i] = c[i + 1]
  BY <1>1, HeadTailProperties, Zenon
<1>7. /\ chan' \in [Peer -> Seq(Packet)]
      /\ chan'[p] = Tail(c)
      /\ \A q \in Peer \ {p} : chan'[q] = chan[q]
  BY <1>1, <1>6
<1>8. DOMAIN Tail(c) = 1..(old - 1)
  <2> HIDE DEF c
  <2>1. DOMAIN Tail(c) = 1..Len(Tail(c))
    BY <1>6
  <2> QED
    BY <1>6, <2>1 DEF c
<1> HIDE DEF c
<1>9. Len(chan'[p]) = old - 1 /\ DOMAIN chan'[p] = 1..(old - 1)
      /\ \A i \in 1..(old - 1) : chan'[p][i] = chan[p][i + 1]
  BY <1>6, <1>7, <1>8 DEF c
<1> QED
  BY <1>2, <1>4, <1>5, <1>7, <1>9 DEF c

\* The fields of a packet at the head of a channel.
LEMMA HeadFields ==
    ASSUME IInv, NEW p \in Peer, NEW m \in Packet, Genuine(sent, p, m)
    PROVE  /\ m.num \in 0..(Numbers - 1)
           /\ m.sub \in 0..(LastFlag - 1)
           /\ m.part.msg \in DOMAIN sent
           /\ sent[m.part.msg].from = p
           /\ m.part = [msg |-> m.part.msg, sub |-> m.sub]
           /\ m.part \in Part
           /\ m.last = 1 <=> m.sub + 1 = NumParts(sent[m.part.msg].len)
           /\ m.cmd # "SPLIT" => /\ NumParts(sent[m.part.msg].len) = 1
                                 /\ m.sub = 0
                                 /\ m.last = 1
<1>1. /\ m.num \in 0..(Numbers - 1)
      /\ m.sub \in 0..(LastFlag - 1)
      /\ m.part \in Part
  BY DEF Packet
<1>2. /\ m.part.msg \in DOMAIN sent
      /\ sent[m.part.msg].from = p
      /\ m.part.sub = m.sub
      /\ m.sub < NumParts(sent[m.part.msg].len)
      /\ m.last = 1 <=> m.sub = NumParts(sent[m.part.msg].len) - 1
      /\ m.cmd = "SPLIT" <=> sent[m.part.msg].len > MaxData
  BY Zenon DEF Genuine
<1>3. m.part = [msg |-> m.part.msg, sub |-> m.sub]
  BY <1>1, <1>2 DEF Part
<1>4. NumParts(sent[m.part.msg].len) \in Nat
  <2>1. sent[m.part.msg] \in [from : Peer, len : Nat]
    BY <1>2, SeqElement, Zenon DEF IInv, TypeOK
  <2>2. sent[m.part.msg].len \in Nat
    BY <2>1
  <2> QED
    BY <2>2, PartsNat
<1>5. m.last = 1 <=> m.sub + 1 = NumParts(sent[m.part.msg].len)
  BY <1>1, <1>2, <1>4
<1>6. ASSUME m.cmd # "SPLIT"
      PROVE  NumParts(sent[m.part.msg].len) = 1 /\ m.sub = 0 /\ m.last = 1
  <2>1. NumParts(sent[m.part.msg].len) = 1
    BY <1>2, <1>6 DEF NumParts
  <2> QED
    BY <1>1, <1>2, <2>1
<1> QED
  BY <1>1, <1>2, <1>3, <1>5, <1>6

\* Under the keys of the packet that is being received there are its parts.
LEMMA StoredParts ==
    ASSUME IInv, NEW p \in Peer, Receive(p)
    PROVE  LET m == chan[p][1]
           IN  \A i \in 0..m.sub : Key(p, m.num, i) \in DOMAIN Stored(p, m) =>
                    Stored(p, m)[Key(p, m.num, i)] = [msg |-> m.part.msg, sub |-> i]
<1> DEFINE m == chan[p][1]
           key == Key(p, m.num, m.sub)
<1>1. m \in Packet /\ Genuine(sent, p, m)
  BY Received
<1>2. /\ m.sub \in 0..(LastFlag - 1)
      /\ m.part = [msg |-> m.part.msg, sub |-> m.sub]
  BY <1>1, HeadFields
<1>3. chan[p] # <<>>
  BY DEF Receive
<1> SUFFICES ASSUME NEW i \in 0..m.sub, Key(p, m.num, i) \in DOMAIN Stored(p, m)
             PROVE  Stored(p, m)[Key(p, m.num, i)] = [msg |-> m.part.msg, sub |-> i]
  OBVIOUS
<1>4. Stored(p, m) = [k \in DOMAIN Kept \cup {key} |-> IF k = key THEN m.part ELSE Kept[k]]
  BY Zenon DEF Stored
<1>5. CASE i = m.sub
  <2> HIDE DEF m
  <2>1. Stored(p, m)[key] = m.part
    BY <1>4
  <2> QED
    BY <1>2, <1>5, <2>1
<1>6. CASE i # m.sub
  <2>1. Key(p, m.num, i) # key
    BY <1>6 DEF Key
  <2>2. Key(p, m.num, i) \in DOMAIN Kept
        /\ Stored(p, m)[Key(p, m.num, i)] = Kept[Key(p, m.num, i)]
    <3> HIDE DEF m, key
    <3> QED
      BY <1>4, <2>1
  <2>3. Key(p, m.num, i) \in DOMAIN map /\ Kept[Key(p, m.num, i)] = map[Key(p, m.num, i)]
    BY <2>2 DEF Kept
  <2>4. i \in 0..(LastFlag - 1) /\ i < m.sub
    BY <1>2, <1>6, SplitAssumption
  <2>5. map[Key(p, m.num, i)] = [msg |-> m.part.msg, sub |-> i]
    BY <1>3, <2>3, <2>4 DEF IInv, MapOK
  <2> QED
    BY <2>2, <2>3, <2>5, Zenon
<1> QED
  BY <1>5, <1>6

\* The map after a packet was received holds what it held before or that part.
LEMMA MapAfter ==
    ASSUME IInv, NEW p \in Peer, Receive(p)
    PROVE  LET m == chan[p][1]
           IN  \A k \in DOMAIN map' :
                    \/ k \in DOMAIN map /\ map'[k] = map[k]
                    \/ k = Key(p, m.num, m.sub) /\ map'[k] = m.part
<1> DEFINE m == chan[p][1]
           key == Key(p, m.num, m.sub)
<1>1. Head(chan[p]) = m
  BY Received
<1>2. Stored(p, m) = [k \in DOMAIN Kept \cup {key} |-> IF k = key THEN m.part ELSE Kept[k]]
  BY Zenon DEF Stored
<1> HIDE DEF m, key
<1>3. \A k \in DOMAIN Stored(p, m) :
            \/ k \in DOMAIN map /\ Stored(p, m)[k] = map[k]
            \/ k = key /\ Stored(p, m)[k] = m.part
  BY <1>2 DEF Kept
<1>4. CASE m.cmd # "SPLIT"
  <2>1. map' = map
    BY <1>1, <1>4 DEF Receive
  <2> QED
    BY <1>4, <2>1 DEF m
<1>5. CASE m.cmd = "SPLIT"
  <2>1. map' = Stored(p, m) \/ map' = Taken(p, m)
    BY <1>1, <1>5 DEF Receive, CombineLast
  <2>2. \A k \in DOMAIN Taken(p, m) : k \in DOMAIN Stored(p, m) /\ Taken(p, m)[k] = Stored(p, m)[k]
    BY DEF Taken
  <2>3. \A k \in DOMAIN map' : k \in DOMAIN Stored(p, m) /\ map'[k] = Stored(p, m)[k]
    BY <2>1, <2>2
  <2> QED
    BY <1>3, <2>3 DEF m, key
<1> QED
  BY <1>4, <1>5

\* A packet that is processed is whole, and the one whose last part came.
LEMMA GotAfter ==
    ASSUME IInv, NEW p \in Peer, Receive(p)
    PROVE  LET m == chan[p][1]
           IN  \/ got' = got
               \/ /\ m.last = 1
                  /\ got' = Append(got, [from |-> p, parts |-> Whole(m.part.msg)])
<1> DEFINE m == chan[p][1]
           s == m.part.msg
           n == NumParts(sent[s].len)
<1>1. Head(chan[p]) = m /\ m \in Packet /\ Genuine(sent, p, m)
  BY Received
<1>2. /\ m.sub \in 0..(LastFlag - 1)
      /\ m.part = [msg |-> s, sub |-> m.sub]
      /\ m.last = 1 <=> m.sub + 1 = n
      /\ m.cmd # "SPLIT" => n = 1 /\ m.sub = 0 /\ m.last = 1
  BY <1>1, HeadFields
<1>3. \A i \in 0..m.sub : Key(p, m.num, i) \in DOMAIN Stored(p, m) =>
            Stored(p, m)[Key(p, m.num, i)] = [msg |-> s, sub |-> i]
  BY StoredParts
<1>4. Whole(s) = [k \in 1..n |-> [msg |-> s, sub |-> k - 1]]
  BY DEF Whole
<1> HIDE DEF m, s, n
<1>5. CASE m.cmd # "SPLIT"
  <2>1. got' = Append(got, [from |-> p, parts |-> <<m.part>>])
    BY <1>1, <1>5 DEF Receive
  <2>2. Whole(s) = [k \in 1..1 |-> [msg |-> s, sub |-> 0]]
    BY <1>2, <1>4, <1>5
  <2>3. <<m.part>> = Whole(s)
    BY <1>2, <1>5, <2>2
  <2> QED
    BY <1>2, <1>5, <2>1, <2>3 DEF m, s
<1>6. CASE m.cmd = "SPLIT" /\ ~(m.last = 1 /\ Present(p, m) = 0..m.sub)
  BY <1>1, <1>6 DEF Receive, CombineLast
<1>7. CASE m.cmd = "SPLIT" /\ m.last = 1 /\ Present(p, m) = 0..m.sub
  <2>1. got' = Append(got, Combined(p, m))
    BY <1>1, <1>7 DEF Receive, CombineLast
  <2>2. \A i \in 0..m.sub : Key(p, m.num, i) \in DOMAIN Stored(p, m)
    <3> SUFFICES ASSUME NEW i \in 0..m.sub PROVE Key(p, m.num, i) \in DOMAIN Stored(p, m)
      OBVIOUS
    <3>1. i \in Present(p, m) /\ i \in 0..i
      BY <1>2, <1>7
    <3> QED
      BY <3>1 DEF Present
  <2>3. \A k \in 1..(m.sub + 1) :
            Stored(p, m)[Key(p, m.num, k - 1)] = [msg |-> s, sub |-> k - 1]
    <3> SUFFICES ASSUME NEW k \in 1..(m.sub + 1)
                 PROVE  Stored(p, m)[Key(p, m.num, k - 1)] = [msg |-> s, sub |-> k - 1]
      OBVIOUS
    <3>1. k - 1 \in 0..m.sub
      BY <1>2
    <3> QED
      BY <1>3, <2>2, <3>1, Zenon
  <2>4. Combined(p, m) = [from |-> p, parts |-> [k \in 1..(m.sub + 1) |-> [msg |-> s, sub |-> k - 1]]]
    BY <2>3 DEF Combined
  <2>5. m.sub + 1 = n
    BY <1>2, <1>7
  <2> QED
    BY <1>4, <1>7, <2>1, <2>4, <2>5, Zenon DEF m, s
<1> QED
  BY <1>5, <1>6, <1>7

LEMMA ReceiveTypes ==
    ASSUME IInv, NEW p \in Peer, Receive(p)
    PROVE  TypeOK'
<1> DEFINE m == chan[p][1]
           key == Key(p, m.num, m.sub)
           Place == Peer \X (0..(Numbers - 1)) \X (0..(LastFlag - 1))
<1>1. m \in Packet /\ Genuine(sent, p, m) /\ chan' \in [Peer -> Seq(Packet)]
  BY Received
<1>2. /\ m.num \in 0..(Numbers - 1)
      /\ m.sub \in 0..(LastFlag - 1)
      /\ m.part.msg \in DOMAIN sent
      /\ m.part \in Part
  BY <1>1, HeadFields
<1>3. \A k \in DOMAIN map' :
            \/ k \in DOMAIN map /\ map'[k] = map[k]
            \/ k = key /\ map'[k] = m.part
  BY MapAfter
<1>4. key \in Place
  BY <1>2 DEF Key
<1>5. DOMAIN map \subseteq Place /\ map \in [DOMAIN map -> Part]
  BY DEF IInv, TypeOK
<1>6. map' = [k \in DOMAIN map' |-> map'[k]]
  <2>1. CASE map' = map
    BY <1>5, <2>1
  <2>2. CASE map' = Stored(p, Head(chan[p]))
    BY <2>2 DEF Stored
  <2>3. CASE map' = Taken(p, Head(chan[p]))
    BY <2>3 DEF Taken
  <2> QED
    BY <2>1, <2>2, <2>3 DEF Receive, CombineLast
<1>7. got' \in Seq([from : Peer, parts : Seq(Part)])
  <2>1. CASE got' = got
    BY <2>1 DEF IInv, TypeOK
  <2>2. CASE got' = Append(got, [from |-> p, parts |-> Whole(m.part.msg)])
    <3>1. sent[m.part.msg].len \in Nat /\ m.part.msg \in Nat
      <4>1. sent \in Seq([from : Peer, len : Nat])
        BY DEF IInv, TypeOK
      <4>2. sent[m.part.msg] \in [from : Peer, len : Nat]
        BY <1>2, <4>1, SeqElement, Zenon
      <4>3. m.part.msg \in Nat
        BY <1>2 DEF Part
      <4> QED
        BY <4>2, <4>3
    <3>2. Whole(m.part.msg) \in Seq(Part)
      <4>1. NumParts(sent[m.part.msg].len) \in Nat
        BY <3>1, PartsNat
      <4>2. \A k \in 1..NumParts(sent[m.part.msg].len) : [msg |-> m.part.msg, sub |-> k - 1] \in Part
        BY <3>1, <4>1 DEF Part
      <4> HIDE DEF m
      <4> QED
        BY <4>1, <4>2 DEF Whole
    <3>3. [from |-> p, parts |-> Whole(m.part.msg)] \in [from : Peer, parts : Seq(Part)]
      BY <3>2
    <3>4. got \in Seq([from : Peer, parts : Seq(Part)])
      BY DEF IInv, TypeOK
    <3> QED
      BY <2>2, <3>3, <3>4, AppendProperties, Zenon
  <2> QED
    BY <2>1, <2>2, GotAfter
<1>8. DOMAIN map' \subseteq Place /\ map' \in [DOMAIN map' -> Part]
  <2> HIDE DEF m, key, Place
  <2>1. \A k \in DOMAIN map' : k \in Place /\ map'[k] \in Part
    BY <1>2, <1>3, <1>4, <1>5
  <2> QED
    BY <1>6, <2>1
<1>9. quiet' \in BOOLEAN
  BY DEF IInv, TypeOK, Receive, QuietAfterAdd
<1>10. UNCHANGED <<number, sent, lapses>>
  BY DEF Receive
<1> QED
  BY <1>1, <1>7, <1>8, <1>9, <1>10 DEF IInv, TypeOK

LEMMA ReceiveIInv ==
    ASSUME IInv, NEW p \in Peer, Receive(p)
    PROVE  IInv'
<1> DEFINE m == chan[p][1]
           old == Len(chan[p])
           g == [from |-> p, parts |-> Whole(m.part.msg)]
<1>1. /\ old \in Nat \ {0} /\ DOMAIN chan[p] = 1..old
      /\ Head(chan[p]) = m
      /\ m \in Packet /\ Genuine(sent, p, m)
      /\ \A q \in Peer \ {p} : chan'[q] = chan[q]
      /\ Len(chan'[p]) = old - 1 /\ DOMAIN chan'[p] = 1..(old - 1)
      /\ \A i \in 1..(old - 1) : chan'[p][i] = chan[p][i + 1]
  BY Received
<1>2. /\ m.part.msg \in DOMAIN sent
      /\ sent[m.part.msg].from = p
      /\ m.sub \in 0..(LastFlag - 1)
      /\ m.cmd # "SPLIT" => m.last = 1
  <2>1. /\ m.part.msg \in DOMAIN sent
        /\ sent[m.part.msg].from = p
        /\ m.sub \in 0..(LastFlag - 1)
    BY <1>1, HeadFields
  <2>2. m.cmd # "SPLIT" => m.last = 1
    <3>1. m \in Packet /\ Genuine(sent, p, m)
      BY <1>1
    <3> HIDE DEF m
    <3> QED
      BY <3>1, HeadFields
  <2> QED
    BY <2>1, <2>2
<1>3. got' = got \/ (m.last = 1 /\ got' = Append(got, g))
  BY GotAfter
<1>4. UNCHANGED sent
  BY DEF Receive
<1>5. /\ got \in Seq([from : Peer, parts : Seq(Part)])
      /\ DOMAIN got = 1..Len(got)
      /\ Len(got) \in Nat
      /\ \A k \in DOMAIN got : got[k].from \in Peer
  BY Types DEF IInv
<1>6. \A i \in 1..(old - 1) : i \in DOMAIN chan[p] /\ i + 1 \in DOMAIN chan[p]
  BY <1>1
<1> HIDE DEF m, old, g
<1>7. ASSUME NEW k \in DOMAIN got'
      PROVE  \/ k \in DOMAIN got /\ got'[k] = got[k]
             \/ m.last = 1 /\ got'[k] = g
  <2>1. CASE got' = got
    BY <2>1
  <2>2. CASE m.last = 1 /\ got' = Append(got, g)
    <3>1. DOMAIN Append(got, g) = 1..(Len(got) + 1)
      BY <1>5
    <3>2. \A i \in 1..Len(got) : Append(got, g)[i] = got[i]
      BY <1>5
    <3>3. Append(got, g)[Len(got) + 1] = g
      BY <1>5
    <3> QED
      BY <1>5, <2>2, <3>1, <3>2, <3>3
  <2> QED
    BY <1>3, <2>1, <2>2
<1>8. NoMix'
  <2> SUFFICES ASSUME NEW k \in DOMAIN got'
               PROVE  \E t \in DOMAIN sent : got'[k] = [from |-> sent[t].from, parts |-> Whole(t)]
    BY <1>4 DEF NoMix, Whole
  <2>1. CASE k \in DOMAIN got /\ got'[k] = got[k]
    BY <2>1 DEF IInv, NoMix
  <2>2. CASE got'[k] = g
    <3>1. g = [from |-> sent[m.part.msg].from, parts |-> Whole(m.part.msg)]
      BY <1>2 DEF g, m
    <3> QED
      BY <1>2, <2>2, <3>1
  <2> QED
    BY <1>7, <2>1, <2>2
<1>9. ChanOK'
  <2> SUFFICES ASSUME NEW q \in Peer, NEW i \in DOMAIN chan'[q]
               PROVE  /\ Genuine(sent, q, chan'[q][i])
                      /\ IF i < Len(chan'[q]) THEN Follows(chan'[q][i], chan'[q][i + 1])
                         ELSE chan'[q][i].last = 1
    BY <1>4 DEF ChanOK
  <2>1. CASE q # p
    <3>1. chan'[q] = chan[q]
      BY <1>1, <2>1
    <3> QED
      BY <3>1 DEF IInv, ChanOK
  <2>2. CASE q = p
    <3>1. i \in 1..(old - 1) /\ i + 1 \in DOMAIN chan[p] /\ chan'[p][i] = chan[p][i + 1]
      BY <1>1, <1>6, <2>2
    <3>2. /\ Genuine(sent, p, chan[p][i + 1])
          /\ IF i + 1 < old THEN Follows(chan[p][i + 1], chan[p][(i + 1) + 1])
             ELSE chan[p][i + 1].last = 1
      BY <3>1 DEF IInv, ChanOK, old
    <3>3. CASE i < Len(chan'[p])
      <4>1. i + 1 \in 1..(old - 1) /\ i + 1 < old
        BY <1>1, <3>1, <3>3
      <4>2. chan'[p][i + 1] = chan[p][(i + 1) + 1]
        BY <1>1, <4>1
      <4> QED
        BY <2>2, <3>1, <3>2, <3>3, <4>1, <4>2
    <3>4. CASE ~(i < Len(chan'[p]))
      <4>1. ~(i + 1 < old)
        BY <1>1, <3>1, <3>4
      <4> QED
        BY <2>2, <3>1, <3>2, <3>4, <4>1
    <3> QED
      BY <3>3, <3>4
  <2> QED
    BY <2>1, <2>2
<1>10. ChanInOrder'
  <2> SUFFICES ASSUME NEW q \in Peer, NEW i \in DOMAIN chan'[q], NEW j \in DOMAIN chan'[q], i < j
               PROVE  /\ chan'[q][i].part.msg <= chan'[q][j].part.msg
                      /\ chan'[q][i].last = 1 => chan'[q][i].part.msg < chan'[q][j].part.msg
    BY DEF ChanInOrder
  <2>1. CASE q # p
    <3>1. chan'[q] = chan[q]
      BY <1>1, <2>1
    <3> QED
      BY <3>1 DEF IInv, ChanInOrder
  <2>2. CASE q = p
    <3>1. /\ i \in 1..(old - 1) /\ i + 1 \in DOMAIN chan[p] /\ chan'[p][i] = chan[p][i + 1]
          /\ j \in 1..(old - 1) /\ j + 1 \in DOMAIN chan[p] /\ chan'[p][j] = chan[p][j + 1]
          /\ i + 1 < j + 1
      <4>1. i \in 1..(old - 1) /\ j \in 1..(old - 1)
        BY <1>1, <2>2
      <4>2. i + 1 < j + 1
        BY <1>1, <4>1
      <4> QED
        BY <1>1, <1>6, <4>1, <4>2
    <3>2. /\ chan[p][i + 1].part.msg <= chan[p][j + 1].part.msg
          /\ chan[p][i + 1].last = 1 => chan[p][i + 1].part.msg < chan[p][j + 1].part.msg
      BY <3>1 DEF IInv, ChanInOrder
    <3> QED
      BY <2>2, <3>1, <3>2
  <2> QED
    BY <2>1, <2>2
<1>11. MapOK'
  <2> SUFFICES ASSUME NEW q \in Peer, chan'[q] # <<>>, NEW i \in 0..(LastFlag - 1),
                      i < chan'[q][1].sub, Key(q, chan'[q][1].num, i) \in DOMAIN map'
               PROVE  map'[Key(q, chan'[q][1].num, i)] = [msg |-> chan'[q][1].part.msg, sub |-> i]
    BY DEF MapOK, Key
  <2>1. CASE q # p
    <3>1. chan'[q] = chan[q]
      BY <1>1, <2>1
    <3>2. Key(q, chan[q][1].num, i) # Key(p, m.num, m.sub)
      BY <2>1 DEF Key
    <3>3. /\ Key(q, chan[q][1].num, i) \in DOMAIN map
          /\ map'[Key(q, chan[q][1].num, i)] = map[Key(q, chan[q][1].num, i)]
      BY <3>1, <3>2, MapAfter DEF m
    <3> QED
      BY <3>1, <3>3 DEF IInv, MapOK
  <2>2. CASE q = p
    <3>1. 1 \in 1..(old - 1)
      <4>1. chan'[p] \in Seq(Packet)
        BY Received
      <4>2. Len(chan'[p]) # 0
        BY <2>2, <4>1
      <4> QED
        BY <1>1, <4>2
    <3>2. chan'[p][1] = chan[p][1 + 1] /\ 1 \in DOMAIN chan[p] /\ 1 < Len(chan[p])
      BY <1>1, <1>6, <3>1 DEF old
    <3>3. Follows(m, chan[p][1 + 1])
      BY <3>2 DEF IInv, ChanOK, m
    <3>4. CASE m.last = 1
      <4>1. chan'[p][1].sub = 0
        BY <3>2, <3>3, <3>4 DEF Follows
      <4> QED
        BY <2>2, <4>1
    <3>5. CASE m.last # 1
      <4>1. /\ chan'[p][1].num = m.num
            /\ chan'[p][1].sub = m.sub + 1
            /\ chan'[p][1].part.msg = m.part.msg
        BY <3>2, <3>3, <3>5 DEF Follows
      <4>2. map' = Stored(p, m)
        BY <1>1, <1>2, <3>5 DEF Receive
      <4>3. i \in 0..m.sub
        BY <1>2, <2>2, <4>1
      <4>4. Stored(p, m)[Key(p, m.num, i)] = [msg |-> m.part.msg, sub |-> i]
        BY <2>2, <4>1, <4>2, <4>3, StoredParts DEF m
      <4> QED
        BY <2>2, <4>1, <4>2, <4>4
    <3> QED
      BY <3>4, <3>5
  <2> QED
    BY <2>1, <2>2
<1>12. GotBefore'
  <2> SUFFICES ASSUME NEW k \in DOMAIN got', NEW i \in DOMAIN chan'[got'[k].from]
               PROVE  got'[k].parts[1].msg < chan'[got'[k].from][i].part.msg
    BY DEF GotBefore
  <2>1. CASE k \in DOMAIN got /\ got'[k] = got[k]
    <3>1. got[k].from \in Peer
      BY <1>5, <2>1
    <3>2. \A j \in DOMAIN chan[got[k].from] :
              got[k].parts[1].msg < chan[got[k].from][j].part.msg
      BY <2>1 DEF IInv, GotBefore
    <3>3. CASE got[k].from # p
      <4>1. chan'[got[k].from] = chan[got[k].from]
        BY <1>1, <3>1, <3>3
      <4> QED
        BY <2>1, <3>2, <4>1
    <3>4. CASE got[k].from = p
      <4>1. i \in 1..(old - 1) /\ i + 1 \in DOMAIN chan[p] /\ chan'[p][i] = chan[p][i + 1]
        BY <1>1, <1>6, <2>1, <3>4
      <4> QED
        BY <2>1, <3>2, <3>4, <4>1
    <3> QED
      BY <3>3, <3>4
  <2>2. CASE m.last = 1 /\ got'[k] = g
    <3>1. g.from = p /\ g.parts[1].msg = m.part.msg
      <4>1. NumParts(sent[m.part.msg].len) \in Nat \ {0}
        <5>1. sent[m.part.msg] \in [from : Peer, len : Nat]
          BY <1>2, SeqElement, Zenon DEF IInv, TypeOK
        <5>2. sent[m.part.msg].len \in Nat
          BY <5>1
        <5> QED
          BY <5>2, PartsNat
      <4>2. 1 \in 1..NumParts(sent[m.part.msg].len)
        BY <4>1
      <4>3. Whole(m.part.msg)[1] = [msg |-> m.part.msg, sub |-> 1 - 1]
        BY <4>2 DEF Whole
      <4>4. g.from = p /\ g.parts = Whole(m.part.msg)
        BY DEF g, m
      <4> QED
        BY <4>3, <4>4
    <3>2. i \in 1..(old - 1) /\ i + 1 \in DOMAIN chan[p] /\ chan'[p][i] = chan[p][i + 1]
      BY <1>1, <1>6, <2>2, <3>1
    <3>3. 1 \in DOMAIN chan[p] /\ 1 < i + 1
      BY <1>1, <3>2
    <3>4. m.part.msg < chan[p][i + 1].part.msg
      BY <2>2, <3>2, <3>3 DEF IInv, ChanInOrder, m
    <3> QED
      BY <2>2, <3>1, <3>2, <3>4
  <2> QED
    BY <1>7, <2>1, <2>2
<1> QED
  BY <1>8, <1>9, <1>10, <1>11, <1>12, ReceiveTypes DEF IInv

\* A lost channel, a restarted sender: what was on its way from p is gone.
LEMMA ChannelGone ==
    ASSUME IInv, NEW p \in Peer, Cut(p) \/ Restart(p)
    PROVE  IInv'
<1>1. /\ chan' = [chan EXCEPT ![p] = <<>>]
      /\ UNCHANGED <<sent, map, quiet, got>>
      /\ lapses < MaxLapses /\ lapses' = lapses + 1
      /\ number' = number \/ number' = [number EXCEPT ![p] = 0]
  BY DEF Cut, Restart, Lapse
<1>2. chan \in [Peer -> Seq(Packet)]
  BY DEF IInv, TypeOK
<1>3. /\ chan' \in [Peer -> Seq(Packet)]
      /\ chan'[p] = <<>>
      /\ \A q \in Peer \ {p} : chan'[q] = chan[q]
  <2>1. <<>> \in Seq(Packet)
    OBVIOUS
  <2> QED
    BY <1>1, <1>2, <2>1
<1>4. \A q \in Peer : chan'[q] = chan[q] \/ DOMAIN chan'[q] = {}
  BY <1>3
<1>5. TypeOK'
  <2>1. lapses' \in 0..MaxLapses
    <3>1. lapses \in Nat /\ MaxLapses \in Nat
      BY SplitAssumption DEF IInv, TypeOK
    <3> QED
      BY <1>1, <3>1
  <2>2. number' \in [Peer -> 0..(Numbers - 1)]
    <3>1. 0 \in 0..(Numbers - 1)
      BY SplitAssumption
    <3>2. number \in [Peer -> 0..(Numbers - 1)]
      BY DEF IInv, TypeOK
    <3> QED
      BY <1>1, <3>1, <3>2
  <2> QED
    BY <1>1, <1>3, <2>1, <2>2 DEF IInv, TypeOK
<1>6. NoMix'
  BY <1>1 DEF IInv, NoMix, Whole
<1>7. ChanOK'
  BY <1>1, <1>4 DEF IInv, ChanOK
<1>8. ChanInOrder'
  BY <1>4 DEF IInv, ChanInOrder
<1>9. MapOK'
  BY <1>1, <1>3 DEF IInv, MapOK, Key
<1>10. GotBefore'
  <2> SUFFICES ASSUME NEW k \in DOMAIN got, NEW i \in DOMAIN chan'[got[k].from]
               PROVE  got[k].parts[1].msg < chan'[got[k].from][i].part.msg
    BY <1>1 DEF GotBefore
  <2>1. got[k].from \in Peer
    BY Types DEF IInv
  <2>2. chan'[got[k].from] = chan[got[k].from]
    BY <1>4, <2>1
  <2> QED
    BY <2>2 DEF IInv, GotBefore
<1> QED
  BY <1>5, <1>6, <1>7, <1>8, <1>9, <1>10 DEF IInv

LEMMA SplitInit == Init => IInv
<1> SUFFICES ASSUME Init PROVE IInv
  OBVIOUS
<1> USE SplitAssumption DEF Init
<1>1. TypeOK
  <2>1. number \in [Peer -> 0..(Numbers - 1)] /\ chan \in [Peer -> Seq(Packet)]
    OBVIOUS
  <2>2. DOMAIN map = {}
    OBVIOUS
  <2>3. map \in [DOMAIN map -> Part]
    BY <2>2
  <2> QED
    BY <2>1, <2>2, <2>3 DEF TypeOK
<1>2. DOMAIN got = {} /\ \A p \in Peer : DOMAIN chan[p] = {} /\ chan[p] = <<>>
  OBVIOUS
<1> QED
  BY <1>1, <1>2 DEF IInv, NoMix, ChanOK, ChanInOrder, MapOK, GotBefore

LEMMA SplitNext == IInv /\ [Next]_vars => IInv'
<1> SUFFICES ASSUME IInv, [Next]_vars PROVE IInv'
  OBVIOUS
<1>1. ASSUME NEW p \in Peer, NEW len \in Lengths, Send(p, len) PROVE IInv'
  BY <1>1, SendIInv
<1>2. ASSUME NEW p \in Peer, Receive(p) PROVE IInv'
  BY <1>2, ReceiveIInv
<1>3. CASE Pause
  <2>1. UNCHANGED <<number, sent, chan, map, got>> /\ quiet' \in BOOLEAN
    BY <1>3 DEF Pause
  <2>2. lapses' \in 0..MaxLapses
    BY <1>3, SplitAssumption DEF Pause, Lapse, IInv, TypeOK
  <2>3. TypeOK'
    BY <2>1, <2>2 DEF IInv, TypeOK
  <2>4. NoMix' /\ ChanOK' /\ ChanInOrder' /\ MapOK' /\ GotBefore'
    BY <2>1 DEF IInv, NoMix, Whole, ChanOK, ChanInOrder, MapOK, Key, GotBefore
  <2> QED
    BY <2>3, <2>4 DEF IInv
<1>4. ASSUME NEW p \in Peer, Cut(p) PROVE IInv'
  BY <1>4, ChannelGone
<1>5. ASSUME NEW p \in Peer, Restart(p) PROVE IInv'
  BY <1>5, ChannelGone
<1>6. CASE UNCHANGED vars
  <2>1. UNCHANGED <<number, sent, chan, map, quiet, got, lapses>>
    BY <1>6 DEF vars
  <2>2. TypeOK'
    BY <2>1 DEF IInv, TypeOK
  <2>3. NoMix' /\ ChanOK' /\ ChanInOrder' /\ MapOK' /\ GotBefore'
    BY <2>1 DEF IInv, NoMix, Whole, ChanOK, ChanInOrder, MapOK, Key, GotBefore
  <2> QED
    BY <2>2, <2>3 DEF IInv
<1> QED
  BY <1>1, <1>2, <1>3, <1>4, <1>5, <1>6 DEF Next

\* The inductive invariant of splitting and combining.
THEOREM SplitInvariant == Spec => []IInv
<1>1. Init => IInv
  BY SplitInit
<1>2. IInv /\ [Next]_vars => IInv'
  BY SplitNext
<1> QED
  BY <1>1, <1>2, PTL DEF Spec

\* The variables keep their types: packet and subpacket numbers fit their bits.
THEOREM TypeCorrect == Spec => []TypeOK
<1>1. IInv => TypeOK
  BY DEF IInv
<1> QED
  BY <1>1, SplitInvariant, PTL

\* Whatever ksnSplitCombine puts together is one packet of one sender, whole.
THEOREM NeverMixed == Spec => []NoMix
<1>1. IInv => NoMix
  BY DEF IInv
<1> QED
  BY <1>1, SplitInvariant, PTL

-----------------------------------------------------------------------------
(* The steps of splitting and combining are steps of PacketTransport.      *)

LEMMA AppendIs ==
    ASSUME NEW S, NEW q \in Seq(S), NEW e \in S
    PROVE  Append(q, e) = [i \in 1..(Len(q) + 1) |-> IF i = Len(q) + 1 THEN e ELSE q[i]]
<1>1. /\ Append(q, e) \in Seq(S)
      /\ Len(Append(q, e)) = Len(q) + 1
      /\ \A i \in 1..Len(q) : Append(q, e)[i] = q[i]
      /\ Append(q, e)[Len(q) + 1] = e
  OBVIOUS
<1> DEFINE a == Append(q, e)
<1>2. a \in Seq(S)
  BY <1>1
<1> HIDE DEF a
<1>3. a = [i \in 1..Len(a) |-> a[i]]
  BY <1>2
<1>4. Len(q) \in Nat
  OBVIOUS
<1>5. \A i \in 1..(Len(q) + 1) : a[i] = IF i = Len(q) + 1 THEN e ELSE q[i]
  BY <1>1, <1>4 DEF a
<1>6. Len(a) = Len(q) + 1
  BY <1>1 DEF a
<1>7. a = [i \in 1..(Len(q) + 1) |-> IF i = Len(q) + 1 THEN e ELSE q[i]]
  BY <1>3, <1>5, <1>6
<1> QED
  BY <1>7 DEF a

LEMMA SendIsTransport ==
    ASSUME IInv, NEW p \in Peer, NEW len \in Lengths, Send(p, len)
    PROVE  Transport!Send
<1> DEFINE item == [from |-> p, len |-> len]
<1>1. /\ sent \in Seq([from : Peer, len : Nat])
      /\ sent' = Append(sent, item)
      /\ got' = got
  BY DEF IInv, TypeOK, Send
<1>2. /\ Len(sent) \in Nat
      /\ DOMAIN sent = 1..Len(sent)
      /\ DOMAIN sent' = 1..(Len(sent) + 1)
      /\ \A s \in 1..Len(sent) : sent'[s] = sent[s]
      /\ sent'[Len(sent) + 1] = item
  <2> HIDE DEF item
  <2> QED
    BY <1>1
<1>3. item.from = p
  OBVIOUS
<1> HIDE DEF item
<1>4. Origin \in Seq(Peer) /\ Len(Origin) = Len(sent)
  <2>1. \A s \in 1..Len(sent) : sent[s].from \in Peer
    <3> SUFFICES ASSUME NEW s \in 1..Len(sent) PROVE sent[s].from \in Peer
      OBVIOUS
    <3>1. sent[s] \in [from : Peer, len : Nat]
      BY <1>1, <1>2, SeqElement, Zenon
    <3> QED
      BY <3>1
  <2>2. Origin = [s \in 1..Len(sent) |-> sent[s].from]
    BY <1>2 DEF Origin
  <2> QED
    BY <1>2, <2>1, <2>2
<1>5. Append(Origin, p) = [s \in 1..(Len(sent) + 1) |-> IF s = Len(sent) + 1 THEN p ELSE Origin[s]]
  BY <1>4, AppendIs
<1>6. \A s \in 1..(Len(sent) + 1) :
            sent'[s].from = IF s = Len(sent) + 1 THEN p ELSE Origin[s]
  BY <1>2, <1>3 DEF Origin
<1>7. Origin' = Append(Origin, p)
  BY <1>2, <1>5, <1>6 DEF Origin
<1>8. Processed' = Processed
  BY <1>1 DEF Processed
<1> QED
  BY <1>7, <1>8 DEF Transport!Send

LEMMA ReceiveIsTransport ==
    ASSUME IInv, NEW p \in Peer, Receive(p)
    PROVE  Transport!Process \/ UNCHANGED <<Origin, Processed>>
<1> DEFINE m == chan[p][1]
           s == m.part.msg
           g == [from |-> p, parts |-> Whole(s)]
<1>1. Origin' = Origin
  BY DEF Receive, Origin
<1>2. CASE got' = got
  BY <1>1, <1>2 DEF Processed
<1>3. CASE got' # got
  <2>1. m \in Packet /\ Genuine(sent, p, m)
    BY Received
  <2>2. s \in DOMAIN sent /\ sent[s].from = p
    BY <2>1, HeadFields
  <2>3. got' = Append(got, g)
    BY <1>3, GotAfter
  <2>4. /\ got \in Seq([from : Peer, parts : Seq(Part)])
        /\ DOMAIN got = 1..Len(got) /\ Len(got) \in Nat
    BY Types DEF IInv
  <2>5. 1 \in DOMAIN chan[p]
    BY Received
  <2>6. \A k \in DOMAIN got : got[k].from = p => got[k].parts[1].msg < s
    BY <2>5 DEF IInv, GotBefore
  <2>7. g.parts[1].msg = s
    <3>1. sent[s] \in [from : Peer, len : Nat]
      BY <2>2, SeqElement, Zenon DEF IInv, TypeOK
    <3>2. NumParts(sent[s].len) \in Nat \ {0}
      <4>1. sent[s].len \in Nat
        BY <3>1
      <4> QED
        BY <4>1, PartsNat
    <3>3. 1 \in 1..NumParts(sent[s].len)
      BY <3>2
    <3>4. Whole(s)[1] = [msg |-> s, sub |-> 1 - 1]
      BY <3>3 DEF Whole
    <3> QED
      BY <3>4
  <2>8. \A k \in DOMAIN got :
            /\ Processed[k] \in DOMAIN sent
            /\ Origin[Processed[k]] = got[k].from
    BY GotWasSent DEF IInv, Processed, Origin
  <2> HIDE DEF m, s, g
  <2>9. /\ DOMAIN got' = 1..(Len(got) + 1)
        /\ \A k \in 1..Len(got) : got'[k] = got[k]
        /\ got'[Len(got) + 1] = g
    BY <2>3, <2>4
  <2>10. Processed \in Seq(DOMAIN sent) /\ Len(Processed) = Len(got)
    <3>1. Processed = [k \in 1..Len(got) |-> got[k].parts[1].msg]
      BY <2>4 DEF Processed
    <3>2. \A k \in 1..Len(got) : got[k].parts[1].msg \in DOMAIN sent
      BY <2>4, GotWasSent DEF IInv
    <3> QED
      BY <2>4, <3>1, <3>2
  <2>11. Append(Processed, s) =
            [k \in 1..(Len(got) + 1) |-> IF k = Len(got) + 1 THEN s ELSE Processed[k]]
    <3>1. s \in DOMAIN sent
      BY <2>2
    <3> QED
      BY <2>10, <3>1, AppendIs
  <2>12. \A k \in 1..(Len(got) + 1) :
            got'[k].parts[1].msg = IF k = Len(got) + 1 THEN s ELSE Processed[k]
    <3> SUFFICES ASSUME NEW k \in 1..(Len(got) + 1)
                 PROVE  got'[k].parts[1].msg = IF k = Len(got) + 1 THEN s ELSE Processed[k]
      OBVIOUS
    <3>1. CASE k = Len(got) + 1
      BY <2>7, <2>9, <3>1
    <3>2. CASE k # Len(got) + 1
      <4>1. k \in 1..Len(got) /\ k \in DOMAIN got
        BY <2>4, <3>2
      <4>2. got'[k] = got[k] /\ Processed[k] = got[k].parts[1].msg
        BY <2>9, <4>1 DEF Processed
      <4> QED
        BY <3>2, <4>2
    <3> QED
      BY <3>1, <3>2
  <2>13. Processed' = Append(Processed, s)
    BY <2>9, <2>11, <2>12 DEF Processed
  <2>14. s \in DOMAIN Origin /\ Origin[s] = p
    BY <2>2 DEF Origin
  <2>15. \A k \in DOMAIN Processed : Origin[Processed[k]] = Origin[s] => Processed[k] < s
    BY <2>6, <2>8, <2>14 DEF Processed
  <2> QED
    BY <1>1, <2>13, <2>14, <2>15 DEF Transport!Process
<1> QED
  BY <1>2, <1>3

LEMMA TransportInit == Init => Transport!Init
<1> SUFFICES ASSUME Init PROVE Origin = <<>> /\ Processed = <<>>
  BY DEF Transport!Init
<1>1. sent = <<>> /\ got = <<>>
  BY DEF Init
<1>2. DOMAIN sent = {} /\ DOMAIN got = {}
  BY <1>1
<1> QED
  BY <1>2 DEF Origin, Processed

LEMMA TransportNext ==
    ASSUME IInv, [Next]_vars
    PROVE  Transport!Next \/ UNCHANGED <<Origin, Processed>>
<1>1. ASSUME NEW p \in Peer, NEW len \in Lengths, Send(p, len) PROVE Transport!Next
  BY <1>1, SendIsTransport DEF Transport!Next
<1>2. ASSUME NEW p \in Peer, Receive(p) PROVE Transport!Next \/ UNCHANGED <<Origin, Processed>>
  BY <1>2, ReceiveIsTransport DEF Transport!Next
<1>3. CASE UNCHANGED <<sent, got>>
  BY <1>3 DEF Origin, Processed
<1>4. Pause \/ (\E p \in Peer : Cut(p)) \/ (\E p \in Peer : Restart(p)) \/ UNCHANGED vars
        => UNCHANGED <<sent, got>>
  BY DEF Pause, Cut, Restart, vars
<1> QED
  BY <1>1, <1>2, <1>3, <1>4 DEF Next

\* Packets of one sender are processed in the order they were sent and none
\* twice, whatever is lost between them: splitting implements PacketTransport.
THEOREM KeepsOrder == Spec => InOrder
<1>1. Init => Transport!Init
  BY TransportInit
<1>2. IInv /\ [Next]_vars => [Transport!Next]_<<Origin, Processed>>
  BY TransportNext
<1> QED
  BY <1>1, <1>2, SplitInvariant, PTL DEF Spec, InOrder, Transport!Spec
-----------------------------------------------------------------------------
(* Without losses every packet arrives.                                    *)

\* The parts of the packet that is being received from p, and no others, are
\* under p's keys.
MapExact ==
    \A p \in Peer, num \in 0..(Numbers - 1), i \in 0..(LastFlag - 1) :
        Key(p, num, i) \in DOMAIN map <=>
            chan[p] # <<>> /\ num = chan[p][1].num /\ i < chan[p][1].sub

\* As long as nothing was lost, the map is exact, and the pause before the
\* first subpacket clears nothing.
Lossless == lapses = 0 => MapExact /\ (quiet => DOMAIN map = {})

LosslessInv == IInv /\ Lossless /\ NotLost

\* Without losses the pause before a subpacket clears nothing.
LEMMA LosslessKept ==
    ASSUME lapses = 0, Lossless
    PROVE  DOMAIN Kept = DOMAIN map /\ MapExact
<1>1. DOMAIN <<>> = {}
  OBVIOUS
<1> QED
  BY <1>1 DEF Lossless, Kept

\* Keys are equal when their parts are.
LEMMA EqualKeys ==
    ASSUME NEW p, NEW a, NEW i, NEW q, NEW b, NEW j
    PROVE  Key(p, a, i) = Key(q, b, j) <=> p = q /\ a = b /\ i = j
BY DEF Key

\* What the map holds after m was stored: the parts up to m.
LEMMA StoredExact ==
    ASSUME IInv, Lossless, lapses = 0, NEW p \in Peer, Receive(p)
    PROVE  LET m == chan[p][1] IN
           \A q \in Peer, num \in 0..(Numbers - 1), i \in 0..(LastFlag - 1) :
               Key(q, num, i) \in DOMAIN Stored(p, m) <=>
                   \/ q = p /\ num = m.num /\ i <= m.sub
                   \/ q # p /\ Key(q, num, i) \in DOMAIN map
<1> DEFINE m == chan[p][1]
<1>1. m \in Packet /\ Genuine(sent, p, m) /\ chan[p] # <<>>
  BY Received DEF Receive
<1>2. m.sub \in 0..(LastFlag - 1) /\ m.num \in 0..(Numbers - 1)
  BY <1>1, HeadFields
<1>3. DOMAIN Stored(p, m) = DOMAIN map \cup {Key(p, m.num, m.sub)}
  BY LosslessKept DEF Stored
<1>4. \A num \in 0..(Numbers - 1), i \in 0..(LastFlag - 1) :
          Key(p, num, i) \in DOMAIN map <=> num = m.num /\ i < m.sub
  BY <1>1, LosslessKept DEF MapExact
<1> HIDE DEF m
<1> SUFFICES ASSUME NEW q \in Peer, NEW num \in 0..(Numbers - 1), NEW i \in 0..(LastFlag - 1)
             PROVE  Key(q, num, i) \in DOMAIN Stored(p, m) <=>
                        \/ q = p /\ num = m.num /\ i <= m.sub
                        \/ q # p /\ Key(q, num, i) \in DOMAIN map
  BY DEF m
<1>5. Key(q, num, i) \in DOMAIN Stored(p, m) <=>
          Key(q, num, i) \in DOMAIN map \/ (q = p /\ num = m.num /\ i = m.sub)
  BY <1>3, EqualKeys
<1>6. i <= m.sub <=> i < m.sub \/ i = m.sub
  BY <1>2, SplitAssumption
<1> QED
  BY <1>4, <1>5, <1>6

\* A packet whose last part arrives is complete.
LEMMA AllPresent ==
    ASSUME IInv, Lossless, lapses = 0, NEW p \in Peer, Receive(p)
    PROVE  LET m == chan[p][1] IN Present(p, m) = 0..m.sub
<1> DEFINE m == chan[p][1]
<1>1. m \in Packet /\ Genuine(sent, p, m)
  BY Received
<1>2. m.sub \in 0..(LastFlag - 1) /\ m.num \in 0..(Numbers - 1)
  BY <1>1, HeadFields
<1>3. \A i \in 0..(LastFlag - 1) : i <= m.sub => Key(p, m.num, i) \in DOMAIN Stored(p, m)
  BY <1>2, StoredExact
<1> HIDE DEF m
<1>4. \A i \in 0..m.sub : \A j \in 0..i : j \in 0..(LastFlag - 1) /\ j <= m.sub
  BY <1>2, SplitAssumption
<1> QED
  BY <1>3, <1>4 DEF Present, m

\* The last part of a packet completes it, and its parts leave the map.
LEMMA Completed ==
    ASSUME IInv, Lossless, lapses = 0, NEW p \in Peer, Receive(p), chan[p][1].last = 1
    PROVE  LET m == chan[p][1] IN
           /\ got' = Append(got, [from |-> p, parts |-> Whole(m.part.msg)])
           /\ \A q \in Peer, num \in 0..(Numbers - 1), i \in 0..(LastFlag - 1) :
                  Key(q, num, i) \in DOMAIN map' <=> q # p /\ Key(q, num, i) \in DOMAIN map
<1> DEFINE m == chan[p][1]
<1>1. m \in Packet /\ Genuine(sent, p, m) /\ Head(chan[p]) = m /\ chan[p] # <<>>
  BY Received DEF Receive
<1>2. /\ m.sub \in 0..(LastFlag - 1) /\ m.num \in 0..(Numbers - 1)
      /\ (m.cmd # "SPLIT" => m.sub = 0)
  BY <1>1, HeadFields
<1>3. \/ got' = got
      \/ got' = Append(got, [from |-> p, parts |-> Whole(m.part.msg)])
  BY GotAfter
<1>4. Present(p, m) = 0..m.sub
  BY AllPresent
<1>5. \A q \in Peer, num \in 0..(Numbers - 1), i \in 0..(LastFlag - 1) :
               Key(q, num, i) \in DOMAIN Stored(p, m) <=>
                   \/ q = p /\ num = m.num /\ i <= m.sub
                   \/ q # p /\ Key(q, num, i) \in DOMAIN map
  BY StoredExact
<1>6. m.last = 1
  OBVIOUS
<1>7. \A num \in 0..(Numbers - 1), i \in 0..(LastFlag - 1) :
          Key(p, num, i) \in DOMAIN map <=> num = m.num /\ i < m.sub
  BY <1>1, LosslessKept DEF MapExact
<1>8. got \in Seq([from : Peer, parts : Seq(Part)])
  BY Types DEF IInv
<1> HIDE DEF m
<1>9. \A e : Append(got, e) # got
  <2>1. Len(got) \in Nat /\ \A e : Len(Append(got, e)) = Len(got) + 1
    BY <1>8
  <2> QED
    BY <2>1
<1>10. CASE m.cmd # "SPLIT"
  <2>1. \E e : got' = Append(got, e)
    BY <1>1, <1>10 DEF Receive
  <2>2. map' = map
    BY <1>1, <1>10 DEF Receive
  <2>3. m.sub = 0
    BY <1>2, <1>10
  <2>4. \A num \in 0..(Numbers - 1), i \in 0..(LastFlag - 1) : Key(p, num, i) \notin DOMAIN map
    BY <1>7, <2>3, SplitAssumption
  <2> QED
    BY <1>3, <1>9, <2>1, <2>2, <2>4 DEF m
<1>11. CASE m.cmd = "SPLIT"
  <2>1. map' = Taken(p, m) /\ \E e : got' = Append(got, e)
    BY <1>1, <1>4, <1>6, <1>11 DEF Receive, CombineLast
  <2>2. DOMAIN map' = DOMAIN Stored(p, m) \ {Key(p, m.num, i) : i \in 0..m.sub}
    BY <1>4, <2>1 DEF Taken
  <2>3. ASSUME NEW q \in Peer, NEW num \in 0..(Numbers - 1), NEW i \in 0..(LastFlag - 1)
        PROVE  Key(q, num, i) \in DOMAIN map' <=> q # p /\ Key(q, num, i) \in DOMAIN map
    <3>1. Key(q, num, i) \in {Key(p, m.num, j) : j \in 0..m.sub} <=>
              q = p /\ num = m.num /\ i \in 0..m.sub
      BY EqualKeys
    <3>2. i \in 0..m.sub <=> i <= m.sub
      BY <1>2, SplitAssumption
    <3> QED
      BY <1>5, <2>2, <3>1, <3>2
  <2> QED
    BY <1>3, <1>9, <2>1, <2>3 DEF m
<1> QED
  BY <1>10, <1>11

\* What is sent goes behind what is under way, and its last part with it.
LEMMA SendLossless ==
    ASSUME LosslessInv, NEW p \in Peer, NEW len \in Lengths, Send(p, len)
    PROVE  Lossless' /\ NotLost'
<1> DEFINE s == Len(sent) + 1
           old == Len(chan[p])
           n == NumParts(len)
<1>1. /\ s \in Nat \ {0} /\ old \in Nat /\ n \in Nat \ {0}
      /\ DOMAIN sent' = DOMAIN sent \cup {s}
      /\ sent'[s].from = p
      /\ \A t \in DOMAIN sent : sent'[t] = sent[t]
      /\ \A q \in Peer \ {p} : chan'[q] = chan[q]
      /\ DOMAIN chan[p] = 1..old
      /\ Len(chan'[p]) = old + n /\ DOMAIN chan'[p] = 1..(old + n)
      /\ \A i \in 1..old : chan'[p][i] = chan[p][i]
      /\ chan' \in [Peer -> Seq(Packet)] /\ chan \in [Peer -> Seq(Packet)]
  BY Sent DEF LosslessInv, IInv, TypeOK
<1>2. \A k \in 1..n :
          /\ chan'[p][old + k].sub = k - 1
          /\ chan'[p][old + k].part = [msg |-> s, sub |-> k - 1]
          /\ chan'[p][old + k].last = 1 <=> k = n
  BY Sent DEF LosslessInv
<1>3. UNCHANGED <<map, quiet, got, lapses>>
  BY DEF Send
<1>e. chan[p] = <<>> <=> old = 0
  BY <1>1
<1> HIDE DEF s, old, n
<1>4. Lossless'
  <2> SUFFICES ASSUME lapses = 0 PROVE MapExact'
    BY <1>3 DEF LosslessInv, Lossless
  <2> SUFFICES ASSUME NEW q \in Peer, NEW num \in 0..(Numbers - 1), NEW i \in 0..(LastFlag - 1)
               PROVE  Key(q, num, i) \in DOMAIN map <=>
                          chan'[q] # <<>> /\ num = chan'[q][1].num /\ i < chan'[q][1].sub
    BY <1>3 DEF MapExact, Key
  <2>1. Key(q, num, i) \in DOMAIN map <=>
            chan[q] # <<>> /\ num = chan[q][1].num /\ i < chan[q][1].sub
    BY DEF LosslessInv, Lossless, MapExact
  <2>2. CASE q # p
    BY <1>1, <2>1, <2>2
  <2>3. CASE q = p /\ old # 0
    <3>1. 1 \in 1..old /\ chan'[p] # <<>> /\ chan[p] # <<>>
      BY <1>1, <1>e, <2>3
    <3>2. chan'[p][1] = chan[p][1]
      BY <1>1, <3>1
    <3> QED
      BY <2>1, <2>3, <3>1, <3>2
  <2>4. CASE q = p /\ old = 0
    <3>1. chan'[p][1].sub = 0
      <4>1. 1 \in 1..n /\ old + 1 = 1
        BY <1>1, <2>4
      <4>2. chan'[p][old + 1].sub = 1 - 1
        BY <1>2, <4>1
      <4> QED
        BY <4>1, <4>2
    <3>2. ~(i < 0)
      BY SplitAssumption
    <3> QED
      BY <1>e, <2>1, <2>4, <3>1, <3>2
  <2> QED
    BY <2>2, <2>3, <2>4
<1>5. NotLost'
  <2> SUFFICES ASSUME lapses = 0, NEW t \in DOMAIN sent'
               PROVE  \/ \E k \in DOMAIN got : got[k].parts[1].msg = t
                      \/ \E k \in DOMAIN chan'[sent'[t].from] :
                             chan'[sent'[t].from][k].last = 1
                             /\ chan'[sent'[t].from][k].part.msg = t
    BY <1>3 DEF NotLost
  <2>1. CASE t = s
    <3>1. n \in 1..n /\ old + n \in 1..(old + n)
      BY <1>1
    <3>2. chan'[p][old + n].last = 1 /\ chan'[p][old + n].part = [msg |-> s, sub |-> n - 1]
      BY <1>2, <3>1
    <3>3. chan'[p][old + n].part.msg = s
      BY <3>2
    <3> QED
      BY <1>1, <2>1, <3>1, <3>2, <3>3
  <2>2. CASE t \in DOMAIN sent
    <3>1. sent'[t] = sent[t]
      BY <1>1, <2>2
    <3>2. CASE \E k \in DOMAIN got : got[k].parts[1].msg = t
      BY <3>2
    <3>3. ASSUME NEW k \in DOMAIN chan[sent[t].from],
                 chan[sent[t].from][k].last = 1, chan[sent[t].from][k].part.msg = t
          PROVE  k \in DOMAIN chan'[sent[t].from]
                 /\ chan'[sent[t].from][k] = chan[sent[t].from][k]
      <4>0. sent[t].from \in Peer
        <5>1. sent[t] \in [from : Peer, len : Nat]
          BY <2>2, SeqElement, Zenon DEF LosslessInv, IInv, TypeOK
        <5> QED
          BY <5>1
      <4>1. CASE sent[t].from = p
        <5>1. k \in DOMAIN chan[p]
          BY <3>3, <4>1
        <5>2. k \in 1..old
          BY <1>1, <5>1
        <5>3. k \in 1..(old + n)
          BY <1>1, <5>2
        <5>4. chan'[p][k] = chan[p][k] /\ k \in DOMAIN chan'[p]
          BY <1>1, <5>2, <5>3
        <5> QED
          BY <4>1, <5>4
      <4>2. CASE sent[t].from # p
        BY <1>1, <4>0, <4>2
      <4> QED
        BY <4>1, <4>2
    <3> QED
      BY <2>2, <3>1, <3>2, <3>3 DEF LosslessInv, NotLost
  <2> QED
    BY <1>1, <2>1, <2>2
<1> QED
  BY <1>4, <1>5

\* A part that arrives is stored as the next one of its packet, or completes it.
LEMMA ReceiveLossless ==
    ASSUME LosslessInv, NEW p \in Peer, Receive(p)
    PROVE  Lossless' /\ NotLost'
<1> DEFINE m == chan[p][1]
           old == Len(chan[p])
<1>1. /\ old \in Nat \ {0} /\ DOMAIN chan[p] = 1..old
      /\ Head(chan[p]) = m /\ m \in Packet /\ Genuine(sent, p, m) /\ chan[p] # <<>>
      /\ \A q \in Peer \ {p} : chan'[q] = chan[q]
      /\ chan' \in [Peer -> Seq(Packet)]
      /\ Len(chan'[p]) = old - 1 /\ DOMAIN chan'[p] = 1..(old - 1)
      /\ \A i \in 1..(old - 1) : chan'[p][i] = chan[p][i + 1]
  BY Received DEF LosslessInv, Receive
<1>2. /\ m.num \in 0..(Numbers - 1) /\ m.sub \in 0..(LastFlag - 1)
      /\ m.part.msg \in DOMAIN sent /\ sent[m.part.msg].from = p
      /\ (m.cmd # "SPLIT" => m.last = 1)
  BY <1>1, HeadFields DEF LosslessInv
<1>3. UNCHANGED <<number, sent, lapses>>
  BY DEF Receive
<1>4. chan'[p] # <<>> => /\ 1 \in 1..(old - 1) /\ chan'[p][1] = chan[p][2]
                         /\ Follows(m, chan[p][2])
  <2> SUFFICES ASSUME chan'[p] # <<>>
               PROVE  1 \in 1..(old - 1) /\ chan'[p][1] = chan[p][2] /\ Follows(m, chan[p][2])
    OBVIOUS
  <2>1. Len(chan'[p]) # 0
    BY <1>1
  <2>2. 1 \in 1..(old - 1) /\ 1 \in DOMAIN chan[p] /\ 1 < old /\ 1 + 1 = 2
    BY <1>1, <2>1
  <2>3. Follows(chan[p][1], chan[p][1 + 1])
    BY <2>2 DEF LosslessInv, IInv, ChanOK
  <2> QED
    BY <1>1, <2>2, <2>3
<1>5. m.last = 1 => chan'[p] = <<>> \/ chan'[p][1].sub = 0
  BY <1>4 DEF Follows
<1> SUFFICES ASSUME lapses = 0 PROVE Lossless' /\ NotLost'
  BY <1>3 DEF Lossless, NotLost
<1>6. IInv /\ Lossless /\ MapExact /\ NotLost
  BY LosslessKept DEF LosslessInv
<1>7. quiet' => DOMAIN map' = {}
  <2>1. m.cmd = "SPLIT" => ~quiet'
    BY <1>1 DEF Receive, QuietAfterAdd
  <2>2. m.cmd # "SPLIT" => quiet' = quiet /\ map' = map
    BY <1>1 DEF Receive
  <2> QED
    BY <1>6, <2>1, <2>2 DEF Lossless
<1>8. CASE m.last = 1
  <2>1. /\ got' = Append(got, [from |-> p, parts |-> Whole(m.part.msg)])
        /\ \A q \in Peer, num \in 0..(Numbers - 1), i \in 0..(LastFlag - 1) :
               Key(q, num, i) \in DOMAIN map' <=> q # p /\ Key(q, num, i) \in DOMAIN map
    BY <1>6, <1>8, Completed
  <2>2. Lossless'
    <3> SUFFICES ASSUME NEW q \in Peer, NEW num \in 0..(Numbers - 1), NEW i \in 0..(LastFlag - 1)
                 PROVE  Key(q, num, i) \in DOMAIN map' <=>
                            chan'[q] # <<>> /\ num = chan'[q][1].num /\ i < chan'[q][1].sub
      BY <1>7 DEF Lossless, MapExact, Key
    <3>1. ~(i < 0)
      BY SplitAssumption
    <3>2. CASE q = p
      BY <1>5, <1>8, <2>1, <3>1, <3>2
    <3>3. CASE q # p
      BY <1>1, <1>6, <2>1, <3>3 DEF MapExact
    <3> QED
      BY <3>2, <3>3
  <2>3. /\ got \in Seq([from : Peer, parts : Seq(Part)])
        /\ DOMAIN got = 1..Len(got) /\ Len(got) \in Nat
    BY <1>6, Types DEF IInv
  <2> DEFINE g == [from |-> p, parts |-> Whole(m.part.msg)]
  <2>4. g.parts[1].msg = m.part.msg
    <3>1. sent[m.part.msg] \in [from : Peer, len : Nat]
      BY <1>2, <1>6, SeqElement, Zenon DEF IInv, TypeOK
    <3>2. sent[m.part.msg].len \in Nat
      BY <3>1
    <3>3. NumParts(sent[m.part.msg].len) \in Nat \ {0}
      BY <3>2, PartsNat
    <3>4. 1 \in 1..NumParts(sent[m.part.msg].len)
      BY <3>3
    <3>5. Whole(m.part.msg)[1] = [msg |-> m.part.msg, sub |-> 1 - 1]
      BY <3>4 DEF Whole
    <3> QED
      BY <3>5
  <2> HIDE DEF g, m, old
  <2>5. /\ DOMAIN got' = DOMAIN got \cup {Len(got) + 1}
        /\ \A k \in DOMAIN got : got'[k] = got[k]
        /\ got'[Len(got) + 1] = g
    BY <2>1, <2>3 DEF g
  <2>6. NotLost'
    <3> SUFFICES ASSUME NEW t \in DOMAIN sent
                 PROVE  \/ \E k \in DOMAIN got' : got'[k].parts[1].msg = t
                        \/ \E k \in DOMAIN chan'[sent[t].from] :
                               chan'[sent[t].from][k].last = 1
                               /\ chan'[sent[t].from][k].part.msg = t
      BY <1>3 DEF NotLost
    <3>0. sent[t].from \in Peer
      <4>1. sent[t] \in [from : Peer, len : Nat]
        BY <1>6, SeqElement, Zenon DEF IInv, TypeOK
      <4> QED
        BY <4>1
    <3>1. CASE t = m.part.msg
      BY <2>4, <2>5, <3>1
    <3>2. CASE \E k \in DOMAIN got : got[k].parts[1].msg = t
      BY <2>5, <3>2
    <3>3. ASSUME t # m.part.msg, NEW k \in DOMAIN chan[sent[t].from],
                 chan[sent[t].from][k].last = 1, chan[sent[t].from][k].part.msg = t
          PROVE  \E l \in DOMAIN chan'[sent[t].from] :
                     chan'[sent[t].from][l] = chan[sent[t].from][k]
      <4>1. CASE sent[t].from # p
        BY <1>1, <3>0, <4>1
      <4>2. CASE sent[t].from = p
        <5>1. k # 1
          BY <3>3, <4>2 DEF m
        <5>2. k - 1 \in 1..(old - 1) /\ (k - 1) + 1 = k
          BY <1>1, <4>2, <5>1
        <5> QED
          BY <1>1, <4>2, <5>2
      <4> QED
        BY <4>1, <4>2
    <3> QED
      BY <1>6, <3>1, <3>2, <3>3 DEF NotLost
  <2> QED
    BY <2>2, <2>6
<1>9. CASE m.last # 1
  <2>1. m.cmd = "SPLIT" /\ map' = Stored(p, m) /\ got' = got
    BY <1>1, <1>2, <1>9 DEF Receive
  <2>2. \A q \in Peer, num \in 0..(Numbers - 1), i \in 0..(LastFlag - 1) :
            Key(q, num, i) \in DOMAIN map' <=>
                \/ q = p /\ num = m.num /\ i <= m.sub
                \/ q # p /\ Key(q, num, i) \in DOMAIN map
    BY <1>6, <2>1, StoredExact
  <2>3. chan'[p] # <<>>
    <3>1. old # 1
      BY <1>1, <1>6, <1>9 DEF IInv, ChanOK
    <3>2. Len(chan'[p]) # 0
      BY <1>1, <3>1
    <3> QED
      BY <3>2
  <2>4. chan'[p][1].num = m.num /\ chan'[p][1].sub = m.sub + 1
    BY <1>4, <1>9, <2>3 DEF Follows
  <2> HIDE DEF m, old
  <2>5. Lossless'
    <3> SUFFICES ASSUME NEW q \in Peer, NEW num \in 0..(Numbers - 1), NEW i \in 0..(LastFlag - 1)
                 PROVE  Key(q, num, i) \in DOMAIN map' <=>
                            chan'[q] # <<>> /\ num = chan'[q][1].num /\ i < chan'[q][1].sub
      BY <1>7 DEF Lossless, MapExact, Key
    <3>1. i <= m.sub <=> i < m.sub + 1
      BY <1>2, SplitAssumption
    <3>2. CASE q = p
      BY <2>2, <2>3, <2>4, <3>1, <3>2
    <3>3. CASE q # p
      BY <1>1, <1>6, <2>2, <3>3 DEF MapExact
    <3> QED
      BY <3>2, <3>3
  <2>6. NotLost'
    <3> SUFFICES ASSUME NEW t \in DOMAIN sent, NEW k \in DOMAIN chan[sent[t].from],
                        chan[sent[t].from][k].last = 1, chan[sent[t].from][k].part.msg = t
                 PROVE  \E l \in DOMAIN chan'[sent[t].from] :
                            chan'[sent[t].from][l] = chan[sent[t].from][k]
      BY <1>3, <1>6, <2>1 DEF NotLost
    <3>0. sent[t].from \in Peer
      <4>1. sent[t] \in [from : Peer, len : Nat]
        BY <1>6, SeqElement, Zenon DEF IInv, TypeOK
      <4> QED
        BY <4>1
    <3>1. CASE sent[t].from # p
      BY <1>1, <3>0, <3>1
    <3>2. CASE sent[t].from = p
      <4>1. k # 1
        BY <1>9, <3>2 DEF m
      <4>2. k - 1 \in 1..(old - 1) /\ (k - 1) + 1 = k
        BY <1>1, <3>2, <4>1
      <4> QED
        BY <1>1, <3>2, <4>2
    <3> QED
      BY <3>1, <3>2
  <2> QED
    BY <2>5, <2>6
<1> QED
  BY <1>8, <1>9

\* The strengthened invariant holds at first ...
LEMMA LosslessInit == Init => LosslessInv
<1> SUFFICES ASSUME Init PROVE Lossless /\ NotLost
  BY SplitInit DEF LosslessInv
<1>1. DOMAIN map = {} /\ DOMAIN sent = {} /\ \A p \in Peer : chan[p] = <<>>
  BY DEF Init
<1> QED
  BY <1>1 DEF Lossless, MapExact, NotLost

\* ... and every step keeps it; a pause, a lost channel and a restart are lapses.
LEMMA LosslessNext == LosslessInv /\ [Next]_vars => LosslessInv'
<1> SUFFICES ASSUME LosslessInv, [Next]_vars PROVE Lossless' /\ NotLost'
  BY SplitNext DEF LosslessInv
<1>1. ASSUME NEW p \in Peer, NEW len \in Lengths, Send(p, len) PROVE Lossless' /\ NotLost'
  BY <1>1, SendLossless
<1>2. ASSUME NEW p \in Peer, Receive(p) PROVE Lossless' /\ NotLost'
  BY <1>2, ReceiveLossless
<1>3. CASE Pause \/ (\E p \in Peer : Cut(p)) \/ (\E p \in Peer : Restart(p))
  <2>1. lapses \in Nat /\ lapses' = lapses + 1
    BY <1>3 DEF Pause, Cut, Restart, Lapse, LosslessInv, IInv, TypeOK
  <2>2. lapses' # 0
    BY <2>1
  <2> QED
    BY <2>2 DEF Lossless, NotLost
<1>4. CASE UNCHANGED vars
  <2>1. UNCHANGED <<sent, chan, map, quiet, got, lapses>>
    BY <1>4 DEF vars
  <2>2. MapExact' = MapExact
    BY <2>1 DEF MapExact, Key
  <2>3. Lossless'
    BY <2>1, <2>2 DEF LosslessInv, Lossless
  <2>4. NotLost'
    BY <2>1 DEF LosslessInv, NotLost
  <2> QED
    BY <2>3, <2>4
<1> QED
  BY <1>1, <1>2, <1>3, <1>4 DEF Next

\* A packet on its way has its last part on its way, and one that arrived was
\* combined: without losses every packet is processed.
THEOREM NothingLost == Spec => []NotLost
<1>1. LosslessInv => NotLost
  BY DEF LosslessInv
<1> QED
  BY <1>1, LosslessInit, LosslessNext, PTL DEF Spec

\* Without losses a packet that was combined leaves nothing in the map.
THEOREM MapClean == Spec => []NoLeftovers
<1>1. LosslessInv => NoLeftovers
  <2> SUFFICES ASSUME LosslessInv, lapses = 0, NEW key \in DOMAIN map
               PROVE  chan[key[1]] # <<>> /\ Head(chan[key[1]]).part.msg = map[key].msg
    BY DEF NoLeftovers
  <2>1. IInv /\ MapExact
    BY LosslessKept DEF LosslessInv
  <2>2. key \in Peer \X (0..(Numbers - 1)) \X (0..(LastFlag - 1))
    BY <2>1 DEF IInv, TypeOK
  <2> DEFINE p == key[1]
             i == key[3]
  <2>3. /\ p \in Peer /\ key[2] \in 0..(Numbers - 1) /\ i \in 0..(LastFlag - 1)
        /\ key = Key(p, key[2], i)
    BY <2>2 DEF Key
  <2> HIDE DEF p, i
  <2>4. chan[p] # <<>> /\ key[2] = chan[p][1].num /\ i < chan[p][1].sub
    BY <2>1, <2>3 DEF MapExact
  <2>5. map[key] = [msg |-> chan[p][1].part.msg, sub |-> i]
    <3>1. chan[p] # <<>> /\ Key(p, chan[p][1].num, i) = key
      BY <2>3, <2>4
    <3>2. key \in DOMAIN map
      OBVIOUS
    <3>3. MapOK
      BY <2>1 DEF IInv
    <3> QED
      BY <2>3, <2>4, <3>1, <3>2, <3>3 DEF MapOK
  <2>6. Head(chan[p]) = chan[p][1]
    <3>1. chan[p] \in Seq(Packet)
      BY <2>1, <2>3, Types DEF IInv
    <3> QED
      BY <2>4, <3>1
  <2> QED
    BY <2>4, <2>5, <2>6 DEF p
<1> QED
  BY <1>1, LosslessInit, LosslessNext, PTL DEF Spec
=============================================================================
