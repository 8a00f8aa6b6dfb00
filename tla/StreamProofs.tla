---------------------------- MODULE StreamProofs ----------------------------
(***************************************************************************)
(* Theorems about Stream, for a name that one peer creates and uses again  *)
(* only after a CLOSE of the other or a loss (Usage).  Base says of a peer *)
(* what its record, its callbacks and what it sent may be.  Link says how  *)
(* the two ends, and what is between them, fit together, as long as the    *)
(* channel is the same at both: that CREATE, CREATED and CLOSE come at     *)
(* their turn, and that the chunks on their way go on where those of the   *)
(* input pipe end and end where those of the output pipe begin (Flow).     *)
(***************************************************************************)
EXTENDS Stream, TLAPS, SequenceTheorems, FiniteSetTheorems

\* The peer that creates the stream, and the other one.
Ini == CHOOSE n \in Peer : MayCreate = {n}

Acc == Other(Ini)

\* One peer creates the stream, and uses its name again only when it was closed by
\* the other peer or the peers had lost each other.
Usage ==
    /\ \E n \in Peer : MayCreate = {n}
    /\ MayReuse \subseteq {"closed", "lost"}

\* What each peer knows.
Peers ==
    /\ \A n \in Peer : n \notin up => stream[n] = None /\ chan[Other(n)] = <<>>
    /\ \A n \in Peer : n \notin known => chan[n] = <<>> /\ ~Open(n)
    /\ \A n \in reset : Other(n) \notin known

\* Records of the initiator, which have a callback until they are connected, and
\* of the acceptor, which are connected from the first.
Records ==
    /\ stream[Ini] # None =>
          LET s == stream[Ini] IN
          /\ s.initiator /\ s.serial = made[Ini]
          /\ s.created <=> s.serial \notin queued[Ini]
          /\ ~s.created => s.with = 0 /\ s.got = <<>> /\ s.pipeIn = <<>> /\ s.wrote = 0
    /\ stream[Acc] # None =>
          ~stream[Acc].initiator /\ stream[Acc].created /\ stream[Acc].serial = made[Acc]
    /\ queued[Acc] = {}
    /\ wild \in {"none", "callback"}

\* CREATE and CLOSE end what the initiator sends; CREATED begins and CLOSE ends
\* what the acceptor sends.
Shapes ==
    /\ \A i \in DOMAIN chan[Ini] :
          /\ chan[Ini][i].cmd # "CREATED"
          /\ chan[Ini][i].cmd # "DATA" => i = Len(chan[Ini])
    /\ \A i \in DOMAIN chan[Acc] :
          /\ chan[Acc][i].cmd # "CREATE"
          /\ chan[Acc][i].cmd = "CREATED" => i = 1
          /\ chan[Acc][i].cmd = "CLOSE" => i = Len(chan[Acc])

\* A peer makes a record for each CREATE at most.
Counts ==
    /\ made[Ini] <= MaxCreate
    /\ made[Acc] <= made[Ini]
    /\ UnderWay(Ini, "CREATE") => made[Acc] < made[Ini]

\* The initiator's last stream ended before it was connected, or with itself.
GivenUp == stream[Ini] = None /\ (made[Ini] \in given[Ini] \/ Ini \notin up)

\* CREATE is for the initiator's last stream, and CLOSE comes when it is over.
Sends ==
    /\ \A i \in DOMAIN chan[Ini] : chan[Ini][i].cmd = "CREATE" =>
          /\ chan[Ini][i].serial = made[Ini]
          /\ Pending(Ini) \/ GivenUp
          /\ stream[Ini] = None /\ Ini \in up => ended[Ini] \in {"own", "timeout"}
    /\ UnderWay(Ini, "CLOSE") => stream[Ini] = None /\ ended[Ini] = "own"
    /\ UnderWay(Acc, "CLOSE") => stream[Acc] = None

\* What was read and what can be read begins with the first chunk.
PipesIn ==
    \A n \in Peer : stream[n] # None =>
        LET s == stream[n] IN
        /\ \A i \in DOMAIN s.got : s.got[i] = <<s.with, i>>
        /\ \A i \in DOMAIN s.pipeIn : s.pipeIn[i] = <<s.with, Len(s.got) + i>>

(* As long as the peers did not lose each other. *)

Asked == UnderWay(Ini, "CREATE") => stream[Acc] = None /\ chan[Acc] = <<>>

Answered ==
    \A i \in DOMAIN chan[Acc] : chan[Acc][i].cmd = "CREATED" =>
        /\ chan[Acc][i].serial = made[Acc]
        /\ chan[Ini] = <<>>
        /\ Pending(Ini) \/ GivenUp
        /\ stream[Acc] = None => UnderWay(Acc, "CLOSE") \/ Acc \notin up

Connected ==
    Open(Ini) =>
        /\ ~UnderWay(Acc, "CREATED")
        /\ stream[Ini].with = made[Acc]
        /\ stream[Acc] = None => UnderWay(Acc, "CLOSE") \/ Acc \notin up

Waits ==
    Pending(Ini) => UnderWay(Acc, "CREATED") \/ (stream[Acc] = None /\ chan[Acc] = <<>>)

Accepted ==
    stream[Acc] # None =>
        /\ stream[Acc].with = made[Ini]
        /\ \/ Open(Ini) \/ UnderWay(Acc, "CREATED")
           \/ stream[Ini] = None /\ (UnderWay(Ini, "CLOSE") \/ GivenUp)

\* Nothing is left of the last stream when the name may be used again.
Over ==
    stream[Ini] = None /\ Ini \in up /\ ended[Ini] \in {"never", "closed", "lost"} =>
        stream[Acc] = None /\ chan[Acc] = <<>>

(* Chunks. *)

\* Chunk numbers of a message: f and on.
Run(data, serial, f) ==
    data # <<>> /\ \A x \in DOMAIN data : data[x] = <<serial, f + x - 1>>

\* The number of the chunk that comes next to f, or behind those of m.
After(m, f) == IF m.cmd = "DATA" THEN m.data[1][2] + Len(m.data) ELSE f

\* The number of the first chunk that comes at q[i], when f comes first of all.
Expected(q, i, f) == IF i = 1 THEN f ELSE After(q[i - 1], f)

Chain(q, serial, f) ==
    \A i \in DOMAIN q : q[i].cmd = "DATA" => Run(q[i].data, serial, Expected(q, i, f))

\* The chunks of a record from f to e are on their way.
Covers(q, serial, f, e) ==
    \A i \in f..e : \E j \in DOMAIN q : q[j].cmd = "DATA" /\ Has(q[j].data, <<serial, i>>)

\* What comes next to n's record, and from which record of the other peer.
NextIn(n) == Len(stream[n].got) + Len(stream[n].pipeIn) + 1

Sender(n) == IF stream[n].created THEN stream[n].with ELSE made[Other(n)]

Sent1(n) == stream[n].wrote - Len(stream[n].pipeOut)

\* The chunks of a record's output pipe are the last it was given.
PipesOut ==
    \A n \in Peer : stream[n] # None =>
        LET s == stream[n] IN
        /\ Len(s.pipeOut) <= s.wrote
        /\ \A x \in DOMAIN s.pipeOut : s.pipeOut[x] = <<s.serial, Sent1(n) + x>>

\* What is on its way to a record.
Flow ==
    \A n \in Peer : stream[n] # None =>
        LET p == Other(n) IN
        /\ Chain(chan[p], Sender(n), NextIn(n))
        /\ stream[p] # None =>
              /\ Expected(chan[p], Len(chan[p]) + 1, NextIn(n)) = Sent1(p) + 1
              /\ Covers(chan[p], stream[p].serial, NextIn(n), Sent1(p))

Base ==
    /\ TypeOK /\ Peers /\ Records /\ Shapes /\ Counts /\ Sends
    /\ PipesIn /\ PipesOut

Link ==
    /\ Asked /\ Answered /\ Connected /\ Waits /\ Accepted /\ Over
    /\ Flow

IInv == Base /\ (reset = {} => Link)

-----------------------------------------------------------------------------
(* The two peers, and sequences.                                           *)

\* There are two peers.
LEMMA OtherIs ==
    /\ \A n \in Peer : Other(n) \in Peer /\ Other(n) # n /\ Other(Other(n)) = n
    /\ \A n, r \in Peer : r = n \/ r = Other(n)
<1>1. PICK p \in Peer, q \in Peer : p # q /\ Peer = {p, q}
  BY StreamAssumption
<1>2. \A n \in Peer : \E r \in Peer : r # n
  BY <1>1
<1>3. \A n \in Peer : Other(n) \in Peer /\ Other(n) # n
  BY <1>2 DEF Other
<1> QED
  BY <1>1, <1>3

\* One of them is the initiator.
LEMMA SidesAre ==
    ASSUME Usage
    PROVE  /\ Ini \in Peer /\ Acc \in Peer /\ Acc # Ini
           /\ Other(Ini) = Acc /\ Other(Acc) = Ini
           /\ \A n \in Peer : n = Ini \/ n = Acc
           /\ MayCreate = {Ini}
<1>1. Ini \in Peer /\ MayCreate = {Ini}
  BY DEF Usage, Ini
<1> QED
  BY <1>1, OtherIs DEF Acc

\* A sequence and its tail.
LEMMA TailIs ==
    ASSUME NEW S, NEW u \in Seq(S), u # <<>>
    PROVE  /\ Tail(u) \in Seq(S) /\ Len(u) \in Nat /\ Len(Tail(u)) \in Nat
           /\ Len(u) = Len(Tail(u)) + 1 /\ 1 \in DOMAIN u /\ Head(u) = u[1] /\ u[1] \in S
           /\ DOMAIN u = 1..Len(u) /\ DOMAIN Tail(u) = 1..Len(Tail(u))
           /\ \A i \in DOMAIN Tail(u) : i + 1 \in DOMAIN u /\ Tail(u)[i] = u[i + 1]
           /\ \A i \in DOMAIN u : i = 1 \/ (i - 1 \in DOMAIN Tail(u) /\ Tail(u)[i - 1] = u[i])
<1> DEFINE v == Tail(u)
<1>0. v = Tail(u)
  OBVIOUS
<1> HIDE DEF v
<1>1. /\ v \in Seq(S) /\ Len(u) \in Nat /\ Len(v) \in Nat
      /\ DOMAIN u = 1..Len(u) /\ DOMAIN v = 1..Len(v) /\ Head(u) = u[1]
  BY <1>0
<1>2. Len(u) # 0
  OBVIOUS
<1>3. Len(u) = Len(v) + 1 /\ \A i \in 1..Len(v) : v[i] = u[i + 1]
  BY <1>0, <1>1, <1>2
<1>4. 1 \in DOMAIN u /\ u[1] \in S
  BY <1>1, <1>2
<1>5. \A i \in DOMAIN v : i + 1 \in DOMAIN u /\ v[i] = u[i + 1]
  BY <1>1, <1>3
<1>6. \A i \in DOMAIN u : i = 1 \/ (i - 1 \in DOMAIN v /\ v[i - 1] = u[i])
  <2> SUFFICES ASSUME NEW i \in DOMAIN u, i # 1
               PROVE  i - 1 \in DOMAIN v /\ v[i - 1] = u[i]
    OBVIOUS
  <2>1. i - 1 \in 1..Len(v) /\ (i - 1) + 1 = i
    BY <1>1, <1>3
  <2> QED
    BY <1>1, <1>3, <2>1
<1> QED
  BY <1>0, <1>1, <1>3, <1>4, <1>5, <1>6

\* A sequence and one element more.
LEMMA AppendIs ==
    ASSUME NEW S, NEW u \in Seq(S), NEW x \in S, NEW v, v = Append(u, x)
    PROVE  /\ v \in Seq(S) /\ Len(u) \in Nat /\ Len(v) = Len(u) + 1
           /\ DOMAIN u = 1..Len(u) /\ DOMAIN v = 1..(Len(u) + 1)
           /\ \A i \in DOMAIN u : i \in DOMAIN v /\ v[i] = u[i] /\ i <= Len(u)
           /\ \A i \in DOMAIN v : i \in DOMAIN u \/ i = Len(u) + 1
           /\ v[Len(u) + 1] = x
<1>1. /\ v \in Seq(S) /\ Len(u) \in Nat /\ Len(v) = Len(u) + 1
      /\ DOMAIN u = 1..Len(u) /\ DOMAIN v = 1..(Len(u) + 1)
  OBVIOUS
<1>2. \A i \in 1..Len(u) : v[i] = u[i]
  OBVIOUS
<1>3. v[Len(u) + 1] = x
  OBVIOUS
<1> QED
  BY <1>1, <1>2, <1>3

\* A sequence and another one behind it.
LEMMA ConcatIs ==
    ASSUME NEW S, NEW u \in Seq(S), NEW v \in Seq(S)
    PROVE  /\ u \o v \in Seq(S) /\ Len(u) \in Nat /\ Len(v) \in Nat /\ Len(u \o v) = Len(u) + Len(v)
           /\ DOMAIN u = 1..Len(u) /\ DOMAIN v = 1..Len(v) /\ DOMAIN (u \o v) = 1..(Len(u) + Len(v))
           /\ \A i \in DOMAIN u : i \in DOMAIN (u \o v) /\ (u \o v)[i] = u[i]
           /\ \A i \in DOMAIN v : Len(u) + i \in DOMAIN (u \o v) /\ (u \o v)[Len(u) + i] = v[i]
           /\ \A i \in DOMAIN (u \o v) : i \in DOMAIN u \/ (i - Len(u) \in DOMAIN v /\ (u \o v)[i] = v[i - Len(u)])
<1> DEFINE w == u \o v
<1>0. w = u \o v
  OBVIOUS
<1> HIDE DEF w
<1>1. /\ w \in Seq(S) /\ Len(u) \in Nat /\ Len(v) \in Nat /\ Len(w) = Len(u) + Len(v)
      /\ DOMAIN u = 1..Len(u) /\ DOMAIN v = 1..Len(v) /\ DOMAIN w = 1..(Len(u) + Len(v))
  BY <1>0
<1>2. \A i \in 1..Len(u) : i \in DOMAIN w /\ w[i] = u[i]
  BY <1>0, <1>1
<1>3. \A i \in 1..Len(v) : Len(u) + i \in DOMAIN w /\ w[Len(u) + i] = v[i]
  BY <1>0, <1>1
<1>4. \A i \in DOMAIN w : i \in DOMAIN u \/ (i - Len(u) \in DOMAIN v /\ w[i] = v[i - Len(u)])
  BY <1>0, <1>1
<1> QED
  BY <1>0, <1>1, <1>2, <1>3, <1>4

\* A sequence cut behind its k-th element.
LEMMA CutIs ==
    ASSUME NEW S, NEW u \in Seq(S), NEW k \in 0..Len(u)
    PROVE  /\ SubSeq(u, 1, k) \in Seq(S) /\ SubSeq(u, k + 1, Len(u)) \in Seq(S) /\ Len(u) \in Nat
           /\ Len(SubSeq(u, 1, k)) = k /\ Len(SubSeq(u, k + 1, Len(u))) = Len(u) - k /\ DOMAIN u = 1..Len(u)
           /\ DOMAIN SubSeq(u, 1, k) = 1..k /\ DOMAIN SubSeq(u, k + 1, Len(u)) = 1..(Len(u) - k)
           /\ \A i \in DOMAIN SubSeq(u, 1, k) : i \in DOMAIN u /\ SubSeq(u, 1, k)[i] = u[i]
           /\ \A i \in DOMAIN SubSeq(u, k + 1, Len(u)) : k + i \in DOMAIN u /\ SubSeq(u, k + 1, Len(u))[i] = u[k + i]
<1> DEFINE v == SubSeq(u, 1, k)
           w == SubSeq(u, k + 1, Len(u))
<1>0. v = SubSeq(u, 1, k) /\ w = SubSeq(u, k + 1, Len(u))
  OBVIOUS
<1> HIDE DEF v, w
<1>1. Len(u) \in Nat /\ k \in Nat /\ k <= Len(u) /\ DOMAIN u = 1..Len(u)
  OBVIOUS
<1>2. v \in Seq(S) /\ Len(v) = k /\ DOMAIN v = 1..k /\ \A i \in 1..k : v[i] = u[i]
  BY <1>0, <1>1
<1>3. /\ w \in Seq(S) /\ Len(w) = Len(u) - k
      /\ \A i \in 1..(Len(u) - k) : w[i] = u[k + i]
  <2>1. \A i \in (k + 1)..Len(u) : u[i] \in S
    BY <1>1
  <2>2. /\ w \in Seq(S)
        /\ Len(w) = IF k + 1 <= Len(u) THEN Len(u) - (k + 1) + 1 ELSE 0
        /\ \A i \in 1..(Len(u) - (k + 1) + 1) : w[i] = u[(k + 1) + i - 1]
    BY <1>0, <1>1, <2>1, SubSeqProperties
  <2>3. Len(w) = Len(u) - k
    <3>1. \A l, j \in Nat : j <= l => (IF j + 1 <= l THEN l - (j + 1) + 1 ELSE 0) = l - j
      OBVIOUS
    <3> QED
      BY <1>1, <2>2, <3>1
  <2>4. ASSUME NEW i \in 1..(Len(u) - k) PROVE w[i] = u[k + i]
    <3>1. i \in 1..(Len(u) - (k + 1) + 1) /\ (k + 1) + i - 1 = k + i
      BY <1>1
    <3> QED
      BY <2>2, <3>1
  <2> QED
    BY <2>2, <2>3, <2>4
<1>4. DOMAIN w = 1..(Len(u) - k)
  BY <1>3
<1>5. /\ \A i \in 1..(Len(u) - k) : k + i \in 1..Len(u)
      /\ \A i \in 1..k : i \in 1..Len(u)
  BY <1>1
<1>6. /\ \A i \in DOMAIN v : i \in DOMAIN u /\ v[i] = u[i]
      /\ \A i \in DOMAIN w : k + i \in DOMAIN u /\ w[i] = u[k + i]
  BY <1>1, <1>2, <1>3, <1>4, <1>5
<1> QED
  BY <1>0, <1>1, <1>2, <1>3, <1>4, <1>6

\* A sequence with nothing behind it, or with one element.
LEMMA ConcatOne ==
    ASSUME NEW S, NEW u \in Seq(S), NEW x \in S
    PROVE  u \o <<>> = u /\ u \o Append(<<>>, x) = Append(u, x)
<1>1. u \o <<>> = u
  BY ConcatEmptySeq
<1>2. Append(<<>>, x) = <<x>>
  OBVIOUS
<1>3. Append(u, x) = u \o <<x>>
  BY AppendIsConcat
<1> QED
  BY <1>1, <1>2, <1>3

\* The elements of a sequence, and their numbers.
LEMMA Elements ==
    ASSUME NEW S, NEW u \in Seq(S)
    PROVE  /\ Len(u) \in Nat /\ DOMAIN u = 1..Len(u)
           /\ \A i \in DOMAIN u : i \in Nat /\ u[i] \in S
<1>1. DOMAIN u = 1..Len(u) /\ u \in [1..Len(u) -> S] /\ Len(u) \in Nat
  OBVIOUS
<1> QED
  BY <1>1

\* The commands of a channel.
LEMMA CommandIs ==
    ASSUME NEW u \in Seq(Message)
    PROVE  \A i \in DOMAIN u : /\ u[i] \in Message /\ u[i].serial \in Nat
                               /\ u[i].cmd \in {"CREATE", "CREATED", "DATA", "CLOSE"}
                               /\ u[i].data \in Seq(Nat \X Nat)
<1>1. \A i \in DOMAIN u : u[i] \in Message
  BY Elements
<1> QED
  BY <1>1 DEF Message, Cmd

-----------------------------------------------------------------------------
(* What a handler changes.                                                 *)

Ends == {"never", "own", "closed", "lost", "timeout"}

\* The other peer keeps all it has.
Keeps(p) ==
    /\ stream'[p] = stream[p] /\ queued'[p] = queued[p] /\ made'[p] = made[p]
    /\ ended'[p] = ended[p] /\ given'[p] = given[p]

\* n has the record t, the callbacks c, has made k records, and e and g.
Has5(n, t, c, k, e, g) ==
    stream'[n] = t /\ queued'[n] = c /\ made'[n] = k /\ ended'[n] = e /\ given'[n] = g

\* The bound on records is the one of the initiator.
LEMMA BoundIs ==
    ASSUME Usage
    PROVE  MaxCreate \in Nat /\ MaxCreate * Cardinality(MayCreate) = MaxCreate
<1>1. Cardinality(MayCreate) = 1
  BY SidesAre, FS_Singleton
<1> QED
  BY <1>1, StreamAssumption

\* A handler's changes, and that they keep the types.
LEMMA Committed ==
    ASSUME TypeOK, NEW n \in Peer, NEW p, p = Other(n), NEW h, Commit(n, h),
           h.s \in Record \cup {None}, h.made \in 0..MaxCreate * Cardinality(MayCreate),
           h.queued \subseteq 1..h.made, h.given \subseteq 1..h.made,
           h.ended \in Ends, wild' \in {"none", "callback", "watchers", "queue"},
           up' \subseteq Peer, known' \subseteq Peer, reset' \subseteq Peer, lost' \in 0..MaxLost,
           chan' \in [Peer -> Seq(Message)]
    PROVE  /\ TypeOK' /\ Keeps(p) /\ Has5(n, h.s, h.queued, h.made, h.ended, h.given)
           /\ wild' = h.wild
<1>0. p \in Peer /\ p # n /\ \A r \in Peer : r = n \/ r = p
  BY OtherIs
<1>1. /\ stream' = [stream EXCEPT ![n] = h.s] /\ queued' = [queued EXCEPT ![n] = h.queued]
      /\ made' = [made EXCEPT ![n] = h.made] /\ ended' = [ended EXCEPT ![n] = h.ended]
      /\ given' = [given EXCEPT ![n] = h.given] /\ wild' = h.wild
  BY DEF Commit
<1>2. /\ stream \in [Peer -> Record \cup {None}] /\ queued \in [Peer -> SUBSET Nat]
      /\ made \in [Peer -> 0..MaxCreate * Cardinality(MayCreate)]
      /\ ended \in [Peer -> Ends] /\ given \in [Peer -> SUBSET Nat]
      /\ \A r \in Peer : queued[r] \cup given[r] \subseteq 1..made[r]
  BY DEF TypeOK, Ends
<1>3. Keeps(p) /\ Has5(n, h.s, h.queued, h.made, h.ended, h.given)
  BY <1>0, <1>1, <1>2 DEF Keeps, Has5
<1>4. h.queued \subseteq Nat /\ h.given \subseteq Nat
  OBVIOUS
<1>5. \A r \in Peer : queued'[r] \cup given'[r] \subseteq 1..made'[r]
  BY <1>0, <1>2, <1>3 DEF Keeps, Has5
<1>6. /\ stream' \in [Peer -> Record \cup {None}] /\ queued' \in [Peer -> SUBSET Nat]
      /\ made' \in [Peer -> 0..MaxCreate * Cardinality(MayCreate)]
      /\ ended' \in [Peer -> Ends] /\ given' \in [Peer -> SUBSET Nat]
  BY <1>1, <1>2, <1>4
<1> QED
  BY <1>1, <1>3, <1>5, <1>6 DEF TypeOK, Ends

\* The types of one peer.
LEMMA TypesOf ==
    ASSUME TypeOK, NEW n \in Peer
    PROVE  /\ stream[n] # None => stream[n] \in Record
           /\ chan[n] \in Seq(Message) /\ made[n] \in Nat
           /\ made[n] \in 0..MaxCreate * Cardinality(MayCreate)
           /\ queued[n] \subseteq 1..made[n] /\ given[n] \subseteq 1..made[n] /\ ended[n] \in Ends
           /\ lost \in 0..MaxLost /\ up \subseteq Peer /\ known \subseteq Peer /\ reset \subseteq Peer
           /\ wild \in {"none", "callback", "watchers", "queue"}
BY DEF TypeOK, Ends

\* What is sent after u: nothing, or one command if it reaches the other peer.
LEMMA SentIs ==
    ASSUME NEW u \in Seq(Message), NEW n, NEW h, NEW k
    PROVE  /\ h.out = <<>> => u \o Sent(n, h, k) = u
           /\ \A m \in Message : h.out = Append(<<>>, m) =>
                 u \o Sent(n, h, k) = IF Other(n) \in up /\ n \in k THEN Append(u, m) ELSE u
<1>1. u \o <<>> = u /\ \A m \in Message : u \o Append(<<>>, m) = Append(u, m)
  BY ConcatOne
<1> QED
  BY <1>1 DEF Sent

\* A step that sends one command, or nothing.
LEMMA SendsOne ==
    ASSUME TypeOK, NEW n \in Peer, NEW h, Send(n, h), NEW m \in Message, h.out = Append(<<>>, m)
    PROVE  /\ chan' \in [Peer -> Seq(Message)]
           /\ \A x \in Peer : x # n => chan'[x] = chan[x]
           /\ chan'[n] = IF Other(n) \in up /\ n \in known THEN Append(chan[n], m) ELSE chan[n]
<1>1. chan \in [Peer -> Seq(Message)] /\ chan[n] \in Seq(Message)
  BY DEF TypeOK
<1>2. chan' = [chan EXCEPT ![n] = chan[n] \o Sent(n, h, known)]
  BY DEF Send
<1>3. chan[n] \o Sent(n, h, known) = IF Other(n) \in up /\ n \in known THEN Append(chan[n], m)
                                    ELSE chan[n]
  <2>1. chan[n] \o Append(<<>>, m) = Append(chan[n], m) /\ chan[n] \o <<>> = chan[n]
    BY <1>1, ConcatOne
  <2> QED
    BY <2>1 DEF Sent
<1>4. Append(chan[n], m) \in Seq(Message)
  BY <1>1
<1> QED
  BY <1>1, <1>2, <1>3, <1>4

\* A step that sends nothing.
LEMMA SendsNone ==
    ASSUME TypeOK, NEW n \in Peer, NEW h, Send(n, h), h.out = <<>>
    PROVE  chan' = chan
<1>1. chan \in [Peer -> Seq(Message)] /\ chan[n] \in Seq(Message)
  BY DEF TypeOK
<1>2. chan' = [chan EXCEPT ![n] = chan[n] \o Sent(n, h, known)]
  BY DEF Send
<1>3. chan[n] \o Sent(n, h, known) = chan[n]
  BY <1>1, SentIs
<1> QED
  BY <1>1, <1>2, <1>3

-----------------------------------------------------------------------------
(* Chunks on their way.                                                    *)

\* What comes i-th is expected by what came before.
LEMMA ExpectedAppend ==
    ASSUME NEW u, NEW v, NEW f, Len(u) \in Nat, DOMAIN u = 1..Len(u),
           \A j \in DOMAIN u : v[j] = u[j]
    PROVE  \A i \in 1..(Len(u) + 1) : Expected(v, i, f) = Expected(u, i, f)
<1> SUFFICES ASSUME NEW i \in 1..(Len(u) + 1)
             PROVE  Expected(v, i, f) = Expected(u, i, f)
  OBVIOUS
<1>1. i = 1 \/ (i - 1 \in DOMAIN u /\ v[i - 1] = u[i - 1])
  OBVIOUS
<1> QED
  BY <1>1 DEF Expected

\* A command more keeps the chain, if it has the chunks that come next.
LEMMA ChainAppend ==
    ASSUME NEW u \in Seq(Message), NEW m \in Message, NEW v, v = Append(u, m), NEW s, NEW f,
           Chain(u, s, f), m.cmd = "DATA" => Run(m.data, s, Expected(u, Len(u) + 1, f))
    PROVE  Chain(v, s, f)
<1> SUFFICES ASSUME NEW i \in DOMAIN v, v[i].cmd = "DATA"
             PROVE  Run(v[i].data, s, Expected(v, i, f))
  BY DEF Chain
<1>1. /\ Len(u) \in Nat /\ i \in 1..(Len(u) + 1) /\ Len(u) + 1 \in 1..(Len(u) + 1)
      /\ (i \in DOMAIN u /\ v[i] = u[i]) \/ (i = Len(u) + 1 /\ v[i] = m)
  BY AppendIs
<1>2. Expected(v, i, f) = Expected(u, i, f)
  <2>1. Len(u) \in Nat /\ DOMAIN u = 1..Len(u) /\ \A j \in DOMAIN u : v[j] = u[j]
    BY AppendIs
  <2>2. \A j \in 1..(Len(u) + 1) : Expected(v, j, f) = Expected(u, j, f)
    BY ONLY <2>1, ExpectedAppend
  <2> QED
    BY <1>1, <2>2
<1> QED
  BY <1>1, <1>2 DEF Chain

\* When the first command is taken, what follows is expected as before: behind its
\* chunks, or where it came, if it had none and nothing but chunks follow it.
LEMMA ExpectedTail ==
    ASSUME NEW u \in Seq(Message), u # <<>>, NEW f,
           NEW i \in 1..Len(u), i = 1 \/ u[i].cmd = "DATA"
    PROVE  Expected(Tail(u), i, After(u[1], f)) = Expected(u, i + 1, f)
<1> DEFINE v == Tail(u)
<1>1. /\ Len(u) \in Nat /\ Len(v) \in Nat /\ Len(u) = Len(v) + 1
      /\ DOMAIN u = 1..Len(u) /\ DOMAIN v = 1..Len(v)
      /\ \A j \in DOMAIN v : j + 1 \in DOMAIN u /\ v[j] = u[j + 1]
  BY TailIs
<1>2. i + 1 # 1 /\ (i + 1) - 1 = i /\ i \in DOMAIN u
  BY <1>1
<1>3. CASE i = 1
  BY <1>2, <1>3 DEF Expected
<1>4. CASE i # 1
  <2>1. i - 1 \in DOMAIN v /\ (i - 1) + 1 = i
    <3>1. \A k, l \in Nat : k \in 1..(l + 1) /\ k # 1 => k - 1 \in 1..l /\ (k - 1) + 1 = k
      OBVIOUS
    <3> QED
      BY <1>1, <1>4, <3>1
  <2>2. v[i - 1] = u[i]
    BY <1>1, <2>1
  <2>3. u[i].cmd = "DATA"
    BY <1>2, <1>4
  <2> QED
    BY <1>2, <1>4, <2>2, <2>3 DEF Expected, After
<1> QED
  BY <1>3, <1>4

\* The chunks behind the first command are expected behind its chunks.
LEMMA ChainTail ==
    ASSUME NEW u \in Seq(Message), u # <<>>, NEW s, NEW f,
           \A j \in DOMAIN u : j # 1 /\ j # Len(u) => u[j].cmd = "DATA",
           Chain(u, s, f)
    PROVE  Chain(Tail(u), s, After(u[1], f))
<1> DEFINE v == Tail(u)
<1> SUFFICES ASSUME NEW i \in DOMAIN v, v[i].cmd = "DATA"
             PROVE  Run(v[i].data, s, Expected(v, i, After(u[1], f)))
  BY DEF Chain
<1>1. /\ Len(u) \in Nat /\ Len(v) \in Nat /\ Len(u) = Len(v) + 1
      /\ DOMAIN u = 1..Len(u) /\ DOMAIN v = 1..Len(v)
      /\ i + 1 \in DOMAIN u /\ v[i] = u[i + 1]
  BY TailIs
<1>2. i \in 1..Len(u) /\ (i = 1 \/ u[i].cmd = "DATA")
  BY <1>1
<1>3. Expected(v, i, After(u[1], f)) = Expected(u, i + 1, f)
  BY <1>2, ExpectedTail
<1> QED
  BY <1>1, <1>3 DEF Chain

-----------------------------------------------------------------------------
(* The initiator asks for the stream.                                      *)

\* What a new record of n is.
Fresh(n, initiator, with) ==
    [serial |-> made[n] + 1, created |-> ~initiator, initiator |-> initiator, with |-> with,
     pipeIn |-> <<>>, pipeOut |-> <<>>, got |-> <<>>, wrote |-> 0]

\* A new record is a record.
LEMMA FreshIs ==
    ASSUME TypeOK, NEW n \in Peer, NEW i \in BOOLEAN, NEW w \in Nat
    PROVE  Fresh(n, i, w) \in Record
<1>1. made[n] + 1 \in Nat
  BY TypesOf
<1>2. <<>> \in Seq(Nat \X Nat) /\ 0 \in Nat
  OBVIOUS
<1>3. (~i) \in BOOLEAN
  OBVIOUS
<1> QED
  BY <1>1, <1>2, <1>3 DEF Fresh, Record

\* ksnStreamCreate: a record that is not connected, its callback, and CREATE.
LEMMA AppCreateIs ==
    ASSUME Usage, Base, NEW n \in Peer, AppCreate(n),
           NEW t, t = Fresh(Ini, TRUE, 0), NEW m, m = Msg("CREATE", made[Ini] + 1, <<>>)
    PROVE  /\ n = Ini /\ Ini \in up /\ stream[Ini] = None /\ ended[Ini] \in {"never", "closed", "lost"}
           /\ TypeOK' /\ Keeps(Acc) /\ made[Ini] < MaxCreate
           /\ Has5(Ini, t, queued[Ini] \cup {made[Ini] + 1}, made[Ini] + 1, ended[Ini], given[Ini])
           /\ m \in Message /\ chan'[Acc] = chan[Acc]
           /\ chan'[Ini] = IF Acc \in up /\ Ini \in known THEN Append(chan[Ini], m) ELSE chan[Ini]
           /\ wild' = wild /\ UNCHANGED <<up, known, reset, lost>>
<1> DEFINE h == Create(Start(Ini))
<1>1. n = Ini /\ Other(Ini) = Acc /\ Ini \in Peer /\ Acc \in Peer /\ Acc # Ini
  BY SidesAre DEF AppCreate
<1>2. /\ Ini \in up /\ wild = "none" /\ stream[Ini] = None
      /\ ended[Ini] \in {"never", "closed", "lost"} /\ made[Ini] < MaxCreate
      /\ Send(Ini, h)
  BY <1>1 DEF AppCreate, Running, Usage
<1>3. TypeOK
  BY DEF Base
<1>4. /\ h.s = t /\ h.queued = queued[Ini] \cup {made[Ini] + 1} /\ h.made = made[Ini] + 1
      /\ h.ended = ended[Ini] /\ h.given = given[Ini] /\ h.wild = "none"
      /\ h.out = Append(<<>>, m)
  BY <1>2 DEF Create, NewRecord, Start, Fresh
<1>5. /\ m \in Message /\ chan' = [chan EXCEPT ![Ini] = @ \o Sent(Ini, h, known)] /\ Commit(Ini, h)
      /\ UNCHANGED <<up, known, reset, lost>>
  <2>1. made[Ini] + 1 \in Nat /\ <<>> \in Seq(Nat \X Nat)
    BY <1>1, <1>3, TypesOf
  <2> QED
    BY <1>2, <2>1 DEF Send, Msg, Message, Cmd
<1> HIDE DEF h
<1>6. /\ chan \in [Peer -> Seq(Message)]
      /\ chan' \in [Peer -> Seq(Message)] /\ chan'[Acc] = chan[Acc]
      /\ chan'[Ini] = IF Acc \in up /\ Ini \in known THEN Append(chan[Ini], m) ELSE chan[Ini]
  <2>1. chan \in [Peer -> Seq(Message)]
    BY <1>3 DEF TypeOK
  <2>2. /\ chan' \in [Peer -> Seq(Message)]
        /\ \A x \in Peer : x # Ini => chan'[x] = chan[x]
        /\ chan'[Ini] = IF Other(Ini) \in up /\ Ini \in known THEN Append(chan[Ini], m)
                       ELSE chan[Ini]
    BY <1>1, <1>2, <1>3, <1>4, <1>5, SendsOne
  <2> QED
    BY <1>1, <2>1, <2>2
<1>7. /\ h.made \in 0..MaxCreate * Cardinality(MayCreate)
      /\ h.queued \subseteq 1..h.made /\ h.given \subseteq 1..h.made /\ h.ended \in Ends
  <2>1. /\ made[Ini] \in Nat /\ queued[Ini] \subseteq 1..made[Ini] /\ given[Ini] \subseteq 1..made[Ini]
        /\ ended[Ini] \in Ends
    BY <1>1, <1>3, TypesOf
  <2>2. h.made \in 0..MaxCreate
    BY <1>2, <1>4, <2>1, BoundIs
  <2>3. 1..made[Ini] \subseteq 1..(made[Ini] + 1) /\ made[Ini] + 1 \in 1..(made[Ini] + 1)
    BY <2>1
  <2> QED
    BY <1>4, <2>1, <2>2, <2>3, BoundIs
<1>8. t \in Record
  BY <1>1, <1>3, FreshIs
<1>9. /\ up' \subseteq Peer /\ known' \subseteq Peer /\ reset' \subseteq Peer /\ lost' \in 0..MaxLost
      /\ wild' = "none"
  BY <1>1, <1>3, <1>4, <1>5, TypesOf DEF Commit
<1>10. TypeOK' /\ Keeps(Acc) /\ Has5(Ini, h.s, h.queued, h.made, h.ended, h.given)
  BY <1>1, <1>3, <1>4, <1>5, <1>6, <1>7, <1>8, <1>9, Committed
<1> QED
  BY <1>1, <1>2, <1>4, <1>5, <1>6, <1>9, <1>10

\* Nothing but chunks can be on its way when the initiator asks.
LEMMA AppCreateKeeps ==
    ASSUME Usage, IInv, NEW n \in Peer, AppCreate(n)
    PROVE  IInv'
<1> DEFINE t == Fresh(Ini, TRUE, 0)
           m == Msg("CREATE", made[Ini] + 1, <<>>)
<1>0. /\ Ini \in Peer /\ Acc \in Peer /\ Acc # Ini /\ Other(Ini) = Acc /\ Other(Acc) = Ini
      /\ \A x \in Peer : x = Ini \/ x = Acc
  BY SidesAre
<1>1. Base /\ TypeOK /\ Peers /\ Records /\ Shapes /\ Counts /\ Sends /\ PipesIn /\ PipesOut
  BY DEF IInv, Base
<1>2. /\ Ini \in up /\ stream[Ini] = None /\ ended[Ini] \in {"never", "closed", "lost"}
      /\ TypeOK' /\ Keeps(Acc) /\ made[Ini] < MaxCreate
      /\ Has5(Ini, t, queued[Ini] \cup {made[Ini] + 1}, made[Ini] + 1, ended[Ini], given[Ini])
      /\ m \in Message /\ chan'[Acc] = chan[Acc]
      /\ chan'[Ini] = IF Acc \in up /\ Ini \in known THEN Append(chan[Ini], m) ELSE chan[Ini]
      /\ wild' = wild /\ UNCHANGED <<up, known, reset, lost>>
  BY <1>1, AppCreateIs
<1>3. /\ t # None /\ t.serial = made[Ini] + 1 /\ t.created = FALSE /\ t.initiator = TRUE
      /\ t.with = 0 /\ t.wrote = 0 /\ t.pipeIn = <<>> /\ t.pipeOut = <<>> /\ t.got = <<>>
  <2>1. TRUE \in BOOLEAN /\ 0 \in Nat
    OBVIOUS
  <2>2. t \in Record
    BY <1>0, <1>1, <2>1, FreshIs
  <2> QED
    BY <2>2, StreamAssumption DEF Fresh
<1>4. m.cmd = "CREATE" /\ m.serial = made[Ini] + 1
  BY DEF Msg
<1> HIDE DEF t, m
<1>5. /\ stream'[Ini] = t /\ stream'[Acc] = stream[Acc] /\ queued'[Acc] = queued[Acc]
      /\ queued'[Ini] = queued[Ini] \cup {made[Ini] + 1}
      /\ made'[Ini] = made[Ini] + 1 /\ made'[Acc] = made[Acc]
      /\ ended' [Ini] = ended[Ini] /\ given'[Ini] = given[Ini]
  BY <1>2 DEF Keeps, Has5
<1>6. /\ made[Ini] \in Nat /\ made[Acc] \in Nat /\ MaxCreate \in Nat
      /\ chan[Ini] \in Seq(Message) /\ chan[Acc] \in Seq(Message)
  BY <1>0, <1>1, TypesOf, StreamAssumption
<1>7. \A i \in DOMAIN chan[Ini] : chan[Ini][i].cmd = "DATA"
  <2>1. \A i \in DOMAIN chan[Ini] : chan[Ini][i].cmd \in {"CREATE", "CREATED", "DATA", "CLOSE"}
    BY <1>6, CommandIs
  <2> QED
    BY <1>1, <1>2, <2>1 DEF Sends, Shapes, UnderWay
<1>8. PICK l \in Nat :
         \/ chan'[Ini] = chan[Ini]
         \/ /\ Acc \in up /\ Ini \in known /\ Len(chan'[Ini]) = l
            /\ \A i \in DOMAIN chan'[Ini] :
                 \/ i \in DOMAIN chan[Ini] /\ chan'[Ini][i] = chan[Ini][i]
                 \/ i = l /\ chan'[Ini][i] = m
  <2>1. CASE chan'[Ini] = Append(chan[Ini], m)
    BY <1>2, <1>6, <2>1, AppendIs
  <2> QED
    BY <1>2, <2>1
<1>9. \A i \in DOMAIN chan'[Ini] : chan'[Ini][i].cmd = "DATA" \/ (chan'[Ini][i] = m /\ i = Len(chan'[Ini]))
  BY <1>7, <1>8
<1>10. Peers'
  BY <1>0, <1>1, <1>2, <1>3, <1>5 DEF Peers, Open
<1>11. Records'
  BY <1>1, <1>2, <1>3, <1>5 DEF Records
<1>12. Shapes'
  BY <1>1, <1>2, <1>4, <1>9 DEF Shapes
<1>13. Counts'
  BY <1>1, <1>2, <1>5, <1>6 DEF Counts
<1>14. Sends'
  BY <1>1, <1>2, <1>3, <1>4, <1>5, <1>9 DEF Sends, UnderWay, Pending
<1>15. PipesIn' /\ PipesOut'
  <2>1. Len(t.pipeOut) <= t.wrote /\ \A i : i \notin DOMAIN t.pipeOut /\ i \notin DOMAIN t.got /\ i \notin DOMAIN t.pipeIn
    BY <1>3
  <2> QED
    BY <1>0, <1>1, <1>5, <2>1 DEF PipesIn, PipesOut, Sent1
<1>16. ASSUME reset' = {} PROVE Link'
  <2>1. Link /\ stream[Acc] = None /\ chan[Acc] = <<>>
    BY <1>2, <1>16 DEF IInv, Link, Over
  <2>2. Asked' /\ Answered' /\ Connected' /\ Waits' /\ Accepted' /\ Over'
    BY <1>2, <1>3, <1>5, <2>1 DEF Asked, Answered, Connected, Waits, Accepted, Over, UnderWay, Open
  <2>3. Flow'
    BY <1>0, <1>2, <1>5, <2>1 DEF Flow, Chain
  <2> QED
    BY <2>2, <2>3 DEF Link
<1> QED
  BY <1>2, <1>10, <1>11, <1>12, <1>13, <1>14, <1>15, <1>16 DEF IInv, Base

-----------------------------------------------------------------------------
(* A stream is closed.                                                     *)

\* The streams given up, when n's stream ends.
GivenAfter(n) == IF stream[n].created THEN given[n] ELSE given[n] \cup {stream[n].serial}

\* The serial number of a record is one of those its peer gave.
LEMMA SerialIs ==
    ASSUME Usage, Base, NEW n \in Peer, stream[n] # None
    PROVE  /\ stream[n].serial \in Nat /\ stream[n].created \in BOOLEAN
           /\ GivenAfter(n) \subseteq 1..made[n]
<1>1. /\ stream[n] \in Record /\ queued[n] \subseteq 1..made[n] /\ given[n] \subseteq 1..made[n]
  BY TypesOf DEF Base
<1>2. stream[n].serial \in Nat /\ stream[n].created \in BOOLEAN
  BY <1>1 DEF Record
<1>3. ~stream[n].created => stream[n].serial \in queued[n]
  BY SidesAre DEF Base, Records
<1> QED
  BY <1>1, <1>2, <1>3 DEF GivenAfter

\* ksnStreamClose (CMD_ST_CLOSE): the record is freed, and CLOSE sent if it was connected.
LEMMA AppCloseIs ==
    ASSUME Usage, Base, NEW n \in Peer, AppClose(n)
    PROVE  /\ n \in up /\ stream[n] # None /\ TypeOK' /\ Keeps(Other(n))
           /\ Has5(n, None, queued[n], made[n], "own", GivenAfter(n))
           /\ Msg("CLOSE", stream[n].serial, <<>>) \in Message
           /\ chan'[Other(n)] = chan[Other(n)]
           /\ chan'[n] = IF stream[n].created /\ Other(n) \in up /\ n \in known
                         THEN Append(chan[n], Msg("CLOSE", stream[n].serial, <<>>)) ELSE chan[n]
           /\ wild' = wild /\ UNCHANGED <<up, known, reset, lost>>
<1> DEFINE h == Close(Start(n), "own")
           m == Msg("CLOSE", stream[n].serial, <<>>)
<1>1. Other(n) \in Peer /\ Other(n) # n
  BY OtherIs
<1>2. /\ n \in up /\ wild = "none" /\ stream[n] # None /\ Send(n, h)
  BY DEF AppClose, Running
<1>3. TypeOK /\ chan \in [Peer -> Seq(Message)]
  BY DEF Base, TypeOK
<1>4. /\ stream[n].serial \in Nat /\ stream[n].created \in BOOLEAN
      /\ GivenAfter(n) \subseteq 1..made[n]
  BY <1>2, SerialIs
<1>5. /\ h.s = None /\ h.queued = queued[n] /\ h.made = made[n]
      /\ h.ended = "own" /\ h.given = GivenAfter(n) /\ h.wild = "none"
      /\ stream[n].created => h.out = Append(<<>>, m)
      /\ ~stream[n].created => h.out = <<>>
  BY <1>2 DEF Close, Start, GivenAfter
<1>6. /\ m \in Message /\ Commit(n, h) /\ UNCHANGED <<up, known, reset, lost>>
  <2>1. <<>> \in Seq(Nat \X Nat)
    OBVIOUS
  <2> QED
    BY <1>2, <1>4, <2>1 DEF Send, Msg, Message, Cmd
<1> HIDE DEF h, m
<1>7. /\ chan' \in [Peer -> Seq(Message)]
      /\ \A x \in Peer : x # n => chan'[x] = chan[x]
      /\ chan'[n] = IF stream[n].created /\ Other(n) \in up /\ n \in known
                    THEN Append(chan[n], m) ELSE chan[n]
  <2>1. CASE stream[n].created
    BY <1>2, <1>3, <1>5, <1>6, <2>1, SendsOne
  <2>2. CASE ~stream[n].created
    BY <1>2, <1>3, <1>5, <2>2, SendsNone
  <2> QED
    BY <2>1, <2>2
<1>8. /\ h.made \in 0..MaxCreate * Cardinality(MayCreate)
      /\ h.queued \subseteq 1..h.made /\ h.given \subseteq 1..h.made /\ h.ended \in Ends
      /\ up' \subseteq Peer /\ known' \subseteq Peer /\ reset' \subseteq Peer /\ lost' \in 0..MaxLost
      /\ wild' = "none" /\ h.s \in Record \cup {None}
  BY <1>3, <1>4, <1>5, <1>6, TypesOf DEF Commit, Ends
<1>9. TypeOK' /\ Keeps(Other(n)) /\ Has5(n, h.s, h.queued, h.made, h.ended, h.given)
  BY <1>1, <1>3, <1>5, <1>6, <1>7, <1>8, Committed
<1> QED
  BY <1>1, <1>2, <1>5, <1>6, <1>7, <1>8, <1>9 DEF m

\* A command more: where it comes, and that the others stay.
LEMMA MoreIs ==
    ASSUME NEW u \in Seq(Message), NEW m \in Message, NEW v, v = u \/ v = Append(u, m)
    PROVE  /\ \A i \in DOMAIN u : i \in DOMAIN v /\ v[i] = u[i] /\ i <= Len(u)
           /\ \A i \in DOMAIN v : \/ i \in DOMAIN u /\ v[i] = u[i]
                                  \/ i = Len(v) /\ v[i] = m /\ v = Append(u, m)
           /\ v = Append(u, m) => /\ Len(v) \in DOMAIN v /\ v[Len(v)] = m
                                  /\ \A i \in DOMAIN u : i # Len(v)
<1>1. CASE v = u
  <2>1. Append(u, m) # u
    <3>1. Len(Append(u, m)) = Len(u) + 1 /\ Len(u) \in Nat
      BY AppendIs
    <3> QED
      BY <3>1
  <2> QED
    BY <1>1, <2>1, Elements
<1>2. CASE v = Append(u, m)
  BY <1>2, AppendIs
<1> QED
  BY <1>1, <1>2

\* CLOSE after chunks leaves the chain as it is.
LEMMA ChainMore ==
    ASSUME NEW u \in Seq(Message), NEW m \in Message, NEW v, v = u \/ v = Append(u, m),
           m.cmd # "DATA", NEW s, NEW f, Chain(u, s, f)
    PROVE  Chain(v, s, f)
BY ChainAppend

\* The initiator's stream ends with itself, or was not connected in time.
LEMMA IniCloses ==
    ASSUME Usage, IInv, stream[Ini] # None, TypeOK', Keeps(Acc),
           stream'[Ini] = None, made'[Ini] = made[Ini], given'[Ini] = GivenAfter(Ini),
           ended'[Ini] = "own" \/ (ended'[Ini] = "timeout" /\ ~stream[Ini].created),
           NEW m \in Message, m.cmd = "CLOSE", chan'[Acc] = chan[Acc],
           chan'[Ini] = IF stream[Ini].created /\ Acc \in up /\ Ini \in known
                        THEN Append(chan[Ini], m) ELSE chan[Ini],
           wild' \in {"none", "callback"}, UNCHANGED <<up, known, reset>>
    PROVE  IInv'
<1>0. /\ Ini \in Peer /\ Acc \in Peer /\ Acc # Ini /\ Other(Ini) = Acc /\ Other(Acc) = Ini
      /\ \A x \in Peer : x = Ini \/ x = Acc
  BY SidesAre
<1>1. Base /\ TypeOK /\ Peers /\ Records /\ Shapes /\ Counts /\ Sends /\ PipesIn /\ PipesOut
  BY DEF IInv, Base
<1>2. /\ stream'[Acc] = stream[Acc] /\ queued'[Acc] = queued[Acc] /\ made'[Acc] = made[Acc]
  BY DEF Keeps
<1>3. /\ chan[Ini] \in Seq(Message) /\ chan[Acc] \in Seq(Message)
      /\ \A i \in DOMAIN chan[Ini] : chan[Ini][i].cmd \in {"CREATE", "CREATED", "DATA", "CLOSE"}
  BY <1>0, <1>1, TypesOf, CommandIs
<1>4. Ini \in up /\ (stream[Ini].created => Ini \in known)
  BY <1>0, <1>1 DEF Peers, Open
<1>5. chan'[Ini] = chan[Ini] \/ (stream[Ini].created /\ chan'[Ini] = Append(chan[Ini], m))
  OBVIOUS
<1>6. /\ \A i \in DOMAIN chan[Ini] : i \in DOMAIN chan'[Ini] /\ chan'[Ini][i] = chan[Ini][i]
      /\ \A i \in DOMAIN chan'[Ini] :
            \/ i \in DOMAIN chan[Ini] /\ chan'[Ini][i] = chan[Ini][i]
            \/ i = Len(chan'[Ini]) /\ chan'[Ini][i] = m /\ stream[Ini].created
      /\ chan'[Ini] = Append(chan[Ini], m) => UnderWay(Ini, "CLOSE")'
  <2>1. chan'[Ini] = chan[Ini] \/ chan'[Ini] = Append(chan[Ini], m)
    BY <1>5
  <2>2. /\ \A i \in DOMAIN chan[Ini] : i \in DOMAIN chan'[Ini] /\ chan'[Ini][i] = chan[Ini][i]
        /\ \A i \in DOMAIN chan'[Ini] :
              \/ i \in DOMAIN chan[Ini] /\ chan'[Ini][i] = chan[Ini][i]
              \/ i = Len(chan'[Ini]) /\ chan'[Ini][i] = m /\ chan'[Ini] = Append(chan[Ini], m)
        /\ chan'[Ini] = Append(chan[Ini], m) =>
              Len(chan'[Ini]) \in DOMAIN chan'[Ini] /\ chan'[Ini][Len(chan'[Ini])] = m
    BY <1>3, <2>1, MoreIs
  <2>3. chan'[Ini] = Append(chan[Ini], m) => stream[Ini].created \/ chan'[Ini] = chan[Ini]
    BY <1>5
  <2> QED
    BY <2>2, <2>3 DEF UnderWay
\* A stream that is connected has only chunks on its way.
<1>7. \A i \in DOMAIN chan[Ini] : stream[Ini].created => chan[Ini][i].cmd = "DATA"
  BY <1>1, <1>3 DEF Sends, Shapes, UnderWay, Pending, GivenUp
<1>8. ~stream[Ini].created => GivenUp' /\ chan'[Ini] = chan[Ini]
  BY <1>1 DEF Records, GivenUp, GivenAfter
<1>9. Peers'
  BY <1>0, <1>1, <1>2, <1>4 DEF Peers, Open
<1>10. Records'
  BY <1>1, <1>2 DEF Records
<1>11. Shapes'
  <2>1. ~stream[Ini].created => chan'[Ini] = chan[Ini]
    OBVIOUS
  <2> QED
    BY <1>1, <1>6, <1>7, <2>1 DEF Shapes
<1>12. Counts' /\ Sends'
  <2>1. \A i \in DOMAIN chan[Ini] : chan[Ini][i].cmd = "CREATE" => ~stream[Ini].created
    BY <1>7
  <2>2. ~UnderWay(Ini, "CLOSE")
    BY <1>1 DEF Sends
  <2>3. UnderWay(Ini, "CREATE")' => UnderWay(Ini, "CREATE")
    BY <1>6 DEF UnderWay
  <2>4. UnderWay(Ini, "CLOSE")' => stream[Ini].created
    BY <1>6, <2>2 DEF UnderWay
  <2>5. Counts'
    BY <1>1, <1>2, <2>3 DEF Counts
  <2>6. ASSUME NEW i \in DOMAIN chan'[Ini], chan'[Ini][i].cmd = "CREATE"
        PROVE  /\ chan'[Ini][i].serial = made'[Ini] /\ GivenUp'
               /\ ended'[Ini] \in {"own", "timeout"}
    BY <1>1, <1>6, <1>8, <2>1, <2>6 DEF Sends
  <2> QED
    BY <1>1, <1>2, <2>4, <2>5, <2>6 DEF Sends, UnderWay
<1>13. PipesIn' /\ PipesOut'
  BY <1>0, <1>1, <1>2 DEF PipesIn, PipesOut, Sent1
<1>14. ASSUME reset' = {} PROVE Link'
  <2>1. Link
    BY <1>14 DEF IInv
  <2>2. Asked'
    BY <1>2, <1>6, <2>1 DEF Link, Asked, UnderWay
  <2>3. Answered'
    <3>1. ASSUME NEW i \in DOMAIN chan[Acc], chan[Acc][i].cmd = "CREATED"
          PROVE  chan'[Ini] = <<>> /\ GivenUp'
      BY <1>8, <2>1, <3>1 DEF Link, Answered, Pending, GivenUp
    <3> QED
      BY <1>2, <2>1, <3>1 DEF Link, Answered, UnderWay
  <2>4. Connected' /\ Waits' /\ Over'
    BY DEF Connected, Waits, Over, Open, Pending
  <2>5. Accepted'
    <3>1. ASSUME stream[Acc] # None PROVE UnderWay(Ini, "CLOSE")' \/ GivenUp'
      <4>1. Acc \in up
        BY <1>0, <1>1, <3>1 DEF Peers
      <4> QED
        BY <1>4, <1>6, <1>8, <4>1
    <3> QED
      BY <1>2, <2>1, <3>1 DEF Link, Accepted
  <2>6. Flow'
    <3>1. ASSUME stream[Acc] # None PROVE Chain(chan'[Ini], Sender(Acc), NextIn(Acc))
      <4>1. Chain(chan[Ini], Sender(Acc), NextIn(Acc))
        BY <1>0, <2>1, <3>1 DEF Link, Flow
      <4>2. chan'[Ini] = chan[Ini] \/ chan'[Ini] = Append(chan[Ini], m)
        BY <1>5
      <4> QED
        BY <1>3, <4>1, <4>2, ChainMore
    <3>2. stream[Acc] # None => Sender(Acc)' = Sender(Acc) /\ NextIn(Acc)' = NextIn(Acc)
      BY <1>0, <1>2 DEF Sender, NextIn
    <3> QED
      BY <1>0, <1>2, <3>1, <3>2 DEF Flow
  <2> QED
    BY <2>2, <2>3, <2>4, <2>5, <2>6 DEF Link
<1> QED
  BY <1>9, <1>10, <1>11, <1>12, <1>13, <1>14 DEF IInv, Base

\* The acceptor's stream ends with itself.
LEMMA AccCloses ==
    ASSUME Usage, IInv, stream[Acc] # None, TypeOK', Keeps(Ini),
           stream'[Acc] = None, made'[Acc] = made[Acc], queued'[Acc] = queued[Acc],
           NEW m \in Message, m.cmd = "CLOSE", chan'[Ini] = chan[Ini],
           chan'[Acc] = IF Ini \in up THEN Append(chan[Acc], m) ELSE chan[Acc],
           wild' = wild, UNCHANGED <<up, known, reset>>
    PROVE  IInv'
<1>0. /\ Ini \in Peer /\ Acc \in Peer /\ Acc # Ini /\ Other(Ini) = Acc /\ Other(Acc) = Ini
      /\ \A x \in Peer : x = Ini \/ x = Acc
  BY SidesAre
<1>1. Base /\ TypeOK /\ Peers /\ Records /\ Shapes /\ Counts /\ Sends /\ PipesIn /\ PipesOut
  BY DEF IInv, Base
<1>2. /\ stream'[Ini] = stream[Ini] /\ queued'[Ini] = queued[Ini] /\ made'[Ini] = made[Ini]
      /\ ended'[Ini] = ended[Ini] /\ given'[Ini] = given[Ini]
  BY DEF Keeps
<1>3. /\ chan[Ini] \in Seq(Message) /\ chan[Acc] \in Seq(Message)
      /\ \A i \in DOMAIN chan[Acc] : chan[Acc][i].cmd \in {"CREATE", "CREATED", "DATA", "CLOSE"}
  BY <1>0, <1>1, TypesOf, CommandIs
<1>4. Acc \in up /\ Acc \in known
  BY <1>0, <1>1 DEF Peers, Open, Records
<1>5. chan'[Acc] = chan[Acc] \/ chan'[Acc] = Append(chan[Acc], m)
  OBVIOUS
<1>6. /\ \A i \in DOMAIN chan[Acc] : i \in DOMAIN chan'[Acc] /\ chan'[Acc][i] = chan[Acc][i]
      /\ \A i \in DOMAIN chan'[Acc] :
            \/ i \in DOMAIN chan[Acc] /\ chan'[Acc][i] = chan[Acc][i]
            \/ i = Len(chan'[Acc]) /\ chan'[Acc][i] = m
      /\ chan'[Acc] = Append(chan[Acc], m) => UnderWay(Acc, "CLOSE")'
  <2>1. /\ \A i \in DOMAIN chan[Acc] : i \in DOMAIN chan'[Acc] /\ chan'[Acc][i] = chan[Acc][i]
        /\ \A i \in DOMAIN chan'[Acc] :
              \/ i \in DOMAIN chan[Acc] /\ chan'[Acc][i] = chan[Acc][i]
              \/ i = Len(chan'[Acc]) /\ chan'[Acc][i] = m /\ chan'[Acc] = Append(chan[Acc], m)
        /\ chan'[Acc] = Append(chan[Acc], m) =>
              Len(chan'[Acc]) \in DOMAIN chan'[Acc] /\ chan'[Acc][Len(chan'[Acc])] = m
    BY <1>3, <1>5, MoreIs
  <2> QED
    BY <2>1 DEF UnderWay
<1>7. \A i \in DOMAIN chan[Acc] : chan[Acc][i].cmd # "CLOSE"
  BY <1>1 DEF Sends, UnderWay
<1>8. Ini \notin up => stream[Ini] = None /\ chan[Acc] = <<>> /\ chan'[Acc] = <<>>
  BY <1>0, <1>1 DEF Peers
<1>9. Peers'
  BY <1>0, <1>1, <1>2, <1>4, <1>8 DEF Peers, Open
<1>10. Records'
  BY <1>1, <1>2 DEF Records
<1>11. Shapes'
  BY <1>1, <1>6, <1>7 DEF Shapes
<1>12. Counts' /\ Sends'
  BY <1>1, <1>2 DEF Counts, Sends, UnderWay, Pending, GivenUp
<1>13. PipesIn' /\ PipesOut'
  BY <1>0, <1>1, <1>2 DEF PipesIn, PipesOut, Sent1
<1>14. ASSUME reset' = {} PROVE Link'
  <2>1. Link
    BY <1>14 DEF IInv
  <2>2. Asked' /\ Accepted'
    BY <2>1 DEF Link, Asked, Accepted, UnderWay
  <2>3. \A i \in DOMAIN chan'[Acc] : chan'[Acc][i].cmd = "CREATED" =>
           i \in DOMAIN chan[Acc] /\ chan'[Acc][i] = chan[Acc][i]
    BY <1>6
  <2>4. UnderWay(Acc, "CREATED")' <=> UnderWay(Acc, "CREATED")
    BY <1>6, <2>3 DEF UnderWay
  <2>5. Ini \in up => UnderWay(Acc, "CLOSE")'
    BY <1>6
  <2>6. Answered'
    <3>1. ASSUME NEW i \in DOMAIN chan'[Acc], chan'[Acc][i].cmd = "CREATED"
          PROVE  Ini \in up
      BY <1>8, <3>1
    <3> QED
      BY <1>2, <2>1, <2>3, <2>5, <3>1 DEF Link, Answered, Pending, GivenUp
  <2>7. Connected' /\ Waits' /\ Over'
    BY <1>2, <1>8, <2>1, <2>4, <2>5 DEF Link, Connected, Waits, Over, Open, Pending
  <2>8. Flow'
    <3>1. ASSUME stream[Ini] # None PROVE Chain(chan'[Acc], Sender(Ini), NextIn(Ini))
      <4>1. Chain(chan[Acc], Sender(Ini), NextIn(Ini))
        BY <1>0, <2>1, <3>1 DEF Link, Flow
      <4> QED
        BY <1>3, <1>5, <4>1, ChainMore
    <3>2. Sender(Ini)' = Sender(Ini) /\ NextIn(Ini)' = NextIn(Ini)
      BY <1>0, <1>2 DEF Sender, NextIn
    <3> QED
      BY <1>0, <1>2, <3>1, <3>2 DEF Flow
  <2> QED
    BY <2>2, <2>6, <2>7, <2>8 DEF Link
<1> QED
  BY <1>9, <1>10, <1>11, <1>12, <1>13, <1>14 DEF IInv, Base

\* ksnStreamClose: the application ends the stream, and a connected one is told.
LEMMA AppCloseKeeps ==
    ASSUME Usage, IInv, NEW n \in Peer, AppClose(n)
    PROVE  IInv'
<1> DEFINE m == Msg("CLOSE", stream[n].serial, <<>>)
<1>0. /\ Ini \in Peer /\ Acc \in Peer /\ Other(Ini) = Acc /\ Other(Acc) = Ini
      /\ (n = Ini \/ n = Acc)
  BY SidesAre
<1>1. Base /\ Peers /\ Records
  BY DEF IInv, Base
<1>2. /\ n \in up /\ stream[n] # None /\ TypeOK' /\ Keeps(Other(n))
      /\ Has5(n, None, queued[n], made[n], "own", GivenAfter(n))
      /\ m \in Message /\ chan'[Other(n)] = chan[Other(n)]
      /\ chan'[n] = IF stream[n].created /\ Other(n) \in up /\ n \in known
                    THEN Append(chan[n], m) ELSE chan[n]
      /\ wild' = wild /\ UNCHANGED <<up, known, reset, lost>>
  BY <1>1, AppCloseIs
<1>3. m.cmd = "CLOSE"
  BY DEF Msg
<1> HIDE DEF m
<1>4. CASE n = Ini
  <2>1. wild' \in {"none", "callback"}
    BY <1>1, <1>2 DEF Records
  <2> QED
    BY <1>0, <1>2, <1>3, <1>4, <2>1, IniCloses DEF Has5
<1>5. CASE n = Acc
  <2>1. stream[n].created /\ n \in known
    BY <1>0, <1>1, <1>2, <1>5 DEF Records, Peers, Open
  <2> QED
    BY <1>0, <1>2, <1>3, <1>5, <2>1, AccCloses DEF Has5
<1> QED
  BY <1>0, <1>4, <1>5

-----------------------------------------------------------------------------
(* The callback of a stream that was not connected in time.                *)

\* kq_connect_cb: the stream ends, or its record was freed before.
LEMMA ConnectCbKeeps ==
    ASSUME Usage, IInv, NEW n \in Peer, ConnectCb(n)
    PROVE  IInv'
<1>0. /\ Ini \in Peer /\ Acc \in Peer /\ Acc # Ini /\ Other(Ini) = Acc /\ Other(Acc) = Ini
      /\ \A x \in Peer : x = Ini \/ x = Acc
  BY SidesAre
<1>1. /\ Base /\ TypeOK /\ Peers /\ Records /\ Shapes /\ Counts /\ Sends /\ PipesIn /\ PipesOut
      /\ reset = {} => Link
  BY DEF IInv, Base
<1>2. PICK serial \in queued[n] : Send(n, ConnectTimeout(Start(n), serial))
  BY DEF ConnectCb
<1>3. n = Ini /\ n \in up /\ wild = "none" /\ queued[Acc] = {}
  BY <1>0, <1>1, <1>2 DEF ConnectCb, Running, Records
<1> DEFINE h == ConnectTimeout(Start(Ini), serial)
           m == Msg("CLOSE", 0, <<>>)
<1>4. /\ made[Ini] \in 0..MaxCreate * Cardinality(MayCreate) /\ queued[Ini] \subseteq 1..made[Ini]
      /\ given[Ini] \subseteq 1..made[Ini] /\ ended[Ini] \in Ends
      /\ stream[Ini] # None => stream[Ini] \in Record
      /\ up \subseteq Peer /\ known \subseteq Peer /\ reset \subseteq Peer /\ lost \in 0..MaxLost
      /\ chan \in [Peer -> Seq(Message)]
  BY <1>0, <1>1, TypesOf DEF TypeOK
<1>5. Commit(Ini, h) /\ UNCHANGED <<up, known, reset, lost>>
  BY <1>2, <1>3 DEF Send
<1>6. CASE stream[Ini] # None /\ stream[Ini].serial = serial
  <2>1. ~stream[Ini].created
    BY <1>1, <1>2, <1>3, <1>6 DEF Records
  <2>2. /\ h.s = None /\ h.queued = queued[Ini] \ {serial} /\ h.made = made[Ini]
        /\ h.ended = "timeout" /\ h.given = GivenAfter(Ini) /\ h.wild = "none" /\ h.out = <<>>
    BY <1>3, <1>6, <2>1 DEF ConnectTimeout, Close, Start, GivenAfter
  <2>3. GivenAfter(Ini) \subseteq 1..made[Ini] /\ Send(Ini, h) /\ m \in Message /\ m.cmd = "CLOSE"
    <3>1. <<>> \in Seq(Nat \X Nat) /\ 0 \in Nat
      OBVIOUS
    <3> QED
      BY <1>0, <1>1, <1>2, <1>3, <1>6, <3>1, SerialIs DEF Msg, Message, Cmd
  <2> HIDE DEF h, m
  <2>4. chan' = chan
    BY <1>0, <1>1, <2>2, <2>3, SendsNone
  <2>5. /\ TypeOK' /\ Keeps(Acc) /\ Has5(Ini, h.s, h.queued, h.made, h.ended, h.given)
        /\ wild' = h.wild
    <3>1. wild' = "none"
      BY <1>5, <2>2 DEF Commit
    <3>2. h.ended \in Ends /\ h.queued \subseteq 1..h.made
      BY <1>4, <2>2 DEF Ends
    <3> QED
      BY <1>0, <1>1, <1>4, <1>5, <2>2, <2>3, <2>4, <3>1, <3>2, Committed
  <2>6. /\ stream'[Ini] = None /\ made'[Ini] = made[Ini] /\ given'[Ini] = GivenAfter(Ini)
        /\ ended'[Ini] = "timeout" /\ wild' = "none"
    BY <2>2, <2>5 DEF Has5
  <2>7. /\ chan'[Acc] = chan[Acc]
        /\ chan'[Ini] = IF stream[Ini].created /\ Acc \in up /\ Ini \in known
                        THEN Append(chan[Ini], m) ELSE chan[Ini]
    BY <2>1, <2>4
  <2> QED
    BY <1>5, <1>6, <2>1, <2>3, <2>5, <2>6, <2>7, IniCloses
<1>7. CASE ~(stream[Ini] # None /\ stream[Ini].serial = serial)
  <2>1. /\ h.s = stream[Ini] /\ h.queued = queued[Ini] \ {serial} /\ h.made = made[Ini]
        /\ h.ended = ended[Ini] /\ h.given = given[Ini] /\ h.wild = "callback" /\ h.out = <<>>
    BY <1>3, <1>7 DEF ConnectTimeout, Start
  <2>2. Send(Ini, h)
    BY <1>2, <1>3
  <2> HIDE DEF h
  <2>3. chan' = chan
    BY <1>0, <1>1, <2>1, <2>2, SendsNone
  <2>4. /\ TypeOK' /\ Keeps(Acc) /\ Has5(Ini, h.s, h.queued, h.made, h.ended, h.given)
        /\ wild' = h.wild
    <3>1. wild' = "callback"
      BY <1>5, <2>1 DEF Commit
    <3>2. h.queued \subseteq 1..h.made /\ h.s \in Record \cup {None}
      BY <1>4, <2>1
    <3> QED
      BY <1>0, <1>1, <1>4, <1>5, <2>1, <2>3, <3>1, <3>2, Committed
  <2>5. /\ \A x \in Peer : /\ stream'[x] = stream[x] /\ made'[x] = made[x] /\ ended'[x] = ended[x]
                           /\ given'[x] = given[x] /\ chan'[x] = chan[x]
        /\ queued'[Ini] = queued[Ini] \ {serial} /\ queued'[Acc] = {} /\ wild' = "callback"
        /\ up' = up /\ known' = known /\ reset' = reset
    BY <1>0, <1>3, <1>5, <2>1, <2>3, <2>4 DEF Keeps, Has5
  <2>6. Peers' /\ Shapes' /\ Counts' /\ Sends' /\ PipesIn' /\ PipesOut'
    BY <1>0, <1>1, <2>5 DEF Peers, Open, Shapes, Counts, Sends, UnderWay, Pending, GivenUp,
                           PipesIn, PipesOut, Sent1
  <2>7. Records'
    BY <1>0, <1>1, <1>7, <2>5 DEF Records
  <2>8. ASSUME reset' = {} PROVE Link'
    <3>1. Link
      BY <1>1, <2>5, <2>8
    <3>2. Asked' /\ Answered' /\ Connected' /\ Waits' /\ Accepted' /\ Over'
      BY <1>0, <2>5, <3>1 DEF Link, Asked, Answered, Connected, Waits, Accepted, Over,
                              UnderWay, Open, Pending, GivenUp
    <3>3. \A x \in Peer : /\ Sender(x)' = Sender(x) /\ NextIn(x)' = NextIn(x)
                          /\ Sent1(x)' = Sent1(x) /\ Other(x) \in Peer
      BY <1>0, <2>5 DEF Sender, NextIn, Sent1
    <3>4. Flow'
      BY <2>5, <3>1, <3>3 DEF Link, Flow
    <3> QED
      BY <3>2, <3>4 DEF Link
  <2> QED
    BY <2>4, <2>6, <2>7, <2>8 DEF IInv, Base
<1> QED
  BY <1>6, <1>7

-----------------------------------------------------------------------------
(* A connected stream is used.                                             *)

\* A connected record is written to or read from, or a chunk of it is sent.
LEMMA OpenStays ==
    ASSUME Usage, IInv, NEW n \in Peer, Open(n), Keeps(Other(n)),
           NEW t, stream'[n] = t, t # None, t.serial = stream[n].serial, t.created = stream[n].created,
           t.initiator = stream[n].initiator, t.with = stream[n].with,
           queued'[n] = queued[n], made'[n] = made[n], ended'[n] = ended[n], given'[n] = given[n],
           chan'[Other(n)] = chan[Other(n)], NEW m \in Message, m.cmd = "DATA",
           \/ chan'[n] = chan[n]
           \/ chan'[n] = Append(chan[n], m) /\ Other(n) \in up,
           wild' = wild, UNCHANGED <<up, known, reset>>
    PROVE  /\ Peers' /\ Records' /\ Shapes' /\ Counts' /\ Sends'
           /\ reset = {} => Asked' /\ Answered' /\ Connected' /\ Waits' /\ Accepted' /\ Over'
<1> DEFINE p == Other(n)
<1>0. /\ Ini \in Peer /\ Acc \in Peer /\ Acc # Ini /\ Other(Ini) = Acc /\ Other(Acc) = Ini
      /\ \A x \in Peer : x = Ini \/ x = Acc
  BY SidesAre
<1>1. /\ Base /\ TypeOK /\ Peers /\ Records /\ Shapes /\ Counts /\ Sends
      /\ reset = {} => Link
  BY DEF IInv, Base
<1>2. /\ \A x \in Peer : /\ queued'[x] = queued[x] /\ made'[x] = made[x] /\ ended'[x] = ended[x]
                         /\ given'[x] = given[x]
                         /\ stream'[x] = None <=> stream[x] = None
                         /\ stream[x] # None => /\ stream'[x].serial = stream[x].serial
                                                /\ stream'[x].created = stream[x].created
                                                /\ stream'[x].initiator = stream[x].initiator
                                                /\ stream'[x].with = stream[x].with
      /\ stream'[p] = stream[p] /\ stream[n] # None /\ stream[n].created
      /\ up' = up /\ known' = known /\ reset' = reset /\ wild' = wild
  <2>1. \A x \in Peer : x = n \/ x = p
    BY OtherIs
  <2> QED
    BY <2>1 DEF Keeps, Open
<1>3. \A x \in Peer : Open(x)' <=> Open(x)
  BY <1>2 DEF Open
<1>4. \A x \in Peer : Pending(x)' <=> Pending(x)
  BY <1>2 DEF Pending
<1>5. GivenUp' <=> GivenUp
  BY <1>0, <1>2 DEF GivenUp
<1>6. /\ chan[n] \in Seq(Message)
      /\ \A i \in DOMAIN chan[n] : chan[n][i].cmd \in {"CREATE", "CREATED", "DATA", "CLOSE"}
  BY <1>1, TypesOf, CommandIs
<1>7. /\ \A i \in DOMAIN chan[n] : i \in DOMAIN chan'[n] /\ chan'[n][i] = chan[n][i]
      /\ \A i \in DOMAIN chan'[n] :
            \/ i \in DOMAIN chan[n] /\ chan'[n][i] = chan[n][i]
            \/ i = Len(chan'[n]) /\ chan'[n][i].cmd = "DATA" /\ chan'[n] = Append(chan[n], m)
  <2>1. /\ chan[n] \in Seq(Message) /\ m \in Message /\ m.cmd = "DATA"
        /\ chan'[n] = chan[n] \/ chan'[n] = Append(chan[n], m)
    BY <1>6
  <2> QED
    BY ONLY <2>1, MoreIs
<1>8. \A x \in Peer, c \in {"CREATE", "CREATED", "CLOSE"} : UnderWay(x, c)' <=> UnderWay(x, c)
  <2> SUFFICES ASSUME NEW x \in Peer, NEW c \in {"CREATE", "CREATED", "CLOSE"}
               PROVE  UnderWay(x, c)' <=> UnderWay(x, c)
    OBVIOUS
  <2>1. CASE x = n
    BY <1>7, <2>1 DEF UnderWay
  <2>2. CASE x = p
    BY <2>2 DEF UnderWay
  <2> QED
    BY <2>1, <2>2, OtherIs
\* Behind a connected record's commands there is room for more.
<1>9. /\ n = Ini => \A i \in DOMAIN chan[n] : chan[n][i].cmd = "DATA"
      /\ n = Acc => \A i \in DOMAIN chan[n] : chan[n][i].cmd # "CLOSE"
  BY <1>1, <1>2, <1>6 DEF Sends, Shapes, UnderWay, Pending, GivenUp
<1>10. Peers'
  <2>1. n \in up /\ n \in known
    BY <1>1, <1>2 DEF Peers, Open
  <2>2. \A x \in Peer : x \notin up => chan'[Other(x)] = <<>>
    <3>1. ASSUME NEW x \in Peer, x \notin up PROVE x = p /\ n = Other(x)
      BY <2>1, <3>1, OtherIs
    <3>2. p \notin up => chan'[n] = chan[n]
      OBVIOUS
    <3> QED
      BY <1>1, <3>1, <3>2 DEF Peers
  <2>3. \A x \in Peer : x \notin known => chan'[x] = <<>>
    BY <1>1, <2>1, OtherIs DEF Peers
  <2> QED
    BY <1>1, <1>2, <1>3, <2>2, <2>3 DEF Peers
<1>11. Records'
  <2>1. stream'[Ini] # None /\ ~stream[Ini].created => stream'[Ini] = stream[Ini]
    BY <1>0, <1>2, OtherIs
  <2> QED
    BY <1>0, <1>1, <1>2, <2>1 DEF Records
<1>12. Shapes'
  <2>1. CASE n = Ini
    BY <1>0, <1>1, <1>7, <1>9, <2>1 DEF Shapes
  <2>2. CASE n = Acc
    BY <1>0, <1>1, <1>7, <1>9, <2>2 DEF Shapes
  <2> QED
    BY <1>0, <2>1, <2>2
<1>13. Counts'
  BY <1>0, <1>1, <1>2, <1>8 DEF Counts
<1>14. Sends'
  <2>1. \A i \in DOMAIN chan'[Ini] : chan'[Ini][i].cmd = "CREATE" =>
           i \in DOMAIN chan[Ini] /\ chan'[Ini][i] = chan[Ini][i]
    BY <1>0, <1>7, OtherIs
  <2> QED
    BY <1>0, <1>1, <1>2, <1>4, <1>5, <1>8, <2>1 DEF Sends
<1>15. ASSUME reset = {}
       PROVE  Asked' /\ Answered' /\ Connected' /\ Waits' /\ Accepted' /\ Over'
  <2>1. Asked /\ Answered /\ Connected /\ Waits /\ Accepted /\ Over
    BY <1>1, <1>15 DEF Link
  <2>2. /\ n = Acc \/ chan'[Acc] = chan[Acc]
        /\ n = Ini \/ chan'[Ini] = chan[Ini]
    BY <1>0
  <2>3. Asked'
    BY <1>0, <1>2, <1>8, <2>1, <2>2 DEF Asked
  <2>4. Answered'
    <3>1. \A i \in DOMAIN chan'[Acc] : chan'[Acc][i].cmd = "CREATED" =>
             i \in DOMAIN chan[Acc] /\ chan'[Acc][i] = chan[Acc][i]
      BY <1>0, <1>7, <2>2
    <3>2. UnderWay(Acc, "CREATED") => n # Ini
      BY <1>2, <2>1 DEF Answered, UnderWay, Pending, GivenUp
    <3> QED
      BY <1>0, <1>2, <1>4, <1>5, <1>8, <2>1, <2>2, <3>1, <3>2 DEF Answered, UnderWay
  <2>5. Connected' /\ Accepted' /\ Over'
    BY <1>0, <1>2, <1>3, <1>5, <1>8, <2>1, <2>2 DEF Connected, Accepted, Over
  <2>6. Waits'
    BY <1>0, <1>2, <1>4, <1>8, <2>1, <2>2 DEF Waits
  <2> QED
    BY <2>3, <2>4, <2>5, <2>6
<1> QED
  BY <1>10, <1>11, <1>12, <1>13, <1>14, <1>15

\* What is on its way is the same, if the channel is, and what the ends count.
LEMMA FlowSame ==
    ASSUME Flow, chan' = chan,
           \A x \in Peer : stream[x] # None <=> stream'[x] # None,
           \A x \in Peer : stream[x] # None =>
               /\ Sender(x)' = Sender(x) /\ NextIn(x)' = NextIn(x) /\ Sent1(x)' = Sent1(x)
               /\ stream'[x].serial = stream[x].serial
    PROVE  Flow'
<1> SUFFICES ASSUME NEW x \in Peer, stream'[x] # None
             PROVE  /\ Chain(chan[Other(x)], Sender(x)', NextIn(x)')
                    /\ stream'[Other(x)] # None =>
                         /\ Expected(chan[Other(x)], Len(chan[Other(x)]) + 1, NextIn(x)')
                               = Sent1(Other(x))' + 1
                         /\ Covers(chan[Other(x)], stream'[Other(x)].serial, NextIn(x)', Sent1(Other(x))')
  BY DEF Flow
<1>1. Other(x) \in Peer /\ stream[x] # None
  BY OtherIs
<1> QED
  BY <1>1 DEF Flow

\* The parts of a record.
LEMMA RecordIs ==
    ASSUME NEW s \in Record
    PROVE  /\ s.serial \in Nat /\ s.created \in BOOLEAN /\ s.initiator \in BOOLEAN /\ s.with \in Nat
           /\ s.pipeIn \in Seq(Nat \X Nat) /\ s.pipeOut \in Seq(Nat \X Nat)
           /\ s.got \in Seq(Nat \X Nat) /\ s.wrote \in Nat
           /\ Len(s.pipeIn) \in Nat /\ Len(s.pipeOut) \in Nat /\ Len(s.got) \in Nat
BY Elements DEF Record

\* The types, when only one record changes.
LEMMA OneRecord ==
    ASSUME TypeOK, NEW n \in Peer, NEW t \in Record, stream' = [stream EXCEPT ![n] = t],
           UNCHANGED <<up, known, queued, chan, reset, made, ended, given, lost, wild>>
    PROVE  /\ TypeOK' /\ Keeps(Other(n)) /\ stream'[n] = t
           /\ queued'[n] = queued[n] /\ made'[n] = made[n] /\ ended'[n] = ended[n]
           /\ given'[n] = given[n]
<1>1. stream \in [Peer -> Record \cup {None}]
  BY DEF TypeOK
<1>2. stream' \in [Peer -> Record \cup {None}] /\ stream'[n] = t
      /\ \A x \in Peer : x # n => stream'[x] = stream[x]
  BY <1>1
<1>3. TypeOK'
  BY <1>2 DEF TypeOK
<1> QED
  BY <1>2, <1>3, OtherIs DEF Keeps

\* The application writes: the chunk is the last of the output pipe.
LEMMA AppWriteKeeps ==
    ASSUME Usage, IInv, NEW n \in Peer, AppWrite(n)
    PROVE  IInv'
<1> DEFINE s == stream[n]
           t == [s EXCEPT !.pipeOut = Append(s.pipeOut, <<s.serial, s.wrote + 1>>),
                          !.wrote = s.wrote + 1]
           m == Msg("DATA", 0, <<>>)
<1>1. /\ TypeOK /\ PipesIn /\ PipesOut
      /\ reset = {} => Link
  BY DEF IInv, Base
<1>2. /\ s # None /\ s \in Record /\ s.created
      /\ stream' = [stream EXCEPT ![n] = t]
      /\ UNCHANGED <<up, known, queued, chan, reset, made, ended, given, lost, wild>>
  <2>1. s # None /\ s \in Record
    BY <1>1, TypesOf DEF AppWrite
  <2>2. stream' = [stream EXCEPT ![n].pipeOut = Append(@, <<s.serial, s.wrote + 1>>), ![n].wrote = @ + 1]
    BY DEF AppWrite
  <2>3. stream \in [Peer -> Record \cup {None}]
    BY <1>1 DEF TypeOK
  <2>4. [stream EXCEPT ![n].pipeOut = Append(@, <<s.serial, s.wrote + 1>>), ![n].wrote = @ + 1]
        = [stream EXCEPT ![n] = t]
    BY <2>1, <2>3 DEF Record
  <2> QED
    BY <2>1, <2>2, <2>4 DEF AppWrite
<1>3. /\ s.serial \in Nat /\ s.pipeOut \in Seq(Nat \X Nat) /\ s.wrote \in Nat
      /\ Len(s.pipeOut) \in Nat /\ s.wrote + 1 \in Nat
  BY <1>2, RecordIs
<1>4. /\ <<s.serial, s.wrote + 1>> \in Nat \X Nat
      /\ Append(s.pipeOut, <<s.serial, s.wrote + 1>>) \in Seq(Nat \X Nat)
  BY <1>3
<1>5. /\ t \in Record /\ t # None
      /\ t.serial = s.serial /\ t.created = s.created /\ t.initiator = s.initiator /\ t.with = s.with
      /\ t.pipeIn = s.pipeIn /\ t.got = s.got /\ t.wrote = s.wrote + 1
      /\ t.pipeOut = Append(s.pipeOut, <<s.serial, s.wrote + 1>>)
  <2>1. t \in Record
    BY <1>2, <1>3, <1>4 DEF Record
  <2> QED
    BY <1>2, <2>1, StreamAssumption DEF Record
<1>6. m \in Message /\ m.cmd = "DATA"
  <2>1. 0 \in Nat /\ <<>> \in Seq(Nat \X Nat)
    OBVIOUS
  <2> QED
    BY <2>1 DEF Msg, Message, Cmd
<1> HIDE DEF t, m
<1>7. /\ TypeOK' /\ Keeps(Other(n)) /\ stream'[n] = t
      /\ queued'[n] = queued[n] /\ made'[n] = made[n] /\ ended'[n] = ended[n] /\ given'[n] = given[n]
  BY <1>1, <1>2, <1>5, OneRecord
<1>8. /\ Peers' /\ Records' /\ Shapes' /\ Counts' /\ Sends'
      /\ reset = {} => Asked' /\ Answered' /\ Connected' /\ Waits' /\ Accepted' /\ Over'
  BY <1>2, <1>5, <1>6, <1>7, OpenStays DEF Open
<1>9. \A x \in Peer : x = n \/ (x # n /\ stream'[x] = stream[x])
  BY <1>7, OtherIs DEF Keeps
<1>10. PipesIn'
  BY <1>1, <1>2, <1>5, <1>7, <1>9 DEF PipesIn
<1>11. Sent1(n)' = Sent1(n) /\ Sent1(n) + (Len(s.pipeOut) + 1) = s.wrote + 1
       /\ Len(t.pipeOut) = Len(s.pipeOut) + 1
  <2>1. Len(t.pipeOut) = Len(s.pipeOut) + 1
    BY <1>3, <1>4, <1>5
  <2>2. \A k, l \in Nat : (k + 1) - (l + 1) = k - l /\ (k - l) + (l + 1) = k + 1
    OBVIOUS
  <2>3. Sent1(n) = s.wrote - Len(s.pipeOut) /\ Sent1(n)' = (s.wrote + 1) - (Len(s.pipeOut) + 1)
    BY <1>5, <1>7, <2>1 DEF Sent1
  <2> QED
    BY <1>3, <2>1, <2>2, <2>3
<1>12. PipesOut'
  <2>1. /\ Len(s.pipeOut) <= s.wrote
        /\ \A x \in DOMAIN s.pipeOut : s.pipeOut[x] = <<s.serial, Sent1(n) + x>>
    BY <1>1, <1>2 DEF PipesOut
  <2>2. Len(t.pipeOut) <= t.wrote
    BY <1>3, <1>5, <1>11, <2>1
  <2>3. \A x \in DOMAIN t.pipeOut : t.pipeOut[x] = <<t.serial, Sent1(n) + x>>
    <3> DEFINE c == <<s.serial, s.wrote + 1>>
    <3>1. c \in Nat \X Nat /\ s.pipeOut \in Seq(Nat \X Nat) /\ t.pipeOut = Append(s.pipeOut, c)
      BY <1>3, <1>4, <1>5
    <3> HIDE DEF c
    <3>2. /\ \A x \in DOMAIN t.pipeOut : x \in DOMAIN s.pipeOut \/ x = Len(s.pipeOut) + 1
          /\ \A x \in DOMAIN s.pipeOut : t.pipeOut[x] = s.pipeOut[x]
          /\ t.pipeOut[Len(s.pipeOut) + 1] = c
      <4> DEFINE u == s.pipeOut
                 v == t.pipeOut
      <4>1. c \in Nat \X Nat /\ u \in Seq(Nat \X Nat) /\ v = Append(u, c)
        BY <3>1
      <4> HIDE DEF u, v
      <4>2. /\ \A x \in DOMAIN v : x \in DOMAIN u \/ x = Len(u) + 1
            /\ \A x \in DOMAIN u : v[x] = u[x]
            /\ v[Len(u) + 1] = c
        BY <4>1, AppendIs
      <4> QED
        BY <4>2 DEF u, v
    <3> QED
      BY <1>5, <1>11, <2>1, <3>2 DEF c
  <2>4. /\ Len(stream'[n].pipeOut) <= stream'[n].wrote
        /\ \A x \in DOMAIN stream'[n].pipeOut :
              stream'[n].pipeOut[x] = <<stream'[n].serial, Sent1(n)' + x>>
    BY <1>7, <1>11, <2>2, <2>3
  <2>5. ASSUME NEW x \in Peer, x # n, stream[x] # None
        PROVE  /\ Len(stream'[x].pipeOut) <= stream'[x].wrote
               /\ \A y \in DOMAIN stream'[x].pipeOut :
                     stream'[x].pipeOut[y] = <<stream'[x].serial, Sent1(x)' + y>>
    BY <1>1, <1>9, <2>5 DEF PipesOut, Sent1
  <2> QED
    BY <1>9, <2>4, <2>5 DEF PipesOut
<1>13. ASSUME reset' = {} PROVE Flow'
  <2>1. Flow
    BY <1>1, <1>2, <1>13 DEF Link
  <2>2. ASSUME NEW x \in Peer
        PROVE  /\ stream[x] # None <=> stream'[x] # None
               /\ stream[x] # None =>
                     /\ Sender(x)' = Sender(x) /\ NextIn(x)' = NextIn(x) /\ Sent1(x)' = Sent1(x)
                     /\ stream'[x].serial = stream[x].serial
    <3>1. CASE x = n
      BY <1>2, <1>5, <1>7, <1>11, <3>1 DEF Sender, NextIn
    <3>2. CASE x # n
      BY <1>2, <1>9, <3>2 DEF Sender, NextIn, Sent1
    <3> QED
      BY <3>1, <3>2
  <2> QED
    BY <1>2, <2>1, <2>2, FlowSame
<1> QED
  BY <1>2, <1>7, <1>8, <1>10, <1>12, <1>13 DEF IInv, Base, Link

\* The application reads: chunks move from the input pipe to what it has.
LEMMA StreamInCbKeeps ==
    ASSUME Usage, IInv, NEW n \in Peer, StreamInCb(n)
    PROVE  IInv'
<1> DEFINE s == stream[n]
           m == Msg("DATA", 0, <<>>)
<1>1. /\ TypeOK /\ PipesIn /\ PipesOut
      /\ reset = {} => Link
  BY DEF IInv, Base
<1>2. s # None /\ s \in Record /\ s.created
  BY <1>1, TypesOf DEF StreamInCb
<1>3. PICK k \in 1..Len(s.pipeIn) :
         stream' = [stream EXCEPT ![n].got = @ \o SubSeq(s.pipeIn, 1, k),
                                  ![n].pipeIn = SubSeq(@, k + 1, Len(@))]
  BY DEF StreamInCb
<1> DEFINE a == s.got \o SubSeq(s.pipeIn, 1, k)
           b == SubSeq(s.pipeIn, k + 1, Len(s.pipeIn))
           t == [s EXCEPT !.got = a, !.pipeIn = b]
<1>4. /\ stream' = [stream EXCEPT ![n] = t]
      /\ UNCHANGED <<up, known, queued, chan, reset, made, ended, given, lost, wild>>
  <2>1. stream \in [Peer -> Record \cup {None}]
    BY <1>1 DEF TypeOK
  <2>2. [stream EXCEPT ![n].got = @ \o SubSeq(s.pipeIn, 1, k), ![n].pipeIn = SubSeq(@, k + 1, Len(@))]
        = [stream EXCEPT ![n] = t]
    BY <1>2, <2>1 DEF Record
  <2> QED
    BY <1>3, <2>2 DEF StreamInCb
<1>5. /\ a \in Seq(Nat \X Nat) /\ b \in Seq(Nat \X Nat)
      /\ Len(s.got) \in Nat /\ Len(s.pipeIn) \in Nat
      /\ Len(a) = Len(s.got) + k /\ Len(b) = Len(s.pipeIn) - k
      /\ \A i \in DOMAIN a : a[i] = <<s.with, i>>
      /\ \A i \in DOMAIN b : b[i] = <<s.with, Len(a) + i>>
  <2> DEFINE u == s.got
             v == s.pipeIn
             w == s.with
             d == SubSeq(v, 1, k)
  <2>1. /\ u \in Seq(Nat \X Nat) /\ v \in Seq(Nat \X Nat) /\ k \in 1..Len(v)
        /\ \A i \in DOMAIN u : u[i] = <<w, i>>
        /\ \A i \in DOMAIN v : v[i] = <<w, Len(u) + i>>
    BY <1>1, <1>2, RecordIs DEF PipesIn
  <2>2. d = SubSeq(v, 1, k) /\ b = SubSeq(v, k + 1, Len(v)) /\ a = u \o d
    OBVIOUS
  <2> HIDE DEF a, b, d, u, v, w
  <2> DEFINE S == Nat \X Nat
  <2>a. u \in Seq(S) /\ v \in Seq(S)
    BY <2>1
  <2> HIDE DEF S
  <2>3. /\ d \in Seq(S) /\ b \in Seq(S) /\ Len(v) \in Nat /\ k \in Nat
        /\ Len(d) = k /\ Len(b) = Len(v) - k /\ DOMAIN v = 1..Len(v)
        /\ DOMAIN d = 1..k /\ DOMAIN b = 1..(Len(v) - k)
        /\ \A i \in DOMAIN d : i \in DOMAIN v /\ d[i] = v[i]
        /\ \A i \in DOMAIN b : k + i \in DOMAIN v /\ b[i] = v[k + i]
    <3>1. Len(v) \in Nat
      BY <2>a, Elements
    <3>2. k \in 0..Len(v) /\ k \in Nat
      BY <2>1, <3>1
    <3> QED
      BY <2>a, <2>2, <3>1, <3>2, CutIs
  <2>4. /\ a \in Seq(S) /\ Len(u) \in Nat /\ Len(a) = Len(u) + k
        /\ DOMAIN a = 1..(Len(u) + k) /\ DOMAIN u = 1..Len(u)
        /\ \A i \in DOMAIN u : a[i] = u[i]
        /\ \A i \in DOMAIN a : i \in DOMAIN u \/ (i - Len(u) \in DOMAIN d /\ a[i] = d[i - Len(u)])
    <3>1. /\ a \in Seq(S) /\ Len(u) \in Nat /\ Len(d) \in Nat /\ Len(a) = Len(u) + Len(d)
          /\ DOMAIN u = 1..Len(u) /\ DOMAIN d = 1..Len(d) /\ DOMAIN a = 1..(Len(u) + Len(d))
          /\ \A i \in DOMAIN u : i \in DOMAIN a /\ a[i] = u[i]
          /\ \A i \in DOMAIN d : Len(u) + i \in DOMAIN a /\ a[Len(u) + i] = d[i]
          /\ \A i \in DOMAIN a : i \in DOMAIN u \/ (i - Len(u) \in DOMAIN d /\ a[i] = d[i - Len(u)])
      <4>1. /\ u \o d \in Seq(S) /\ Len(u) \in Nat /\ Len(d) \in Nat /\ Len(u \o d) = Len(u) + Len(d)
            /\ DOMAIN u = 1..Len(u) /\ DOMAIN d = 1..Len(d) /\ DOMAIN (u \o d) = 1..(Len(u) + Len(d))
            /\ \A i \in DOMAIN u : i \in DOMAIN (u \o d) /\ (u \o d)[i] = u[i]
            /\ \A i \in DOMAIN d : Len(u) + i \in DOMAIN (u \o d) /\ (u \o d)[Len(u) + i] = d[i]
            /\ \A i \in DOMAIN (u \o d) : i \in DOMAIN u \/ (i - Len(u) \in DOMAIN d /\ (u \o d)[i] = d[i - Len(u)])
        <5>1. u \in Seq(S) /\ d \in Seq(S)
          BY <2>a, <2>3
        <5> QED
          BY ONLY <5>1, ConcatIs
      <4> QED
        BY <2>2, <4>1
    <3> QED
      BY <2>3, <3>1
  <2>5. ASSUME NEW i \in DOMAIN a PROVE a[i] = <<w, i>>
    <3>1. CASE i \in DOMAIN u
      BY <2>1, <2>4, <3>1
    <3>2. CASE i \notin DOMAIN u
      <4>1. i - Len(u) \in DOMAIN d /\ a[i] = d[i - Len(u)]
        BY <2>4, <3>2
      <4>2. a[i] = <<w, Len(u) + (i - Len(u))>>
        BY <2>1, <2>3, <4>1
      <4>3. Len(u) + (i - Len(u)) = i
        BY <2>4
      <4> QED
        BY <4>2, <4>3
    <3> QED
      BY <3>1, <3>2
  <2>6. ASSUME NEW i \in DOMAIN b PROVE b[i] = <<w, Len(a) + i>>
    <3>1. b[i] = <<w, Len(u) + (k + i)>>
      BY <2>1, <2>3
    <3>2. Len(u) + (k + i) = Len(a) + i
      BY <2>3, <2>4
    <3> QED
      BY <3>1, <3>2
  <2> QED
    BY <2>3, <2>4, <2>5, <2>6 DEF u, v, w, S
<1> HIDE DEF a, b
<1>6. /\ t \in Record /\ t # None
      /\ t.serial = s.serial /\ t.created = s.created /\ t.initiator = s.initiator /\ t.with = s.with
      /\ t.pipeIn = b /\ t.got = a /\ t.wrote = s.wrote /\ t.pipeOut = s.pipeOut
  <2>1. t \in Record
    BY <1>2, <1>5 DEF Record
  <2> QED
    BY <1>2, <2>1, StreamAssumption DEF Record
<1>7. m \in Message /\ m.cmd = "DATA"
  <2>1. 0 \in Nat /\ <<>> \in Seq(Nat \X Nat)
    OBVIOUS
  <2> QED
    BY <2>1 DEF Msg, Message, Cmd
<1> HIDE DEF t, m
<1>8. /\ TypeOK' /\ Keeps(Other(n)) /\ stream'[n] = t
      /\ queued'[n] = queued[n] /\ made'[n] = made[n] /\ ended'[n] = ended[n] /\ given'[n] = given[n]
  BY <1>1, <1>4, <1>6, OneRecord
<1>9. /\ Peers' /\ Records' /\ Shapes' /\ Counts' /\ Sends'
      /\ reset = {} => Asked' /\ Answered' /\ Connected' /\ Waits' /\ Accepted' /\ Over'
  BY <1>2, <1>4, <1>6, <1>7, <1>8, OpenStays DEF Open
<1>10. \A x \in Peer : x = n \/ (x # n /\ stream'[x] = stream[x])
  BY <1>8, OtherIs DEF Keeps
<1>11. PipesIn'
  <2>1. /\ \A i \in DOMAIN stream'[n].got : stream'[n].got[i] = <<stream'[n].with, i>>
        /\ \A i \in DOMAIN stream'[n].pipeIn :
              stream'[n].pipeIn[i] = <<stream'[n].with, Len(stream'[n].got) + i>>
    BY <1>5, <1>6, <1>8
  <2> QED
    BY <1>1, <1>10, <2>1 DEF PipesIn
<1>12. PipesOut'
  BY <1>1, <1>2, <1>6, <1>8, <1>10 DEF PipesOut, Sent1
<1>13. ASSUME reset' = {} PROVE Flow'
  <2>1. Flow
    BY <1>1, <1>4, <1>13 DEF Link
  <2>2. NextIn(n)' = NextIn(n)
    <3>1. \A i, j \in Nat : (i + k) + (j - k) = i + j
      BY <1>5
    <3>2. Len(t.got) + Len(t.pipeIn) = Len(s.got) + Len(s.pipeIn)
      BY <1>5, <1>6, <3>1
    <3> QED
      BY <1>8, <3>2 DEF NextIn
  <2>3. ASSUME NEW x \in Peer
        PROVE  /\ stream[x] # None <=> stream'[x] # None
               /\ stream[x] # None =>
                     /\ Sender(x)' = Sender(x) /\ NextIn(x)' = NextIn(x) /\ Sent1(x)' = Sent1(x)
                     /\ stream'[x].serial = stream[x].serial
    <3>1. CASE x = n
      BY <1>2, <1>4, <1>6, <1>8, <2>2, <3>1 DEF Sender, Sent1
    <3>2. CASE x # n
      BY <1>4, <1>10, <3>2 DEF Sender, NextIn, Sent1
    <3> QED
      BY <3>1, <3>2
  <2> QED
    BY <1>4, <2>1, <2>3, FlowSame
<1> QED
  BY <1>4, <1>8, <1>9, <1>11, <1>12, <1>13 DEF IInv, Base, Link

\* What a peer sends is expected from its record.
LEMMA SenderIs ==
    ASSUME Usage, Base, Link, NEW n \in Peer, stream[n] # None, stream[Other(n)] # None
    PROVE  Sender(Other(n)) = stream[n].serial
<1>1. /\ Ini \in Peer /\ Acc \in Peer /\ Acc # Ini /\ Other(Ini) = Acc /\ Other(Acc) = Ini
      /\ \A x \in Peer : x = Ini \/ x = Acc
  BY SidesAre
<1>2. CASE n = Ini
  BY <1>1, <1>2 DEF Base, Records, Link, Accepted, Sender
<1>3. CASE n = Acc
  BY <1>1, <1>3 DEF Base, Records, Link, Connected, Sender, Open
<1> QED
  BY <1>1, <1>2, <1>3

\* How much one read of an output pipe gives.
Reads(u) == IF Len(u) < BufSize THEN Len(u) ELSE BufSize

\* It gives something, and no more than there is.
LEMMA ReadsIs ==
    ASSUME NEW S, NEW u \in Seq(S), u # <<>>
    PROVE  Reads(u) \in 1..Len(u) /\ Reads(u) \in 0..Len(u)
<1>1. Len(u) \in Nat /\ Len(u) # 0 /\ BufSize \in Nat /\ BufSize # 0
  BY StreamAssumption
<1> QED
  BY <1>1 DEF Reads

\* What stream_out_cb leaves in a record, and what it sends.
Rest(s) == [s EXCEPT !.pipeOut = SubSeq(s.pipeOut, Reads(s.pipeOut) + 1, Len(s.pipeOut))]

Read(s) == Msg("DATA", s.serial, SubSeq(s.pipeOut, 1, Reads(s.pipeOut)))

\* stream_out_cb changes a record, and sends if the other peer can be reached.
LEMMA StreamOutCbIs ==
    ASSUME Usage, Base, NEW n \in Peer, StreamOutCb(n)
    PROVE  /\ stream[n] # None /\ stream[n] \in Record /\ stream[n].created /\ stream[n].pipeOut # <<>>
           /\ TypeOK' /\ Keeps(Other(n))
           /\ Has5(n, Rest(stream[n]), queued[n], made[n], ended[n], given[n])
           /\ Rest(stream[n]) \in Record /\ Read(stream[n]) \in Message
           /\ chan'[Other(n)] = chan[Other(n)]
           /\ chan'[n] = IF Other(n) \in up THEN Append(chan[n], Read(stream[n])) ELSE chan[n]
           /\ wild' = wild /\ UNCHANGED <<up, known, reset, lost>>
<1> DEFINE s == stream[n]
           h == StreamOut(Start(n))
           m == Read(s)
<1>1. Other(n) \in Peer /\ Other(n) # n
  BY OtherIs
<1>2. TypeOK /\ chan \in [Peer -> Seq(Message)] /\ Peers
  BY DEF Base, TypeOK
<1>3. /\ s # None /\ s \in Record /\ s.created /\ s.pipeOut # <<>> /\ Send(n, h) /\ n \in known
      /\ wild = "none"
  BY <1>2, TypesOf DEF StreamOutCb, Running, Peers, Open
<1>4. /\ h.s = Rest(s) /\ h.queued = queued[n] /\ h.made = made[n] /\ h.ended = ended[n]
      /\ h.given = given[n] /\ h.wild = "none" /\ h.out = Append(<<>>, m)
  BY <1>3 DEF StreamOut, Start, Rest, Read, Reads
<1>5. /\ s.pipeOut \in Seq(Nat \X Nat) /\ s.serial \in Nat
  BY <1>3, RecordIs
<1>6. /\ SubSeq(s.pipeOut, Reads(s.pipeOut) + 1, Len(s.pipeOut)) \in Seq(Nat \X Nat)
      /\ SubSeq(s.pipeOut, 1, Reads(s.pipeOut)) \in Seq(Nat \X Nat)
  <2>1. Reads(s.pipeOut) \in 0..Len(s.pipeOut)
    BY <1>3, <1>5, ReadsIs
  <2> QED
    BY <1>5, <2>1, CutIs
<1>7. Rest(s) \in Record
  BY <1>3, <1>6 DEF Record, Rest
<1>8. m \in Message
  BY <1>5, <1>6 DEF Read, Msg, Message, Cmd
<1>9. Commit(n, h) /\ UNCHANGED <<up, known, reset, lost>>
  BY <1>3 DEF Send
<1> HIDE DEF h, m
<1>10. /\ chan' \in [Peer -> Seq(Message)]
       /\ \A x \in Peer : x # n => chan'[x] = chan[x]
       /\ chan'[n] = IF Other(n) \in up /\ n \in known THEN Append(chan[n], m) ELSE chan[n]
  BY <1>2, <1>3, <1>4, <1>8, SendsOne
<1>11. /\ h.made \in 0..MaxCreate * Cardinality(MayCreate)
       /\ h.queued \subseteq 1..h.made /\ h.given \subseteq 1..h.made /\ h.ended \in Ends
       /\ up' \subseteq Peer /\ known' \subseteq Peer /\ reset' \subseteq Peer /\ lost' \in 0..MaxLost
       /\ wild' = "none" /\ h.s \in Record \cup {None}
  BY <1>2, <1>4, <1>7, <1>9, TypesOf DEF Commit
<1>12. TypeOK' /\ Keeps(Other(n)) /\ Has5(n, h.s, h.queued, h.made, h.ended, h.given)
  BY <1>1, <1>2, <1>9, <1>10, <1>11, Committed
<1> QED
  BY <1>1, <1>3, <1>4, <1>7, <1>8, <1>9, <1>10, <1>11, <1>12 DEF m

\* Commands v on their way to n, behind which a record r of the other peer has sent
\* its chunks up to the e-th.
FlowTo(v, n, r, e) ==
    /\ Chain(v, Sender(n), NextIn(n))
    /\ Expected(v, Len(v) + 1, NextIn(n)) = e + 1
    /\ Covers(v, r, NextIn(n), e)

\* What a peer with a record sends comes next to what was sent before.
LEMMA FlowSends ==
    ASSUME Usage, Base, Link, NEW n \in Peer, stream[n] # None, stream[Other(n)] # None,
           NEW m \in Message, m.cmd = "DATA", NEW k \in Nat, k # 0, Len(m.data) = k,
           \A x \in DOMAIN m.data : m.data[x] = <<stream[n].serial, Sent1(n) + x>>
    PROVE  FlowTo(Append(chan[n], m), Other(n), stream[n].serial, Sent1(n) + k)
<1> DEFINE v == Append(chan[n], m)
           p == Other(n)
           u == chan[n]
           f == NextIn(p)
           e == Sent1(n)
           r == stream[n].serial
<1>1. p \in Peer /\ Other(p) = n /\ stream[p] # None
  BY OtherIs
<1>2. /\ u \in Seq(Message) /\ stream[n] \in Record /\ stream[p] \in Record
  BY <1>1, TypesOf DEF Base
<1>3. Sender(p) = r
  BY SenderIs
<1>4. e \in Nat /\ f \in Nat
  <2>1. /\ stream[n].wrote \in Nat /\ Len(stream[n].pipeOut) \in Nat
        /\ Len(stream[p].got) \in Nat /\ Len(stream[p].pipeIn) \in Nat
    BY <1>2, RecordIs
  <2>2. Len(stream[n].pipeOut) <= stream[n].wrote
    BY DEF Base, PipesOut
  <2>3. \A i, j \in Nat : (i <= j => j - i \in Nat) /\ i + j + 1 \in Nat
    OBVIOUS
  <2>4. stream[n].wrote - Len(stream[n].pipeOut) \in Nat
    BY <2>1, <2>2, <2>3
  <2>5. Len(stream[p].got) + Len(stream[p].pipeIn) + 1 \in Nat
    BY <2>1, <2>3
  <2> QED
    BY <2>4, <2>5 DEF Sent1, NextIn
<1>5. /\ Chain(u, r, f) /\ Expected(u, Len(u) + 1, f) = e + 1
      /\ Covers(u, r, f, e)
  BY <1>1, <1>3 DEF Link, Flow
<1>6. /\ m.data \in Seq(Nat \X Nat) /\ DOMAIN m.data = 1..k /\ 1 \in 1..k
      /\ \A x \in DOMAIN m.data : m.data[x] = <<r, e + x>>
  BY DEF Message
<1> HIDE DEF p, u, f, e, r
<1>7. v = Append(u, m)
  BY DEF u
<1> HIDE DEF v
<1>8. /\ Len(u) \in Nat /\ Len(v) = Len(u) + 1 /\ Len(u) + 1 \in DOMAIN v /\ v[Len(u) + 1] = m
      /\ \A j \in DOMAIN u : j \in DOMAIN v /\ v[j] = u[j]
  BY <1>2, <1>7, AppendIs
<1>9. Run(m.data, r, e + 1)
  <2>1. m.data # <<>>
    BY <1>6
  <2>2. ASSUME NEW x \in DOMAIN m.data PROVE m.data[x] = <<r, (e + 1) + x - 1>>
    <3>1. e + x = (e + 1) + x - 1
      BY <1>4, <1>6
    <3> QED
      BY <1>6, <3>1
  <2> QED
    BY <2>1, <2>2 DEF Run
<1>10. Chain(v, r, f)
  BY <1>2, <1>5, <1>7, <1>9, ChainAppend
<1>11. Expected(v, Len(v) + 1, f) = (e + k) + 1
  <2>1. Len(v) + 1 # 1 /\ (Len(v) + 1) - 1 = Len(u) + 1
    BY <1>8
  <2>2. Expected(v, Len(v) + 1, f) = After(m, f)
    BY <1>8, <2>1 DEF Expected
  <2>3. m.data[1] = <<r, e + 1>>
    BY <1>6
  <2>4. After(m, f) = (e + 1) + k
    BY <2>3 DEF After
  <2> QED
    BY <1>4, <2>2, <2>4
<1>12. ASSUME NEW i \in f..(e + k)
       PROVE  \E j \in DOMAIN v : v[j].cmd = "DATA" /\ Has(v[j].data, <<r, i>>)
  <2>1. CASE i <= e
    <3>1. i \in f..e
      BY <1>4, <2>1
    <3> QED
      BY <1>5, <1>8, <3>1 DEF Covers
  <2>2. CASE ~(i <= e)
    <3>1. i - e \in 1..k /\ e + (i - e) = i
      BY <1>4, <2>2
    <3>2. m.data[i - e] = <<r, i>>
      BY <1>6, <3>1
    <3>3. Has(m.data, <<r, i>>)
      BY <1>6, <3>1, <3>2 DEF Has
    <3> QED
      BY <1>8, <3>3
  <2> QED
    BY <2>1, <2>2
<1> QED
  BY <1>3, <1>10, <1>11, <1>12 DEF p, f, e, r, v, FlowTo, Covers

\* A chunk is sent: what was first in the output pipe is last on its way.
LEMMA StreamOutCbKeeps ==
    ASSUME Usage, IInv, NEW n \in Peer, StreamOutCb(n)
    PROVE  IInv'
<1> DEFINE s == stream[n]
           t == Rest(s)
           m == Read(s)
           p == Other(n)
           k == Reads(s.pipeOut)
<1>0. p \in Peer /\ p # n /\ Other(p) = n /\ \A x \in Peer : x = n \/ x = p
  BY OtherIs
<1>1. /\ Base /\ TypeOK /\ Peers /\ PipesIn /\ PipesOut
      /\ reset = {} => Link
  BY DEF IInv, Base
<1>2. /\ s # None /\ s \in Record /\ s.created /\ s.pipeOut # <<>>
      /\ TypeOK' /\ Keeps(p) /\ Has5(n, t, queued[n], made[n], ended[n], given[n])
      /\ t \in Record /\ m \in Message /\ chan'[p] = chan[p]
      /\ chan'[n] = IF p \in up THEN Append(chan[n], m) ELSE chan[n]
      /\ wild' = wild /\ UNCHANGED <<up, known, reset, lost>>
  BY <1>1, StreamOutCbIs
<1>3. /\ s.pipeOut \in Seq(Nat \X Nat) /\ Len(s.pipeOut) \in Nat /\ s.wrote \in Nat
      /\ k \in 1..Len(s.pipeOut) /\ k \in 0..Len(s.pipeOut) /\ k \in Nat /\ k # 0
  <2>1. s.pipeOut \in Seq(Nat \X Nat) /\ Len(s.pipeOut) \in Nat /\ s.wrote \in Nat
    BY <1>2, RecordIs
  <2>2. Reads(s.pipeOut) \in 1..Len(s.pipeOut) /\ Reads(s.pipeOut) \in 0..Len(s.pipeOut)
    BY <1>2, <2>1, ReadsIs
  <2> QED
    BY <2>1, <2>2
<1>4. /\ t # None /\ t.serial = s.serial /\ t.created = s.created /\ t.initiator = s.initiator
      /\ t.with = s.with /\ t.pipeIn = s.pipeIn /\ t.got = s.got /\ t.wrote = s.wrote
      /\ t.pipeOut = SubSeq(s.pipeOut, k + 1, Len(s.pipeOut))
      /\ m.cmd = "DATA" /\ m.data = SubSeq(s.pipeOut, 1, k)
  BY <1>2, StreamAssumption DEF Rest, Read, Msg, Record
<1> HIDE DEF t, m, k
<1>5. /\ Len(m.data) = k /\ DOMAIN m.data = 1..k
      /\ Len(t.pipeOut) = Len(s.pipeOut) - k /\ DOMAIN t.pipeOut = 1..(Len(s.pipeOut) - k)
      /\ \A x \in DOMAIN m.data : x \in DOMAIN s.pipeOut /\ m.data[x] = s.pipeOut[x]
      /\ \A x \in DOMAIN t.pipeOut : k + x \in DOMAIN s.pipeOut /\ t.pipeOut[x] = s.pipeOut[k + x]
  <2> DEFINE u == s.pipeOut
  <2>1. u \in Seq(Nat \X Nat) /\ k \in 0..Len(u)
    BY <1>3
  <2> HIDE DEF u
  <2>2. /\ Len(SubSeq(u, 1, k)) = k /\ DOMAIN SubSeq(u, 1, k) = 1..k
        /\ Len(SubSeq(u, k + 1, Len(u))) = Len(u) - k
        /\ DOMAIN SubSeq(u, k + 1, Len(u)) = 1..(Len(u) - k)
        /\ \A i \in DOMAIN SubSeq(u, 1, k) : i \in DOMAIN u /\ SubSeq(u, 1, k)[i] = u[i]
        /\ \A i \in DOMAIN SubSeq(u, k + 1, Len(u)) :
              k + i \in DOMAIN u /\ SubSeq(u, k + 1, Len(u))[i] = u[k + i]
    BY <2>1, CutIs
  <2> QED
    BY <1>4, <2>2 DEF u
<1>6. /\ Peers' /\ Records' /\ Shapes' /\ Counts' /\ Sends'
      /\ reset = {} => Asked' /\ Answered' /\ Connected' /\ Waits' /\ Accepted' /\ Over'
  <2>1. \/ chan'[n] = chan[n]
        \/ chan'[n] = Append(chan[n], m) /\ p \in up
    BY <1>2
  <2>2. /\ Open(n) /\ stream'[n] = t /\ queued'[n] = queued[n] /\ made'[n] = made[n]
        /\ ended'[n] = ended[n] /\ given'[n] = given[n]
    BY <1>2 DEF Open, Has5
  <2> HIDE DEF p
  <2>3. p = Other(n)
    BY DEF p
  <2> QED
    BY <1>2, <1>4, <2>1, <2>2, <2>3, OpenStays
<1>7. stream'[n] = t /\ stream'[p] = stream[p] /\ made' [n] = made[n] /\ made'[p] = made[p]
  BY <1>2 DEF Has5, Keeps
<1>8. PipesIn'
  BY <1>0, <1>1, <1>2, <1>4, <1>7 DEF PipesIn
<1>9. Sent1(n) \in Nat /\ Sent1(n)' = Sent1(n) + k /\ Len(t.pipeOut) <= t.wrote
  <2>1. Len(s.pipeOut) <= s.wrote
    BY <1>1, <1>2 DEF PipesOut
  <2> DEFINE w == s.wrote
             l == Len(s.pipeOut)
  <2>2. Sent1(n) = w - l /\ Sent1(n)' = w - (l - k) /\ Len(t.pipeOut) = l - k /\ t.wrote = w
    BY <1>4, <1>5, <1>7 DEF Sent1
  <2>3. w \in Nat /\ l \in Nat /\ k \in 0..l /\ l <= w
    BY <1>3, <2>1
  <2> HIDE DEF w, l
  <2> QED
    BY <2>2, <2>3
<1>10. \A x \in DOMAIN s.pipeOut : s.pipeOut[x] = <<s.serial, Sent1(n) + x>>
  BY <1>1, <1>2 DEF PipesOut
<1>11. PipesOut'
  <2>1. ASSUME NEW x \in DOMAIN t.pipeOut
        PROVE  t.pipeOut[x] = <<t.serial, (Sent1(n) + k) + x>>
    <3>1. t.pipeOut[x] = <<s.serial, Sent1(n) + (k + x)>>
      BY <1>5, <1>10
    <3>2. Sent1(n) + (k + x) = (Sent1(n) + k) + x
      BY <1>3, <1>5, <1>9
    <3> QED
      BY <1>4, <3>1, <3>2
  <2>2. /\ Len(stream'[n].pipeOut) <= stream'[n].wrote
        /\ \A x \in DOMAIN stream'[n].pipeOut :
              stream'[n].pipeOut[x] = <<stream'[n].serial, Sent1(n)' + x>>
    BY <1>7, <1>9, <2>1
  <2>3. stream[p] # None =>
          /\ Len(stream'[p].pipeOut) <= stream'[p].wrote
          /\ \A x \in DOMAIN stream'[p].pipeOut :
                stream'[p].pipeOut[x] = <<stream'[p].serial, Sent1(p)' + x>>
    BY <1>0, <1>1, <1>7 DEF PipesOut, Sent1
  <2> QED
    BY <1>0, <1>7, <2>2, <2>3 DEF PipesOut
<1>12. ASSUME reset' = {} PROVE Flow'
  <2>1. Link /\ Flow
    BY <1>1, <1>2, <1>12 DEF Link
  <2>2. /\ Sender(n)' = Sender(n) /\ NextIn(n)' = NextIn(n)
        /\ Sent1(p)' = Sent1(p) /\ stream'[p] = stream[p] /\ chan'[p] = chan[p]
    BY <1>0, <1>2, <1>4, <1>7 DEF Sender, NextIn, Sent1
  <2>3. stream[p] # None => Sender(p)' = Sender(p) /\ NextIn(p)' = NextIn(p)
    BY <1>0, <1>7 DEF Sender, NextIn
  <2>4. stream[p] # None =>
          /\ Chain(chan'[n], Sender(p), NextIn(p))
          /\ Expected(chan'[n], Len(chan'[n]) + 1, NextIn(p)) = (Sent1(n) + k) + 1
          /\ Covers(chan'[n], s.serial, NextIn(p), Sent1(n) + k)
    <3> SUFFICES ASSUME stream[p] # None
                 PROVE  /\ Chain(chan'[n], Sender(p), NextIn(p))
                        /\ Expected(chan'[n], Len(chan'[n]) + 1, NextIn(p)) = (Sent1(n) + k) + 1
                        /\ Covers(chan'[n], s.serial, NextIn(p), Sent1(n) + k)
      OBVIOUS
    <3>1. chan'[n] = Append(chan[n], m)
      BY <1>0, <1>1, <1>2 DEF Peers
    <3>2. \A x \in DOMAIN m.data : m.data[x] = <<stream[n].serial, Sent1(n) + x>>
      BY <1>5, <1>10
    <3>3. FlowTo(Append(chan[n], m), Other(n), stream[n].serial, Sent1(n) + k)
      BY <1>1, <1>2, <1>3, <1>4, <1>5, <2>1, <3>2, FlowSends
    <3> QED
      BY <3>1, <3>3 DEF FlowTo
  <2> SUFFICES ASSUME NEW x \in Peer, stream'[x] # None
               PROVE  /\ Chain(chan'[Other(x)], Sender(x)', NextIn(x)')
                      /\ stream'[Other(x)] # None =>
                           /\ Expected(chan'[Other(x)], Len(chan'[Other(x)]) + 1, NextIn(x)')
                                 = Sent1(Other(x))' + 1
                           /\ Covers(chan'[Other(x)], stream'[Other(x)].serial,
                                     NextIn(x)', Sent1(Other(x))')
    BY DEF Flow
  <2>5. CASE x = n
    <3>1. stream[n] # None
      BY <1>2
    <3> QED
      BY <2>1, <2>2, <2>5, <3>1 DEF Flow
  <2>6. CASE x = p
    BY <1>0, <1>4, <1>7, <1>9, <2>2, <2>3, <2>4, <2>6
  <2> QED
    BY <1>0, <2>5, <2>6
<1> QED
  BY <1>2, <1>6, <1>8, <1>11, <1>12 DEF IInv, Base, Link

-----------------------------------------------------------------------------
(* A peer stops or crashes.                                                *)

\* The initiator is gone, with its CLOSE or without.
LEMMA IniGone ==
    ASSUME Usage, IInv, Ini \in up, TypeOK', Keeps(Acc),
           stream'[Ini] = None, queued'[Ini] = {}, made'[Ini] = made[Ini],
           stream[Ini] = None => ended'[Ini] = ended[Ini],
           NEW m \in Message, m.cmd = "CLOSE", chan'[Acc] = <<>>,
           \/ chan'[Ini] = chan[Ini]
           \/ chan'[Ini] = Append(chan[Ini], m) /\ Open(Ini) /\ Acc \in up /\ ended'[Ini] = "own",
           up' = up \ {Ini}, wild' = wild, UNCHANGED <<known, reset>>
    PROVE  IInv'
<1>0. /\ Ini \in Peer /\ Acc \in Peer /\ Acc # Ini /\ Other(Ini) = Acc /\ Other(Acc) = Ini
      /\ \A x \in Peer : x = Ini \/ x = Acc
  BY SidesAre
<1>1. Base /\ TypeOK /\ Peers /\ Records /\ Shapes /\ Counts /\ Sends /\ PipesIn /\ PipesOut
  BY DEF IInv, Base
<1>2. stream'[Acc] = stream[Acc] /\ queued'[Acc] = queued[Acc] /\ made'[Acc] = made[Acc]
  BY DEF Keeps
<1>3. /\ chan[Ini] \in Seq(Message)
      /\ \A i \in DOMAIN chan[Ini] : chan[Ini][i].cmd \in {"CREATE", "CREATED", "DATA", "CLOSE"}
  BY <1>0, <1>1, TypesOf, CommandIs
<1>4. /\ \A i \in DOMAIN chan[Ini] : i \in DOMAIN chan'[Ini] /\ chan'[Ini][i] = chan[Ini][i]
      /\ \A i \in DOMAIN chan'[Ini] :
            \/ i \in DOMAIN chan[Ini] /\ chan'[Ini][i] = chan[Ini][i]
            \/ i = Len(chan'[Ini]) /\ chan'[Ini][i] = m /\ chan'[Ini] = Append(chan[Ini], m)
      /\ Append(chan[Ini], m) # chan[Ini]
  <2>1. chan'[Ini] = chan[Ini] \/ chan'[Ini] = Append(chan[Ini], m)
    OBVIOUS
  <2>2. Len(Append(chan[Ini], m)) = Len(chan[Ini]) + 1 /\ Len(chan[Ini]) \in Nat
    BY <1>3, AppendIs
  <2>3. Append(chan[Ini], m) # chan[Ini]
    BY <2>2
  <2>4. /\ \A i \in DOMAIN chan[Ini] : i \in DOMAIN chan'[Ini] /\ chan'[Ini][i] = chan[Ini][i]
        /\ \A i \in DOMAIN chan'[Ini] :
              \/ i \in DOMAIN chan[Ini] /\ chan'[Ini][i] = chan[Ini][i]
              \/ i = Len(chan'[Ini]) /\ chan'[Ini][i] = m /\ chan'[Ini] = Append(chan[Ini], m)
    <3>1. chan[Ini] \in Seq(Message) /\ m \in Message
      BY <1>3
    <3> QED
      BY ONLY <2>1, <3>1, MoreIs
  <2> QED
    BY <2>3, <2>4
<1>5. Open(Ini) => Ini \in known /\ \A i \in DOMAIN chan[Ini] : chan[Ini][i].cmd = "DATA"
  BY <1>0, <1>1, <1>3 DEF Peers, Sends, Shapes, UnderWay, Pending, GivenUp, Open
<1>6. GivenUp'
  BY DEF GivenUp
<1>7. Peers'
  <2>1. \A x \in Peer : x \notin up' => stream'[x] = None /\ chan'[Other(x)] = <<>>
    BY <1>0, <1>1, <1>2 DEF Peers
  <2>2. \A x \in Peer : x \notin known => chan'[x] = <<>> /\ ~Open(x)'
    BY <1>0, <1>1, <1>2, <1>5 DEF Peers, Open
  <2> QED
    BY <1>1, <2>1, <2>2 DEF Peers
<1>8. Records'
  BY <1>1, <1>2 DEF Records
<1>9. Shapes'
  <2>1. \A i \in DOMAIN chan'[Ini] : /\ chan'[Ini][i].cmd # "CREATED"
                                     /\ chan'[Ini][i].cmd # "DATA" => i = Len(chan'[Ini])
    <3>1. CASE chan'[Ini] = chan[Ini]
      BY <1>1, <3>1 DEF Shapes
    <3>2. CASE chan'[Ini] # chan[Ini]
      BY <1>4, <1>5, <3>2
    <3> QED
      BY <3>1, <3>2
  <2> QED
    BY <2>1 DEF Shapes
<1>10. UnderWay(Ini, "CREATE")' => UnderWay(Ini, "CREATE")
  BY <1>4 DEF UnderWay
<1>11. Counts'
  BY <1>1, <1>2, <1>10 DEF Counts
<1>12. Sends'
  <2>1. \A i \in DOMAIN chan'[Ini] : chan'[Ini][i].cmd = "CREATE" => chan'[Ini][i].serial = made'[Ini]
    BY <1>1, <1>4 DEF Sends
  <2>2. UnderWay(Ini, "CLOSE")' => ended'[Ini] = "own"
    <3>1. CASE chan'[Ini] = chan[Ini]
      BY <1>1, <3>1 DEF Sends, UnderWay
    <3> QED
      BY <3>1
  <2> QED
    BY <1>6, <2>1, <2>2 DEF Sends, UnderWay
<1>13. PipesIn' /\ PipesOut'
  BY <1>0, <1>1, <1>2 DEF PipesIn, PipesOut, Sent1
<1>14. ASSUME reset' = {} PROVE Link'
  <2>1. Link
    BY <1>14 DEF IInv
  <2>2. Asked' /\ Answered' /\ Connected' /\ Waits' /\ Over'
    BY <1>2, <1>10, <2>1 DEF Link, Asked, Answered, Connected, Waits, Over, Open, Pending
  <2>3. Accepted'
    BY <1>2, <1>6, <2>1 DEF Link, Accepted
  <2>4. Flow'
    <3>1. ASSUME stream[Acc] # None PROVE Chain(chan'[Ini], Sender(Acc), NextIn(Acc))
      <4>1. Chain(chan[Ini], Sender(Acc), NextIn(Acc))
        BY <1>0, <2>1, <3>1 DEF Link, Flow
      <4>2. chan'[Ini] = chan[Ini] \/ chan'[Ini] = Append(chan[Ini], m)
        OBVIOUS
      <4> QED
        BY <1>3, <4>1, <4>2, ChainMore
    <3>2. stream[Acc] # None => Sender(Acc)' = Sender(Acc) /\ NextIn(Acc)' = NextIn(Acc)
      BY <1>0, <1>2 DEF Sender, NextIn
    <3> QED
      BY <1>0, <1>2, <3>1, <3>2 DEF Flow
  <2> QED
    BY <2>2, <2>3, <2>4 DEF Link
<1> QED
  BY <1>7, <1>8, <1>9, <1>11, <1>12, <1>13, <1>14 DEF IInv, Base

\* The acceptor is gone.
LEMMA AccGone ==
    ASSUME Usage, IInv, Acc \in up, TypeOK', Keeps(Ini),
           stream'[Acc] = None, queued'[Acc] = {}, made'[Acc] = made[Acc],
           NEW m \in Message, m.cmd = "CLOSE", chan'[Ini] = <<>>,
           \/ chan'[Acc] = chan[Acc]
           \/ chan'[Acc] = Append(chan[Acc], m) /\ Open(Acc) /\ Ini \in up,
           up' = up \ {Acc}, wild' = wild, UNCHANGED <<known, reset>>
    PROVE  IInv'
<1>0. /\ Ini \in Peer /\ Acc \in Peer /\ Acc # Ini /\ Other(Ini) = Acc /\ Other(Acc) = Ini
      /\ \A x \in Peer : x = Ini \/ x = Acc
  BY SidesAre
<1>1. Base /\ TypeOK /\ Peers /\ Records /\ Shapes /\ Counts /\ Sends /\ PipesIn /\ PipesOut
  BY DEF IInv, Base
<1>2. /\ stream'[Ini] = stream[Ini] /\ queued'[Ini] = queued[Ini] /\ made'[Ini] = made[Ini]
      /\ ended'[Ini] = ended[Ini] /\ given'[Ini] = given[Ini] /\ (Ini \in up' <=> Ini \in up)
  BY <1>0 DEF Keeps
<1>3. /\ chan[Acc] \in Seq(Message)
      /\ \A i \in DOMAIN chan[Acc] : chan[Acc][i].cmd \in {"CREATE", "CREATED", "DATA", "CLOSE"}
  BY <1>0, <1>1, TypesOf, CommandIs
<1>4. /\ \A i \in DOMAIN chan[Acc] : i \in DOMAIN chan'[Acc] /\ chan'[Acc][i] = chan[Acc][i]
      /\ \A i \in DOMAIN chan'[Acc] :
            \/ i \in DOMAIN chan[Acc] /\ chan'[Acc][i] = chan[Acc][i]
            \/ i = Len(chan'[Acc]) /\ chan'[Acc][i] = m /\ chan'[Acc] = Append(chan[Acc], m)
      /\ Append(chan[Acc], m) # chan[Acc]
  <2>1. chan'[Acc] = chan[Acc] \/ chan'[Acc] = Append(chan[Acc], m)
    OBVIOUS
  <2>2. Len(Append(chan[Acc], m)) = Len(chan[Acc]) + 1 /\ Len(chan[Acc]) \in Nat
    BY <1>3, AppendIs
  <2>3. Append(chan[Acc], m) # chan[Acc]
    BY <2>2
  <2>4. /\ \A i \in DOMAIN chan[Acc] : i \in DOMAIN chan'[Acc] /\ chan'[Acc][i] = chan[Acc][i]
        /\ \A i \in DOMAIN chan'[Acc] :
              \/ i \in DOMAIN chan[Acc] /\ chan'[Acc][i] = chan[Acc][i]
              \/ i = Len(chan'[Acc]) /\ chan'[Acc][i] = m /\ chan'[Acc] = Append(chan[Acc], m)
    <3>1. chan[Acc] \in Seq(Message) /\ m \in Message
      BY <1>3
    <3> QED
      BY ONLY <2>1, <3>1, MoreIs
  <2> QED
    BY <2>3, <2>4
<1>5. Open(Acc) => Acc \in known /\ \A i \in DOMAIN chan[Acc] : chan[Acc][i].cmd # "CLOSE"
  BY <1>0, <1>1 DEF Peers, Sends, UnderWay, Open
<1>6. /\ GivenUp' <=> GivenUp
      /\ Open(Ini)' <=> Open(Ini)
      /\ Pending(Ini)' <=> Pending(Ini)
  BY <1>2 DEF GivenUp, Open, Pending
<1>7. Peers'
  <2>1. \A x \in Peer : x \notin up' => stream'[x] = None /\ chan'[Other(x)] = <<>>
    BY <1>0, <1>1, <1>2 DEF Peers
  <2>2. \A x \in Peer : x \notin known => chan'[x] = <<>> /\ ~Open(x)'
    BY <1>0, <1>1, <1>2, <1>5 DEF Peers, Open
  <2> QED
    BY <1>1, <2>1, <2>2 DEF Peers
<1>8. Records'
  BY <1>1, <1>2 DEF Records
<1>9. Shapes'
  <2>1. \A i \in DOMAIN chan'[Acc] : /\ chan'[Acc][i].cmd # "CREATE"
                                     /\ chan'[Acc][i].cmd = "CREATED" => i = 1
                                     /\ chan'[Acc][i].cmd = "CLOSE" => i = Len(chan'[Acc])
    <3>1. CASE chan'[Acc] = chan[Acc]
      BY <1>1, <3>1 DEF Shapes
    <3>2. CASE chan'[Acc] # chan[Acc]
      BY <1>1, <1>4, <1>5, <3>2 DEF Shapes
    <3> QED
      BY <3>1, <3>2
  <2> QED
    BY <2>1 DEF Shapes
<1>10. UnderWay(Acc, "CREATED")' <=> UnderWay(Acc, "CREATED")
  BY <1>4 DEF UnderWay
<1>11. Counts' /\ Sends'
  BY <1>1, <1>2 DEF Counts, Sends, UnderWay
<1>12. PipesIn' /\ PipesOut'
  BY <1>0, <1>1, <1>2 DEF PipesIn, PipesOut, Sent1
<1>13. ASSUME reset' = {} PROVE Link'
  <2>1. Link
    BY <1>13 DEF IInv
  <2>2. stream[Acc] = None => chan'[Acc] = chan[Acc]
    BY DEF Open
  <2>3. Asked' /\ Accepted'
    BY DEF Asked, Accepted, UnderWay
  <2>4. Answered'
    BY <1>4, <1>6, <1>2, <2>1 DEF Link, Answered
  <2>5. Connected'
    BY <1>2, <1>6, <1>10, <2>1 DEF Link, Connected
  <2>6. Waits'
    BY <1>6, <1>10, <2>1, <2>2 DEF Link, Waits
  <2>7. Over'
    BY <1>2, <2>1, <2>2 DEF Link, Over
  <2>8. Flow'
    <3>1. ASSUME stream[Ini] # None PROVE Chain(chan'[Acc], Sender(Ini), NextIn(Ini))
      <4>1. Chain(chan[Acc], Sender(Ini), NextIn(Ini))
        BY <1>0, <2>1, <3>1 DEF Link, Flow
      <4>2. chan'[Acc] = chan[Acc] \/ chan'[Acc] = Append(chan[Acc], m)
        OBVIOUS
      <4> QED
        BY <1>3, <4>1, <4>2, ChainMore
    <3>2. Sender(Ini)' = Sender(Ini) /\ NextIn(Ini)' = NextIn(Ini)
      BY <1>0, <1>2 DEF Sender, NextIn
    <3> QED
      BY <1>0, <1>2, <3>1, <3>2 DEF Flow
  <2> QED
    BY <2>3, <2>4, <2>5, <2>6, <2>7, <2>8 DEF Link
<1> QED
  BY <1>7, <1>8, <1>9, <1>11, <1>12, <1>13 DEF IInv, Base

\* A message that closes.
LEMMA CloseIs ==
    ASSUME NEW k \in Nat
    PROVE  Msg("CLOSE", k, <<>>) \in Message /\ Msg("CLOSE", k, <<>>).cmd = "CLOSE"
<1>1. <<>> \in Seq(Nat \X Nat)
  OBVIOUS
<1> QED
  BY <1>1 DEF Msg, Message, Cmd

\* ksnetEvMgrFree: the callback queue and the stream end with the process.
LEMMA StopKeeps ==
    ASSUME Usage, IInv, NEW n \in Peer, Stop(n)
    PROVE  IInv'
<1> DEFINE h == Close([Start(n) EXCEPT !.queued = {}], "own")
           p == Other(n)
<1>0. /\ p \in Peer /\ p # n /\ Other(p) = n
      /\ Ini \in Peer /\ Acc \in Peer /\ Acc # Ini /\ Other(Ini) = Acc /\ Other(Acc) = Ini
      /\ \A x \in Peer : x = Ini \/ x = Acc
  BY OtherIs, SidesAre
<1>1. /\ Base /\ TypeOK /\ Peers /\ chan \in [Peer -> Seq(Message)]
  BY DEF IInv, Base, TypeOK
<1>2. /\ n \in up /\ wild = "none" /\ up' = up \ {n}
      /\ chan' = [x \in Peer |-> IF x = n THEN chan[n] \o Sent(n, h, known) ELSE <<>>]
      /\ Commit(n, h) /\ UNCHANGED <<known, reset, lost>>
  BY DEF Stop, Running
<1>3. stream[n] # None => /\ stream[n].serial \in Nat /\ stream[n].created \in BOOLEAN
                          /\ GivenAfter(n) \subseteq 1..made[n]
  BY <1>1, SerialIs
<1> DEFINE serial == IF stream[n] # None THEN stream[n].serial ELSE 0
           m == Msg("CLOSE", serial, <<>>)
<1>4. m \in Message /\ m.cmd = "CLOSE"
  <2>1. serial \in Nat
    BY <1>3
  <2> HIDE DEF serial
  <2> QED
    BY <2>1, CloseIs
<1>5. /\ h.s = None /\ h.queued = {} /\ h.made = made[n] /\ h.wild = "none"
      /\ stream[n] = None => h.ended = ended[n] /\ h.given = given[n] /\ h.out = <<>>
      /\ stream[n] # None => h.ended = "own" /\ h.given = GivenAfter(n)
      /\ stream[n] # None /\ stream[n].created => h.out = Append(<<>>, m)
      /\ stream[n] # None /\ ~stream[n].created => h.out = <<>>
  BY <1>2 DEF Close, Start, GivenAfter
<1>6. chan[n] \in Seq(Message) /\ Append(chan[n], m) \in Seq(Message)
  BY <1>1, <1>4
<1> HIDE DEF h, m
<1>7. \/ chan[n] \o Sent(n, h, known) = chan[n]
      \/ chan[n] \o Sent(n, h, known) = Append(chan[n], m) /\ Open(n) /\ p \in up
  BY <1>3, <1>4, <1>5, <1>6, SentIs DEF Open
<1>8. /\ chan' \in [Peer -> Seq(Message)] /\ chan'[p] = <<>>
      /\ \/ chan'[n] = chan[n]
         \/ chan'[n] = Append(chan[n], m) /\ Open(n) /\ p \in up
  <2>1. chan[n] \o Sent(n, h, known) \in Seq(Message)
    BY <1>6, <1>7
  <2>2. <<>> \in Seq(Message)
    OBVIOUS
  <2> QED
    BY <1>0, <1>2, <1>7, <2>1, <2>2
<1>9. TypeOK' /\ Keeps(p) /\ Has5(n, h.s, h.queued, h.made, h.ended, h.given)
  <2>1. /\ made[n] \in 0..MaxCreate * Cardinality(MayCreate) /\ given[n] \subseteq 1..made[n]
        /\ ended[n] \in Ends /\ up \subseteq Peer /\ known \subseteq Peer /\ reset \subseteq Peer
        /\ lost \in 0..MaxLost
    BY <1>1, TypesOf
  <2>2. /\ h.made \in 0..MaxCreate * Cardinality(MayCreate)
        /\ h.queued \subseteq 1..h.made /\ h.given \subseteq 1..h.made /\ h.ended \in Ends
        /\ h.s \in Record \cup {None}
    BY <1>3, <1>5, <2>1 DEF Ends
  <2>3. wild' = "none"
    BY <1>2, <1>5 DEF Commit
  <2>4. up' \subseteq Peer /\ known' \subseteq Peer /\ reset' \subseteq Peer /\ lost' \in 0..MaxLost
    BY <1>2, <2>1
  <2> QED
    BY <1>1, <1>2, <1>8, <2>2, <2>3, <2>4, Committed
<1>10. /\ stream'[n] = None /\ queued'[n] = {} /\ made'[n] = made[n] /\ wild' = wild
       /\ stream[n] = None => ended'[n] = ended[n]
       /\ Open(n) => ended'[n] = "own"
  BY <1>2, <1>5, <1>9 DEF Has5, Commit, Open
<1>11. CASE n = Ini
  BY <1>0, <1>2, <1>4, <1>8, <1>9, <1>10, <1>11, IniGone
<1>12. CASE n = Acc
  BY <1>0, <1>2, <1>4, <1>8, <1>9, <1>10, <1>12, AccGone
<1> QED
  BY <1>0, <1>11, <1>12

\* A process ends without a word.
LEMMA CrashKeeps ==
    ASSUME Usage, IInv, NEW n \in Peer, Crash(n)
    PROVE  IInv'
<1> DEFINE p == Other(n)
           m == Msg("CLOSE", 0, <<>>)
<1>0. /\ p \in Peer /\ p # n /\ Other(p) = n
      /\ Ini \in Peer /\ Acc \in Peer /\ Acc # Ini /\ Other(Ini) = Acc /\ Other(Acc) = Ini
      /\ \A x \in Peer : x = Ini \/ x = Acc
  BY OtherIs, SidesAre
<1>1. TypeOK
  BY DEF IInv, Base
<1>2. /\ n \in up /\ up' = up \ {n} /\ chan' = [chan EXCEPT ![p] = <<>>]
      /\ stream' = [stream EXCEPT ![n] = None] /\ queued' = [queued EXCEPT ![n] = {}]
      /\ UNCHANGED <<known, reset, made, ended, given, lost, wild>>
  BY DEF Crash, Running
<1>3. m \in Message /\ m.cmd = "CLOSE"
  BY CloseIs
<1> HIDE DEF m
<1>4. /\ stream \in [Peer -> Record \cup {None}] /\ chan \in [Peer -> Seq(Message)]
      /\ queued \in [Peer -> SUBSET Nat] /\ <<>> \in Seq(Message) /\ {} \in SUBSET Nat
  BY <1>1 DEF TypeOK
<1>5. /\ chan' \in [Peer -> Seq(Message)] /\ chan'[p] = <<>> /\ chan'[n] = chan[n]
      /\ stream' \in [Peer -> Record \cup {None}] /\ stream'[n] = None /\ stream'[p] = stream[p]
      /\ queued' \in [Peer -> SUBSET Nat] /\ queued'[n] = {} /\ queued'[p] = queued[p]
  BY <1>0, <1>2, <1>4
<1>6. Keeps(p)
  BY <1>2, <1>5 DEF Keeps
<1>7. TypeOK'
  <2>1. \A x \in Peer : queued'[x] \cup given'[x] \subseteq 1..made'[x]
    <3>1. \A x \in Peer : queued[x] \cup given[x] \subseteq 1..made[x]
      BY <1>1 DEF TypeOK
    <3>2. \A x \in Peer : queued'[x] \subseteq queued[x]
      BY <1>0, <1>2, <1>4
    <3> QED
      BY <1>2, <3>1, <3>2
  <2> QED
    BY <1>1, <1>2, <1>5, <2>1 DEF TypeOK
<1>8. CASE n = Ini
  BY <1>0, <1>2, <1>3, <1>5, <1>6, <1>7, <1>8, IniGone
<1>9. CASE n = Acc
  BY <1>0, <1>2, <1>3, <1>5, <1>6, <1>7, <1>9, AccGone
<1> QED
  BY <1>0, <1>8, <1>9

-----------------------------------------------------------------------------
(* The peers lose each other, and meet again.                              *)

\* Nothing is left of a stream but a request of which the acceptor does not know.
LEMMA CleanIs ==
    ASSUME Usage, stream'[Acc] = None, chan'[Ini] = <<>>, chan'[Acc] = <<>>, ~Open(Ini)'
    PROVE  Link'
<1>1. /\ Ini \in Peer /\ Acc \in Peer /\ Other(Ini) = Acc /\ Other(Acc) = Ini
      /\ \A x \in Peer : x = Ini \/ x = Acc
  BY SidesAre
<1>2. Asked' /\ Answered' /\ Connected' /\ Waits' /\ Accepted' /\ Over'
  BY DEF Asked, Answered, Connected, Waits, Accepted, Over, UnderWay
<1>3. Flow'
  BY <1>1 DEF Flow, Chain
<1> QED
  BY <1>2, <1>3 DEF Link

\* ksnetArpRemove: the record is freed, the channel is empty.
LEMMA ArpRemoveIs ==
    ASSUME Usage, Base, NEW n \in Peer, n \in up, wild = "none", ArpRemove(n),
           up' = up, reset' \subseteq Peer, lost' \in 0..MaxLost
    PROVE  /\ TypeOK' /\ Keeps(Other(n)) /\ known' = known \ {n} /\ wild' = wild
           /\ stream'[n] = None /\ queued'[n] = queued[n] /\ made'[n] = made[n]
           /\ chan'[n] = <<>> /\ chan'[Other(n)] = chan[Other(n)]
<1> DEFINE h == ClosePeer(n)
<1>1. Other(n) \in Peer /\ Other(n) # n
  BY OtherIs
<1>2. TypeOK /\ chan \in [Peer -> Seq(Message)]
  BY DEF Base, TypeOK
<1>3. /\ stream[n] # None => stream[n].created \in BOOLEAN /\ GivenAfter(n) \subseteq 1..made[n]
      /\ queued[n] \subseteq 1..made[n] /\ given[n] \subseteq 1..made[n] /\ ended[n] \in Ends
      /\ made[n] \in 0..MaxCreate * Cardinality(MayCreate)
      /\ up \subseteq Peer /\ known \subseteq Peer
  BY <1>2, SerialIs, TypesOf
<1>4. /\ h.s = None /\ h.queued = queued[n] /\ h.made = made[n] /\ h.wild = "none"
      /\ stream[n] = None => h.ended = ended[n] /\ h.given = given[n]
      /\ stream[n] # None => h.ended = "lost" /\ h.given = GivenAfter(n)
  BY DEF ClosePeer, Close, Start, GivenAfter
<1>5. known' = known \ {n} /\ chan' = [chan EXCEPT ![n] = <<>>] /\ Commit(n, h)
  BY DEF ArpRemove
<1> HIDE DEF h
<1>6. chan' \in [Peer -> Seq(Message)] /\ chan'[n] = <<>> /\ chan'[Other(n)] = chan[Other(n)]
  <2>1. <<>> \in Seq(Message)
    OBVIOUS
  <2> QED
    BY <1>1, <1>2, <1>5, <2>1
<1>7. /\ h.made \in 0..MaxCreate * Cardinality(MayCreate)
      /\ h.queued \subseteq 1..h.made /\ h.given \subseteq 1..h.made /\ h.ended \in Ends
      /\ h.s \in Record \cup {None} /\ wild' = "none"
      /\ up' \subseteq Peer /\ known' \subseteq Peer
  BY <1>3, <1>4, <1>5 DEF Ends, Commit
<1>8. TypeOK' /\ Keeps(Other(n)) /\ Has5(n, h.s, h.queued, h.made, h.ended, h.given)
  BY <1>1, <1>2, <1>5, <1>6, <1>7, Committed
<1> QED
  BY <1>4, <1>5, <1>6, <1>7, <1>8 DEF Has5

\* ksnetArpRemove and ksnStreamClosePeer, whatever becomes of the other peer.
LEMMA ArpRemoveKeeps ==
    ASSUME Usage, Base, NEW n \in Peer, n \in up, n \in known, wild = "none", ArpRemove(n),
           up' = up, reset' \subseteq Peer, lost' \in 0..MaxLost,
           \A x \in reset' : Other(x) \notin known',
           reset' = {} => Other(n) \notin known
    PROVE  IInv'
<1> DEFINE p == Other(n)
<1>0. /\ p \in Peer /\ p # n /\ Other(p) = n
      /\ Ini \in Peer /\ Acc \in Peer /\ Acc # Ini /\ Other(Ini) = Acc /\ Other(Acc) = Ini
      /\ \A x \in Peer : x = Ini \/ x = Acc
      /\ \A x \in Peer : x = n \/ x = p
  BY OtherIs, SidesAre
<1>1. /\ TypeOK /\ Peers /\ Records /\ Shapes /\ Counts /\ Sends /\ PipesIn /\ PipesOut
  BY DEF Base
<1>2. /\ TypeOK' /\ Keeps(p) /\ known' = known \ {n} /\ wild' = wild
      /\ stream'[n] = None /\ queued'[n] = queued[n] /\ made'[n] = made[n]
      /\ chan'[n] = <<>> /\ chan'[p] = chan[p]
  BY ArpRemoveIs
<1>3. /\ stream'[p] = stream[p] /\ queued'[p] = queued[p] /\ made'[p] = made[p]
      /\ ended'[p] = ended[p] /\ given'[p] = given[p]
  BY <1>2 DEF Keeps
<1>4. Open(p)' <=> Open(p)
  BY <1>3 DEF Open
<1>5. Peers'
  <2>1. \A x \in Peer : x \notin up' => stream'[x] = None /\ chan'[Other(x)] = <<>>
    BY <1>0, <1>1, <1>2, <1>3 DEF Peers
  <2>2. \A x \in Peer : x \notin known' => chan'[x] = <<>> /\ ~Open(x)'
    BY <1>0, <1>1, <1>2, <1>4 DEF Peers, Open
  <2> QED
    BY <2>1, <2>2 DEF Peers
<1>6. Records' /\ Shapes' /\ Counts' /\ Sends'
  <2>1. CASE n = Ini
    <3>1. /\ stream'[Ini] = None /\ chan'[Ini] = <<>> /\ made'[Ini] = made[Ini]
          /\ stream'[Acc] = stream[Acc] /\ chan'[Acc] = chan[Acc] /\ made'[Acc] = made[Acc]
          /\ queued'[Acc] = queued[Acc]
      BY <1>0, <1>2, <1>3, <2>1
    <3> QED
      BY <1>1, <1>2, <3>1 DEF Records, Shapes, Counts, Sends, UnderWay
  <2>2. CASE n = Acc
    <3>1. /\ stream'[Acc] = None /\ chan'[Acc] = <<>> /\ made'[Acc] = made[Acc]
          /\ stream'[Ini] = stream[Ini] /\ chan'[Ini] = chan[Ini] /\ made'[Ini] = made[Ini]
          /\ queued'[Ini] = queued[Ini] /\ queued'[Acc] = queued[Acc]
          /\ ended'[Ini] = ended[Ini] /\ given'[Ini] = given[Ini]
      BY <1>0, <1>2, <1>3, <2>2
    <3>2. Records' /\ Shapes' /\ Counts'
      BY <1>1, <1>2, <3>1 DEF Records, Shapes, Counts, UnderWay
    <3>3. Sends'
      BY <1>1, <3>1 DEF Sends, UnderWay, Pending, GivenUp
    <3> QED
      BY <3>2, <3>3
  <2> QED
    BY <1>0, <2>1, <2>2
<1>7. PipesIn' /\ PipesOut'
  BY <1>0, <1>1, <1>2, <1>3 DEF PipesIn, PipesOut, Sent1
<1>8. ASSUME reset' = {} PROVE Link'
  <2>1. chan[p] = <<>> /\ ~Open(p)
    BY <1>0, <1>1, <1>8 DEF Peers
  <2>2. chan'[Ini] = <<>> /\ chan'[Acc] = <<>> /\ ~Open(Ini)' /\ ~Open(Acc)'
    BY <1>0, <1>2, <1>4, <2>1 DEF Open
  <2>3. stream'[Acc] = None
    BY <1>6, <2>2 DEF Records, Open
  <2> QED
    BY <2>2, <2>3, CleanIs
<1> QED
  BY <1>2, <1>5, <1>6, <1>7, <1>8 DEF IInv, Base

\* A peer is lost: its stream is closed and the channel begins anew.
LEMMA LosePeerKeeps ==
    ASSUME Usage, IInv, NEW n \in Peer, LosePeer(n)
    PROVE  IInv'
<1> DEFINE p == Other(n)
<1>0. p \in Peer /\ p # n /\ Other(p) = n
  BY OtherIs
<1>1. Base /\ TypeOK /\ Peers
  BY DEF IInv, Base
<1>2. /\ n \in up /\ wild = "none" /\ n \in known /\ ArpRemove(n) /\ up' = up
      /\ p \in up => lost < MaxLost
      /\ lost' = IF p \in up THEN lost + 1 ELSE lost
      /\ reset' = IF p \in known THEN reset \cup {p} ELSE reset
  BY DEF LosePeer, Running
<1>3. lost' \in 0..MaxLost
  <2>1. lost \in 0..MaxLost /\ MaxLost \in Nat
    BY <1>1, StreamAssumption DEF TypeOK
  <2> QED
    BY <1>2, <2>1
<1>4. known' = known \ {n}
  BY <1>2 DEF ArpRemove
<1>5. /\ reset' \subseteq Peer
      /\ \A x \in reset' : Other(x) \notin known'
      /\ reset' = {} => p \notin known
  <2>1. reset \subseteq Peer /\ \A x \in reset : Other(x) \notin known
    BY <1>1 DEF TypeOK, Peers
  <2> QED
    BY <1>0, <1>2, <1>4, <2>1
<1> QED
  BY <1>1, <1>2, <1>3, <1>5, ArpRemoveKeeps

\* remove_peer_addr: the streams of a peer whose channel began anew are closed.
LEMMA NoticeResetKeeps ==
    ASSUME Usage, IInv, NEW n \in Peer, NoticeReset(n)
    PROVE  IInv'
<1> DEFINE p == Other(n)
<1>0. /\ p \in Peer /\ p # n /\ Other(p) = n /\ \A x \in Peer : x = n \/ x = p
      /\ Ini \in Peer /\ Acc \in Peer
  BY OtherIs, SidesAre
<1>1. Base /\ TypeOK /\ Peers /\ Records /\ Shapes /\ Counts /\ Sends /\ PipesIn /\ PipesOut
  BY DEF IInv, Base
<1>2. /\ n \in up /\ wild = "none" /\ n \in reset /\ reset' = reset \ {n} /\ up' = up /\ lost' = lost
      /\ n \in known => ArpRemove(n)
      /\ n \notin known => UNCHANGED <<known, stream, queued, chan, made, ended, given, wild>>
  BY DEF NoticeReset, Running
<1>3. p \notin known /\ reset' \subseteq Peer /\ lost' \in 0..MaxLost
  BY <1>1, <1>2 DEF Peers, TypeOK
<1>4. CASE n \in known
  <2>1. known' = known \ {n}
    BY <1>2, <1>4 DEF ArpRemove
  <2>2. \A x \in reset' : Other(x) \notin known'
    BY <1>1, <1>2, <2>1 DEF Peers
  <2> QED
    BY <1>1, <1>2, <1>3, <1>4, <2>2, ArpRemoveKeeps
<1>5. CASE n \notin known
  <2>1. UNCHANGED <<known, stream, queued, chan, made, ended, given, wild, up, lost>>
    BY <1>2, <1>5
  <2>2. /\ TypeOK' /\ Peers' /\ Records' /\ Shapes' /\ Counts' /\ Sends' /\ PipesIn' /\ PipesOut'
    <3>1. TypeOK'
      BY <1>1, <1>3, <2>1 DEF TypeOK
    <3>2. Peers'
      BY <1>1, <1>2, <2>1 DEF Peers, Open
    <3>3. Records' /\ Shapes' /\ Counts'
      BY <1>1, <2>1 DEF Records, Shapes, Counts, UnderWay
    <3>4. Sends' /\ PipesIn' /\ PipesOut'
      BY <1>1, <2>1 DEF Sends, UnderWay, Pending, GivenUp, PipesIn, PipesOut, Sent1
    <3> QED
      BY <3>1, <3>2, <3>3, <3>4
  <2>3. chan'[Ini] = <<>> /\ chan'[Acc] = <<>> /\ ~Open(Ini)' /\ ~Open(Acc)'
    BY <1>0, <1>1, <1>3, <1>5, <2>1 DEF Peers, Open
  <2>4. stream'[Acc] = None
    BY <2>2, <2>3 DEF Records, Open
  <2> QED
    BY <2>2, <2>3, <2>4, CleanIs DEF IInv, Base
<1> QED
  BY <1>4, <1>5

\* A peer is added to the table.
LEMMA MeetKeeps ==
    ASSUME Usage, IInv, NEW n \in Peer, Meet(n)
    PROVE  IInv'
<1>1. Base /\ TypeOK /\ Peers /\ Records /\ Shapes /\ Counts /\ Sends /\ PipesIn /\ PipesOut /\ Link
  BY DEF IInv, Base, Meet
<1>2. /\ known' = known \cup {n} /\ reset = {}
      /\ UNCHANGED <<up, stream, queued, chan, reset, made, ended, given, lost, wild>>
  BY DEF Meet
<1>3. TypeOK'
  BY <1>1, <1>2 DEF TypeOK
<1>4. Peers'
  BY <1>1, <1>2 DEF Peers, Open
<1>5. Records' /\ Shapes' /\ Counts'
  BY <1>1, <1>2 DEF Records, Shapes, Counts, UnderWay
<1>6. Sends' /\ PipesIn' /\ PipesOut'
  BY <1>1, <1>2 DEF Sends, UnderWay, Pending, GivenUp, PipesIn, PipesOut, Sent1
<1>7. Asked' /\ Answered' /\ Connected' /\ Waits' /\ Accepted' /\ Over'
  BY <1>1, <1>2 DEF Link, Asked, Answered, Connected, Waits, Accepted, Over,
                   UnderWay, Open, Pending, GivenUp
<1>8. Flow'
  BY <1>1, <1>2 DEF Link, Flow, Sender, NextIn, Sent1
<1> QED
  BY <1>3, <1>4, <1>5, <1>6, <1>7, <1>8 DEF IInv, Base, Link

-----------------------------------------------------------------------------
(* A command arrives.                                                      *)

\* The first command of the other peer is taken from the channel.
Taken(n) == chan[Other(n)] # <<>> /\ chan'[Other(n)] = Tail(chan[Other(n)])

\* What is on its way then.
LEMMA TakenIs ==
    ASSUME Usage, TypeOK, Shapes, NEW n \in Peer, NEW p \in Peer, p = Other(n), Taken(n)
    PROVE  /\ chan[p] \in Seq(Message) /\ chan'[p] \in Seq(Message) /\ 1 \in DOMAIN chan[p]
           /\ Head(chan[p]) = chan[p][1] /\ chan[p][1] \in Message
           /\ Len(chan'[p]) \in Nat /\ Len(chan[p]) = Len(chan'[p]) + 1
           /\ \A i \in DOMAIN chan'[p] :
                 i + 1 \in DOMAIN chan[p] /\ i + 1 # 1 /\ chan'[p][i] = chan[p][i + 1]
           /\ \A i \in DOMAIN chan[p] :
                 i = 1 \/ (i - 1 \in DOMAIN chan'[p] /\ chan'[p][i - 1] = chan[p][i])
           /\ \A c : UnderWay(p, c)' => UnderWay(p, c)
           /\ \A c : UnderWay(p, c) => UnderWay(p, c)' \/ chan[p][1].cmd = c
           /\ chan[p][1].cmd \in {"CREATE", "CREATED", "DATA", "CLOSE"}
           /\ chan[p][1].cmd \in {"CREATE", "CLOSE"} => chan'[p] = <<>>
           /\ chan'[n] = chan[n] => Shapes'
<1>0. /\ Ini \in Peer /\ Acc \in Peer /\ Acc # Ini /\ Other(Ini) = Acc /\ Other(Acc) = Ini
      /\ \A x \in Peer : x = Ini \/ x = Acc
  BY SidesAre
<1> DEFINE u == chan[p]
           v == chan'[p]
<1>1. u \in Seq(Message) /\ u # <<>> /\ v = Tail(u)
  BY TypesOf DEF Taken
<1> HIDE DEF u, v
<1>2. /\ v \in Seq(Message) /\ Len(u) \in Nat /\ Len(v) \in Nat
      /\ Len(u) = Len(v) + 1 /\ 1 \in DOMAIN u /\ Head(u) = u[1] /\ u[1] \in Message
      /\ DOMAIN u = 1..Len(u) /\ DOMAIN v = 1..Len(v)
      /\ \A i \in DOMAIN v : i + 1 \in DOMAIN u /\ v[i] = u[i + 1]
      /\ \A i \in DOMAIN u : i = 1 \/ (i - 1 \in DOMAIN v /\ v[i - 1] = u[i])
  BY <1>1, TailIs
<1>3. \A i \in DOMAIN v : i + 1 # 1
  BY <1>2
<1>4. u[1].cmd \in {"CREATE", "CREATED", "DATA", "CLOSE"}
  BY <1>2 DEF Message, Cmd
<1>5. /\ \A c : UnderWay(p, c)' => UnderWay(p, c)
      /\ \A c : UnderWay(p, c) => UnderWay(p, c)' \/ u[1].cmd = c
  <2>1. ASSUME NEW c, \E i \in DOMAIN v : v[i].cmd = c
        PROVE  \E i \in DOMAIN u : u[i].cmd = c
    BY <1>2, <2>1
  <2>2. ASSUME NEW c, NEW i \in DOMAIN u, u[i].cmd = c, u[1].cmd # c
        PROVE  \E j \in DOMAIN v : v[j].cmd = c
    <3>1. i - 1 \in DOMAIN v /\ v[i - 1] = u[i]
      BY <1>2, <2>2
    <3> QED
      BY <2>2, <3>1
  <2>3. \A c : (\E i \in DOMAIN u : u[i].cmd = c) => (\E j \in DOMAIN v : v[j].cmd = c) \/ u[1].cmd = c
    BY <2>2
  <2> QED
    BY <2>1, <2>3 DEF UnderWay, u, v
<1>6. ASSUME u[1].cmd \in {"CREATE", "CLOSE"} PROVE v = <<>>
  <2>1. Len(u) = 1
    <3>1. CASE p = Ini
      BY <1>2, <1>6, <3>1 DEF Shapes, u
    <3>2. CASE p = Acc
      BY <1>2, <1>6, <3>2 DEF Shapes, u
    <3> QED
      BY <1>0, <3>1, <3>2
  <2>2. Len(v) = 0
    <3>1. \A k \in Nat : k + 1 = 1 => k = 0
      OBVIOUS
    <3> QED
      BY <1>2, <2>1, <3>1
  <2> QED
    BY <1>2, <2>2
<1>7. ASSUME chan'[n] = chan[n] PROVE Shapes'
  <2>1. CASE p = Ini
    <3>1. n = Acc
      BY <1>0, <2>1
    <3>2. \A i \in DOMAIN v : /\ v[i].cmd # "CREATED"
                              /\ v[i].cmd # "DATA" => i = Len(v)
      BY <1>2, <2>1 DEF Shapes, u
    <3> QED
      BY <1>7, <2>1, <3>1, <3>2 DEF Shapes, v
  <2>2. CASE p = Acc
    <3>1. n = Ini
      BY <1>0, <2>2
    <3>2. \A i \in DOMAIN v : /\ v[i].cmd # "CREATE"
                              /\ v[i].cmd = "CREATED" => i = 1
                              /\ v[i].cmd = "CLOSE" => i = Len(v)
      BY <1>2, <1>3, <2>2 DEF Shapes, u
    <3> QED
      BY <1>7, <2>2, <3>1, <3>2 DEF Shapes, v
  <2> QED
    BY <1>0, <2>1, <2>2
<1> QED
  BY <1>1, <1>2, <1>3, <1>4, <1>5, <1>6, <1>7 DEF u, v

\* A command is dropped: there is no record for it, or no memory for one.
LEMMA DropKeeps ==
    ASSUME Usage, IInv, reset = {}, NEW n \in Peer, stream[n] = None, Taken(n), TypeOK',
           chan'[n] = chan[n], known' = known \cup {n},
           UNCHANGED <<up, stream, queued, reset, made, ended, given, wild>>
    PROVE  IInv'
<1> DEFINE p == Other(n)
<1>0. /\ p \in Peer /\ p # n /\ Other(p) = n /\ \A x \in Peer : x = n \/ x = p
      /\ Ini \in Peer /\ Acc \in Peer /\ Acc # Ini /\ Other(Ini) = Acc /\ Other(Acc) = Ini
      /\ \A x \in Peer : x = Ini \/ x = Acc
  BY OtherIs, SidesAre
<1>1. /\ Base /\ TypeOK /\ Peers /\ Records /\ Shapes /\ Counts /\ Sends /\ PipesIn /\ PipesOut
      /\ Asked /\ Answered /\ Connected /\ Waits /\ Accepted /\ Over /\ Flow
  BY DEF IInv, Base, Link
<1>2. /\ \A i \in DOMAIN chan'[p] :
            i + 1 \in DOMAIN chan[p] /\ i + 1 # 1 /\ chan'[p][i] = chan[p][i + 1]
      /\ \A c : UnderWay(p, c)' => UnderWay(p, c)
      /\ Shapes'
  BY <1>0, <1>1, TakenIs
<1>3. chan[p] # <<>>
  BY DEF Taken
<1>4. \A c : UnderWay(n, c)' <=> UnderWay(n, c)
  BY DEF UnderWay
<1>5. /\ \A x \in Peer : (Open(x)' <=> Open(x)) /\ (Pending(x)' <=> Pending(x))
      /\ GivenUp' <=> GivenUp
  BY DEF Open, Pending, GivenUp
<1>6. Peers'
  <2>1. \A x \in Peer : x \notin up' => stream'[x] = None /\ chan'[Other(x)] = <<>>
    BY <1>0, <1>1, <1>3 DEF Peers
  <2>2. \A x \in Peer : x \notin known' => chan'[x] = <<>> /\ ~Open(x)'
    BY <1>0, <1>1, <1>3, <1>5 DEF Peers
  <2> QED
    BY <2>1, <2>2 DEF Peers
<1>7. Records' /\ PipesIn' /\ PipesOut'
  BY <1>1 DEF Records, PipesIn, PipesOut, Sent1
<1>8. \A c : UnderWay(Ini, c)' => UnderWay(Ini, c)
  BY <1>0, <1>2, <1>4
<1>9. \A c : UnderWay(Acc, c)' => UnderWay(Acc, c)
  BY <1>0, <1>2, <1>4
<1>10. Counts'
  BY <1>1, <1>8 DEF Counts
<1>11. Sends'
  <2>1. \A i \in DOMAIN chan'[Ini] : \E j \in DOMAIN chan[Ini] : chan'[Ini][i] = chan[Ini][j]
    BY <1>0, <1>2
  <2> QED
    BY <1>0, <1>1, <1>5, <1>8, <1>9, <2>1 DEF Sends
<1>12. CASE n = Ini
  <2>1. p = Acc
    BY <1>0, <1>12
  <2>2. ~UnderWay(Acc, "CREATED")'
    BY <1>1, <1>2, <2>1 DEF Shapes, UnderWay
  <2>3. Asked'
    BY <1>1, <1>3, <1>8, <2>1 DEF Asked
  <2>4. Answered'
    BY <2>2 DEF Answered, UnderWay
  <2>5. Connected' /\ Waits'
    BY <1>12 DEF Connected, Waits, Open, Pending
  <2>6. Accepted'
    <3>1. UnderWay(Acc, "CREATED") => GivenUp
      BY <1>1, <1>12 DEF Answered, UnderWay, Pending
    <3>2. UnderWay(Ini, "CLOSE")' <=> UnderWay(Ini, "CLOSE")
      BY <1>4, <1>12
    <3> QED
      BY <1>1, <1>5, <1>12, <3>1, <3>2 DEF Accepted, Open
  <2>7. Over'
    BY <1>1, <1>3, <2>1 DEF Over
  <2>8. Flow'
    <3>1. ASSUME NEW x \in Peer, stream[x] # None
          PROVE  x = p /\ Other(x) = n
      BY <1>0, <3>1
    <3> QED
      BY <1>1, <3>1 DEF Flow, Sender, NextIn
  <2> QED
    BY <1>1, <1>6, <1>7, <1>2, <1>10, <1>11, <2>3, <2>4, <2>5, <2>6, <2>7, <2>8 DEF IInv, Base, Link
<1>13. CASE n = Acc
  <2>1. p = Ini
    BY <1>0, <1>13
  <2>2. ~UnderWay(Acc, "CREATED")
    BY <1>1, <1>3, <2>1 DEF Answered, UnderWay
  <2>3. chan'[Acc] = chan[Acc] /\ \A c : UnderWay(Acc, c)' <=> UnderWay(Acc, c)
    BY <1>4, <1>13
  <2>4. Asked'
    BY <1>1, <1>8, <2>3 DEF Asked
  <2>5. Answered'
    BY <2>2, <2>3 DEF Answered, UnderWay
  <2>6. Connected' /\ Waits' /\ Over'
    BY <1>0, <1>1, <1>5, <2>3 DEF Connected, Waits, Over
  <2>7. Accepted'
    BY <1>13 DEF Accepted
  <2>8. Flow'
    <3>1. ASSUME NEW x \in Peer, stream[x] # None
          PROVE  x = p /\ Other(x) = n
      BY <1>0, <3>1
    <3> QED
      BY <1>1, <3>1 DEF Flow, Sender, NextIn
  <2> QED
    BY <1>1, <1>6, <1>7, <1>2, <1>10, <1>11, <2>4, <2>5, <2>6, <2>7, <2>8 DEF IInv, Base, Link
<1> QED
  BY <1>0, <1>12, <1>13

\* ksnStreamCreate (CMD_ST_CREATE_GOT): the acceptor has a record, and answers.
LEMMA CreateGotKeeps ==
    ASSUME Usage, IInv, reset = {}, Acc \in up, Taken(Acc), chan[Ini][1].cmd = "CREATE", TypeOK',
           Keeps(Ini), stream'[Acc] = Fresh(Acc, FALSE, made[Ini]), queued'[Acc] = queued[Acc],
           made'[Acc] = made[Acc] + 1,
           NEW m \in Message, m.cmd = "CREATED", m.serial = made[Acc] + 1,
           chan'[Acc] = IF Ini \in up THEN Append(chan[Acc], m) ELSE chan[Acc],
           known' = known \cup {Acc}, wild' = wild, UNCHANGED <<up, reset>>
    PROVE  IInv'
<1> DEFINE t == Fresh(Acc, FALSE, made[Ini])
<1>0. /\ Ini \in Peer /\ Acc \in Peer /\ Acc # Ini /\ Other(Ini) = Acc /\ Other(Acc) = Ini
      /\ \A x \in Peer : x = Ini \/ x = Acc
  BY SidesAre
<1>1. /\ Base /\ TypeOK /\ Peers /\ Records /\ Shapes /\ Counts /\ Sends /\ PipesIn /\ PipesOut
      /\ Asked /\ Answered /\ Connected /\ Waits /\ Accepted /\ Over /\ Flow
  BY DEF IInv, Base, Link
<1>2. /\ 1 \in DOMAIN chan[Ini] /\ chan'[Ini] = <<>> /\ chan[Ini][1] \in Message
  BY <1>0, <1>1, TakenIs
<1>3. /\ UnderWay(Ini, "CREATE") /\ stream[Acc] = None /\ chan[Acc] = <<>> /\ made[Acc] < made[Ini]
      /\ Pending(Ini) \/ GivenUp
      /\ stream[Ini] = None /\ Ini \in up => ended[Ini] \in {"own", "timeout"}
  BY <1>1, <1>2 DEF UnderWay, Asked, Counts, Sends
<1>4. made[Ini] \in Nat /\ made[Acc] \in Nat
  BY <1>0, <1>1, TypesOf
<1>5. /\ t # None /\ t.serial = made[Acc] + 1 /\ t.created = TRUE /\ t.initiator = FALSE
      /\ t.with = made[Ini] /\ t.wrote = 0 /\ t.pipeIn = <<>> /\ t.pipeOut = <<>> /\ t.got = <<>>
  <2>1. FALSE \in BOOLEAN
    OBVIOUS
  <2>2. t \in Record
    BY <1>0, <1>1, <1>4, <2>1, FreshIs
  <2> QED
    BY <2>2, StreamAssumption DEF Fresh
<1> HIDE DEF t
<1>6. /\ stream'[Acc] = t /\ stream'[Ini] = stream[Ini] /\ queued'[Ini] = queued[Ini]
      /\ made'[Ini] = made[Ini] /\ ended'[Ini] = ended[Ini] /\ given'[Ini] = given[Ini]
      /\ queued'[Acc] = queued[Acc] /\ made'[Acc] = made[Acc] + 1 /\ up' = up /\ reset' = reset
  BY DEF Keeps, t
<1>7. /\ GivenUp' <=> GivenUp
      /\ Pending(Ini)' <=> Pending(Ini)
      /\ Open(Ini)' <=> Open(Ini)
      /\ ~Open(Ini)
  BY <1>3, <1>6 DEF GivenUp, Pending, Open
<1>8. /\ Ini \notin up => chan'[Acc] = <<>>
      /\ Ini \in up => /\ Len(chan'[Acc]) = 1 /\ DOMAIN chan'[Acc] = {1} /\ chan'[Acc][1] = m
      /\ \A i \in DOMAIN chan'[Acc] : i = 1 /\ chan'[Acc][i] = m
  <2>1. CASE Ini \in up
    <3>1. chan'[Acc] = Append(<<>>, m) /\ <<>> \in Seq(Message)
      BY <1>3, <2>1
    <3>2. Append(<<>>, m) = <<m>>
      OBVIOUS
    <3>3. Len(<<m>>) = 1 /\ DOMAIN <<m>> = {1} /\ <<m>>[1] = m
      OBVIOUS
    <3>4. chan'[Acc] = <<m>>
      BY <3>1, <3>2
    <3> QED
      BY <2>1, <3>3, <3>4
  <2>2. CASE Ini \notin up
    BY <1>3, <2>2
  <2> QED
    BY <2>1, <2>2
<1>9. Peers'
  <2>1. \A x \in Peer : x \notin up' => stream'[x] = None /\ chan'[Other(x)] = <<>>
    BY <1>0, <1>1, <1>2, <1>6, <1>8 DEF Peers
  <2>2. \A x \in Peer : x \notin known' => chan'[x] = <<>> /\ ~Open(x)'
    BY <1>0, <1>2, <1>7
  <2> QED
    BY <1>6, <2>1, <2>2 DEF Peers
<1>10. Records'
  BY <1>1, <1>5, <1>6 DEF Records
<1>11. Shapes'
  BY <1>2, <1>8 DEF Shapes
<1>12. Counts'
  BY <1>1, <1>2, <1>3, <1>4, <1>6 DEF Counts, UnderWay
<1>13. Sends'
  <2>1. ~UnderWay(Acc, "CLOSE")' /\ ~UnderWay(Ini, "CLOSE")'
    BY <1>2, <1>8 DEF UnderWay
  <2>2. \A i \in DOMAIN chan'[Ini] : FALSE
    BY <1>2
  <2> QED
    BY <2>1, <2>2 DEF Sends
<1>14. PipesIn' /\ PipesOut'
  <2>1. /\ Len(t.pipeOut) <= t.wrote
        /\ \A i : i \notin DOMAIN t.pipeOut /\ i \notin DOMAIN t.got /\ i \notin DOMAIN t.pipeIn
    BY <1>5
  <2> QED
    BY <1>0, <1>1, <1>6, <2>1 DEF PipesIn, PipesOut, Sent1
<1>15. Asked'
  BY <1>2 DEF Asked, UnderWay
<1>16. Answered'
  BY <1>2, <1>3, <1>5, <1>6, <1>7, <1>8 DEF Answered
<1>17. Connected'
  BY <1>7 DEF Connected
<1>18. Pending(Ini) => Ini \in up /\ UnderWay(Acc, "CREATED")'
  BY <1>0, <1>1, <1>8 DEF Pending, Peers, UnderWay
<1>19. Waits' /\ Accepted'
  BY <1>3, <1>5, <1>6, <1>7, <1>18 DEF Waits, Accepted, GivenUp
<1>20. Over'
  BY <1>3, <1>6 DEF Over
<1>21. NextIn(Acc)' = 1 /\ Sent1(Acc)' = 0
  <2>1. Len(<<>>) = 0 /\ 0 + 0 + 1 = 1 /\ 0 - 0 = 0
    OBVIOUS
  <2> QED
    BY <1>5, <1>6, <2>1 DEF NextIn, Sent1
<1>22. stream[Ini] # None => NextIn(Ini)' = 1 /\ Sent1(Ini)' = 0
  <2>1. stream[Ini] # None =>
          /\ stream[Ini].got = <<>> /\ stream[Ini].pipeIn = <<>> /\ stream[Ini].wrote = 0
          /\ stream[Ini] \in Record /\ Len(stream[Ini].pipeOut) <= stream[Ini].wrote
    BY <1>0, <1>1, <1>7, TypesOf DEF Records, PipesOut, Open
  <2>2. stream[Ini] # None => Len(stream[Ini].pipeOut) = 0
    BY <2>1, RecordIs
  <2>3. Len(<<>>) = 0 /\ 0 + 0 + 1 = 1 /\ 0 - 0 = 0
    OBVIOUS
  <2> QED
    BY <1>6, <2>1, <2>2, <2>3 DEF NextIn, Sent1
<1>23. Flow'
  <2> SUFFICES ASSUME NEW x \in Peer, stream'[x] # None
               PROVE  /\ Chain(chan'[Other(x)], Sender(x)', NextIn(x)')
                      /\ stream'[Other(x)] # None =>
                           /\ Expected(chan'[Other(x)], Len(chan'[Other(x)]) + 1, NextIn(x)')
                                 = Sent1(Other(x))' + 1
                           /\ Covers(chan'[Other(x)], stream'[Other(x)].serial,
                                     NextIn(x)', Sent1(Other(x))')
    BY DEF Flow
  <2>1. CASE x = Acc
    <3>1. Chain(<<>>, Sender(x)', NextIn(x)') /\ Expected(<<>>, Len(<<>>) + 1, 1) = 0 + 1
      BY DEF Chain, Expected
    <3>2. \A s : Covers(<<>>, s, 1, 0)
      BY DEF Covers
    <3> QED
      BY <1>0, <1>2, <1>6, <1>21, <1>22, <2>1, <3>1, <3>2
  <2>2. CASE x = Ini
    <3>1. Ini \in up /\ stream[Ini] # None
      BY <1>0, <1>1, <1>6, <2>2 DEF Peers
    <3>2. Chain(chan'[Acc], Sender(x)', NextIn(x)')
      BY <1>8 DEF Chain
    <3>3. Expected(chan'[Acc], Len(chan'[Acc]) + 1, 1) = 0 + 1
      <4>1. Len(chan'[Acc]) + 1 # 1 /\ (Len(chan'[Acc]) + 1) - 1 = 1 /\ chan'[Acc][1].cmd = "CREATED"
        BY <1>8, <3>1
      <4> QED
        BY <4>1 DEF Expected, After
    <3>4. \A s : Covers(chan'[Acc], s, 1, 0)
      BY DEF Covers
    <3> QED
      BY <1>0, <1>21, <1>22, <2>2, <3>1, <3>2, <3>3, <3>4
  <2> QED
    BY <1>0, <2>1, <2>2
<1> QED
  BY <1>9, <1>10, <1>11, <1>12, <1>13, <1>14, <1>15, <1>16, <1>17, <1>19, <1>20, <1>23 DEF IInv, Base, Link

\* The branch of the closing peer: the record of the other end is freed.
LEMMA ClosedKeeps ==
    ASSUME Usage, IInv, reset = {}, NEW n \in Peer, n \in up, stream[n] # None, Taken(n),
           chan[Other(n)][1].cmd = "CLOSE", TypeOK', Keeps(Other(n)),
           stream'[n] = None, queued'[n] = queued[n], made'[n] = made[n],
           chan'[n] = chan[n], known' = known \cup {n}, wild' = wild, UNCHANGED <<up, reset>>
    PROVE  IInv'
<1>0. /\ Ini \in Peer /\ Acc \in Peer /\ Acc # Ini /\ Other(Ini) = Acc /\ Other(Acc) = Ini
      /\ \A x \in Peer : x = Ini \/ x = Acc
      /\ Other(n) \in Peer
  BY SidesAre, OtherIs
<1>1. /\ Base /\ TypeOK /\ Peers /\ Records /\ Shapes /\ Counts /\ Sends /\ PipesIn /\ PipesOut
      /\ Asked /\ Answered /\ Connected /\ Waits /\ Accepted /\ Over /\ Flow
  BY DEF IInv, Base, Link
<1>2. /\ 1 \in DOMAIN chan[Other(n)] /\ chan'[Other(n)] = <<>> /\ Shapes'
      /\ chan[Other(n)] # <<>>
  BY <1>0, <1>1, TakenIs DEF Taken
<1>3. UnderWay(Other(n), "CLOSE")
  BY <1>2 DEF UnderWay
<1>4. CASE n = Ini
  <2>1. /\ chan'[Acc] = <<>> /\ chan'[Ini] = chan[Ini] /\ stream[Acc] = None
        /\ stream'[Ini] = None /\ stream'[Acc] = None /\ chan[Acc] # <<>>
        /\ queued'[Ini] = queued[Ini] /\ queued'[Acc] = queued[Acc]
        /\ made'[Ini] = made[Ini] /\ made'[Acc] = made[Acc]
    BY <1>0, <1>1, <1>2, <1>3, <1>4 DEF Keeps, Sends
  <2>2. Open(Ini)
    <3>1. ~UnderWay(Acc, "CREATED")
      <4>1. \A i \in DOMAIN chan[Acc] : chan[Acc][i].cmd = "CREATED" => i = 1
        BY <1>1 DEF Shapes
      <4> QED
        BY <1>0, <1>4, <4>1 DEF UnderWay
    <3> QED
      BY <1>1, <1>4, <2>1, <3>1 DEF Waits, Pending, Open
  <2>3. ~UnderWay(Ini, "CREATE") /\ ~UnderWay(Ini, "CLOSE")
    BY <1>1, <2>2 DEF Sends, UnderWay, Pending, GivenUp, Open
  <2>4. Peers'
    BY <1>0, <1>1, <1>4, <2>1 DEF Peers, Open
  <2>5. Records' /\ Counts' /\ PipesIn' /\ PipesOut'
    BY <1>0, <1>1, <2>1, <2>3 DEF Records, Counts, PipesIn, PipesOut, UnderWay
  <2>6. Sends'
    BY <2>1, <2>3 DEF Sends, UnderWay
  <2>7. Link'
    BY <1>0, <2>1 DEF Link, Asked, Answered, Connected, Waits, Accepted, Over, Flow, Open, Pending
  <2> QED
    BY <1>2, <2>4, <2>5, <2>6, <2>7 DEF IInv, Base
<1>5. CASE n = Acc
  <2>1. /\ chan'[Ini] = <<>> /\ chan'[Acc] = chan[Acc] /\ stream[Ini] = None /\ ended[Ini] = "own"
        /\ stream'[Ini] = None /\ stream'[Acc] = None /\ chan[Ini] # <<>>
        /\ queued'[Ini] = queued[Ini] /\ queued'[Acc] = queued[Acc]
        /\ made'[Ini] = made[Ini] /\ made'[Acc] = made[Acc] /\ ended'[Ini] = ended[Ini]
    BY <1>0, <1>1, <1>2, <1>3, <1>5 DEF Keeps, Sends
  <2>2. ~UnderWay(Acc, "CREATED")
    BY <1>1, <2>1 DEF Answered, UnderWay
  <2>3. Peers'
    BY <1>0, <1>1, <1>5, <2>1 DEF Peers, Open
  <2>4. Records' /\ Counts' /\ PipesIn' /\ PipesOut'
    BY <1>0, <1>1, <2>1 DEF Records, Counts, PipesIn, PipesOut, UnderWay
  <2>5. Sends'
    BY <2>1 DEF Sends, UnderWay
  <2>6. Link'
    BY <1>0, <2>1, <2>2 DEF Link, Asked, Answered, Connected, Waits, Accepted, Over, Flow,
                           Open, Pending, UnderWay
  <2> QED
    BY <1>2, <2>3, <2>4, <2>5, <2>6 DEF IInv, Base
<1> QED
  BY <1>0, <1>4, <1>5

\* What is on its way to a record when the first command is taken.
LEMMA FlowTaken ==
    ASSUME Usage, Base, Link, NEW n \in Peer, stream[n] # None, NEW p \in Peer, p = Other(n), Taken(n)
    PROVE  /\ chan[p][1].cmd = "DATA" => Run(chan[p][1].data, Sender(n), NextIn(n))
           /\ Chain(chan'[p], Sender(n), After(chan[p][1], NextIn(n)))
           /\ stream[p] # None =>
                /\ Expected(chan'[p], Len(chan'[p]) + 1, After(chan[p][1], NextIn(n))) = Sent1(p) + 1
                /\ Covers(chan'[p], stream[p].serial, After(chan[p][1], NextIn(n)), Sent1(p))
<1> DEFINE u == chan[p]
           v == chan'[p]
           f == NextIn(n)
           g == After(u[1], f)
<1>0. /\ Ini \in Peer /\ Acc \in Peer /\ Acc # Ini /\ Other(Ini) = Acc /\ Other(Acc) = Ini
      /\ \A x \in Peer : x = Ini \/ x = Acc
  BY SidesAre
<1>1. /\ TypeOK /\ Records /\ Shapes /\ Sends /\ Asked /\ Flow
  BY DEF Base, Link
<1>2. /\ u \in Seq(Message) /\ u # <<>> /\ v = Tail(u) /\ Len(v) \in Nat /\ Len(u) = Len(v) + 1
      /\ 1 \in DOMAIN u /\ u[1] \in Message /\ DOMAIN u = 1..Len(u)
      /\ \A i \in DOMAIN u : i = 1 \/ (i - 1 \in DOMAIN v /\ v[i - 1] = u[i])
      /\ \A i \in DOMAIN u : u[i].cmd \in {"CREATE", "CREATED", "DATA", "CLOSE"}
  <2>1. u \in Seq(Message) /\ u # <<>> /\ v = Tail(u)
    BY <1>1, TypesOf DEF Taken
  <2> HIDE DEF u, v
  <2>2. /\ Len(u) \in Nat /\ Len(v) \in Nat /\ Len(u) = Len(v) + 1
        /\ 1 \in DOMAIN u /\ u[1] \in Message /\ DOMAIN u = 1..Len(u)
        /\ \A i \in DOMAIN u : i = 1 \/ (i - 1 \in DOMAIN v /\ v[i - 1] = u[i])
    BY <2>1, TailIs
  <2> QED
    BY <2>1, <2>2, CommandIs
<1>3. \A j \in DOMAIN u : j # 1 /\ j # Len(u) => u[j].cmd = "DATA"
  BY <1>0, <1>1, <1>2 DEF Shapes
<1>4. Chain(u, Sender(n), f)
  BY <1>1 DEF Flow
<1>5. f \in Nat
  <2>1. stream[n] \in Record
    BY <1>1, TypesOf
  <2>2. Len(stream[n].got) \in Nat /\ Len(stream[n].pipeIn) \in Nat
    BY <2>1, RecordIs
  <2>3. \A i, j \in Nat : i + j + 1 \in Nat
    OBVIOUS
  <2> QED
    BY <2>2, <2>3 DEF NextIn
<1>6. u[1].cmd = "DATA" => Run(u[1].data, Sender(n), f)
  BY <1>2, <1>4 DEF Chain, Expected
<1>7. \/ g = f /\ u[1].cmd # "DATA"
      \/ g = f + Len(u[1].data) /\ u[1].cmd = "DATA" /\ Len(u[1].data) \in Nat
  <2>1. CASE u[1].cmd = "DATA"
    <3>1. u[1].data \in Seq(Nat \X Nat) /\ u[1].data # <<>>
      BY <1>2, <1>6, <2>1 DEF Message, Run
    <3>2. 1 \in DOMAIN u[1].data /\ Len(u[1].data) \in Nat
      <4> DEFINE d == u[1].data
      <4>1. d \in Seq(Nat \X Nat) /\ d # <<>>
        BY <3>1
      <4> HIDE DEF d
      <4>2. 1 \in DOMAIN d /\ Len(d) \in Nat
        BY <4>1, TailIs
      <4> QED
        BY <4>2 DEF d
    <3>3. u[1].data[1] = <<Sender(n), f + 1 - 1>> /\ f + 1 - 1 = f
      BY <1>5, <1>6, <2>1, <3>2 DEF Run
    <3> QED
      BY <2>1, <3>2, <3>3 DEF After
  <2>2. CASE u[1].cmd # "DATA"
    BY <2>2 DEF After
  <2> QED
    BY <2>1, <2>2
<1> DEFINE s == Sender(n)
<1>8. Chain(v, s, g)
  <2>1. Chain(Tail(u), s, After(u[1], f))
    <3> HIDE DEF u, s, f
    <3> QED
      BY <1>2, <1>3, <1>4, ChainTail DEF s
  <2> QED
    BY <1>2, <2>1
<1>9. ASSUME stream[p] # None
      PROVE  Expected(v, Len(v) + 1, g) = Sent1(p) + 1 /\ Covers(v, stream[p].serial, g, Sent1(p))
  <2> DEFINE e == Sent1(p)
             r == stream[p].serial
  <2>1. Expected(u, Len(u) + 1, f) = e + 1 /\ Covers(u, r, f, e)
    BY <1>1, <1>9 DEF Flow
  <2>2. Len(u) \in 1..Len(u) /\ (Len(u) = 1 \/ u[Len(u)].cmd = "DATA")
    <3>1. Len(u) \in DOMAIN u
      BY <1>2
    <3>2. CASE p = Ini
      <4>1. n = Acc
        BY <1>0, <3>2
      <4>2. u[Len(u)].cmd # "CREATED" /\ u[Len(u)].cmd # "CLOSE"
        BY <1>1, <1>9, <3>1, <3>2 DEF Shapes, Sends, UnderWay
      <4>3. u[Len(u)].cmd # "CREATE"
        BY <1>1, <3>1, <3>2, <4>1 DEF Asked, UnderWay
      <4> QED
        BY <1>2, <3>1, <4>2, <4>3
    <3>3. CASE p = Acc
      <4>1. /\ u[Len(u)].cmd # "CREATE" /\ u[Len(u)].cmd # "CLOSE"
            /\ u[Len(u)].cmd = "CREATED" => Len(u) = 1
        BY <1>1, <1>9, <3>1, <3>3 DEF Shapes, Sends, UnderWay
      <4> QED
        BY <1>2, <3>1, <4>1
    <3> QED
      BY <1>0, <3>2, <3>3
  <2>3. Expected(Tail(u), Len(u), After(u[1], f)) = Expected(u, Len(u) + 1, f)
    <3> HIDE DEF u, f
    <3> QED
      BY <1>2, <2>2, ExpectedTail
  <2>4. Expected(v, Len(v) + 1, g) = e + 1
    BY <1>2, <2>1, <2>3
  <2>5. e \in Nat
    <3>1. stream[p] \in Record /\ Len(stream[p].pipeOut) <= stream[p].wrote
      BY <1>1, <1>9, TypesOf DEF Base, PipesOut
    <3>2. \A i, j \in Nat : j <= i => i - j \in Nat
      OBVIOUS
    <3> QED
      BY <3>1, <3>2, RecordIs DEF Sent1
  <2>6. ASSUME NEW i \in g..e
        PROVE  \E j \in DOMAIN v : v[j].cmd = "DATA" /\ Has(v[j].data, <<r, i>>)
    <3> HIDE DEF u, v, f, g, e, r, s
    <3>1. i \in f..e
      BY <1>5, <1>7, <2>5
    <3>2. PICK j \in DOMAIN u : u[j].cmd = "DATA" /\ Has(u[j].data, <<r, i>>)
      BY <2>1, <3>1 DEF Covers
    <3>3. j # 1
      <4> SUFFICES ASSUME j = 1 PROVE FALSE
        OBVIOUS
      <4>1. PICK x \in DOMAIN u[1].data : u[1].data[x] = <<r, i>>
        BY <3>2 DEF Has
      <4>2. u[1].data[x] = <<Sender(n), f + x - 1>>
        BY <1>6, <3>2 DEF Run
      <4>3. i = f + x - 1
        BY <4>1, <4>2
      <4>4. u[1].data \in Seq(Nat \X Nat) /\ Len(u[1].data) \in Nat /\ x \in 1..Len(u[1].data)
        BY <1>2, Elements DEF Message
      <4>5. g = f + Len(u[1].data)
        BY <1>7, <3>2
      <4> QED
        BY <1>5, <4>3, <4>4, <4>5
    <3> QED
      BY <1>2, <3>2, <3>3
  <2> QED
    BY <2>4, <2>6 DEF Covers
<1> QED
  BY <1>6, <1>8, <1>9

\* ksnStreamCreate (CMD_ST_CREATED): the initiator's record is connected, and its callback ends.
LEMMA CreatedKeeps ==
    ASSUME Usage, IInv, reset = {}, Ini \in up, Pending(Ini), Taken(Ini),
           chan[Acc][1].cmd = "CREATED", TypeOK', Keeps(Acc), NEW t \in Record, stream'[Ini] = t,
           t = [stream[Ini] EXCEPT !.created = TRUE, !.with = made[Acc]],
           queued'[Ini] = queued[Ini] \ {stream[Ini].serial}, made'[Ini] = made[Ini],
           chan'[Ini] = chan[Ini], known' = known \cup {Ini}, wild' = wild, UNCHANGED <<up, reset>>
    PROVE  IInv'
<1>0. /\ Ini \in Peer /\ Acc \in Peer /\ Acc # Ini /\ Other(Ini) = Acc /\ Other(Acc) = Ini
      /\ \A x \in Peer : x = Ini \/ x = Acc
  BY SidesAre
<1>1. /\ Base /\ TypeOK /\ Peers /\ Records /\ Shapes /\ Counts /\ Sends /\ PipesIn /\ PipesOut
      /\ Link /\ Asked /\ Answered /\ Connected /\ Waits /\ Accepted /\ Over /\ Flow
  BY DEF IInv, Base, Link
<1>2. /\ stream[Ini] # None /\ stream[Ini] \in Record /\ ~stream[Ini].created
  BY <1>0, <1>1, TypesOf DEF Pending
<1>3. /\ t # None /\ t.serial = stream[Ini].serial /\ t.created = TRUE
      /\ t.initiator = stream[Ini].initiator /\ t.with = made[Acc]
      /\ t.pipeIn = stream[Ini].pipeIn /\ t.pipeOut = stream[Ini].pipeOut
      /\ t.got = stream[Ini].got /\ t.wrote = stream[Ini].wrote
  BY <1>2, StreamAssumption DEF Record
<1>4. /\ stream'[Acc] = stream[Acc] /\ queued'[Acc] = queued[Acc] /\ made'[Acc] = made[Acc]
  BY DEF Keeps
<1>5. /\ 1 \in DOMAIN chan[Acc] /\ Shapes' /\ chan[Acc] # <<>>
      /\ \A c : UnderWay(Acc, c)' => UnderWay(Acc, c)
      /\ \A c : UnderWay(Acc, c) => UnderWay(Acc, c)' \/ c = "CREATED"
      /\ \A i \in DOMAIN chan'[Acc] :
            i + 1 \in DOMAIN chan[Acc] /\ i + 1 # 1 /\ chan'[Acc][i] = chan[Acc][i + 1]
  <2>1. /\ 1 \in DOMAIN chan[Acc]
        /\ chan'[Ini] = chan[Ini] => Shapes'
        /\ \A c : UnderWay(Acc, c)' => UnderWay(Acc, c)
        /\ \A c : UnderWay(Acc, c) => UnderWay(Acc, c)' \/ chan[Acc][1].cmd = c
        /\ \A i \in DOMAIN chan'[Acc] :
              i + 1 \in DOMAIN chan[Acc] /\ i + 1 # 1 /\ chan'[Acc][i] = chan[Acc][i + 1]
    BY <1>0, <1>1, TakenIs
  <2> QED
    BY <1>0, <2>1 DEF Taken
<1>6. ~UnderWay(Acc, "CREATED")'
  BY <1>1, <1>5 DEF Shapes, UnderWay
<1>7. chan[Ini] = <<>> /\ (stream[Acc] = None => UnderWay(Acc, "CLOSE") \/ Acc \notin up)
  BY <1>1, <1>5 DEF Answered
<1>8. Peers'
  <2>1. \A x \in Peer : x \notin up' => stream'[x] = None /\ chan'[Other(x)] = <<>>
    BY <1>0, <1>1, <1>4, <1>7 DEF Peers
  <2>2. \A x \in Peer : x \notin known' => chan'[x] = <<>> /\ ~Open(x)'
    BY <1>0, <1>1, <1>4, <1>5 DEF Peers, Open
  <2> QED
    BY <2>1, <2>2 DEF Peers
<1>9. Records' /\ Counts'
  BY <1>1, <1>2, <1>3, <1>4, <1>7 DEF Records, Counts, UnderWay
<1>10. Sends'
  BY <1>1, <1>4, <1>5, <1>7 DEF Sends, UnderWay
<1>11. PipesIn' /\ PipesOut'
  <2>1. /\ \A i : i \notin DOMAIN t.got /\ i \notin DOMAIN t.pipeIn
        /\ Len(t.pipeOut) <= t.wrote
        /\ \A x \in DOMAIN t.pipeOut : t.pipeOut[x] = <<t.serial, (t.wrote - Len(t.pipeOut)) + x>>
    BY <1>0, <1>1, <1>2, <1>3 DEF Records, PipesOut, Sent1
  <2>2. PipesIn'
    <3>1. \A i : i \notin DOMAIN stream'[Ini].got /\ i \notin DOMAIN stream'[Ini].pipeIn
      BY <2>1
    <3>2. stream[Acc] # None =>
            /\ \A i \in DOMAIN stream'[Acc].got : stream'[Acc].got[i] = <<stream'[Acc].with, i>>
            /\ \A i \in DOMAIN stream'[Acc].pipeIn :
                  stream'[Acc].pipeIn[i] = <<stream'[Acc].with, Len(stream'[Acc].got) + i>>
      BY <1>0, <1>1, <1>4 DEF PipesIn
    <3> QED
      BY <1>0, <1>4, <3>1, <3>2 DEF PipesIn
  <2>3. /\ Len(stream'[Ini].pipeOut) <= stream'[Ini].wrote
        /\ \A x \in DOMAIN stream'[Ini].pipeOut :
              stream'[Ini].pipeOut[x] = <<stream'[Ini].serial, Sent1(Ini)' + x>>
    BY <2>1 DEF Sent1
  <2>4. stream[Acc] # None =>
          /\ Len(stream'[Acc].pipeOut) <= stream'[Acc].wrote
          /\ \A x \in DOMAIN stream'[Acc].pipeOut :
                stream'[Acc].pipeOut[x] = <<stream'[Acc].serial, Sent1(Acc)' + x>>
    BY <1>0, <1>1, <1>4 DEF PipesOut, Sent1
  <2>5. PipesOut'
    BY <1>0, <1>4, <2>3, <2>4 DEF PipesOut
  <2> QED
    BY <2>2, <2>5
<1>12. Asked' /\ Answered' /\ Connected' /\ Waits' /\ Accepted' /\ Over'
  <2>1. Asked' /\ Answered' /\ Waits' /\ Over'
    BY <1>3, <1>6, <1>7 DEF Asked, Answered, Waits, Over, UnderWay, Pending
  <2>2. Connected'
    BY <1>3, <1>4, <1>5, <1>6, <1>7 DEF Connected
  <2>3. Accepted'
    BY <1>1, <1>3, <1>4 DEF Accepted, Open
  <2> QED
    BY <2>1, <2>2, <2>3
<1>13. Flow'
  <2>1. /\ Sender(Ini)' = Sender(Ini) /\ NextIn(Ini)' = NextIn(Ini) /\ Sent1(Ini)' = Sent1(Ini)
        /\ Sent1(Acc)' = Sent1(Acc)
        /\ stream[Acc] # None => Sender(Acc)' = Sender(Acc) /\ NextIn(Acc)' = NextIn(Acc)
    BY <1>0, <1>1, <1>2, <1>3, <1>4 DEF Sender, NextIn, Sent1, Records
  <2>2. After(chan[Acc][1], NextIn(Ini)) = NextIn(Ini)
    BY DEF After
  <2>3. /\ Chain(chan'[Acc], Sender(Ini), NextIn(Ini))
        /\ stream[Acc] # None =>
             /\ Expected(chan'[Acc], Len(chan'[Acc]) + 1, NextIn(Ini)) = Sent1(Acc) + 1
             /\ Covers(chan'[Acc], stream[Acc].serial, NextIn(Ini), Sent1(Acc))
    BY <1>0, <1>1, <1>2, <2>2, FlowTaken
  <2>4. stream[Acc] # None =>
          /\ Chain(chan[Ini], Sender(Acc), NextIn(Acc))
          /\ Expected(chan[Ini], Len(chan[Ini]) + 1, NextIn(Acc)) = Sent1(Ini) + 1
          /\ Covers(chan[Ini], stream[Ini].serial, NextIn(Acc), Sent1(Ini))
    BY <1>0, <1>1, <1>2 DEF Flow
  <2> SUFFICES ASSUME NEW x \in Peer, stream'[x] # None
               PROVE  /\ Chain(chan'[Other(x)], Sender(x)', NextIn(x)')
                      /\ stream'[Other(x)] # None =>
                           /\ Expected(chan'[Other(x)], Len(chan'[Other(x)]) + 1, NextIn(x)')
                                 = Sent1(Other(x))' + 1
                           /\ Covers(chan'[Other(x)], stream'[Other(x)].serial,
                                     NextIn(x)', Sent1(Other(x))')
    BY DEF Flow
  <2>5. CASE x = Ini
    BY <1>0, <1>4, <2>1, <2>3, <2>5
  <2>6. CASE x = Acc
    <3>1. /\ Other(x) = Ini /\ stream[Acc] # None /\ stream'[Ini].serial = stream[Ini].serial
          /\ chan'[Ini] = chan[Ini]
      BY <1>0, <1>3, <1>4, <2>6
    <3> QED
      BY <2>1, <2>4, <2>6, <3>1
  <2> QED
    BY <1>0, <2>5, <2>6
<1> QED
  BY <1>5, <1>8, <1>9, <1>10, <1>11, <1>12, <1>13 DEF IInv, Base, Link

\* cmd_stream_cb (CMD_ST_DATA): the chunks are written to the input pipe.
LEMMA DataKeeps ==
    ASSUME Usage, IInv, reset = {}, NEW n \in Peer, n \in up, stream[n] # None, Taken(n),
           NEW p \in Peer, p = Other(n), chan[p][1].cmd = "DATA", TypeOK', Keeps(p),
           NEW t \in Record, stream'[n] = t,
           t.serial = stream[n].serial, t.created = stream[n].created,
           t.initiator = stream[n].initiator, t.with = stream[n].with, t.got = stream[n].got,
           t.pipeIn = stream[n].pipeIn \o chan[p][1].data, t.pipeOut = stream[n].pipeOut,
           t.wrote = stream[n].wrote,
           queued'[n] = queued[n], made'[n] = made[n], ended'[n] = ended[n], given'[n] = given[n],
           chan'[n] = chan[n], known' = known \cup {n}, wild' = wild, UNCHANGED <<up, reset>>
    PROVE  IInv'
<1> DEFINE s == stream[n]
           d == chan[p][1].data
<1>0. /\ p # n /\ Other(p) = n /\ \A x \in Peer : x = n \/ x = p
      /\ Ini \in Peer /\ Acc \in Peer /\ Acc # Ini /\ Other(Ini) = Acc /\ Other(Acc) = Ini
      /\ \A x \in Peer : x = Ini \/ x = Acc
  BY OtherIs, SidesAre
<1>1. /\ Base /\ TypeOK /\ Peers /\ Records /\ Shapes /\ Counts /\ Sends /\ PipesIn /\ PipesOut
      /\ Link /\ Asked /\ Answered /\ Connected /\ Waits /\ Accepted /\ Over /\ Flow
  BY DEF IInv, Base, Link
<1>2. /\ 1 \in DOMAIN chan[p] /\ Shapes' /\ chan[p] # <<>> /\ chan[p][1] \in Message
      /\ \A c : UnderWay(p, c)' => UnderWay(p, c)
      /\ \A c : UnderWay(p, c) => UnderWay(p, c)' \/ c = "DATA"
      /\ \A i \in DOMAIN chan'[p] :
            i + 1 \in DOMAIN chan[p] /\ i + 1 # 1 /\ chan'[p][i] = chan[p][i + 1]
  <2>1. /\ 1 \in DOMAIN chan[p] /\ chan[p][1] \in Message
        /\ chan'[n] = chan[n] => Shapes'
        /\ \A c : UnderWay(p, c)' => UnderWay(p, c)
        /\ \A c : UnderWay(p, c) => UnderWay(p, c)' \/ chan[p][1].cmd = c
        /\ \A i \in DOMAIN chan'[p] :
              i + 1 \in DOMAIN chan[p] /\ i + 1 # 1 /\ chan'[p][i] = chan[p][i + 1]
    BY <1>1, TakenIs
  <2> QED
    BY <2>1 DEF Taken
<1>3. s \in Record /\ d \in Seq(Nat \X Nat)
  BY <1>1, <1>2, TypesOf DEF Message
<1>4. s.created
  <2>1. CASE n = Ini
    <3>1. ~UnderWay(Acc, "CREATED")
      BY <1>0, <1>1, <1>2, <2>1 DEF Shapes, UnderWay
    <3> QED
      BY <1>0, <1>1, <1>2, <2>1, <3>1 DEF Waits, Pending
  <2>2. CASE n = Acc
    BY <1>1, <2>2 DEF Records
  <2> QED
    BY <1>0, <2>1, <2>2
<1>5. n \in known /\ known' = known
  BY <1>1, <1>4 DEF Peers, Open
<1>6. /\ t # None /\ t.serial = s.serial /\ t.created = s.created /\ t.initiator = s.initiator
      /\ t.with = s.with /\ t.pipeIn = s.pipeIn \o d /\ t.pipeOut = s.pipeOut
      /\ t.got = s.got /\ t.wrote = s.wrote
  BY <1>3, StreamAssumption DEF Record
<1> HIDE DEF s, d
<1>7. s = stream[n] /\ d = chan[p][1].data
  BY DEF s, d
<1>8. /\ stream'[p] = stream[p] /\ stream'[n] = t
      /\ \A x \in Peer : /\ queued'[x] = queued[x] /\ made'[x] = made[x] /\ ended'[x] = ended[x]
                         /\ given'[x] = given[x]
                         /\ stream'[x] = None <=> stream[x] = None
                         /\ stream[x] # None => /\ stream'[x].serial = stream[x].serial
                                                /\ stream'[x].created = stream[x].created
                                                /\ stream'[x].initiator = stream[x].initiator
                                                /\ stream'[x].with = stream[x].with
  BY <1>0, <1>6, <1>7 DEF Keeps
<1>9. /\ \A x \in Peer : (Open(x)' <=> Open(x)) /\ (Pending(x)' <=> Pending(x))
      /\ GivenUp' <=> GivenUp
  BY <1>0, <1>8 DEF Open, Pending, GivenUp
<1>10. /\ \A c : c # "DATA" => (UnderWay(p, c)' <=> UnderWay(p, c))
       /\ \A c : UnderWay(n, c)' <=> UnderWay(n, c)
  <2>1. \A c : c # "DATA" => (UnderWay(p, c)' <=> UnderWay(p, c))
    BY <1>2
  <2>2. chan'[n] = chan[n]
    OBVIOUS
  <2>3. \A c : UnderWay(n, c)' <=> UnderWay(n, c)
    BY ONLY <2>2 DEF UnderWay
  <2> QED
    BY <2>1, <2>3
<1>11. \A x \in Peer, c \in {"CREATE", "CREATED", "CLOSE"} : UnderWay(x, c)' <=> UnderWay(x, c)
  BY <1>0, <1>10
<1>12. Peers'
  <2>1. \A x \in Peer : x \notin up' => stream'[x] = None /\ chan'[Other(x)] = <<>>
    BY <1>0, <1>1, <1>2, <1>8 DEF Peers
  <2>2. \A x \in Peer : x \notin known' => chan'[x] = <<>> /\ ~Open(x)'
    BY <1>0, <1>1, <1>2, <1>5, <1>9 DEF Peers
  <2> QED
    BY <1>1, <2>1, <2>2 DEF Peers
<1>13. Records'
  <2>1. stream'[Ini] # None /\ ~stream[Ini].created => stream'[Ini] = stream[Ini]
    BY <1>0, <1>4, <1>7, <1>8
  <2> QED
    BY <1>0, <1>1, <1>8, <2>1 DEF Records
<1>14. Counts'
  BY <1>0, <1>1, <1>8, <1>11 DEF Counts
<1>15. Sends'
  <2>1. \A i \in DOMAIN chan'[Ini] : \E j \in DOMAIN chan[Ini] : chan'[Ini][i] = chan[Ini][j]
    BY <1>0, <1>2
  <2> QED
    BY <1>0, <1>1, <1>8, <1>9, <1>11, <2>1 DEF Sends
<1>16. Run(d, Sender(n), NextIn(n)) /\ Sender(n) = s.with
  BY <1>0, <1>1, <1>4, <1>7, FlowTaken DEF Sender
<1>17. /\ s.got \in Seq(Nat \X Nat) /\ s.pipeIn \in Seq(Nat \X Nat)
       /\ Len(s.got) \in Nat /\ Len(s.pipeIn) \in Nat /\ Len(d) \in Nat
       /\ Len(t.pipeIn) = Len(s.pipeIn) + Len(d)
  <2>1. s.got \in Seq(Nat \X Nat) /\ s.pipeIn \in Seq(Nat \X Nat)
    BY <1>3, RecordIs
  <2> DEFINE u == s.pipeIn
             g == s.got
  <2>2. u \in Seq(Nat \X Nat) /\ g \in Seq(Nat \X Nat)
    BY <2>1
  <2> HIDE DEF u, g
  <2>3. Len(u) \in Nat /\ Len(d) \in Nat /\ Len(u \o d) = Len(u) + Len(d) /\ Len(g) \in Nat
    BY <1>3, <2>2, ConcatIs, Elements
  <2> QED
    BY <1>6, <2>1, <2>3 DEF u, g
<1>18. PipesIn'
  <2>1. \A i \in DOMAIN t.pipeIn : t.pipeIn[i] = <<s.with, Len(s.got) + i>>
    <3> DEFINE u == s.pipeIn
               w == s.with
               k == Len(s.got)
    <3>1. /\ u \in Seq(Nat \X Nat) /\ d \in Seq(Nat \X Nat) /\ k \in Nat
          /\ \A i \in DOMAIN u : u[i] = <<w, k + i>>
      BY <1>1, <1>3, <1>7, <1>17 DEF PipesIn
    <3>2. NextIn(n) = (k + Len(u)) + 1
      BY <1>7 DEF NextIn
    <3>3. \A i \in DOMAIN d : d[i] = <<w, ((k + Len(u)) + 1) + i - 1>>
      BY <1>16, <3>2 DEF Run
    <3> HIDE DEF u, w, k
    <3>a. /\ Len(u) \in Nat /\ Len(d) \in Nat /\ DOMAIN d = 1..Len(d) /\ DOMAIN u = 1..Len(u)
          /\ DOMAIN (u \o d) = 1..(Len(u) + Len(d))
          /\ \A j \in DOMAIN u : (u \o d)[j] = u[j]
          /\ \A j \in DOMAIN (u \o d) :
                j \in DOMAIN u \/ (j - Len(u) \in DOMAIN d /\ (u \o d)[j] = d[j - Len(u)])
      BY <3>1, ConcatIs
    <3>4. ASSUME NEW i \in DOMAIN (u \o d) PROVE (u \o d)[i] = <<w, k + i>>
      <4>1. CASE i \in DOMAIN u
        BY <3>1, <3>a, <4>1
      <4>2. CASE i \notin DOMAIN u
        <5>1. i - Len(u) \in DOMAIN d /\ (u \o d)[i] = d[i - Len(u)] /\ i \in Nat
          BY <3>a, <4>2
        <5>2. (u \o d)[i] = <<w, ((k + Len(u)) + 1) + (i - Len(u)) - 1>>
          BY <3>3, <5>1
        <5>3. ((k + Len(u)) + 1) + (i - Len(u)) - 1 = k + i
          BY <3>1, <3>a, <5>1
        <5> QED
          BY <5>2, <5>3
      <4> QED
        BY <4>1, <4>2
    <3> QED
      BY <1>6, <3>4 DEF u, w, k
  <2>2. /\ \A i \in DOMAIN stream'[n].got : stream'[n].got[i] = <<stream'[n].with, i>>
        /\ \A i \in DOMAIN stream'[n].pipeIn :
              stream'[n].pipeIn[i] = <<stream'[n].with, Len(stream'[n].got) + i>>
    <3>1. \A i \in DOMAIN s.got : s.got[i] = <<s.with, i>>
      BY <1>1, <1>7 DEF PipesIn
    <3>2. /\ \A i \in DOMAIN t.got : t.got[i] = <<t.with, i>>
          /\ \A i \in DOMAIN t.pipeIn : t.pipeIn[i] = <<t.with, Len(t.got) + i>>
      BY <1>6, <2>1, <3>1
    <3> QED
      BY <3>2
  <2>3. stream[p] # None =>
          /\ \A i \in DOMAIN stream'[p].got : stream'[p].got[i] = <<stream'[p].with, i>>
          /\ \A i \in DOMAIN stream'[p].pipeIn :
                stream'[p].pipeIn[i] = <<stream'[p].with, Len(stream'[p].got) + i>>
    BY <1>1, <1>8 DEF PipesIn
  <2> SUFFICES ASSUME NEW x \in Peer, stream'[x] # None
               PROVE  /\ \A i \in DOMAIN stream'[x].got : stream'[x].got[i] = <<stream'[x].with, i>>
                      /\ \A i \in DOMAIN stream'[x].pipeIn :
                            stream'[x].pipeIn[i] = <<stream'[x].with, Len(stream'[x].got) + i>>
    BY DEF PipesIn
  <2>4. CASE x = n
    BY <2>2, <2>4
  <2>5. CASE x = p
    <3>1. stream[p] # None
      BY <1>8, <2>5
    <3> QED
      BY <2>3, <2>5, <3>1
  <2> QED
    BY <1>0, <2>4, <2>5
<1>19. PipesOut'
  <2>1. Sent1(n)' = Sent1(n) /\ Sent1(p)' = Sent1(p)
    BY <1>6, <1>7, <1>8 DEF Sent1
  <2>2. /\ Len(t.pipeOut) <= t.wrote
        /\ \A x \in DOMAIN t.pipeOut : t.pipeOut[x] = <<t.serial, Sent1(n) + x>>
    BY <1>1, <1>6, <1>7 DEF PipesOut
  <2> SUFFICES ASSUME NEW y \in Peer, stream'[y] # None
               PROVE  /\ Len(stream'[y].pipeOut) <= stream'[y].wrote
                      /\ \A x \in DOMAIN stream'[y].pipeOut :
                            stream'[y].pipeOut[x] = <<stream'[y].serial, Sent1(y)' + x>>
    BY DEF PipesOut
  <2>3. CASE y = n
    BY <2>1, <2>2, <2>3
  <2>4. CASE y = p
    <3>1. stream[p] # None /\ stream'[y] = stream[p] /\ Sent1(y)' = Sent1(p)
      BY <1>8, <2>1, <2>4
    <3> QED
      BY <1>1, <3>1 DEF PipesOut
  <2> QED
    BY <1>0, <2>3, <2>4
<1>20. Asked' /\ Answered' /\ Connected' /\ Waits' /\ Accepted' /\ Over'
  <2>1. /\ n = Acc \/ chan'[Ini] = chan[Ini]
        /\ n = Ini \/ chan'[Acc] = chan[Acc]
        /\ n = Ini => chan[Acc] # <<>> /\ stream[Ini] # None /\ ~UnderWay(Acc, "CREATED")
        /\ n = Acc => chan[Ini] # <<>> /\ stream[Acc] # None
    BY <1>0, <1>1, <1>2, <1>4, <1>7 DEF Connected, Open
  <2>2. Asked'
    BY <1>0, <1>1, <1>8, <1>11, <2>1 DEF Asked
  <2>3. ~UnderWay(Acc, "CREATED")
    BY <1>0, <1>1, <2>1 DEF Answered, UnderWay
  <2>4. Answered'
    BY <1>0, <1>11, <2>3 DEF Answered, UnderWay
  <2>5. Connected' /\ Accepted' /\ Over'
    BY <1>0, <1>1, <1>8, <1>9, <1>11, <2>1 DEF Connected, Accepted, Over
  <2>6. Waits'
    BY <1>0, <1>1, <1>8, <1>9, <1>11, <2>1, <2>3 DEF Waits
  <2> QED
    BY <2>2, <2>4, <2>5, <2>6
<1>21. Flow'
  <2>1. NextIn(n)' = After(chan[p][1], NextIn(n))
    <3>1. 1 \in DOMAIN d
      <4>1. d # <<>>
        BY <1>16 DEF Run
      <4> QED
        BY <1>3, <4>1, TailIs
    <3>2. d[1] = <<Sender(n), NextIn(n) + 1 - 1>>
      BY <1>16, <3>1 DEF Run
    <3>3. NextIn(n) = Len(s.got) + Len(s.pipeIn) + 1
      BY <1>7 DEF NextIn
    <3>4. After(chan[p][1], NextIn(n)) = (NextIn(n) + 1 - 1) + Len(d)
      BY <1>7, <3>2 DEF After
    <3>5. NextIn(n)' = Len(s.got) + (Len(s.pipeIn) + Len(d)) + 1
      BY <1>6, <1>8, <1>17 DEF NextIn
    <3> DEFINE a == Len(s.got)
               b == Len(s.pipeIn)
               c == Len(d)
    <3>6. a \in Nat /\ b \in Nat /\ c \in Nat
      BY <1>17
    <3>7. /\ After(chan[p][1], NextIn(n)) = ((a + b + 1) + 1 - 1) + c
          /\ NextIn(n)' = a + (b + c) + 1
      BY <3>3, <3>4, <3>5
    <3> HIDE DEF a, b, c
    <3>8. a + (b + c) + 1 = ((a + b + 1) + 1 - 1) + c
      BY <3>6
    <3> QED
      BY <3>7, <3>8
  <2>2. /\ Sender(n)' = Sender(n) /\ Sent1(n)' = Sent1(n) /\ Sent1(p)' = Sent1(p)
        /\ stream[p] # None => Sender(p)' = Sender(p) /\ NextIn(p)' = NextIn(p)
    BY <1>0, <1>6, <1>7, <1>8 DEF Sender, Sent1, NextIn
  <2>3. /\ Chain(chan'[p], Sender(n), NextIn(n)')
        /\ stream[p] # None =>
             /\ Expected(chan'[p], Len(chan'[p]) + 1, NextIn(n)') = Sent1(p) + 1
             /\ Covers(chan'[p], stream[p].serial, NextIn(n)', Sent1(p))
    BY <1>1, <1>7, <2>1, FlowTaken
  <2>4. stream[p] # None =>
          /\ Chain(chan[n], Sender(p), NextIn(p))
          /\ Expected(chan[n], Len(chan[n]) + 1, NextIn(p)) = Sent1(n) + 1
          /\ Covers(chan[n], s.serial, NextIn(p), Sent1(n))
    BY <1>0, <1>1, <1>7 DEF Flow
  <2> SUFFICES ASSUME NEW x \in Peer, stream'[x] # None
               PROVE  /\ Chain(chan'[Other(x)], Sender(x)', NextIn(x)')
                      /\ stream'[Other(x)] # None =>
                           /\ Expected(chan'[Other(x)], Len(chan'[Other(x)]) + 1, NextIn(x)')
                                 = Sent1(Other(x))' + 1
                           /\ Covers(chan'[Other(x)], stream'[Other(x)].serial,
                                     NextIn(x)', Sent1(Other(x))')
    BY DEF Flow
  <2>5. CASE x = n
    <3>1. Other(x) = p /\ stream'[p] = stream[p]
      BY <1>8, <2>5
    <3> QED
      BY <2>2, <2>3, <2>5, <3>1
  <2>6. CASE x = p
    <3>1. Other(x) = n /\ stream[p] # None /\ stream'[n].serial = s.serial /\ chan'[n] = chan[n]
      BY <1>0, <1>6, <1>8, <2>6
    <3> QED
      BY <2>2, <2>4, <2>6, <3>1
  <2> QED
    BY <1>0, <2>5, <2>6
<1> QED
  BY <1>2, <1>12, <1>13, <1>14, <1>15, <1>18, <1>19, <1>20, <1>21 DEF IInv, Base, Link

\* The receiver of a command changes what its handler does.
LEMMA HandledIs ==
    ASSUME Usage, Base, reset = {}, NEW n \in Peer, n \in up, wild = "none", chan[Other(n)] # <<>>,
           NEW h, Commit(n, h),
           chan' = [chan EXCEPT ![Other(n)] = Tail(@), ![n] = @ \o Sent(n, h, known \cup {n})],
           known' = known \cup {n}, UNCHANGED <<up, reset, lost>>,
           h.s \in Record \cup {None}, h.made \in 0..MaxCreate * Cardinality(MayCreate),
           h.queued \subseteq 1..h.made, h.given \subseteq 1..h.made, h.ended \in Ends, h.wild = "none",
           NEW m \in Message, h.out = <<>> \/ h.out = Append(<<>>, m)
    PROVE  /\ TypeOK' /\ Keeps(Other(n)) /\ Has5(n, h.s, h.queued, h.made, h.ended, h.given)
           /\ Taken(n) /\ wild' = wild
           /\ h.out = <<>> => chan'[n] = chan[n]
           /\ h.out = Append(<<>>, m) =>
                 chan'[n] = IF Other(n) \in up THEN Append(chan[n], m) ELSE chan[n]
<1> DEFINE p == Other(n)
<1>0. p \in Peer /\ p # n
  BY OtherIs
<1>1. /\ TypeOK /\ chan \in [Peer -> Seq(Message)] /\ chan[n] \in Seq(Message)
      /\ chan[p] \in Seq(Message) /\ Append(chan[n], m) \in Seq(Message)
      /\ up \subseteq Peer /\ known \subseteq Peer /\ reset \subseteq Peer /\ lost \in 0..MaxLost
  BY <1>0, TypesOf DEF Base, TypeOK
<1>2. Tail(chan[p]) \in Seq(Message)
  BY <1>1, TailIs
<1>3. /\ h.out = <<>> => chan[n] \o Sent(n, h, known \cup {n}) = chan[n]
      /\ h.out = Append(<<>>, m) =>
            chan[n] \o Sent(n, h, known \cup {n}) = IF p \in up THEN Append(chan[n], m) ELSE chan[n]
  <2>1. chan[n] \o Append(<<>>, m) = Append(chan[n], m) /\ chan[n] \o <<>> = chan[n]
    BY <1>1, ConcatOne
  <2> QED
    BY <2>1 DEF Sent
<1>4. chan[n] \o Sent(n, h, known \cup {n}) \in Seq(Message)
  BY <1>1, <1>3
<1>5. /\ chan' \in [Peer -> Seq(Message)] /\ chan'[p] = Tail(chan[p])
      /\ chan'[n] = chan[n] \o Sent(n, h, known \cup {n})
  <2> DEFINE a == chan[n] \o Sent(n, h, known \cup {n})
             b == Tail(chan[p])
  <2>1. chan' = [chan EXCEPT ![p] = b, ![n] = a] /\ a \in Seq(Message) /\ b \in Seq(Message)
    BY <1>0, <1>1, <1>2, <1>4
  <2> HIDE DEF a, b
  <2>2. chan' \in [Peer -> Seq(Message)] /\ chan'[p] = b /\ chan'[n] = a
    BY <1>0, <1>1, <2>1
  <2> QED
    BY <2>2 DEF a, b
<1>6. /\ wild' = "none" /\ up' \subseteq Peer /\ known' \subseteq Peer /\ reset' \subseteq Peer
      /\ lost' \in 0..MaxLost
  BY <1>1 DEF Commit
<1>7. TypeOK' /\ Keeps(p) /\ Has5(n, h.s, h.queued, h.made, h.ended, h.given)
  BY <1>1, <1>5, <1>6, Committed
<1> QED
  BY <1>3, <1>5, <1>6, <1>7 DEF Taken

\* cmd_stream_cb: a command arrives.
LEMMA DeliverKeeps ==
    ASSUME Usage, IInv, NEW n \in Peer, Deliver(n)
    PROVE  IInv'
<1> DEFINE p == Other(n)
           m == chan[p][1]
           s == stream[n]
<1>0. /\ p \in Peer /\ p # n /\ Other(p) = n
      /\ Ini \in Peer /\ Acc \in Peer /\ Acc # Ini /\ Other(Ini) = Acc /\ Other(Acc) = Ini
      /\ \A x \in Peer : x = Ini \/ x = Acc
  BY OtherIs, SidesAre
<1>1. /\ n \in up /\ wild = "none" /\ reset = {} /\ chan[p] # <<>>
      /\ Base /\ TypeOK /\ Peers /\ Records /\ Shapes /\ Counts /\ Sends /\ Link
      /\ Asked /\ Answered
  BY DEF Deliver, Running, IInv, Base, Link
<1>2. /\ chan[p] \in Seq(Message) /\ 1 \in DOMAIN chan[p] /\ Head(chan[p]) = m /\ m \in Message
  <2>1. chan[p] \in Seq(Message)
    BY <1>0, <1>1, TypesOf
  <2> QED
    BY <1>1, <2>1, TailIs
<1>3. PICK h \in {Process(Start(n), m)} \cup (IF m.cmd = "CREATE" THEN {Start(n)} ELSE {}) :
         /\ chan' = [chan EXCEPT ![p] = Tail(@), ![n] = @ \o Sent(n, h, known \cup {n})]
         /\ Commit(n, h)
  BY <1>2 DEF Deliver
<1>4. known' = known \cup {n} /\ UNCHANGED <<up, reset, lost>>
  BY DEF Deliver
<1>5. /\ s # None => s \in Record
      /\ s \in Record \cup {None}
      /\ made[n] \in 0..MaxCreate * Cardinality(MayCreate) /\ made[n] \in Nat
      /\ queued[n] \subseteq 1..made[n] /\ given[n] \subseteq 1..made[n] /\ ended[n] \in Ends
      /\ stream \in [Peer -> Record \cup {None}] /\ queued \in [Peer -> SUBSET Nat]
      /\ made \in [Peer -> 0..MaxCreate * Cardinality(MayCreate)]
      /\ ended \in [Peer -> Ends] /\ given \in [Peer -> SUBSET Nat]
  BY <1>1, TypesOf DEF TypeOK, Ends
<1>6. /\ m.cmd \in {"CREATE", "CREATED", "DATA", "CLOSE"} /\ m.serial \in Nat
      /\ m.data \in Seq(Nat \X Nat)
  BY <1>2 DEF Message, Cmd
<1>7. /\ m.cmd = "CREATE" => n = Acc /\ p = Ini /\ stream[Acc] = None
      /\ m.cmd = "CREATED" => n = Ini /\ p = Acc
  BY <1>0, <1>1, <1>2 DEF Shapes, Asked, UnderWay
<1> HIDE DEF m, s, p
<1>8. CASE h = Start(n) /\ s = None
  <2>1. /\ h.s = stream[n] /\ h.queued = queued[n] /\ h.made = made[n] /\ h.ended = ended[n]
        /\ h.given = given[n] /\ h.wild = "none" /\ h.out = <<>>
    BY <1>1, <1>8 DEF Start
  <2>2. h.s \in Record \cup {None}
    BY <1>5, <2>1 DEF s
  <2> HIDE DEF Start
  <2>3. TypeOK' /\ Taken(n) /\ chan'[n] = chan[n] /\ wild' = wild
    BY <1>1, <1>2, <1>3, <1>4, <1>5, <2>1, <2>2, HandledIs DEF p
  <2>4. UNCHANGED <<stream, queued, made, ended, given>>
    <3>1. /\ stream' = [stream EXCEPT ![n] = stream[n]] /\ queued' = [queued EXCEPT ![n] = queued[n]]
          /\ made' = [made EXCEPT ![n] = made[n]] /\ ended' = [ended EXCEPT ![n] = ended[n]]
          /\ given' = [given EXCEPT ![n] = given[n]]
      BY <1>3, <2>1 DEF Commit
    <3> QED
      BY <1>5, <3>1
  <2>5. stream[n] = None
    BY <1>8 DEF s
  <2> QED
    BY <1>1, <1>4, <2>3, <2>4, <2>5, DropKeeps
<1>9. CASE h = Process(Start(n), m) /\ m.cmd = "CREATE"
  <2> DEFINE c == Msg("CREATED", made[Acc] + 1, <<>>)
             t == Fresh(Acc, FALSE, made[Ini])
  <2>1. n = Acc /\ p = Ini /\ stream[Acc] = None /\ UnderWay(Ini, "CREATE") /\ m.serial = made[Ini]
    BY <1>1, <1>2, <1>7, <1>9 DEF UnderWay, Sends, m
  <2>2. made[Ini] \in Nat /\ made[Acc] + 1 \in 0..MaxCreate /\ made[Acc] + 1 \in Nat /\ made[Acc] \in Nat
    <3>1. made[Ini] \in Nat /\ made[Acc] \in Nat /\ MaxCreate \in Nat
      BY <1>0, <1>1, TypesOf, StreamAssumption
    <3> QED
      BY <1>1, <2>1, <3>1 DEF Counts
  <2>3. h = CreateGot(Start(n), m)
    BY <1>9 DEF Process
  <2>4. /\ h.s = t /\ h.queued = queued[Acc] /\ h.made = made[Acc] + 1 /\ h.ended = ended[Acc]
        /\ h.given = given[Acc] /\ h.wild = "none" /\ h.out = Append(<<>>, c)
    BY <1>1, <2>1, <2>3 DEF CreateGot, NewRecord, Start, Fresh
  <2>5. t \in Record
    BY <1>0, <1>1, <2>2, FreshIs
  <2>6. c \in Message /\ c.cmd = "CREATED" /\ c.serial = made[Acc] + 1
    <3>1. <<>> \in Seq(Nat \X Nat)
      OBVIOUS
    <3> QED
      BY <2>2, <3>1 DEF Msg, Message, Cmd
  <2> HIDE DEF c, t
  <2>7. /\ h.s \in Record \cup {None} /\ h.made \in 0..MaxCreate * Cardinality(MayCreate)
        /\ h.queued \subseteq 1..h.made /\ h.given \subseteq 1..h.made /\ h.ended \in Ends
    <3>1. 1..made[Acc] \subseteq 1..(made[Acc] + 1)
      BY <2>2
    <3> QED
      BY <1>5, <2>1, <2>2, <2>4, <2>5, <3>1, BoundIs
  <2>8. /\ TypeOK' /\ Keeps(Other(n)) /\ Has5(n, h.s, h.queued, h.made, h.ended, h.given)
        /\ Taken(n) /\ wild' = wild
        /\ chan'[n] = IF Other(n) \in up THEN Append(chan[n], c) ELSE chan[n]
    BY <1>1, <1>3, <1>4, <2>4, <2>6, <2>7, HandledIs DEF p
  <2>9. /\ Keeps(Ini) /\ stream'[Acc] = Fresh(Acc, FALSE, made[Ini]) /\ queued'[Acc] = queued[Acc]
        /\ made'[Acc] = made[Acc] + 1 /\ Taken(Acc)
        /\ chan'[Acc] = IF Ini \in up THEN Append(chan[Acc], c) ELSE chan[Acc]
        /\ chan[Ini][1].cmd = "CREATE" /\ Acc \in up /\ known' = known \cup {Acc}
    BY <1>0, <1>1, <1>4, <1>9, <2>1, <2>4, <2>8 DEF Has5, t, m
  <2> QED
    BY <1>1, <1>4, <2>6, <2>8, <2>9, CreateGotKeeps
<1>10. CASE h = Process(Start(n), m) /\ m.cmd = "CREATED" /\ s # None
  <2> DEFINE t == [stream[Ini] EXCEPT !.created = TRUE, !.with = made[Acc]]
  <2>1. n = Ini /\ p = Acc /\ stream[Ini] # None /\ stream[Ini] \in Record
    BY <1>5, <1>7, <1>10 DEF s
  <2>2. /\ Pending(Ini) /\ m.serial = made[Acc]
    BY <1>1, <1>2, <1>10, <2>1 DEF Answered, GivenUp, m
  <2>3. stream[Ini].serial \in queued[Ini] /\ stream[Ini].serial \in Nat
    BY <1>1, <2>1, <2>2, RecordIs DEF Records, Pending
  <2>4. h = Created(Start(n), m)
    BY <1>10 DEF Process
  <2>5. /\ h.s = t /\ h.queued = queued[Ini] \ {stream[Ini].serial} /\ h.made = made[Ini]
        /\ h.ended = ended[Ini] /\ h.given = given[Ini] /\ h.wild = "none" /\ h.out = <<>>
    BY <1>1, <2>1, <2>2, <2>3, <2>4 DEF Created, Start
  <2>6. t \in Record
    <3>1. made[Acc] \in Nat /\ TRUE \in BOOLEAN
      BY <1>0, <1>1, TypesOf
    <3> QED
      BY <2>1, <3>1 DEF Record
  <2>7. t = [stream[Ini] EXCEPT !.created = TRUE, !.with = made[Acc]]
    OBVIOUS
  <2> HIDE DEF t
  <2>8. /\ h.s \in Record \cup {None} /\ h.made \in 0..MaxCreate * Cardinality(MayCreate)
        /\ h.queued \subseteq 1..h.made /\ h.given \subseteq 1..h.made /\ h.ended \in Ends
    BY <1>5, <2>1, <2>5, <2>6
  <2>9. /\ TypeOK' /\ Keeps(Other(n)) /\ Has5(n, h.s, h.queued, h.made, h.ended, h.given)
        /\ Taken(n) /\ wild' = wild /\ chan'[n] = chan[n]
    BY <1>1, <1>2, <1>3, <1>4, <2>5, <2>8, HandledIs DEF p
  <2>10. /\ Keeps(Acc) /\ stream'[Ini] = t /\ queued'[Ini] = queued[Ini] \ {stream[Ini].serial}
         /\ made'[Ini] = made[Ini] /\ Taken(Ini) /\ chan'[Ini] = chan[Ini] /\ Ini \in up
         /\ chan[Acc][1].cmd = "CREATED" /\ known' = known \cup {Ini}
    BY <1>0, <1>1, <1>4, <1>10, <2>1, <2>5, <2>9 DEF Has5, m
  <2> QED
    BY <1>1, <1>4, <2>2, <2>6, <2>7, <2>9, <2>10, CreatedKeeps
<1>11. CASE h = Process(Start(n), m) /\ m.cmd = "CLOSE" /\ s # None
  <2>1. h = Close(Start(n), "closed")
    BY <1>11 DEF Process
  <2>2. /\ h.s = None /\ h.queued = queued[n] /\ h.made = made[n] /\ h.ended = "closed"
        /\ h.given = GivenAfter(n) /\ h.wild = "none" /\ h.out = <<>>
    BY <1>1, <1>11, <2>1 DEF Close, Start, GivenAfter, s
  <2>3. stream[n] # None /\ GivenAfter(n) \subseteq 1..made[n]
    BY <1>1, <1>11, SerialIs DEF s
  <2>4. /\ h.s \in Record \cup {None} /\ h.made \in 0..MaxCreate * Cardinality(MayCreate)
        /\ h.queued \subseteq 1..h.made /\ h.given \subseteq 1..h.made /\ h.ended \in Ends
    BY <1>5, <2>2, <2>3 DEF Ends
  <2>5. /\ TypeOK' /\ Keeps(Other(n)) /\ Has5(n, h.s, h.queued, h.made, h.ended, h.given)
        /\ Taken(n) /\ wild' = wild /\ chan'[n] = chan[n]
    BY <1>1, <1>2, <1>3, <1>4, <2>2, <2>4, HandledIs DEF p
  <2>6. /\ stream'[n] = None /\ queued'[n] = queued[n] /\ made'[n] = made[n]
        /\ chan[Other(n)][1].cmd = "CLOSE"
    BY <1>11, <2>2, <2>5 DEF Has5, m, p
  <2> QED
    BY <1>1, <1>4, <2>3, <2>5, <2>6, ClosedKeeps
<1>12. CASE h = Process(Start(n), m) /\ m.cmd = "DATA" /\ s # None
  <2> DEFINE t == [s EXCEPT !.pipeIn = s.pipeIn \o m.data]
  <2>1. h = Data(Start(n), m)
    BY <1>12 DEF Process
  <2>2. s \in Record /\ s = stream[n]
    BY <1>5, <1>12 DEF s
  <2>3. /\ h.s = t /\ h.queued = queued[n] /\ h.made = made[n] /\ h.ended = ended[n]
        /\ h.given = given[n] /\ h.wild = "none" /\ h.out = <<>>
    BY <1>1, <1>12, <2>1, <2>2 DEF Data, Start
  <2>4. s.pipeIn \o m.data \in Seq(Nat \X Nat)
    BY <1>6, <2>2, RecordIs, ConcatIs
  <2>5. t \in Record
    BY <2>2, <2>4 DEF Record
  <2>6. /\ t.serial = s.serial /\ t.created = s.created /\ t.initiator = s.initiator
        /\ t.with = s.with /\ t.got = s.got /\ t.pipeIn = s.pipeIn \o m.data
        /\ t.pipeOut = s.pipeOut /\ t.wrote = s.wrote
    BY <2>2 DEF Record
  <2> HIDE DEF t
  <2>7. /\ h.s \in Record \cup {None} /\ h.made \in 0..MaxCreate * Cardinality(MayCreate)
        /\ h.queued \subseteq 1..h.made /\ h.given \subseteq 1..h.made /\ h.ended \in Ends
    BY <1>5, <2>3, <2>5
  <2>8. /\ TypeOK' /\ Keeps(Other(n)) /\ Has5(n, h.s, h.queued, h.made, h.ended, h.given)
        /\ Taken(n) /\ wild' = wild /\ chan'[n] = chan[n]
    BY <1>1, <1>2, <1>3, <1>4, <2>3, <2>7, HandledIs DEF p
  <2>9. /\ stream'[n] = t /\ queued'[n] = queued[n] /\ made'[n] = made[n] /\ ended'[n] = ended[n]
        /\ given'[n] = given[n] /\ Keeps(p)
    BY <2>3, <2>8 DEF Has5, p
  <2>10. /\ p = Other(n) /\ chan[p][1].cmd = "DATA" /\ chan[p][1].data = m.data
         /\ stream[n] # None
    BY <1>12, <2>2 DEF p, m
  <2>11. /\ t.serial = stream[n].serial /\ t.created = stream[n].created
         /\ t.initiator = stream[n].initiator /\ t.with = stream[n].with /\ t.got = stream[n].got
         /\ t.pipeIn = stream[n].pipeIn \o chan[p][1].data /\ t.pipeOut = stream[n].pipeOut
         /\ t.wrote = stream[n].wrote
    BY <2>2, <2>6, <2>10
  <2> QED
    BY <1>0, <1>1, <1>4, <2>5, <2>8, <2>9, <2>10, <2>11, DataKeeps
<1>13. CASE h = Process(Start(n), m) /\ m.cmd # "CREATE" /\ s = None
  <2>1. h = Start(n)
    BY <1>6, <1>13 DEF Process, Created, Close, Data, Start, s
  <2> QED
    BY <1>8, <1>13, <2>1
<1>14. \/ h = Process(Start(n), m)
       \/ h = Start(n) /\ m.cmd = "CREATE"
  BY <1>3
<1>15. m.cmd = "CREATE" => s = None
  BY <1>7 DEF s
<1> QED
  BY <1>6, <1>8, <1>9, <1>10, <1>11, <1>12, <1>13, <1>14, <1>15

-----------------------------------------------------------------------------
(* Every state satisfies the invariant.                                    *)

\* At first nothing was sent and there are no records.
LEMMA InitHolds ==
    ASSUME Usage, Init
    PROVE  IInv
<1>0. /\ Ini \in Peer /\ Acc \in Peer /\ Acc # Ini /\ Other(Ini) = Acc /\ Other(Acc) = Ini
      /\ \A x \in Peer : x = Ini \/ x = Acc
      /\ \A x \in Peer : Other(x) \in Peer
  BY SidesAre, OtherIs
<1>1. /\ up = Peer /\ known = Peer /\ reset = {} /\ lost = 0 /\ wild = "none"
      /\ \A n \in Peer : /\ stream[n] = None /\ chan[n] = <<>> /\ queued[n] = {} /\ given[n] = {}
                         /\ made[n] = 0 /\ ended[n] = "never"
  BY DEF Init
<1>2. DOMAIN <<>> = {}
  OBVIOUS
<1>3. MaxCreate \in Nat /\ MaxCreate * Cardinality(MayCreate) = MaxCreate
  BY BoundIs
<1>4. TypeOK
  <2>1. 0 \in 0..MaxCreate * Cardinality(MayCreate) /\ 0 \in 0..MaxLost
    BY <1>3, StreamAssumption
  <2>2. <<>> \in Seq(Message)
    OBVIOUS
  <2>3. /\ stream \in [Peer -> Record \cup {None}] /\ chan \in [Peer -> Seq(Message)]
        /\ queued \in [Peer -> SUBSET Nat] /\ given \in [Peer -> SUBSET Nat]
        /\ made \in [Peer -> 0..MaxCreate * Cardinality(MayCreate)]
        /\ ended \in [Peer -> {"never", "own", "closed", "lost", "timeout"}]
    BY <2>1, <2>2 DEF Init
  <2> QED
    BY <1>1, <2>1, <2>3 DEF TypeOK
<1>5. \A n \in Peer : ~Open(n) /\ ~Pending(n) /\ \A c : ~UnderWay(n, c)
  BY <1>1, <1>2 DEF Open, Pending, UnderWay
<1>6. Peers /\ Records /\ Shapes /\ Counts /\ Sends
  BY <1>0, <1>1, <1>2, <1>3, <1>5 DEF Peers, Records, Shapes, Counts, Sends
<1>7. PipesIn /\ PipesOut /\ Flow
  BY <1>1 DEF PipesIn, PipesOut, Flow
<1>8. Asked /\ Answered /\ Connected /\ Waits /\ Accepted /\ Over
  BY <1>0, <1>1, <1>2, <1>5 DEF Asked, Answered, Connected, Waits, Accepted, Over
<1> QED
  BY <1>4, <1>6, <1>7, <1>8 DEF IInv, Base, Link

\* What does not change stays as it is.
LEMMA StutterKeeps ==
    ASSUME IInv, UNCHANGED vars
    PROVE  IInv'
<1>1. /\ up' = up /\ known' = known /\ stream' = stream /\ queued' = queued /\ chan' = chan
      /\ reset' = reset /\ made' = made /\ ended' = ended /\ given' = given /\ lost' = lost
      /\ wild' = wild
  BY DEF vars
<1>2. Base' <=> Base
  <2>1. TypeOK' <=> TypeOK
    BY <1>1 DEF TypeOK
  <2>2. (Peers' <=> Peers) /\ (Records' <=> Records) /\ (Shapes' <=> Shapes) /\ (Counts' <=> Counts)
    BY <1>1 DEF Peers, Records, Shapes, Counts, Open, UnderWay
  <2>3. (Sends' <=> Sends) /\ (PipesIn' <=> PipesIn) /\ (PipesOut' <=> PipesOut)
    BY <1>1 DEF Sends, PipesIn, PipesOut, Pending, GivenUp, UnderWay, Sent1
  <2> QED
    BY <2>1, <2>2, <2>3 DEF Base
<1>3. Link' <=> Link
  <2>1. /\ (Asked' <=> Asked) /\ (Answered' <=> Answered) /\ (Connected' <=> Connected)
        /\ (Waits' <=> Waits) /\ (Accepted' <=> Accepted) /\ (Over' <=> Over)
    BY <1>1 DEF Asked, Answered, Connected, Waits, Accepted, Over, Open, Pending, GivenUp, UnderWay
  <2>2. Flow' <=> Flow
    BY <1>1 DEF Flow, NextIn, Sender, Sent1
  <2> QED
    BY <2>1, <2>2 DEF Link
<1> QED
  BY <1>1, <1>2, <1>3 DEF IInv

\* Every step keeps it.
LEMMA NextKeeps ==
    ASSUME Usage, IInv, [Next]_vars
    PROVE  IInv'
<1>1. CASE UNCHANGED vars
  BY <1>1, StutterKeeps
<1>2. CASE Next
  <2>1. PICK n \in Peer : \/ AppCreate(n) \/ AppClose(n) \/ AppWrite(n) \/ StreamOutCb(n)
                          \/ StreamInCb(n) \/ ConnectCb(n) \/ Deliver(n) \/ LosePeer(n)
                          \/ NoticeReset(n) \/ Meet(n) \/ Stop(n) \/ Crash(n)
    BY <1>2 DEF Next
  <2>2. AppCreate(n) => IInv'
    BY AppCreateKeeps
  <2>3. AppClose(n) => IInv'
    BY AppCloseKeeps
  <2>4. AppWrite(n) => IInv'
    BY AppWriteKeeps
  <2>5. StreamOutCb(n) => IInv'
    BY StreamOutCbKeeps
  <2>6. StreamInCb(n) => IInv'
    BY StreamInCbKeeps
  <2>7. ConnectCb(n) => IInv'
    BY ConnectCbKeeps
  <2>8. Deliver(n) => IInv'
    BY DeliverKeeps
  <2>9. LosePeer(n) => IInv'
    BY LosePeerKeeps
  <2>10. NoticeReset(n) => IInv'
    BY NoticeResetKeeps
  <2>11. Meet(n) => IInv'
    BY MeetKeeps
  <2>12. Stop(n) => IInv'
    BY StopKeeps
  <2>13. Crash(n) => IInv'
    BY CrashKeeps
  <2> QED
    BY <2>1, <2>2, <2>3, <2>4, <2>5, <2>6, <2>7, <2>8, <2>9, <2>10, <2>11, <2>12, <2>13
<1> QED
  BY <1>1, <1>2

\* The invariant holds in every state.
LEMMA AlwaysIInv ==
    ASSUME Usage
    PROVE  Spec => []IInv
<1>1. Init => IInv
  BY InitHolds
<1>2. IInv /\ [Next]_vars => IInv'
  BY NextKeeps
<1> QED
  BY <1>1, <1>2, PTL DEF Spec

-----------------------------------------------------------------------------
(* What the invariant says of the streams.                                 *)

\* What was read, and what can be read, is what was written, in order.
LEMMA PipesInOrder ==
    ASSUME TypeOK, PipesIn
    PROVE  DataInOrder
<1> SUFFICES ASSUME NEW n \in Peer, stream[n] # None,
                    NEW i \in DOMAIN (stream[n].got \o stream[n].pipeIn)
             PROVE  (stream[n].got \o stream[n].pipeIn)[i] = <<stream[n].with, i>>
  BY DEF DataInOrder
<1> DEFINE u == stream[n].got
           v == stream[n].pipeIn
           w == stream[n].with
<1>1. u \in Seq(Nat \X Nat) /\ v \in Seq(Nat \X Nat)
  BY TypesOf DEF Record
<1>2. /\ \A k \in DOMAIN u : u[k] = <<w, k>>
      /\ \A k \in DOMAIN v : v[k] = <<w, Len(u) + k>>
  BY DEF PipesIn
<1>3. i \in DOMAIN (u \o v)
  OBVIOUS
<1> HIDE DEF u, v, w
<1>4. /\ Len(u) \in Nat /\ Len(v) \in Nat /\ DOMAIN (u \o v) = 1..(Len(u) + Len(v))
      /\ \A k \in DOMAIN u : (u \o v)[k] = u[k]
      /\ i \in DOMAIN u \/ (i - Len(u) \in DOMAIN v /\ (u \o v)[i] = v[i - Len(u)])
  BY <1>1, <1>3, ConcatIs
<1>5. Len(u) + (i - Len(u)) = i
  <2>1. \A k, l \in Nat : \A j \in 1..(k + l) : k + (j - k) = j
    OBVIOUS
  <2> QED
    BY <1>3, <1>4, <2>1
<1>6. (u \o v)[i] = <<w, i>>
  BY <1>2, <1>4, <1>5
<1> QED
  BY <1>6 DEF u, v, w

\* Neither end believes in a stream that the other does not have.
LEMMA EndsFit ==
    ASSUME Usage, IInv
    PROVE  EndsAgree
<1>0. /\ Ini \in Peer /\ Acc \in Peer /\ Acc # Ini /\ Other(Ini) = Acc /\ Other(Acc) = Ini
      /\ \A x \in Peer : x = Ini \/ x = Acc
  BY SidesAre
<1>1. /\ Base /\ TypeOK /\ Records /\ Peers
      /\ reset = {} => Connected /\ Accepted /\ Answered
  BY DEF IInv, Base, Link
<1>2. InitiatorAgrees
  <2> SUFFICES ASSUME NEW n \in Peer, Open(n), stream[n].initiator, ~Broken
               PROVE  Paired(n) \/ UnderWay(Other(n), "CLOSE")
    BY DEF InitiatorAgrees
  <2>1. n = Ini /\ reset = {} /\ up = Peer
    BY <1>0, <1>1 DEF Broken, Records, Open
  <2>2. stream[Ini].with = made[Acc] /\ (stream[Acc] = None => UnderWay(Acc, "CLOSE"))
        /\ ~UnderWay(Acc, "CREATED")
    BY <1>0, <1>1, <2>1 DEF Connected
  <2>3. CASE stream[Acc] # None
    <3>1. Open(Acc) /\ stream[Acc].serial = made[Acc] /\ stream[Ini].serial = made[Ini]
      BY <1>1, <2>1, <2>3 DEF Records, Open
    <3>2. stream[Acc].with = made[Ini]
      BY <1>1, <2>1, <2>3 DEF Accepted
    <3> QED
      BY <1>0, <2>1, <2>2, <3>1, <3>2 DEF Paired
  <2> QED
    BY <1>0, <2>1, <2>2, <2>3
<1>3. AcceptorAgrees
  <2> SUFFICES ASSUME NEW n \in Peer, Open(n), ~stream[n].initiator, ~Broken
               PROVE  \/ Paired(n)
                      \/ /\ Pending(Other(n)) /\ stream[Other(n)].serial = stream[n].with
                         /\ UnderWay(n, "CREATED")
                      \/ UnderWay(Other(n), "CLOSE")
                      \/ stream[n].with \in given[Other(n)]
    BY DEF AcceptorAgrees
  <2>1. n = Acc /\ reset = {} /\ up = Peer /\ stream[Acc] # None
    BY <1>0, <1>1 DEF Broken, Records, Open
  <2>2. /\ stream[Acc].with = made[Ini]
        /\ \/ Open(Ini) \/ UnderWay(Acc, "CREATED")
           \/ stream[Ini] = None /\ (UnderWay(Ini, "CLOSE") \/ GivenUp)
    BY <1>1, <2>1 DEF Accepted
  <2>3. stream[Acc].serial = made[Acc]
    BY <1>1, <2>1 DEF Records
  <2>4. CASE Open(Ini)
    <3>1. stream[Ini].with = made[Acc] /\ stream[Ini].serial = made[Ini]
      BY <1>1, <2>1, <2>4 DEF Connected, Records, Open
    <3> QED
      BY <1>0, <2>1, <2>2, <2>3, <2>4, <3>1 DEF Paired
  <2>5. CASE GivenUp
    BY <1>0, <2>1, <2>2, <2>5 DEF GivenUp
  <2>6. CASE UnderWay(Acc, "CREATED")
    <3>1. Pending(Ini) \/ GivenUp
      BY <1>1, <2>1, <2>6 DEF Answered, UnderWay
    <3>2. Pending(Ini) => stream[Ini].serial = made[Ini]
      BY <1>1 DEF Records, Pending
    <3> QED
      BY <1>0, <2>1, <2>2, <2>5, <2>6, <3>1, <3>2
  <2> QED
    BY <1>0, <2>1, <2>2, <2>4, <2>5, <2>6
<1> QED
  BY <1>2, <1>3 DEF EndsAgree

\* What was written and not read is in a pipe or on its way.
LEMMA ChunksKept ==
    ASSUME Usage, IInv
    PROVE  NothingLost
<1> SUFFICES ASSUME NEW n \in Peer, Paired(n), ~Broken, NEW i \in 1..stream[Other(n)].wrote
             PROVE  LET p == Other(n)
                        chunk == <<stream[p].serial, i>>
                    IN  \/ Has(stream[n].got, chunk) \/ Has(stream[n].pipeIn, chunk)
                        \/ \E j \in DOMAIN chan[p] : Has(chan[p][j].data, chunk)
                        \/ Has(stream[p].pipeOut, chunk)
  BY DEF NothingLost
<1> DEFINE p == Other(n)
           s == stream[n].with
           g == stream[n].got
           v == stream[n].pipeIn
           o == stream[p].pipeOut
           w == stream[p].wrote
           a == Len(g)
           b == Len(v)
           c == Len(o)
<1>0. p \in Peer /\ p # n
  BY OtherIs
<1>1. /\ TypeOK /\ PipesIn /\ PipesOut /\ Flow /\ stream[n] # None /\ stream[p] # None
      /\ stream[p].serial = s
  BY DEF IInv, Base, Link, Broken, Paired, Open
<1>2. /\ stream[n] \in Record /\ stream[p] \in Record
  BY <1>0, <1>1, TypesOf
<1>3. /\ g \in Seq(Nat \X Nat) /\ v \in Seq(Nat \X Nat) /\ o \in Seq(Nat \X Nat) /\ w \in Nat
      /\ s \in Nat
  BY <1>2 DEF Record
<1>4. /\ \A k \in DOMAIN g : g[k] = <<s, k>>
      /\ \A k \in DOMAIN v : v[k] = <<s, a + k>>
  BY <1>1 DEF PipesIn
<1>5. /\ c <= w
      /\ \A x \in DOMAIN o : o[x] = <<s, (w - c) + x>>
  BY <1>0, <1>1 DEF PipesOut, Sent1
<1>6. \A k \in (a + b + 1)..(w - c) : \E j \in DOMAIN chan[p] : Has(chan[p][j].data, <<s, k>>)
  BY <1>0, <1>1 DEF Flow, Covers, NextIn, Sent1
<1>7. i \in 1..w
  OBVIOUS
<1>8. /\ \/ Has(g, <<s, i>>) \/ Has(v, <<s, i>>)
         \/ \E j \in DOMAIN chan[p] : Has(chan[p][j].data, <<s, i>>)
         \/ Has(o, <<s, i>>)
  <2>1. /\ a \in Nat /\ b \in Nat /\ c \in Nat
        /\ DOMAIN g = 1..a /\ DOMAIN v = 1..b /\ DOMAIN o = 1..c
    BY <1>3
  <2> HIDE DEF a, b, c, g, v, o, w, s, p
  <2>2. \/ i \in 1..a
        \/ i - a \in 1..b /\ a + (i - a) = i
        \/ i \in (a + b + 1)..(w - c)
        \/ i - (w - c) \in 1..c /\ (w - c) + (i - (w - c)) = i
    BY <1>3, <1>5, <1>7, <2>1
  <2>3. CASE i \in 1..a
    BY <1>4, <2>1, <2>3 DEF Has
  <2>4. CASE i - a \in 1..b /\ a + (i - a) = i
    BY <1>4, <2>1, <2>4 DEF Has
  <2>5. CASE i \in (a + b + 1)..(w - c)
    BY <1>6, <2>5
  <2>6. CASE i - (w - c) \in 1..c /\ (w - c) + (i - (w - c)) = i
    BY <1>5, <2>1, <2>6 DEF Has
  <2> QED
    BY <2>2, <2>3, <2>4, <2>5, <2>6
<1> QED
  BY <1>1, <1>8

-----------------------------------------------------------------------------
(* The results.                                                            *)

\* Every variable has its type, and the creating peer's count bounds the other's:
\* ksnStreamCreate and ksnStreamClose change a record, its callback and the
\* history together.
THEOREM StreamTypeOK ==
    ASSUME Usage
    PROVE  Spec => []TypeOK
<1>1. IInv => TypeOK
  BY DEF IInv, Base
<1> QED
  BY <1>1, AlwaysIInv, PTL

\* What stream_in_cb lets the application read is what the connected record was
\* given, from the first chunk on, with nothing missing or repeated: no CLOSE,
\* loss of the peer or new stream of the same name puts a chunk out of order.
THEOREM DataAlwaysInOrder ==
    ASSUME Usage
    PROVE  Spec => []DataInOrder
<1>1. IInv => DataInOrder
  BY PipesInOrder DEF IInv, Base
<1> QED
  BY <1>1, AlwaysIInv, PTL

\* Neither end keeps a stream that the other does not have, except as the
\* messages on their way, or an initiator that gave up, account for it
\* (ksnStreamCreate, ksnStreamClose, kq_connect_cb).
THEOREM EndsAlwaysAgree ==
    ASSUME Usage
    PROVE  Spec => []EndsAgree
<1>1. IInv => EndsAgree
  BY EndsFit
<1> QED
  BY <1>1, AlwaysIInv, PTL

\* Nothing that is written to one of two connected records is lost between
\* stream_out_cb and the input pipe of the other.
THEOREM ChunksNeverLost ==
    ASSUME Usage
    PROVE  Spec => []NothingLost
<1>1. IInv => NothingLost
  BY ChunksKept
<1> QED
  BY <1>1, AlwaysIInv, PTL

\* No record is freed under its watchers or its queue entry; the callback of a
\* stream that ended before it was connected is the only pointer left
\* (ksnStreamClose, kq_connect_cb).
THEOREM OnlyCallbacksLeft ==
    ASSUME Usage
    PROVE  Spec => []OnlyCallbacksDangle
<1>1. IInv => OnlyCallbacksDangle
  BY DEF IInv, Base, Records, OnlyCallbacksDangle
<1> QED
  BY <1>1, AlwaysIInv, PTL
=============================================================================
