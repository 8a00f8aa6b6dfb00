---------------------------- MODULE TunnelProofs ----------------------------
(***************************************************************************)
(* Theorems about Tunnel.  IInv says of every connection where its sockets *)
(* and commands are: CREATE, CREATED and NOT_CREATED come at their turn,   *)
(* chunks are in order, and both maps name the other's socket.  A step of  *)
(* one peer is shown to be a step of one connection (StepOf), that leaves  *)
(* all that holds of the others (StepKeeps), and so each action is looked  *)
(* at with one connection only.                                            *)
(***************************************************************************)
EXTENDS Tunnel, TLAPS, FiniteSetTheorems

\* p's descriptor f is a socket of connection c, and one that still waits.
Has(p, f, c) == f \in Fd /\ socket[p][f] # None /\ socket[p][f].conn = c

Waiting(p, f, c) == Has(p, f, c) /\ ~socket[p][f].watched /\ ~socket[p][f].shut

NoSocket(p, c) == \A f \in Fd : ~Has(p, f, c)

\* The i-th command for p is of connection c.
Of(p, i, c, cmd) == chan[p][i].conn = c /\ chan[p][i].cmd = cmd

Silent(p, c) == \A i \in DOMAIN chan[p] : chan[p][i].conn # c

\* Chunk n of c is on its way to p, or can be read at p.
Coming(p, c, n) == \E i \in DOMAIN chan[p] : Of(p, i, c, "DATA") /\ chan[p][i].chunk = n

Unread(p, c, n) ==
    \E f \in Fd : Has(p, f, c) /\ \E i \in DOMAIN socket[p][f].unread :
                                     socket[p][f].unread[i] = n

\* What each peer knows of itself.
Peers ==
    /\ \A p \in Peer : p \notin up => chan[p] = <<>> /\ \A f \in Fd : socket[p][f] = None
    /\ ~linked => \A p \in Peer : chan[p] = <<>>
    /\ losses = 0 => linked

\* Every command but CREATE names the socket it is for, and CREATE and CREATED
\* the one they are from.
Addressed ==
    \A p \in Peer : \A i \in DOMAIN chan[p] :
        /\ chan[p][i].cmd # "CREATE" => chan[p][i].fd \in Fd
        /\ chan[p][i].cmd \in {"CREATE", "CREATED"} => chan[p][i].from \in Fd

\* Nothing is known of a connection that is still to come.
Unborn ==
    \A c \in Conn : accepted < c =>
        /\ c \notin refused
        /\ \A p \in Peer : /\ NoSocket(p, c) /\ Silent(p, c)
                           /\ wrote[p][c] = 0 /\ got[p][c] = <<>>

(* Of a connection c: its sockets and commands. *)

\* Each peer has one socket of it at most.
OneSocket(c) ==
    \A p \in Peer, f \in Fd, g \in Fd : Has(p, f, c) /\ Has(p, g, c) => f = g

\* CREATE is all there is of a connection, besides the socket that waits.
Asked(c) ==
    \A p \in Peer : \A i \in DOMAIN chan[p] : Of(p, i, c, "CREATE") =>
        /\ \A j \in DOMAIN chan[p] : chan[p][j].conn = c => j = i
        /\ Silent(Other(p), c) /\ NoSocket(p, c) /\ c \notin refused
        /\ got[p][c] = <<>> /\ got[Other(p)][c] = <<>> /\ wrote[p][c] = 0
        /\ Other(p) \in up => Waiting(Other(p), chan[p][i].from, c)

\* CREATED comes first, to the socket that waits, from the only one of the other.
Answered(c) ==
    \A p \in Peer : \A i \in DOMAIN chan[p] : Of(p, i, c, "CREATED") =>
        /\ Waiting(p, chan[p][i].fd, c)
        /\ \A j \in DOMAIN chan[p] : chan[p][j].conn = c =>
               j = i \/ (i < j /\ chan[p][j].cmd \in {"DATA", "NOT_CREATED"})
        /\ Silent(Other(p), c) /\ c \notin refused
        /\ \A g \in Fd : Has(Other(p), g, c) => g = chan[p][i].from

\* NOT_CREATED is the last command, and who sent it has no socket any more.
Final(c) ==
    \A p \in Peer : \A i \in DOMAIN chan[p] : Of(p, i, c, "NOT_CREATED") =>
        /\ \A j \in DOMAIN chan[p] : chan[p][j].conn = c => j <= i
        /\ NoSocket(Other(p), c)

\* As long as both have a socket the commands and the maps name it.
Named(c) ==
    \A p \in Peer, f \in Fd : Has(p, f, c) =>
        /\ \A i \in DOMAIN chan[p] :
               chan[p][i].conn = c /\ chan[p][i].cmd # "CREATE" => chan[p][i].fd = f
        /\ \A g \in Fd : Has(Other(p), g, c) =>
               /\ socket[p][f].watched \/ socket[Other(p)][g].watched
               /\ map[p][f] = None \/ map[p][f] = g
        /\ c \in refused => ~socket[p][f].watched
        /\ socket[p][f].shut => NoSocket(Other(p), c)

(* As long as nothing has happened that the tunnels do not notice. *)

\* OneConnection and WaitingAnswered of c.
Paired(c) ==
    \A p \in Peer, f \in Fd : Has(p, f, c) /\ socket[p][f].watched =>
        LET g == map[p][f]
        IN  \/ socket[p][f].shut \/ InFlight(p, c, {"NOT_CREATED"})
            \/ /\ Has(Other(p), g, c)
               /\ map[Other(p)][g] = f \/ InFlight(Other(p), c, {"CREATED"})

Waits(c) ==
    \A p \in Peer, f \in Fd : Has(p, f, c) /\ ~socket[p][f].watched =>
        \/ InFlight(Other(p), c, {"CREATE"})
        \/ InFlight(p, c, {"CREATED", "NOT_CREATED"})
        \/ c \in refused /\ socket[p][f].shut

\* Who answered has a socket, or has told its end.
Answers(c) ==
    \A p \in Peer : \A i \in DOMAIN chan[p] :
        /\ Of(p, i, c, "CREATED") =>
              \/ Has(Other(p), chan[p][i].from, c)
              \/ InFlight(p, c, {"NOT_CREATED"})
        /\ Of(p, i, c, "NOT_CREATED") =>
              \/ c \in refused
              \/ \A f \in Fd : Has(p, f, c) => socket[p][f].watched
              \/ InFlight(p, c, {"CREATED"})

Noticed(c) == Paired(c) /\ Waits(c) /\ Answers(c)

(* The chunks of a connection. *)

\* What was delivered, what is on its way, what can be read: each in order, and
\* written by the other end.
InOrderAt(p, c) ==
    LET g == got[p][c]
        w == wrote[Other(p)][c]
    IN  /\ \A i, j \in DOMAIN g : i < j => g[i] < g[j]
        /\ \A i \in DOMAIN g : g[i] <= w
        /\ \A i, j \in DOMAIN chan[p] : i < j /\ Of(p, i, c, "DATA") /\ Of(p, j, c, "DATA") =>
               chan[p][i].chunk < chan[p][j].chunk
        /\ \A i \in DOMAIN chan[p] : Of(p, i, c, "DATA") =>
               /\ chan[p][i].chunk \in 1..w
               /\ \A j \in DOMAIN g : g[j] < chan[p][i].chunk

InOrder(c) == \A p \in Peer : InOrderAt(p, c)

\* What can be read is newer than what is on its way, and all of it is still there
\* while the socket has no watcher.
UnreadInOrder(c) ==
    \A p \in Peer, f \in Fd : Has(p, f, c) =>
        LET u == socket[p][f].unread IN
        /\ \A i, j \in DOMAIN u : i < j => u[i] < u[j]
        /\ \A i \in DOMAIN u :
              /\ u[i] <= wrote[p][c]
              /\ \A j \in DOMAIN got[Other(p)][c] : got[Other(p)][c][j] < u[i]
              /\ \A n \in Nat : Coming(Other(p), c, n) => n < u[i]
        /\ ~socket[p][f].watched => \A n \in 1..wrote[p][c] : Unread(p, c, n)

\* Without losses nothing is missing: before what is on its way, and, as long as
\* both peers run, of all that was written.
NoGap(c) ==
    losses = 0 =>
        \A p \in Peer :
            /\ \A i \in DOMAIN got[p][c] : \A n \in 1..got[p][c][i] : Arrived(p, c, n)
            /\ \A f \in Fd : Has(p, f, c) /\ ~socket[p][f].closed =>
                  \A m \in Nat : Coming(p, c, m) =>
                      \A n \in 1..m : Arrived(p, c, n) \/ Coming(p, c, n)

\* Of all that was written nothing is missing: it is delivered, on its way or can be
\* read, and delivered when the socket is shut down.
Complete(c) ==
    \A p \in Peer, f \in Fd : Has(p, f, c) /\ ~socket[p][f].closed =>
        /\ \A n \in 1..wrote[Other(p)][c] :
               Arrived(p, c, n) \/ Coming(p, c, n) \/ Unread(Other(p), c, n)
        /\ socket[p][f].shut => \A n \in 1..wrote[Other(p)][c] : Arrived(p, c, n)

\* All that holds of a connection.
ConnOK(c) ==
    /\ OneSocket(c) /\ Asked(c) /\ Answered(c) /\ Final(c) /\ Named(c)
    /\ InOrder(c) /\ UnreadInOrder(c) /\ NoGap(c)
    /\ Quiet => Noticed(c) /\ Complete(c)

\* What holds of the peers and of the connections that are still to come, mixed or not.
Base == TypeOK /\ MapWatched /\ Peers /\ Addressed /\ Unborn

\* The inductive invariant: of every connection, unless the model has ended.
IInv == Base /\ (~mixed => \A c \in Conn : ConnOK(c))
\* The least of a non-empty set of numbers, by the segments below them.
LEMMA LeastExists ==
    ASSUME NEW S, S \subseteq Nat, S # {}
    PROVE  \E f \in S : \A g \in S : f <= g
<1> DEFINE Below == {1..f : f \in S}
<1>1. Below \subseteq FiniteSubsetsOf(Nat) /\ Below # {}
  <2>1. \A f \in S : 1..f \in SUBSET Nat /\ IsFiniteSet(1..f)
    BY FS_Interval
  <2> QED
    BY <2>1 DEF FiniteSubsetsOf
<1>2. PICK x \in Below : \A y \in Below : ~(<<y, x>> \in StrictSubsetOrdering(Nat))
  BY <1>1, FS_StrictSubsetOrderingWellFounded, WFMin
<1>3. PICK f \in S : x = 1..f
  BY <1>2
<1>4. ASSUME NEW g \in S, g < f PROVE FALSE
  <2>1. 1..g \subseteq 1..f /\ f \in 1..f /\ f \notin 1..g
    BY <1>4
  <2>2. <<1..g, x>> \in StrictSubsetOrdering(Nat)
    BY <1>3, <2>1 DEF StrictSubsetOrdering
  <2> QED
    BY <1>2, <2>2
<1> QED
  BY <1>4

\* The lowest free descriptor is one.
LEMMA LowestIsFree ==
    ASSUME NEW p, Free(p) # {}
    PROVE  LowestFree(p) \in Fd /\ socket[p][LowestFree(p)] = None
<1>1. \E f \in Free(p) : \A g \in Free(p) : f <= g
  <2>1. Free(p) \subseteq Nat
    BY TunnelAssumption DEF Free, Fd
  <2> QED
    BY <2>1, LeastExists
<1> QED
  BY <1>1 DEF LowestFree, Free

\* The elements of a set in a sequence, each once.
LEMMA SequenceOfSet ==
    ASSUME NEW S, IsFiniteSet(S)
    PROVE  /\ Cardinality(S) \in Nat
           /\ SetToSeq(S) \in [1..Cardinality(S) -> S]
           /\ \A i, j \in 1..Cardinality(S) : SetToSeq(S)[i] = SetToSeq(S)[j] => i = j
<1> DEFINE n == Cardinality(S)
<1>1. n \in Nat
  BY FS_CardinalityType
<1>2. PICK f \in [1..n -> S] : IsInjective(f)
  BY FS_CardinalityType DEF ExistsBijection, Bijection, Injection, IsInjective
<1>3. SetToSeq(S) \in [1..n -> S] /\ IsInjective(SetToSeq(S))
  BY <1>2 DEF SetToSeq
<1> QED
  BY <1>1, <1>3 DEF IsInjective
\* There are two peers.
LEMMA OtherIs ==
    ASSUME NEW p \in Peer
    PROVE  /\ Other(p) \in Peer /\ Other(p) # p /\ Other(Other(p)) = p
           /\ \A r \in Peer : r = p \/ r = Other(p)
<1>1. PICK a, b \in Peer : a # b /\ Peer = {a, b}
  BY TunnelAssumption
<1>2. \E r \in Peer : r # p
  BY <1>1
<1>3. Other(p) \in Peer /\ Other(p) # p
  BY <1>2 DEF Other
<1>4. Other(Other(p)) \in Peer /\ Other(Other(p)) # Other(p)
  <2>1. \E r \in Peer : r # Other(p)
    BY <1>3
  <2> QED
    BY <2>1 DEF Other
<1> QED
  BY <1>1, <1>3, <1>4

\* The chunks of c that have arrived are the same.
SameArrived(c) == \A p \in Peer : \A n : Arrived(p, c, n)' <=> Arrived(p, c, n)

\* The sockets and commands of c, and what was written and delivered, are the
\* same; k commands of other connections are gone in front of those of c.
Same(c, k) ==
    /\ \A p \in Peer, f \in Fd :
          /\ Has(p, f, c)' <=> Has(p, f, c)
          /\ Has(p, f, c) => socket'[p][f] = socket[p][f] /\ map'[p][f] = map[p][f]
    /\ \A p \in Peer :
          /\ k[p] \in Nat
          /\ DOMAIN chan[p] \subseteq Nat /\ DOMAIN chan'[p] \subseteq Nat
          /\ \A i \in DOMAIN chan'[p] : chan'[p][i].conn = c =>
                 i + k[p] \in DOMAIN chan[p] /\ chan'[p][i] = chan[p][i + k[p]]
          /\ \A i \in DOMAIN chan[p] : chan[p][i].conn = c =>
                 i - k[p] \in DOMAIN chan'[p] /\ chan'[p][i - k[p]] = chan[p][i]
    /\ \A p \in Peer : wrote'[p][c] = wrote[p][c] /\ got'[p][c] = got[p][c]
    /\ SameArrived(c)
    /\ c \in refused' <=> c \in refused
    /\ up' = up /\ losses' = losses

\* What is said of a connection depends on its own sockets and commands alone.
LEMMA Untouched ==
    ASSUME NEW c \in Conn, NEW k, ConnOK(c), Same(c, k), ~mixed, ~mixed'
    PROVE  ConnOK(c)'
<1>1. \A p \in Peer : Other(p) \in Peer
  BY OtherIs
<1>2. \A p \in Peer, f \in Fd :
          /\ Has(p, f, c)' <=> Has(p, f, c)
          /\ Has(p, f, c) => socket'[p][f] = socket[p][f] /\ map'[p][f] = map[p][f]
  BY DEF Same
<1>3. \A p \in Peer :
          /\ \A i \in DOMAIN chan'[p] : chan'[p][i].conn = c =>
                 /\ i \in Nat /\ i + k[p] \in DOMAIN chan[p]
                 /\ chan'[p][i] = chan[p][i + k[p]]
          /\ \A i \in DOMAIN chan[p] : chan[p][i].conn = c =>
                 /\ i \in Nat /\ i - k[p] \in DOMAIN chan'[p]
                 /\ chan'[p][i - k[p]] = chan[p][i]
  BY DEF Same
<1>4. \A p \in Peer : k[p] \in Nat
  BY DEF Same
<1>5. /\ \A p \in Peer : wrote'[p][c] = wrote[p][c] /\ got'[p][c] = got[p][c]
      /\ c \in refused' <=> c \in refused
      /\ up' = up /\ losses' = losses
  BY DEF Same
<1>6. \A p \in Peer : /\ NoSocket(p, c)' <=> NoSocket(p, c)
                      /\ Silent(p, c)' <=> Silent(p, c)
  BY <1>2, <1>3 DEF NoSocket, Silent
<1>7. \A p \in Peer : \A n : Coming(p, c, n)' <=> Coming(p, c, n)
  BY <1>3 DEF Coming, Of
<1>8. \A p \in Peer : \A n : Unread(p, c, n)' <=> Unread(p, c, n)
  BY <1>2 DEF Unread
<1>9. \A p \in Peer : \A cmds : InFlight(p, c, cmds)' <=> InFlight(p, c, cmds)
  BY <1>3 DEF InFlight
<1>10. \A p \in Peer : \A f :
           /\ Has(p, f, c)' <=> Has(p, f, c)
           /\ Waiting(p, f, c)' <=> Waiting(p, f, c)
  BY <1>2 DEF Has, Waiting
<1>11. \A p \in Peer : \A i \in DOMAIN chan'[p] : \A cmd : Of(p, i, c, cmd)' =>
           /\ i + k[p] \in DOMAIN chan[p] /\ Of(p, i + k[p], c, cmd)
           /\ chan'[p][i] = chan[p][i + k[p]]
  BY <1>3 DEF Of
<1>12. OneSocket(c)'
  BY <1>10 DEF ConnOK, OneSocket
<1>13. Asked(c)'
  <2> SUFFICES ASSUME NEW p \in Peer, NEW i \in DOMAIN chan'[p], Of(p, i, c, "CREATE")'
               PROVE  /\ \A j \in DOMAIN chan'[p] : chan'[p][j].conn = c => j = i
                      /\ Silent(Other(p), c)' /\ NoSocket(p, c)' /\ c \notin refused'
                      /\ got'[p][c] = <<>> /\ got'[Other(p)][c] = <<>> /\ wrote'[p][c] = 0
                      /\ Other(p) \in up' => Waiting(Other(p), chan[p][i].from, c)'
    BY DEF Asked
  <2>1. /\ i + k[p] \in DOMAIN chan[p] /\ Of(p, i + k[p], c, "CREATE")
        /\ chan'[p][i] = chan[p][i + k[p]]
    BY <1>11
  <2>2. PICK a : a = chan[p][i + k[p]].from
    OBVIOUS
  <2>3. /\ Silent(Other(p), c) /\ NoSocket(p, c) /\ c \notin refused
        /\ got[p][c] = <<>> /\ got[Other(p)][c] = <<>> /\ wrote[p][c] = 0
        /\ Other(p) \in up => Waiting(Other(p), a, c)
        /\ \A j \in DOMAIN chan[p] : chan[p][j].conn = c => j = i + k[p]
    BY <2>1, <2>2 DEF ConnOK, Asked
  <2>4. \A j \in DOMAIN chan'[p] : chan'[p][j].conn = c => j = i
    BY <1>3, <1>4, <2>1, <2>3
  <2> QED
    BY <1>1, <1>5, <1>6, <1>10, <2>1, <2>2, <2>3, <2>4
<1>14. Answered(c)'
  <2> SUFFICES ASSUME NEW p \in Peer, NEW i \in DOMAIN chan'[p], Of(p, i, c, "CREATED")',
                      NEW m, m = chan'[p][i]
               PROVE  /\ Waiting(p, m.fd, c)'
                      /\ \A j \in DOMAIN chan'[p] : chan'[p][j].conn = c =>
                             j = i \/ (i < j /\ chan'[p][j].cmd \in {"DATA", "NOT_CREATED"})
                      /\ Silent(Other(p), c)' /\ c \notin refused'
                      /\ \A g \in Fd : Has(Other(p), g, c)' => g = m.from
    BY DEF Answered
  <2>1. /\ i + k[p] \in DOMAIN chan[p] /\ Of(p, i + k[p], c, "CREATED")
        /\ m = chan[p][i + k[p]]
    BY <1>11
  <2>2. /\ Waiting(p, m.fd, c)
        /\ \A j \in DOMAIN chan[p] : chan[p][j].conn = c =>
               \/ j = i + k[p]
               \/ i + k[p] < j /\ chan[p][j].cmd \in {"DATA", "NOT_CREATED"}
        /\ Silent(Other(p), c) /\ c \notin refused
        /\ \A g \in Fd : Has(Other(p), g, c) => g = m.from
    BY <2>1 DEF ConnOK, Answered
  <2>3. i \in Nat
    BY DEF Same
  <2>4. ASSUME NEW j \in DOMAIN chan'[p], chan'[p][j].conn = c
        PROVE  j = i \/ (i < j /\ chan'[p][j].cmd \in {"DATA", "NOT_CREATED"})
    <3>1. /\ j \in Nat /\ j + k[p] \in DOMAIN chan[p]
          /\ chan'[p][j] = chan[p][j + k[p]]
      BY <1>3, <2>4
    <3>2. j + k[p] = i + k[p] \/ (i + k[p] < j + k[p] /\ chan'[p][j].cmd \in {"DATA", "NOT_CREATED"})
      BY <2>2, <2>4, <3>1
    <3> QED
      BY <1>4, <2>3, <3>1, <3>2
  <2> QED
    BY <1>1, <1>5, <1>6, <1>10, <2>2, <2>4
<1>15. Final(c)'
  <2> SUFFICES ASSUME NEW p \in Peer, NEW i \in DOMAIN chan'[p], Of(p, i, c, "NOT_CREATED")'
               PROVE  /\ \A j \in DOMAIN chan'[p] : chan'[p][j].conn = c => j <= i
                      /\ NoSocket(Other(p), c)'
    BY DEF Final
  <2>1. i + k[p] \in DOMAIN chan[p] /\ Of(p, i + k[p], c, "NOT_CREATED") /\ i \in Nat
    BY <1>11 DEF Same
  <2>2. /\ \A j \in DOMAIN chan[p] : chan[p][j].conn = c => j <= i + k[p]
        /\ NoSocket(Other(p), c)
    BY <2>1 DEF ConnOK, Final
  <2>3. \A j \in DOMAIN chan'[p] : chan'[p][j].conn = c => j \in Nat /\ j + k[p] <= i + k[p]
    BY <1>3, <2>2
  <2> QED
    BY <1>1, <1>4, <1>6, <2>1, <2>2, <2>3
<1>16. Named(c)'
  <2> SUFFICES ASSUME NEW p \in Peer, NEW f \in Fd, Has(p, f, c)'
               PROVE  /\ \A i \in DOMAIN chan'[p] :
                             chan'[p][i].conn = c /\ chan'[p][i].cmd # "CREATE" =>
                                 chan'[p][i].fd = f
                      /\ \A g \in Fd : Has(Other(p), g, c)' =>
                             /\ socket'[p][f].watched \/ socket'[Other(p)][g].watched
                             /\ map'[p][f] = None \/ map'[p][f] = g
                      /\ c \in refused' => ~socket'[p][f].watched
                      /\ socket'[p][f].shut => NoSocket(Other(p), c)'
    BY DEF Named
  <2>1. Has(p, f, c) /\ socket'[p][f] = socket[p][f] /\ map'[p][f] = map[p][f]
    BY <1>2
  <2>2. /\ \A i \in DOMAIN chan[p] :
               chan[p][i].conn = c /\ chan[p][i].cmd # "CREATE" => chan[p][i].fd = f
        /\ \A g \in Fd : Has(Other(p), g, c) =>
               /\ socket[p][f].watched \/ socket[Other(p)][g].watched
               /\ map[p][f] = None \/ map[p][f] = g
        /\ c \in refused => ~socket[p][f].watched
        /\ socket[p][f].shut => NoSocket(Other(p), c)
    BY <2>1 DEF ConnOK, Named
  <2>3. \A i \in DOMAIN chan'[p] : chan'[p][i].conn = c /\ chan'[p][i].cmd # "CREATE" =>
            chan'[p][i].fd = f
    BY <1>3, <2>2
  <2> QED
    BY <1>1, <1>2, <1>5, <1>6, <2>1, <2>2, <2>3
<1>17. InOrder(c)'
  <2> SUFFICES ASSUME NEW p \in Peer
               PROVE  /\ \A i, j \in DOMAIN got'[p][c] : i < j => got'[p][c][i] < got'[p][c][j]
                      /\ \A i \in DOMAIN got'[p][c] : got'[p][c][i] <= wrote'[Other(p)][c]
                      /\ \A i, j \in DOMAIN chan'[p] :
                             i < j /\ Of(p, i, c, "DATA")' /\ Of(p, j, c, "DATA")' =>
                                 chan'[p][i].chunk < chan'[p][j].chunk
                      /\ \A i \in DOMAIN chan'[p] : Of(p, i, c, "DATA")' =>
                             /\ chan'[p][i].chunk \in 1..wrote'[Other(p)][c]
                             /\ \A j \in DOMAIN got'[p][c] : got'[p][c][j] < chan'[p][i].chunk
    BY DEF InOrder, InOrderAt
  <2>1. /\ \A i, j \in DOMAIN got[p][c] : i < j => got[p][c][i] < got[p][c][j]
        /\ \A i \in DOMAIN got[p][c] : got[p][c][i] <= wrote[Other(p)][c]
        /\ \A i, j \in DOMAIN chan[p] :
               i < j /\ Of(p, i, c, "DATA") /\ Of(p, j, c, "DATA") =>
                   chan[p][i].chunk < chan[p][j].chunk
        /\ \A i \in DOMAIN chan[p] : Of(p, i, c, "DATA") =>
               /\ chan[p][i].chunk \in 1..wrote[Other(p)][c]
               /\ \A j \in DOMAIN got[p][c] : got[p][c][j] < chan[p][i].chunk
    BY DEF ConnOK, InOrder, InOrderAt
  <2>2. \A i, j \in DOMAIN chan'[p] : i < j => i + k[p] < j + k[p]
    BY <1>4 DEF Same
  <2>3. \A i, j \in DOMAIN chan'[p] : i < j /\ Of(p, i, c, "DATA")' /\ Of(p, j, c, "DATA")' =>
            chan'[p][i].chunk < chan'[p][j].chunk
    BY <1>11, <2>1, <2>2
  <2>4. \A i \in DOMAIN chan'[p] : Of(p, i, c, "DATA")' =>
            /\ chan'[p][i].chunk \in 1..wrote'[Other(p)][c]
            /\ \A j \in DOMAIN got'[p][c] : got'[p][c][j] < chan'[p][i].chunk
    BY <1>1, <1>5, <1>11, <2>1
  <2> QED
    BY <1>1, <1>5, <2>1, <2>3, <2>4
<1>18. UnreadInOrder(c)'
  BY <1>1, <1>2, <1>5, <1>7, <1>8 DEF ConnOK, UnreadInOrder
<1>19. NoGap(c)'
  <2>1. \A p \in Peer : \A n : Arrived(p, c, n)' <=> Arrived(p, c, n)
    BY DEF Same, SameArrived
  <2> QED
    BY <1>1, <1>2, <1>5, <1>7, <2>1 DEF ConnOK, NoGap
<1>20. Quiet' => Quiet
  BY <1>5 DEF Quiet
<1>21. Paired(c)' \/ ~Quiet
  <2> SUFFICES ASSUME Quiet, NEW p \in Peer, NEW f \in Fd, Has(p, f, c)',
                      socket'[p][f].watched, NEW g, g = map'[p][f]
               PROVE  \/ socket'[p][f].shut \/ InFlight(p, c, {"NOT_CREATED"})'
                      \/ /\ Has(Other(p), g, c)'
                         /\ map'[Other(p)][g] = f \/ InFlight(Other(p), c, {"CREATED"})'
    BY DEF Paired
  <2>1. /\ Has(p, f, c) /\ socket'[p][f] = socket[p][f] /\ g = map[p][f]
        /\ Other(p) \in Peer
    BY <1>1, <1>2
  <2>2. \/ socket[p][f].shut \/ InFlight(p, c, {"NOT_CREATED"})
        \/ /\ Has(Other(p), g, c)
           /\ map[Other(p)][g] = f \/ InFlight(Other(p), c, {"CREATED"})
    BY <2>1 DEF ConnOK, Noticed, Paired
  <2>3. Has(Other(p), g, c) => Has(Other(p), g, c)' /\ map'[Other(p)][g] = map[Other(p)][g]
    BY <1>2, <1>10, <2>1 DEF Has
  <2> QED
    BY <1>9, <2>1, <2>2, <2>3
<1>22. Waits(c)' \/ ~Quiet
  BY <1>1, <1>2, <1>5, <1>9, <1>10 DEF ConnOK, Noticed, Waits
<1>23. Answers(c)' \/ ~Quiet
  BY <1>1, <1>2, <1>5, <1>9, <1>10, <1>11 DEF ConnOK, Noticed, Answers
<1>24. Complete(c)' \/ ~Quiet
  <2>1. \A p \in Peer : \A n : Arrived(p, c, n)' <=> Arrived(p, c, n)
    BY DEF Same, SameArrived
  <2> QED
    BY <1>1, <1>2, <1>5, <1>7, <1>8, <2>1 DEF ConnOK, Complete
<1> QED
  BY <1>12, <1>13, <1>14, <1>15, <1>16, <1>17, <1>18, <1>19, <1>20, <1>21, <1>22, <1>23, <1>24
     DEF ConnOK, Noticed
-----------------------------------------------------------------------------
(* Commands that are sent and taken.                                       *)

\* The first n commands for r are taken, and the rest moves up.
Took(r, n) ==
    /\ \A i \in DOMAIN chan'[r] :
           i \in Nat /\ i + n \in DOMAIN chan[r] /\ chan'[r][i] = chan[r][i + n]
    /\ \A i \in DOMAIN chan[r] :
           /\ i \in Nat \ {0}
           /\ i <= n \/ (n < i /\ i - n \in DOMAIN chan'[r] /\ chan'[r][i - n] = chan[r][i])

\* A command for r arrives.
Delivered(r) == linked /\ r \in up

\* Nothing, or m, is put behind the commands for r.
Put(r, m) ==
    /\ DOMAIN chan[r] \subseteq Nat /\ DOMAIN chan'[r] \subseteq Nat
    /\ \A i \in DOMAIN chan[r] : i \in DOMAIN chan'[r] /\ chan'[r][i] = chan[r][i]
    /\ \A i \in DOMAIN chan'[r] :
           \/ i \in DOMAIN chan[r] /\ chan'[r][i] = chan[r][i]
           \/ /\ chan'[r][i] = m
              /\ \A j \in DOMAIN chan'[r] : j <= i
              /\ \A j \in DOMAIN chan[r] : j < i
    /\ Delivered(r) \/ chan'[r] = chan[r]

\* A command that is sent comes last at the peer it is for, and nothing else changes.
LEMMA SendIs ==
    ASSUME NEW ch, ch \in [Peer -> Seq(Message)], NEW q \in Peer, NEW m \in Message
    PROVE  /\ Send(q, m, ch) \in [Peer -> Seq(Message)]
           /\ Send(q, m, ch)[q] = IF Delivered(q) THEN Append(ch[q], m) ELSE ch[q]
           /\ \A r \in Peer : r # q => Send(q, m, ch)[r] = ch[r]
BY DEF Send, Delivered

\* The first command of a peer is taken off.
LEMMA ReceivedIs ==
    ASSUME NEW p \in Peer, chan \in [Peer -> Seq(Message)], chan[p] # <<>>
    PROVE  /\ Received(p) \in [Peer -> Seq(Message)]
           /\ Received(p)[p] = Tail(chan[p])
           /\ \A r \in Peer : r # p => Received(p)[r] = chan[r]
           /\ 1 \in DOMAIN chan[p] /\ Head(chan[p]) = chan[p][1] /\ chan[p][1] \in Message
<1>1. chan[p] \in Seq(Message) /\ chan[p] # <<>>
  OBVIOUS
<1>2. Tail(chan[p]) \in Seq(Message) /\ 1 \in DOMAIN chan[p] /\ Head(chan[p]) = chan[p][1]
  BY <1>1
<1> QED
  BY <1>1, <1>2 DEF Received

\* The first element of a sequence, and the rest.
LEMMA HeadTail ==
    ASSUME NEW S, NEW u \in Seq(S), u # <<>>
    PROVE  /\ Head(u) \in S /\ Tail(u) \in Seq(S)
           /\ 1 \in DOMAIN u /\ Head(u) = u[1]
           /\ \A i \in DOMAIN u :
                 /\ i \in Nat
                 /\ i = 1 \/ (1 < i /\ i - 1 \in DOMAIN Tail(u) /\ Tail(u)[i - 1] = u[i])
           /\ \A i \in DOMAIN Tail(u) :
                 i \in Nat /\ i + 1 \in DOMAIN u /\ Tail(u)[i] = u[i + 1]
<1>1. /\ Len(u) \in Nat \ {0} /\ DOMAIN u = 1..Len(u) /\ Head(u) = u[1]
      /\ Tail(u) \in Seq(S) /\ DOMAIN Tail(u) = 1..(Len(u) - 1)
      /\ \A i \in 1..(Len(u) - 1) : Tail(u)[i] = u[i + 1]
      /\ u[1] \in S
  OBVIOUS
<1>2. \A i \in 1..Len(u) : i = 1 \/ (1 < i /\ i - 1 \in 1..(Len(u) - 1) /\ (i - 1) + 1 = i)
  BY <1>1
<1>3. \A i \in 1..Len(u) :
          i = 1 \/ (1 < i /\ i - 1 \in 1..(Len(u) - 1) /\ Tail(u)[i - 1] = u[i])
  BY <1>1, <1>2
<1> QED
  BY <1>1, <1>3

\* A sequence without elements is the empty one.
LEMMA NoElements ==
    ASSUME NEW S, NEW u \in Seq(S), DOMAIN u = {}
    PROVE  u = <<>>
<1>1. Len(u) \in Nat /\ DOMAIN u = 1..Len(u)
  OBVIOUS
<1>2. Len(u) = 0
  <2>1. ASSUME Len(u) # 0 PROVE FALSE
    <3>1. 1 \in 1..Len(u)
      BY <1>1, <2>1
    <3> QED
      BY <1>1, <3>1
  <2> QED
    BY <2>1
<1> QED
  BY <1>2

\* A peer whose queue is its own tail has taken one command.
LEMMA TookIs ==
    ASSUME NEW r \in Peer, chan[r] \in Seq(Message), chan[r] # <<>>,
           chan'[r] = Tail(chan[r])
    PROVE  Took(r, 1) /\ 1 \in DOMAIN chan[r] /\ Head(chan[r]) = chan[r][1]
<1>1. \A i \in DOMAIN chan[r] : i = 1 => i <= 1
  OBVIOUS
<1> QED
  BY <1>1, HeadTail DEF Took

\* A peer whose queue is as it was has taken none, and was sent nothing.
LEMMA TookNone ==
    ASSUME NEW r \in Peer, chan[r] \in Seq(Message), chan'[r] = chan[r]
    PROVE  Took(r, 0) /\ \A m : Put(r, m)
<1>1. DOMAIN chan[r] \subseteq Nat /\ \A i \in DOMAIN chan[r] : i + 0 = i /\ i - 0 = i /\ (i <= 0 \/ 0 < i)
  OBVIOUS
<1> QED
  BY <1>1 DEF Took, Put

\* A peer whose queue has got m at its end was sent m.
LEMMA PutIs ==
    ASSUME NEW r \in Peer, NEW m \in Message, chan[r] \in Seq(Message),
           chan'[r] = IF Delivered(r) THEN Append(chan[r], m) ELSE chan[r]
    PROVE  Put(r, m) /\ (Delivered(r) => \E i \in DOMAIN chan'[r] : chan'[r][i] = m)
<1> DEFINE s == chan[r]
<1>1. /\ s \in Seq(Message) /\ Len(s) \in Nat /\ DOMAIN s = 1..Len(s)
      /\ DOMAIN Append(s, m) = 1..(Len(s) + 1)
      /\ \A i \in 1..Len(s) : Append(s, m)[i] = s[i]
      /\ Append(s, m)[Len(s) + 1] = m
  OBVIOUS
<1> HIDE DEF s
<1>2. chan[r] = s /\ chan'[r] = IF Delivered(r) THEN Append(s, m) ELSE s
  BY DEF s
<1>3. DOMAIN chan[r] \subseteq Nat /\ DOMAIN chan'[r] \subseteq Nat
  BY <1>1, <1>2
<1>4. CASE Delivered(r)
  BY <1>1, <1>2, <1>3, <1>4 DEF Put
<1>5. CASE ~Delivered(r)
  BY <1>2, <1>3, <1>5 DEF Put
<1> QED
  BY <1>4, <1>5

\* What Msg makes of descriptors, a connection and a chunk is a message.
LEMMA MsgIs ==
    ASSUME NEW cmd \in {"CREATE", "CREATED", "NOT_CREATED", "DATA"}, NEW fd \in Fd \cup {None},
           NEW from \in Fd \cup {None}, NEW c \in Conn, NEW n \in 0..MaxWrite
    PROVE  Msg(cmd, fd, from, c, n) \in Message
BY DEF Msg, Message
-----------------------------------------------------------------------------
(* A step of one peer: one descriptor, the command it takes and one it sends. *)

\* p's descriptor f gets the socket t and the entry b.
Becomes(p, f, t, b) ==
    \A r \in Peer, g \in Fd :
        /\ socket'[r][g] = IF r = p /\ g = f THEN t ELSE socket[r][g]
        /\ map'[r][g] = IF r = p /\ g = f THEN b ELSE map[r][g]

\* With that, n commands for p are taken, and m is sent.
OneStep(p, f, t, b, n, m) ==
    /\ Becomes(p, f, t, b)
    /\ Took(p, n) /\ Put(Other(p), m)
    /\ UNCHANGED <<up, linked, losses>>

\* Only c is written to, delivered or refused.
OnlyOf(c) ==
    \A d \in Conn : d # c =>
        /\ d \in refused' <=> d \in refused
        /\ SameArrived(d)
        /\ \A r \in Peer : wrote'[r][d] = wrote[r][d] /\ got'[r][d] = got[r][d]

\* It is about c: what p sends names a socket, and the socket at f is one of c,
\* or the one that was there.
StepOf(c, p, f, t, b, n, m) ==
    /\ OneStep(p, f, t, b, n, m)
    /\ n \in {0, 1} /\ p \in up /\ OnlyOf(c)
    /\ accepted <= accepted' /\ ~(accepted' < c)
    /\ b # None <=> t # None /\ t.watched
    /\ m.conn = c
    /\ m.cmd # "CREATE" => m.fd \in Fd
    /\ m.cmd \in {"CREATE", "CREATED"} => m.from \in Fd
    /\ mixed' \/ (f \in Fd /\ socket[p][f] # None => socket[p][f].conn = c)
    /\ t # None => t.conn = c \/ (f \in Fd /\ socket[p][f] # None /\ t.conn = socket[p][f].conn)
    /\ mixed' \/ (n = 1 => \A i \in DOMAIN chan[p] : i = 1 => chan[p][i].conn = c)

\* What holds of the peers, their commands and the unborn connections is kept by
\* every step of one peer.
LEMMA BaseStep ==
    ASSUME Base, NEW p \in Peer, NEW f, NEW t, NEW b, NEW n, NEW m, NEW c \in Conn,
           StepOf(c, p, f, t, b, n, m), TypeOK'
    PROVE  Base'
<1> DEFINE q == Other(p)
<1>0. /\ q \in Peer /\ q # p /\ Other(p) = q /\ Other(q) = p
      /\ \A r \in Peer : (r = p \/ r = q) /\ Other(r) \in Peer
  BY OtherIs
<1> HIDE DEF q
<1>1. /\ TypeOK /\ MapWatched /\ Peers /\ Addressed /\ Unborn
      /\ OneStep(p, f, t, b, n, m) /\ n \in {0, 1} /\ p \in up /\ OnlyOf(c)
      /\ accepted <= accepted' /\ ~(accepted' < c)
      /\ b # None <=> t # None /\ t.watched
      /\ m.conn = c /\ (m.cmd # "CREATE" => m.fd \in Fd)
      /\ m.cmd \in {"CREATE", "CREATED"} => m.from \in Fd
      /\ t # None => t.conn = c \/ (f \in Fd /\ socket[p][f] # None /\ t.conn = socket[p][f].conn)
  BY DEF Base, StepOf
<1>2. /\ \A r \in Peer, g \in Fd :
            /\ socket'[r][g] = IF r = p /\ g = f THEN t ELSE socket[r][g]
            /\ map'[r][g] = IF r = p /\ g = f THEN b ELSE map[r][g]
      /\ Took(p, n) /\ Put(q, m)
      /\ up' = up /\ linked' = linked /\ losses' = losses
  BY <1>0, <1>1 DEF OneStep, Becomes
<1>3. MapWatched'
  BY <1>1, <1>2 DEF MapWatched
<1>4. Peers'
  <2>1. q \notin up => chan'[q] = <<>> /\ \A g \in Fd : socket'[q][g] = None
    <3>1. q \notin up => chan[q] = <<>> /\ \A g \in Fd : socket[q][g] = None
      BY <1>0, <1>1 DEF Peers
    <3>2. q \notin up => chan'[q] = chan[q]
      BY <1>2 DEF Put, Delivered
    <3> QED
      BY <1>0, <1>2, <3>1, <3>2
  <2>2. ~linked => chan'[p] = <<>> /\ chan'[q] = <<>>
    <3>1. ~linked => chan[p] = <<>> /\ chan[q] = <<>>
      BY <1>0, <1>1 DEF Peers
    <3>2. ~linked => chan'[q] = chan[q]
      BY <1>2 DEF Put, Delivered
    <3>3. chan[p] = <<>> => chan'[p] = <<>>
      <4>1. chan'[p] \in Seq(Message)
        BY DEF TypeOK
      <4>2. chan[p] = <<>> => DOMAIN chan'[p] = {}
        BY <1>2 DEF Took
      <4>3. ASSUME DOMAIN chan'[p] = {} PROVE chan'[p] = <<>>
        BY <4>1, <4>3, NoElements
      <4> QED
        BY <4>2, <4>3
    <3> QED
      BY <3>1, <3>2, <3>3
  <2>3. \A r \in Peer : r \notin up' => chan'[r] = <<>> /\ \A g \in Fd : socket'[r][g] = None
    BY <1>0, <1>1, <1>2, <2>1
  <2>4. ~linked' => \A r \in Peer : chan'[r] = <<>>
    BY <1>0, <1>2, <2>2
  <2>5. losses' = 0 => linked'
    BY <1>1, <1>2 DEF Peers
  <2> QED
    BY <2>3, <2>4, <2>5 DEF Peers
<1>5. Addressed'
  <2> SUFFICES ASSUME NEW r \in Peer, NEW i \in DOMAIN chan'[r], NEW e, e = chan'[r][i]
               PROVE  /\ e.cmd # "CREATE" => e.fd \in Fd
                      /\ e.cmd \in {"CREATE", "CREATED"} => e.from \in Fd
    BY DEF Addressed
  <2>1. CASE \E j \in DOMAIN chan[r] : e = chan[r][j]
    BY <1>1, <2>1 DEF Addressed
  <2>2. CASE e = m
    BY <1>1, <2>2
  <2>3. r = p => \E j \in DOMAIN chan[r] : e = chan[r][j]
    BY <1>2 DEF Took
  <2>4. r = q => (\E j \in DOMAIN chan[r] : e = chan[r][j]) \/ e = m
    BY <1>2 DEF Put
  <2> QED
    BY <1>0, <2>1, <2>2, <2>3, <2>4
<1>6. Unborn'
  <2> SUFFICES ASSUME NEW d \in Conn, accepted' < d
               PROVE  /\ d \notin refused'
                      /\ \A r \in Peer : /\ NoSocket(r, d)' /\ Silent(r, d)'
                                         /\ wrote'[r][d] = 0 /\ got'[r][d] = <<>>
    BY DEF Unborn
  <2>1. accepted < d /\ d # c
    <3>1. accepted \in Int /\ accepted' \in Int /\ d \in Int
      BY <1>1, TunnelAssumption DEF TypeOK, Conn
    <3> QED
      BY <1>1, <3>1
  <2>2. /\ d \notin refused
        /\ \A r \in Peer : /\ NoSocket(r, d) /\ Silent(r, d)
                           /\ wrote[r][d] = 0 /\ got[r][d] = <<>>
    BY <1>1, <2>1 DEF Unborn
  <2>3. \A r \in Peer : NoSocket(r, d)'
    <3>1. t # None => t.conn # d
      BY <1>1, <2>1, <2>2 DEF NoSocket, Has
    <3> QED
      BY <1>2, <2>2, <3>1 DEF NoSocket, Has
  <2>4. Silent(p, d)'
    BY <1>2, <2>2 DEF Silent, Took
  <2>5. Silent(q, d)'
    BY <1>0, <1>1, <1>2, <2>1, <2>2 DEF Silent, Put
  <2> QED
    BY <1>0, <1>1, <2>1, <2>2, <2>3, <2>4, <2>5 DEF OnlyOf
<1> QED
  BY <1>3, <1>4, <1>5, <1>6 DEF Base

\* Nothing is said of the other connections.
LEMMA OthersKeep ==
    ASSUME TypeOK, TypeOK', NEW p \in Peer, NEW f, NEW t, NEW b, NEW n, NEW m,
           NEW c \in Conn, StepOf(c, p, f, t, b, n, m),
           NEW d \in Conn, d # c, ConnOK(d), ~mixed, ~mixed'
    PROVE  ConnOK(d)'
<1> DEFINE q == Other(p)
           k == [r \in Peer |-> IF r = p THEN n ELSE 0]
<1>0. /\ q \in Peer /\ q # p /\ Other(p) = q /\ Other(q) = p
      /\ \A r \in Peer : (r = p \/ r = q) /\ Other(r) \in Peer
  BY OtherIs
<1>9. /\ OneStep(p, f, t, b, n, m) /\ n \in {0, 1} /\ OnlyOf(c) /\ m.conn = c
      /\ f \in Fd /\ socket[p][f] # None => socket[p][f].conn = c
      /\ t # None => t.conn = c
      /\ n = 1 => \A i \in DOMAIN chan[p] : i = 1 => chan[p][i].conn = c
  BY DEF StepOf
<1>1. k[p] = n /\ k[q] = 0 /\ \A r \in Peer : k[r] \in Nat
  BY <1>0, <1>9
<1> HIDE DEF q, k
<1>2. /\ \A r \in Peer, g \in Fd :
            /\ socket'[r][g] = IF r = p /\ g = f THEN t ELSE socket[r][g]
            /\ map'[r][g] = IF r = p /\ g = f THEN b ELSE map[r][g]
      /\ Took(p, n) /\ Put(q, m)
      /\ up' = up /\ losses' = losses
  BY <1>0, <1>9 DEF OneStep, Becomes
<1>3. \A r \in Peer, g \in Fd :
          /\ Has(r, g, d)' <=> Has(r, g, d)
          /\ Has(r, g, d) => socket'[r][g] = socket[r][g] /\ map'[r][g] = map[r][g]
  BY <1>2, <1>9 DEF Has
<1>4. \A r \in Peer : DOMAIN chan[r] \subseteq Nat /\ DOMAIN chan'[r] \subseteq Nat
  <2>1. DOMAIN chan[p] \subseteq Nat /\ DOMAIN chan'[p] \subseteq Nat
    BY <1>0, <1>2 DEF Took, TypeOK
  <2> QED
    BY <1>0, <1>2, <2>1 DEF Put
<1>5. /\ \A i \in DOMAIN chan'[p] : chan'[p][i].conn = d =>
             i + k[p] \in DOMAIN chan[p] /\ chan'[p][i] = chan[p][i + k[p]]
      /\ \A i \in DOMAIN chan[p] : chan[p][i].conn = d =>
             i - k[p] \in DOMAIN chan'[p] /\ chan'[p][i - k[p]] = chan[p][i]
  <2>1. \A i \in DOMAIN chan[p] : chan[p][i].conn = d => ~(i <= n)
    <3> SUFFICES ASSUME NEW i \in DOMAIN chan[p], i <= n PROVE chan[p][i].conn = c
      OBVIOUS
    <3>1. i \in 1..Len(chan[p])
      BY DEF TypeOK
    <3>2. i = 1 /\ n = 1
      BY <1>9, <3>1
    <3> QED
      BY <1>9, <3>2
  <2> QED
    BY <1>1, <1>2, <2>1 DEF Took
<1>6. /\ \A i \in DOMAIN chan'[q] : chan'[q][i].conn = d =>
             i + k[q] \in DOMAIN chan[q] /\ chan'[q][i] = chan[q][i + k[q]]
      /\ \A i \in DOMAIN chan[q] : chan[q][i].conn = d =>
             i - k[q] \in DOMAIN chan'[q] /\ chan'[q][i - k[q]] = chan[q][i]
  <2>1. \A i \in DOMAIN chan[q] \cup DOMAIN chan'[q] : i + k[q] = i /\ i - k[q] = i
    BY <1>0, <1>1, <1>4
  <2> QED
    BY <1>2, <1>9, <2>1 DEF Put
<1>7. Same(d, k)
  <2>1. \A r \in Peer : r = p \/ r = q
    BY <1>0
  <2>2. /\ \A r \in Peer : wrote'[r][d] = wrote[r][d] /\ got'[r][d] = got[r][d]
        /\ d \in refused' <=> d \in refused
        /\ SameArrived(d)
    BY <1>9 DEF OnlyOf
  <2>3. \A r \in Peer :
          /\ \A i \in DOMAIN chan'[r] : chan'[r][i].conn = d =>
                 i + k[r] \in DOMAIN chan[r] /\ chan'[r][i] = chan[r][i + k[r]]
          /\ \A i \in DOMAIN chan[r] : chan[r][i].conn = d =>
                 i - k[r] \in DOMAIN chan'[r] /\ chan'[r][i - k[r]] = chan[r][i]
    BY <1>5, <1>6, <2>1
  <2> QED
    BY <1>1, <1>2, <1>3, <1>4, <2>2, <2>3 DEF Same
<1> QED
  BY <1>7, Untouched

\* p's descriptor f is an open socket.
LEMMA SocketOf ==
    ASSUME Base, NEW p \in Peer, NEW f \in Fd, NEW s, s = socket[p][f], s # None
    PROVE  /\ s \in Socket /\ s.conn \in Conn /\ s.unread \in Seq(1..MaxWrite)
           /\ p \in up /\ Has(p, f, s.conn) /\ ~(accepted < s.conn)
           /\ map[p][f] \in Fd \cup {None} /\ (map[p][f] # None <=> s.watched)
<1>1. TypeOK /\ MapWatched /\ Peers /\ Unborn
  BY DEF Base
<1>2. s \in Socket /\ map[p][f] \in Fd \cup {None}
  BY <1>1 DEF TypeOK
<1>3. s.conn \in Conn /\ s.unread \in Seq(1..MaxWrite)
  BY <1>2 DEF Socket
<1>4. p \in up
  BY <1>1 DEF Peers
<1>5. Has(p, f, s.conn)
  BY DEF Has
<1>6. ~(accepted < s.conn)
  BY <1>1, <1>3, <1>5 DEF Unborn, NoSocket
<1>7. map[p][f] # None <=> s.watched
  BY <1>1 DEF MapWatched
<1> QED
  BY <1>2, <1>3, <1>4, <1>5, <1>6, <1>7

\* A socket whose fields change is a socket.
LEMMA SocketIs ==
    ASSUME NEW s \in Socket, NEW u \in Seq(1..MaxWrite), NEW b \in BOOLEAN
    PROVE  /\ s # None
           /\ [s EXCEPT !.unread = u] \in Socket /\ [s EXCEPT !.watched = b] \in Socket
           /\ [s EXCEPT !.shut = b] \in Socket /\ [s EXCEPT !.closed = b] \in Socket
           /\ [s EXCEPT !.reset = b] \in Socket
BY TunnelAssumption DEF Socket

\* An assignment to one descriptor keeps the types of sockets and maps.
LEMMA SocketBecomes ==
    ASSUME TypeOK, NEW p \in Peer, NEW f \in Fd, NEW t \in Socket \cup {None},
           NEW b \in Fd \cup {None},
           \/ socket' = [socket EXCEPT ![p][f] = t]
           \/ socket' = socket /\ t = socket[p][f],
           \/ map' = [map EXCEPT ![p][f] = b]
           \/ map' = map /\ b = map[p][f]
    PROVE  /\ socket' \in [Peer -> [Fd -> Socket \cup {None}]]
           /\ map' \in [Peer -> [Fd -> Fd \cup {None}]]
           /\ Becomes(p, f, t, b)
<1>1. socket \in [Peer -> [Fd -> Socket \cup {None}]] /\ map \in [Peer -> [Fd -> Fd \cup {None}]]
  BY DEF TypeOK
<1>2. /\ socket' \in [Peer -> [Fd -> Socket \cup {None}]]
      /\ \A r \in Peer, g \in Fd : socket'[r][g] = IF r = p /\ g = f THEN t ELSE socket[r][g]
  <2>1. CASE socket' = [socket EXCEPT ![p][f] = t]
    <3>1. socket' \in [Peer -> [Fd -> Socket \cup {None}]]
      BY <1>1, <2>1
    <3>2. \A r \in Peer, g \in Fd : socket'[r][g] = IF r = p /\ g = f THEN t ELSE socket[r][g]
      BY <1>1, <2>1
    <3> QED
      BY <3>1, <3>2
  <2>2. CASE socket' = socket /\ t = socket[p][f]
    BY <1>1, <2>2
  <2> QED
    BY <2>1, <2>2
<1>3. /\ map' \in [Peer -> [Fd -> Fd \cup {None}]]
      /\ \A r \in Peer, g \in Fd : map'[r][g] = IF r = p /\ g = f THEN b ELSE map[r][g]
  <2>1. CASE map' = [map EXCEPT ![p][f] = b]
    <3>1. map' \in [Peer -> [Fd -> Fd \cup {None}]]
      BY <1>1, <2>1
    <3>2. \A r \in Peer, g \in Fd : map'[r][g] = IF r = p /\ g = f THEN b ELSE map[r][g]
      BY <1>1, <2>1
    <3> QED
      BY <3>1, <3>2
  <2>2. CASE map' = map /\ b = map[p][f]
    BY <1>1, <2>2
  <2> QED
    BY <2>1, <2>2
<1> QED
  BY <1>2, <1>3 DEF Becomes

\* A socket that stays one of its connection changes nothing in which there are.
LEMMA SameHas ==
    ASSUME NEW p \in Peer, NEW f \in Fd, NEW t, NEW b, Becomes(p, f, t, b),
           \/ socket[p][f] = None /\ t = None
           \/ socket[p][f] # None /\ t # None /\ t.conn = socket[p][f].conn
    PROVE  \A r \in Peer : \A g, d : Has(r, g, d)' <=> Has(r, g, d)
BY DEF Becomes, Has

\* The number of clients does not fall when it stays.
LEMMA AcceptedIs ==
    ASSUME TypeOK
    PROVE  accepted \in Nat /\ accepted <= accepted
<1>1. accepted \in 0..MaxConn
  BY DEF TypeOK
<1> QED
  BY <1>1

\* Nothing of a connection is written, delivered or refused.
LEMMA ArrivedIs ==
    ASSUME NEW c, UNCHANGED <<got, cut>>
    PROVE  SameArrived(c)
BY DEF SameArrived, Arrived

LEMMA OnlyNone ==
    ASSUME NEW c, UNCHANGED <<wrote, got, cut, refused>>
    PROVE  OnlyOf(c)
BY ArrivedIs DEF OnlyOf

\* A new socket, and the same with a watcher.
LEMMA NewSocketIs ==
    ASSUME NEW c \in Conn, NEW s, s = NewSocket(c), NEW t, t = [s EXCEPT !.watched = TRUE]
    PROVE  /\ s \in Socket /\ s # None /\ t \in Socket /\ t # None
           /\ s.conn = c /\ ~s.watched /\ ~s.shut /\ ~s.closed /\ s.unread = <<>>
           /\ t.conn = c /\ t.watched /\ ~t.shut /\ ~t.closed /\ t.unread = <<>>
<1>1. <<>> \in Seq(1..MaxWrite) /\ TRUE \in BOOLEAN
  OBVIOUS
<1>2. s \in Socket
  BY <1>1 DEF NewSocket, Socket
<1>3. s.conn = c /\ ~s.watched /\ ~s.shut /\ ~s.closed /\ s.unread = <<>>
  BY DEF NewSocket
<1>4. t \in Socket
  BY <1>1, <1>2, SocketIs
<1>5. t.conn = c /\ t.watched /\ ~t.shut /\ ~t.closed /\ t.unread = <<>>
  BY <1>2, <1>3 DEF Socket
<1> QED
  BY <1>2, <1>3, <1>4, <1>5, TunnelAssumption
\* An open connection is no longer asked for, nor has its socket an answer to come.
LEMMA WatchedCommands ==
    ASSUME NEW c \in Conn, OneSocket(c), Asked(c), Answered(c),
           NEW p \in up, p \in Peer, NEW f \in Fd, Has(p, f, c), socket[p][f].watched
    PROVE  /\ \A r \in Peer : \A i \in DOMAIN chan[r] : ~Of(r, i, c, "CREATE")
           /\ \A i \in DOMAIN chan[p] : ~Of(p, i, c, "CREATED")
<1>1. /\ Other(p) \in Peer /\ Other(Other(p)) = p
      /\ \A r \in Peer : r = p \/ r = Other(p)
  BY OtherIs
<1>2. \A g : ~Waiting(p, g, c)
  BY DEF Waiting, OneSocket, Has
<1>3. \A i \in DOMAIN chan[Other(p)] : ~Of(Other(p), i, c, "CREATE")
  BY <1>1, <1>2 DEF Asked
<1>4. \A i \in DOMAIN chan[p] : ~Of(p, i, c, "CREATE")
  BY DEF Asked, NoSocket
<1>5. \A i \in DOMAIN chan[p] : ~Of(p, i, c, "CREATED")
  BY <1>2 DEF Answered
<1> QED
  BY <1>1, <1>3, <1>4, <1>5


\* Sockets stay as they are, but for what was written to them; p takes a chunk, or
\* sends one to where its map says.
LEMMA PlainStep ==
    ASSUME NEW c \in Conn, ConnOK(c), ~mixed, ~mixed',
           NEW p \in Peer, p \in up, NEW n \in {0, 1}, NEW m,
           Took(p, n), Put(Other(p), m),
           \A r \in Peer : \A g : Has(r, g, c)' <=> Has(r, g, c),
           \A r \in Peer, g \in Fd : Has(r, g, c) =>
               /\ socket'[r][g].watched = socket[r][g].watched
               /\ socket'[r][g].shut = socket[r][g].shut
               /\ map'[r][g] = map[r][g],
           c \in refused' <=> c \in refused, up' = up, losses' = losses,
           n = 1 => 1 \in DOMAIN chan[p] /\ Of(p, 1, c, "DATA"),
           \/ chan'[Other(p)] = chan[Other(p)]
           \/ /\ m.conn = c /\ m.cmd = "DATA"
              /\ \E f \in Fd : /\ Has(p, f, c) /\ socket[p][f].watched
                               /\ m.fd = map[p][f] /\ map[p][f] # None,
           \A r \in Peer : wrote'[r][c] = wrote[r][c] \/ (\E f \in Fd : r = p /\ Has(p, f, c)),
           \A r \in Peer : got'[r][c] = got[r][c] \/ n = 1
    PROVE  /\ OneSocket(c)' /\ Asked(c)' /\ Answered(c)' /\ Final(c)' /\ Named(c)'
           /\ Quiet' => Noticed(c)'
<1> DEFINE q == Other(p)
<1>0. /\ q \in Peer /\ q # p /\ Other(p) = q /\ Other(q) = p
      /\ \A r \in Peer : (r = p \/ r = q) /\ Other(r) \in Peer
  BY OtherIs
<1>1. Put(q, m)
  OBVIOUS
<1>2. \/ chan'[q] = chan[q]
      \/ /\ m.conn = c /\ m.cmd = "DATA"
         /\ \E f \in Fd : /\ Has(p, f, c) /\ socket[p][f].watched
                          /\ m.fd = map[p][f] /\ map[p][f] # None
  OBVIOUS
<1> HIDE DEF q
<1>3. /\ OneSocket(c) /\ Asked(c) /\ Answered(c) /\ Final(c) /\ Named(c)
      /\ Quiet' => Noticed(c)
  BY DEF ConnOK, Quiet
<1>4. \A r \in Peer : NoSocket(r, c)' <=> NoSocket(r, c)
  BY DEF NoSocket
<1>5. \A r \in Peer : \A g : Waiting(r, g, c)' <=> Waiting(r, g, c)
  BY DEF Waiting, Has
\* Commands other than the chunk that is taken and the one that is sent.
<1>6. \A i \in DOMAIN chan'[p] :
          i \in Nat /\ i + n \in DOMAIN chan[p] /\ chan'[p][i] = chan[p][i + n]
  BY DEF Took
<1>7. \A i \in DOMAIN chan'[q] :
          \/ i \in DOMAIN chan[q] /\ chan'[q][i] = chan[q][i]
          \/ chan'[q][i].conn = c /\ chan'[q][i].cmd = "DATA" /\ (\A j \in DOMAIN chan'[q] : j <= i)
  BY <1>1, <1>2 DEF Put
<1>8. ASSUME n = 1 \/ ~(chan'[q] = chan[q])
      PROVE  \A r \in Peer : \A i \in DOMAIN chan[r] : ~Of(r, i, c, "CREATE")
  <2>1. CASE n = 1
    BY <1>0, <1>3, <2>1 DEF Asked, Of, Silent
  <2>2. CASE ~(chan'[q] = chan[q])
    BY <1>0, <1>2, <1>3, <2>2, WatchedCommands
  <2> QED
    BY <1>8, <2>1, <2>2
<1>9. n = 1 => \A r \in Peer : \A i \in DOMAIN chan[r] : ~Of(r, i, c, "CREATED")
  <2> SUFFICES ASSUME n = 1, NEW r \in Peer, NEW i \in DOMAIN chan[r], Of(r, i, c, "CREATED")
               PROVE  FALSE
    OBVIOUS
  <2>1. r # q
    BY <1>0, <1>3 DEF Answered, Of, Silent
  <2>2. r = p /\ i \in Nat /\ 1 \in DOMAIN chan[p] /\ chan[p][1].conn = c /\ chan[p][1].cmd = "DATA"
    BY <1>0, <2>1 DEF Took, Of
  <2>3. 1 = i \/ i < 1
    BY <1>3, <2>2 DEF Answered
  <2>4. i # 1 /\ ~(i < 1)
    BY <2>2 DEF Of, Took
  <2> QED
    BY <2>3, <2>4
<1>10. OneSocket(c)'
  BY <1>3 DEF OneSocket
<1>11. Asked(c)'
  <2>1. CASE n = 1 \/ ~(chan'[q] = chan[q])
    <3>1. \A i \in DOMAIN chan'[p] : ~Of(p, i, c, "CREATE")'
      BY <1>6, <1>8, <2>1 DEF Of
    <3>2. \A i \in DOMAIN chan'[q] : ~Of(q, i, c, "CREATE")'
      BY <1>0, <1>7, <1>8, <2>1 DEF Of
    <3> QED
      BY <1>0, <3>1, <3>2 DEF Asked
  <2>2. CASE n = 0 /\ chan'[q] = chan[q]
    <3>1. chan'[p] = chan[p] \/ \A i \in DOMAIN chan'[p] : i \in DOMAIN chan[p] /\ chan'[p][i] = chan[p][i]
      BY <1>6, <2>2
    <3> SUFFICES ASSUME NEW r \in Peer, NEW i \in DOMAIN chan'[r], Of(r, i, c, "CREATE")',
                        NEW a, a = chan'[r][i].from
                 PROVE  /\ \A j \in DOMAIN chan'[r] : chan'[r][j].conn = c => j = i
                        /\ Silent(Other(r), c)' /\ NoSocket(r, c)' /\ c \notin refused'
                        /\ got'[r][c] = <<>> /\ got'[Other(r)][c] = <<>> /\ wrote'[r][c] = 0
                        /\ Other(r) \in up' => Waiting(Other(r), a, c)'
      BY DEF Asked
    <3>2. \A x \in Peer : \A j \in DOMAIN chan'[x] : j \in DOMAIN chan[x] /\ chan'[x][j] = chan[x][j]
      BY <1>0, <2>2, <3>1
    <3>3. Of(r, i, c, "CREATE") /\ a = chan[r][i].from /\ i \in DOMAIN chan[r]
      BY <3>2 DEF Of
    <3>4. /\ \A j \in DOMAIN chan[r] : chan[r][j].conn = c => j = i
          /\ Silent(Other(r), c) /\ NoSocket(r, c) /\ c \notin refused
          /\ got[r][c] = <<>> /\ got[Other(r)][c] = <<>> /\ wrote[r][c] = 0
          /\ Other(r) \in up => Waiting(Other(r), a, c)
      BY <1>3, <3>3 DEF Asked
    <3>5. Silent(Other(r), c)'
      BY <1>0, <3>2, <3>4 DEF Silent
    <3>6. wrote'[r][c] = 0
      BY <3>4 DEF NoSocket
    <3> QED
      BY <1>0, <1>4, <1>5, <2>2, <3>2, <3>4, <3>5, <3>6
  <2> QED
    BY <2>1, <2>2
<1>12. Answered(c)'
  <2> SUFFICES ASSUME NEW r \in Peer, NEW i \in DOMAIN chan'[r], Of(r, i, c, "CREATED")',
                      NEW e, e = chan'[r][i]
               PROVE  /\ Waiting(r, e.fd, c)'
                      /\ \A j \in DOMAIN chan'[r] : chan'[r][j].conn = c =>
                             j = i \/ (i < j /\ chan'[r][j].cmd \in {"DATA", "NOT_CREATED"})
                      /\ Silent(Other(r), c)' /\ c \notin refused'
                      /\ \A g \in Fd : Has(Other(r), g, c)' => g = e.from
    BY DEF Answered
  <2>1. n = 0
    <3>1. CASE r = p
      BY <1>6, <1>9, <3>1 DEF Of
    <3>2. CASE r = q
      BY <1>0, <1>7, <1>9, <3>2 DEF Of
    <3> QED
      BY <1>0, <3>1, <3>2
  <2>2. \A j \in DOMAIN chan'[p] : j \in DOMAIN chan[p] /\ chan'[p][j] = chan[p][j]
    BY <1>6, <2>1
  <2>3. i \in DOMAIN chan[r] /\ Of(r, i, c, "CREATED") /\ e = chan[r][i]
    <3>1. r = q => i \in DOMAIN chan[q] /\ e = chan[q][i]
      BY <1>7 DEF Of
    <3>2. r = p => i \in DOMAIN chan[p] /\ e = chan[p][i]
      BY <2>2
    <3> QED
      BY <1>0, <3>1, <3>2 DEF Of
  <2>4. /\ Waiting(r, e.fd, c)
        /\ \A j \in DOMAIN chan[r] : chan[r][j].conn = c =>
               j = i \/ (i < j /\ chan[r][j].cmd \in {"DATA", "NOT_CREATED"})
        /\ Silent(Other(r), c) /\ c \notin refused
        /\ \A g \in Fd : Has(Other(r), g, c) => g = e.from
    BY <1>0, <1>3, <2>3 DEF Answered
  <2>5. r = p => chan'[q] = chan[q]
    <3> SUFFICES ASSUME r = p, ~(chan'[q] = chan[q]) PROVE FALSE
      OBVIOUS
    <3>1. PICK f \in Fd : Has(p, f, c) /\ socket[p][f].watched
      BY <1>2
    <3>2. \A j \in DOMAIN chan[p] : ~Of(p, j, c, "CREATED")
      BY <1>0, <1>3, <3>1, WatchedCommands
    <3> QED
      BY <2>3, <3>2
  <2>6. Silent(Other(r), c)'
    <3>1. CASE r = p
      BY <1>0, <2>4, <2>5, <3>1 DEF Silent
    <3>2. CASE r = q
      BY <1>0, <2>2, <2>4, <3>2 DEF Silent
    <3> QED
      BY <1>0, <3>1, <3>2
  <2>7. \A j \in DOMAIN chan'[r] : chan'[r][j].conn = c =>
            j = i \/ (i < j /\ chan'[r][j].cmd \in {"DATA", "NOT_CREATED"})
    <3>1. CASE r = p
      BY <2>2, <2>4, <3>1
    <3>2. CASE r = q
      <4> SUFFICES ASSUME NEW j \in DOMAIN chan'[q], chan'[q][j].conn = c
                   PROVE  j = i \/ (i < j /\ chan'[q][j].cmd \in {"DATA", "NOT_CREATED"})
        BY <3>2
      <4>1. i \in Nat /\ j \in Nat
        BY <1>1, <3>2 DEF Put
      <4>2. CASE j \in DOMAIN chan[q] /\ chan'[q][j] = chan[q][j]
        BY <2>4, <3>2, <4>2
      <4>3. CASE chan'[q][j].cmd = "DATA" /\ (\A l \in DOMAIN chan'[q] : l <= j)
        BY <3>2, <4>1, <4>3
      <4> QED
        BY <1>7, <4>2, <4>3
    <3> QED
      BY <1>0, <3>1, <3>2
  <2> QED
    BY <1>0, <1>5, <2>4, <2>6, <2>7
<1>13. Final(c)'
  <2> SUFFICES ASSUME NEW r \in Peer, NEW i \in DOMAIN chan'[r], Of(r, i, c, "NOT_CREATED")'
               PROVE  /\ \A j \in DOMAIN chan'[r] : chan'[r][j].conn = c => j <= i
                      /\ NoSocket(Other(r), c)'
    BY DEF Final
  <2>1. CASE r = p
    <3>1. i + n \in DOMAIN chan[p] /\ Of(p, i + n, c, "NOT_CREATED") /\ i \in Nat
      BY <1>6, <2>1 DEF Of
    <3>2. /\ \A j \in DOMAIN chan[p] : chan[p][j].conn = c => j <= i + n
          /\ NoSocket(q, c)
      BY <1>0, <1>3, <3>1 DEF Final
    <3>3. \A j \in DOMAIN chan'[p] : chan'[p][j].conn = c => j + n <= i + n
      BY <1>6, <3>2
    <3>4. \A j \in DOMAIN chan'[p] : chan'[p][j].conn = c => j <= i
      BY <1>6, <3>1, <3>3
    <3> QED
      BY <1>0, <1>4, <2>1, <3>2, <3>4
  <2>2. CASE r = q
    <3>1. i \in DOMAIN chan[q] /\ Of(q, i, c, "NOT_CREATED")
      BY <1>7, <2>2 DEF Of
    <3>2. /\ \A j \in DOMAIN chan[q] : chan[q][j].conn = c => j <= i
          /\ NoSocket(p, c)
      BY <1>0, <1>3, <3>1 DEF Final
    <3>3. chan'[q] = chan[q]
      BY <1>2, <3>2 DEF NoSocket
    <3> QED
      BY <1>0, <1>4, <2>2, <3>2, <3>3
  <2> QED
    BY <1>0, <2>1, <2>2
<1>14. Named(c)'
  <2> SUFFICES ASSUME NEW r \in Peer, NEW g \in Fd, Has(r, g, c)'
               PROVE  /\ \A i \in DOMAIN chan'[r] :
                             chan'[r][i].conn = c /\ chan'[r][i].cmd # "CREATE" =>
                                 chan'[r][i].fd = g
                      /\ \A h \in Fd : Has(Other(r), h, c)' =>
                             /\ socket'[r][g].watched \/ socket'[Other(r)][h].watched
                             /\ map'[r][g] = None \/ map'[r][g] = h
                      /\ c \in refused' => ~socket'[r][g].watched
                      /\ socket'[r][g].shut => NoSocket(Other(r), c)'
    BY DEF Named
  <2>1. Has(r, g, c) /\ Other(r) \in Peer
    BY <1>0
  <2>2. /\ \A i \in DOMAIN chan[r] :
               chan[r][i].conn = c /\ chan[r][i].cmd # "CREATE" => chan[r][i].fd = g
        /\ \A h \in Fd : Has(Other(r), h, c) =>
               /\ socket[r][g].watched \/ socket[Other(r)][h].watched
               /\ map[r][g] = None \/ map[r][g] = h
        /\ c \in refused => ~socket[r][g].watched
        /\ socket[r][g].shut => NoSocket(Other(r), c)
    BY <1>3, <2>1 DEF Named
  <2>3. \A i \in DOMAIN chan'[r] : chan'[r][i].conn = c /\ chan'[r][i].cmd # "CREATE" =>
            chan'[r][i].fd = g
    <3>1. CASE r = p
      BY <1>6, <2>2, <3>1
    <3>2. CASE r = q
      <4>1. CASE chan'[q] = chan[q]
        BY <2>2, <3>2, <4>1
      <4>2. CASE ~(chan'[q] = chan[q])
        <5>1. PICK f \in Fd : Has(p, f, c) /\ m.fd = map[p][f] /\ map[p][f] # None
          BY <1>2, <4>2
        <5>2. m.fd = g
          BY <1>0, <1>3, <2>1, <3>2, <5>1 DEF Named
        <5> QED
          BY <1>1, <2>2, <3>2, <5>2 DEF Put
      <4> QED
        BY <4>1, <4>2
    <3> QED
      BY <1>0, <3>1, <3>2
  <2>4. \A h \in Fd : Has(Other(r), h, c)' =>
             /\ socket'[r][g].watched \/ socket'[Other(r)][h].watched
             /\ map'[r][g] = None \/ map'[r][g] = h
    BY <2>1, <2>2
  <2> QED
    BY <1>4, <2>1, <2>2, <2>3, <2>4
<1>15. ASSUME Quiet' PROVE Noticed(c)'
  <2>1. Paired(c) /\ Waits(c) /\ Answers(c)
    BY <1>3, <1>15 DEF Noticed
  <2>2. \A r \in Peer : \A cmds : "DATA" \notin cmds /\ InFlight(r, c, cmds) => InFlight(r, c, cmds)'
    <3> SUFFICES ASSUME NEW r \in Peer, NEW cmds, "DATA" \notin cmds,
                        NEW i \in DOMAIN chan[r], chan[r][i].conn = c, chan[r][i].cmd \in cmds
                 PROVE  \E j \in DOMAIN chan'[r] : chan'[r][j].conn = c /\ chan'[r][j].cmd \in cmds
      BY DEF InFlight
    <3>1. CASE r = p
      <4>1. i \in Nat /\ (i <= n \/ (i - n \in DOMAIN chan'[p] /\ chan'[p][i - n] = chan[p][i]))
        BY <3>1 DEF Took
      <4>2. ~(i <= n) \/ i = 0
        BY <3>1, <4>1 DEF Of
      <4>3. i # 0
        BY <3>1 DEF Took
      <4> QED
        BY <3>1, <4>1, <4>2, <4>3
    <3>2. CASE r = q
      BY <1>1, <3>2 DEF Put
    <3> QED
      BY <1>0, <3>1, <3>2
  <2>3. Paired(c)'
    <3> SUFFICES ASSUME NEW r \in Peer, NEW f \in Fd, Has(r, f, c)',
                        socket'[r][f].watched, NEW g, g = map'[r][f]
                 PROVE  \/ socket'[r][f].shut \/ InFlight(r, c, {"NOT_CREATED"})'
                        \/ /\ Has(Other(r), g, c)'
                           /\ map'[Other(r)][g] = f \/ InFlight(Other(r), c, {"CREATED"})'
      BY DEF Paired
    <3>1. Has(r, f, c) /\ socket[r][f].watched /\ g = map[r][f] /\ Other(r) \in Peer
          /\ socket'[r][f].shut = socket[r][f].shut
      BY <1>0
    <3>2. \/ socket[r][f].shut \/ InFlight(r, c, {"NOT_CREATED"})
          \/ /\ Has(Other(r), g, c)
             /\ map[Other(r)][g] = f \/ InFlight(Other(r), c, {"CREATED"})
      BY <2>1, <3>1 DEF Paired
    <3>3. Has(Other(r), g, c) => g \in Fd /\ Has(Other(r), g, c)' /\ map'[Other(r)][g] = map[Other(r)][g]
      BY <3>1 DEF Has
    <3> QED
      BY <2>2, <3>1, <3>2, <3>3
  <2>4. Waits(c)'
    BY <1>0, <2>1, <2>2 DEF Waits
  <2>5. Answers(c)'
    <3> SUFFICES ASSUME NEW r \in Peer, NEW i \in DOMAIN chan'[r], NEW e, e = chan'[r][i]
                 PROVE  /\ Of(r, i, c, "CREATED")' =>
                              Has(Other(r), e.from, c)' \/ InFlight(r, c, {"NOT_CREATED"})'
                        /\ Of(r, i, c, "NOT_CREATED")' =>
                              \/ c \in refused'
                              \/ \A f \in Fd : Has(r, f, c)' => socket'[r][f].watched
                              \/ InFlight(r, c, {"CREATED"})'
      BY DEF Answers
    <3>1. Of(r, i, c, "CREATED")' \/ Of(r, i, c, "NOT_CREATED")' =>
              \E j \in DOMAIN chan[r] : e = chan[r][j]
      <4>1. CASE r = p
        BY <1>6, <4>1 DEF Of
      <4>2. CASE r = q
        BY <1>7, <4>2 DEF Of
      <4> QED
        BY <1>0, <4>1, <4>2
    <3>2. \A j \in DOMAIN chan[r] : e = chan[r][j] =>
              /\ Of(r, i, c, "CREATED")' => Of(r, j, c, "CREATED")
              /\ Of(r, i, c, "NOT_CREATED")' => Of(r, j, c, "NOT_CREATED")
      BY DEF Of
    <3>3. Of(r, i, c, "CREATED")' => Has(Other(r), e.from, c) \/ InFlight(r, c, {"NOT_CREATED"})
      BY <2>1, <3>1, <3>2 DEF Answers
    <3>4. Of(r, i, c, "NOT_CREATED")' =>
              \/ c \in refused
              \/ \A f \in Fd : Has(r, f, c) => socket[r][f].watched
              \/ InFlight(r, c, {"CREATED"})
      BY <2>1, <3>1, <3>2 DEF Answers
    <3> QED
      BY <1>0, <2>2, <3>3, <3>4
  <2> QED
    BY <2>3, <2>4, <2>5 DEF Noticed
<1> QED
  BY <1>10, <1>11, <1>12, <1>13, <1>14, <1>15
-----------------------------------------------------------------------------
(* Chunks.                                                                 *)

\* The elements of a sequence, and their numbers.
LEMMA Elements ==
    ASSUME NEW S, NEW u \in Seq(S)
    PROVE  \A i \in DOMAIN u : i \in Nat /\ u[i] \in S
<1>1. DOMAIN u = 1..Len(u) /\ u \in [1..Len(u) -> S] /\ Len(u) \in Nat
  OBVIOUS
<1> QED
  BY <1>1

\* The chunks of a sequence are numbers.
LEMMA ChunkNumbers ==
    ASSUME NEW u \in Seq(1..MaxWrite)
    PROVE  \A i \in DOMAIN u : u[i] \in Nat /\ u[i] \in 1..MaxWrite
<1>1. \A i \in DOMAIN u : u[i] \in 1..MaxWrite
  BY Elements
<1> QED
  BY <1>1, TunnelAssumption

\* A sequence and one element more.
LEMMA AppendIs ==
    ASSUME NEW S, NEW u \in Seq(S), NEW x \in S, NEW v, v = Append(u, x)
    PROVE  /\ v \in Seq(S) /\ Len(u) \in Nat /\ Len(v) = Len(u) + 1
           /\ \A i \in DOMAIN u : i \in Nat /\ i \in DOMAIN v /\ v[i] = u[i]
           /\ Len(u) + 1 \in DOMAIN v /\ v[Len(u) + 1] = x
           /\ \A i \in DOMAIN v : i \in Nat /\ (i \in DOMAIN u \/ (i = Len(u) + 1 /\ v[i] = x))
           /\ \A i, j \in DOMAIN v : i < j => i \in DOMAIN u
<1>1. /\ v \in Seq(S) /\ Len(u) \in Nat /\ Len(v) = Len(u) + 1
      /\ DOMAIN u = 1..Len(u) /\ DOMAIN v = 1..(Len(u) + 1)
      /\ \A i \in 1..Len(u) : v[i] = u[i]
      /\ v[Len(u) + 1] = x
  OBVIOUS
<1>2. PICK l \in Nat : l = Len(u)
  BY <1>1
<1>3. /\ \A i \in 1..l : i \in Nat /\ i \in 1..(l + 1)
      /\ l + 1 \in 1..(l + 1)
      /\ \A i \in 1..(l + 1) : i \in Nat /\ (i \in 1..l \/ i = l + 1)
      /\ \A i, j \in 1..(l + 1) : i < j => i \in 1..l
  OBVIOUS
<1> QED
  BY <1>1, <1>2, <1>3

\* Commands are taken from the front.
LEMMA InOrderTaken ==
    ASSUME NEW c, NEW p \in Peer, NEW n \in Nat, InOrderAt(p, c), Took(p, n),
           got'[p][c] = got[p][c], wrote[Other(p)][c] \in Nat, wrote'[Other(p)][c] \in Nat,
           wrote[Other(p)][c] <= wrote'[Other(p)][c], got[p][c] \in Seq(1..MaxWrite)
    PROVE  InOrderAt(p, c)'
<1>0. MaxWrite \in Nat
  BY TunnelAssumption
<1>1. \A i \in DOMAIN chan'[p] :
          i \in Nat /\ i + n \in DOMAIN chan[p] /\ chan'[p][i] = chan[p][i + n]
  BY DEF Took
<1>2. \A i \in DOMAIN chan'[p] : Of(p, i, c, "DATA")' => Of(p, i + n, c, "DATA")
  BY <1>1 DEF Of
<1>3. \A i \in DOMAIN got[p][c] : got[p][c][i] \in Nat /\ got[p][c][i] <= wrote'[Other(p)][c]
  BY <1>0 DEF InOrderAt
<1>4. \A i, j \in DOMAIN chan'[p] : i < j /\ Of(p, i, c, "DATA")' /\ Of(p, j, c, "DATA")' =>
          chan'[p][i].chunk < chan'[p][j].chunk
  <2>1. \A i, j \in DOMAIN chan'[p] : i < j => i + n < j + n
    BY <1>1
  <2> QED
    BY <1>1, <1>2, <2>1 DEF InOrderAt
<1>5. \A i \in DOMAIN chan'[p] : Of(p, i, c, "DATA")' =>
          /\ chan'[p][i].chunk \in 1..wrote'[Other(p)][c]
          /\ \A j \in DOMAIN got[p][c] : got[p][c][j] < chan'[p][i].chunk
  <2>1. 1..wrote[Other(p)][c] \subseteq 1..wrote'[Other(p)][c]
    OBVIOUS
  <2> QED
    BY <1>1, <1>2, <2>1 DEF InOrderAt
<1> QED
  BY <1>3, <1>4, <1>5 DEF InOrderAt

\* A command is sent: not a chunk, or one above all that are there.
LEMMA InOrderSent ==
    ASSUME NEW c, NEW q \in Peer, NEW m, InOrderAt(q, c), Put(q, m),
           got'[q][c] = got[q][c], wrote[Other(q)][c] \in Nat, wrote'[Other(q)][c] \in Nat,
           wrote[Other(q)][c] <= wrote'[Other(q)][c], got[q][c] \in Seq(1..MaxWrite),
           \/ chan'[q] = chan[q] \/ m.cmd # "DATA"
           \/ /\ m.chunk \in 1..wrote[Other(q)][c]
              /\ \A j \in DOMAIN got[q][c] : got[q][c][j] < m.chunk
              /\ \A i \in DOMAIN chan[q] : Of(q, i, c, "DATA") => chan[q][i].chunk < m.chunk
    PROVE  InOrderAt(q, c)'
<1>0. MaxWrite \in Nat
  BY TunnelAssumption
<1>1. /\ DOMAIN chan[q] \subseteq Nat /\ DOMAIN chan'[q] \subseteq Nat
      /\ \A i \in DOMAIN chan'[q] :
             \/ i \in DOMAIN chan[q] /\ chan'[q][i] = chan[q][i]
             \/ /\ chan'[q][i] = m
                /\ \A j \in DOMAIN chan'[q] : j <= i
                /\ \A j \in DOMAIN chan[q] : j < i
  BY DEF Put
<1>2. \A i \in DOMAIN chan'[q] : Of(q, i, c, "DATA")' =>
          \/ i \in DOMAIN chan[q] /\ chan'[q][i] = chan[q][i] /\ Of(q, i, c, "DATA")
          \/ /\ chan'[q][i] = m
             /\ m.chunk \in 1..wrote[Other(q)][c]
             /\ \A j \in DOMAIN got[q][c] : got[q][c][j] < m.chunk
             /\ \A j \in DOMAIN chan[q] : Of(q, j, c, "DATA") => chan[q][j].chunk < m.chunk
             /\ \A j \in DOMAIN chan'[q] : j <= i
  BY <1>1 DEF Of
<1>3. \A i \in DOMAIN got[q][c] : got[q][c][i] \in Nat /\ got[q][c][i] <= wrote'[Other(q)][c]
  BY <1>0 DEF InOrderAt
<1>4. \A i, j \in DOMAIN chan'[q] : i < j /\ Of(q, i, c, "DATA")' /\ Of(q, j, c, "DATA")' =>
          chan'[q][i].chunk < chan'[q][j].chunk
  <2> SUFFICES ASSUME NEW i \in DOMAIN chan'[q], NEW j \in DOMAIN chan'[q], i < j,
                      Of(q, i, c, "DATA")', Of(q, j, c, "DATA")'
               PROVE  chan'[q][i].chunk < chan'[q][j].chunk
    OBVIOUS
  <2>1. i \in DOMAIN chan[q] /\ chan'[q][i] = chan[q][i] /\ Of(q, i, c, "DATA")
    <3>1. ~(j <= i)
      BY <1>1
    <3> QED
      BY <1>2, <3>1
  <2> QED
    BY <1>2, <2>1 DEF InOrderAt
<1>5. \A i \in DOMAIN chan'[q] : Of(q, i, c, "DATA")' =>
          /\ chan'[q][i].chunk \in 1..wrote'[Other(q)][c]
          /\ \A j \in DOMAIN got[q][c] : got[q][c][j] < chan'[q][i].chunk
  <2>1. 1..wrote[Other(q)][c] \subseteq 1..wrote'[Other(q)][c]
    OBVIOUS
  <2> QED
    BY <1>2, <2>1 DEF InOrderAt
<1> QED
  BY <1>3, <1>4, <1>5 DEF InOrderAt

\* No chunk is taken or sent.
LEMMA ComingStays ==
    ASSUME NEW c, NEW p \in Peer, NEW n \in Nat, NEW m, Took(p, n), Put(Other(p), m),
           \A i \in DOMAIN chan[p] : i <= n => ~Of(p, i, c, "DATA"),
           chan'[Other(p)] = chan[Other(p)] \/ m.cmd # "DATA"
    PROVE  \A r \in Peer : \A x : Coming(r, c, x)' <=> Coming(r, c, x)
<1> DEFINE q == Other(p)
<1>0. \A r \in Peer : r = p \/ r = q
  BY OtherIs
<1> HIDE DEF q
<1>1. Put(q, m) /\ (chan'[q] = chan[q] \/ m.cmd # "DATA")
  BY DEF q
<1>2. ASSUME NEW x PROVE Coming(p, c, x)' <=> Coming(p, c, x)
  <2>1. Coming(p, c, x)' => Coming(p, c, x)
    BY DEF Coming, Of, Took
  <2>2. ASSUME Coming(p, c, x) PROVE Coming(p, c, x)'
    <3>1. PICK i \in DOMAIN chan[p] : Of(p, i, c, "DATA") /\ chan[p][i].chunk = x
      BY <2>2 DEF Coming
    <3>2. i - n \in DOMAIN chan'[p] /\ chan'[p][i - n] = chan[p][i]
      BY <3>1 DEF Took
    <3> QED
      BY <3>1, <3>2 DEF Coming, Of
  <2> QED
    BY <2>1, <2>2
<1>3. ASSUME NEW x PROVE Coming(q, c, x)' <=> Coming(q, c, x)
  <2>1. Coming(q, c, x)' => Coming(q, c, x)
    BY <1>1 DEF Coming, Of, Put
  <2>2. Coming(q, c, x) => Coming(q, c, x)'
    BY <1>1 DEF Coming, Of, Put
  <2> QED
    BY <2>1, <2>2
<1> QED
  BY <1>0, <1>2, <1>3

\* No chunk is written or read.
LEMMA UnreadStays ==
    ASSUME NEW c, NEW p \in Peer, NEW f \in Fd, NEW t, NEW b,
           Becomes(p, f, t, b),
           \/ /\ Has(p, f, c) /\ t # None /\ t.conn = c
              /\ t.unread = socket[p][f].unread
           \/ /\ Has(p, f, c) => socket[p][f].unread = <<>>
              /\ t # None /\ t.conn = c => t.unread = <<>>
    PROVE  \A r \in Peer : \A x : Unread(r, c, x)' <=> Unread(r, c, x)
<1>1. \A u : u = <<>> => DOMAIN u = {}
  OBVIOUS
<1>2. \A r \in Peer, g \in Fd : ~(r = p /\ g = f) =>
          (Has(r, g, c)' <=> Has(r, g, c)) /\ socket'[r][g] = socket[r][g]
  BY DEF Has, Becomes
<1>3. Has(p, f, c)' <=> t # None /\ t.conn = c
  BY DEF Has, Becomes
<1>4. socket'[p][f] = t
  BY DEF Becomes
<1>5. ASSUME NEW r \in Peer, NEW x, Unread(r, c, x)' PROVE Unread(r, c, x)
  <2>1. PICK g \in Fd : Has(r, g, c)' /\ \E i \in DOMAIN socket'[r][g].unread :
                                              socket'[r][g].unread[i] = x
    BY <1>5 DEF Unread
  <2>2. CASE r = p /\ g = f
    BY <1>1, <1>3, <1>4, <2>1, <2>2 DEF Unread
  <2>3. CASE ~(r = p /\ g = f)
    BY <1>2, <2>1, <2>3 DEF Unread
  <2> QED
    BY <2>2, <2>3
<1>6. ASSUME NEW r \in Peer, NEW x, Unread(r, c, x) PROVE Unread(r, c, x)'
  <2>1. PICK g \in Fd : Has(r, g, c) /\ \E i \in DOMAIN socket[r][g].unread :
                                              socket[r][g].unread[i] = x
    BY <1>6 DEF Unread
  <2>2. CASE r = p /\ g = f
    BY <1>1, <1>3, <1>4, <2>1, <2>2 DEF Unread
  <2>3. CASE ~(r = p /\ g = f)
    BY <1>2, <2>1, <2>3 DEF Unread
  <2> QED
    BY <2>2, <2>3
<1> QED
  BY <1>5, <1>6

\* Chunks stay where they are; a socket may be new, closed or shut down.
LEMMA ChunksStay ==
    ASSUME NEW c \in Conn, ConnOK(c), ~mixed, ~mixed', up' = up, losses' = losses,
           \A r \in Peer : wrote'[r][c] = wrote[r][c] /\ got'[r][c] = got[r][c],
           SameArrived(c),
           \A r \in Peer : \A x : Coming(r, c, x)' <=> Coming(r, c, x),
           \A r \in Peer : \A x : Unread(r, c, x)' <=> Unread(r, c, x),
           \A r \in Peer, g \in Fd : Has(r, g, c)' =>
               \/ /\ Has(r, g, c)
                  /\ socket'[r][g].unread = socket[r][g].unread
                  /\ socket[r][g].watched => socket'[r][g].watched
                  /\ socket[r][g].closed => socket'[r][g].closed
                  /\ Quiet /\ socket'[r][g].shut /\ ~socket[r][g].closed =>
                         socket[r][g].shut \/ \A n \in 1..wrote[Other(r)][c] : Arrived(r, c, n)
               \/ /\ socket'[r][g].unread = <<>> /\ wrote[r][c] = 0 /\ ~socket'[r][g].shut
                  /\ \A x : ~Coming(r, c, x)
                  /\ Quiet => \A x \in 1..wrote[Other(r)][c] : Unread(Other(r), c, x)
    PROVE  UnreadInOrder(c)' /\ NoGap(c)' /\ (Quiet' => Complete(c)')
<1>0. \A r \in Peer : Other(r) \in Peer
  BY OtherIs
<1>1. UnreadInOrder(c) /\ NoGap(c) /\ (Quiet' => Complete(c)) /\ (Quiet' => Quiet)
  BY DEF ConnOK, Quiet
<1>9. \A r \in Peer : \A n : Arrived(r, c, n)' <=> Arrived(r, c, n)
  BY DEF SameArrived
<1>2. UnreadInOrder(c)'
  <2> SUFFICES ASSUME NEW r \in Peer, NEW g \in Fd, Has(r, g, c)', NEW u, u = socket'[r][g].unread
               PROVE  /\ \A i, j \in DOMAIN u : i < j => u[i] < u[j]
                      /\ \A i \in DOMAIN u :
                            /\ u[i] <= wrote'[r][c]
                            /\ \A j \in DOMAIN got'[Other(r)][c] : got'[Other(r)][c][j] < u[i]
                            /\ \A n \in Nat : Coming(Other(r), c, n)' => n < u[i]
                      /\ ~socket'[r][g].watched => \A n \in 1..wrote'[r][c] : Unread(r, c, n)'
    BY DEF UnreadInOrder
  <2>1. CASE Has(r, g, c) /\ u = socket[r][g].unread /\ (socket[r][g].watched => socket'[r][g].watched)
    BY <1>0, <1>1, <2>1 DEF UnreadInOrder
  <2>2. CASE u = <<>> /\ wrote[r][c] = 0
    BY <2>2
  <2> QED
    BY <2>1, <2>2
<1>3. NoGap(c)'
  <2> SUFFICES ASSUME losses = 0, NEW r \in Peer
               PROVE  /\ \A i \in DOMAIN got'[r][c] : \A n \in 1..got'[r][c][i] : Arrived(r, c, n)'
                      /\ \A f \in Fd : Has(r, f, c)' /\ ~socket'[r][f].closed =>
                            \A m \in Nat : Coming(r, c, m)' =>
                                \A n \in 1..m : Arrived(r, c, n)' \/ Coming(r, c, n)'
    BY DEF NoGap
  <2>1. /\ \A i \in DOMAIN got[r][c] : \A n \in 1..got[r][c][i] : Arrived(r, c, n)
        /\ \A f \in Fd : Has(r, f, c) /\ ~socket[r][f].closed =>
              \A m \in Nat : Coming(r, c, m) =>
                  \A n \in 1..m : Arrived(r, c, n) \/ Coming(r, c, n)
    BY <1>1 DEF NoGap
  <2> QED
    BY <1>9, <2>1
<1>4. ASSUME Quiet' PROVE Complete(c)'
  <2> SUFFICES ASSUME NEW r \in Peer, NEW f \in Fd, Has(r, f, c)', ~socket'[r][f].closed
               PROVE  /\ \A n \in 1..wrote'[Other(r)][c] :
                             Arrived(r, c, n)' \/ Coming(r, c, n)' \/ Unread(Other(r), c, n)'
                      /\ socket'[r][f].shut => \A n \in 1..wrote'[Other(r)][c] : Arrived(r, c, n)'
    BY DEF Complete
  <2>1. CASE /\ Has(r, f, c) /\ (socket[r][f].closed => socket'[r][f].closed)
             /\ socket'[r][f].shut /\ ~socket[r][f].closed =>
                    socket[r][f].shut \/ \A n \in 1..wrote[Other(r)][c] : Arrived(r, c, n)
    BY <1>0, <1>1, <1>4, <1>9, <2>1 DEF Complete
  <2>2. CASE /\ ~socket'[r][f].shut
             /\ \A x \in 1..wrote[Other(r)][c] : Unread(Other(r), c, x)
    BY <1>0, <2>2
  <2> QED
    BY <1>1, <1>4, <2>1, <2>2
<1> QED
  BY <1>2, <1>3, <1>4

\* The history of a connection is the same.
LEMMA HistoryIs ==
    ASSUME TypeOK, NEW c \in Conn, UNCHANGED <<wrote, got, cut>>
    PROVE  \A r \in Peer : /\ wrote[r][c] \in Nat /\ wrote'[r][c] \in Nat
                           /\ wrote[r][c] <= wrote'[r][c]
                           /\ wrote'[r][c] = wrote[r][c]
                           /\ got'[r][c] = got[r][c] /\ got[r][c] \in Seq(1..MaxWrite)
<1>1. \A r \in Peer : wrote[r][c] \in 0..MaxWrite /\ got[r][c] \in Seq(1..MaxWrite)
  BY DEF TypeOK
<1>2. \A r \in Peer : wrote[r][c] \in Nat /\ wrote[r][c] <= wrote[r][c]
  BY <1>1
<1> QED
  BY <1>1, <1>2
-----------------------------------------------------------------------------
(* A step of one peer keeps the invariant.                                 *)

\* A step of one peer keeps the invariant if it keeps it of its own connection: all
\* the others have what they had.
LEMMA StepKeeps ==
    ASSUME IInv, ~mixed, NEW p \in Peer, NEW f, NEW t, NEW b, NEW n, NEW m,
           NEW c \in Conn, StepOf(c, p, f, t, b, n, m), TypeOK',
           ~mixed' => ConnOK(c)'
    PROVE  IInv'
<1>1. Base /\ TypeOK /\ \A d \in Conn : ConnOK(d)
  BY DEF IInv, Base
<1>2. Base'
  BY <1>1, BaseStep
<1>3. ASSUME ~mixed', NEW d \in Conn, d # c PROVE ConnOK(d)'
  BY <1>1, <1>3, OthersKeep
<1> QED
  BY <1>2, <1>3 DEF IInv

\* The first command for p.
LEMMA HeadIs ==
    ASSUME Base, NEW p \in Peer, NEW cmd, Got(p, cmd), NEW h, h = Head(chan[p])
    PROVE  /\ p \in up /\ chan[p] \in Seq(Message) /\ chan[p] # <<>>
           /\ 1 \in DOMAIN chan[p] /\ h = chan[p][1] /\ h \in Message /\ h.cmd = cmd
           /\ h.conn \in Conn /\ ~(accepted < h.conn) /\ Of(p, 1, h.conn, cmd)
           /\ cmd # "CREATE" => h.fd \in Fd
           /\ cmd \in {"CREATE", "CREATED"} => h.from \in Fd
           /\ \A i \in DOMAIN chan[p] : i = 1 => chan[p][i].conn = h.conn
           /\ \A i \in DOMAIN chan[p] : i <= 1 => i = 1
<1>1. TypeOK /\ Addressed /\ Unborn
  BY DEF Base
<1>2. p \in up /\ chan[p] \in Seq(Message) /\ chan[p] # <<>> /\ h.cmd = cmd
  BY <1>1 DEF Got, TypeOK
<1>3. 1 \in DOMAIN chan[p] /\ h = chan[p][1] /\ h \in Message
      /\ \A i \in DOMAIN chan[p] : i <= 1 => i = 1
  BY <1>2
<1>4. h.conn \in Conn
  BY <1>3 DEF Message
<1>5. ~(accepted < h.conn)
  BY <1>1, <1>3, <1>4 DEF Unborn, Silent
<1>6. /\ cmd # "CREATE" => h.fd \in Fd
      /\ cmd \in {"CREATE", "CREATED"} => h.from \in Fd
  BY <1>1, <1>2, <1>3 DEF Addressed
<1>7. Of(p, 1, h.conn, cmd)
  BY <1>2, <1>3 DEF Of
<1> QED
  BY <1>2, <1>3, <1>4, <1>5, <1>6, <1>7

\* The commands after one is taken, and after m is sent.
LEMMA Takes ==
    ASSUME TypeOK, NEW p \in Peer, chan[p] # <<>>, chan' = Received(p), NEW q, q = Other(p)
    PROVE  /\ chan' \in [Peer -> Seq(Message)] /\ Took(p, 1)
           /\ chan'[q] = chan[q] /\ \A m : Put(q, m)
<1>1. q \in Peer /\ q # p
  BY OtherIs
<1>2. chan \in [Peer -> Seq(Message)]
  BY DEF TypeOK
<1>3. /\ chan' \in [Peer -> Seq(Message)]
      /\ chan'[p] = Tail(chan[p]) /\ chan'[q] = chan[q]
  BY <1>1, <1>2, ReceivedIs
<1>4. Took(p, 1)
  BY <1>2, <1>3, TookIs
<1>5. chan[q] \in Seq(Message)
  BY <1>1, <1>2
<1> QED
  BY <1>1, <1>3, <1>4, <1>5, TookNone

\* A step that only sends.
LEMMA Sends ==
    ASSUME TypeOK, NEW p \in Peer, NEW q, q = Other(p), NEW m \in Message, chan' = Send(q, m, chan)
    PROVE  /\ chan' \in [Peer -> Seq(Message)] /\ Took(p, 0) /\ chan'[p] = chan[p]
           /\ Put(q, m) /\ (Delivered(q) => \E i \in DOMAIN chan'[q] : chan'[q][i] = m)
<1>1. q \in Peer /\ q # p
  BY OtherIs
<1>2. chan \in [Peer -> Seq(Message)] /\ chan[p] \in Seq(Message) /\ chan[q] \in Seq(Message)
  BY <1>1 DEF TypeOK
<1>3. Send(q, m, chan) = chan'
  OBVIOUS
<1>4. /\ chan' \in [Peer -> Seq(Message)]
      /\ chan'[q] = IF Delivered(q) THEN Append(chan[q], m) ELSE chan[q]
      /\ chan'[p] = chan[p]
  BY <1>1, <1>2, <1>3, SendIs
<1>5. Took(p, 0)
  BY <1>2, <1>4, TookNone
<1>6. Put(q, m) /\ (Delivered(q) => \E i \in DOMAIN chan'[q] : chan'[q][i] = m)
  BY <1>1, <1>2, <1>4, PutIs
<1> QED
  BY <1>4, <1>5, <1>6

\* A step that takes a command and sends one.
LEMMA TakesSends ==
    ASSUME TypeOK, NEW p \in Peer, chan[p] # <<>>, NEW q, q = Other(p), NEW m \in Message,
           chan' = Send(q, m, Received(p))
    PROVE  /\ chan' \in [Peer -> Seq(Message)] /\ Took(p, 1)
           /\ Put(q, m) /\ (Delivered(q) => \E i \in DOMAIN chan'[q] : chan'[q][i] = m)
<1>1. q \in Peer /\ q # p
  BY OtherIs
<1>2. chan \in [Peer -> Seq(Message)] /\ chan[p] \in Seq(Message) /\ chan[q] \in Seq(Message)
  BY <1>1 DEF TypeOK
<1>3. /\ Received(p) \in [Peer -> Seq(Message)]
      /\ Received(p)[p] = Tail(chan[p]) /\ Received(p)[q] = chan[q]
  BY <1>1, <1>2, ReceivedIs
<1>4. Send(q, m, Received(p)) = chan'
  OBVIOUS
<1>5. /\ chan' \in [Peer -> Seq(Message)]
      /\ chan'[q] = IF Delivered(q) THEN Append(chan[q], m) ELSE chan[q]
      /\ chan'[p] = Tail(chan[p])
  <2>1. /\ chan' \in [Peer -> Seq(Message)]
        /\ chan'[q] = IF Delivered(q) THEN Append(Received(p)[q], m) ELSE Received(p)[q]
        /\ \A r \in Peer : r # q => chan'[r] = Received(p)[r]
    BY <1>1, <1>3, <1>4, SendIs
  <2> QED
    BY <1>1, <1>3, <2>1
<1>6. Took(p, 1)
  BY <1>2, <1>5, TookIs
<1>7. Put(q, m) /\ (Delivered(q) => \E i \in DOMAIN chan'[q] : chan'[q][i] = m)
  BY <1>1, <1>2, <1>5, PutIs
<1> QED
  BY <1>5, <1>6, <1>7

\* A sequence and another one behind it.
LEMMA ConcatIs ==
    ASSUME NEW S, NEW u \in Seq(S), NEW v \in Seq(S), NEW w, w = u \o v,
           NEW l, l = Len(u), NEW n, n = Len(v)
    PROVE  /\ w \in Seq(S) /\ l \in Nat /\ n \in Nat
           /\ DOMAIN u = 1..l /\ DOMAIN w = 1..(l + n)
           /\ \A i \in 1..l : w[i] = u[i]
           /\ \A i \in 1..(l + n) : i \notin 1..l => w[i] = v[i - l]
<1>1. /\ l \in Nat /\ n \in Nat /\ DOMAIN u = 1..l /\ w \in Seq(S)
  OBVIOUS
<1>2. Len(w) = l + n
  OBVIOUS
<1>3. DOMAIN w = 1..(l + n)
  BY <1>1, <1>2
<1>4. \A i \in 1..l : w[i] = u[i]
  BY <1>1
<1>5. \A i \in 1..(l + n) : i \notin 1..l => w[i] = v[i - l]
  BY <1>1
<1> QED
  BY <1>1, <1>3, <1>4, <1>5
\* There is a bound on what is written.
LEMMA WrittenFinite == IsFiniteSet(Written)
<1> DEFINE S == (Peer \X Conn) \X (1..MaxWrite)
           T == Peer \X Conn \X (1..MaxWrite)
           f == [x \in S |-> <<x[1][1], x[1][2], x[2]>>]
<1>1. IsFiniteSet(S)
  <2>1. PICK a, b \in Peer : Peer = {a, b}
    BY TunnelAssumption
  <2>2. IsFiniteSet({a}) /\ {a} \cup {b} = Peer
    BY <2>1, FS_Singleton
  <2>3. IsFiniteSet(Peer)
    BY <2>2, FS_AddElement
  <2>4. IsFiniteSet(Conn) /\ IsFiniteSet(1..MaxWrite)
    BY TunnelAssumption, FS_Interval DEF Conn
  <2>5. IsFiniteSet(Peer \X Conn)
    BY <2>3, <2>4, FS_Product
  <2> QED
    BY <2>4, <2>5, FS_Product
<1>2. f \in Surjection(S, T)
  <2>1. f \in [S -> T]
    OBVIOUS
  <2>2. ASSUME NEW w \in T PROVE \E x \in S : f[x] = w
    <3>1. <<<<w[1], w[2]>>, w[3]>> \in S /\ w = <<w[1], w[2], w[3]>>
      BY <2>2
    <3>2. f[<<<<w[1], w[2]>>, w[3]>>] = w
      BY <3>1
    <3> QED
      BY <3>1, <3>2
  <2> QED
    BY <2>1, <2>2 DEF Surjection
<1>3. IsFiniteSet(T)
  BY <1>1, <1>2, FS_Surjection
<1>4. Written \subseteq T
  BY DEF Written
<1> QED
  BY <1>3, <1>4, FS_Subset

\* One chunk more is within the bound as long as fewer than MaxWrite were written.
LEMMA WroteBelow ==
    ASSUME TypeOK, NEW p \in Peer, NEW c \in Conn, Cardinality(Written) < MaxWrite
    PROVE  wrote[p][c] + 1 \in 1..MaxWrite
<1> DEFINE w == wrote[p][c]
           g == [n \in 1..w |-> <<p, c, n>>]
<1>1. w \in 0..MaxWrite /\ w \in Nat /\ MaxWrite \in Nat
  BY TunnelAssumption DEF TypeOK
<1>2. g \in Injection(1..w, Written)
  <2>1. \A n \in 1..w : <<p, c, n>> \in Written
    BY <1>1 DEF Written
  <2> QED
    BY <2>1 DEF Injection, IsInjective
<1>3. Cardinality(1..w) <= Cardinality(Written) /\ Cardinality(Written) \in Nat
  BY <1>2, WrittenFinite, FS_Injection, FS_CardinalityType
<1>4. Cardinality(1..w) = w
  <2>1. w \in Int /\ 1 \in Int
    BY <1>1
  <2>2. Cardinality(1..w) = IF 1 <= w THEN w - 1 + 1 ELSE 0
    BY <2>1, FS_Interval
  <2> HIDE DEF w
  <2> QED
    BY <1>1, <2>2
<1> QED
  BY <1>1, <1>3, <1>4

\* A client or server writes: the chunk is the last of its socket.
LEMMA EndWritesKeeps ==
    ASSUME IInv, ~mixed, NEW p \in Peer, NEW f \in Fd, EndWrites(p, f),
           NEW s, s = socket[p][f], NEW c, c = s.conn, NEW w, w = wrote[p][c] + 1
    PROVE  IInv'
<1> DEFINE q == Other(p)
           t == [s EXCEPT !.unread = Append(@, w)]
           m == Msg("NOT_CREATED", f, None, c, 0)
<1>0. /\ q \in Peer /\ q # p /\ Other(p) = q /\ Other(q) = p
      /\ \A r \in Peer : (r = p \/ r = q) /\ Other(r) \in Peer
  BY OtherIs
<1>1. /\ s # None /\ UNCHANGED <<up, linked, map, chan, accepted, got, cut, refused, losses, mixed>>
      /\ ~s.closed /\ Cardinality(Written) < MaxWrite
      /\ wrote' = [wrote EXCEPT ![p][c] = w]
      /\ socket' = [socket EXCEPT ![p][f].unread = Append(@, wrote'[p][c])]
  BY DEF EndWrites
<1>2. Base /\ TypeOK /\ \A d \in Conn : ConnOK(d)
  BY DEF IInv, Base
<1>3. /\ s \in Socket /\ c \in Conn /\ p \in up /\ Has(p, f, c) /\ ~(accepted < c)
      /\ map[p][f] \in Fd \cup {None} /\ (map[p][f] # None <=> s.watched)
      /\ s.unread \in Seq(1..MaxWrite)
  BY <1>1, <1>2, SocketOf
<1>4. /\ w \in 1..MaxWrite /\ wrote[p][c] \in Nat /\ w = wrote[p][c] + 1
      /\ wrote[q][c] \in Nat
  <2>1. wrote[p][c] \in 0..MaxWrite /\ wrote[q][c] \in 0..MaxWrite
    BY <1>0, <1>2, <1>3 DEF TypeOK
  <2>2. w \in 1..MaxWrite
    BY <1>1, <1>2, <1>3, WroteBelow
  <2> QED
    BY <2>1, <2>2
<1>5. /\ wrote' \in [Peer -> [Conn -> 0..MaxWrite]] /\ wrote'[p][c] = w
      /\ \A r \in Peer, d \in Conn : r # p \/ d # c => wrote'[r][d] = wrote[r][d]
  <2>1. wrote \in [Peer -> [Conn -> 0..MaxWrite]]
    BY <1>2 DEF TypeOK
  <2>2. w \in 0..MaxWrite
    BY <1>4, TunnelAssumption
  <2> QED
    BY <1>1, <1>3, <2>1, <2>2
<1>6. Append(s.unread, w) \in Seq(1..MaxWrite)
  BY <1>3, <1>4
<1>7. t \in Socket /\ t # None
  BY <1>3, <1>6, SocketIs, TunnelAssumption
<1>8. /\ t.conn = c /\ t.watched = s.watched /\ t.shut = s.shut /\ t.closed = s.closed
      /\ t.unread = Append(s.unread, w)
  BY <1>3 DEF Socket
<1>9. socket' = [socket EXCEPT ![p][f] = t]
  BY <1>1, <1>5
<1>10. m.conn = c /\ m.cmd = "NOT_CREATED" /\ m.fd = f
  BY DEF Msg
<1> HIDE DEF q, t, m
<1>11. /\ socket' \in [Peer -> [Fd -> Socket \cup {None}]]
       /\ map' \in [Peer -> [Fd -> Fd \cup {None}]] /\ Becomes(p, f, t, map[p][f])
  BY <1>1, <1>2, <1>3, <1>7, <1>9, SocketBecomes
<1>12. TypeOK'
  BY <1>1, <1>2, <1>5, <1>11 DEF TypeOK
<1>13. Took(p, 0) /\ Put(q, m) /\ Took(q, 0)
  <2>1. chan[p] \in Seq(Message) /\ chan[q] \in Seq(Message)
    BY <1>0, <1>2 DEF TypeOK
  <2> QED
    BY <1>0, <1>1, <2>1, TookNone
<1>14. StepOf(c, p, f, t, map[p][f], 0, m)
  <2>1. accepted <= accepted'
    BY <1>1, <1>2 DEF TypeOK
  <2>2. OneStep(p, f, t, map[p][f], 0, m)
    BY <1>0, <1>1, <1>11, <1>13 DEF OneStep
  <2>3. OnlyOf(c)
    BY <1>1, <1>5, ArrivedIs DEF OnlyOf
  <2> QED
    BY <1>1, <1>3, <1>7, <1>8, <1>10, <2>1, <2>2, <2>3 DEF StepOf
<1>15. \A r \in Peer : \A g, d : Has(r, g, d)' <=> Has(r, g, d)
  BY <1>1, <1>7, <1>8, <1>11, SameHas
<1>16. /\ OneSocket(c) /\ Named(c) /\ InOrder(c) /\ UnreadInOrder(c) /\ NoGap(c)
       /\ Quiet' => Quiet /\ Complete(c)
  BY <1>1, <1>2, <1>3 DEF ConnOK, Quiet
<1>17. \A r \in Peer : \A x : Coming(r, c, x)' <=> Coming(r, c, x)
  BY <1>1 DEF Coming, Of
<1>18. \A r \in Peer, g \in Fd : Has(r, g, c) =>
           /\ socket'[r][g].watched = socket[r][g].watched
           /\ socket'[r][g].shut = socket[r][g].shut
           /\ socket'[r][g].closed = socket[r][g].closed
           /\ map'[r][g] = map[r][g]
           /\ r = q => socket'[r][g] = socket[r][g]
           /\ r = p => g = f
  <2>1. \A g \in Fd : Has(p, g, c) => g = f
    BY <1>3, <1>16 DEF OneSocket
  <2>2. /\ \A g \in Fd : socket'[q][g] = socket[q][g]
        /\ socket'[p][f] = t /\ map' = map
    BY <1>0, <1>1, <1>11 DEF Becomes
  <2> QED
    BY <1>0, <1>3, <1>8, <2>1, <2>2
<1>19. /\ Len(s.unread) \in Nat
       /\ \A i \in DOMAIN s.unread : i \in Nat /\ i \in DOMAIN t.unread /\ t.unread[i] = s.unread[i]
       /\ Len(s.unread) + 1 \in DOMAIN t.unread /\ t.unread[Len(s.unread) + 1] = w
       /\ \A i \in DOMAIN t.unread :
              i \in Nat /\ (i \in DOMAIN s.unread \/ (i = Len(s.unread) + 1 /\ t.unread[i] = w))
       /\ \A i, j \in DOMAIN t.unread : i < j => i \in DOMAIN s.unread
       /\ \A i \in DOMAIN s.unread : s.unread[i] \in Nat
  <2>1. \A i \in DOMAIN s.unread : s.unread[i] \in Nat
    BY <1>3, ChunkNumbers
  <2>2. t.unread = Append(s.unread, w) /\ s.unread \in Seq(1..MaxWrite) /\ w \in 1..MaxWrite
    BY <1>3, <1>4, <1>8
  <2>3. /\ Len(s.unread) \in Nat
        /\ \A i \in DOMAIN s.unread : i \in Nat /\ i \in DOMAIN t.unread /\ t.unread[i] = s.unread[i]
        /\ Len(s.unread) + 1 \in DOMAIN t.unread /\ t.unread[Len(s.unread) + 1] = w
        /\ \A i \in DOMAIN t.unread :
               i \in Nat /\ (i \in DOMAIN s.unread \/ (i = Len(s.unread) + 1 /\ t.unread[i] = w))
        /\ \A i, j \in DOMAIN t.unread : i < j => i \in DOMAIN s.unread
    BY ONLY <2>2, AppendIs
  <2> QED
    BY <2>1, <2>3
<1>20. socket'[p][f] = t /\ Has(p, f, c)'
  BY <1>3, <1>11, <1>15 DEF Becomes
<1>21. \A x : Unread(p, c, x) => Unread(p, c, x)'
  BY <1>18, <1>19, <1>20 DEF Unread
<1>22. Unread(p, c, w)' /\ \A x : Unread(q, c, x) <=> Unread(q, c, x)'
  <2>2. Unread(p, c, w)'
    BY <1>19, <1>20 DEF Unread
  <2> QED
    BY <1>0, <1>15, <1>18, <2>2 DEF Unread
<1>23. ConnOK(c)'
  <2>1. /\ OneSocket(c)' /\ Asked(c)' /\ Answered(c)' /\ Final(c)' /\ Named(c)'
        /\ Quiet' => Noticed(c)'
    <3>1. \A r \in Peer : wrote'[r][c] = wrote[r][c] \/ (\E g \in Fd : r = p /\ Has(p, g, c))
      BY <1>3, <1>5
    <3> QED
      <4>1. \A r \in Peer, g \in Fd : Has(r, g, c) =>
                /\ socket'[r][g].watched = socket[r][g].watched
                /\ socket'[r][g].shut = socket[r][g].shut
                /\ map'[r][g] = map[r][g]
        BY <1>18
      <4>2. /\ Took(p, 0) /\ Put(Other(p), m) /\ 0 \in {0, 1} /\ ~(0 = 1)
            /\ chan'[Other(p)] = chan[Other(p)] /\ p \in up
            /\ \A r \in Peer : got'[r][c] = got[r][c]
            /\ ConnOK(c) /\ ~mixed'
        BY <1>0, <1>1, <1>2, <1>3, <1>13
      <4>3. up' = up /\ losses' = losses /\ refused' = refused
        BY <1>1
      <4>4. \A r \in Peer : \A g : Has(r, g, c)' <=> Has(r, g, c)
        BY <1>15
      <4> QED
        BY <1>3, <3>1, <4>1, <4>2, <4>3, <4>4, PlainStep
  <2>2. InOrder(c)'
    <3>1. got'[p][c] = got[p][c] /\ got'[q][c] = got[q][c]
          /\ got[p][c] \in Seq(1..MaxWrite) /\ got[q][c] \in Seq(1..MaxWrite)
      BY <1>0, <1>1, <1>2, <1>3 DEF TypeOK
    <3>2. InOrderAt(p, c) /\ InOrderAt(q, c)
      BY <1>0, <1>16 DEF InOrder
    <3>3. \A r \in Peer : /\ wrote[Other(r)][c] \in Nat /\ wrote'[Other(r)][c] \in Nat
                          /\ wrote[Other(r)][c] <= wrote'[Other(r)][c]
                          /\ InOrderAt(r, c) /\ Took(r, 0) /\ got'[r][c] = got[r][c]
                          /\ got[r][c] \in Seq(1..MaxWrite)
      <4>1. /\ wrote'[p][c] \in Nat /\ wrote[p][c] <= wrote'[p][c]
            /\ wrote'[q][c] \in Nat /\ wrote[q][c] <= wrote'[q][c]
        BY <1>0, <1>3, <1>4, <1>5
      <4> QED
        BY <1>0, <1>4, <1>13, <3>1, <3>2, <4>1
    <3>4. \A r \in Peer : InOrderAt(r, c)'
      BY <3>3, InOrderTaken
    <3> QED
      BY <3>4 DEF InOrder
  <2>3. UnreadInOrder(c)'
    <3> SUFFICES ASSUME NEW r \in Peer, NEW g \in Fd, Has(r, g, c)', NEW u, u = socket'[r][g].unread
                 PROVE  /\ \A i, j \in DOMAIN u : i < j => u[i] < u[j]
                        /\ \A i \in DOMAIN u :
                              /\ u[i] <= wrote'[r][c]
                              /\ \A j \in DOMAIN got'[Other(r)][c] : got'[Other(r)][c][j] < u[i]
                              /\ \A n \in Nat : Coming(Other(r), c, n)' => n < u[i]
                        /\ ~socket'[r][g].watched => \A n \in 1..wrote'[r][c] : Unread(r, c, n)'
      BY DEF UnreadInOrder
    <3>1. CASE r = q
      <4>1. /\ Has(q, g, c) /\ g \in Fd /\ u = socket[q][g].unread
            /\ socket'[q][g] = socket[q][g] /\ wrote'[q][c] = wrote[q][c]
        BY <1>0, <1>3, <1>5, <1>15, <1>18, <3>1
      <4>2. /\ \A i, j \in DOMAIN u : i < j => u[i] < u[j]
            /\ \A i \in DOMAIN u :
                  /\ u[i] <= wrote[q][c]
                  /\ \A j \in DOMAIN got[p][c] : got[p][c][j] < u[i]
                  /\ \A n \in Nat : Coming(p, c, n) => n < u[i]
            /\ ~socket[q][g].watched => \A n \in 1..wrote[q][c] : Unread(q, c, n)
        BY <1>0, <1>16, <4>1 DEF UnreadInOrder
      <4> QED
        BY <1>0, <1>1, <1>17, <1>22, <3>1, <4>1, <4>2
    <3>2. CASE r = p
      <4>1. g = f /\ u = t.unread
        BY <1>15, <1>18, <1>20, <3>2
      <4>2. /\ \A i, j \in DOMAIN s.unread : i < j => s.unread[i] < s.unread[j]
            /\ \A i \in DOMAIN s.unread :
                  /\ s.unread[i] <= wrote[p][c]
                  /\ \A j \in DOMAIN got[q][c] : got[q][c][j] < s.unread[i]
                  /\ \A n \in Nat : Coming(q, c, n) => n < s.unread[i]
            /\ ~s.watched => \A n \in 1..wrote[p][c] : Unread(p, c, n)
        BY <1>0, <1>3, <1>16 DEF UnreadInOrder
      <4>4. \A i, j \in DOMAIN u : i < j => u[i] < u[j]
        <5> SUFFICES ASSUME NEW i \in DOMAIN u, NEW j \in DOMAIN u, i < j PROVE u[i] < u[j]
          OBVIOUS
        <5>1. i \in DOMAIN s.unread
          BY <1>19, <4>1
        <5>2. u[i] = s.unread[i] /\ u[i] \in Nat /\ u[i] < w
          <6>1. u[i] = s.unread[i] /\ s.unread[i] \in Nat /\ s.unread[i] <= wrote[p][c]
            BY <1>19, <4>1, <4>2, <5>1
          <6> QED
            BY <1>4, <6>1
        <5> QED
          BY <1>19, <4>1, <4>2, <5>1, <5>2
      <4>5. /\ \A j \in DOMAIN got[q][c] : got[q][c][j] < w
            /\ \A n \in Nat : Coming(q, c, n) => n < w
        <5>1. InOrderAt(q, c)
          BY <1>0, <1>16 DEF InOrder
        <5>2. \A j \in DOMAIN got[q][c] : got[q][c][j] \in Nat
          <6>1. got[q][c] \in Seq(1..MaxWrite)
            BY <1>0, <1>2, <1>3 DEF TypeOK
          <6> QED
            BY <6>1, ChunkNumbers
        <5>3. \A n \in Nat : Coming(q, c, n) => n <= wrote[p][c]
          BY <1>0, <1>4, <5>1 DEF InOrderAt, Coming
        <5> QED
          BY <1>0, <1>4, <5>1, <5>2, <5>3 DEF InOrderAt
      <4>6. \A i \in DOMAIN u :
                /\ u[i] <= w
                /\ \A j \in DOMAIN got[q][c] : got[q][c][j] < u[i]
                /\ \A n \in Nat : Coming(q, c, n) => n < u[i]
        <5> SUFFICES ASSUME NEW i \in DOMAIN u
                     PROVE  /\ u[i] <= w
                            /\ \A j \in DOMAIN got[q][c] : got[q][c][j] < u[i]
                            /\ \A n \in Nat : Coming(q, c, n) => n < u[i]
          OBVIOUS
        <5>1. CASE i \in DOMAIN s.unread
          <6>1. u[i] = s.unread[i] /\ u[i] \in Nat
            BY <1>19, <4>1, <5>1
          <6> QED
            BY <1>4, <4>2, <5>1, <6>1
        <5>2. CASE i = Len(s.unread) + 1
          <6>1. u[i] = w
            BY <1>19, <4>1, <5>2
          <6> QED
            BY <1>4, <4>5, <6>1
        <5> QED
          BY <1>19, <4>1, <5>1, <5>2
      <4>7. ~s.watched => \A n \in 1..w : Unread(p, c, n)'
        BY <1>4, <1>21, <1>22, <4>2
      <4>8. /\ r = p /\ Other(r) = q /\ wrote'[r][c] = w /\ got'[q][c] = got[q][c]
            /\ socket'[r][g].watched = s.watched
        BY <1>0, <1>1, <1>5, <1>8, <1>20, <3>2, <4>1
      <4>9. \A n \in Nat : Coming(q, c, n)' <=> Coming(q, c, n)
        BY <1>0, <1>17
      <4> QED
        BY <4>4, <4>6, <4>7, <4>8, <4>9
    <3> QED
      BY <1>0, <3>1, <3>2
  <2>4. NoGap(c)'
    <3>1. NoGap(c) /\ losses' = losses /\ got' = got
      BY <1>1, <1>16
    <3>3. \A r \in Peer : \A n : Arrived(r, c, n)' <=> Arrived(r, c, n)
      BY <1>1, ArrivedIs DEF SameArrived
    <3>2. \A r \in Peer, g \in Fd : Has(r, g, c)' /\ ~socket'[r][g].closed =>
              Has(r, g, c) /\ ~socket[r][g].closed
      BY <1>15, <1>18
    <3> QED
      BY <1>17, <3>1, <3>2, <3>3 DEF NoGap
  <2>5. ASSUME Quiet' PROVE Complete(c)'
    <3> SUFFICES ASSUME NEW r \in Peer, NEW g \in Fd, Has(r, g, c)', ~socket'[r][g].closed
                 PROVE  /\ \A n \in 1..wrote'[Other(r)][c] :
                               Arrived(r, c, n)' \/ Coming(r, c, n)' \/ Unread(Other(r), c, n)'
                        /\ socket'[r][g].shut => \A n \in 1..wrote'[Other(r)][c] : Arrived(r, c, n)'
      BY DEF Complete
    <3>1. /\ Has(r, g, c) /\ ~socket[r][g].closed
          /\ socket'[r][g].shut = socket[r][g].shut
      BY <1>15, <1>18
    <3>2. /\ \A n \in 1..wrote[Other(r)][c] :
                 Arrived(r, c, n) \/ Coming(r, c, n) \/ Unread(Other(r), c, n)
          /\ socket[r][g].shut => \A n \in 1..wrote[Other(r)][c] : Arrived(r, c, n)
      BY <1>16, <2>5, <3>1 DEF Complete
    <3>5. \A n : Arrived(r, c, n)' <=> Arrived(r, c, n)
      BY <1>1, ArrivedIs DEF SameArrived
    <3>3. CASE r = p
      BY <1>0, <1>1, <1>3, <1>5, <1>17, <1>22, <3>1, <3>2, <3>3, <3>5
    <3>4. CASE r = q
      <4>1. ~socket[r][g].shut
        BY <1>0, <1>3, <1>16, <3>1, <3>4 DEF Named, NoSocket
      <4>2. \A n \in 1..w : n \in 1..wrote[p][c] \/ n = w
        BY <1>4
      <4> QED
        <5>1. Other(r) = p /\ wrote'[p][c] = w /\ got'[r][c] = got[r][c] /\ r \in Peer
          BY <1>0, <1>1, <1>5, <3>4
        <5>2. \A n \in 1..wrote[p][c] :
                  Arrived(r, c, n)' \/ Coming(r, c, n)' \/ Unread(p, c, n)'
          BY <1>17, <1>21, <3>2, <3>5, <5>1
        <5>3. ~socket'[r][g].shut
          BY <3>1, <4>1
        <5> QED
          BY <1>22, <4>2, <5>1, <5>2, <5>3
    <3> QED
      BY <1>0, <3>3, <3>4
  <2> QED
    BY <2>1, <2>2, <2>3, <2>4, <2>5 DEF ConnOK
<1> QED
  BY <1>3, <1>12, <1>14, <1>23, StepKeeps
-----------------------------------------------------------------------------
(* One operation each.                                                     *)

\* A client or server closes: what was promised of a socket that is open lapses.
LEMMA EndClosesKeeps ==
    ASSUME IInv, ~mixed, NEW p \in Peer, NEW f \in Fd, EndCloses(p, f),
           NEW s, s = socket[p][f], NEW c, c = s.conn
    PROVE  IInv'
<1> DEFINE q == Other(p)
           t == [s EXCEPT !.closed = TRUE]
           m == Msg("NOT_CREATED", f, None, c, 0)
<1>1. /\ s # None /\ UNCHANGED <<up, linked, map, chan, accepted, wrote, got, cut, refused, losses, mixed>>
      /\ socket' = [socket EXCEPT ![p][f] = t]
  BY DEF EndCloses
<1>2. Base /\ TypeOK /\ \A d \in Conn : ConnOK(d)
  BY DEF IInv, Base
<1>3. /\ s \in Socket /\ c \in Conn /\ p \in up /\ Has(p, f, c) /\ ~(accepted < c)
      /\ map[p][f] \in Fd \cup {None} /\ (map[p][f] # None <=> s.watched)
      /\ s.unread \in Seq(1..MaxWrite)
  BY <1>1, <1>2, SocketOf
<1>4. t \in Socket /\ t # None
  BY <1>3, SocketIs, TunnelAssumption
<1>5. /\ t.conn = c /\ t.watched = s.watched /\ t.shut = s.shut /\ t.unread = s.unread /\ t.closed
  BY <1>3 DEF Socket
<1>6. m.conn = c /\ m.cmd = "NOT_CREATED" /\ m.fd = f
  BY DEF Msg
<1>7. q \in Peer /\ q = Other(p)
  BY OtherIs
<1> HIDE DEF q, t, m
<1>8. /\ socket' \in [Peer -> [Fd -> Socket \cup {None}]]
      /\ map' \in [Peer -> [Fd -> Fd \cup {None}]] /\ Becomes(p, f, t, map[p][f])
  BY <1>1, <1>2, <1>3, <1>4, SocketBecomes
<1>9. TypeOK'
  BY <1>1, <1>2, <1>8 DEF TypeOK
<1>10. Took(p, 0) /\ Put(q, m)
  <2>1. chan[p] \in Seq(Message) /\ chan[q] \in Seq(Message)
    BY <1>2, <1>7 DEF TypeOK
  <2> QED
    BY <1>1, <1>7, <2>1, TookNone
<1>11. OneStep(p, f, t, map[p][f], 0, m)
  BY <1>1, <1>7, <1>8, <1>10 DEF OneStep
<1>12. \A r \in Peer : \A g, d : Has(r, g, d)' <=> Has(r, g, d)
  BY <1>1, <1>4, <1>5, <1>8, SameHas
<1>13. /\ \A r \in Peer : \A x : Coming(r, c, x)' <=> Coming(r, c, x)
       /\ \A r \in Peer : \A x : Unread(r, c, x)' <=> Unread(r, c, x)
  <2>1. \A r \in Peer : \A x : Coming(r, c, x)' <=> Coming(r, c, x)
    BY <1>1 DEF Coming, Of
  <2>3. \A r \in Peer : \A x : Unread(r, c, x)' <=> Unread(r, c, x)
    <3>1. Has(p, f, c) /\ t # None /\ t.conn = c /\ t.unread = socket[p][f].unread
      BY <1>3, <1>4, <1>5
    <3> QED
      BY <1>8, <3>1, UnreadStays
  <2> QED
    BY <2>1, <2>3
<1>14. ConnOK(c)'
  <2>1. /\ OneSocket(c)' /\ Asked(c)' /\ Answered(c)' /\ Final(c)' /\ Named(c)'
        /\ Quiet' => Noticed(c)'
    <3>1. \A r \in Peer, g \in Fd : Has(r, g, c) =>
              /\ socket'[r][g].watched = socket[r][g].watched
              /\ socket'[r][g].shut = socket[r][g].shut
              /\ map'[r][g] = map[r][g]
      BY <1>1, <1>5, <1>8 DEF Becomes
    <3> QED
      BY <1>1, <1>2, <1>3, <1>7, <1>10, <1>12, <3>1, PlainStep
  <2>2. InOrder(c)'
    BY <1>1, <1>2, <1>3 DEF ConnOK, InOrder, InOrderAt, Of
  <2>3. UnreadInOrder(c)' /\ NoGap(c)' /\ (Quiet' => Complete(c)')
    <3>1. \A r \in Peer, g \in Fd : Has(r, g, c)' =>
              /\ Has(r, g, c)
              /\ socket'[r][g].unread = socket[r][g].unread
              /\ socket[r][g].watched => socket'[r][g].watched
              /\ socket[r][g].closed => socket'[r][g].closed
              /\ socket'[r][g].shut => socket[r][g].shut
      BY <1>5, <1>8, <1>12 DEF Becomes
    <3> QED
      BY <1>1, <1>2, <1>3, <1>13, <3>1, ArrivedIs, ArrivedIs, ChunksStay
  <2> QED
    BY <2>1, <2>2, <2>3 DEF ConnOK
<1>15. StepOf(c, p, f, t, map[p][f], 0, m)
  <2>1. accepted <= accepted'
    BY <1>1, <1>2 DEF TypeOK
  <2> QED
    BY <1>1, <1>3, <1>4, <1>5, <1>6, <1>11, <2>1, OnlyNone DEF StepOf
<1> QED
  BY <1>3, <1>9, <1>14, <1>15, StepKeeps

\* cmd_tun_read_cb moves a chunk from the socket to the end of the commands.
LEMMA ReadDataKeeps ==
    ASSUME IInv, ~mixed, NEW p \in Peer, NEW f \in Fd, ReadData(p, f),
           NEW s, s = socket[p][f], NEW c, c = s.conn, NEW h, h = Head(s.unread)
    PROVE  IInv'
<1> DEFINE q == Other(p)
           t == [s EXCEPT !.unread = Tail(@)]
           m == Msg("DATA", map[p][f], None, c, h)
<1>0. /\ q \in Peer /\ q # p /\ Other(p) = q /\ Other(q) = p
      /\ \A r \in Peer : (r = p \/ r = q) /\ Other(r) \in Peer
  BY OtherIs
<1>1. /\ s # None /\ UNCHANGED <<up, linked, map, accepted, wrote, got, cut, refused, losses, mixed>>
      /\ s.watched /\ s.unread # <<>>
      /\ socket' = [socket EXCEPT ![p][f] = t]
      /\ chan' = Send(q, m, chan)
  BY DEF ReadData, Readable
<1>2. Base /\ TypeOK /\ Peers /\ \A d \in Conn : ConnOK(d)
  BY DEF IInv, Base
<1>3. /\ s \in Socket /\ c \in Conn /\ p \in up /\ Has(p, f, c) /\ ~(accepted < c)
      /\ map[p][f] \in Fd \cup {None} /\ (map[p][f] # None <=> s.watched)
      /\ s.unread \in Seq(1..MaxWrite)
  BY <1>1, <1>2, SocketOf
<1>4. /\ Tail(s.unread) \in Seq(1..MaxWrite) /\ h \in 1..MaxWrite /\ 1 \in DOMAIN s.unread /\ h = s.unread[1]
      /\ \A i \in DOMAIN s.unread :
            /\ i \in Nat
            /\ i = 1 \/ (1 < i /\ i - 1 \in DOMAIN Tail(s.unread) /\ Tail(s.unread)[i - 1] = s.unread[i])
      /\ \A i \in DOMAIN Tail(s.unread) :
            i \in Nat /\ i + 1 \in DOMAIN s.unread /\ Tail(s.unread)[i] = s.unread[i + 1]
  BY <1>1, <1>3, HeadTail
<1>5. t \in Socket /\ t # None
  BY <1>3, <1>4, SocketIs, TunnelAssumption
<1>6. /\ t.conn = c /\ t.watched = s.watched /\ t.shut = s.shut /\ t.closed = s.closed
      /\ t.unread = Tail(s.unread)
  BY <1>3 DEF Socket
<1>7. m \in Message /\ m.conn = c /\ m.cmd = "DATA" /\ m.fd = map[p][f] /\ m.chunk = h /\ map[p][f] \in Fd
  <2>1. h \in 0..MaxWrite /\ map[p][f] \in Fd
    <3>1. h \in 1..MaxWrite /\ MaxWrite \in Nat
      BY <1>4, TunnelAssumption
    <3>2. h \in 0..MaxWrite
      BY ONLY <3>1
    <3>3. map[p][f] \in Fd
      BY <1>1, <1>3
    <3> QED
      BY <3>2, <3>3
  <2>2. m \in Message
    BY <1>3, <2>1, MsgIs
  <2> QED
    BY <2>1, <2>2 DEF Msg
<1> HIDE DEF q, t, m
<1>8. /\ socket' \in [Peer -> [Fd -> Socket \cup {None}]]
      /\ map' \in [Peer -> [Fd -> Fd \cup {None}]] /\ Becomes(p, f, t, map[p][f])
  BY <1>1, <1>2, <1>3, <1>5, SocketBecomes
<1>9. /\ chan' \in [Peer -> Seq(Message)] /\ Took(p, 0) /\ chan'[p] = chan[p]
      /\ Put(q, m) /\ (Delivered(q) => \E i \in DOMAIN chan'[q] : chan'[q][i] = m)
  BY <1>0, <1>1, <1>2, <1>7, Sends
<1>10. TypeOK'
  BY <1>1, <1>2, <1>8, <1>9 DEF TypeOK
<1>11. StepOf(c, p, f, t, map[p][f], 0, m)
  <2>1. accepted <= accepted'
    BY <1>1, <1>2 DEF TypeOK
  <2>2. OneStep(p, f, t, map[p][f], 0, m)
    BY <1>0, <1>1, <1>8, <1>9 DEF OneStep
  <2> QED
    BY <1>1, <1>3, <1>5, <1>6, <1>7, <2>1, <2>2, OnlyNone DEF StepOf
<1>12. \A r \in Peer : \A g, d : Has(r, g, d)' <=> Has(r, g, d)
  BY <1>1, <1>5, <1>6, <1>8, SameHas
<1>13. /\ OneSocket(c) /\ Named(c) /\ InOrder(c) /\ UnreadInOrder(c) /\ NoGap(c)
       /\ Quiet => Complete(c)
       /\ Quiet' => Quiet /\ Complete(c)
  BY <1>1, <1>2, <1>3 DEF ConnOK, Quiet
<1>14. \A r \in Peer, g \in Fd : Has(r, g, c) =>
           /\ socket'[r][g].watched = socket[r][g].watched
           /\ socket'[r][g].shut = socket[r][g].shut
           /\ socket'[r][g].closed = socket[r][g].closed
           /\ map'[r][g] = map[r][g]
           /\ r = q => socket'[r][g] = socket[r][g]
           /\ r = p => g = f
  <2>1. \A g \in Fd : Has(p, g, c) => g = f
    BY <1>3, <1>13 DEF OneSocket
  <2>2. /\ \A g \in Fd : socket'[q][g] = socket[q][g]
        /\ socket'[p][f] = t /\ map' = map
    BY <1>0, <1>1, <1>8 DEF Becomes
  <2> QED
    BY <1>0, <1>6, <2>1, <2>2
<1>15. socket'[p][f] = t /\ Has(p, f, c)'
  BY <1>3, <1>8, <1>12 DEF Becomes
<1>16. /\ \A x : Coming(p, c, x)' <=> Coming(p, c, x)
       /\ \A x : Coming(q, c, x)' => Coming(q, c, x) \/ (x = h /\ Delivered(q))
       /\ \A x : Coming(q, c, x) => Coming(q, c, x)'
       /\ Delivered(q) => Coming(q, c, h)'
  BY <1>0, <1>7, <1>9 DEF Coming, Of, Put
<1>17. /\ \A x : Unread(p, c, x) => Unread(p, c, x)' \/ x = h
       /\ \A x : Unread(q, c, x)' <=> Unread(q, c, x)
  <2>1. \A x : Unread(p, c, x) => Unread(p, c, x)' \/ x = h
    <3> SUFFICES ASSUME NEW x, Unread(p, c, x), x # h PROVE Unread(p, c, x)'
      OBVIOUS
    <3>1. PICK i \in DOMAIN s.unread : s.unread[i] = x
      BY <1>14 DEF Unread
    <3>2. i - 1 \in DOMAIN t.unread /\ t.unread[i - 1] = x
      BY <1>4, <1>6, <3>1
    <3> QED
      BY <1>15, <3>2 DEF Unread
  <2> QED
    BY <1>0, <1>12, <1>14, <2>1 DEF Unread
<1>18. /\ \A i, j \in DOMAIN s.unread : i < j => s.unread[i] < s.unread[j]
       /\ \A i \in DOMAIN s.unread :
             /\ s.unread[i] <= wrote[p][c] /\ s.unread[i] \in Nat
             /\ \A j \in DOMAIN got[q][c] : got[q][c][j] < s.unread[i]
             /\ \A n \in Nat : Coming(q, c, n) => n < s.unread[i]
  <2>1. \A i \in DOMAIN s.unread : s.unread[i] \in Nat
    BY <1>3, ChunkNumbers
  <2> QED
    BY <1>0, <1>3, <1>13, <2>1 DEF UnreadInOrder
<1>19. \A r \in Peer : wrote[r][c] \in Nat /\ got[r][c] \in Seq(1..MaxWrite)
  <2>1. \A r \in Peer : wrote[r][c] \in 0..MaxWrite /\ got[r][c] \in Seq(1..MaxWrite)
    BY <1>2, <1>3 DEF TypeOK
  <2> QED
    BY <2>1
<1>20. ConnOK(c)'
  <2>1. /\ OneSocket(c)' /\ Asked(c)' /\ Answered(c)' /\ Final(c)' /\ Named(c)'
        /\ Quiet' => Noticed(c)'
    <3>1. m.conn = c /\ m.cmd = "DATA" /\ \E g \in Fd : /\ Has(p, g, c) /\ socket[p][g].watched
                                                       /\ m.fd = map[p][g] /\ map[p][g] # None
      BY <1>1, <1>3, <1>7
    <3>2. \A r \in Peer, g \in Fd : Has(r, g, c) =>
              /\ socket'[r][g].watched = socket[r][g].watched
              /\ socket'[r][g].shut = socket[r][g].shut
              /\ map'[r][g] = map[r][g]
      BY <1>14
    <3>3. Took(p, 0) /\ Put(Other(p), m) /\ 0 \in {0, 1} /\ ~(0 = 1)
      BY <1>0, <1>9
    <3> QED
      BY <1>0, <1>1, <1>2, <1>3, <1>12, <3>1, <3>2, <3>3, PlainStep
  <2>2. InOrder(c)'
    <3>1. InOrderAt(p, c) /\ InOrderAt(q, c)
      BY <1>0, <1>13 DEF InOrder
    <3>2. InOrderAt(p, c)'
      <4>1. /\ wrote[Other(p)][c] \in Nat /\ wrote'[Other(p)][c] \in Nat
            /\ wrote[Other(p)][c] <= wrote'[Other(p)][c]
            /\ got'[p][c] = got[p][c] /\ got[p][c] \in Seq(1..MaxWrite)
        BY <1>0, <1>1, <1>19
      <4> QED
        BY <1>9, <3>1, <4>1, InOrderTaken
    <3>3. InOrderAt(q, c)'
      <4>1. /\ wrote[Other(q)][c] \in Nat /\ wrote'[Other(q)][c] \in Nat
            /\ wrote[Other(q)][c] <= wrote'[Other(q)][c]
            /\ got'[q][c] = got[q][c] /\ got[q][c] \in Seq(1..MaxWrite)
        BY <1>0, <1>1, <1>19
      <4>2. /\ m.chunk \in 1..wrote[Other(q)][c]
            /\ \A j \in DOMAIN got[q][c] : got[q][c][j] < m.chunk
            /\ \A i \in DOMAIN chan[q] : Of(q, i, c, "DATA") => chan[q][i].chunk < m.chunk
        <5>1. m.chunk \in 1..wrote[p][c] /\ \A j \in DOMAIN got[q][c] : got[q][c][j] < m.chunk
          BY <1>4, <1>7, <1>18, <1>19
        <5>2. \A i \in DOMAIN chan[q] : Of(q, i, c, "DATA") => chan[q][i].chunk \in Nat
          BY <1>0, <1>19, <3>1 DEF InOrderAt
        <5> QED
          <6>1. Other(q) = p
            BY <1>0
          <6>2. \A i \in DOMAIN chan[q] : Of(q, i, c, "DATA") =>
                    chan[q][i].chunk \in Nat /\ Coming(q, c, chan[q][i].chunk)
            BY <5>2 DEF Coming
          <6>3. h = s.unread[1] /\ 1 \in DOMAIN s.unread /\ m.chunk = h
            BY <1>4, <1>7
          <6>4. \A n \in Nat : Coming(q, c, n) => n < h
            BY <1>18, <6>3
          <6> QED
            BY <5>1, <6>1, <6>2, <6>3, <6>4
      <4> QED
        BY <1>0, <1>9, <3>1, <4>1, <4>2, InOrderSent
    <3> QED
      BY <1>0, <3>2, <3>3 DEF InOrder
  <2>3. UnreadInOrder(c)'
    <3> SUFFICES ASSUME NEW r \in Peer, NEW g \in Fd, Has(r, g, c)', NEW u, u = socket'[r][g].unread
                 PROVE  /\ \A i, j \in DOMAIN u : i < j => u[i] < u[j]
                        /\ \A i \in DOMAIN u :
                              /\ u[i] <= wrote'[r][c]
                              /\ \A j \in DOMAIN got'[Other(r)][c] : got'[Other(r)][c][j] < u[i]
                              /\ \A n \in Nat : Coming(Other(r), c, n)' => n < u[i]
                        /\ ~socket'[r][g].watched => \A n \in 1..wrote'[r][c] : Unread(r, c, n)'
      BY DEF UnreadInOrder
    <3>1. CASE r = q
      <4>1. /\ Has(q, g, c) /\ u = socket[q][g].unread /\ socket'[q][g] = socket[q][g]
        BY <1>0, <1>12, <1>14, <3>1
      <4>2. /\ \A i, j \in DOMAIN u : i < j => u[i] < u[j]
            /\ \A i \in DOMAIN u :
                  /\ u[i] <= wrote[q][c]
                  /\ \A j \in DOMAIN got[p][c] : got[p][c][j] < u[i]
                  /\ \A n \in Nat : Coming(p, c, n) => n < u[i]
            /\ ~socket[q][g].watched => \A n \in 1..wrote[q][c] : Unread(q, c, n)
        BY <1>0, <1>13, <4>1 DEF UnreadInOrder
      <4> QED
        BY <1>0, <1>1, <1>16, <1>17, <3>1, <4>1, <4>2
    <3>2. CASE r = p
      <4>1. u = Tail(s.unread) /\ g = f /\ socket'[r][g].watched
        BY <1>1, <1>6, <1>12, <1>14, <1>15, <3>2
      <4>2. \A i \in DOMAIN u : /\ i \in Nat /\ i + 1 \in DOMAIN s.unread /\ u[i] = s.unread[i + 1]
                                /\ 1 < i + 1
        <5>1. \A i \in DOMAIN u : i \in Nat /\ i # 0
          <6>1. DOMAIN u = 1..Len(u)
            BY <1>4, <4>1
          <6> QED
            BY <6>1, <1>4, <4>1
        <5>2. \A i \in DOMAIN u : i + 1 \in DOMAIN s.unread /\ u[i] = s.unread[i + 1]
          BY <1>4, <4>1
        <5>3. \A i \in Nat : i # 0 => 1 < i + 1
          OBVIOUS
        <5> QED
          BY <5>1, <5>2, <5>3
      <4>3. \A i, j \in DOMAIN u : i < j => u[i] < u[j]
        <5>1. \A i, j \in DOMAIN u : i < j => i + 1 < j + 1
          BY <4>2
        <5> QED
          BY <1>18, <4>2, <5>1
      <4>4. \A i \in DOMAIN u : h < u[i]
        BY <1>4, <1>18, <4>2
      <4>5. \A i \in DOMAIN u :
                /\ u[i] <= wrote[p][c]
                /\ \A j \in DOMAIN got[q][c] : got[q][c][j] < u[i]
                /\ \A n \in Nat : Coming(q, c, n)' => n < u[i]
        BY <1>16, <1>18, <4>2, <4>4
      <4> QED
        BY <1>0, <1>1, <3>2, <4>1, <4>3, <4>5
    <3> QED
      BY <1>0, <3>1, <3>2
  <2>4. NoGap(c)'
    <3> SUFFICES ASSUME losses = 0, NEW r \in Peer
                 PROVE  /\ \A i \in DOMAIN got[r][c] : \A n \in 1..got[r][c][i] : Arrived(r, c, n)
                        /\ \A g \in Fd : Has(r, g, c)' /\ ~socket'[r][g].closed =>
                              \A x \in Nat : Coming(r, c, x)' =>
                                  \A n \in 1..x : Arrived(r, c, n) \/ Coming(r, c, n)'
      BY <1>1, ArrivedIs DEF NoGap, SameArrived
    <3>1. /\ \A i \in DOMAIN got[r][c] : \A n \in 1..got[r][c][i] : Arrived(r, c, n)
          /\ \A g \in Fd : Has(r, g, c) /\ ~socket[r][g].closed =>
                \A x \in Nat : Coming(r, c, x) =>
                    \A n \in 1..x : Arrived(r, c, n) \/ Coming(r, c, n)
      BY <1>13 DEF NoGap
    <3>2. ASSUME NEW g \in Fd, Has(r, g, c)', ~socket'[r][g].closed, NEW x \in Nat,
                 Coming(r, c, x)', NEW n \in 1..x
          PROVE  Arrived(r, c, n) \/ Coming(r, c, n)'
      <4>1. Has(r, g, c) /\ ~socket[r][g].closed
        BY <1>12, <1>14, <3>2
      <4>2. CASE Coming(r, c, x)
        BY <1>0, <1>16, <3>1, <3>2, <4>1, <4>2
      <4>3. CASE ~Coming(r, c, x)
        <5>1. r = q /\ x = h /\ Delivered(q)
          BY <1>0, <1>16, <3>2, <4>3
        <5>2. Quiet
          <6>1. q \in up /\ up \subseteq Peer
            BY <1>2, <5>1 DEF Delivered, TypeOK
          <6>2. up = Peer
            BY <1>0, <1>3, <6>1
          <6> QED
            BY <6>2 DEF Quiet
        <5>3. n \in 1..wrote[p][c] /\ n <= h
          BY <1>4, <1>18, <1>19, <5>1
        <5>4. Arrived(q, c, n) \/ Coming(q, c, n) \/ Unread(p, c, n)
          BY <1>0, <1>13, <4>1, <5>1, <5>2, <5>3 DEF Complete
        <5>5. Unread(p, c, n) => n = h
          <6> SUFFICES ASSUME Unread(p, c, n) PROVE n = h
            OBVIOUS
          <6>1. PICK i \in DOMAIN s.unread : s.unread[i] = n
            BY <1>14 DEF Unread
          <6>2. i = 1 \/ h < n
            BY <1>4, <1>18, <6>1
          <6> QED
            BY <1>4, <5>3, <6>1, <6>2, <1>18
        <5> QED
          BY <1>16, <5>1, <5>4, <5>5
      <4> QED
        BY <4>2, <4>3
    <3> QED
      BY <3>1, <3>2
  <2>5. ASSUME Quiet' PROVE Complete(c)'
    <3>1. Delivered(q)
      BY <1>0, <1>1, <1>2, <2>5 DEF Quiet, Delivered, Peers
    <3> SUFFICES ASSUME NEW r \in Peer, NEW g \in Fd, Has(r, g, c)', ~socket'[r][g].closed
                 PROVE  /\ \A n \in 1..wrote'[Other(r)][c] :
                               Arrived(r, c, n)' \/ Coming(r, c, n)' \/ Unread(Other(r), c, n)'
                        /\ socket'[r][g].shut => \A n \in 1..wrote'[Other(r)][c] : Arrived(r, c, n)'
      BY DEF Complete
    <3>2. /\ Has(r, g, c) /\ ~socket[r][g].closed
          /\ socket'[r][g].shut = socket[r][g].shut
      BY <1>12, <1>14
    <3>3. /\ \A n \in 1..wrote[Other(r)][c] :
                 Arrived(r, c, n) \/ Coming(r, c, n) \/ Unread(Other(r), c, n)
          /\ socket[r][g].shut => \A n \in 1..wrote[Other(r)][c] : Arrived(r, c, n)
      BY <1>13, <2>5, <3>2 DEF Complete
    <3>6. \A n : Arrived(r, c, n)' <=> Arrived(r, c, n)
      BY <1>1, ArrivedIs DEF SameArrived
    <3>4. CASE r = p
      BY <1>0, <1>1, <1>16, <1>17, <3>2, <3>3, <3>4, <3>6
    <3>5. CASE r = q
      BY <1>0, <1>1, <1>16, <1>17, <3>1, <3>2, <3>3, <3>5, <3>6
    <3> QED
      BY <1>0, <3>4, <3>5
  <2> QED
    BY <2>1, <2>2, <2>3, <2>4, <2>5 DEF ConnOK
<1> QED
  BY <1>3, <1>10, <1>11, <1>20, StepKeeps
\* p takes chunk k of c: it is delivered, or, if its socket is closed, dropped.
TakesChunk(c, p, f, t, k, v) ==
    LET s == socket[p][f]
        g == got[p][c]
        q == Other(p)
    IN  /\ p \in up /\ Of(p, 1, c, "DATA") /\ 1 \in DOMAIN chan[p]
        /\ chan[p][1].fd = f /\ chan[p][1].chunk = k /\ k \in 1..MaxWrite
        /\ chan' \in [Peer -> Seq(Message)] /\ Took(p, 1) /\ chan'[q] = chan[q]
        /\ Becomes(p, f, t, map[p][f])
        /\ s = None => t = None
        /\ s # None => /\ t # None /\ s.conn = c /\ t.conn = c /\ ~s.shut
                       /\ t.watched = s.watched /\ t.shut = s.shut /\ t.closed = s.closed
                       /\ t.unread = s.unread
        /\ v = Append(g, k) /\ got'[q] = got[q]
        /\ \A n : Arrived(q, c, n)' <=> Arrived(q, c, n)
        /\ \A n : Arrived(p, c, n) => Arrived(p, c, n)'
        /\ s # None /\ ~s.closed => got'[p][c] \in {g, v} /\ Arrived(p, c, k)'
        /\ ~(s # None /\ ~s.closed) => got'[p][c] = g
        /\ up' = up /\ wrote' = wrote /\ refused' = refused /\ losses' = losses

\* It keeps what holds of the connection.
LEMMA DataOfOne ==
    ASSUME TypeOK, NEW c \in Conn, ConnOK(c), ~mixed, ~mixed',
           NEW p \in Peer, NEW f \in Fd, NEW t, NEW k, NEW v, TakesChunk(c, p, f, t, k, v),
           NEW q, q = Other(p), NEW s, s = socket[p][f], NEW g, g = got[p][c]
    PROVE  ConnOK(c)'
<1>H. /\ p \in up /\ Of(p, 1, c, "DATA") /\ 1 \in DOMAIN chan[p]
      /\ chan[p][1].fd = f /\ chan[p][1].chunk = k /\ k \in 1..MaxWrite
      /\ chan' \in [Peer -> Seq(Message)] /\ Took(p, 1) /\ chan'[q] = chan[q]
      /\ Becomes(p, f, t, map[p][f])
      /\ s = None => t = None
      /\ s # None => /\ t # None /\ s.conn = c /\ t.conn = c /\ ~s.shut
                     /\ t.watched = s.watched /\ t.shut = s.shut /\ t.closed = s.closed
                     /\ t.unread = s.unread
      /\ v = Append(g, k) /\ got'[q] = got[q]
      /\ \A n : Arrived(q, c, n)' <=> Arrived(q, c, n)
      /\ \A n : Arrived(p, c, n) => Arrived(p, c, n)'
      /\ s # None /\ ~s.closed => got'[p][c] \in {g, v} /\ Arrived(p, c, k)'
      /\ ~(s # None /\ ~s.closed) => got'[p][c] = g
      /\ up' = up /\ wrote' = wrote /\ refused' = refused /\ losses' = losses
  BY DEF TakesChunk
<1>0. /\ q \in Peer /\ q # p /\ Other(p) = q /\ Other(q) = p
      /\ \A r \in Peer : (r = p \/ r = q) /\ Other(r) \in Peer
  BY <1>H, OtherIs
<1>1. OneSocket(c) /\ Named(c) /\ InOrder(c) /\ UnreadInOrder(c) /\ NoGap(c)
      /\ (Quiet' => Quiet /\ Complete(c))
  BY <1>H DEF ConnOK, Quiet
<1>2. \A r \in Peer : \A x, d : Has(r, x, d)' <=> Has(r, x, d)
  <2>1. \/ socket[p][f] = None /\ t = None
        \/ socket[p][f] # None /\ t # None /\ t.conn = socket[p][f].conn
    BY <1>H
  <2>2. Becomes(p, f, t, map[p][f])
    BY <1>H
  <2> QED
    BY ONLY <2>1, <2>2, SameHas, p \in Peer, f \in Fd
<1>3. \A r \in Peer, x \in Fd : Has(r, x, c) =>
          /\ socket'[r][x].watched = socket[r][x].watched
          /\ socket'[r][x].shut = socket[r][x].shut
          /\ socket'[r][x].closed = socket[r][x].closed
          /\ socket'[r][x].unread = socket[r][x].unread
          /\ map'[r][x] = map[r][x]
          /\ r = p => s # None /\ x = f /\ ~s.shut
  <2>1. \A x \in Fd : Has(p, x, c) => x = f
    BY <1>H, <1>1 DEF Named, Of
  <2>2. Has(p, f, c) => s # None
    BY <1>H DEF Has
  <2>3. /\ \A x \in Fd : socket'[q][x] = socket[q][x]
        /\ \A x \in Fd : map'[q][x] = map[q][x]
        /\ socket'[p][f] = t /\ map'[p][f] = map[p][f]
    BY <1>H, <1>0 DEF Becomes
  <2>4. \A x \in Fd : Has(p, x, c) => x = f /\ s # None /\ ~s.shut
    BY <1>H, <2>1, <2>2
  <2>5. ASSUME NEW x \in Fd, Has(p, x, c)
        PROVE  /\ socket'[p][x].watched = socket[p][x].watched
               /\ socket'[p][x].shut = socket[p][x].shut
               /\ socket'[p][x].closed = socket[p][x].closed
               /\ socket'[p][x].unread = socket[p][x].unread
               /\ map'[p][x] = map[p][x]
    BY <1>H, <2>3, <2>4, <2>5
  <2>6. \A r \in Peer : r = p \/ (r = q /\ r # p)
    BY <1>H, <1>0
  <2> QED
    BY <1>H, <2>3, <2>4, <2>5, <2>6
<1>4. /\ \A x : Coming(p, c, x)' => Coming(p, c, x)
      /\ \A x : Coming(p, c, x) => x = k \/ Coming(p, c, x)'
      /\ \A x : Coming(q, c, x)' <=> Coming(q, c, x)
      /\ Coming(p, c, k)
  <2>1. \A x : Coming(p, c, x)' => Coming(p, c, x)
    BY <1>H DEF Coming, Of, Took
  <2>2. ASSUME NEW x, Coming(p, c, x), x # k PROVE Coming(p, c, x)'
    <3>1. PICK i \in DOMAIN chan[p] : Of(p, i, c, "DATA") /\ chan[p][i].chunk = x
      BY <1>H, <2>2 DEF Coming
    <3>2. i # 1 /\ i \in Nat \ {0}
      BY <1>H, <2>2, <3>1 DEF Took
    <3>3. ~(i <= 1)
      BY <1>H, <3>2
    <3>4. i - 1 \in DOMAIN chan'[p] /\ chan'[p][i - 1] = chan[p][i]
      BY <1>H, <3>3 DEF Took
    <3> QED
      BY <1>H, <3>1, <3>4 DEF Coming, Of
  <2>3. \A x : Coming(q, c, x)' <=> Coming(q, c, x)
    BY <1>H DEF Coming, Of
  <2>4. Coming(p, c, k)
    BY <1>H DEF Coming
  <2> QED
    BY <1>H, <2>1, <2>2, <2>3, <2>4
<1>5. \A r \in Peer : \A x : Unread(r, c, x)' <=> Unread(r, c, x)
  <2>1. \A r \in Peer, y \in Fd : Has(r, y, c) => socket'[r][y].unread = socket[r][y].unread
    BY <1>H, <1>3
  <2> QED
    BY ONLY <1>2, <2>1, c \in Conn DEF Unread
<1>6. InOrderAt(p, c) /\ InOrderAt(q, c)
  BY <1>H, <1>0, <1>1 DEF InOrder
<1>7. /\ \A r \in Peer : wrote[r][c] \in Nat /\ wrote'[r][c] = wrote[r][c]
      /\ g \in Seq(1..MaxWrite) /\ got[q][c] \in Seq(1..MaxWrite) /\ got'[q][c] = got[q][c]
  <2>1. \A r \in Peer : wrote[r][c] \in 0..MaxWrite /\ got[r][c] \in Seq(1..MaxWrite)
    BY <1>H DEF TypeOK
  <2>2. \A r \in Peer : wrote[r][c] \in Nat
    BY <1>H, <2>1
  <2> QED
    BY <1>H, <1>0, <2>1, <2>2
<1>8. k \in Nat /\ k \in 1..wrote[q][c] /\ \A i \in DOMAIN g : g[i] < k /\ g[i] \in Nat
  <2>1. k \in 1..wrote[q][c] /\ \A i \in DOMAIN g : g[i] < k
    BY <1>H, <1>0, <1>6 DEF InOrderAt
  <2>2. \A i \in DOMAIN g : g[i] \in Nat
    BY <1>H, <1>7, ChunkNumbers
  <2> QED
    BY <1>H, <2>1, <2>2
<1>9. \A i \in DOMAIN chan'[p] : Of(p, i, c, "DATA")' =>
          /\ i \in Nat /\ i + 1 \in DOMAIN chan[p] /\ Of(p, i + 1, c, "DATA")
          /\ chan'[p][i] = chan[p][i + 1]
          /\ k < chan'[p][i].chunk /\ chan'[p][i].chunk \in 1..wrote[q][c]
  <2> SUFFICES ASSUME NEW i \in DOMAIN chan'[p], Of(p, i, c, "DATA")'
               PROVE  /\ i \in Nat /\ i + 1 \in DOMAIN chan[p] /\ Of(p, i + 1, c, "DATA")
                      /\ chan'[p][i] = chan[p][i + 1]
                      /\ k < chan'[p][i].chunk /\ chan'[p][i].chunk \in 1..wrote[q][c]
    BY <1>H
  <2>1. /\ i \in Nat /\ i + 1 \in DOMAIN chan[p] /\ chan'[p][i] = chan[p][i + 1]
        /\ Of(p, i + 1, c, "DATA")
    BY <1>H DEF Took, Of
  <2>2. 1 < i + 1
    <3>1. i \in 1..Len(chan'[p])
      BY <1>H, <1>0
    <3> QED
      BY <1>H, <3>1
  <2>3. k < chan[p][i + 1].chunk /\ chan[p][i + 1].chunk \in 1..wrote[q][c]
    BY <1>H, <1>0, <1>6, <2>1, <2>2 DEF InOrderAt
  <2> QED
    BY <1>H, <2>1, <2>3
<1>10. \A x \in Nat : Coming(p, c, x) => x = k \/ k < x
  <2>1. \A x : Coming(p, c, x)' => k < x
    BY <1>H, <1>9 DEF Coming, Of
  <2> QED
    BY <1>H, <1>4, <2>1
<1>11. \A x \in Fd : Has(p, x, c)' /\ ~socket'[p][x].closed => Arrived(p, c, k)' /\ x = f
  BY <1>H, <1>2, <1>3
<1>12. /\ Len(g) \in Nat /\ Len(v) = Len(g) + 1
       /\ \A i \in DOMAIN g : i \in Nat /\ i \in DOMAIN v /\ v[i] = g[i]
       /\ Len(g) + 1 \in DOMAIN v /\ v[Len(g) + 1] = k
       /\ \A i \in DOMAIN v : i \in Nat /\ (i \in DOMAIN g \/ (i = Len(g) + 1 /\ v[i] = k))
       /\ \A i, j \in DOMAIN v : i < j => i \in DOMAIN g
  <2>1. g \in Seq(1..MaxWrite) /\ k \in 1..MaxWrite /\ v = Append(g, k)
    BY <1>H, <1>7
  <2> QED
    BY ONLY <2>1, AppendIs
<1>13. /\ OneSocket(c)' /\ Asked(c)' /\ Answered(c)' /\ Final(c)' /\ Named(c)'
       /\ Quiet' => Noticed(c)'
  <2>1. \A r \in Peer : got'[r][c] = got[r][c] \/ 1 = 1
    BY <1>H
  <2>2. /\ Put(q, chan[p][1]) /\ chan'[q] = chan[q] /\ 1 \in {0, 1}
    <3>1. chan[q] \in Seq(Message)
      BY <1>H, <1>0 DEF TypeOK
    <3> QED
      BY <1>H, <1>0, <3>1, TookNone
  <2> QED
    BY <1>H, <1>0, <1>2, <1>3, <2>1, <2>2, PlainStep
<1>14. InOrder(c)'
  <2>1. InOrderAt(q, c)'
    <3>1. Took(q, 0)
      <4>1. chan[q] \in Seq(Message)
        BY <1>H, <1>0 DEF TypeOK
      <4> QED
        BY <1>H, <1>0, <4>1, TookNone
    <3>2. /\ wrote[Other(q)][c] \in Nat /\ wrote'[Other(q)][c] \in Nat
          /\ wrote[Other(q)][c] <= wrote'[Other(q)][c] /\ 0 \in Nat
      BY <1>H, <1>0, <1>7
    <3> QED
      BY <1>H, <1>0, <1>6, <1>7, <3>1, <3>2, InOrderTaken
  <2>2. InOrderAt(p, c)'
    <3>1. CASE got'[p][c] = g
      <4>1. /\ wrote[Other(p)][c] \in Nat /\ wrote'[Other(p)][c] \in Nat
            /\ wrote[Other(p)][c] <= wrote'[Other(p)][c] /\ 1 \in Nat
            /\ got'[p][c] = got[p][c] /\ got[p][c] \in Seq(1..MaxWrite)
        BY <1>H, <1>0, <1>7, <3>1
      <4> QED
        BY <1>H, <1>6, <4>1, InOrderTaken
    <3>2. CASE got'[p][c] = v
      <4>1. \A i, j \in DOMAIN v : i < j => v[i] < v[j]
        <5>1. \A i, j \in DOMAIN g : i < j => g[i] < g[j]
          BY <1>H, <1>6 DEF InOrderAt
        <5> QED
          BY <1>H, <1>8, <1>12, <5>1
      <4>2. \A i \in DOMAIN v : v[i] <= wrote[q][c]
        <5>1. \A i \in DOMAIN g : g[i] <= wrote[q][c]
          BY <1>H, <1>0, <1>6 DEF InOrderAt
        <5> QED
          BY <1>H, <1>8, <1>12, <5>1
      <4>3. \A i, j \in DOMAIN chan'[p] : i < j /\ Of(p, i, c, "DATA")' /\ Of(p, j, c, "DATA")' =>
                chan'[p][i].chunk < chan'[p][j].chunk
        <5>1. \A i, j \in Nat : i < j => i + 1 < j + 1
          BY <1>H
        <5> QED
          BY <1>H, <1>6, <1>9, <5>1 DEF InOrderAt
      <4>4. \A i \in DOMAIN chan'[p] : Of(p, i, c, "DATA")' =>
                /\ chan'[p][i].chunk \in 1..wrote[q][c]
                /\ \A j \in DOMAIN v : v[j] < chan'[p][i].chunk
        <5>1. \A j \in DOMAIN v : v[j] \in Nat /\ v[j] <= k
          BY <1>H, <1>8, <1>12
        <5>2. k \in Nat /\ wrote[q][c] \in Nat
          BY ONLY <1>0, <1>7, <1>8
        <5>3. \A i \in DOMAIN chan'[p] : Of(p, i, c, "DATA")' =>
                  k < chan'[p][i].chunk /\ chan'[p][i].chunk \in 1..wrote[q][c]
          BY ONLY <1>9
        <5> QED
          BY ONLY <5>1, <5>2, <5>3
      <4> QED
        BY <1>H, <1>0, <1>7, <3>2, <4>1, <4>2, <4>3, <4>4 DEF InOrderAt
    <3> QED
      BY <1>H, <3>1, <3>2
  <2> QED
    BY <1>H, <1>0, <2>1, <2>2 DEF InOrder
<1>15. UnreadInOrder(c)'
  <2> SUFFICES ASSUME NEW r \in Peer, NEW x \in Fd, Has(r, x, c)', NEW u, u = socket'[r][x].unread
               PROVE  /\ \A i, j \in DOMAIN u : i < j => u[i] < u[j]
                      /\ \A i \in DOMAIN u :
                            /\ u[i] <= wrote'[r][c]
                            /\ \A j \in DOMAIN got'[Other(r)][c] : got'[Other(r)][c][j] < u[i]
                            /\ \A n \in Nat : Coming(Other(r), c, n)' => n < u[i]
                      /\ ~socket'[r][x].watched => \A n \in 1..wrote'[r][c] : Unread(r, c, n)'
    BY <1>H DEF UnreadInOrder
  <2>1. /\ Has(r, x, c) /\ u = socket[r][x].unread
        /\ socket'[r][x].watched = socket[r][x].watched /\ Other(r) \in Peer
    BY <1>H, <1>0, <1>2, <1>3
  <2>2. /\ \A i, j \in DOMAIN u : i < j => u[i] < u[j]
        /\ \A i \in DOMAIN u :
              /\ u[i] <= wrote[r][c]
              /\ \A j \in DOMAIN got[Other(r)][c] : got[Other(r)][c][j] < u[i]
              /\ \A n \in Nat : Coming(Other(r), c, n) => n < u[i]
        /\ ~socket[r][x].watched => \A n \in 1..wrote[r][c] : Unread(r, c, n)
    BY <1>H, <1>1, <2>1 DEF UnreadInOrder
  <2>3. \A n : Coming(Other(r), c, n)' => Coming(Other(r), c, n)
    BY <1>H, <1>0, <1>4
  <2>4. \A i \in DOMAIN u, j \in DOMAIN got'[Other(r)][c] : got'[Other(r)][c][j] < u[i]
    <3>1. CASE r = p
      BY <1>H, <1>0, <1>7, <2>2, <3>1
    <3>2. CASE r = q /\ got'[p][c] = g
      BY <1>H, <1>0, <2>2, <3>2
    <3>3. CASE r = q /\ got'[p][c] = v
      <4>1. \A i \in DOMAIN u : k < u[i] /\ \A j \in DOMAIN g : g[j] < u[i]
        BY <1>H, <1>0, <1>4, <1>8, <2>2, <3>3
      <4>2. \A j \in DOMAIN v : v[j] = k \/ (j \in DOMAIN g /\ v[j] = g[j])
        BY <1>H, <1>12
      <4> QED
        BY ONLY <1>0, <3>3, <4>1, <4>2
    <3> QED
      BY <1>H, <1>0, <3>1, <3>2, <3>3
  <2> QED
    BY <1>H, <1>5, <1>7, <2>1, <2>2, <2>3, <2>4
\* All chunks before the one that is delivered have arrived.
<1>16. ASSUME losses = 0, NEW x \in Fd, Has(p, x, c)', ~socket'[p][x].closed
       PROVE  /\ \A y \in Nat : Coming(p, c, y) =>
                    \A n \in 1..y : Arrived(p, c, n) \/ Coming(p, c, n)
              /\ \A n \in 1..k : Arrived(p, c, n)'
  <2>1. Has(p, x, c) /\ ~socket[p][x].closed
    BY <1>H, <1>2, <1>3, <1>16
  <2>2. \A y \in Nat : Coming(p, c, y) => \A n \in 1..y : Arrived(p, c, n) \/ Coming(p, c, n)
    BY <1>H, <1>1, <1>16, <2>1 DEF NoGap
  <2>3. ASSUME NEW n \in 1..k PROVE Arrived(p, c, n)'
    <3>1. Arrived(p, c, n) \/ Coming(p, c, n)
      BY <1>4, <1>8, <2>2
    <3>2. Coming(p, c, n) => n = k
      BY <1>8, <1>10
    <3> QED
      BY <1>H, <1>11, <1>16, <3>1, <3>2
  <2> QED
    BY <2>2, <2>3
<1>17. NoGap(c)'
  <2> SUFFICES ASSUME losses = 0, NEW r \in Peer
               PROVE  /\ \A i \in DOMAIN got'[r][c] : \A n \in 1..got'[r][c][i] : Arrived(r, c, n)'
                      /\ \A x \in Fd : Has(r, x, c)' /\ ~socket'[r][x].closed =>
                            \A y \in Nat : Coming(r, c, y)' =>
                                \A n \in 1..y : Arrived(r, c, n)' \/ Coming(r, c, n)'
    BY <1>H DEF NoGap
  <2>1. /\ \A i \in DOMAIN got[r][c] : \A n \in 1..got[r][c][i] : Arrived(r, c, n)
        /\ \A x \in Fd : Has(r, x, c) /\ ~socket[r][x].closed =>
              \A y \in Nat : Coming(r, c, y) =>
                  \A n \in 1..y : Arrived(r, c, n) \/ Coming(r, c, n)
    BY <1>H, <1>1 DEF NoGap
  <2>2. CASE r = q
    <3>1. got'[r][c] = got[r][c] /\ (\A x : Coming(r, c, x)' <=> Coming(r, c, x))
      BY <1>H, <1>4, <1>7, <2>2
    <3>2. \A x \in Fd : Has(r, x, c)' /\ ~socket'[r][x].closed => Has(r, x, c) /\ ~socket[r][x].closed
      BY <1>H, <1>2, <1>3
    <3>3. \A n : Arrived(r, c, n)' <=> Arrived(r, c, n)
      BY <1>H, <2>2
    <3> QED
      BY ONLY <2>1, <3>1, <3>2, <3>3
  <2>3. CASE r = p
    <3>1. ASSUME NEW i \in DOMAIN got'[p][c], NEW n \in 1..got'[p][c][i]
          PROVE  Arrived(p, c, n)'
      <4>1. CASE got'[p][c] = g
        BY <1>H, <2>1, <2>3, <3>1, <4>1
      <4>2. CASE got'[p][c] = v /\ s # None /\ ~s.closed
        <5>1. Has(p, f, c)' /\ ~socket'[p][f].closed
          <6>1. s.conn = c
            BY <1>H, <4>2
          <6> QED
            BY <1>H, <4>2, <6>1 DEF Has, Becomes
        <5>2. \A x \in 1..k : Arrived(p, c, x)'
          BY <1>16, <2>3, <5>1
        <5>3. v[i] = k \/ (i \in DOMAIN g /\ v[i] = g[i])
          BY <1>12, <3>1, <4>2
        <5> QED
          BY <1>H, <2>1, <2>3, <3>1, <4>2, <5>2, <5>3
      <4> QED
        BY <1>H, <4>1, <4>2
    <3>2. ASSUME NEW x \in Fd, Has(p, x, c)', ~socket'[p][x].closed, NEW y \in Nat,
                 Coming(p, c, y)', NEW n \in 1..y
          PROVE  Arrived(p, c, n)' \/ Coming(p, c, n)'
      <4>1. Arrived(p, c, k)'
        BY <1>H, <1>11, <3>2
      <4>2. Arrived(p, c, n) \/ Coming(p, c, n)
        BY <1>H, <1>4, <1>16, <2>3, <3>2
      <4> QED
        BY <1>H, <1>4, <4>1, <4>2
    <3> QED
      BY <2>3, <3>1, <3>2
  <2> QED
    BY <1>H, <1>0, <2>2, <2>3
<1>18. ASSUME Quiet' PROVE Complete(c)'
  <2> SUFFICES ASSUME NEW r \in Peer, NEW x \in Fd, Has(r, x, c)', ~socket'[r][x].closed
               PROVE  /\ \A n \in 1..wrote'[Other(r)][c] :
                             Arrived(r, c, n)' \/ Coming(r, c, n)' \/ Unread(Other(r), c, n)'
                      /\ socket'[r][x].shut => \A n \in 1..wrote'[Other(r)][c] : Arrived(r, c, n)'
    BY <1>H DEF Complete
  <2>1. /\ Has(r, x, c) /\ ~socket[r][x].closed
        /\ socket'[r][x].shut = socket[r][x].shut /\ Other(r) \in Peer
    BY <1>H, <1>0, <1>2, <1>3
  <2>2. /\ \A n \in 1..wrote[Other(r)][c] :
               Arrived(r, c, n) \/ Coming(r, c, n) \/ Unread(Other(r), c, n)
        /\ socket[r][x].shut => \A n \in 1..wrote[Other(r)][c] : Arrived(r, c, n)
    BY <1>H, <1>1, <1>18, <2>1 DEF Complete
  <2>3. CASE r = q
    BY <1>H, <1>0, <1>4, <1>5, <1>7, <2>1, <2>2, <2>3
  <2>4. CASE r = p
    <3>1. Arrived(p, c, k)' /\ ~socket'[r][x].shut
      BY <1>H, <1>3, <1>11, <2>1, <2>4
    <3>2. ASSUME NEW n \in 1..wrote'[Other(r)][c]
          PROVE  Arrived(r, c, n)' \/ Coming(r, c, n)' \/ Unread(Other(r), c, n)'
      <4>1. Arrived(p, c, n) \/ Coming(p, c, n) \/ Unread(q, c, n)
        BY <1>H, <1>0, <1>7, <2>2, <2>4
      <4>2. Coming(p, c, n) => n = k \/ Coming(p, c, n)'
        BY <1>H, <1>4
      <4>3. Unread(q, c, n) => Unread(q, c, n)'
        BY <1>H, <1>0, <1>5
      <4> QED
        BY <1>H, <1>0, <2>4, <3>1, <4>1, <4>2, <4>3
    <3> QED
      BY ONLY <3>1, <3>2
  <2> QED
    BY <1>H, <1>0, <2>3, <2>4
<1> QED
  BY <1>H, <1>13, <1>14, <1>15, <1>17, <1>18 DEF ConnOK

\* cmd_tun_write_cb, to a socket of the same connection, of another one, or to none.
LEMMA DataKeeps ==
    ASSUME IInv, ~mixed, NEW p \in Peer, Data(p),
           NEW h, h = Head(chan[p]), NEW f, f = h.fd, NEW s, s = socket[p][f],
           NEW c, c = IF s = None THEN h.conn ELSE s.conn
    PROVE  IInv'
<1> DEFINE q == Other(p)
           t == IF s = None THEN None ELSE [s EXCEPT !.reset = s.closed]
           m == Msg("NOT_CREATED", f, None, c, 0)
           k == h.chunk
           g == got[p][c]
<1>0. /\ q \in Peer /\ q # p /\ Other(p) = q /\ Other(q) = p
      /\ \A r \in Peer : (r = p \/ r = q) /\ Other(r) \in Peer
  BY OtherIs
<1>1. /\ Got(p, "DATA") /\ UNCHANGED <<up, linked, map, accepted, wrote, refused, losses>>
      /\ chan' = Received(p)
      /\ mixed' = (s # None /\ s.conn # h.conn)
      /\ s = None => socket' = socket
      /\ s # None => ~s.shut /\ socket' = [socket EXCEPT ![p][f] = t]
      /\ ~(s # None /\ ~s.closed) => UNCHANGED <<got, cut>>
      /\ s # None /\ ~s.closed =>
             \/ got' = [got EXCEPT ![p][c] = Append(@, k)] /\ cut' = cut
             \/ got' = got /\ cut' = cut \cup {<<p, c, k>>}
  BY DEF Data, Mixes
<1>2. Base /\ TypeOK /\ MapWatched /\ \A d \in Conn : ConnOK(d)
  BY DEF IInv, Base
<1>3. /\ p \in up /\ chan[p] \in Seq(Message) /\ chan[p] # <<>>
      /\ 1 \in DOMAIN chan[p] /\ h = chan[p][1] /\ h \in Message /\ h.cmd = "DATA"
      /\ h.conn \in Conn /\ ~(accepted < h.conn) /\ Of(p, 1, h.conn, "DATA")
      /\ f \in Fd
      /\ \A i \in DOMAIN chan[p] : i = 1 => chan[p][i].conn = h.conn
      /\ \A i \in DOMAIN chan[p] : i <= 1 => i = 1
  <2>1. Base /\ Got(p, "DATA") /\ "DATA" # "CREATE"
    BY <1>1, <1>2
  <2> HIDE DEF q, t, m, k, g
  <2> QED
    BY <2>1, HeadIs
<1>4. s # None => /\ s \in Socket /\ Has(p, f, c) /\ s.conn \in Conn /\ ~(accepted < s.conn)
                  /\ c = s.conn /\ s.unread \in Seq(1..MaxWrite)
  BY <1>2, <1>3, SocketOf
<1>5. c \in Conn /\ ~(accepted < c) /\ map[p][f] \in Fd \cup {None} /\ (~mixed' => h.conn = c)
      /\ (map[p][f] # None <=> s # None /\ s.watched)
  <2>1. map[p][f] \in Fd \cup {None} /\ (map[p][f] # None <=> s # None /\ s.watched)
    BY <1>2, <1>3 DEF TypeOK, MapWatched
  <2> QED
    BY <1>1, <1>3, <1>4, <2>1
<1>6. t \in Socket \cup {None} /\ (t # None <=> s # None)
  <2>1. s # None => s.closed \in BOOLEAN
    BY <1>4 DEF Socket
  <2>2. s # None => [s EXCEPT !.reset = s.closed] \in Socket /\ [s EXCEPT !.reset = s.closed] # None
    BY <1>4, <2>1, SocketIs, TunnelAssumption
  <2> QED
    BY <2>2
<1>7. s # None => /\ t.conn = c /\ t.watched = s.watched /\ t.shut = s.shut /\ t.closed = s.closed
                  /\ t.unread = s.unread
  BY <1>4 DEF Socket
<1>8. m.conn = c /\ m.cmd = "NOT_CREATED" /\ m.fd = f
  BY DEF Msg
<1>9. k \in 1..wrote[q][h.conn] /\ k \in 1..MaxWrite
  <2>1. InOrderAt(p, h.conn)
    BY <1>2, <1>3 DEF ConnOK, InOrder
  <2>2. k \in 1..wrote[q][h.conn]
    BY <1>0, <1>3, <2>1 DEF InOrderAt
  <2>3. wrote[q][h.conn] \in 0..MaxWrite
    BY <1>0, <1>2, <1>3 DEF TypeOK
  <2> QED
    BY <2>2, <2>3, TunnelAssumption
<1> HIDE DEF q, t, m, k, g
<1>10. /\ socket' \in [Peer -> [Fd -> Socket \cup {None}]]
       /\ map' \in [Peer -> [Fd -> Fd \cup {None}]] /\ Becomes(p, f, t, map[p][f])
  <2>1. \/ socket' = [socket EXCEPT ![p][f] = t]
        \/ socket' = socket /\ t = socket[p][f]
    BY <1>1, <1>6
  <2> QED
    BY <1>1, <1>2, <1>3, <1>5, <1>6, <2>1, SocketBecomes
<1>11. /\ chan' \in [Peer -> Seq(Message)] /\ Took(p, 1)
       /\ chan'[q] = chan[q] /\ Put(q, m)
  BY <1>0, <1>1, <1>2, <1>3, Takes
<1>12. /\ got' \in [Peer -> [Conn -> Seq(1..MaxWrite)]]
       /\ got'[q] = got[q] /\ \A d \in Conn : d # c => got'[p][d] = got[p][d]
       /\ got'[p][c] \in {g, Append(g, k)}
       /\ ~(s # None /\ ~s.closed) => got'[p][c] = g
       /\ g \in Seq(1..MaxWrite) /\ got[q][c] \in Seq(1..MaxWrite)
  <2>1. got \in [Peer -> [Conn -> Seq(1..MaxWrite)]] /\ g \in Seq(1..MaxWrite)
    BY <1>2, <1>5 DEF TypeOK, g
  <2>2. Append(g, k) \in Seq(1..MaxWrite)
    BY <1>9, <2>1
  <2>3. got[q][c] \in Seq(1..MaxWrite)
    BY <1>0, <1>5, <2>1
  <2>4. CASE s # None /\ ~s.closed /\ got' # got
    <3>1. got' = [got EXCEPT ![p][c] = Append(g, k)]
      BY <1>1, <2>4 DEF g
    <3> QED
      BY <1>0, <1>5, <2>1, <2>2, <2>3, <2>4, <3>1
  <2>5. CASE got' = got
    BY <2>1, <2>3, <2>5 DEF g
  <2> QED
    BY <1>1, <2>4, <2>5
\* What has arrived stays so, and the chunk has arrived if the socket is open.
<1>17. cut \subseteq cut' /\ cut' \subseteq cut \cup {<<p, c, k>>}
  BY <1>1
<1>18. /\ \A n : Arrived(q, c, n)' <=> Arrived(q, c, n)
       /\ \A d \in Conn : d # c => SameArrived(d)
  <2>1. \A r, d, n : r # p \/ d # c => (<<r, d, n>> \in cut' <=> <<r, d, n>> \in cut)
    BY <1>17
  <2>2. ASSUME NEW r \in Peer, NEW d \in Conn, NEW n, r = q \/ d # c
        PROVE  Arrived(r, d, n)' <=> Arrived(r, d, n)
    <3>1. got'[r][d] = got[r][d] /\ (<<r, d, n>> \in cut' <=> <<r, d, n>> \in cut)
      <4>1. r = q \/ (r = p /\ d # c)
        BY <1>0, <2>2
      <4>2. got'[r][d] = got[r][d]
        BY ONLY <1>12, <4>1
      <4>3. r # p \/ d # c
        BY <1>0, <4>1
      <4>4. <<r, d, n>> \in cut' <=> <<r, d, n>> \in cut
        BY ONLY <2>1, <4>3
      <4> QED
        BY ONLY <4>2, <4>4
    <3> QED
      BY <3>1 DEF Arrived
  <2> QED
    BY <1>0, <1>5, <2>2 DEF SameArrived
<1>19. /\ \A n : Arrived(p, c, n) => Arrived(p, c, n)'
       /\ s # None /\ ~s.closed => Arrived(p, c, k)'
  <2>1. PICK v : v = Append(g, k)
    OBVIOUS
  <2>2. /\ \A i \in DOMAIN g : i \in DOMAIN v /\ v[i] = g[i]
        /\ \E i \in DOMAIN v : v[i] = k
    <3>1. g \in Seq(1..MaxWrite) /\ k \in 1..MaxWrite
      BY <1>9, <1>12
    <3> QED
      BY ONLY <2>1, <3>1, AppendIs
  <2>3. got'[p][c] \in {g, v}
    BY <1>12, <2>1
  <2>4. ASSUME NEW n, Arrived(p, c, n) PROVE Arrived(p, c, n)'
    <3>1. CASE <<p, c, n>> \in cut
      BY <1>17, <3>1 DEF Arrived
    <3>2. CASE \E i \in DOMAIN g : g[i] = n
      <4>1. \E i \in DOMAIN got'[p][c] : got'[p][c][i] = n
        BY ONLY <2>2, <2>3, <3>2
      <4> QED
        BY <4>1 DEF Arrived
    <3> QED
      BY <2>4, <3>1, <3>2 DEF Arrived, g
  <2>5. s # None /\ ~s.closed => got'[p][c] = v \/ <<p, c, k>> \in cut'
    <3>1. ASSUME got' = [got EXCEPT ![p][c] = Append(@, k)] PROVE got'[p][c] = v
      <4>1. got \in [Peer -> [Conn -> Seq(1..MaxWrite)]] /\ c \in Conn
        BY <1>2, <1>5 DEF TypeOK
      <4> QED
        BY <2>1, <3>1, <4>1 DEF g
    <3> QED
      BY <1>1, <3>1
  <2> QED
    BY <2>2, <2>4, <2>5 DEF Arrived
<1>13. TypeOK'
  <2>1. mixed' \in BOOLEAN
    BY <1>1
  <2>2. cut' \subseteq Peer \X Conn \X (1..MaxWrite)
    BY <1>2, <1>5, <1>9, <1>17 DEF TypeOK
  <2> QED
    BY <1>1, <1>2, <1>10, <1>11, <1>12, <2>1, <2>2 DEF TypeOK
<1>14. StepOf(c, p, f, t, map[p][f], 1, m)
  <2>1. accepted <= accepted'
    BY <1>1, <1>2, AcceptedIs
  <2>2. OneStep(p, f, t, map[p][f], 1, m)
    BY <1>0, <1>1, <1>10, <1>11 DEF OneStep
  <2>3. OnlyOf(c)
    BY <1>0, <1>1, <1>12, <1>18 DEF OnlyOf
  <2>4. mixed' \/ (1 = 1 => \A i \in DOMAIN chan[p] : i = 1 => chan[p][i].conn = c)
    BY <1>3, <1>5
  <2>5. map[p][f] # None <=> t # None /\ t.watched
    BY <1>5, <1>6, <1>7
  <2>6. /\ mixed' \/ (socket[p][f] # None => socket[p][f].conn = c)
        /\ t # None => t.conn = c \/ (socket[p][f] # None /\ t.conn = socket[p][f].conn)
    BY <1>4, <1>6, <1>7
  <2>7. /\ m.cmd # "CREATE" => m.fd \in Fd
        /\ m.cmd \in {"CREATE", "CREATED"} => m.from \in Fd
    BY <1>3, <1>8
  <2> QED
    BY <1>1, <1>3, <1>5, <1>8, <2>1, <2>2, <2>3, <2>4, <2>5, <2>6, <2>7 DEF StepOf
<1>15. ASSUME ~mixed' PROVE ConnOK(c)'
  <2> DEFINE v == Append(g, k)
  <2>1. /\ Of(p, 1, c, "DATA") /\ 1 \in DOMAIN chan[p] /\ chan[p][1].fd = f /\ chan[p][1].chunk = k
        /\ k \in 1..MaxWrite /\ p \in up /\ c \in Conn /\ f \in Fd /\ ConnOK(c) /\ TypeOK
    BY <1>2, <1>3, <1>5, <1>9, <1>15 DEF k
  <2>2. g = got[p][c] /\ got'[q] = got[q] /\ UNCHANGED <<up, wrote, refused, losses>>
    BY <1>1, <1>12 DEF g
  <2>3. /\ s = None => t = None
        /\ s # None => /\ t # None /\ s.conn = c /\ t.conn = c /\ ~s.shut
                       /\ t.watched = s.watched /\ t.shut = s.shut /\ t.closed = s.closed
                       /\ t.unread = s.unread
    BY <1>1, <1>4, <1>6, <1>7
  <2>4. /\ s # None /\ ~s.closed => got'[p][c] \in {g, v} /\ Arrived(p, c, k)'
        /\ ~(s # None /\ ~s.closed) => got'[p][c] = g
        /\ \A n : Arrived(q, c, n)' <=> Arrived(q, c, n)
        /\ \A n : Arrived(p, c, n) => Arrived(p, c, n)'
    BY <1>12, <1>18, <1>19
  <2>5. TakesChunk(c, p, f, t, k, v)
    BY <1>0, <1>10, <1>11, <2>1, <2>2, <2>3, <2>4 DEF TakesChunk
  <2> HIDE DEF v
  <2> QED
    BY <1>15, <2>1, <2>5, DataOfOne
<1> QED
  BY <1>3, <1>5, <1>13, <1>14, <1>15, StepKeeps

\* cmd_tun_read_cb, at the end of the data: all of it is on its way before NOT_CREATED.
LEMMA ReadEndKeeps ==
    ASSUME IInv, ~mixed, NEW p \in Peer, NEW f \in Fd, ReadEnd(p, f),
           NEW s, s = socket[p][f], NEW c, c = s.conn, NEW g, g = map[p][f]
    PROVE  IInv'
<1> DEFINE q == Other(p)
           m == Msg("NOT_CREATED", g, None, c, 0)
<1>0. /\ q \in Peer /\ q # p /\ Other(p) = q /\ Other(q) = p
      /\ \A r \in Peer : (r = p \/ r = q) /\ Other(r) \in Peer
  BY OtherIs
<1>1. /\ s # None /\ UNCHANGED <<up, linked, accepted, wrote, got, cut, refused, losses, mixed>>
      /\ s.watched /\ s.unread = <<>>
      /\ socket' = [socket EXCEPT ![p][f] = None]
      /\ map' = [map EXCEPT ![p][f] = None]
      /\ chan' = Send(q, m, chan)
  BY DEF ReadEnd, Readable
<1>2. Base /\ TypeOK /\ Peers /\ MapWatched /\ \A d \in Conn : ConnOK(d)
  BY DEF IInv, Base
<1>3. /\ c \in Conn /\ p \in up /\ Has(p, f, c) /\ ~(accepted < c) /\ g \in Fd
  BY <1>1, <1>2, SocketOf
<1>4. m \in Message /\ m.conn = c /\ m.cmd = "NOT_CREATED" /\ m.fd = g
  <2>1. 0 \in 0..MaxWrite
    BY TunnelAssumption
  <2>2. m \in Message
    BY <1>3, <2>1, MsgIs
  <2> QED
    BY <2>2 DEF Msg
<1> HIDE DEF q, m
<1>5. /\ socket' \in [Peer -> [Fd -> Socket \cup {None}]]
      /\ map' \in [Peer -> [Fd -> Fd \cup {None}]] /\ Becomes(p, f, None, None)
  BY <1>1, <1>2, SocketBecomes
<1>6. /\ chan' \in [Peer -> Seq(Message)] /\ Took(p, 0) /\ chan'[p] = chan[p]
      /\ Put(q, m) /\ (Delivered(q) => \E i \in DOMAIN chan'[q] : chan'[q][i] = m)
  BY <1>0, <1>1, <1>2, <1>4, Sends
<1>7. TypeOK'
  BY <1>1, <1>2, <1>5, <1>6 DEF TypeOK
<1>8. StepOf(c, p, f, None, None, 0, m)
  <2>1. accepted <= accepted'
    BY <1>1, <1>2, AcceptedIs
  <2>2. OneStep(p, f, None, None, 0, m)
    BY <1>0, <1>1, <1>5, <1>6 DEF OneStep
  <2> QED
    BY <1>1, <1>3, <1>4, <2>1, <2>2, OnlyNone DEF StepOf
<1>9. /\ OneSocket(c) /\ Asked(c) /\ Answered(c) /\ Final(c) /\ Named(c) /\ InOrder(c)
      /\ Quiet' => Quiet /\ Noticed(c) /\ Delivered(q)
  <2>1. Quiet' => Quiet
    BY <1>1 DEF Quiet
  <2>2. Quiet => Delivered(q)
    BY <1>0, <1>2 DEF Quiet, Peers, Delivered
  <2> QED
    BY <1>2, <1>3, <2>1, <2>2 DEF ConnOK
\* p has no socket any more, and q keeps its own.
<1>10. /\ \A x \in Fd : Has(p, x, c) => x = f
       /\ \A x : ~Has(p, x, c)'
       /\ \A x \in Fd : /\ Has(q, x, c)' <=> Has(q, x, c)
                        /\ socket'[q][x] = socket[q][x] /\ map'[q][x] = map[q][x]
                        /\ Has(q, x, c) => x = g
  <2>1. \A x \in Fd : Has(p, x, c) => x = f
    BY <1>3, <1>9 DEF OneSocket
  <2>2. \A x \in Fd : /\ socket'[p][x] = IF x = f THEN None ELSE socket[p][x]
                      /\ socket'[q][x] = socket[q][x] /\ map'[q][x] = map[q][x]
    BY <1>0, <1>5 DEF Becomes
  <2>3. \A x \in Fd : Has(q, x, c) => x = g
    BY <1>0, <1>3, <1>9, TunnelAssumption DEF Named
  <2> QED
    BY <2>1, <2>2, <2>3 DEF Has
\* No CREATE, no CREATED for p, and no NOT_CREATED for q: but the new one, the last.
<1>11. /\ \A r \in Peer : \A i \in DOMAIN chan[r] : ~Of(r, i, c, "CREATE")
       /\ \A i \in DOMAIN chan[p] : ~Of(p, i, c, "CREATED")
  BY <1>1, <1>3, <1>9, WatchedCommands
<1>12. \A i \in DOMAIN chan[q] : ~Of(q, i, c, "NOT_CREATED")
  BY <1>0, <1>3, <1>9 DEF Final, NoSocket
<1>13. \A i \in DOMAIN chan'[q] :
           \/ i \in DOMAIN chan[q] /\ chan'[q][i] = chan[q][i]
           \/ chan'[q][i] = m /\ (\A j \in DOMAIN chan'[q] : j <= i)
                              /\ (\A j \in DOMAIN chan[q] : j < i)
  BY <1>6 DEF Put
<1>14. /\ OneSocket(c)' /\ Asked(c)'
  <2>1. \A r \in Peer : \A i \in DOMAIN chan'[r] : ~Of(r, i, c, "CREATE")'
    <3>1. \A i \in DOMAIN chan'[p] : ~Of(p, i, c, "CREATE")'
      BY <1>6, <1>11 DEF Of
    <3>2. \A i \in DOMAIN chan'[q] : ~Of(q, i, c, "CREATE")'
      BY <1>0, <1>4, <1>11, <1>13 DEF Of
    <3> QED
      BY <1>0, <3>1, <3>2
  <2> QED
    BY <1>0, <1>9, <1>10, <2>1 DEF OneSocket, Asked
<1>15. Answered(c)'
  <2> SUFFICES ASSUME NEW r \in Peer, NEW i \in DOMAIN chan'[r], Of(r, i, c, "CREATED")',
                      NEW e, e = chan'[r][i]
               PROVE  /\ Waiting(r, e.fd, c)'
                      /\ \A j \in DOMAIN chan'[r] : chan'[r][j].conn = c =>
                             j = i \/ (i < j /\ chan'[r][j].cmd \in {"DATA", "NOT_CREATED"})
                      /\ Silent(Other(r), c)' /\ c \notin refused'
                      /\ \A x \in Fd : Has(Other(r), x, c)' => x = e.from
    BY DEF Answered
  <2>1. r = q
    BY <1>0, <1>6, <1>11 DEF Of
  <2>2. i \in DOMAIN chan[q] /\ e = chan[q][i] /\ Of(q, i, c, "CREATED")
    BY <1>4, <1>13, <2>1 DEF Of
  <2>3. /\ Waiting(q, e.fd, c) /\ Silent(p, c) /\ c \notin refused
        /\ \A j \in DOMAIN chan[q] : chan[q][j].conn = c =>
               j = i \/ (i < j /\ chan[q][j].cmd \in {"DATA", "NOT_CREATED"})
    BY <1>0, <1>9, <2>2 DEF Answered
  <2>4. Waiting(q, e.fd, c)'
    BY <1>10, <2>3 DEF Waiting, Has
  <2>5. \A j \in DOMAIN chan'[q] : chan'[q][j].conn = c =>
               j = i \/ (i < j /\ chan'[q][j].cmd \in {"DATA", "NOT_CREATED"})
    BY <1>4, <1>13, <2>2, <2>3
  <2>6. Silent(p, c)'
    BY <1>6, <2>3 DEF Silent
  <2> QED
    BY <1>0, <1>1, <1>10, <2>1, <2>3, <2>4, <2>5, <2>6
<1>16. Final(c)'
  <2> SUFFICES ASSUME NEW r \in Peer, NEW i \in DOMAIN chan'[r], Of(r, i, c, "NOT_CREATED")'
               PROVE  /\ \A j \in DOMAIN chan'[r] : chan'[r][j].conn = c => j <= i
                      /\ NoSocket(Other(r), c)'
    BY DEF Final
  <2>1. CASE r = p
    <3>1. /\ \A j \in DOMAIN chan[p] : chan[p][j].conn = c => j <= i
          /\ NoSocket(q, c)
      BY <1>0, <1>6, <1>9, <2>1 DEF Final, Of
    <3> QED
      BY <1>0, <1>6, <1>10, <2>1, <3>1 DEF NoSocket
  <2>2. CASE r = q
    <3>1. \A j \in DOMAIN chan'[q] : j <= i
      BY <1>12, <1>13, <2>2 DEF Of
    <3> QED
      BY <1>0, <1>10, <2>2, <3>1 DEF NoSocket
  <2> QED
    BY <1>0, <2>1, <2>2
<1>17. Named(c)'
  <2> SUFFICES ASSUME NEW x \in Fd, Has(q, x, c)'
               PROVE  /\ \A i \in DOMAIN chan'[q] :
                             chan'[q][i].conn = c /\ chan'[q][i].cmd # "CREATE" => chan'[q][i].fd = x
                      /\ c \in refused' => ~socket'[q][x].watched
    <3>1. \A y : ~Has(p, y, c)'
      BY <1>10
    <3> QED
      BY <1>0, <3>1 DEF Named, NoSocket
  <2>1. Has(q, x, c) /\ x = g
    BY <1>10
  <2>2. /\ \A i \in DOMAIN chan[q] :
               chan[q][i].conn = c /\ chan[q][i].cmd # "CREATE" => chan[q][i].fd = x
        /\ c \in refused => ~socket[q][x].watched
    BY <1>0, <1>9, <2>1 DEF Named
  <2> QED
    BY <1>1, <1>4, <1>10, <1>13, <2>1, <2>2
<1>18. InOrder(c)'
  <2>1. InOrderAt(p, c) /\ InOrderAt(q, c)
    BY <1>0, <1>9 DEF InOrder
  <2>2. \A r \in Peer : /\ wrote[r][c] \in Nat /\ wrote'[r][c] \in Nat /\ wrote[r][c] <= wrote'[r][c]
                        /\ got'[r][c] = got[r][c] /\ got[r][c] \in Seq(1..MaxWrite)
    BY <1>1, <1>2, <1>3, HistoryIs
  <2>3. InOrderAt(p, c)'
    BY <1>0, <1>6, <2>1, <2>2, InOrderTaken
  <2>4. InOrderAt(q, c)'
    BY <1>0, <1>4, <1>6, <2>1, <2>2, InOrderSent
  <2> QED
    BY <1>0, <2>3, <2>4 DEF InOrder
<1>19. UnreadInOrder(c)' /\ NoGap(c)' /\ (Quiet' => Complete(c)')
  <2>1. \A r \in Peer : \A x : Coming(r, c, x)' <=> Coming(r, c, x)
    <3>1. \A i \in DOMAIN chan[p] : i <= 0 => ~Of(p, i, c, "DATA")
      BY <1>6 DEF Took
    <3> QED
      BY <1>0, <1>4, <1>6, <3>1, ComingStays
  <2>2. \A r \in Peer : \A x : Unread(r, c, x)' <=> Unread(r, c, x)
    BY <1>1, <1>5, UnreadStays
  <2>3. \A r \in Peer, x \in Fd : Has(r, x, c)' =>
            Has(r, x, c) /\ socket'[r][x] = socket[r][x]
    BY <1>0, <1>10
  <2> QED
    BY <1>1, <1>2, <1>3, <2>1, <2>2, <2>3, ArrivedIs, ChunksStay
<1>20. ASSUME Quiet' PROVE Noticed(c)'
  <2>1. InFlight(q, c, {"NOT_CREATED"})' /\ InFlight(q, c, {"CREATED", "NOT_CREATED"})'
    BY <1>4, <1>6, <1>9, <1>20 DEF InFlight
  <2>2. Paired(c)' /\ Waits(c)'
    BY <1>0, <1>10, <2>1 DEF Paired, Waits
  <2>3. InFlight(q, c, {"CREATED"}) => InFlight(q, c, {"CREATED"})'
    BY <1>6 DEF InFlight, Put
  <2>4. \/ NoSocket(q, c)
        \/ InFlight(q, c, {"CREATED"})
        \/ \A x \in Fd : Has(q, x, c) => socket[q][x].watched
    <3>1. \/ s.shut \/ InFlight(p, c, {"NOT_CREATED"})
          \/ /\ Has(q, g, c)
             /\ map[q][g] = f \/ InFlight(q, c, {"CREATED"})
      BY <1>0, <1>1, <1>3, <1>9, <1>20 DEF Noticed, Paired
    <3>2. CASE s.shut
      BY <1>0, <1>3, <1>9, <3>2 DEF Named
    <3>3. CASE InFlight(p, c, {"NOT_CREATED"})
      BY <1>0, <1>9, <3>3 DEF InFlight, Final, Of
    <3>4. CASE Has(q, g, c) /\ map[q][g] = f
      <4>1. socket[q][g].watched
        BY <1>0, <1>2, <1>3, <3>4, TunnelAssumption DEF MapWatched
      <4> QED
        BY <1>10, <4>1
    <3> QED
      BY <3>1, <3>2, <3>3, <3>4
  <2>5. Answers(c)'
    <3> SUFFICES ASSUME NEW r \in Peer, NEW i \in DOMAIN chan'[r]
                 PROVE  /\ Of(r, i, c, "CREATED")' =>
                               \/ Has(Other(r), chan[r][i].from, c)'
                               \/ InFlight(r, c, {"NOT_CREATED"})'
                        /\ Of(r, i, c, "NOT_CREATED")' =>
                               \/ c \in refused'
                               \/ \A x \in Fd : Has(r, x, c)' => socket'[r][x].watched
                               \/ InFlight(r, c, {"CREATED"})'
      BY DEF Answers
    <3>1. CASE r = p
      <4>1. ~Of(p, i, c, "CREATED")'
        BY <1>6, <1>11, <3>1 DEF Of
      <4> QED
        BY <1>10, <3>1, <4>1
    <3>2. CASE r = q
      BY <1>10, <2>1, <2>3, <2>4, <3>2 DEF NoSocket
    <3> QED
      BY <1>0, <3>1, <3>2
  <2> QED
    BY <2>2, <2>5 DEF Noticed
<1>21. ConnOK(c)'
  BY <1>14, <1>15, <1>16, <1>17, <1>18, <1>19, <1>20 DEF ConnOK
<1> QED
  BY <1>2, <1>3, <1>7, <1>8, <1>21, StepKeeps

\* cmd_tun_created_cb: the socket that waits is the one that the command names.
LEMMA CreatedKeeps ==
    ASSUME IInv, ~mixed, NEW p \in Peer, Created(p),
           NEW h, h = Head(chan[p]), NEW f, f = h.fd, NEW c, c = h.conn, NEW b, b = h.from,
           NEW s, s = socket[p][f]
    PROVE  IInv'
<1> DEFINE q == Other(p)
           t == [s EXCEPT !.watched = TRUE]
           m == Msg("NOT_CREATED", f, None, c, 0)
<1>0. /\ q \in Peer /\ q # p /\ Other(p) = q /\ Other(q) = p
      /\ \A r \in Peer : (r = p \/ r = q) /\ Other(r) \in Peer
  BY OtherIs
<1>1. /\ Got(p, "CREATED") /\ UNCHANGED <<up, linked, accepted, wrote, got, cut, refused, losses, mixed>>
      /\ socket' = [socket EXCEPT ![p][f] = t]
      /\ map' = [map EXCEPT ![p][f] = b]
      /\ chan' = Received(p)
  BY DEF Created, Connected
<1>2. Base /\ TypeOK /\ MapWatched /\ \A d \in Conn : ConnOK(d)
  BY DEF IInv, Base
<1>3. /\ p \in up /\ chan[p] \in Seq(Message) /\ chan[p] # <<>>
      /\ 1 \in DOMAIN chan[p] /\ h = chan[p][1]
      /\ c \in Conn /\ ~(accepted < c) /\ Of(p, 1, c, "CREATED")
      /\ f \in Fd /\ b \in Fd
      /\ \A i \in DOMAIN chan[p] : i = 1 => chan[p][i].conn = c
      /\ \A i \in DOMAIN chan[p] : i <= 1 => i = 1
  <2>1. Base /\ Got(p, "CREATED") /\ "CREATED" # "CREATE" /\ "CREATED" \in {"CREATE", "CREATED"}
    BY <1>1, <1>2
  <2> HIDE DEF q, t, m
  <2> QED
    BY <2>1, HeadIs
<1>4. /\ OneSocket(c) /\ Final(c) /\ Named(c) /\ InOrder(c)
      /\ Waiting(p, f, c) /\ Silent(q, c) /\ c \notin refused
      /\ \A j \in DOMAIN chan[p] : chan[p][j].conn = c =>
             j = 1 \/ chan[p][j].cmd \in {"DATA", "NOT_CREATED"}
      /\ \A x \in Fd : Has(q, x, c) => x = b
      /\ Quiet' => Noticed(c)
  <2>1. Answered(c) /\ (Quiet' => Quiet)
    BY <1>1, <1>2, <1>3 DEF ConnOK, Quiet
  <2> QED
    BY <1>0, <1>2, <1>3, <2>1 DEF ConnOK, Answered
<1>5. s \in Socket /\ s # None /\ s.conn = c /\ Has(p, f, c) /\ ~s.watched /\ ~s.shut
  BY <1>2, <1>3, <1>4 DEF Waiting, Has, TypeOK
<1>6. t \in Socket /\ t # None
  <2>1. TRUE \in BOOLEAN /\ s.unread \in Seq(1..MaxWrite)
    BY <1>5 DEF Socket
  <2>2. [s EXCEPT !.watched = TRUE] \in Socket
    BY <1>5, <2>1, SocketIs
  <2> QED
    BY <2>2, TunnelAssumption
<1>7. /\ t.conn = c /\ t.watched /\ ~t.shut /\ t.closed = s.closed /\ t.unread = s.unread
  BY <1>5 DEF Socket
<1>8. m.conn = c /\ m.cmd = "NOT_CREATED" /\ m.fd = f
  BY DEF Msg
<1> HIDE DEF q, t, m
<1>9. /\ socket' \in [Peer -> [Fd -> Socket \cup {None}]]
      /\ map' \in [Peer -> [Fd -> Fd \cup {None}]] /\ Becomes(p, f, t, b)
  BY <1>1, <1>2, <1>3, <1>6, SocketBecomes
<1>10. /\ chan' \in [Peer -> Seq(Message)] /\ Took(p, 1)
       /\ chan'[q] = chan[q] /\ Put(q, m)
  BY <1>0, <1>1, <1>2, <1>3, Takes
<1>11. TypeOK'
  BY <1>1, <1>2, <1>9, <1>10 DEF TypeOK
<1>12. StepOf(c, p, f, t, b, 1, m)
  <2>1. accepted <= accepted' /\ b # None
    BY <1>1, <1>2, <1>3, AcceptedIs, TunnelAssumption
  <2>2. OneStep(p, f, t, b, 1, m)
    BY <1>0, <1>1, <1>9, <1>10 DEF OneStep
  <2> QED
    BY <1>1, <1>3, <1>5, <1>6, <1>7, <1>8, <2>1, <2>2, OnlyNone DEF StepOf
<1>13. \A r \in Peer : \A x, d : Has(r, x, d)' <=> Has(r, x, d)
  <2>1. socket[p][f] # None /\ t # None /\ t.conn = socket[p][f].conn
    BY <1>5, <1>6, <1>7
  <2> QED
    BY <1>3, <1>9, <2>1, SameHas
<1>14. /\ \A x \in Fd : Has(p, x, c) => x = f
       /\ socket'[p][f] = t /\ map'[p][f] = b
       /\ \A x \in Fd : socket'[q][x] = socket[q][x] /\ map'[q][x] = map[q][x]
  BY <1>0, <1>3, <1>4, <1>5, <1>9 DEF OneSocket, Becomes
\* What is left of c for p.
<1>15. \A i \in DOMAIN chan'[p] :
           /\ i \in Nat /\ i + 1 \in DOMAIN chan[p] /\ chan'[p][i] = chan[p][i + 1]
           /\ chan'[p][i].conn = c => chan'[p][i].cmd \in {"DATA", "NOT_CREATED"}
  <2> SUFFICES ASSUME NEW i \in DOMAIN chan'[p]
               PROVE  /\ i \in Nat /\ i + 1 \in DOMAIN chan[p] /\ chan'[p][i] = chan[p][i + 1]
                      /\ chan'[p][i].conn = c => chan'[p][i].cmd \in {"DATA", "NOT_CREATED"}
    OBVIOUS
  <2>1. i \in Nat /\ i + 1 \in DOMAIN chan[p] /\ chan'[p][i] = chan[p][i + 1]
    BY <1>10 DEF Took
  <2>2. i + 1 # 1
    <3>1. chan'[p] \in Seq(Message)
      BY <1>10
    <3>2. i \in Nat \ {0}
      BY <3>1
    <3> QED
      BY <3>2
  <2> QED
    BY <1>4, <2>1, <2>2
<1>16. /\ OneSocket(c)' /\ Asked(c)' /\ Answered(c)'
  <2>1. \A r \in Peer : \A i \in DOMAIN chan'[r] : ~Of(r, i, c, "CREATE")' /\ ~Of(r, i, c, "CREATED")'
    <3>1. \A i \in DOMAIN chan'[p] : ~Of(p, i, c, "CREATE")' /\ ~Of(p, i, c, "CREATED")'
      BY <1>15 DEF Of
    <3>2. \A i \in DOMAIN chan'[q] : ~Of(q, i, c, "CREATE")' /\ ~Of(q, i, c, "CREATED")'
      BY <1>4, <1>10 DEF Of, Silent
    <3> QED
      BY <1>0, <3>1, <3>2
  <2> QED
    BY <1>4, <1>13, <2>1 DEF OneSocket, Asked, Answered
<1>17. Final(c)'
  <2> SUFFICES ASSUME NEW r \in Peer, NEW i \in DOMAIN chan'[r], Of(r, i, c, "NOT_CREATED")'
               PROVE  /\ \A j \in DOMAIN chan'[r] : chan'[r][j].conn = c => j <= i
                      /\ NoSocket(Other(r), c)'
    BY DEF Final
  <2>1. r = p
    BY <1>0, <1>4, <1>10 DEF Of, Silent
  <2>2. i \in Nat /\ i + 1 \in DOMAIN chan[p] /\ Of(p, i + 1, c, "NOT_CREATED")
    BY <1>15, <2>1 DEF Of
  <2>3. /\ \A j \in DOMAIN chan[p] : chan[p][j].conn = c => j <= i + 1
        /\ NoSocket(q, c)
    BY <1>0, <1>4, <2>2 DEF Final
  <2>4. \A j \in DOMAIN chan'[p] : chan'[p][j].conn = c => j \in Nat /\ j + 1 <= i + 1
    BY <1>15, <2>3
  <2>5. \A j \in DOMAIN chan'[p] : chan'[p][j].conn = c => j <= i
    BY <2>2, <2>4
  <2> QED
    BY <1>0, <1>13, <2>1, <2>3, <2>5 DEF NoSocket
<1>18. Named(c)'
  <2>1. /\ \A i \in DOMAIN chan[p] :
               chan[p][i].conn = c /\ chan[p][i].cmd # "CREATE" => chan[p][i].fd = f
    BY <1>3, <1>4, <1>5 DEF Named
  <2>2. \A i \in DOMAIN chan'[p] :
               chan'[p][i].conn = c /\ chan'[p][i].cmd # "CREATE" => chan'[p][i].fd = f
    BY <1>15, <2>1
  <2>3. \A x \in Fd : Has(q, x, c) =>
            /\ map[q][x] = None \/ map[q][x] = f
            /\ ~socket[q][x].shut
    BY <1>0, <1>3, <1>4, <1>5 DEF Named, NoSocket
  <2> SUFFICES ASSUME NEW r \in Peer, NEW x \in Fd, Has(r, x, c)'
               PROVE  /\ \A i \in DOMAIN chan'[r] :
                             chan'[r][i].conn = c /\ chan'[r][i].cmd # "CREATE" => chan'[r][i].fd = x
                      /\ \A y \in Fd : Has(Other(r), y, c)' =>
                             /\ socket'[r][x].watched \/ socket'[Other(r)][y].watched
                             /\ map'[r][x] = None \/ map'[r][x] = y
                      /\ c \in refused' => ~socket'[r][x].watched
                      /\ socket'[r][x].shut => NoSocket(Other(r), c)'
    BY DEF Named
  <2>4. CASE r = p
    <3>1. x = f
      BY <1>13, <1>14, <2>4
    <3>2. \A y \in Fd : Has(q, y, c)' => y = b
      BY <1>0, <1>4, <1>13
    <3>3. \A i \in DOMAIN chan'[r] :
              chan'[r][i].conn = c /\ chan'[r][i].cmd # "CREATE" => chan'[r][i].fd = x
      BY <2>2, <2>4, <3>1
    <3>4. Other(r) = q /\ socket'[r][x] = t /\ map'[r][x] = b
      BY <1>0, <1>14, <2>4, <3>1
    <3>5. /\ \A y \in Fd : Has(Other(r), y, c)' =>
                 /\ socket'[r][x].watched
                 /\ map'[r][x] = y
          /\ c \in refused' => ~socket'[r][x].watched
          /\ ~socket'[r][x].shut
      BY <1>1, <1>4, <1>7, <3>2, <3>4
    <3> QED
      BY <3>3, <3>5
  <2>5. CASE r = q
    <3>1. Has(q, x, c) /\ socket'[q][x] = socket[q][x] /\ map'[q][x] = map[q][x]
      BY <1>0, <1>13, <1>14, <2>5
    <3>2. \A y \in Fd : Has(p, y, c)' => y = f
      BY <1>13, <1>14
    <3>3. \A i \in DOMAIN chan'[q] : chan'[q][i].conn # c
      BY <1>4, <1>10 DEF Silent
    <3>4. Other(r) = p /\ socket'[p][f] = t /\ map'[r][x] = map[q][x] /\ socket'[r][x] = socket[q][x]
      BY <1>0, <1>14, <2>5, <3>1
    <3>5. /\ \A i \in DOMAIN chan'[r] : chan'[r][i].conn # c
          /\ \A y \in Fd : Has(Other(r), y, c)' => y = f
      BY <2>5, <3>2, <3>3, <3>4
    <3>6. t.watched /\ c \notin refused' /\ (map[q][x] = None \/ map[q][x] = f) /\ ~socket[q][x].shut
      BY <1>1, <1>4, <1>7, <2>3, <3>1
    <3> QED
      BY <3>4, <3>5, <3>6
  <2> QED
    BY <1>0, <2>4, <2>5
<1>19. InOrder(c)'
  <2>1. InOrderAt(p, c) /\ InOrderAt(q, c)
    BY <1>0, <1>4 DEF InOrder
  <2>2. \A r \in Peer : /\ wrote[r][c] \in Nat /\ wrote'[r][c] \in Nat /\ wrote[r][c] <= wrote'[r][c]
                        /\ got'[r][c] = got[r][c] /\ got[r][c] \in Seq(1..MaxWrite)
    BY <1>1, <1>2, <1>3, HistoryIs
  <2>3. InOrderAt(p, c)'
    BY <1>0, <1>10, <2>1, <2>2, InOrderTaken
  <2>4. InOrderAt(q, c)'
    BY <1>0, <1>8, <1>10, <2>1, <2>2, InOrderSent
  <2> QED
    BY <1>0, <2>3, <2>4 DEF InOrder
<1>20. UnreadInOrder(c)' /\ NoGap(c)' /\ (Quiet' => Complete(c)')
  <2>1. \A r \in Peer : \A x : Coming(r, c, x)' <=> Coming(r, c, x)
    <3>1. \A i \in DOMAIN chan[p] : i <= 1 => ~Of(p, i, c, "DATA")
      BY <1>3 DEF Of
    <3> QED
      BY <1>0, <1>8, <1>10, <3>1, ComingStays
  <2>2. \A r \in Peer : \A x : Unread(r, c, x)' <=> Unread(r, c, x)
    <3>1. Has(p, f, c) /\ t # None /\ t.conn = c /\ t.unread = socket[p][f].unread
      BY <1>5, <1>6, <1>7
    <3> QED
      BY <1>3, <1>9, <3>1, UnreadStays
  <2>3. \A r \in Peer, x \in Fd : Has(r, x, c)' =>
              /\ Has(r, x, c)
              /\ socket'[r][x].unread = socket[r][x].unread
              /\ socket[r][x].watched => socket'[r][x].watched
              /\ socket[r][x].closed => socket'[r][x].closed
              /\ socket'[r][x].shut => socket[r][x].shut
    <3>1. \A x \in Fd : Has(p, x, c)' => x = f /\ Has(p, x, c)
      BY <1>13, <1>14
    <3> QED
      BY <1>0, <1>7, <1>13, <1>14, <3>1
  <2> QED
    BY <1>1, <1>2, <1>3, <2>1, <2>2, <2>3, ArrivedIs, ChunksStay
<1>21. ASSUME Quiet' PROVE Noticed(c)'
  <2>1. Paired(c)'
    <3> SUFFICES ASSUME NEW r \in Peer, NEW x \in Fd, Has(r, x, c)', socket'[r][x].watched,
                        NEW y, y = map'[r][x]
                 PROVE  \/ socket'[r][x].shut \/ InFlight(r, c, {"NOT_CREATED"})'
                        \/ /\ Has(Other(r), y, c)'
                           /\ map'[Other(r)][y] = x \/ InFlight(Other(r), c, {"CREATED"})'
      BY DEF Paired
    <3>1. CASE r = p
      <4>1. x = f /\ y = b
        BY <1>13, <1>14, <3>1
      <4>2. Has(q, b, c) \/ InFlight(p, c, {"NOT_CREATED"})
        BY <1>0, <1>3, <1>4, <1>21 DEF Noticed, Answers
      <4>3. CASE InFlight(p, c, {"NOT_CREATED"})
        <5>1. PICK i \in DOMAIN chan[p] : Of(p, i, c, "NOT_CREATED")
          BY <4>3 DEF InFlight, Of
        <5>2. i # 1 /\ ~(i <= 1)
          BY <1>3, <5>1 DEF Of
        <5>3. i - 1 \in DOMAIN chan'[p] /\ chan'[p][i - 1] = chan[p][i]
          BY <1>10, <5>2 DEF Took
        <5> QED
          BY <3>1, <5>1, <5>3 DEF InFlight, Of
      <4>4. CASE Has(q, b, c)
        <5>1. socket[q][b].watched
          BY <1>0, <1>3, <1>4, <1>5, <4>4 DEF Named
        <5>2. map[q][b] # None
          BY <1>0, <1>2, <1>3, <5>1, <4>4 DEF MapWatched, Has
        <5>3. map[q][b] = f
          BY <1>0, <1>3, <1>4, <1>5, <4>4, <5>2 DEF Named
        <5> QED
          BY <1>0, <1>3, <1>13, <1>14, <3>1, <4>1, <4>4, <5>3
      <4> QED
        BY <4>2, <4>3, <4>4
    <3>2. CASE r = q
      <4>1. Has(q, x, c) /\ x = b /\ socket'[q][x] = socket[q][x] /\ y = map[q][x]
        BY <1>4, <1>13, <1>14, <3>2
      <4>2. \/ socket[q][x].shut \/ InFlight(q, c, {"NOT_CREATED"}) \/ Has(p, y, c)
        BY <1>0, <1>4, <1>21, <3>2, <4>1 DEF Noticed, Paired
      <4>3. ~InFlight(q, c, {"NOT_CREATED"})
        BY <1>4 DEF InFlight, Silent
      <4>4. Has(p, y, c) => y = f
        BY <1>14 DEF Has
      <4> QED
        BY <1>0, <1>13, <1>14, <3>2, <4>1, <4>2, <4>3, <4>4
    <3> QED
      BY <1>0, <3>1, <3>2
  <2>2. Waits(c)'
    <3> SUFFICES ASSUME NEW r \in Peer, NEW x \in Fd, Has(r, x, c)', ~socket'[r][x].watched
                 PROVE  FALSE
      BY DEF Waits
    <3>1. r = q /\ Has(q, x, c) /\ ~socket[q][x].watched
      BY <1>0, <1>7, <1>13, <1>14
    <3>2. \/ InFlight(p, c, {"CREATE"})
          \/ InFlight(q, c, {"CREATED", "NOT_CREATED"})
      BY <1>0, <1>4, <1>21, <3>1 DEF Noticed, Waits
    <3>3. ~InFlight(q, c, {"CREATED", "NOT_CREATED"})
      BY <1>4 DEF InFlight, Silent
    <3>4. ~InFlight(p, c, {"CREATE"})
      BY <1>3, <1>4 DEF InFlight, Of
    <3> QED
      BY <3>2, <3>3, <3>4
  <2>3. Answers(c)'
    <3>1. \A i \in DOMAIN chan'[q] : chan'[q][i].conn # c
      BY <1>4, <1>10 DEF Silent
    <3>2. \A i \in DOMAIN chan'[p] : ~Of(p, i, c, "CREATED")'
      BY <1>15 DEF Of
    <3>3. \A x \in Fd : Has(p, x, c)' => socket'[p][x].watched
      BY <1>7, <1>13, <1>14
    <3> QED
      BY <1>0, <3>1, <3>2, <3>3 DEF Answers, Of
  <2> QED
    BY <2>1, <2>2, <2>3 DEF Noticed
<1>22. ConnOK(c)'
  BY <1>16, <1>17, <1>18, <1>19, <1>20, <1>21 DEF ConnOK
<1> QED
  BY <1>3, <1>11, <1>12, <1>22, StepKeeps

\* CMD_TUN to a server that does not answer.
LEMMA CreateFailsKeeps ==
    ASSUME IInv, ~mixed, NEW p \in Peer, CreateFails(p),
           NEW h, h = Head(chan[p]), NEW c, c = h.conn, NEW w, w = h.from
    PROVE  IInv'
<1> DEFINE q == Other(p)
           m == Msg("NOT_CREATED", w, None, c, 0)
<1>0. /\ q \in Peer /\ q # p /\ Other(p) = q /\ Other(q) = p
      /\ \A r \in Peer : (r = p \/ r = q) /\ Other(r) \in Peer
  BY OtherIs
<1>1. /\ Got(p, "CREATE") /\ UNCHANGED <<up, linked, socket, map, accepted, wrote, got, cut, losses, mixed>>
      /\ refused' = refused \cup {c}
      /\ chan' = Send(q, m, Received(p))
  BY DEF CreateFails
<1>2. Base /\ TypeOK /\ Peers /\ MapWatched /\ \A d \in Conn : ConnOK(d)
  BY DEF IInv, Base
<1>3. /\ p \in up /\ chan[p] \in Seq(Message) /\ chan[p] # <<>>
      /\ 1 \in DOMAIN chan[p] /\ h = chan[p][1]
      /\ c \in Conn /\ ~(accepted < c) /\ Of(p, 1, c, "CREATE") /\ w \in Fd
      /\ \A i \in DOMAIN chan[p] : i = 1 => chan[p][i].conn = c
      /\ \A i \in DOMAIN chan[p] : i <= 1 => i = 1
  <2>1. Base /\ Got(p, "CREATE") /\ "CREATE" \in {"CREATE", "CREATED"}
    BY <1>1, <1>2
  <2> HIDE DEF q, m
  <2> QED
    BY <2>1, HeadIs
<1>4. /\ OneSocket(c) /\ InOrder(c)
      /\ Silent(q, c) /\ NoSocket(p, c)
      /\ \A j \in DOMAIN chan[p] : chan[p][j].conn = c => j = 1
      /\ \A x \in Fd : Has(q, x, c) => x = w /\ ~socket[q][x].watched
      /\ Quiet' => Quiet /\ Delivered(q)
  <2>1. Asked(c) /\ OneSocket(c) /\ InOrder(c)
    BY <1>2, <1>3 DEF ConnOK
  <2>2. /\ Silent(q, c) /\ NoSocket(p, c)
        /\ \A j \in DOMAIN chan[p] : chan[p][j].conn = c => j = 1
        /\ q \in up => Waiting(q, w, c)
    BY <1>0, <1>3, <2>1 DEF Asked
  <2>3. ASSUME NEW x \in Fd, Has(q, x, c) PROVE x = w /\ ~socket[q][x].watched
    <3>1. q \in up
      BY <1>0, <1>2, <2>3 DEF Peers, Has
    <3>2. Has(q, w, c) /\ ~socket[q][w].watched
      BY <2>2, <3>1 DEF Waiting
    <3>3. x = w
      BY <1>0, <1>3, <2>1, <2>3, <3>2 DEF OneSocket
    <3> QED
      BY <3>2, <3>3
  <2>4. Quiet' => Quiet /\ Delivered(q)
    BY <1>0, <1>1, <1>2 DEF Quiet, Peers, Delivered
  <2> QED
    BY <2>1, <2>2, <2>3, <2>4
<1>5. m \in Message /\ m.conn = c /\ m.cmd = "NOT_CREATED" /\ m.fd = w
  <2>1. 0 \in 0..MaxWrite
    BY TunnelAssumption
  <2>2. m \in Message
    BY <1>3, <2>1, MsgIs
  <2> QED
    BY <2>2 DEF Msg
<1> HIDE DEF q, m
<1>6. /\ chan' \in [Peer -> Seq(Message)] /\ Took(p, 1)
      /\ Put(q, m) /\ (Delivered(q) => \E i \in DOMAIN chan'[q] : chan'[q][i] = m)
  BY <1>0, <1>1, <1>2, <1>3, <1>5, TakesSends
<1>7. TypeOK'
  BY <1>1, <1>2, <1>3, <1>6 DEF TypeOK
<1>8. StepOf(c, p, None, None, None, 1, m)
  <2>1. accepted <= accepted' /\ None \notin Fd
    BY <1>1, <1>2, AcceptedIs, TunnelAssumption
  <2>2. OneStep(p, None, None, None, 1, m)
    BY <1>0, <1>1, <1>6, <2>1 DEF OneStep, Becomes
  <2>3. OnlyOf(c)
    BY <1>1, ArrivedIs DEF OnlyOf
  <2> QED
    BY <1>1, <1>3, <1>5, <2>1, <2>2, <2>3 DEF StepOf
<1>9. \A r \in Peer : \A x, d : Has(r, x, d)' <=> Has(r, x, d)
  BY <1>1 DEF Has
\* All that is left of c is what q is told.
<1>10. /\ \A i \in DOMAIN chan'[p] : chan'[p][i].conn # c
       /\ \A i \in DOMAIN chan'[q] : chan'[q][i].conn = c =>
              chan'[q][i] = m /\ \A j \in DOMAIN chan'[q] : j <= i
  <2>1. ASSUME NEW i \in DOMAIN chan'[p] PROVE chan'[p][i].conn # c
    <3>1. i \in Nat /\ i + 1 \in DOMAIN chan[p] /\ chan'[p][i] = chan[p][i + 1]
      BY <1>6 DEF Took
    <3>2. i + 1 # 1
      <4>1. chan'[p] \in Seq(Message)
        BY <1>6
      <4>2. i \in Nat \ {0}
        BY <4>1
      <4> QED
        BY <4>2
    <3> QED
      BY <1>4, <3>1, <3>2
  <2>2. \A i \in DOMAIN chan'[q] : chan'[q][i].conn = c =>
              chan'[q][i] = m /\ \A j \in DOMAIN chan'[q] : j <= i
    BY <1>4, <1>6 DEF Silent, Put
  <2> QED
    BY <2>1, <2>2
<1>11. OneSocket(c)' /\ Asked(c)' /\ Answered(c)'
  <2>1. \A r \in Peer : \A i \in DOMAIN chan'[r] : ~Of(r, i, c, "CREATE")' /\ ~Of(r, i, c, "CREATED")'
    <3>1. \A i \in DOMAIN chan'[p] : ~Of(p, i, c, "CREATE")' /\ ~Of(p, i, c, "CREATED")'
      BY <1>10 DEF Of
    <3>2. \A i \in DOMAIN chan'[q] : ~Of(q, i, c, "CREATE")' /\ ~Of(q, i, c, "CREATED")'
      BY <1>5, <1>10 DEF Of
    <3> QED
      BY <1>0, <3>1, <3>2
  <2> QED
    BY <1>4, <1>9, <2>1 DEF OneSocket, Asked, Answered
<1>12. Final(c)'
  <2>1. NoSocket(p, c)'
    BY <1>4, <1>9 DEF NoSocket
  <2> QED
    BY <1>0, <1>10, <2>1 DEF Final, Of
<1>13. Named(c)'
  <2>1. \A x \in Fd : ~Has(p, x, c)'
    BY <1>4, <1>9 DEF NoSocket
  <2>2. ASSUME NEW x \in Fd, Has(q, x, c)'
        PROVE  /\ ~socket'[q][x].watched
               /\ \A i \in DOMAIN chan'[q] : chan'[q][i].conn = c => chan'[q][i].fd = x
    BY <1>0, <1>1, <1>4, <1>5, <1>9, <1>10, <2>2
  <2> QED
    BY <1>0, <2>1, <2>2 DEF Named, NoSocket
<1>14. InOrder(c)'
  <2>1. InOrderAt(p, c) /\ InOrderAt(q, c)
    BY <1>0, <1>4 DEF InOrder
  <2>2. \A r \in Peer : /\ wrote[r][c] \in Nat /\ wrote'[r][c] \in Nat /\ wrote[r][c] <= wrote'[r][c]
                        /\ got'[r][c] = got[r][c] /\ got[r][c] \in Seq(1..MaxWrite)
    BY <1>1, <1>2, <1>3, HistoryIs
  <2>3. InOrderAt(p, c)'
    BY <1>0, <1>6, <2>1, <2>2, InOrderTaken
  <2>4. InOrderAt(q, c)'
    BY <1>0, <1>5, <1>6, <2>1, <2>2, InOrderSent
  <2> QED
    BY <1>0, <2>3, <2>4 DEF InOrder
<1>15. UnreadInOrder(c)' /\ NoGap(c)' /\ (Quiet' => Complete(c)')
  <2>1. \A r \in Peer : \A x : Coming(r, c, x)' <=> Coming(r, c, x)
    <3>1. \A i \in DOMAIN chan[p] : i <= 1 => ~Of(p, i, c, "DATA")
      BY <1>3 DEF Of
    <3> QED
      BY <1>0, <1>5, <1>6, <3>1, ComingStays
  <2>2. \A r \in Peer : \A x : Unread(r, c, x)' <=> Unread(r, c, x)
    BY <1>1 DEF Unread, Has
  <2>3. \A r \in Peer, x \in Fd : Has(r, x, c)' => Has(r, x, c) /\ socket'[r][x] = socket[r][x]
    BY <1>1, <1>9
  <2> QED
    BY <1>1, <1>2, <1>3, <2>1, <2>2, <2>3, ArrivedIs, ChunksStay
<1>16. ASSUME Quiet' PROVE Noticed(c)'
  <2>1. \A x \in Fd : ~Has(p, x, c)'
    BY <1>4, <1>9 DEF NoSocket
  <2>2. \A x \in Fd : Has(q, x, c)' => ~socket'[q][x].watched
    <3>1. socket' = socket /\ \A x \in Fd : Has(q, x, c)' => Has(q, x, c)
      BY <1>0, <1>1, <1>9
    <3> QED
      BY <1>4, <3>1
  <2>3. InFlight(q, c, {"CREATED", "NOT_CREATED"})'
    BY <1>4, <1>5, <1>6, <1>16 DEF InFlight
  <2>4. c \in refused'
    BY <1>1
  <2>5. Paired(c)'
    BY <1>0, <2>1, <2>2 DEF Paired
  <2>6. Waits(c)'
    BY <1>0, <2>1, <2>3 DEF Waits
  <2>7. Answers(c)'
    <3>1. \A i \in DOMAIN chan'[p] : ~Of(p, i, c, "CREATED")' /\ ~Of(p, i, c, "NOT_CREATED")'
      BY <1>10 DEF Of
    <3>2. \A i \in DOMAIN chan'[q] : ~Of(q, i, c, "CREATED")'
      BY <1>5, <1>10 DEF Of
    <3> QED
      BY <1>0, <2>4, <3>1, <3>2 DEF Answers
  <2> QED
    BY <2>5, <2>6, <2>7 DEF Noticed
<1>17. ConnOK(c)'
  BY <1>11, <1>12, <1>13, <1>14, <1>15, <1>16 DEF ConnOK
<1> QED
  BY <1>3, <1>7, <1>8, <1>17, StepKeeps

\* CMD_TUN to a server that accepts: a new socket for a connection that has none here.
LEMMA CreateKeeps ==
    ASSUME IInv, ~mixed, NEW p \in Peer, Create(p),
           NEW h, h = Head(chan[p]), NEW c, c = h.conn, NEW w, w = h.from,
           NEW f, f = LowestFree(p)
    PROVE  IInv'
<1> DEFINE q == Other(p)
           t == [NewSocket(c) EXCEPT !.watched = TRUE]
           m == Msg("CREATED", w, f, c, 0)
<1>0. /\ q \in Peer /\ q # p /\ Other(p) = q /\ Other(q) = p
      /\ \A r \in Peer : (r = p \/ r = q) /\ Other(r) \in Peer
  BY OtherIs
<1>1. /\ Got(p, "CREATE") /\ UNCHANGED <<up, linked, accepted, wrote, got, cut, refused, losses, mixed>>
      /\ Free(p) # {}
      /\ socket' = [socket EXCEPT ![p][f] = t]
      /\ map' = [map EXCEPT ![p][f] = w]
      /\ chan' = Send(q, m, Received(p))
  BY DEF Create, Connected
<1>2. Base /\ TypeOK /\ Peers /\ MapWatched /\ \A d \in Conn : ConnOK(d)
  BY DEF IInv, Base
<1>3. /\ p \in up /\ chan[p] \in Seq(Message) /\ chan[p] # <<>>
      /\ 1 \in DOMAIN chan[p] /\ h = chan[p][1]
      /\ c \in Conn /\ ~(accepted < c) /\ Of(p, 1, c, "CREATE") /\ w \in Fd
      /\ \A i \in DOMAIN chan[p] : i = 1 => chan[p][i].conn = c
      /\ \A i \in DOMAIN chan[p] : i <= 1 => i = 1
  <2>1. Base /\ Got(p, "CREATE") /\ "CREATE" \in {"CREATE", "CREATED"}
    BY <1>1, <1>2
  <2> HIDE DEF q, t, m
  <2> QED
    BY <2>1, HeadIs
<1>4. f \in Fd /\ socket[p][f] = None
  BY <1>1, LowestIsFree
<1>5. /\ OneSocket(c) /\ InOrder(c) /\ UnreadInOrder(c)
      /\ Silent(q, c) /\ NoSocket(p, c) /\ c \notin refused /\ wrote[p][c] = 0
      /\ \A j \in DOMAIN chan[p] : chan[p][j].conn = c => j = 1
      /\ \A x \in Fd : Has(q, x, c) => x = w /\ ~socket[q][x].watched /\ ~socket[q][x].shut
      /\ q \in up => Waiting(q, w, c)
      /\ Quiet' => Quiet /\ Delivered(q)
  <2>1. Asked(c) /\ OneSocket(c) /\ InOrder(c) /\ UnreadInOrder(c)
    BY <1>2, <1>3 DEF ConnOK
  <2>2. /\ Silent(q, c) /\ NoSocket(p, c) /\ c \notin refused /\ wrote[p][c] = 0
        /\ \A j \in DOMAIN chan[p] : chan[p][j].conn = c => j = 1
        /\ q \in up => Waiting(q, w, c)
    BY <1>0, <1>3, <2>1 DEF Asked
  <2>3. ASSUME NEW x \in Fd, Has(q, x, c) PROVE x = w /\ ~socket[q][x].watched /\ ~socket[q][x].shut
    <3>1. q \in up
      BY <1>0, <1>2, <2>3 DEF Peers, Has
    <3>2. Has(q, w, c) /\ ~socket[q][w].watched /\ ~socket[q][w].shut
      BY <2>2, <3>1 DEF Waiting
    <3>3. x = w
      BY <1>0, <1>3, <2>1, <2>3, <3>2 DEF OneSocket
    <3> QED
      BY <3>2, <3>3
  <2>4. Quiet' => Quiet /\ Delivered(q)
    BY <1>0, <1>1, <1>2 DEF Quiet, Peers, Delivered
  <2> QED
    BY <2>1, <2>2, <2>3, <2>4
<1>6. /\ m \in Message /\ m.conn = c /\ m.cmd = "CREATED" /\ m.fd = w /\ m.from = f
  <2>1. 0 \in 0..MaxWrite
    BY TunnelAssumption
  <2>2. m \in Message
    BY <1>3, <1>4, <2>1, MsgIs
  <2> QED
    BY <2>2 DEF Msg
<1>7. /\ t \in Socket /\ t # None /\ t.conn = c /\ t.watched /\ ~t.shut /\ ~t.closed
      /\ t.unread = <<>>
  BY <1>3, NewSocketIs
<1> HIDE DEF q, t, m
<1>8. /\ socket' \in [Peer -> [Fd -> Socket \cup {None}]]
      /\ map' \in [Peer -> [Fd -> Fd \cup {None}]] /\ Becomes(p, f, t, w)
  BY <1>1, <1>2, <1>3, <1>4, <1>7, SocketBecomes
<1>9. /\ chan' \in [Peer -> Seq(Message)] /\ Took(p, 1)
      /\ Put(q, m) /\ (Delivered(q) => \E i \in DOMAIN chan'[q] : chan'[q][i] = m)
  BY <1>0, <1>1, <1>2, <1>3, <1>6, TakesSends
<1>10. TypeOK'
  BY <1>1, <1>2, <1>8, <1>9 DEF TypeOK
<1>11. StepOf(c, p, f, t, w, 1, m)
  <2>1. accepted <= accepted' /\ w # None
    BY <1>1, <1>2, <1>3, AcceptedIs, TunnelAssumption
  <2>2. OneStep(p, f, t, w, 1, m)
    BY <1>0, <1>1, <1>8, <1>9 DEF OneStep
  <2> QED
    BY <1>1, <1>3, <1>4, <1>6, <1>7, <2>1, <2>2, OnlyNone DEF StepOf
\* p's only socket of c is the new one, and q's is the one that waits.
<1>12. /\ \A x \in Fd : Has(p, x, c)' <=> x = f
       /\ \A x : Has(q, x, c)' <=> Has(q, x, c)
       /\ socket'[p][f] = t /\ map'[p][f] = w
       /\ \A x \in Fd : socket'[q][x] = socket[q][x] /\ map'[q][x] = map[q][x]
  <2>1. /\ \A x \in Fd : socket'[p][x] = IF x = f THEN t ELSE socket[p][x]
        /\ map'[p][f] = w
        /\ \A x \in Fd : socket'[q][x] = socket[q][x] /\ map'[q][x] = map[q][x]
    BY <1>0, <1>4, <1>8 DEF Becomes
  <2>2. \A x : Has(q, x, c)' <=> Has(q, x, c)
    BY <2>1 DEF Has
  <2>3. \A x \in Fd : Has(p, x, c)' <=> x = f
    BY <1>4, <1>5, <1>7, <2>1 DEF Has, NoSocket
  <2> QED
    BY <1>4, <2>1, <2>2, <2>3
\* All that is left of c is what q is told.
<1>13. /\ \A i \in DOMAIN chan'[p] : chan'[p][i].conn # c
       /\ \A i \in DOMAIN chan'[q] : chan'[q][i].conn = c =>
              /\ chan'[q][i] = m /\ Delivered(q)
              /\ \A j \in DOMAIN chan'[q] : chan'[q][j].conn = c => j = i
  <2>1. ASSUME NEW i \in DOMAIN chan'[p] PROVE chan'[p][i].conn # c
    <3>1. i \in Nat /\ i + 1 \in DOMAIN chan[p] /\ chan'[p][i] = chan[p][i + 1]
      BY <1>9 DEF Took
    <3>2. i + 1 # 1
      <4>1. chan'[p] \in Seq(Message)
        BY <1>9
      <4>2. i \in Nat \ {0}
        BY <4>1
      <4> QED
        BY <4>2
    <3> QED
      BY <1>5, <3>1, <3>2
  <2>2. ASSUME NEW i \in DOMAIN chan'[q], chan'[q][i].conn = c
        PROVE  chan'[q][i] = m /\ i \in Nat /\ Delivered(q) /\ \A j \in DOMAIN chan'[q] : j <= i
    BY <1>5, <1>9, <2>2 DEF Silent, Put
  <2>3. \A i, j \in DOMAIN chan'[q] : chan'[q][i].conn = c /\ chan'[q][j].conn = c => i = j
    <3>1. \A i, j \in DOMAIN chan'[q] : chan'[q][i].conn = c /\ chan'[q][j].conn = c =>
              i \in Nat /\ j \in Nat /\ i <= j /\ j <= i
      BY <2>2
    <3> QED
      BY <3>1
  <2> QED
    BY <2>1, <2>2, <2>3
<1>14. OneSocket(c)' /\ Asked(c)' /\ Final(c)'
  <2>1. \A r \in Peer : \A i \in DOMAIN chan'[r] : ~Of(r, i, c, "CREATE")' /\ ~Of(r, i, c, "NOT_CREATED")'
    <3>1. \A i \in DOMAIN chan'[p] : ~Of(p, i, c, "CREATE")' /\ ~Of(p, i, c, "NOT_CREATED")'
      BY <1>13 DEF Of
    <3>2. \A i \in DOMAIN chan'[q] : ~Of(q, i, c, "CREATE")' /\ ~Of(q, i, c, "NOT_CREATED")'
      BY <1>6, <1>13 DEF Of
    <3> QED
      BY <1>0, <3>1, <3>2
  <2>2. \A x, y : Has(p, x, c)' /\ Has(p, y, c)' => x = y
    BY <1>12 DEF Has
  <2>3. \A x, y : Has(q, x, c)' /\ Has(q, y, c)' => x = y
    BY <1>5, <1>12 DEF Has
  <2>4. OneSocket(c)'
    BY <1>0, <2>2, <2>3 DEF OneSocket
  <2> QED
    BY <2>1, <2>4 DEF Asked, Final
<1>15. Answered(c)'
  <2> SUFFICES ASSUME NEW r \in Peer, NEW i \in DOMAIN chan'[r], Of(r, i, c, "CREATED")',
                      NEW e, e = chan'[r][i]
               PROVE  /\ Waiting(r, e.fd, c)'
                      /\ \A j \in DOMAIN chan'[r] : chan'[r][j].conn = c =>
                             j = i \/ (i < j /\ chan'[r][j].cmd \in {"DATA", "NOT_CREATED"})
                      /\ Silent(Other(r), c)' /\ c \notin refused'
                      /\ \A x \in Fd : Has(Other(r), x, c)' => x = e.from
    BY DEF Answered
  <2>1. r = q
    BY <1>0, <1>13 DEF Of
  <2>2. e = m /\ q \in up
    BY <1>13, <2>1 DEF Of, Delivered
  <2>3. Waiting(q, w, c)'
    BY <1>3, <1>5, <1>12, <2>2 DEF Waiting
  <2>4. Silent(p, c)'
    BY <1>13 DEF Silent
  <2> QED
    BY <1>0, <1>1, <1>5, <1>6, <1>12, <1>13, <2>1, <2>2, <2>3, <2>4 DEF Of
<1>16. Named(c)'
  <2> SUFFICES ASSUME NEW r \in Peer, NEW x \in Fd, Has(r, x, c)'
               PROVE  /\ \A i \in DOMAIN chan'[r] :
                             chan'[r][i].conn = c /\ chan'[r][i].cmd # "CREATE" => chan'[r][i].fd = x
                      /\ \A y \in Fd : Has(Other(r), y, c)' =>
                             /\ socket'[r][x].watched \/ socket'[Other(r)][y].watched
                             /\ map'[r][x] = None \/ map'[r][x] = y
                      /\ c \in refused' => ~socket'[r][x].watched
                      /\ socket'[r][x].shut => NoSocket(Other(r), c)'
    BY DEF Named
  <2>1. CASE r = p
    <3>1. x = f /\ \A y \in Fd : Has(q, y, c)' => y = w
      BY <1>5, <1>12, <2>1
    <3> QED
      BY <1>0, <1>1, <1>5, <1>7, <1>12, <1>13, <2>1, <3>1
  <2>2. CASE r = q
    <3>1. /\ Has(q, x, c) /\ x = w /\ ~socket'[q][x].watched /\ ~socket'[q][x].shut
          /\ map'[q][x] = map[q][x]
      BY <1>5, <1>12, <2>2
    <3>2. map[q][x] = None
      BY <1>0, <1>2, <1>5, <3>1 DEF MapWatched
    <3>3. Other(r) = p /\ socket'[p][f] = t /\ \A y \in Fd : Has(Other(r), y, c)' => y = f
      BY <1>0, <1>12, <2>2
    <3>4. /\ ~socket'[r][x].watched /\ ~socket'[r][x].shut /\ map'[r][x] = None
      BY <2>2, <3>1, <3>2
    <3>5. t.watched
      BY <1>5, <1>6, <1>7
    <3>6. \A i \in DOMAIN chan'[r] : chan'[r][i].conn = c => chan'[r][i] = m
      BY <1>13, <2>2
    <3> QED
      BY <1>6, <2>2, <3>1, <3>3, <3>4, <3>5, <3>6
  <2> QED
    BY <1>0, <2>1, <2>2
<1>17. InOrder(c)'
  <2>1. InOrderAt(p, c) /\ InOrderAt(q, c)
    BY <1>0, <1>5 DEF InOrder
  <2>2. \A r \in Peer : /\ wrote[r][c] \in Nat /\ wrote'[r][c] \in Nat /\ wrote[r][c] <= wrote'[r][c]
                        /\ got'[r][c] = got[r][c] /\ got[r][c] \in Seq(1..MaxWrite)
    BY <1>1, <1>2, <1>3, HistoryIs
  <2>3. InOrderAt(p, c)'
    BY <1>0, <1>9, <2>1, <2>2, InOrderTaken
  <2>4. InOrderAt(q, c)'
    BY <1>0, <1>6, <1>9, <2>1, <2>2, InOrderSent
  <2> QED
    BY <1>0, <2>3, <2>4 DEF InOrder
<1>18. UnreadInOrder(c)' /\ NoGap(c)' /\ (Quiet' => Complete(c)')
  <2>1. \A r \in Peer : \A x : Coming(r, c, x)' <=> Coming(r, c, x)
    <3>1. \A i \in DOMAIN chan[p] : i <= 1 => ~Of(p, i, c, "DATA")
      BY <1>3 DEF Of
    <3> QED
      BY <1>0, <1>6, <1>9, <3>1, ComingStays
  <2>2. \A r \in Peer : \A x : Unread(r, c, x)' <=> Unread(r, c, x)
    <3>1. /\ Has(p, f, c) => socket[p][f].unread = <<>>
          /\ t # None /\ t.conn = c => t.unread = <<>>
      BY <1>4, <1>7 DEF Has
    <3> QED
      BY <1>4, <1>8, <3>1, UnreadStays
  <2>3. ASSUME NEW x \in Fd, Has(p, x, c)'
        PROVE  /\ socket'[p][x].unread = <<>> /\ wrote[p][c] = 0 /\ ~socket'[p][x].shut
               /\ \A y : ~Coming(p, c, y)
               /\ Quiet => \A y \in 1..wrote[q][c] : Unread(q, c, y)
    <3>1. \A y : ~Coming(p, c, y)
      BY <1>3, <1>5 DEF Coming, Of
    <3>2. Quiet => \A y \in 1..wrote[q][c] : Unread(q, c, y)
      <4>1. Quiet => Has(q, w, c) /\ ~socket[q][w].watched
        BY <1>0, <1>5 DEF Quiet, Waiting
      <4> QED
        BY <1>0, <1>3, <1>5, <4>1 DEF UnreadInOrder
    <3> QED
      BY <1>5, <1>7, <1>12, <2>3, <3>1, <3>2
  <2>4. \A x \in Fd : Has(q, x, c)' => Has(q, x, c) /\ socket'[q][x] = socket[q][x]
    BY <1>12
  <2>5. \A r \in Peer, g \in Fd : Has(r, g, c)' =>
               \/ /\ Has(r, g, c)
                  /\ socket'[r][g].unread = socket[r][g].unread
                  /\ socket[r][g].watched => socket'[r][g].watched
                  /\ socket[r][g].closed => socket'[r][g].closed
                  /\ Quiet /\ socket'[r][g].shut /\ ~socket[r][g].closed =>
                         socket[r][g].shut \/ \A n \in 1..wrote[Other(r)][c] : Arrived(r, c, n)
               \/ /\ socket'[r][g].unread = <<>> /\ wrote[r][c] = 0 /\ ~socket'[r][g].shut
                  /\ \A x : ~Coming(r, c, x)
                  /\ Quiet => \A x \in 1..wrote[Other(r)][c] : Unread(Other(r), c, x)
    BY <1>0, <2>3, <2>4
  <2> QED
    BY <1>1, <1>2, <1>3, <2>1, <2>2, <2>5, ArrivedIs, ChunksStay
<1>19. ASSUME Quiet' PROVE Noticed(c)'
  <2>1. InFlight(q, c, {"CREATED"})' /\ InFlight(q, c, {"CREATED", "NOT_CREATED"})'
    BY <1>5, <1>6, <1>9, <1>19 DEF InFlight
  <2>2. /\ Has(q, w, c)' /\ Has(p, f, c)'
        /\ \A x \in Fd : Has(q, x, c)' => x = w /\ ~socket'[q][x].watched
    BY <1>4, <1>5, <1>12, <1>19 DEF Waiting, Delivered
  <2>3. Paired(c)'
    BY <1>0, <1>12, <2>1, <2>2 DEF Paired
  <2>4. Waits(c)'
    BY <1>0, <1>7, <1>12, <2>1 DEF Waits
  <2>5. Answers(c)'
    BY <1>0, <1>6, <1>13, <2>2 DEF Answers, Of
  <2> QED
    BY <2>3, <2>4, <2>5 DEF Noticed
<1>20. ConnOK(c)'
  BY <1>14, <1>15, <1>16, <1>17, <1>18, <1>19 DEF ConnOK
<1> QED
  BY <1>3, <1>10, <1>11, <1>20, StepKeeps

\* p is told that c has ended: its socket, if it has one, is shut down.
TakesEnd(c, p, f, t) ==
    LET s == socket[p][f]
        q == Other(p)
    IN  /\ p \in up /\ Of(p, 1, c, "NOT_CREATED") /\ 1 \in DOMAIN chan[p]
        /\ chan[p][1].fd = f
        /\ chan' \in [Peer -> Seq(Message)] /\ Took(p, 1) /\ chan'[q] = chan[q]
        /\ Becomes(p, f, t, map[p][f])
        /\ s = None => t = None
        /\ s # None => /\ t # None /\ s.conn = c /\ t.conn = c /\ t.shut
                       /\ t.watched = s.watched /\ t.closed = s.closed /\ t.unread = s.unread
        /\ UNCHANGED <<up, wrote, got, cut, refused, losses>>

\* It keeps what holds of the connection: nothing of it comes later.
LEMMA EndOfOne ==
    ASSUME TypeOK, NEW c \in Conn, ConnOK(c), ~mixed, ~mixed',
           NEW p \in Peer, NEW f \in Fd, NEW t, TakesEnd(c, p, f, t),
           NEW q, q = Other(p), NEW s, s = socket[p][f]
    PROVE  ConnOK(c)'
<1>0. /\ q \in Peer /\ q # p /\ Other(p) = q /\ Other(q) = p
      /\ \A r \in Peer : (r = p \/ r = q) /\ Other(r) \in Peer
  BY OtherIs
<1>1. /\ p \in up /\ Of(p, 1, c, "NOT_CREATED") /\ 1 \in DOMAIN chan[p]
      /\ chan[p][1].fd = f /\ Becomes(p, f, t, map[p][f])
      /\ chan' \in [Peer -> Seq(Message)] /\ Took(p, 1) /\ chan'[q] = chan[q]
      /\ UNCHANGED <<up, wrote, got, cut, refused, losses>>
  BY DEF TakesEnd
<1>2. /\ s = None => t = None
      /\ s # None => /\ t # None /\ s.conn = c /\ t.conn = c /\ t.shut
                     /\ t.watched = s.watched /\ t.closed = s.closed /\ t.unread = s.unread
  BY DEF TakesEnd
<1>3. /\ OneSocket(c) /\ Asked(c) /\ Answered(c) /\ Final(c) /\ Named(c) /\ InOrder(c)
      /\ NoGap(c) /\ (Quiet' => Quiet) /\ (Quiet => Noticed(c) /\ Complete(c))
  BY <1>1 DEF ConnOK, Quiet
<1>4. chan[p] \in Seq(Message) /\ chan[q] \in Seq(Message)
  BY <1>0 DEF TypeOK
\* It is the last command of c for p, and q has no socket.
<1>5. /\ \A j \in DOMAIN chan[p] : chan[p][j].conn = c => j = 1
      /\ NoSocket(q, c)
  <2>1. /\ \A j \in DOMAIN chan[p] : chan[p][j].conn = c => j <= 1
        /\ NoSocket(q, c)
    BY <1>0, <1>1, <1>3 DEF Final
  <2>2. \A j \in DOMAIN chan[p] : j <= 1 => j = 1
    BY <1>4
  <2> QED
    BY <2>1, <2>2
<1>6. \A i \in DOMAIN chan'[p] : chan'[p][i].conn # c
  <2> SUFFICES ASSUME NEW i \in DOMAIN chan'[p] PROVE chan'[p][i].conn # c
    OBVIOUS
  <2>1. i \in Nat /\ i + 1 \in DOMAIN chan[p] /\ chan'[p][i] = chan[p][i + 1]
    BY <1>1 DEF Took
  <2>2. i + 1 # 1
    <3>1. chan'[p] \in Seq(Message)
      BY <1>1
    <3>2. i \in Nat \ {0}
      BY <3>1
    <3> QED
      BY <3>2
  <2> QED
    BY <1>5, <2>1, <2>2
<1>7. \A r \in Peer : \A x, d : Has(r, x, d)' <=> Has(r, x, d)
  <2>1. \/ socket[p][f] = None /\ t = None
        \/ socket[p][f] # None /\ t # None /\ t.conn = socket[p][f].conn
    BY <1>2
  <2> QED
    BY <1>1, <2>1, SameHas
<1>8. /\ \A x \in Fd : Has(p, x, c) => x = f /\ s # None
      /\ \A x \in Fd : ~Has(q, x, c)
      /\ socket'[p][f] = t
  <2>1. \A x \in Fd : Has(p, x, c) => x = f
    <3>1. chan[p][1].conn = c /\ chan[p][1].cmd # "CREATE"
      BY <1>1 DEF Of
    <3> QED
      BY <1>1, <1>3, <3>1 DEF Named
  <2>2. Has(p, f, c) => s # None
    BY DEF Has
  <2>3. socket'[p][f] = t
    BY <1>1 DEF Becomes
  <2>4. \A x \in Fd : ~Has(q, x, c)
    BY <1>5 DEF NoSocket
  <2> QED
    BY <2>1, <2>2, <2>3, <2>4
\* Nothing for q is CREATE or CREATED.
<1>9. \A r \in Peer : \A i \in DOMAIN chan'[r] : ~Of(r, i, c, "CREATE")' /\ ~Of(r, i, c, "CREATED")'
  <2>1. ~Silent(p, c)
    BY <1>1 DEF Silent, Of
  <2>2. \A i \in DOMAIN chan[q] : ~Of(q, i, c, "CREATE") /\ ~Of(q, i, c, "CREATED")
    BY <1>0, <1>3, <2>1 DEF Asked, Answered
  <2>3. \A i \in DOMAIN chan'[q] : ~Of(q, i, c, "CREATE")' /\ ~Of(q, i, c, "CREATED")'
    BY <1>1, <2>2 DEF Of
  <2>4. \A i \in DOMAIN chan'[p] : ~Of(p, i, c, "CREATE")' /\ ~Of(p, i, c, "CREATED")'
    BY <1>6 DEF Of
  <2> QED
    BY <1>0, <2>3, <2>4
<1>10. OneSocket(c)' /\ Asked(c)' /\ Answered(c)'
  BY <1>3, <1>7, <1>9 DEF OneSocket, Asked, Answered
<1>11. Final(c)'
  <2> SUFFICES ASSUME NEW i \in DOMAIN chan'[q], Of(q, i, c, "NOT_CREATED")'
               PROVE  /\ \A j \in DOMAIN chan'[q] : chan'[q][j].conn = c => j <= i
                      /\ NoSocket(p, c)'
    <3>1. \A i \in DOMAIN chan'[p] : ~Of(p, i, c, "NOT_CREATED")'
      BY <1>6 DEF Of
    <3> QED
      BY <1>0, <3>1 DEF Final
  <2>1. i \in DOMAIN chan[q] /\ Of(q, i, c, "NOT_CREATED")
    BY <1>1 DEF Of
  <2>2. NoSocket(p, c) /\ \A j \in DOMAIN chan[q] : chan[q][j].conn = c => j <= i
    BY <1>0, <1>3, <2>1 DEF Final
  <2> QED
    BY <1>1, <1>7, <2>2 DEF NoSocket
<1>12. Named(c)'
  <2> SUFFICES ASSUME NEW x \in Fd, Has(p, x, c)'
               PROVE  /\ c \in refused' => ~socket'[p][x].watched
                      /\ NoSocket(q, c)'
    <3>1. \A x \in Fd : ~Has(q, x, c)'
      BY <1>0, <1>7, <1>8
    <3> QED
      BY <1>0, <1>6, <3>1 DEF Named
  <2>1. NoSocket(q, c)'
    BY <1>0, <1>7, <1>8 DEF NoSocket
  <2>2. Has(p, x, c) /\ x = f /\ s # None
    BY <1>7, <1>8
  <2>3. c \in refused => ~s.watched
    BY <1>3, <2>2 DEF Named
  <2> QED
    BY <1>1, <1>2, <1>8, <2>1, <2>2, <2>3
<1>13. \A r \in Peer : /\ wrote[r][c] \in Nat /\ wrote'[r][c] \in Nat /\ wrote[r][c] <= wrote'[r][c]
                      /\ got'[r][c] = got[r][c] /\ got[r][c] \in Seq(1..MaxWrite)
  BY <1>1, HistoryIs
<1>14. InOrder(c)'
  <2>1. InOrderAt(p, c) /\ InOrderAt(q, c)
    BY <1>0, <1>3 DEF InOrder
  <2>2. InOrderAt(p, c)'
    BY <1>0, <1>1, <1>13, <2>1, InOrderTaken
  <2>3. Took(q, 0)
    BY <1>0, <1>1, <1>4, TookNone
  <2>4. InOrderAt(q, c)'
    BY <1>0, <1>13, <2>1, <2>3, InOrderTaken
  <2> QED
    BY <1>0, <2>2, <2>4 DEF InOrder
\* Nothing is on its way, and nothing can be read: all was delivered.
<1>15. Quiet => \A x \in Fd : Has(p, x, c) /\ ~socket[p][x].closed =>
                    \A n \in 1..wrote[q][c] : Arrived(p, c, n)
  <2> SUFFICES ASSUME Quiet, NEW x \in Fd, Has(p, x, c), ~socket[p][x].closed
               PROVE  \A n \in 1..wrote[q][c] : Arrived(p, c, n)
    OBVIOUS
  <2>1. \A n : ~Coming(p, c, n)
    BY <1>1, <1>5 DEF Coming, Of
  <2>2. \A n : ~Unread(q, c, n)
    BY <1>8 DEF Unread
  <2> QED
    BY <1>0, <1>3, <2>1, <2>2 DEF Complete
<1>16. UnreadInOrder(c)' /\ NoGap(c)' /\ (Quiet' => Complete(c)')
  <2>1. \A r \in Peer : \A x : Coming(r, c, x)' <=> Coming(r, c, x)
    <3>1. \A i \in DOMAIN chan[p] : i <= 1 => ~Of(p, i, c, "DATA")
      <4>1. \A i \in DOMAIN chan[p] : i <= 1 => i = 1
        BY <1>4
      <4> QED
        BY <1>1, <4>1 DEF Of
    <3>2. \A m : Put(q, m)
      BY <1>0, <1>1, <1>4, TookNone
    <3> QED
      BY <1>0, <1>1, <3>1, <3>2, ComingStays
  <2>2. \A r \in Peer : \A x : Unread(r, c, x)' <=> Unread(r, c, x)
    <3>1. CASE s # None
      <4>1. Has(p, f, c) /\ t # None /\ t.conn = c /\ t.unread = socket[p][f].unread
        BY <1>2, <3>1 DEF Has
      <4> QED
        BY <1>1, <4>1, UnreadStays
    <3>2. CASE s = None
      <4>1. /\ Has(p, f, c) => socket[p][f].unread = <<>>
            /\ t # None /\ t.conn = c => t.unread = <<>>
        BY <1>2, <3>2 DEF Has
      <4> QED
        BY <1>1, <4>1, UnreadStays
    <3> QED
      BY <3>1, <3>2
  <2>3. ASSUME NEW r \in Peer, NEW x \in Fd, Has(r, x, c)'
        PROVE  /\ Has(r, x, c)
               /\ socket'[r][x].unread = socket[r][x].unread
               /\ socket[r][x].watched => socket'[r][x].watched
               /\ socket[r][x].closed => socket'[r][x].closed
               /\ Quiet /\ socket'[r][x].shut /\ ~socket[r][x].closed =>
                      socket[r][x].shut \/ \A n \in 1..wrote[Other(r)][c] : Arrived(r, c, n)
    <3>1. r = p /\ x = f /\ s # None /\ Has(p, f, c)
      BY <1>0, <1>7, <1>8, <2>3
    <3>2. Quiet /\ ~socket[p][f].closed =>
              \A n \in 1..wrote[q][c] : Arrived(p, c, n)
      BY <1>15, <3>1
    <3> QED
      BY <1>0, <1>2, <1>8, <3>1, <3>2
  <2> QED
    BY <1>1, <1>13, <2>1, <2>2, <2>3, ArrivedIs, ChunksStay
<1>17. ASSUME Quiet' PROVE Noticed(c)'
  <2>1. Noticed(c)
    BY <1>3, <1>17
  <2>2. \A x \in Fd : ~Has(q, x, c)'
    BY <1>0, <1>7, <1>8
  <2>3. ASSUME NEW x \in Fd, Has(p, x, c)'
        PROVE  /\ socket'[p][x].shut
               /\ socket'[p][x].watched \/ c \in refused'
    <3>1. Has(p, x, c) /\ x = f /\ s # None
      BY <1>7, <1>8, <2>3
    <3>2. ~InFlight(p, c, {"CREATED"})
      BY <1>1, <1>5 DEF InFlight, Of
    <3>3. c \in refused \/ s.watched
      BY <1>1, <2>1, <3>1, <3>2 DEF Noticed, Answers
    <3> QED
      BY <1>1, <1>2, <1>8, <3>1, <3>3
  <2>4. Paired(c)' /\ Waits(c)'
    BY <1>0, <2>2, <2>3 DEF Paired, Waits
  <2>5. Answers(c)'
    <3>1. \A i \in DOMAIN chan'[p] : ~Of(p, i, c, "NOT_CREATED")'
      BY <1>6 DEF Of
    <3> QED
      BY <1>0, <1>9, <2>2, <3>1 DEF Answers
  <2> QED
    BY <2>4, <2>5 DEF Noticed
<1> QED
  BY <1>10, <1>11, <1>12, <1>14, <1>16, <1>17 DEF ConnOK

\* cmd_tun_disconnected_cb, to a socket of the same connection, of another, or to none.
LEMMA DisconnectedKeeps ==
    ASSUME IInv, ~mixed, NEW p \in Peer, Disconnected(p),
           NEW h, h = Head(chan[p]), NEW f, f = h.fd, NEW s, s = socket[p][f],
           NEW c, c = IF s = None THEN h.conn ELSE s.conn
    PROVE  IInv'
<1> DEFINE q == Other(p)
           t == IF s = None THEN None ELSE [s EXCEPT !.shut = TRUE]
           m == Msg("NOT_CREATED", f, None, c, 0)
<1>0. /\ q \in Peer /\ q # p /\ Other(p) = q /\ Other(q) = p
      /\ \A r \in Peer : (r = p \/ r = q) /\ Other(r) \in Peer
  BY OtherIs
<1>1. /\ Got(p, "NOT_CREATED") /\ UNCHANGED <<up, linked, map, accepted, wrote, got, cut, refused, losses>>
      /\ chan' = Received(p)
      /\ mixed' = (s # None /\ s.conn # h.conn)
      /\ s = None => socket' = socket
      /\ s # None => socket' = [socket EXCEPT ![p][f] = t]
  BY DEF Disconnected, Mixes
<1>2. Base /\ TypeOK /\ MapWatched /\ \A d \in Conn : ConnOK(d)
  BY DEF IInv, Base
<1>3. /\ p \in up /\ chan[p] \in Seq(Message) /\ chan[p] # <<>>
      /\ 1 \in DOMAIN chan[p] /\ h = chan[p][1]
      /\ h.conn \in Conn /\ ~(accepted < h.conn) /\ Of(p, 1, h.conn, "NOT_CREATED")
      /\ f \in Fd
      /\ \A i \in DOMAIN chan[p] : i = 1 => chan[p][i].conn = h.conn
  <2>1. Base /\ Got(p, "NOT_CREATED") /\ "NOT_CREATED" # "CREATE"
    BY <1>1, <1>2
  <2> HIDE DEF q, t, m
  <2> QED
    BY <2>1, HeadIs
<1>4. s # None => /\ s \in Socket /\ s.conn \in Conn /\ ~(accepted < s.conn)
                  /\ c = s.conn /\ s.unread \in Seq(1..MaxWrite)
  BY <1>2, <1>3, SocketOf
<1>5. c \in Conn /\ ~(accepted < c) /\ map[p][f] \in Fd \cup {None} /\ (~mixed' => h.conn = c)
      /\ (map[p][f] # None <=> s # None /\ s.watched)
  <2>1. map[p][f] \in Fd \cup {None} /\ (map[p][f] # None <=> s # None /\ s.watched)
    BY <1>2, <1>3 DEF TypeOK, MapWatched
  <2> QED
    BY <1>1, <1>3, <1>4, <2>1
<1>6. t \in Socket \cup {None} /\ (t # None <=> s # None)
  <2>1. s # None => [s EXCEPT !.shut = TRUE] \in Socket /\ [s EXCEPT !.shut = TRUE] # None
    <3>1. TRUE \in BOOLEAN
      OBVIOUS
    <3>2. s # None => [s EXCEPT !.shut = TRUE] \in Socket
      BY <1>4, <3>1, SocketIs
    <3> QED
      BY <3>2, TunnelAssumption
  <2> QED
    BY <2>1
<1>7. s # None => /\ t.conn = c /\ t.watched = s.watched /\ t.shut /\ t.closed = s.closed
                  /\ t.unread = s.unread
  BY <1>4 DEF Socket
<1>8. m.conn = c /\ m.cmd = "NOT_CREATED" /\ m.fd = f
  BY DEF Msg
<1> HIDE DEF q, t, m
<1>9. /\ socket' \in [Peer -> [Fd -> Socket \cup {None}]]
      /\ map' \in [Peer -> [Fd -> Fd \cup {None}]] /\ Becomes(p, f, t, map[p][f])
  <2>1. \/ socket' = [socket EXCEPT ![p][f] = t]
        \/ socket' = socket /\ t = socket[p][f]
    BY <1>1, <1>6
  <2> QED
    BY <1>1, <1>2, <1>3, <1>5, <1>6, <2>1, SocketBecomes
<1>10. /\ chan' \in [Peer -> Seq(Message)] /\ Took(p, 1)
       /\ chan'[q] = chan[q] /\ Put(q, m)
  BY <1>0, <1>1, <1>2, <1>3, Takes
<1>11. TypeOK'
  <2>1. mixed' \in BOOLEAN
    BY <1>1
  <2> QED
    BY <1>1, <1>2, <1>9, <1>10, <2>1 DEF TypeOK
<1>12. StepOf(c, p, f, t, map[p][f], 1, m)
  <2>1. accepted <= accepted'
    BY <1>1, <1>2, AcceptedIs
  <2>2. OneStep(p, f, t, map[p][f], 1, m)
    BY <1>0, <1>1, <1>9, <1>10 DEF OneStep
  <2>3. OnlyOf(c)
    BY <1>1, OnlyNone
  <2>4. mixed' \/ (1 = 1 => \A i \in DOMAIN chan[p] : i = 1 => chan[p][i].conn = c)
    BY <1>3, <1>5
  <2>5. map[p][f] # None <=> t # None /\ t.watched
    BY <1>5, <1>6, <1>7
  <2>6. /\ mixed' \/ (socket[p][f] # None => socket[p][f].conn = c)
        /\ t # None => t.conn = c \/ (socket[p][f] # None /\ t.conn = socket[p][f].conn)
    BY <1>4, <1>6, <1>7
  <2> QED
    BY <1>1, <1>3, <1>5, <1>8, <2>1, <2>2, <2>3, <2>4, <2>5, <2>6 DEF StepOf
<1>13. ASSUME ~mixed' PROVE ConnOK(c)'
  <2>1. /\ Of(p, 1, c, "NOT_CREATED") /\ 1 \in DOMAIN chan[p] /\ chan[p][1].fd = f
        /\ p \in up /\ c \in Conn /\ f \in Fd /\ ConnOK(c) /\ TypeOK
    BY <1>2, <1>3, <1>5, <1>13
  <2>2. /\ s = None => t = None
        /\ s # None => /\ t # None /\ s.conn = c /\ t.conn = c /\ t.shut
                       /\ t.watched = s.watched /\ t.closed = s.closed
                       /\ t.unread = s.unread
    BY <1>4, <1>6, <1>7
  <2>3. TakesEnd(c, p, f, t)
    BY <1>0, <1>1, <1>9, <1>10, <2>1, <2>2 DEF TakesEnd
  <2> QED
    BY <1>13, <2>1, <2>3, EndOfOne
<1> QED
  BY <1>3, <1>5, <1>11, <1>12, <1>13, StepKeeps

\* ksn_tun_accept_cb: a connection of which nothing was known.
LEMMA AcceptKeeps ==
    ASSUME IInv, ~mixed, NEW p \in Peer, Accept(p),
           NEW c, c = accepted', NEW f, f = LowestFree(p)
    PROVE  IInv'
<1> DEFINE q == Other(p)
           t == IF linked THEN NewSocket(c) ELSE None
           m == Msg("CREATE", None, f, c, 0)
<1>0. /\ q \in Peer /\ q # p /\ Other(p) = q /\ Other(q) = p
      /\ \A r \in Peer : (r = p \/ r = q) /\ Other(r) \in Peer
  BY OtherIs
<1>1. /\ p \in up /\ Free(p) # {} /\ accepted < MaxConn /\ c = accepted + 1
      /\ UNCHANGED <<up, linked, map, wrote, got, cut, refused, losses, mixed>>
      /\ linked => socket' = [socket EXCEPT ![p][f] = t]
      /\ ~linked => socket' = socket
      /\ chan' = Send(q, m, chan)
  BY DEF Accept
<1>2. Base /\ TypeOK /\ MapWatched /\ Peers /\ Unborn /\ \A d \in Conn : ConnOK(d)
  BY DEF IInv, Base
<1>3. f \in Fd /\ socket[p][f] = None /\ map[p][f] = None
  BY <1>1, <1>2, LowestIsFree DEF MapWatched
<1>4. /\ c \in Conn /\ accepted < c /\ accepted <= accepted' /\ ~(accepted' < c)
      /\ accepted' \in 0..MaxConn
  <2>1. accepted \in Nat /\ MaxConn \in Nat
    BY <1>2, AcceptedIs, TunnelAssumption
  <2> QED
    BY <1>1, <2>1 DEF Conn
<1>5. /\ c \notin refused /\ ConnOK(c)
      /\ \A r \in Peer : /\ \A x \in Fd : ~Has(r, x, c)
                         /\ Silent(r, c) /\ wrote[r][c] = 0 /\ got[r][c] = <<>>
  BY <1>2, <1>4 DEF Unborn, NoSocket
<1>6. /\ m \in Message /\ m.conn = c /\ m.cmd = "CREATE" /\ m.from = f
  <2>1. 0 \in 0..MaxWrite
    BY TunnelAssumption
  <2>2. m \in Message
    BY <1>3, <1>4, <2>1, MsgIs
  <2> QED
    BY <2>2 DEF Msg
<1>7. /\ t \in Socket \cup {None} /\ (t # None <=> linked)
      /\ t # None => t.conn = c /\ ~t.watched /\ ~t.shut /\ t.unread = <<>>
  <2>1. linked => /\ t \in Socket /\ t # None
                  /\ t.conn = c /\ ~t.watched /\ ~t.shut /\ t.unread = <<>>
    BY <1>4, NewSocketIs
  <2> QED
    BY <2>1
<1> HIDE DEF q, t, m
<1>8. /\ socket' \in [Peer -> [Fd -> Socket \cup {None}]]
      /\ map' \in [Peer -> [Fd -> Fd \cup {None}]] /\ Becomes(p, f, t, None)
  <2>1. \/ socket' = [socket EXCEPT ![p][f] = t]
        \/ socket' = socket /\ t = socket[p][f]
    BY <1>1, <1>3, <1>7
  <2> QED
    BY <1>1, <1>2, <1>3, <1>7, <2>1, SocketBecomes
<1>9. /\ chan' \in [Peer -> Seq(Message)] /\ Took(p, 0) /\ chan'[p] = chan[p]
      /\ Put(q, m) /\ (Delivered(q) => \E i \in DOMAIN chan'[q] : chan'[q][i] = m)
  BY <1>0, <1>1, <1>2, <1>6, Sends
<1>10. TypeOK'
  BY <1>1, <1>2, <1>4, <1>8, <1>9 DEF TypeOK
<1>11. StepOf(c, p, f, t, None, 0, m)
  <2>1. OneStep(p, f, t, None, 0, m)
    BY <1>0, <1>1, <1>8, <1>9 DEF OneStep
  <2> QED
    BY <1>1, <1>3, <1>4, <1>6, <1>7, <2>1, OnlyNone DEF StepOf
\* All there is of c is the socket that waits, and the command for q.
<1>12. /\ \A x \in Fd : Has(p, x, c)' <=> linked /\ x = f
       /\ \A x \in Fd : ~Has(q, x, c)'
       /\ socket'[p][f] = t
  <2>1. /\ \A x \in Fd : socket'[p][x] = IF x = f THEN t ELSE socket[p][x]
        /\ \A x \in Fd : socket'[q][x] = socket[q][x]
    BY <1>0, <1>3, <1>8 DEF Becomes
  <2> QED
    BY <1>0, <1>3, <1>5, <1>7, <2>1 DEF Has
<1>13. /\ \A i \in DOMAIN chan'[p] : chan'[p][i].conn # c
       /\ \A i \in DOMAIN chan'[q] : chan'[q][i].conn = c =>
              /\ chan'[q][i] = m /\ linked
              /\ \A j \in DOMAIN chan'[q] : chan'[q][j].conn = c => j = i
  <2>1. \A i \in DOMAIN chan'[p] : chan'[p][i].conn # c
    BY <1>5, <1>9 DEF Silent
  <2>2. ASSUME NEW i \in DOMAIN chan'[q], chan'[q][i].conn = c
        PROVE  chan'[q][i] = m /\ i \in Nat /\ linked /\ \A j \in DOMAIN chan'[q] : j <= i
    BY <1>0, <1>5, <1>9, <2>2 DEF Silent, Put, Delivered
  <2>3. \A i, j \in DOMAIN chan'[q] : chan'[q][i].conn = c /\ chan'[q][j].conn = c => i = j
    <3>1. \A i, j \in DOMAIN chan'[q] : chan'[q][i].conn = c /\ chan'[q][j].conn = c =>
              i \in Nat /\ j \in Nat /\ i <= j /\ j <= i
      BY <2>2
    <3> QED
      BY <3>1
  <2> QED
    BY <2>1, <2>2, <2>3
<1>14. OneSocket(c)' /\ Answered(c)' /\ Final(c)'
  <2>1. \A r \in Peer : \A i \in DOMAIN chan'[r] : ~Of(r, i, c, "CREATED")' /\ ~Of(r, i, c, "NOT_CREATED")'
    <3>1. \A i \in DOMAIN chan'[p] : ~Of(p, i, c, "CREATED")' /\ ~Of(p, i, c, "NOT_CREATED")'
      BY <1>13 DEF Of
    <3>2. \A i \in DOMAIN chan'[q] : ~Of(q, i, c, "CREATED")' /\ ~Of(q, i, c, "NOT_CREATED")'
      BY <1>6, <1>13 DEF Of
    <3> QED
      BY <1>0, <3>1, <3>2
  <2> QED
    BY <1>0, <1>12, <2>1 DEF OneSocket, Answered, Final
<1>15. Asked(c)'
  <2> SUFFICES ASSUME NEW r \in Peer, NEW i \in DOMAIN chan'[r], Of(r, i, c, "CREATE")',
                      NEW e, e = chan'[r][i]
               PROVE  /\ \A j \in DOMAIN chan'[r] : chan'[r][j].conn = c => j = i
                      /\ Silent(Other(r), c)' /\ NoSocket(r, c)' /\ c \notin refused'
                      /\ got'[r][c] = <<>> /\ got'[Other(r)][c] = <<>> /\ wrote'[r][c] = 0
                      /\ Other(r) \in up' => Waiting(Other(r), e.from, c)'
    BY DEF Asked
  <2>1. r = q /\ e = m /\ linked
    BY <1>0, <1>13 DEF Of
  <2>2. Waiting(p, f, c)'
    BY <1>3, <1>7, <1>12, <2>1 DEF Waiting
  <2>3. Silent(p, c)' /\ NoSocket(q, c)'
    BY <1>12, <1>13 DEF Silent, NoSocket
  <2> QED
    BY <1>0, <1>1, <1>5, <1>6, <1>13, <2>1, <2>2, <2>3 DEF Of
<1>16. Named(c)'
  <2>1. \A x \in Fd : Has(p, x, c)' => ~socket'[p][x].watched /\ ~socket'[p][x].shut
    BY <1>7, <1>12
  <2>2. \A r \in Peer, x \in Fd : Has(r, x, c)' =>
            /\ r = p /\ Other(r) = q
            /\ \A i \in DOMAIN chan'[r] : chan'[r][i].conn # c
            /\ ~socket'[r][x].watched /\ ~socket'[r][x].shut
            /\ \A g \in Fd : ~Has(Other(r), g, c)'
    BY <1>0, <1>12, <1>13, <2>1
  <2> QED
    BY <2>2 DEF Named
<1>17. InOrder(c)'
  <2>1. InOrderAt(p, c) /\ InOrderAt(q, c)
    BY <1>0, <1>5 DEF ConnOK, InOrder
  <2>2. \A r \in Peer : /\ wrote[r][c] \in Nat /\ wrote'[r][c] \in Nat /\ wrote[r][c] <= wrote'[r][c]
                        /\ got'[r][c] = got[r][c] /\ got[r][c] \in Seq(1..MaxWrite)
    BY <1>1, <1>2, <1>4, HistoryIs
  <2>3. InOrderAt(p, c)'
    BY <1>0, <1>9, <2>1, <2>2, InOrderTaken
  <2>4. InOrderAt(q, c)'
    BY <1>0, <1>6, <1>9, <2>1, <2>2, InOrderSent
  <2> QED
    BY <1>0, <2>3, <2>4 DEF InOrder
<1>18. UnreadInOrder(c)' /\ NoGap(c)' /\ (Quiet' => Complete(c)')
  <2>1. \A r \in Peer : \A x : Coming(r, c, x)' <=> Coming(r, c, x)
    <3>1. \A i \in DOMAIN chan[p] : i <= 0 => ~Of(p, i, c, "DATA")
      BY <1>9 DEF Took
    <3> QED
      BY <1>0, <1>6, <1>9, <3>1, ComingStays
  <2>2. \A r \in Peer : \A x : Unread(r, c, x)' <=> Unread(r, c, x)
    <3>1. /\ Has(p, f, c) => socket[p][f].unread = <<>>
          /\ t # None /\ t.conn = c => t.unread = <<>>
      BY <1>3, <1>7 DEF Has
    <3> QED
      BY <1>3, <1>8, <3>1, UnreadStays
  <2>3. ASSUME NEW r \in Peer, NEW x \in Fd, Has(r, x, c)'
        PROVE  /\ socket'[r][x].unread = <<>> /\ wrote[r][c] = 0 /\ ~socket'[r][x].shut
               /\ \A y : ~Coming(r, c, y)
               /\ Quiet => \A y \in 1..wrote[Other(r)][c] : Unread(Other(r), c, y)
    <3>1. r = p /\ x = f /\ linked
      BY <1>0, <1>12, <2>3
    <3>2. \A y : ~Coming(r, c, y)
      BY <1>5 DEF Coming, Of, Silent
    <3>3. wrote[Other(r)][c] = 0 /\ \A y : y \notin 1..0
      BY <1>0, <1>5
    <3> QED
      BY <1>5, <1>7, <1>12, <3>1, <3>2, <3>3
  <2> QED
    BY <1>1, <1>4, <1>5, <2>1, <2>2, <2>3, ArrivedIs, ChunksStay
<1>19. ASSUME Quiet' PROVE Noticed(c)'
  <2>1. Delivered(q)
    BY <1>0, <1>1, <1>2, <1>19 DEF Quiet, Delivered, Peers
  <2>2. InFlight(q, c, {"CREATE"})'
    BY <1>6, <1>9, <2>1 DEF InFlight
  <2>3. Paired(c)' /\ Waits(c)'
    BY <1>0, <1>7, <1>12, <2>2 DEF Paired, Waits
  <2>4. Answers(c)'
    BY <1>0, <1>6, <1>13 DEF Answers, Of
  <2> QED
    BY <2>3, <2>4 DEF Noticed
<1>20. ConnOK(c)'
  BY <1>14, <1>15, <1>16, <1>17, <1>18, <1>19 DEF ConnOK
<1> QED
  BY <1>1, <1>4, <1>10, <1>11, <1>20, StepKeeps
-----------------------------------------------------------------------------
(* Peers end, lose each other and meet again.                              *)

\* p ends; what q is told, if anything, comes last: once of every connection that
\* p had in its map, named by the descriptor the map had.
DiesTo(p, q) ==
    /\ up' = up \ {p}
    /\ UNCHANGED <<linked, accepted, wrote, got, cut, refused, losses>>
    /\ \A x \in Fd : /\ socket'[p][x] = None /\ map'[p][x] = None
                     /\ socket'[q][x] = socket[q][x] /\ map'[q][x] = map[q][x]
    /\ chan'[p] = <<>>
    /\ (linked /\ q \in up) \/ chan'[q] = chan[q]
    /\ DOMAIN chan[q] \subseteq Nat /\ DOMAIN chan'[q] \subseteq Nat
    /\ \A i \in DOMAIN chan[q] : i \in DOMAIN chan'[q] /\ chan'[q][i] = chan[q][i]
    /\ \A i \in DOMAIN chan'[q] :
           \/ i \in DOMAIN chan[q] /\ chan'[q][i] = chan[q][i]
           \/ /\ \A j \in DOMAIN chan[q] : j < i
              /\ \E x \in Fd : /\ map[p][x] # None /\ chan'[q][i].cmd = "NOT_CREATED"
                               /\ chan'[q][i].fd = map[p][x]
                               /\ chan'[q][i].conn = socket[p][x].conn
              /\ \A j \in DOMAIN chan'[q] :
                     chan'[q][j].conn = chan'[q][i].conn => j \in DOMAIN chan[q] \/ j = i

\* The peer told is the other one.
Dies(p) == DiesTo(p, Other(p))

\* It keeps what holds of a connection, as nothing is promised any more of one that
\* lost its peer.
LEMMA DiesOfOne ==
    ASSUME TypeOK, MapWatched, NEW c \in Conn, ConnOK(c), ~mixed, ~mixed',
           NEW p \in Peer, p \in up, Dies(p), NEW q, q = Other(p)
    PROVE  ConnOK(c)'
<1>0. /\ q \in Peer /\ q # p /\ Other(p) = q /\ Other(q) = p
      /\ \A r \in Peer : (r = p \/ r = q) /\ Other(r) \in Peer
  BY OtherIs
<1>1. /\ up' = up \ {p}
      /\ wrote' = wrote /\ UNCHANGED <<got, cut>> /\ refused' = refused /\ losses' = losses
      /\ chan'[p] = <<>>
  BY DEF Dies, DiesTo
<1>2. \A x \in Fd : /\ socket'[p][x] = None /\ map'[p][x] = None
                    /\ socket'[q][x] = socket[q][x] /\ map'[q][x] = map[q][x]
  BY DEF Dies, DiesTo
<1>3. /\ DOMAIN chan[q] \subseteq Nat /\ DOMAIN chan'[q] \subseteq Nat
      /\ \A i \in DOMAIN chan[q] : i \in DOMAIN chan'[q] /\ chan'[q][i] = chan[q][i]
      /\ \A i \in DOMAIN chan'[q] :
           \/ i \in DOMAIN chan[q] /\ chan'[q][i] = chan[q][i]
           \/ /\ \A j \in DOMAIN chan[q] : j < i
              /\ \E x \in Fd : /\ map[p][x] # None /\ chan'[q][i].cmd = "NOT_CREATED"
                               /\ chan'[q][i].fd = map[p][x]
                               /\ chan'[q][i].conn = socket[p][x].conn
              /\ \A j \in DOMAIN chan'[q] :
                     chan'[q][j].conn = chan'[q][i].conn => j \in DOMAIN chan[q] \/ j = i
  BY DEF Dies, DiesTo
<1>4. /\ OneSocket(c) /\ Asked(c) /\ Answered(c) /\ Final(c) /\ Named(c) /\ InOrder(c)
      /\ UnreadInOrder(c) /\ NoGap(c)
  BY DEF ConnOK
<1>5. ~Quiet'
  BY <1>0, <1>1 DEF Quiet
<1>6. /\ \A x : ~Has(p, x, c)'
      /\ \A x : Has(q, x, c)' <=> Has(q, x, c)
      /\ \A i \in DOMAIN chan'[p] : FALSE
  BY <1>1, <1>2 DEF Has
\* What q is told of c: by a socket of p that has a watcher.
<1>7. \A i \in DOMAIN chan'[q] : chan'[q][i].conn = c =>
           \/ i \in DOMAIN chan[q] /\ chan'[q][i] = chan[q][i]
           \/ /\ chan'[q][i].cmd = "NOT_CREATED"
              /\ \A j \in DOMAIN chan[q] : j < i
              /\ \A j \in DOMAIN chan'[q] : chan'[q][j].conn = c => j \in DOMAIN chan[q] \/ j = i
              /\ \E x \in Fd : /\ Has(p, x, c) /\ socket[p][x].watched
                               /\ map[p][x] # None /\ chan'[q][i].fd = map[p][x]
  BY <1>3 DEF Has, MapWatched
<1>8. OneSocket(c)'
  BY <1>0, <1>4, <1>6 DEF OneSocket
<1>9. Silent(p, c)' /\ NoSocket(p, c)'
  BY <1>6 DEF Silent, NoSocket
<1>10. Asked(c)'
  <2> SUFFICES ASSUME NEW i \in DOMAIN chan'[q], Of(q, i, c, "CREATE")'
               PROVE  /\ \A j \in DOMAIN chan'[q] : chan'[q][j].conn = c => j = i
                      /\ NoSocket(q, c)' /\ c \notin refused
                      /\ got[q][c] = <<>> /\ got[p][c] = <<>> /\ wrote[q][c] = 0
    BY <1>0, <1>1, <1>6, <1>9 DEF Asked
  <2>1. i \in DOMAIN chan[q] /\ Of(q, i, c, "CREATE")
    BY <1>7 DEF Of
  <2>2. /\ \A j \in DOMAIN chan[q] : chan[q][j].conn = c => j = i
        /\ NoSocket(q, c) /\ c \notin refused
        /\ got[q][c] = <<>> /\ got[p][c] = <<>> /\ wrote[q][c] = 0
        /\ Waiting(p, chan[q][i].from, c)
    BY <1>0, <1>4, <2>1 DEF Asked
  <2>3. \A x \in Fd : Has(p, x, c) => ~socket[p][x].watched
    BY <1>0, <1>4, <2>2 DEF Waiting, OneSocket, Has
  <2>4. \A j \in DOMAIN chan'[q] : chan'[q][j].conn = c => j = i
    BY <1>7, <2>2, <2>3
  <2>5. NoSocket(q, c)'
    BY <1>6, <2>2 DEF NoSocket
  <2> QED
    BY <2>2, <2>4, <2>5
<1>11. Answered(c)'
  <2> SUFFICES ASSUME NEW i \in DOMAIN chan'[q], Of(q, i, c, "CREATED")',
                      NEW e, e = chan'[q][i]
               PROVE  /\ Waiting(q, e.fd, c)'
                      /\ \A j \in DOMAIN chan'[q] : chan'[q][j].conn = c =>
                             j = i \/ (i < j /\ chan'[q][j].cmd \in {"DATA", "NOT_CREATED"})
                      /\ c \notin refused
    BY <1>0, <1>1, <1>6, <1>9 DEF Answered
  <2>1. i \in DOMAIN chan[q] /\ Of(q, i, c, "CREATED") /\ e = chan[q][i]
    BY <1>7 DEF Of
  <2>2. /\ Waiting(q, e.fd, c) /\ c \notin refused
        /\ \A j \in DOMAIN chan[q] : chan[q][j].conn = c =>
               j = i \/ (i < j /\ chan[q][j].cmd \in {"DATA", "NOT_CREATED"})
    BY <1>0, <1>4, <2>1 DEF Answered
  <2>3. Waiting(q, e.fd, c)'
    BY <1>2, <2>2 DEF Waiting, Has
  <2>4. \A j \in DOMAIN chan'[q] : chan'[q][j].conn = c =>
            j = i \/ (i < j /\ chan'[q][j].cmd \in {"DATA", "NOT_CREATED"})
    BY <1>7, <2>1, <2>2
  <2> QED
    BY <2>2, <2>3, <2>4
<1>12. Final(c)'
  <2> SUFFICES ASSUME NEW i \in DOMAIN chan'[q], Of(q, i, c, "NOT_CREATED")'
               PROVE  \A j \in DOMAIN chan'[q] : chan'[q][j].conn = c => j <= i
    BY <1>0, <1>6, <1>9 DEF Final
  <2>1. CASE i \in DOMAIN chan[q] /\ Of(q, i, c, "NOT_CREATED")
    <3>1. NoSocket(p, c) /\ \A j \in DOMAIN chan[q] : chan[q][j].conn = c => j <= i
      BY <1>0, <1>4, <2>1 DEF Final
    <3> QED
      BY <1>7, <3>1 DEF NoSocket
  <2>2. CASE /\ \A j \in DOMAIN chan[q] : j < i
             /\ \A j \in DOMAIN chan'[q] : chan'[q][j].conn = c => j \in DOMAIN chan[q] \/ j = i
    BY <1>3, <2>2
  <2> QED
    BY <1>7, <2>1, <2>2 DEF Of
<1>13. Named(c)'
  <2> SUFFICES ASSUME NEW x \in Fd, Has(q, x, c)'
               PROVE  /\ \A i \in DOMAIN chan'[q] :
                             chan'[q][i].conn = c /\ chan'[q][i].cmd # "CREATE" => chan'[q][i].fd = x
                      /\ c \in refused => ~socket'[q][x].watched
    BY <1>0, <1>1, <1>6, <1>9 DEF Named
  <2>1. Has(q, x, c) /\ socket'[q][x] = socket[q][x]
    BY <1>2, <1>6
  <2>2. /\ \A i \in DOMAIN chan[q] :
               chan[q][i].conn = c /\ chan[q][i].cmd # "CREATE" => chan[q][i].fd = x
        /\ c \in refused => ~socket[q][x].watched
    BY <1>0, <1>4, <2>1 DEF Named
  <2>3. \A y \in Fd : Has(p, y, c) => map[p][y] = None \/ map[p][y] = x
    BY <1>0, <1>4, <2>1 DEF Named
  <2> QED
    BY <1>7, <2>1, <2>2, <2>3
<1>14. \A i \in DOMAIN chan'[q] : Of(q, i, c, "DATA")' =>
           i \in DOMAIN chan[q] /\ Of(q, i, c, "DATA") /\ chan'[q][i] = chan[q][i]
  BY <1>7 DEF Of
<1>15. InOrder(c)'
  <2>1. InOrderAt(p, c)'
    <3>1. InOrderAt(p, c)
      BY <1>4 DEF InOrder
    <3> QED
      BY <1>0, <1>1, <1>6, <3>1 DEF InOrderAt
  <2>2. InOrderAt(q, c)'
    <3>1. InOrderAt(q, c)
      BY <1>0, <1>4 DEF InOrder
    <3> QED
      BY <1>0, <1>1, <1>14, <3>1 DEF InOrderAt
  <2> QED
    BY <1>0, <2>1, <2>2 DEF InOrder
<1>16. /\ \A n : ~Coming(p, c, n)'
       /\ \A n : Coming(q, c, n)' <=> Coming(q, c, n)
       /\ \A n : Unread(q, c, n)' <=> Unread(q, c, n)
  <2>1. \A n : ~Coming(p, c, n)'
    BY <1>6 DEF Coming
  <2>2. \A n : Coming(q, c, n)' => Coming(q, c, n)
    BY <1>14 DEF Coming
  <2>3. \A n : Coming(q, c, n) => Coming(q, c, n)'
    BY <1>3 DEF Coming, Of
  <2>4. \A n : Unread(q, c, n)' <=> Unread(q, c, n)
    BY <1>2, <1>6 DEF Unread
  <2> QED
    BY <2>1, <2>2, <2>3, <2>4
<1>17. UnreadInOrder(c)'
  <2> SUFFICES ASSUME NEW x \in Fd, Has(q, x, c)', NEW u, u = socket'[q][x].unread
               PROVE  /\ \A i, j \in DOMAIN u : i < j => u[i] < u[j]
                      /\ \A i \in DOMAIN u :
                            /\ u[i] <= wrote[q][c]
                            /\ \A j \in DOMAIN got[p][c] : got[p][c][j] < u[i]
                      /\ ~socket'[q][x].watched => \A n \in 1..wrote[q][c] : Unread(q, c, n)'
    BY <1>0, <1>1, <1>6, <1>16 DEF UnreadInOrder
  <2>1. Has(q, x, c) /\ socket'[q][x] = socket[q][x]
    BY <1>2, <1>6
  <2> QED
    BY <1>0, <1>4, <1>16, <2>1 DEF UnreadInOrder
<1>18. NoGap(c)'
  <2> SUFFICES ASSUME losses = 0, NEW r \in Peer
               PROVE  /\ \A i \in DOMAIN got[r][c] : \A n \in 1..got[r][c][i] : Arrived(r, c, n)
                      /\ \A f \in Fd : Has(r, f, c)' /\ ~socket'[r][f].closed =>
                            \A m \in Nat : Coming(r, c, m)' =>
                                \A n \in 1..m : Arrived(r, c, n) \/ Coming(r, c, n)'
    BY <1>1, ArrivedIs DEF NoGap, SameArrived
  <2>1. /\ \A i \in DOMAIN got[r][c] : \A n \in 1..got[r][c][i] : Arrived(r, c, n)
        /\ \A f \in Fd : Has(r, f, c) /\ ~socket[r][f].closed =>
              \A m \in Nat : Coming(r, c, m) =>
                  \A n \in 1..m : Arrived(r, c, n) \/ Coming(r, c, n)
    BY <1>4 DEF NoGap
  <2>2. CASE r = p
    BY <1>6, <2>1, <2>2
  <2>3. CASE r = q
    BY <1>2, <1>6, <1>16, <2>1, <2>3
  <2> QED
    BY <1>0, <2>2, <2>3
<1> QED
  BY <1>5, <1>8, <1>10, <1>11, <1>12, <1>13, <1>15, <1>17, <1>18 DEF ConnOK

\* The end of a process keeps the invariant, whatever it told the other.
LEMMA DiesKeeps ==
    ASSUME IInv, ~mixed, NEW p \in Peer, p \in up, Dies(p), TypeOK'
    PROVE  IInv'
<1> DEFINE q == Other(p)
<1>0. /\ q \in Peer /\ q # p /\ Other(p) = q /\ Other(q) = p
      /\ \A r \in Peer : (r = p \/ r = q) /\ Other(r) \in Peer
  BY OtherIs
<1>1. TypeOK /\ MapWatched /\ Peers /\ Addressed /\ Unborn /\ \A d \in Conn : ConnOK(d)
  BY DEF IInv, Base
<1> HIDE DEF q
<1>2. /\ up' = up \ {p}
      /\ UNCHANGED <<linked, accepted, wrote, got, cut, refused, losses>>
      /\ \A x \in Fd : /\ socket'[p][x] = None /\ map'[p][x] = None
                       /\ socket'[q][x] = socket[q][x] /\ map'[q][x] = map[q][x]
      /\ chan'[p] = <<>>
      /\ (linked /\ q \in up) \/ chan'[q] = chan[q]
  BY <1>0 DEF Dies, DiesTo
<1>3. \A i \in DOMAIN chan'[q] :
          \/ i \in DOMAIN chan[q] /\ chan'[q][i] = chan[q][i]
          \/ \E x \in Fd : /\ map[p][x] # None /\ chan'[q][i].cmd = "NOT_CREATED"
                           /\ chan'[q][i].fd = map[p][x]
                           /\ chan'[q][i].conn = socket[p][x].conn
  BY <1>0 DEF Dies, DiesTo
<1>4. MapWatched'
  <2>1. \A x \in Fd : /\ map'[p][x] # None <=> socket'[p][x] # None /\ socket'[p][x].watched
                      /\ map'[q][x] # None <=> socket'[q][x] # None /\ socket'[q][x].watched
    BY <1>0, <1>1, <1>2 DEF MapWatched
  <2> QED
    BY <1>0, <2>1 DEF MapWatched
<1>5. Peers'
  <2>1. q \notin up' => chan'[q] = <<>> /\ \A x \in Fd : socket'[q][x] = None
    BY <1>0, <1>1, <1>2 DEF Peers
  <2>2. ~linked' => chan'[q] = <<>>
    BY <1>0, <1>1, <1>2 DEF Peers
  <2>3. losses' = 0 => linked'
    BY <1>1, <1>2 DEF Peers
  <2>4. \A r \in Peer : r = p \/ r = q
    BY <1>0
  <2> QED
    BY <1>2, <2>1, <2>2, <2>3, <2>4 DEF Peers
<1>6. Addressed'
  <2>1. \A i \in DOMAIN chan'[p] : FALSE
    BY <1>2
  <2>2. \A i \in DOMAIN chan'[q] :
            /\ chan'[q][i].cmd # "CREATE" => chan'[q][i].fd \in Fd
            /\ chan'[q][i].cmd \in {"CREATE", "CREATED"} => chan'[q][i].from \in Fd
    <3> SUFFICES ASSUME NEW i \in DOMAIN chan'[q], NEW e, e = chan'[q][i]
                 PROVE  /\ e.cmd # "CREATE" => e.fd \in Fd
                        /\ e.cmd \in {"CREATE", "CREATED"} => e.from \in Fd
      OBVIOUS
    <3>1. CASE i \in DOMAIN chan[q] /\ e = chan[q][i]
      BY <1>0, <1>1, <3>1 DEF Addressed
    <3>2. CASE e.cmd = "NOT_CREATED" /\ \E x \in Fd : map[p][x] # None /\ e.fd = map[p][x]
      <4>1. \A x \in Fd : map[p][x] \in Fd \cup {None}
        BY <1>1 DEF TypeOK
      <4> QED
        BY <3>2, <4>1
    <3> QED
      BY <1>3, <3>1, <3>2
  <2> QED
    BY <1>0, <2>1, <2>2 DEF Addressed
<1>7. Unborn'
  <2> SUFFICES ASSUME NEW d \in Conn, accepted < d
               PROVE  /\ d \notin refused
                      /\ \A r \in Peer : /\ NoSocket(r, d)' /\ Silent(r, d)'
                                         /\ wrote[r][d] = 0 /\ got[r][d] = <<>>
    BY <1>2 DEF Unborn
  <2>1. /\ d \notin refused
        /\ \A r \in Peer : /\ NoSocket(r, d) /\ Silent(r, d)
                           /\ wrote[r][d] = 0 /\ got[r][d] = <<>>
    BY <1>1 DEF Unborn
  <2>2. NoSocket(p, d)' /\ NoSocket(q, d)'
    BY <1>0, <1>2, <2>1 DEF NoSocket, Has
  <2>3. Silent(p, d)'
    BY <1>2 DEF Silent
  <2>4. Silent(q, d)'
    <3>1. \A x \in Fd : map[p][x] # None => socket[p][x].conn # d
      BY <1>1, <2>1 DEF MapWatched, NoSocket, Has
    <3>2. \A i \in DOMAIN chan[q] : chan[q][i].conn # d
      BY <1>0, <2>1 DEF Silent
    <3> QED
      BY <1>3, <3>1, <3>2 DEF Silent
  <2> QED
    BY <1>0, <2>1, <2>2, <2>3, <2>4
<1>8. ASSUME ~mixed', NEW c \in Conn PROVE ConnOK(c)'
  BY <1>1, <1>8, DiesOfOne
<1> QED
  BY <1>4, <1>5, <1>6, <1>7, <1>8 DEF IInv, Base

\* The end by SIGPIPE tells nothing.
LEMMA BrokenPipeKeeps ==
    ASSUME IInv, ~mixed, NEW p \in Peer, BrokenPipe(p)
    PROVE  IInv'
<1> DEFINE q == Other(p)
<1>0. q \in Peer /\ q # p
  BY OtherIs
<1>1. /\ p \in up /\ up' = up \ {p}
      /\ chan' = [chan EXCEPT ![p] = <<>>]
      /\ socket' = [socket EXCEPT ![p] = [f \in Fd |-> None]]
      /\ map' = [map EXCEPT ![p] = [f \in Fd |-> None]]
      /\ UNCHANGED <<linked, accepted, wrote, got, cut, refused, losses>>
      /\ mixed' \in BOOLEAN
  BY DEF BrokenPipe, Die, Got, Mixes
<1>2. TypeOK
  BY DEF IInv, Base
<1>3. TypeOK'
  BY <1>1, <1>2 DEF TypeOK
<1>4. Dies(p)
  <2>1. /\ \A x \in Fd : /\ socket'[p][x] = None /\ map'[p][x] = None
                         /\ socket'[q][x] = socket[q][x] /\ map'[q][x] = map[q][x]
        /\ chan'[p] = <<>> /\ chan'[q] = chan[q]
    BY <1>0, <1>1, <1>2 DEF TypeOK
  <2>2. DOMAIN chan[q] \subseteq Nat
    BY <1>0, <1>2 DEF TypeOK
  <2> QED
    BY <1>1, <2>1, <2>2 DEF Dies, DiesTo
<1> QED
  BY <1>1, <1>3, <1>4, DiesKeeps

\* ksnTunDestroy tells the other peer once of each descriptor of the map.
LEMMA StopKeeps ==
    ASSUME IInv, ~mixed, NEW p \in Peer, Stop(p), NEW q, q = Other(p)
    PROVE  IInv'
<1> DEFINE S == {f \in Fd : map[p][f] # None}
           ends == SetToSeq(S)
           n == Cardinality(S)
           told == [i \in DOMAIN ends |->
                       Msg("NOT_CREATED", map[p][ends[i]], None, socket[p][ends[i]].conn, 0)]
<1>0. q \in Peer /\ q # p
  BY OtherIs
<1>1. /\ p \in up /\ up' = up \ {p}
      /\ chan' = [chan EXCEPT ![p] = <<>>, ![q] = IF linked /\ q \in up THEN @ \o told ELSE @]
      /\ socket' = [socket EXCEPT ![p] = [f \in Fd |-> None]]
      /\ map' = [map EXCEPT ![p] = [f \in Fd |-> None]]
      /\ UNCHANGED <<linked, accepted, wrote, got, cut, refused, losses, mixed>>
  BY DEF Stop
<1>2. TypeOK /\ MapWatched /\ \A d \in Conn : OneSocket(d)
  BY DEF IInv, Base, ConnOK
<1>3. /\ n \in Nat /\ ends \in [1..n -> S]
      /\ \A i, j \in 1..n : ends[i] = ends[j] => i = j
  <2>1. IsFiniteSet(S)
    <3>1. IsFiniteSet(Fd)
      BY FS_Interval, TunnelAssumption DEF Fd
    <3> QED
      BY <3>1, FS_Subset
  <2> QED
    BY <2>1, SequenceOfSet
\* Each is of a connection of its own.
<1>4. \A x \in S : /\ x \in Fd /\ map[p][x] \in Fd /\ map[p][x] # None
                   /\ socket[p][x].conn \in Conn /\ Has(p, x, socket[p][x].conn)
  <2> SUFFICES ASSUME NEW x \in S
               PROVE  /\ x \in Fd /\ map[p][x] \in Fd /\ map[p][x] # None
                      /\ socket[p][x].conn \in Conn /\ Has(p, x, socket[p][x].conn)
    OBVIOUS
  <2>1. x \in Fd /\ map[p][x] \in Fd \cup {None} /\ map[p][x] # None
    BY <1>2 DEF TypeOK
  <2>2. socket[p][x] # None /\ socket[p][x] \in Socket
    BY <1>2, <2>1 DEF MapWatched, TypeOK
  <2> QED
    BY <2>1, <2>2 DEF Has, Socket
<1>5. \A x, y \in S : socket[p][x].conn = socket[p][y].conn => x = y
  BY <1>2, <1>4 DEF OneSocket
<1> HIDE DEF S, ends, n
<1>6. /\ told \in [1..n -> Message]
      /\ \A i \in 1..n : /\ ends[i] \in S /\ told[i].cmd = "NOT_CREATED"
                         /\ told[i].fd = map[p][ends[i]]
                         /\ told[i].conn = socket[p][ends[i]].conn
  <2>1. DOMAIN ends = 1..n /\ \A i \in 1..n : ends[i] \in S
    BY <1>3
  <2>2. 0 \in 0..MaxWrite
    BY TunnelAssumption
  <2>3. \A i \in 1..n : Msg("NOT_CREATED", map[p][ends[i]], None, socket[p][ends[i]].conn, 0) \in Message
    BY <1>4, <2>1, <2>2, MsgIs
  <2> QED
    BY <2>1, <2>3 DEF Msg
<1> HIDE DEF told
<1>7. \A i, j \in 1..n : told[i].conn = told[j].conn => i = j
  BY <1>3, <1>5, <1>6
<1>8. chan \in [Peer -> Seq(Message)] /\ chan[q] \in Seq(Message) /\ told \in Seq(Message)
      /\ chan[q] \o told \in Seq(Message)
  <2>1. told \in Seq(Message)
    BY <1>3, <1>6
  <2>2. chan \in [Peer -> Seq(Message)] /\ chan[q] \in Seq(Message)
    BY <1>0, <1>2 DEF TypeOK
  <2> QED
    BY <2>1, <2>2
<1>9. /\ chan' \in [Peer -> Seq(Message)] /\ chan'[p] = <<>>
      /\ chan'[q] = IF linked /\ q \in up THEN chan[q] \o told ELSE chan[q]
  <2>1. <<>> \in Seq(Message)
    OBVIOUS
  <2> QED
    BY <1>0, <1>1, <1>8, <2>1
<1>10. TypeOK'
  BY <1>1, <1>2, <1>9 DEF TypeOK
<1>11. /\ \A x \in Fd : /\ socket'[p][x] = None /\ map'[p][x] = None
                        /\ socket'[q][x] = socket[q][x] /\ map'[q][x] = map[q][x]
  BY <1>0, <1>1, <1>2 DEF TypeOK
\* What q has, and behind it what it is told.
<1>12. /\ DOMAIN chan[q] \subseteq Nat /\ DOMAIN chan'[q] \subseteq Nat
       /\ \A i \in DOMAIN chan[q] : i \in DOMAIN chan'[q] /\ chan'[q][i] = chan[q][i]
       /\ \A i \in DOMAIN chan'[q] :
            \/ i \in DOMAIN chan[q] /\ chan'[q][i] = chan[q][i]
            \/ /\ \A j \in DOMAIN chan[q] : j < i
               /\ \E x \in Fd : /\ map[p][x] # None /\ chan'[q][i].cmd = "NOT_CREATED"
                                /\ chan'[q][i].fd = map[p][x]
                                /\ chan'[q][i].conn = socket[p][x].conn
               /\ \A j \in DOMAIN chan'[q] :
                      chan'[q][j].conn = chan'[q][i].conn => j \in DOMAIN chan[q] \/ j = i
  <2>1. PICK l \in Nat : l = Len(chan[q]) /\ DOMAIN chan[q] = 1..l
    BY <1>8
  <2>2. CASE linked /\ q \in up
    <3>1. chan'[q] = chan[q] \o told
      BY <1>9, <2>2
    <3>2. Len(told) = n /\ DOMAIN told = 1..n
      BY <1>3, <1>6, <1>8
    <3>3. /\ DOMAIN chan'[q] = 1..(l + n)
          /\ \A i \in 1..l : chan'[q][i] = chan[q][i]
          /\ \A i \in 1..(l + n) : i \notin 1..l => chan'[q][i] = told[i - l]
      BY <1>8, <2>1, <3>1, <3>2, ConcatIs
    <3>4. \A i \in 1..(l + n) : i \in 1..l \/ (i - l \in 1..n /\ ~(i <= l) /\ \A j \in 1..l : j < i)
      BY <1>3
    <3>5. \A i, j \in 1..(l + n) : i - l = j - l => i = j
      BY <1>3
    <3>6. \A i \in 1..l : i \in 1..(l + n) /\ i <= l /\ i \in Nat
      BY <1>3
    <3>7. ASSUME NEW i \in 1..(l + n), i \notin 1..l
          PROVE  /\ \A j \in 1..l : j < i
                 /\ \E x \in Fd : /\ map[p][x] # None /\ chan'[q][i].cmd = "NOT_CREATED"
                                  /\ chan'[q][i].fd = map[p][x]
                                  /\ chan'[q][i].conn = socket[p][x].conn
                 /\ \A j \in 1..(l + n) :
                        chan'[q][j].conn = chan'[q][i].conn => j \in 1..l \/ j = i
      <4>1. i - l \in 1..n /\ chan'[q][i] = told[i - l] /\ \A j \in 1..l : j < i
        BY <3>3, <3>4, <3>7
      <4>2. ends[i - l] \in S
        BY <1>6, <4>1
      <4>3. \A j \in 1..(l + n) : j \notin 1..l => j - l \in 1..n /\ chan'[q][j] = told[j - l]
        BY <3>3, <3>4
      <4>4. \A j \in 1..(l + n) :
                chan'[q][j].conn = chan'[q][i].conn => j \in 1..l \/ j = i
        BY <1>7, <3>5, <4>1, <4>3
      <4> QED
        BY <1>4, <1>6, <4>1, <4>2, <4>4
    <3> QED
      BY <2>1, <3>3, <3>6, <3>7
  <2>3. CASE ~(linked /\ q \in up)
    BY <1>9, <2>1, <2>3
  <2> QED
    BY <2>2, <2>3
<1>13. Dies(p)
  <2>1. (linked /\ q \in up) \/ chan'[q] = chan[q]
    BY <1>9
  <2>2. DiesTo(p, q)
    BY <1>1, <1>9, <1>11, <1>12, <2>1 DEF DiesTo
  <2> QED
    BY <2>2 DEF Dies
<1> QED
  BY <1>1, <1>10, <1>13, DiesKeeps

\* What is on its way is gone; what was delivered is still in order.
LEMMA LoseKeeps ==
    ASSUME IInv, ~mixed, Lose
    PROVE  IInv'
<1>0. \A p \in Peer : Other(p) \in Peer
  BY OtherIs
<1>1. /\ losses < MaxLost /\ losses' = losses + 1 /\ linked' = FALSE
      /\ chan' = [p \in Peer |-> <<>>]
      /\ up' = up /\ socket' = socket /\ map' = map /\ accepted' = accepted /\ wrote' = wrote
      /\ UNCHANGED <<got, cut>> /\ refused' = refused /\ mixed' = mixed
  BY DEF Lose
<1>2. TypeOK /\ MapWatched /\ Peers /\ Addressed /\ Unborn /\ \A d \in Conn : ConnOK(d)
  BY DEF IInv, Base
<1>3. losses' \in 0..MaxLost /\ losses' # 0
  <2>1. losses \in 0..MaxLost
    BY <1>2 DEF TypeOK
  <2> QED
    BY <1>1, <2>1, TunnelAssumption
<1>4. TypeOK'
  <2>1. chan' \in [Peer -> Seq(Message)]
    BY <1>1
  <2> QED
    BY <1>1, <1>2, <1>3, <2>1 DEF TypeOK
<1>5. \A p \in Peer : chan'[p] = <<>> /\ \A i \in DOMAIN chan'[p] : FALSE
  BY <1>1
<1>6. \A p, f, c : Has(p, f, c)' <=> Has(p, f, c)
  BY <1>1 DEF Has
<1>7. MapWatched' /\ Peers' /\ Addressed' /\ Unborn'
  <2>1. MapWatched'
    BY <1>1, <1>2 DEF MapWatched
  <2>2. Peers'
    BY <1>1, <1>2, <1>3, <1>5 DEF Peers
  <2>3. Addressed'
    BY <1>5 DEF Addressed
  <2>4. Unborn'
    BY <1>1, <1>2, <1>5, <1>6 DEF Unborn, NoSocket, Silent
  <2> QED
    BY <2>1, <2>2, <2>3, <2>4
<1>8. ASSUME NEW c \in Conn PROVE ConnOK(c)'
  <2>1. /\ OneSocket(c) /\ Named(c) /\ InOrder(c) /\ UnreadInOrder(c) /\ NoGap(c)
    BY <1>2 DEF ConnOK
  <2>2. \A p \in Peer : \A n : ~Coming(p, c, n)' /\ (Unread(p, c, n)' <=> Unread(p, c, n))
    BY <1>1, <1>5, <1>6 DEF Coming, Unread
  <2>3. OneSocket(c)' /\ Asked(c)' /\ Answered(c)' /\ Final(c)'
    BY <1>5, <1>6, <2>1 DEF OneSocket, Asked, Answered, Final
  <2>4. Named(c)'
    BY <1>0, <1>1, <1>5, <1>6, <2>1 DEF Named, NoSocket
  <2>5. InOrder(c)'
    BY <1>0, <1>1, <1>5, <2>1 DEF InOrder, InOrderAt
  <2>6. UnreadInOrder(c)'
    BY <1>0, <1>1, <1>6, <2>1, <2>2 DEF UnreadInOrder
  <2>7. NoGap(c)' /\ ~Quiet'
    BY <1>3 DEF NoGap, Quiet
  <2> QED
    BY <2>3, <2>4, <2>5, <2>6, <2>7 DEF ConnOK
<1> QED
  BY <1>4, <1>7, <1>8 DEF IInv, Base

\* The peers meet again, or nothing happens at all.
LEMMA MeetKeeps ==
    ASSUME IInv, Meet \/ UNCHANGED vars
    PROVE  IInv'
<1>1. /\ linked' \in {linked, TRUE}
      /\ up' = up /\ socket' = socket /\ map' = map /\ chan' = chan /\ accepted' = accepted
      /\ wrote' = wrote /\ UNCHANGED <<got, cut>> /\ refused' = refused /\ losses' = losses /\ mixed' = mixed
  BY DEF Meet, vars
<1>2. TypeOK /\ MapWatched /\ Peers /\ Addressed /\ Unborn
  BY DEF IInv, Base
<1>3. TypeOK'
  <2>1. linked' \in BOOLEAN
    BY <1>1, <1>2 DEF TypeOK
  <2> QED
    BY <1>1, <1>2, <2>1 DEF TypeOK
<1>4. \A p, f, c : Has(p, f, c)' <=> Has(p, f, c)
  BY <1>1 DEF Has
<1>5. MapWatched' /\ Peers' /\ Addressed' /\ Unborn'
  <2>1. MapWatched'
    BY <1>1, <1>2 DEF MapWatched
  <2>2. Peers'
    BY <1>1, <1>2 DEF Peers
  <2>3. Addressed'
    BY <1>1, <1>2 DEF Addressed
  <2>4. Unborn'
    BY <1>1, <1>2, <1>4 DEF Unborn, NoSocket, Silent
  <2> QED
    BY <2>1, <2>2, <2>3, <2>4
<1>6. ASSUME ~mixed', NEW c \in Conn PROVE ConnOK(c)'
  <2> DEFINE k == [p \in Peer |-> 0]
  <2>1. ConnOK(c) /\ ~mixed
    BY <1>1, <1>6 DEF IInv
  <2>2. \A p \in Peer : /\ k[p] \in Nat /\ DOMAIN chan[p] \subseteq Nat
                        /\ \A i \in DOMAIN chan[p] : i + k[p] = i /\ i - k[p] = i
    BY <1>2 DEF TypeOK
  <2> HIDE DEF k
  <2>3. Same(c, k)
    BY <1>1, <1>4, <2>2, ArrivedIs DEF Same
  <2> QED
    BY <1>6, <2>1, <2>3, Untouched
<1> QED
  BY <1>3, <1>5, <1>6 DEF IInv, Base

-----------------------------------------------------------------------------
(* The invariant, and the properties that follow from it.                  *)

\* Nothing has happened yet.
LEMMA InitKeeps == Init => IInv
<1> SUFFICES ASSUME Init
             PROVE  IInv
  OBVIOUS
<1>0. \A p \in Peer : Other(p) \in Peer
  BY OtherIs
<1>1. /\ up = Peer /\ linked = TRUE /\ accepted = 0 /\ refused = {} /\ losses = 0 /\ mixed = FALSE
      /\ socket = [p \in Peer |-> [f \in Fd |-> None]]
      /\ map = [p \in Peer |-> [f \in Fd |-> None]]
      /\ chan = [p \in Peer |-> <<>>]
      /\ wrote = [p \in Peer |-> [c \in Conn |-> 0]]
      /\ got = [p \in Peer |-> [c \in Conn |-> <<>>]] /\ cut = {}
  BY DEF Init
<1>2. /\ \A p \in Peer, f \in Fd : socket[p][f] = None /\ map[p][f] = None
      /\ \A p \in Peer : chan[p] = <<>> /\ \A i \in DOMAIN chan[p] : FALSE
      /\ \A p \in Peer, c \in Conn : /\ wrote[p][c] = 0 /\ got[p][c] = <<>>
                                     /\ \A i \in DOMAIN got[p][c] : FALSE
      /\ \A p \in Peer : \A f, c : ~Has(p, f, c)
  BY <1>1 DEF Has
<1>3. TypeOK
  <2>1. /\ 0 \in 0..MaxConn /\ 0 \in 0..MaxWrite /\ 0 \in 0..MaxLost
        /\ <<>> \in Seq(1..MaxWrite) /\ <<>> \in Seq(Message)
    BY TunnelAssumption
  <2> QED
    BY <1>1, <2>1 DEF TypeOK
<1>4. MapWatched /\ Peers /\ Addressed /\ Unborn
  BY <1>1, <1>2 DEF MapWatched, Peers, Addressed, Unborn, NoSocket, Silent
<1>5. ASSUME NEW c \in Conn PROVE ConnOK(c)
  <2>1. OneSocket(c) /\ Asked(c) /\ Answered(c) /\ Final(c) /\ Named(c)
    BY <1>2 DEF OneSocket, Asked, Answered, Final, Named
  <2>2. InOrder(c)
    BY <1>2 DEF InOrder, InOrderAt
  <2>3. UnreadInOrder(c)
    BY <1>2 DEF UnreadInOrder
  <2>4. NoGap(c)
    BY <1>2 DEF NoGap
  <2>5. Noticed(c)
    BY <1>2 DEF Noticed, Paired, Waits, Answers
  <2>6. Complete(c)
    BY <1>2 DEF Complete
  <2> QED
    BY <2>1, <2>2, <2>3, <2>4, <2>5, <2>6 DEF ConnOK
<1> QED
  BY <1>3, <1>4, <1>5 DEF IInv, Base

\* What a peer does by itself, action by action.
LEMMA OwnStepKeeps ==
    ASSUME IInv, ~mixed, NEW p \in Peer, Step(p)
    PROVE  IInv'
<1>1. CASE Create(p)
  BY <1>1, CreateKeeps
<1>2. CASE CreateFails(p)
  BY <1>2, CreateFailsKeeps
<1>3. CASE Created(p)
  BY <1>3, CreatedKeeps
<1>4. CASE Data(p)
  BY <1>4, DataKeeps
<1>5. CASE BrokenPipe(p)
  BY <1>5, BrokenPipeKeeps
<1>6. CASE Disconnected(p)
  BY <1>6, DisconnectedKeeps
<1>7. ASSUME NEW f \in Fd, ReadData(p, f) PROVE IInv'
  BY <1>7, ReadDataKeeps
<1>8. ASSUME NEW f \in Fd, ReadEnd(p, f) PROVE IInv'
  BY <1>8, ReadEndKeeps
<1> QED
  BY <1>1, <1>2, <1>3, <1>4, <1>5, <1>6, <1>7, <1>8 DEF Step

\* Every step keeps the invariant: one case per action.
LEMMA NextKeeps == IInv /\ [Next]_vars => IInv'
<1> SUFFICES ASSUME IInv, [Next]_vars
             PROVE  IInv'
  OBVIOUS
<1>1. CASE UNCHANGED vars
  BY <1>1, MeetKeeps
<1>2. CASE Next
  <2>0. ~mixed
    BY <1>2 DEF Next
  <2>1. ASSUME NEW p \in Peer, Accept(p) PROVE IInv'
    BY <2>0, <2>1, AcceptKeeps
  <2>2. ASSUME NEW p \in Peer, Step(p) PROVE IInv'
    BY <2>0, <2>2, OwnStepKeeps
  <2>3. ASSUME NEW p \in Peer, Stop(p) PROVE IInv'
    BY <2>0, <2>3, StopKeeps
  <2>4. ASSUME NEW p \in Peer, NEW f \in Fd, EndWrites(p, f) PROVE IInv'
    BY <2>0, <2>4, EndWritesKeeps
  <2>5. ASSUME NEW p \in Peer, NEW f \in Fd, EndCloses(p, f) PROVE IInv'
    BY <2>0, <2>5, EndClosesKeeps
  <2>6. CASE Lose
    BY <2>0, <2>6, LoseKeeps
  <2>7. CASE Meet
    BY <2>7, MeetKeeps
  <2> QED
    BY <1>2, <2>1, <2>2, <2>3, <2>4, <2>5, <2>6, <2>7 DEF Next
<1> QED
  BY <1>1, <1>2

\* It holds in every state of the program.
LEMMA Invariant == Spec => []IInv
<1> QED
  BY InitKeeps, NextKeeps, PTL DEF Spec

\* What every state of the program is like: cmd_tun_cb, cmd_tun_read_cb and the
\* servers of net_tcp.c keep the types of their descriptors, maps and commands.
THEOREM TunnelTypeOK == Spec => []TypeOK
<1>1. IInv => TypeOK
  BY DEF IInv, Base
<1> QED
  BY <1>1, Invariant, PTL

\* The entries of the two maps are watched sockets that exist and name each other
\* (cmd_tun_created_cb, cmd_tun_read_cb, cmd_tun_disconnected_cb).
THEOREM MapsName == Spec => []PartnersAgree
<1>1. ASSUME IInv PROVE PartnersAgree
  <2>1. TypeOK /\ MapWatched
    BY <1>1 DEF IInv, Base
  <2>2. ASSUME Quiet, NEW p \in Peer, NEW f \in Fd, map[p][f] # None,
               NEW s, s = socket[p][f], NEW g, g = map[p][f], NEW q, q = Other(p)
        PROVE  \/ s.shut \/ InFlight(p, s.conn, {"NOT_CREATED"})
               \/ /\ socket[q][g] # None /\ socket[q][g].conn = s.conn
                  /\ map[q][g] = f \/ InFlight(q, s.conn, {"CREATED"})
    <3>1. s # None /\ s.watched
      BY <2>1, <2>2 DEF MapWatched
    <3>2. s.conn \in Conn /\ Has(p, f, s.conn)
      BY <2>1, <2>2, <3>1 DEF TypeOK, Socket, Has
    <3>3. Paired(s.conn)
      BY <1>1, <2>2, <3>2 DEF IInv, ConnOK, Quiet, Noticed
    <3> QED
      BY <2>2, <3>1, <3>2, <3>3 DEF Paired, Has
  <2>3. OneConnection
    BY <2>2 DEF OneConnection
  <2> QED
    BY <2>1, <2>3 DEF PartnersAgree
<1> QED
  BY <1>1, Invariant, PTL

\* A client that ksn_tun_accept_cb left without a watcher is answered: CMD_TUN is
\* on its way to the server, or the answer back, or it was shut down by a refusal.
THEOREM ClientsAnswered == Spec => []WaitingAnswered
<1>1. ASSUME IInv PROVE WaitingAnswered
  <2>1. TypeOK
    BY <1>1 DEF IInv, Base
  <2>2. ASSUME Quiet, NEW p \in Peer, NEW f \in Fd, socket[p][f] # None, ~socket[p][f].watched,
               NEW c, c = socket[p][f].conn
        PROVE  \/ InFlight(Other(p), c, {"CREATE"})
               \/ InFlight(p, c, {"CREATED", "NOT_CREATED"})
               \/ c \in refused /\ socket[p][f].shut
    <3>1. c \in Conn /\ Has(p, f, c)
      BY <2>1, <2>2 DEF TypeOK, Socket, Has
    <3>2. Waits(c)
      BY <1>1, <2>2, <3>1 DEF IInv, ConnOK, Quiet, Noticed
    <3> QED
      BY <2>2, <3>1, <3>2 DEF Waits
  <2> QED
    BY <2>2 DEF WaitingAnswered
<1> QED
  BY <1>1, Invariant, PTL

\* cmd_tun_write_cb writes what the other end of its own connection sent:
\* What is written to a socket is of its own connection, in order, and without losses of
\* the peers nothing before it is missing that write did not cut.
THEOREM OwnDataOnly == Spec => []OwnData
<1>1. ASSUME IInv PROVE OwnData
  <2>1. ASSUME NEW p \in Peer, NEW c \in Conn, ~mixed
        PROVE  /\ InOrderAt(p, c)
               /\ losses = 0 => \A i \in DOMAIN got[p][c] : \A n \in 1..got[p][c][i] :
                                    Arrived(p, c, n)
    BY <1>1, <2>1 DEF IInv, ConnOK, InOrder, NoGap
  <2> QED
    BY <2>1 DEF OwnData, InOrderAt
<1> QED
  BY <1>1, Invariant, PTL

\* cmd_tun_disconnected_cb shuts a socket down only when all that was written at
\* the other end has been written there, whole or cut.
THEOREM ShutHasArrived == Spec => []EndedComplete
<1>1. ASSUME IInv PROVE EndedComplete
  <2>1. TypeOK
    BY <1>1 DEF IInv, Base
  <2>2. ASSUME Quiet, NEW p \in Peer, NEW f \in Fd, NEW s, s = socket[p][f],
               s # None, s.shut, ~s.closed
        PROVE  \A n \in 1..wrote[Other(p)][s.conn] : Arrived(p, s.conn, n)
    <3>1. s.conn \in Conn /\ Has(p, f, s.conn)
      BY <2>1, <2>2 DEF TypeOK, Socket, Has
    <3>2. Complete(s.conn)
      BY <1>1, <2>2, <3>1 DEF IInv, ConnOK, Quiet
    <3> QED
      BY <2>2, <3>1, <3>2 DEF Complete
  <2> QED
    BY <2>2 DEF EndedComplete
<1> QED
  BY <1>1, Invariant, PTL
=============================================================================
