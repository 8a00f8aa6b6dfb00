--------------------------- MODULE L0ServerProofs ---------------------------
(***************************************************************************)
(* Proofs about the L0 server for every number of clients, names and       *)
(* channels: the two maps are inverse to each other, the counter and the   *)
(* descriptors agree with them, and so does what subscribers were told.    *)
(***************************************************************************)
EXTENDS L0Server, FiniteSetTheorems, TLAPS

\* What the handlers change together, with its type.
Handled ==
    [client  : [Fd -> Client \cup {None}],
     byName  : [Name -> Fd \cup {0}],
     clients : Nat,
     open    : SUBSET TcpFd,
     told    : SUBSET Name,
     checks  : SUBSET Name,
     kicked  : SUBSET Name,
     dead    : SUBSET Fd]

ConnectedIn(h) == {fd \in Fd : h.client[fd] # None}

LoggedInAs(h, fd, n) == h.client[fd] # None /\ h.client[fd].name = n

OnlineIn(h) == {n \in Name : \E fd \in Fd : LoggedInAs(h, fd, n)}

NamesMatch(h) ==
    /\ \A n \in Name : h.byName[n] # 0 => LoggedInAs(h, h.byName[n], n)
    /\ \A fd \in Fd, n \in Name : LoggedInAs(h, fd, n) => h.byName[n] = fd

\* What every function of the module keeps.
Consistent(h) ==
    /\ h \in Handled
    /\ h.dead \subseteq ConnectedIn(h)
    /\ NamesMatch(h)
    /\ h.clients = Cardinality(ConnectedIn(h))

\* The descriptors of clients are open, and those of the clients kicked.
Opened(h, lk) ==
    /\ h.open = (ConnectedIn(h) \cap TcpFd) \cup lk
    /\ lk \cap ConnectedIn(h) = {}

\* The application knows who is online; kicked are those of whose end it has not
\* heard, and none of them is online.
Informed(h) ==
    IF Listening
    THEN h.told = OnlineIn(h) \cup h.kicked /\ h.kicked \cap OnlineIn(h) = {}
    ELSE h.kicked = {}

\* The inductive invariant.  Opened and Informed are stronger than OnlyKickedLeak
\* and SubscribersAgree: a leaked descriptor is not given out again, and a name
\* that is online was not kicked.
IInv ==
    /\ Consistent(Start)
    /\ Opened(Start, leaked)
    /\ Informed(Start)
    /\ leaked \subseteq TcpFd
    /\ fd_trudp \in MAX_FD_NUMBER .. MAX_FD_NUMBER + MaxChannel
    /\ channel \in [Addr -> FakeFd \cup {0}]
    /\ {subscribed, app, wild, running} \subseteq BOOLEAN
    /\ deaths \in 0..MaxDead

-----------------------------------------------------------------------------

\* Descriptors are positive, finitely many, and those of channels are no sockets.
LEMMA FdFacts ==
    /\ 0 \notin Fd
    /\ Fd \subseteq Nat
    /\ IsFiniteSet(Fd)
    /\ TcpFd \cap FakeFd = {}
<1>1. /\ MAX_FD_NUMBER \in Nat \ {0} /\ MaxChannel \in Nat
      /\ TcpFd \subseteq 1 .. MAX_FD_NUMBER - 1
  BY L0Assumption
<1>2. IsFiniteSet(TcpFd)
  <2>1. IsFiniteSet(1 .. MAX_FD_NUMBER - 1)
    BY <1>1, FS_Interval
  <2> QED
    BY <1>1, <2>1, FS_Subset
<1>3. IsFiniteSet(FakeFd)
  BY <1>1, FS_Interval DEF FakeFd
<1>4. IsFiniteSet(Fd)
  BY <1>2, <1>3, FS_Union DEF Fd
<1> QED
  BY <1>1, <1>4 DEF Fd, FakeFd

\* A set of connected descriptors is finite, and adding or removing one counts.
LEMMA ConnectedCount ==
    ASSUME NEW S \in SUBSET Fd, NEW fd \in Fd
    PROVE  /\ Cardinality(S) \in Nat
           /\ fd \notin S => Cardinality(S \cup {fd}) = Cardinality(S) + 1
           /\ fd \in S => /\ Cardinality(S \ {fd}) = Cardinality(S) - 1
                          /\ Cardinality(S) - 1 \in Nat
<1>1. IsFiniteSet(S)
  BY FdFacts, FS_Subset
<1>2. IsFiniteSet(S \ {fd})
  BY FdFacts, FS_Subset
<1> QED
  BY <1>1, <1>2, FS_CardinalityType, FS_AddElement, FS_RemoveElement

\* ksnLNullClientRegister.
LEMMA RegisterConsistent ==
    ASSUME NEW h, Consistent(h), NEW fd \in Fd, h.client[fd] = None
    PROVE  LET r == ClientRegister(h, fd)
           IN  /\ Consistent(r)
               /\ r.client[fd] # None /\ r.client[fd].name = None
               /\ ConnectedIn(r) = ConnectedIn(h) \cup {fd}
               /\ OnlineIn(r) = OnlineIn(h)
               /\ r.byName = h.byName /\ r.open = h.open
               /\ r.told = h.told /\ r.kicked = h.kicked
<1> DEFINE new == [name |-> None, age |-> 0, confirmed |-> FALSE]
           r == ClientRegister(h, fd)
<1>1. new \in Client /\ new # None
  <2>1. 0 \in 0..DisconnectAge
    BY L0Assumption
  <2>2. new \in Client
    BY <2>1 DEF Client
  <2> QED
    BY <2>2, L0Assumption
<1>2. h \in Handled
  BY DEF Consistent
<1>3. /\ r \in Handled
      /\ r.client = [h.client EXCEPT ![fd] = new]
      /\ r.clients = h.clients + 1
      /\ r.byName = h.byName /\ r.open = h.open /\ r.told = h.told
      /\ r.kicked = h.kicked /\ r.dead = h.dead
  <2>1. r = [h EXCEPT !.client = [h.client EXCEPT ![fd] = new], !.clients = h.clients + 1]
    BY DEF ClientRegister
  <2> HIDE DEF r, new
  <2>2. [h.client EXCEPT ![fd] = new] \in [Fd -> Client \cup {None}]
    BY <1>1, <1>2 DEF Handled
  <2>3. h.clients + 1 \in Nat
    BY <1>2 DEF Handled
  <2> QED
    BY <1>2, <2>1, <2>2, <2>3 DEF Handled
<1>4. /\ r.client[fd] = new
      /\ \A g \in Fd : g # fd => r.client[g] = h.client[g]
  BY <1>2, <1>3 DEF Handled
<1> HIDE DEF r
<1>5. new.name = None
  OBVIOUS
<1> HIDE DEF new
<1>6. \A g \in Fd, n \in Name : LoggedInAs(r, g, n) <=> LoggedInAs(h, g, n)
  <2> TAKE g \in Fd, n \in Name
  <2>1. CASE g = fd
    <3>1. None # n
      BY L0Assumption
    <3> QED
      BY <2>1, <3>1, <1>4, <1>5 DEF LoggedInAs
  <2>2. CASE g # fd
    BY <2>2, <1>4 DEF LoggedInAs
  <2> QED
    BY <2>1, <2>2
<1>7. ConnectedIn(r) = ConnectedIn(h) \cup {fd}
  BY <1>1, <1>4 DEF ConnectedIn
<1>8. r.clients = Cardinality(ConnectedIn(r))
  <2>1. ConnectedIn(h) \in SUBSET Fd /\ fd \notin ConnectedIn(h)
    BY DEF ConnectedIn
  <2> QED
    BY <2>1, <1>3, <1>7, ConnectedCount DEF Consistent
<1>9. NamesMatch(r)
  BY <1>2, <1>3, <1>6 DEF NamesMatch, Consistent, Handled
<1>10. OnlineIn(r) = OnlineIn(h)
  BY <1>6 DEF OnlineIn
<1>11. Consistent(r)
  BY <1>3, <1>7, <1>8, <1>9 DEF Consistent
<1>12. r.client[fd] # None /\ r.client[fd].name = None
  BY <1>1, <1>4, <1>5
<1> QED
  BY <1>3, <1>7, <1>10, <1>11, <1>12 DEF r

\* ksnLNullClientDisconnect, with either remove_f.
LEMMA DisconnectConsistent ==
    ASSUME NEW h, Consistent(h), NEW fd \in Fd, NEW kick \in BOOLEAN
    PROVE  LET d == ClientDisconnect(h, fd, kick)
           IN  /\ Consistent(d)
               /\ d.client = [h.client EXCEPT ![fd] = None]
               /\ ConnectedIn(d) = ConnectedIn(h) \ {fd}
               /\ \A n \in Name : d.byName[n] = IF h.byName[n] = fd THEN 0 ELSE h.byName[n]
               /\ d.open = IF h.client[fd] = None \/ kick THEN h.open ELSE h.open \ {fd}
               /\ Informed(h) => Informed(d)
<1> DEFINE d == ClientDisconnect(h, fd, kick)
           n == h.client[fd].name
<1>1. h \in Handled /\ NamesMatch(h)
  BY DEF Consistent
<1>2. CASE h.client[fd] = None
  <2>1. d = h
    BY <1>2 DEF ClientDisconnect
  <2>2. h.client = [h.client EXCEPT ![fd] = None]
    BY <1>1, <1>2 DEF Handled
  <2>3. fd \notin ConnectedIn(h)
    BY <1>2 DEF ConnectedIn
  <2>4. \A m \in Name : h.byName[m] # fd
    BY <1>1, <1>2, FdFacts DEF NamesMatch, LoggedInAs
  <2> QED
    BY <1>2, <2>1, <2>2, <2>3, <2>4
<1>3. CASE h.client[fd] # None
  <2> DEFINE names == IF n = None THEN h.byName ELSE [h.byName EXCEPT ![n] = 0]
             opened == IF kick THEN h.open ELSE h.open \ {fd}
             heard == IF kick THEN h.told ELSE h.told \ {n}
             lost == IF kick /\ Listening THEN h.kicked \cup ({n} \ {None}) ELSE h.kicked
  <2>1. h.client[fd] \in Client /\ n \in Name \cup {None}
    BY <1>1, <1>3 DEF Handled, Client
  <2>2. d = [h EXCEPT !.open = opened, !.clients = h.clients - 1, !.told = heard,
                      !.kicked = lost, !.byName = names,
                      !.client = [h.client EXCEPT ![fd] = None], !.dead = h.dead \ {fd}]
    BY <1>3 DEF ClientDisconnect
  <2>3. ConnectedIn(h) \in SUBSET Fd /\ fd \in ConnectedIn(h)
    BY <1>3 DEF ConnectedIn
  <2>4. h.clients - 1 \in Nat
    BY <2>3, ConnectedCount DEF Consistent
  <2>5. /\ names \in [Name -> Fd \cup {0}]
        /\ opened \in SUBSET TcpFd
        /\ heard \in SUBSET Name
        /\ lost \in SUBSET Name
        /\ [h.client EXCEPT ![fd] = None] \in [Fd -> Client \cup {None}]
        /\ h.dead \ {fd} \in SUBSET Fd
    BY <1>1, <2>1 DEF Handled
  <2>6. \A m \in Name : names[m] = IF m = n THEN 0 ELSE h.byName[m]
    BY <1>1, <2>1, L0Assumption DEF Handled
  <2> HIDE DEF d, names, opened, heard, lost
  <2>7. /\ d \in Handled
        /\ d.client = [h.client EXCEPT ![fd] = None]
        /\ d.byName = names /\ d.open = opened /\ d.clients = h.clients - 1
        /\ d.told = heard /\ d.kicked = lost /\ d.dead = h.dead \ {fd}
    BY <1>1, <2>2, <2>4, <2>5 DEF Handled
  <2>8. d.client[fd] = None /\ \A g \in Fd : g # fd => d.client[g] = h.client[g]
    BY <1>1, <2>7 DEF Handled
  <2>9. ConnectedIn(d) = ConnectedIn(h) \ {fd}
    BY <2>8 DEF ConnectedIn
  <2>10. \A g \in Fd, m \in Name : LoggedInAs(d, g, m) <=> g # fd /\ LoggedInAs(h, g, m)
    BY <2>8 DEF LoggedInAs
  <2>11. \A m \in Name : m = n <=> h.byName[m] = fd
    BY <1>1, <1>3, <2>1, FdFacts DEF NamesMatch, LoggedInAs
  <2>12. NamesMatch(d)
    <3>1. ASSUME NEW m \in Name, d.byName[m] # 0
          PROVE  LoggedInAs(d, d.byName[m], m)
      <4>1. d.byName[m] = h.byName[m] /\ h.byName[m] # fd
        BY <2>6, <2>7, <2>11, <3>1
      <4>2. LoggedInAs(h, h.byName[m], m) /\ h.byName[m] \in Fd
        BY <1>1, <3>1, <4>1 DEF NamesMatch, Handled
      <4> QED
        BY <2>10, <4>1, <4>2
    <3>2. ASSUME NEW g \in Fd, NEW m \in Name, LoggedInAs(d, g, m)
          PROVE  d.byName[m] = g
      <4>1. g # fd /\ LoggedInAs(h, g, m)
        BY <2>10, <3>2
      <4>2. h.byName[m] = g
        BY <1>1, <4>1 DEF NamesMatch
      <4> QED
        BY <2>6, <2>7, <2>11, <4>1, <4>2
    <3> QED
      BY <3>1, <3>2 DEF NamesMatch
  <2>13. d.clients = Cardinality(ConnectedIn(d))
    BY <2>3, <2>7, <2>9, ConnectedCount DEF Consistent
  <2>14. Consistent(d)
    BY <2>7, <2>9, <2>12, <2>13 DEF Consistent
  <2>15. OnlineIn(d) = OnlineIn(h) \ {n}
    <3>1. ASSUME NEW m \in Name
          PROVE  m \in OnlineIn(d) <=> m \in OnlineIn(h) /\ m # n
      <4>1. ASSUME NEW g \in Fd, LoggedInAs(h, g, m)
            PROVE  g # fd <=> m # n
        BY <1>1, <2>11, <4>1 DEF NamesMatch
      <4> QED
        BY <2>10, <4>1 DEF OnlineIn
    <3> QED
      BY <3>1 DEF OnlineIn
  <2>16. ASSUME Informed(h) PROVE Informed(d)
    <3>1. CASE Listening
      <4>1. h.told = OnlineIn(h) \cup h.kicked /\ h.kicked \cap OnlineIn(h) = {}
        BY <2>16, <3>1 DEF Informed
      <4>2. n # None => n \in OnlineIn(h)
        BY <1>3, <2>1 DEF OnlineIn, LoggedInAs
      <4>3. None \notin h.told /\ None \notin h.kicked
        BY <1>1, L0Assumption DEF Handled
      <4>4. d.told = OnlineIn(d) \cup d.kicked /\ d.kicked \cap OnlineIn(d) = {}
        <5>1. CASE kick
          BY <3>1, <4>1, <4>2, <4>3, <5>1, <2>7, <2>15 DEF heard, lost
        <5>2. CASE ~kick
          BY <3>1, <4>1, <4>2, <4>3, <5>2, <2>7, <2>15 DEF heard, lost
        <5> QED
          BY <5>1, <5>2
      <4> QED
        BY <3>1, <4>4 DEF Informed
    <3>2. CASE ~Listening
      BY <2>16, <3>2, <2>7 DEF Informed, lost
    <3> QED
      BY <3>1, <3>2
  <2>17. \A m \in Name : d.byName[m] = IF h.byName[m] = fd THEN 0 ELSE h.byName[m]
    BY <2>6, <2>7, <2>11
  <2>18. d.open = IF kick THEN h.open ELSE h.open \ {fd}
    BY <2>7 DEF opened
  <2> QED
    BY <1>3, <2>7, <2>9, <2>14, <2>16, <2>17, <2>18 DEF d
<1> QED
  BY <1>2, <1>3

\* ksnLNullClientDisconnect with remove_f 1.
LEMMA DisconnectClosed ==
    ASSUME NEW h, Consistent(h), NEW fd \in Fd
    PROVE  LET d == ClientDisconnect(h, fd, FALSE)
           IN  /\ Consistent(d)
               /\ d.client = [h.client EXCEPT ![fd] = None]
               /\ ConnectedIn(d) = ConnectedIn(h) \ {fd}
               /\ \A n \in Name : d.byName[n] = IF h.byName[n] = fd THEN 0 ELSE h.byName[n]
               /\ d.open = IF h.client[fd] = None THEN h.open ELSE h.open \ {fd}
               /\ Informed(h) => Informed(d)
<1>1. ASSUME NEW kick \in BOOLEAN, ~kick
      PROVE  LET d == ClientDisconnect(h, fd, kick)
             IN  /\ Consistent(d)
                 /\ d.client = [h.client EXCEPT ![fd] = None]
                 /\ ConnectedIn(d) = ConnectedIn(h) \ {fd}
                 /\ \A n \in Name : d.byName[n] = IF h.byName[n] = fd THEN 0 ELSE h.byName[n]
                 /\ d.open = IF h.client[fd] = None THEN h.open ELSE h.open \ {fd}
                 /\ Informed(h) => Informed(d)
  BY <1>1, DisconnectConsistent
<1> QED
  BY <1>1

\* ksnLNullClientDisconnect with remove_f 2, of a client that is connected.
LEMMA DisconnectKicked ==
    ASSUME NEW h, Consistent(h), Informed(h), NEW fd \in Fd
    PROVE  LET d == ClientDisconnect(h, fd, TRUE)
           IN  /\ Consistent(d)
               /\ ConnectedIn(d) = ConnectedIn(h) \ {fd}
               /\ d.open = h.open
               /\ Informed(d)
<1>1. ASSUME NEW kick \in BOOLEAN, kick
      PROVE  LET d == ClientDisconnect(h, fd, kick)
             IN  /\ Consistent(d)
                 /\ ConnectedIn(d) = ConnectedIn(h) \ {fd}
                 /\ d.open = h.open
                 /\ Informed(d)
  BY <1>1, DisconnectConsistent
<1> QED
  BY <1>1

\* The socket of the client, and no other, is closed.
LEMMA DisconnectOpened ==
    ASSUME NEW h, Consistent(h), NEW fd \in Fd, NEW lk, lk \subseteq TcpFd, Opened(h, lk)
    PROVE  Opened(ClientDisconnect(h, fd, FALSE), lk)
<1> DEFINE d == ClientDisconnect(h, fd, FALSE)
<1>1. /\ ConnectedIn(d) = ConnectedIn(h) \ {fd}
      /\ d.open = IF h.client[fd] = None THEN h.open ELSE h.open \ {fd}
  BY DisconnectClosed
<1> HIDE DEF d
<1>2. fd \in ConnectedIn(h) <=> h.client[fd] # None
  BY DEF ConnectedIn
<1>3. Opened(d, lk)
  BY <1>1, <1>2 DEF Opened
<1> QED
  BY <1>3 DEF d

\* Nothing that the invariant looks at changes when only ages and confirmations do.
LEMMA SameNames ==
    ASSUME NEW h, Consistent(h), NEW e \in Handled,
           \A g \in Fd : /\ e.client[g] = None <=> h.client[g] = None
                         /\ h.client[g] # None => e.client[g].name = h.client[g].name,
           e.byName = h.byName, e.clients = h.clients, e.dead \subseteq ConnectedIn(h)
    PROVE  /\ Consistent(e)
           /\ ConnectedIn(e) = ConnectedIn(h)
           /\ OnlineIn(e) = OnlineIn(h)
<1>1. \A g \in Fd, m \in Name : LoggedInAs(e, g, m) <=> LoggedInAs(h, g, m)
  BY DEF LoggedInAs
<1>2. ConnectedIn(e) = ConnectedIn(h)
  BY DEF ConnectedIn
<1>3. OnlineIn(e) = OnlineIn(h)
  BY <1>1 DEF OnlineIn
<1>4. NamesMatch(e)
  BY <1>1 DEF NamesMatch, Consistent, Handled
<1> QED
  BY <1>2, <1>3, <1>4 DEF Consistent

\* A field of a client's record other than its name.
LEMMA ClientField ==
    ASSUME NEW h, Consistent(h), NEW fd \in Fd, h.client[fd] # None,
           NEW c \in Client, c.name = h.client[fd].name
    PROVE  LET e == [h EXCEPT !.client = [h.client EXCEPT ![fd] = c]]
           IN  /\ Consistent(e)
               /\ ConnectedIn(e) = ConnectedIn(h)
               /\ OnlineIn(e) = OnlineIn(h)
               /\ e.client[fd] = c
               /\ e.byName = h.byName /\ e.open = h.open
               /\ e.told = h.told /\ e.checks = h.checks /\ e.kicked = h.kicked
<1> DEFINE e == [h EXCEPT !.client = [h.client EXCEPT ![fd] = c]]
<1>1. h \in Handled /\ h.dead \subseteq ConnectedIn(h)
  BY DEF Consistent
<1>2. [h.client EXCEPT ![fd] = c] \in [Fd -> Client \cup {None}]
  BY <1>1 DEF Handled
<1>3. /\ e \in Handled
      /\ e.client = [h.client EXCEPT ![fd] = c]
      /\ e.byName = h.byName /\ e.open = h.open /\ e.clients = h.clients
      /\ e.told = h.told /\ e.checks = h.checks /\ e.kicked = h.kicked
      /\ e.dead = h.dead
  BY <1>1, <1>2 DEF Handled
<1> HIDE DEF e
<1>4. e.client[fd] = c /\ \A g \in Fd : g # fd => e.client[g] = h.client[g]
  BY <1>1, <1>3 DEF Handled
<1>5. c # None
  BY L0Assumption
<1>6. \A g \in Fd : /\ e.client[g] = None <=> h.client[g] = None
                    /\ h.client[g] # None => e.client[g].name = h.client[g].name
  BY <1>4, <1>5
<1>7. /\ Consistent(e)
      /\ ConnectedIn(e) = ConnectedIn(h)
      /\ OnlineIn(e) = OnlineIn(h)
  BY <1>1, <1>3, <1>6, SameNames
<1> QED
  BY <1>3, <1>4, <1>7 DEF e

\* confirmAuth.
LEMMA ConfirmConsistent ==
    ASSUME NEW h, Consistent(h), NEW fd \in Fd, h.client[fd] # None
    PROVE  LET e == ConfirmAuth(h, fd)
           IN  /\ Consistent(e)
               /\ ConnectedIn(e) = ConnectedIn(h)
               /\ OnlineIn(e) = OnlineIn(h)
               /\ e.byName = h.byName /\ e.open = h.open
               /\ e.told = h.told /\ e.kicked = h.kicked
<1> DEFINE c == [h.client[fd] EXCEPT !.confirmed = TRUE]
<1>1. h.client[fd] \in Client
  BY DEF Consistent, Handled
<1>2. c \in Client /\ c.name = h.client[fd].name
  BY <1>1 DEF Client
<1>3. ConfirmAuth(h, fd) = [h EXCEPT !.client = [h.client EXCEPT ![fd] = c]]
  BY DEF ConfirmAuth
<1> HIDE DEF c
<1> QED
  BY <1>2, <1>3, ClientField

\* A packet from the client.
LEMMA RefreshConsistent ==
    ASSUME NEW h, Consistent(h), NEW fd \in Fd, h.client[fd] # None
    PROVE  LET e == Refresh(h, fd)
           IN  /\ Consistent(e)
               /\ ConnectedIn(e) = ConnectedIn(h)
               /\ OnlineIn(e) = OnlineIn(h)
               /\ e.client[fd] # None /\ e.client[fd].name = h.client[fd].name
               /\ e.byName = h.byName /\ e.open = h.open
               /\ e.told = h.told /\ e.kicked = h.kicked
<1> DEFINE c == [h.client[fd] EXCEPT !.age = 0]
<1>1. h.client[fd] \in Client
  BY DEF Consistent, Handled
<1>2. 0 \in 0..DisconnectAge
  BY L0Assumption
<1>3. c \in Client /\ c.name = h.client[fd].name
  BY <1>1, <1>2 DEF Client
<1>4. Refresh(h, fd) = [h EXCEPT !.client = [h.client EXCEPT ![fd] = c]]
  BY DEF Refresh
<1> HIDE DEF c
<1>5. c # None
  BY <1>3, L0Assumption
<1> QED
  BY <1>3, <1>4, <1>5, ClientField

\* ksnLNulltrudpCheckPaket.
LEMMA RegisteredConsistent ==
    ASSUME NEW h, Consistent(h), NEW fd \in Fd
    PROVE  LET r == Registered(h, fd)
           IN  /\ Consistent(r)
               /\ r.client[fd] # None
               /\ r.client[fd].name = IF h.client[fd] = None THEN None ELSE h.client[fd].name
               /\ ConnectedIn(r) = ConnectedIn(h) \cup {fd}
               /\ OnlineIn(r) = OnlineIn(h)
               /\ r.open = h.open
               /\ r.told = h.told /\ r.kicked = h.kicked
<1>1. CASE h.client[fd] = None
  BY <1>1, RegisterConsistent DEF Registered
<1>2. CASE h.client[fd] # None
  BY <1>2 DEF Registered, ConnectedIn
<1> QED
  BY <1>1, <1>2

\* updateClientName, of a client that had no name or this one: afterwards n is
\* online, and told and kicked are those that ksnLNullClientAuthCheck completes.
LEMMA UpdateConsistent ==
    ASSUME NEW h, Consistent(h), NEW fd \in Fd, NEW n \in Name,
           h.client[fd] # None, h.client[fd].name \in {None, n}
    PROVE  LET u == UpdateClientName(h, fd, n)
           IN  /\ Consistent(u)
               /\ u.client[fd] # None /\ u.client[fd].name = n
               /\ \A lk : lk \subseteq TcpFd /\ Opened(h, lk) => Opened(u, lk)
               /\ Informed(h) =>
                    IF Listening
                    THEN /\ u.told \cup {n} = OnlineIn(u) \cup (u.kicked \ {n})
                         /\ (u.kicked \ {n}) \cap OnlineIn(u) = {}
                    ELSE u.kicked = {}
<1> DEFINE ex == h.byName[n]
           a == IF ex \notin {0, fd} THEN ClientDisconnect(h, ex, FALSE) ELSE h
           c == [a.client[fd] EXCEPT !.name = n]
           u == UpdateClientName(h, fd, n)
<1>1. h \in Handled /\ NamesMatch(h) /\ ex \in Fd \cup {0}
  BY DEF Consistent, Handled
<1>2. /\ Consistent(a)
      /\ a.client[fd] = h.client[fd]
      /\ a.byName[n] \in {0, fd}
      /\ \A lk : lk \subseteq TcpFd /\ Opened(h, lk) => Opened(a, lk)
      /\ Informed(h) => Informed(a)
  <2>1. CASE ex \in {0, fd}
    BY <2>1
  <2>2. CASE ex \notin {0, fd}
    <3>1. ex \in Fd /\ ex # fd
      BY <1>1, <2>2
    <3>2. a = ClientDisconnect(h, ex, FALSE)
      BY <2>2
    <3>3. ex = h.byName[n]
      OBVIOUS
    <3> HIDE DEF a, ex
    <3>4. /\ Consistent(a)
          /\ a.client = [h.client EXCEPT ![ex] = None]
          /\ ConnectedIn(a) = ConnectedIn(h) \ {ex}
          /\ \A m \in Name : a.byName[m] = IF h.byName[m] = ex THEN 0 ELSE h.byName[m]
          /\ a.open = IF h.client[ex] = None THEN h.open ELSE h.open \ {ex}
          /\ Informed(h) => Informed(a)
      <4>1. LET d == ClientDisconnect(h, ex, FALSE)
            IN  /\ Consistent(d)
                /\ d.client = [h.client EXCEPT ![ex] = None]
                /\ ConnectedIn(d) = ConnectedIn(h) \ {ex}
                /\ \A m \in Name : d.byName[m] = IF h.byName[m] = ex THEN 0 ELSE h.byName[m]
                /\ d.open = IF h.client[ex] = None THEN h.open ELSE h.open \ {ex}
                /\ Informed(h) => Informed(d)
        BY ONLY <3>1, DisconnectClosed, Consistent(h)
      <4> QED
        BY <3>2, <4>1
    <3>5. a.byName[n] = 0
      BY <3>3, <3>4
    <3>6. h.client[ex] # None
      BY <1>1, <3>1, <3>3, FdFacts DEF NamesMatch, LoggedInAs
    <3>7. ex \in ConnectedIn(h)
      BY <3>1, <3>6 DEF ConnectedIn
    <3>8. ASSUME NEW lk, lk \subseteq TcpFd, Opened(h, lk) PROVE Opened(a, lk)
      BY <3>4, <3>6, <3>7, <3>8 DEF Opened
    <3> QED
      BY <1>1, <3>1, <3>4, <3>5, <3>8 DEF Handled
  <2> QED
    BY <2>1, <2>2
<1>3. u = [a EXCEPT !.client = [a.client EXCEPT ![fd] = c],
                    !.byName = [a.byName EXCEPT ![n] = fd]]
  BY DEF UpdateClientName, ClientIsConnected
<1> HIDE DEF a, ex, u
<1>4. a \in Handled /\ a.client[fd] \in Client /\ a.client[fd] # None
  BY <1>2 DEF Consistent, Handled
<1>5. c \in Client /\ c.name = n /\ c # None
  <2>1. c \in Client /\ c.name = n
    BY <1>4 DEF Client
  <2> QED
    BY <2>1, L0Assumption
<1> HIDE DEF c
<1>6. /\ [a.client EXCEPT ![fd] = c] \in [Fd -> Client \cup {None}]
      /\ [a.byName EXCEPT ![n] = fd] \in [Name -> Fd \cup {0}]
  BY <1>4, <1>5 DEF Handled
<1>7. /\ u \in Handled
      /\ u.client = [a.client EXCEPT ![fd] = c]
      /\ u.byName = [a.byName EXCEPT ![n] = fd]
      /\ u.clients = a.clients /\ u.open = a.open /\ u.told = a.told
      /\ u.kicked = a.kicked /\ u.dead = a.dead
  BY <1>3, <1>4, <1>6 DEF Handled
<1>8. u.client[fd] = c /\ \A g \in Fd : g # fd => u.client[g] = a.client[g]
  BY <1>4, <1>7 DEF Handled
<1>9. u.byName[n] = fd /\ \A m \in Name : m # n => u.byName[m] = a.byName[m]
  BY <1>4, <1>7 DEF Handled
<1>10. ConnectedIn(u) = ConnectedIn(a)
  BY <1>4, <1>5, <1>8 DEF ConnectedIn
<1>11. a.client[fd].name \in {None, n}
  BY <1>2
<1>12. \A g \in Fd : LoggedInAs(a, g, n) => g = fd
  BY <1>2, FdFacts DEF Consistent, NamesMatch
<1>13. \A g \in Fd, m \in Name :
          LoggedInAs(u, g, m) <=> IF m = n THEN g = fd ELSE LoggedInAs(a, g, m)
  <2> TAKE g \in Fd, m \in Name
  <2>1. CASE g = fd
    <3>1. m # None
      BY L0Assumption
    <3> QED
      BY <2>1, <3>1, <1>5, <1>8, <1>11 DEF LoggedInAs
  <2>2. CASE g # fd
    BY <2>2, <1>8, <1>12 DEF LoggedInAs
  <2> QED
    BY <2>1, <2>2
<1>14. NamesMatch(u)
  BY <1>2, <1>9, <1>13, FdFacts DEF NamesMatch, Consistent, Handled
<1>15. Consistent(u)
  BY <1>2, <1>7, <1>10, <1>14 DEF Consistent
<1>16. OnlineIn(u) = OnlineIn(a) \cup {n}
  BY <1>13 DEF OnlineIn
<1>17. \A lk : Opened(a, lk) => Opened(u, lk)
  BY <1>7, <1>10 DEF Opened
<1>18. ASSUME Informed(h)
       PROVE  IF Listening
              THEN /\ u.told \cup {n} = OnlineIn(u) \cup (u.kicked \ {n})
                   /\ (u.kicked \ {n}) \cap OnlineIn(u) = {}
              ELSE u.kicked = {}
  <2>1. Informed(a)
    BY <1>2, <1>18
  <2>2. CASE Listening
    BY <2>1, <2>2, <1>7, <1>16 DEF Informed
  <2>3. CASE ~Listening
    BY <2>1, <2>3, <1>7 DEF Informed
  <2> QED
    BY <2>2, <2>3
<1> QED
  BY <1>2, <1>5, <1>8, <1>15, <1>17, <1>18 DEF u

\* ksnLNullClientAuthCheck.
LEMMA AuthCheckConsistent ==
    ASSUME NEW h, Consistent(h), NEW fd \in Fd, NEW n \in Name,
           h.client[fd] # None, h.client[fd].name \in {None, n}
    PROVE  LET r == ClientAuthCheck(h, fd, n)
           IN  /\ Consistent(r)
               /\ \A lk : lk \subseteq TcpFd /\ Opened(h, lk) => Opened(r, lk)
               /\ Informed(h) => Informed(r)
<1> DEFINE u == UpdateClientName(h, fd, n)
           b == h.client[fd].confirmed /\ h.client[fd].name = n
           c == [u.client[fd] EXCEPT !.confirmed = b]
           w == [u EXCEPT !.client = [u.client EXCEPT ![fd] = c]]
           r == ClientAuthCheck(h, fd, n)
<1>1. /\ Consistent(u)
      /\ u.client[fd] # None /\ u.client[fd].name = n
      /\ \A lk : lk \subseteq TcpFd /\ Opened(h, lk) => Opened(u, lk)
      /\ Informed(h) =>
            IF Listening
            THEN /\ u.told \cup {n} = OnlineIn(u) \cup (u.kicked \ {n})
                 /\ (u.kicked \ {n}) \cap OnlineIn(u) = {}
            ELSE u.kicked = {}
  BY UpdateConsistent
<1>2. r = IF ~subscribed THEN ConfirmAuth(u, fd)
          ELSE IF ~app THEN w
          ELSE [w EXCEPT !.told = @ \cup {n}, !.checks = @ \cup {n}, !.kicked = @ \ {n}]
  BY DEF ClientAuthCheck
<1>3. b \in BOOLEAN
  BY DEF b
<1> HIDE DEF u, r, b
<1>4. c \in Client /\ c.name = u.client[fd].name
  <2>1. u.client[fd] \in Client
    BY <1>1 DEF Consistent, Handled
  <2> QED
    BY <1>3, <2>1 DEF Client
<1> HIDE DEF c
<1>5. /\ Consistent(w)
      /\ ConnectedIn(w) = ConnectedIn(u) /\ OnlineIn(w) = OnlineIn(u)
      /\ w.open = u.open /\ w.told = u.told /\ w.kicked = u.kicked
  BY <1>1, <1>4, ClientField
<1> HIDE DEF w
<1>6. CASE ~subscribed
  <2>1. /\ Consistent(r)
        /\ ConnectedIn(r) = ConnectedIn(u)
        /\ r.open = u.open /\ r.kicked = u.kicked
    BY <1>1, <1>2, <1>6, ConfirmConsistent
  <2> QED
    BY <1>1, <1>6, <2>1 DEF Opened, Informed, Listening, r
<1>7. CASE subscribed /\ ~app
  <2>1. r = w
    BY <1>2, <1>7
  <2> QED
    BY <1>1, <1>5, <1>7, <2>1 DEF Opened, Informed, Listening, r
<1>8. CASE Listening
  <2>1. r = [w EXCEPT !.told = w.told \cup {n}, !.checks = w.checks \cup {n},
                      !.kicked = w.kicked \ {n}]
    BY <1>2, <1>8 DEF Listening
  <2>2. w \in Handled /\ w.dead \subseteq ConnectedIn(w)
    BY <1>5 DEF Consistent
  <2>3. /\ r \in Handled
        /\ r.client = w.client /\ r.byName = w.byName /\ r.clients = w.clients
        /\ r.open = w.open /\ r.dead = w.dead
        /\ r.told = w.told \cup {n} /\ r.kicked = w.kicked \ {n}
    BY <2>1, <2>2 DEF Handled
  <2>4. Consistent(r) /\ ConnectedIn(r) = ConnectedIn(w) /\ OnlineIn(r) = OnlineIn(w)
    BY <1>5, <2>2, <2>3, SameNames
  <2>5. Informed(h) => Informed(r)
    BY <1>1, <1>5, <1>8, <2>3, <2>4 DEF Informed
  <2>6. \A lk : Opened(u, lk) => Opened(r, lk)
    BY <1>5, <2>3, <2>4 DEF Opened
  <2> QED
    BY <1>1, <2>4, <2>5, <2>6 DEF r
<1> QED
  BY <1>6, <1>7, <1>8 DEF Listening

\* The ages of all records.
LEMMA AgedConsistent ==
    ASSUME Consistent(Start)
    PROVE  LET e == [Start EXCEPT !.client = Aged]
           IN  /\ Consistent(e)
               /\ ConnectedIn(e) = ConnectedIn(Start)
               /\ OnlineIn(e) = OnlineIn(Start)
               /\ e.open = Start.open /\ e.told = Start.told /\ e.kicked = Start.kicked
<1> DEFINE e == [Start EXCEPT !.client = Aged]
<1>1. Start \in Handled /\ Start.dead \subseteq ConnectedIn(Start)
  BY DEF Consistent
<1>2. Start.client = client
  BY DEF Start
<1>3. client \in [Fd -> Client \cup {None}]
  BY <1>1, <1>2 DEF Handled
<1>4. \A g \in Fd : /\ Aged[g] \in Client \cup {None}
                    /\ Aged[g] = None <=> client[g] = None
                    /\ client[g] # None => Aged[g].name = client[g].name
  <2> TAKE g \in Fd
  <2>1. CASE client[g] = None
    BY <2>1 DEF Aged
  <2>2. CASE client[g] # None
    <3> DEFINE older == IF client[g].age < DisconnectAge
                        THEN client[g].age + 1 ELSE client[g].age
    <3>1. client[g] \in Client
      BY <1>3, <2>2
    <3>2. older \in 0..DisconnectAge
      BY <3>1, L0Assumption DEF Client
    <3>3. Aged[g] = [client[g] EXCEPT !.age = older]
      BY <2>2 DEF Aged
    <3> HIDE DEF older
    <3>4. Aged[g] \in Client /\ Aged[g].name = client[g].name
      BY <3>1, <3>2, <3>3 DEF Client
    <3> QED
      BY <2>2, <3>4, L0Assumption
  <2> QED
    BY <2>1, <2>2
<1>5. Aged \in [Fd -> Client \cup {None}]
  <2>1. \A g \in Fd : Aged[g] \in Client \cup {None}
    BY <1>4
  <2>2. Aged = [g \in Fd |-> Aged[g]]
    BY DEF Aged
  <2> QED
    BY <2>1, <2>2
<1>6. /\ e \in Handled
      /\ e.client = Aged
      /\ e.byName = Start.byName /\ e.clients = Start.clients /\ e.open = Start.open
      /\ e.told = Start.told /\ e.kicked = Start.kicked /\ e.dead = Start.dead
  BY <1>1, <1>5 DEF Handled
<1> HIDE DEF e
<1>7. /\ Consistent(e)
      /\ ConnectedIn(e) = ConnectedIn(Start)
      /\ OnlineIn(e) = OnlineIn(Start)
  BY <1>1, <1>2, <1>4, <1>6, SameNames
<1> QED
  BY <1>6, <1>7 DEF e

-----------------------------------------------------------------------------

\* What Commit(h) makes of the state is h.
LEMMA Committed ==
    ASSUME NEW h, Commit(h), Consistent(h), Informed(h)
    PROVE  /\ Start' = h
           /\ Consistent(Start)'
           /\ Informed(Start)'
<1>1. h \in Handled
  BY DEF Consistent
<1>2. Start' = h
  BY <1>1 DEF Start, Commit, Handled
<1>3. Consistent(Start)'
  BY <1>2
<1>4. Informed(Start)'
  BY <1>2 DEF Informed, Listening, Commit
<1> QED
  BY <1>2, <1>3, <1>4

\* A handler that opens no channel and leaks nothing.
LEMMA HandleKeeps ==
    ASSUME IInv, NEW h, Handle(h), Consistent(h), Opened(h, leaked), Informed(h)
    PROVE  IInv'
<1>1. Start' = h /\ Consistent(Start)' /\ Informed(Start)'
  BY Committed DEF Handle
<1>2. Opened(Start, leaked)'
  BY <1>1 DEF Handle
<1>3. UNCHANGED <<fd_trudp, channel, subscribed, app, leaked, deaths, wild, running>>
  BY DEF Handle, Commit
<1> QED
  BY <1>1, <1>2, <1>3 DEF IInv

\* A handler of a packet that comes through a channel.
LEMMA UdpPacketKeeps ==
    ASSUME IInv, NEW a \in Addr, ChannelFd(a) \in FakeFd, NEW h, UdpPacket(a, h),
           Consistent(h), Opened(h, leaked), Informed(h)
    PROVE  IInv'
<1>1. Start' = h /\ Consistent(Start)' /\ Informed(Start)'
  BY Committed DEF UdpPacket
<1>2. Opened(Start, leaked)'
  BY <1>1 DEF UdpPacket
<1>3. UNCHANGED <<subscribed, app, leaked, deaths, wild, running>>
  BY DEF UdpPacket, Commit
<1>4. channel' \in [Addr -> FakeFd \cup {0}]
  BY DEF IInv, UdpPacket
<1>5. fd_trudp' \in MAX_FD_NUMBER .. MAX_FD_NUMBER + MaxChannel
  BY L0Assumption DEF IInv, UdpPacket, ChannelFd, FakeFd
<1> QED
  BY <1>1, <1>2, <1>3, <1>4, <1>5 DEF IInv

-----------------------------------------------------------------------------

\* The invariant in terms of the variables.
LEMMA Current ==
    ASSUME IInv
    PROVE  /\ Start \in Handled /\ Consistent(Start)
           /\ Opened(Start, leaked) /\ Informed(Start) /\ leaked \subseteq TcpFd
           /\ ConnectedIn(Start) = Connected /\ OnlineIn(Start) = Online
           /\ Start.client = client /\ Start.byName = byName /\ Start.open = open
           /\ Start.told = told /\ Start.kicked = kicked
           /\ \A fd \in Fd : fd \in Connected <=> client[fd] # None
BY DEF IInv, Consistent, Start, ConnectedIn, Connected, OnlineIn, Online, LoggedInAs, LoggedIn

\* A descriptor that is free belongs to no client, and to none that was kicked.
LEMMA AcceptKeeps == ASSUME IInv, NEW fd \in Fd, Accept(fd) PROVE IInv'
<1> DEFINE s == [Start EXCEPT !.open = @ \cup {fd}]
           r == ClientRegister(s, fd)
<1>1. fd \in TcpFd /\ fd \notin open /\ Handle(r)
  BY DEF Accept
<1>2. fd \notin leaked /\ client[fd] = None
  BY <1>1, Current DEF Opened
<1>3. /\ s \in Handled
      /\ s.client = client /\ s.byName = byName /\ s.clients = Start.clients
      /\ s.open = open \cup {fd} /\ s.told = told /\ s.kicked = kicked
      /\ s.dead = Start.dead
  BY <1>1, Current DEF Handled
<1> HIDE DEF s
<1>4. Start.dead \subseteq ConnectedIn(Start)
  BY Current DEF Consistent
<1>5. Consistent(s) /\ ConnectedIn(s) = Connected /\ OnlineIn(s) = Online
  BY <1>3, <1>4, Current, SameNames
<1>6. s.client[fd] = None
  BY <1>2, <1>3
<1>7. /\ Consistent(r) /\ ConnectedIn(r) = Connected \cup {fd} /\ OnlineIn(r) = Online
      /\ r.open = open \cup {fd} /\ r.told = told /\ r.kicked = kicked
  BY <1>3, <1>5, <1>6, RegisterConsistent
<1> HIDE DEF r
<1>8. Opened(r, leaked) /\ Informed(r)
  BY <1>1, <1>2, <1>7, Current DEF Opened, Informed
<1> QED
  BY <1>1, <1>7, <1>8, HandleKeeps

\* A connection logs in under one name.
LEMMA OneName ==
    ASSUME NEW fd \in Fd, NEW n \in LoginNames(fd), client \in [Fd -> Client \cup {None}]
    PROVE  n \in Name /\ (client[fd] # None => client[fd].name \in {None, n})
BY DEF LoginNames, Client

\* cmd_l0_read_cb, a login.
LEMMA TcpLoginKeeps == ASSUME IInv, NEW fd \in Fd, TcpLogin(fd) PROVE IInv'
<1> DEFINE f == Refresh(Start, fd)
<1>1. PICK n \in LoginNames(fd) : Handle(ClientAuthCheck(f, fd, n))
  BY DEF TcpLogin
<1>2. client[fd] # None
  BY DEF TcpLogin, Reads
<1>3. n \in Name /\ client[fd].name \in {None, n}
  BY <1>2, Current, OneName DEF Handled
<1>4. /\ Consistent(f) /\ ConnectedIn(f) = Connected /\ OnlineIn(f) = Online
      /\ f.client[fd] # None /\ f.client[fd].name = client[fd].name
      /\ f.open = open /\ f.told = told /\ f.kicked = kicked
  BY <1>2, Current, RefreshConsistent
<1> HIDE DEF f
<1>5. Opened(f, leaked) /\ Informed(f)
  BY <1>4, Current DEF Opened, Informed
<1> DEFINE r == ClientAuthCheck(f, fd, n)
<1>6. Consistent(r) /\ Opened(r, leaked) /\ Informed(r)
  BY <1>3, <1>4, <1>5, Current, AuthCheckConsistent
<1> HIDE DEF r
<1>7. Handle(r)
  BY <1>1 DEF r
<1> QED
  BY <1>6, <1>7, HandleKeeps

\* cmd_l0_read_cb, any other packet.
LEMMA TcpDataKeeps == ASSUME IInv, NEW fd \in Fd, TcpData(fd) PROVE IInv'
<1> DEFINE f == Refresh(Start, fd)
<1>1. client[fd] # None /\ Handle(f)
  BY DEF TcpData, Reads
<1>2. /\ Consistent(f) /\ ConnectedIn(f) = Connected /\ OnlineIn(f) = Online
      /\ f.open = open /\ f.told = told /\ f.kicked = kicked
  BY <1>1, Current, RefreshConsistent
<1> HIDE DEF f
<1>3. Opened(f, leaked) /\ Informed(f)
  BY <1>2, Current DEF Opened, Informed
<1> QED
  BY <1>1, <1>2, <1>3, HandleKeeps

\* A client whose record is removed and whose socket is closed.
LEMMA Closed ==
    ASSUME IInv, NEW fd \in Fd
    PROVE  LET d == ClientDisconnect(Start, fd, FALSE)
           IN  Consistent(d) /\ Opened(d, leaked) /\ Informed(d)
BY Current, DisconnectClosed, DisconnectOpened

\* cmd_l0_read_cb, the end of the connection.
LEMMA TcpCloseKeeps == ASSUME IInv, NEW fd \in Fd, TcpClose(fd) PROVE IInv'
BY Closed, HandleKeeps DEF TcpClose

\* cmd_l0_read_cb, a login that is refused.
LEMMA TcpBadLoginKeeps == ASSUME IInv, NEW fd \in Fd, TcpBadLogin(fd) PROVE IInv'
<1> DEFINE d == ClientDisconnect(Start, fd, FALSE)
<1>1. Commit(d) /\ wild' = TRUE /\ UNCHANGED <<fd_trudp, channel, leaked, deaths, running>>
  BY DEF TcpBadLogin
<1>2. Consistent(d) /\ Opened(d, leaked) /\ Informed(d)
  BY Closed
<1> HIDE DEF d
<1>3. Start' = d /\ Consistent(Start)' /\ Informed(Start)'
  BY <1>1, <1>2, Committed
<1>4. Opened(Start, leaked)'
  BY <1>1, <1>2, <1>3
<1>5. UNCHANGED <<subscribed, app>>
  BY <1>1 DEF Commit
<1> QED
  BY <1>1, <1>3, <1>4, <1>5 DEF IInv

\* The record that a packet of a channel finds, or makes.
LEMMA RegisteredInformed ==
    ASSUME IInv, NEW fd \in FakeFd
    PROVE  LET r == Registered(Start, fd)
           IN  /\ Consistent(r) /\ Opened(r, leaked) /\ Informed(r)
               /\ r.client[fd] # None
               /\ r.client[fd].name = IF client[fd] = None THEN None ELSE client[fd].name
<1> DEFINE r == Registered(Start, fd)
<1>1. fd \in Fd /\ fd \notin TcpFd
  BY FdFacts DEF Fd
<1>2. /\ Consistent(r) /\ r.client[fd] # None
      /\ r.client[fd].name = IF client[fd] = None THEN None ELSE client[fd].name
      /\ ConnectedIn(r) = Connected \cup {fd} /\ OnlineIn(r) = Online
      /\ r.open = open /\ r.told = told /\ r.kicked = kicked
  BY <1>1, Current, RegisteredConsistent
<1> HIDE DEF r
<1>3. Opened(r, leaked) /\ Informed(r)
  BY <1>1, <1>2, Current DEF Opened, Informed
<1> QED
  BY <1>2, <1>3 DEF r

\* processPacket, a login.
LEMMA UdpLoginKeeps == ASSUME IInv, NEW a \in Addr, UdpLogin(a) PROVE IInv'
<1> DEFINE fd == ChannelFd(a)
           g == Registered(Start, fd)
<1>1. PICK n \in LoginNames(fd) : UdpPacket(a, ClientAuthCheck(g, fd, n))
  BY DEF UdpLogin
<1>2. fd \in FakeFd /\ fd \in Fd
  BY DEF UdpLogin, UdpReads, Fd
<1>3. n \in Name /\ (client[fd] # None => client[fd].name \in {None, n})
  <2> HIDE DEF fd
  <2> QED
    BY <1>2, Current, OneName DEF Handled
<1>4. /\ Consistent(g) /\ Opened(g, leaked) /\ Informed(g)
      /\ g.client[fd] # None
      /\ g.client[fd].name = IF client[fd] = None THEN None ELSE client[fd].name
  <2> HIDE DEF fd
  <2> QED
    BY <1>2, RegisteredInformed
<1> HIDE DEF g
<1> DEFINE r == ClientAuthCheck(g, fd, n)
<1>5. Consistent(r) /\ Opened(r, leaked) /\ Informed(r)
  <2> HIDE DEF fd
  <2> QED
    BY <1>2, <1>3, <1>4, Current, AuthCheckConsistent
<1> HIDE DEF r
<1>6. UdpPacket(a, r)
  BY <1>1 DEF r
<1> QED
  BY <1>2, <1>5, <1>6, UdpPacketKeeps

\* processPacket, a login that is refused.
LEMMA UdpBadLoginKeeps == ASSUME IInv, NEW a \in Addr, UdpBadLogin(a) PROVE IInv'
<1> DEFINE fd == ChannelFd(a)
           g == Registered(Start, fd)
           d == ClientDisconnect(g, fd, FALSE)
<1>1. fd \in FakeFd /\ fd \in Fd /\ UdpPacket(a, d)
  BY DEF UdpBadLogin, UdpReads, Fd
<1>2. Consistent(g) /\ Opened(g, leaked) /\ Informed(g)
  <2> HIDE DEF fd
  <2> QED
    BY <1>1, RegisteredInformed
<1>3. Consistent(d) /\ Opened(d, leaked) /\ Informed(d)
  <2> HIDE DEF fd, g
  <2> QED
    BY <1>1, <1>2, Current, DisconnectClosed, DisconnectOpened
<1> HIDE DEF d
<1> QED
  BY <1>1, <1>3, UdpPacketKeeps

\* processPacket, any other packet.
LEMMA UdpDataKeeps == ASSUME IInv, NEW a \in Addr, UdpData(a) PROVE IInv'
<1> DEFINE fd == ChannelFd(a)
           g == Registered(Start, fd)
           r == IF g.client[fd].name = None THEN g ELSE Refresh(g, fd)
           d == ClientDisconnect(Start, fd, FALSE)
<1>1. /\ fd \in FakeFd /\ fd \in Fd
      /\ UdpPacket(a, r) \/ (client[fd] = None /\ UdpPacket(a, d))
  BY DEF UdpData, UdpReads, Fd
<1>2. Consistent(g) /\ Opened(g, leaked) /\ Informed(g) /\ g.client[fd] # None
  <2> HIDE DEF fd
  <2> QED
    BY <1>1, RegisteredInformed
<1>3. Consistent(r) /\ Opened(r, leaked) /\ Informed(r)
  <2> HIDE DEF fd, g
  <2> DEFINE f == Refresh(g, fd)
  <2>1. /\ Consistent(f) /\ ConnectedIn(f) = ConnectedIn(g) /\ OnlineIn(f) = OnlineIn(g)
        /\ f.open = g.open /\ f.told = g.told /\ f.kicked = g.kicked
    BY <1>1, <1>2, RefreshConsistent
  <2> HIDE DEF f
  <2>2. Opened(f, leaked) /\ Informed(f)
    BY <1>2, <2>1 DEF Opened, Informed
  <2>3. r = g \/ r = f
    BY DEF f
  <2> HIDE DEF r
  <2> QED
    BY <1>2, <2>1, <2>2, <2>3
<1>4. client[fd] = None => Consistent(d) /\ Opened(d, leaked) /\ Informed(d)
  <2>1. client[fd] = None => d = Start
    BY DEF ClientDisconnect, Start
  <2> HIDE DEF d
  <2> QED
    BY <2>1, Current
<1> HIDE DEF r, d
<1> QED
  BY <1>1, <1>3, <1>4, UdpPacketKeeps

\* trudp_event_cb.
LEMMA ChannelLostKeeps == ASSUME IInv, NEW a \in Addr, ChannelLost(a) PROVE IInv'
<1> DEFINE d == ClientDisconnect(Start, channel[a], FALSE)
<1>1. /\ Commit(d) /\ channel' = [channel EXCEPT ![a] = 0]
      /\ UNCHANGED <<fd_trudp, leaked, deaths, wild, running>>
  BY DEF ChannelLost
<1>2. channel[a] \in Fd
  BY DEF ChannelLost, IInv, Fd
<1>3. Consistent(d) /\ Opened(d, leaked) /\ Informed(d)
  BY <1>2, Closed
<1> HIDE DEF d
<1>4. Start' = d /\ Consistent(Start)' /\ Informed(Start)'
  BY <1>1, <1>3, Committed
<1>5. Opened(Start, leaked)'
  BY <1>1, <1>3, <1>4
<1>6. UNCHANGED <<subscribed, app>>
  BY <1>1 DEF Commit
<1>7. channel' \in [Addr -> FakeFd \cup {0}]
  BY <1>1 DEF IInv
<1> QED
  BY <1>1, <1>4, <1>5, <1>6, <1>7 DEF IInv

\* _check_connected, whichever client is the first.
LEMMA CheckConnectedKeeps == ASSUME IInv, CheckConnected PROVE IInv'
<1> DEFINE e == [Start EXCEPT !.client = Aged]
<1>1. /\ Consistent(e) /\ ConnectedIn(e) = Connected /\ OnlineIn(e) = Online
      /\ e.open = open /\ e.told = told /\ e.kicked = kicked
  BY Current, AgedConsistent
<1>2. \/ \E fd \in Fd : Handle(ClientDisconnect(e, fd, FALSE))
      \/ Handle(e)
  BY DEF CheckConnected
<1> HIDE DEF e
<1>3. Opened(e, leaked) /\ Informed(e)
  BY <1>1, Current DEF Opened, Informed
<1>4. CASE Handle(e)
  BY <1>1, <1>3, <1>4, HandleKeeps
<1>5. ASSUME NEW fd \in Fd, Handle(ClientDisconnect(e, fd, FALSE)) PROVE IInv'
  <2> DEFINE d == ClientDisconnect(e, fd, FALSE)
  <2>1. Consistent(d) /\ Opened(d, leaked) /\ Informed(d)
    BY <1>1, <1>3, Current, DisconnectClosed, DisconnectOpened
  <2>2. Handle(d)
    BY <1>5
  <2> HIDE DEF d
  <2> QED
    BY <2>1, <2>2, HandleKeeps
<1> QED
  BY <1>2, <1>4, <1>5

\* cmd_l0_check_cb.
LEMMA AuthConfirmedKeeps == ASSUME IInv, NEW n \in Name, AuthConfirmed(n) PROVE IInv'
<1> DEFINE fd == byName[n]
           got == [Start EXCEPT !.checks = @ \ {n}]
           e == ConfirmAuth(got, fd)
<1>1. Handle(got) \/ (fd # 0 /\ client[fd] # None /\ Handle(e))
  BY Current DEF AuthConfirmed, ClientIsConnected
<1>2. fd \in Fd \cup {0}
  BY Current DEF Handled
<1>3. /\ got \in Handled
      /\ got.client = client /\ got.byName = byName /\ got.clients = Start.clients
      /\ got.open = open /\ got.told = told /\ got.kicked = kicked
      /\ got.dead = Start.dead
  BY Current DEF Handled
<1> HIDE DEF got, fd
<1>4. Start.dead \subseteq ConnectedIn(Start)
  BY Current DEF Consistent
<1>5. Consistent(got) /\ ConnectedIn(got) = Connected /\ OnlineIn(got) = Online
  BY <1>3, <1>4, Current, SameNames
<1>6. Opened(got, leaked) /\ Informed(got)
  BY <1>3, <1>5, Current DEF Opened, Informed
<1>7. CASE Handle(got)
  BY <1>5, <1>6, <1>7, HandleKeeps
<1>8. CASE fd # 0 /\ client[fd] # None /\ Handle(e)
  <2>1. /\ Consistent(e) /\ ConnectedIn(e) = Connected /\ OnlineIn(e) = Online
        /\ e.open = open /\ e.told = told /\ e.kicked = kicked
    BY <1>2, <1>3, <1>5, <1>8, ConfirmConsistent
  <2> HIDE DEF e
  <2>2. Opened(e, leaked) /\ Informed(e)
    BY <2>1, Current DEF Opened, Informed
  <2> QED
    BY <1>8, <2>1, <2>2, HandleKeeps
<1> QED
  BY <1>1, <1>7, <1>8

\* cmd_l0_kick_client: the descriptor is leaked.
LEMMA KickClientKeeps == ASSUME IInv, NEW n \in Name, KickClient(n) PROVE IInv'
<1> DEFINE fd == byName[n]
           d == ClientDisconnect(Start, fd, TRUE)
<1>1. /\ fd # 0 /\ Commit(d) /\ leaked' = leaked \cup ({fd} \cap TcpFd)
      /\ UNCHANGED <<fd_trudp, channel, deaths, wild, running>>
  BY Current DEF KickClient, ClientIsConnected
<1>2. fd \in Fd /\ client[fd] # None
  BY <1>1, Current DEF Handled, Consistent, NamesMatch, LoggedInAs
<1> HIDE DEF fd
<1>3. /\ Consistent(d) /\ ConnectedIn(d) = Connected \ {fd} /\ d.open = open
      /\ Informed(d)
  BY <1>2, Current, DisconnectKicked
<1> HIDE DEF d
<1>4. Start' = d /\ Consistent(Start)' /\ Informed(Start)'
  BY <1>1, <1>3, Committed
<1>5. Opened(d, leaked \cup ({fd} \cap TcpFd))
  BY <1>2, <1>3, Current DEF Opened
<1>6. Opened(Start, leaked)'
  BY <1>1, <1>4, <1>5
<1>7. UNCHANGED <<subscribed, app>> /\ leaked' \subseteq TcpFd
  BY <1>1, Current DEF Commit
<1> QED
  BY <1>1, <1>4, <1>6, <1>7 DEF IInv

\* What only concerns the application.
LEMMA AppliesKeeps ==
    ASSUME IInv, Applies, checks' \subseteq Name, told' \subseteq Name, kicked' \subseteq Name,
           {subscribed, app}' \subseteq BOOLEAN,
           IF Listening' THEN told' = Online \cup kicked' /\ kicked' \cap Online = {}
                         ELSE kicked' = {}
    PROVE  IInv'
<1>1. /\ Start' \in Handled
      /\ Start'.client = client /\ Start'.byName = byName /\ Start'.clients = Start.clients
      /\ Start'.open = open /\ Start'.told = told' /\ Start'.kicked = kicked'
      /\ Start'.dead = Start.dead
  <2>1. Start \in Handled
    BY Current
  <2> QED
    BY <2>1 DEF Applies, Start, Handled
<1>2. Start.dead \subseteq ConnectedIn(Start)
  BY Current DEF Consistent
<1>3. /\ Consistent(Start') /\ ConnectedIn(Start') = Connected
      /\ OnlineIn(Start') = Online
  BY <1>1, <1>2, Current, SameNames
<1>4. Consistent(Start)'
  BY <1>3
<1>5. Opened(Start, leaked)'
  BY <1>1, <1>3, Current DEF Opened, Applies
<1>6. Informed(Start)'
  BY <1>1, <1>3 DEF Informed
<1> QED
  BY <1>4, <1>5, <1>6 DEF IInv, Applies

\* Since nothing is kicked while nobody listens, the new subscriber knows all.
LEMMA SubscribeKeeps == ASSUME IInv, Subscribe PROVE IInv'
BY Current, AppliesKeeps DEF Subscribe, Listening, Informed, Handled, IInv, Start, Online

\* teoSScrUnSubscription.
LEMMA UnsubscribeKeeps == ASSUME IInv, Unsubscribe PROVE IInv'
BY Current, AppliesKeeps DEF Unsubscribe, Listening, Handled, IInv, Start

\* The application is lost.
LEMMA AppLostKeeps == ASSUME IInv, AppLost PROVE IInv'
BY Current, AppliesKeeps DEF AppLost, Listening, IInv

\* A client dies.
LEMMA DieKeeps == ASSUME IInv, NEW fd \in Fd, Die(fd) PROVE IInv'
<1>1. /\ client[fd] # None /\ dead' = dead \cup {fd} /\ deaths' = deaths + 1 /\ deaths < MaxDead
      /\ UNCHANGED <<client, byName, clients, fd_trudp, channel, open, subscribed, app, told,
                     checks, kicked, leaked, wild, running>>
  BY DEF Die
<1>2. /\ Start' \in Handled
      /\ Start'.client = client /\ Start'.byName = byName /\ Start'.clients = Start.clients
      /\ Start'.open = open /\ Start'.told = told /\ Start'.kicked = kicked
      /\ Start'.dead = Start.dead \cup {fd}
  <2>1. Start \in Handled
    BY Current
  <2> QED
    BY <1>1, <2>1 DEF Start, Handled
<1>3. Start'.dead \subseteq ConnectedIn(Start)
  BY <1>1, <1>2, Current DEF Consistent
<1>4. /\ Consistent(Start') /\ ConnectedIn(Start') = Connected
      /\ OnlineIn(Start') = Online
  BY <1>2, <1>3, Current, SameNames
<1>5. Consistent(Start)' /\ Opened(Start, leaked)'
  BY <1>1, <1>2, <1>4, Current DEF Opened
<1>6. Informed(Start)'
  BY <1>1, <1>2, <1>4, Current DEF Informed, Listening
<1>7. deaths' \in 0..MaxDead
  BY <1>1, L0Assumption DEF IInv
<1> QED
  BY <1>1, <1>5, <1>6, <1>7 DEF IInv

\* ksnLNullStop.
LEMMA StopKeeps == ASSUME IInv, Stop PROVE IInv'
<1>1. /\ running' = FALSE /\ open' = open \ Connected
      /\ clients' = clients - Cardinality(Connected) /\ told' = told \ Online
      /\ client' = [fd \in Fd |-> None] /\ byName' = [n \in Name |-> 0] /\ dead' = {}
      /\ UNCHANGED <<fd_trudp, channel, subscribed, app, checks, kicked, leaked, deaths, wild>>
  BY DEF Stop
<1>2. clients = Cardinality(Connected) /\ clients \in Nat
  BY Current DEF Consistent, Handled, Start
<1>3. clients' = 0
  BY <1>1, <1>2
<1>4. Start' \in Handled
  <2>1. Start \in Handled
    BY Current
  <2> QED
    BY <1>1, <1>3, <2>1 DEF Start, Handled
<1>5. /\ Start'.client = [fd \in Fd |-> None] /\ Start'.byName = [n \in Name |-> 0]
      /\ Start'.clients = 0 /\ Start'.dead = {} /\ Start'.open = open \ Connected
      /\ Start'.told = told \ Online /\ Start'.kicked = kicked
  BY <1>1, <1>3 DEF Start
<1>6. ConnectedIn(Start') = {} /\ OnlineIn(Start') = {}
  BY <1>5 DEF ConnectedIn, OnlineIn, LoggedInAs
<1>7. NamesMatch(Start')
  BY <1>5 DEF NamesMatch, LoggedInAs
<1>8. Consistent(Start')
  BY <1>4, <1>5, <1>6, <1>7, FS_EmptySet DEF Consistent
<1>9. Opened(Start', leaked)
  BY <1>5, <1>6, Current, FdFacts DEF Opened
<1>10. Consistent(Start)' /\ Opened(Start, leaked)'
  BY <1>1, <1>8, <1>9
<1>11. Informed(Start)'
  BY <1>1, <1>5, <1>6, Current DEF Informed, Listening
<1> QED
  BY <1>1, <1>10, <1>11 DEF IInv

\* The invariant holds at first.
LEMMA InitIInv == ASSUME Init PROVE IInv
<1>1. Start \in Handled
  BY DEF Init, Start, Handled
<1>2. /\ Start.client = [fd \in Fd |-> None] /\ Start.byName = [n \in Name |-> 0]
      /\ Start.clients = 0 /\ Start.dead = {} /\ Start.open = {}
      /\ Start.told = {} /\ Start.kicked = {} /\ leaked = {}
  BY DEF Init, Start
<1>3. ConnectedIn(Start) = {} /\ OnlineIn(Start) = {}
  BY <1>2 DEF ConnectedIn, OnlineIn, LoggedInAs
<1>4. NamesMatch(Start)
  BY <1>2 DEF NamesMatch, LoggedInAs
<1>5. Consistent(Start)
  BY <1>1, <1>2, <1>3, <1>4, FS_EmptySet DEF Consistent
<1>6. Opened(Start, leaked) /\ Informed(Start)
  BY <1>2, <1>3 DEF Opened, Informed
<1>7. fd_trudp \in MAX_FD_NUMBER .. MAX_FD_NUMBER + MaxChannel /\ deaths \in 0..MaxDead
  BY L0Assumption DEF Init
<1>8. /\ leaked \subseteq TcpFd /\ channel \in [Addr -> FakeFd \cup {0}]
      /\ {subscribed, app, wild, running} \subseteq BOOLEAN
  BY DEF Init
<1> QED
  BY <1>5, <1>6, <1>7, <1>8 DEF IInv

\* Every step keeps it.
LEMMA NextIInv == ASSUME IInv, [Next]_vars PROVE IInv'
<1>1. CASE UNCHANGED vars
  <2>1. /\ UNCHANGED Start /\ Listening' = Listening
        /\ UNCHANGED <<fd_trudp, channel, subscribed, app, leaked, deaths, wild, running>>
    BY <1>1 DEF vars, Start, Listening
  <2>2. Consistent(Start)' /\ Opened(Start, leaked)' /\ Informed(Start)'
    BY <2>1, Current DEF Informed
  <2> QED
    BY <2>1, <2>2 DEF IInv
<1>2. ASSUME NEW fd \in Fd, Accept(fd) \/ TcpLogin(fd) \/ TcpBadLogin(fd) \/ TcpData(fd)
                            \/ TcpClose(fd) \/ Die(fd)
      PROVE  IInv'
  BY <1>2, AcceptKeeps, TcpLoginKeeps, TcpBadLoginKeeps, TcpDataKeeps, TcpCloseKeeps, DieKeeps
<1>3. ASSUME NEW a \in Addr, UdpLogin(a) \/ UdpBadLogin(a) \/ UdpData(a) \/ ChannelLost(a)
      PROVE  IInv'
  BY <1>3, UdpLoginKeeps, UdpBadLoginKeeps, UdpDataKeeps, ChannelLostKeeps
<1>4. ASSUME NEW n \in Name, AuthConfirmed(n) \/ KickClient(n) PROVE IInv'
  BY <1>4, AuthConfirmedKeeps, KickClientKeeps
<1>5. CASE CheckConnected \/ Subscribe \/ Unsubscribe \/ AppLost \/ Stop
  BY <1>5, CheckConnectedKeeps, SubscribeKeeps, UnsubscribeKeeps, AppLostKeeps, StopKeeps
<1> QED
  BY <1>1, <1>2, <1>3, <1>4, <1>5 DEF Next

\* It holds always.
LEMMA Invariance == Spec => []IInv
BY InitIInv, NextIInv, PTL DEF Spec

-----------------------------------------------------------------------------

\* Every variable of the server keeps its type (struct ksnLNullClass).
THEOREM TypeCorrect == Spec => []TypeOK
<1>1. IInv => TypeOK
  BY Current DEF IInv, Consistent, Handled, Start, Connected, ConnectedIn, TypeOK
<1> QED
  BY <1>1, Invariance, PTL

\* A name finds the client that is logged in under it, and every client that is
\* logged in is found by its name (ksnLNullClientIsConnected, updateClientName).
THEOREM NamesAndClients == Spec => []MapsInverse
<1>1. IInv => MapsInverse
  BY DEF IInv, Consistent, NamesMatch, Start, LoggedInAs, LoggedIn, MapsInverse, NamesCurrent,
         ClientsReachable
<1> QED
  BY <1>1, Invariance, PTL

\* The counter is the number of clients, and the descriptors that are open are
\* those of the clients and of those that were kicked (ksnLNullClientDisconnect).
THEOREM CountsAndDescriptors == Spec => []ClientsAccounted
<1>1. IInv => ClientsAccounted
  <2> HAVE IInv
  <2>1. clients = Cardinality(Connected)
    BY Current DEF Consistent, Start
  <2>2. open = (Connected \cap TcpFd) \cup leaked
    BY Current DEF Opened
  <2> QED
    BY <2>1, <2>2 DEF ClientsAccounted, ClientsCounted, OnlyKickedLeak
<1> QED
  BY <1>1, Invariance, PTL

\* A subscriber knows who is online, but for those who were kicked
\* (ksnLNullClientAuthCheck, ksnLNullClientDisconnect, teoSScrSend).
THEOREM SubscribersInformed == Spec => []SubscribersAgree
<1>1. IInv => SubscribersAgree
  BY Current DEF Informed, SubscribersAgree
<1> QED
  BY <1>1, Invariance, PTL
=============================================================================
