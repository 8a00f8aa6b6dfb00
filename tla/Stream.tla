------------------------------- MODULE Stream -------------------------------
(***************************************************************************)
(* Named streams between two peers: src/src/modules/stream.c.  One stream  *)
(* name is modelled; streams of other names share nothing with it but the  *)
(* loss of the peer.  Each peer keeps a record of the stream in ks->map    *)
(* under the other peer's name and the stream name.                        *)
(*                                                                         *)
(* A record has a serial number, which the code does not have.  It stands  *)
(* for the memory of the record, for which pointers are kept in the        *)
(* watchers and in the queued kq_connect_cb, and it travels with the       *)
(* messages so that the properties can tell two streams of the same name   *)
(* apart; no guard looks at it.  Use of freed memory is noted in wild, after *)
(* which the model makes no step.                                          *)
(*                                                                         *)
(* The channel and the peer table are those of Mesh, for two peers.        *)
(***************************************************************************)
EXTENDS Naturals, Sequences, FiniteSets

CONSTANTS
    Peer,         \* the two ends
    None,         \* no record
    MayCreate,    \* the peers whose applications create the stream
    MayReuse,     \* how a stream has ended before its name is used again
    MayStop,      \* the peers that stop
    BufSize,      \* KSN_BUFFER_SM_SIZE, in chunks
    MaxCreate,    \* bound on records made by one peer
    MaxWrite,     \* bound on chunks written to one record
    MaxLost       \* bound on losses of a live peer

\* ksnStreamMapData: created, the chunks in pipe_in and pipe_out, and history:
\* the peer's record it is connected to, what the application has read from
\* it, and how many chunks it has written.
Record == [serial : Nat, created : BOOLEAN, initiator : BOOLEAN, with : Nat,
           pipeIn : Seq(Nat \X Nat), pipeOut : Seq(Nat \X Nat),
           got : Seq(Nat \X Nat), wrote : Nat]

ASSUME StreamAssumption ==
    /\ \E p, q \in Peer : p # q /\ Peer = {p, q}
    /\ None \notin Record
    /\ MayCreate \subseteq Peer
    /\ MayReuse \subseteq {"closed", "lost", "timeout"}
    /\ MayStop \subseteq Peer
    /\ BufSize \in Nat \ {0}
    /\ MaxCreate \in Nat
    /\ MaxWrite \in Nat
    /\ MaxLost \in Nat

VARIABLES
    up,        \* the peers that run
    known,     \* the peers that have the other in their ARP table
    stream,    \* stream[n]: the record in n's map, or None
    queued,    \* queued[n]: the records that a queued kq_connect_cb points to
    chan,      \* chan[n]: stream commands from n that the other has not received
    reset,     \* the peers that have not noticed that the channel began anew
    made,      \* made[n]: records made so far
    ended,     \* ended[n]: how n's last stream ended
    given,     \* given[n]: n's streams that ended before CREATED came
    lost,      \* losses so far
    wild       \* what freed memory was used: "none" so far, the record of a
               \* "callback", of running "watchers", or a "queue" entry

vars == <<up, known, stream, queued, chan, reset, made, ended, given, lost, wild>>

Other(n) == CHOOSE p \in Peer : p # n

Cmd == {"CREATE", "CREATED", "DATA", "CLOSE"}

Msg(cmd, serial, data) == [cmd |-> cmd, serial |-> serial, data |-> data]

\* A handler works on n's record, queued callbacks and sent commands.
Start(n) == [s |-> stream[n], queued |-> queued[n], out |-> <<>>, made |-> made[n],
             ended |-> ended[n], given |-> given[n], wild |-> wild]

-----------------------------------------------------------------------------
(* The functions of the module.                                            *)

\* A peer may have a record already: pblMapAdd replaces it and frees it, with
\* its watchers.
NewRecord(h, initiator, with) ==
    [h EXCEPT
        !.s = [serial |-> h.made + 1, created |-> ~initiator, initiator |-> initiator,
               with |-> with, pipeIn |-> <<>>, pipeOut |-> <<>>, got |-> <<>>, wrote |-> 0],
        !.made = @ + 1,
        !.wild = IF h.s = None THEN @ ELSE IF h.s.created THEN "watchers" ELSE @]

\* Mutant of Create: no callback is queued.
MutantNoTimer(h) ==
    LET added == NewRecord(h, TRUE, 0)
    IN  [added EXCEPT !.out = Append(@, Msg("CREATE", added.s.serial, <<>>))]

\* ksnStreamCreate(CMD_ST_CREATE): add the record, ask the peer, wait 5 seconds.
Create(h) ==
    LET added == NewRecord(h, TRUE, 0)
    IN  [added EXCEPT !.out = Append(@, Msg("CREATE", added.s.serial, <<>>)),
                      !.queued = @ \cup {added.s.serial}]

\* ksnStreamCreate(CMD_ST_CREATE_GOT): add the record, connect it, answer.
CreateGot(h, m) ==
    LET added == NewRecord(h, FALSE, m.serial)
    IN  [added EXCEPT !.out = Append(@, Msg("CREATED", added.s.serial, <<>>))]

\* ksnStreamCreate(CMD_ST_CREATED): connect the record and end its callback.  A
\* connected record has no callback any more, or never had one.
Created(h, m) ==
    IF h.s = None THEN h
    ELSE IF h.s.serial \notin h.queued THEN [h EXCEPT !.wild = "queue"]
    ELSE [h EXCEPT !.s.created = TRUE, !.s.with = m.serial,
                   !.queued = @ \ {h.s.serial}]

\* Mutant of Close: a stream that is closed here is not closed there.
MutantCloseSilent(h, how) ==
    IF h.s = None THEN h
    ELSE [h EXCEPT
            !.s = None,
            !.ended = how,
            !.given = IF h.s.created THEN @ ELSE @ \cup {h.s.serial}]

\* ksnStreamClose: the peer is told only of a connected stream, and only when
\* the close begins here.  The queued callback of a stream that is not yet
\* connected stays.
Close(h, how) ==
    IF h.s = None THEN h
    ELSE [h EXCEPT
            !.s = None,
            !.out = IF h.s.created /\ how = "own"
                    THEN Append(@, Msg("CLOSE", h.s.serial, <<>>)) ELSE @,
            !.ended = how,
            !.given = IF h.s.created THEN @ ELSE @ \cup {h.s.serial}]

\* The branch CMD_ST_DATA of cmd_stream_cb: write to the input pipe.
Data(h, m) == IF h.s = None THEN h ELSE [h EXCEPT !.s.pipeIn = @ \o m.data]

\* kq_connect_cb at the timeout: close the stream its data points to.
ConnectTimeout(h, serial) ==
    LET ending == [h EXCEPT !.queued = @ \ {serial}]
    IN  IF h.s = None THEN [ending EXCEPT !.wild = "callback"]
        ELSE IF h.s.serial # serial THEN [ending EXCEPT !.wild = "callback"]
        ELSE Close(ending, "timeout")

\* Mutant of StreamOut: what does not fit in the buffer is dropped.
MutantStreamOutDrops(h) ==
    LET k == IF Len(h.s.pipeOut) < BufSize THEN Len(h.s.pipeOut) ELSE BufSize
    IN  [h EXCEPT !.s.pipeOut = <<>>,
                  !.out = Append(@, Msg("DATA", h.s.serial, SubSeq(h.s.pipeOut, 1, k)))]

\* Mutant of StreamOut: what was sent stays in the pipe.
MutantStreamOutPeeks(h) ==
    LET k == IF Len(h.s.pipeOut) < BufSize THEN Len(h.s.pipeOut) ELSE BufSize
    IN  [h EXCEPT !.out = Append(@, Msg("DATA", h.s.serial, SubSeq(h.s.pipeOut, 1, k)))]

\* stream_out_cb: send what one read of the output pipe gives.
StreamOut(h) ==
    LET k == IF Len(h.s.pipeOut) < BufSize THEN Len(h.s.pipeOut) ELSE BufSize
    IN  [h EXCEPT !.s.pipeOut = SubSeq(@, k + 1, Len(@)),
                  !.out = Append(@, Msg("DATA", h.s.serial, SubSeq(h.s.pipeOut, 1, k)))]

\* cmd_stream_cb.
Process(h, m) ==
    CASE m.cmd = "CREATE" -> CreateGot(h, m)
      [] m.cmd = "CREATED" -> Created(h, m)
      [] m.cmd = "CLOSE" -> Close(h, "closed")
      [] m.cmd = "DATA" -> Data(h, m)

-----------------------------------------------------------------------------
(* The actions.                                                            *)

\* What n's handler sent to the other peer: ksnCoreSendCmdto drops what goes to
\* a peer that is not in the table, and nothing reaches a peer that is down.
Sent(n, h, knows) ==
    IF Other(n) \in up /\ n \in knows THEN h.out ELSE <<>>

\* The handler's changes become visible.
Commit(n, h) ==
    /\ stream' = [stream EXCEPT ![n] = h.s]
    /\ queued' = [queued EXCEPT ![n] = h.queued]
    /\ made' = [made EXCEPT ![n] = h.made]
    /\ ended' = [ended EXCEPT ![n] = h.ended]
    /\ given' = [given EXCEPT ![n] = h.given]
    /\ wild' = h.wild

Init ==
    /\ up = Peer
    /\ known = Peer
    /\ stream = [n \in Peer |-> None]
    /\ queued = [n \in Peer |-> {}]
    /\ chan = [n \in Peer |-> <<>>]
    /\ reset = {}
    /\ made = [n \in Peer |-> 0]
    /\ ended = [n \in Peer |-> "never"]
    /\ given = [n \in Peer |-> {}]
    /\ lost = 0
    /\ wild = "none"

\* A step of the program at n: it runs, and all memory was used as it should.
Running(n) == n \in up /\ wild = "none"

\* A step of n that only sends, besides what its handler changes.
Send(n, h) ==
    /\ chan' = [chan EXCEPT ![n] = @ \o Sent(n, h, known)]
    /\ Commit(n, h)
    /\ UNCHANGED <<up, known, reset, lost>>

\* The application creates the stream, having seen the end of the last one.
AppCreate(n) ==
    /\ Running(n)
    /\ n \in MayCreate
    /\ stream[n] = None
    /\ ended[n] \in MayReuse \cup {"never"}
    /\ made[n] < MaxCreate
    /\ Send(n, Create(Start(n)))

\* The application closes the stream (CMD_ST_CLOSE).
AppClose(n) ==
    /\ Running(n)
    /\ stream[n] # None
    /\ Send(n, Close(Start(n), "own"))

\* The application writes a chunk to fd_out of a connected stream.
AppWrite(n) ==
    LET s == stream[n]
        chunk == <<s.serial, s.wrote + 1>>
    IN  /\ Running(n)
        /\ s # None
        /\ s.created
        /\ s.wrote < MaxWrite
        /\ stream' = [stream EXCEPT ![n].pipeOut = Append(@, chunk), ![n].wrote = @ + 1]
        /\ UNCHANGED <<up, known, queued, chan, reset, made, ended, given, lost, wild>>

\* stream_out_cb: the output pipe of a connected stream has data.
StreamOutCb(n) ==
    /\ Running(n)
    /\ stream[n] # None
    /\ stream[n].created
    /\ stream[n].pipeOut # <<>>
    /\ Send(n, StreamOut(Start(n)))

\* stream_in_cb: EV_K_STREAM_DATA, at which the application reads.
StreamInCb(n) ==
    LET s == stream[n]
    IN  /\ Running(n)
        /\ s # None
        /\ s.created
        /\ \E k \in 1..Len(s.pipeIn) :
              stream' = [stream EXCEPT
                  ![n].got = @ \o SubSeq(s.pipeIn, 1, k),
                  ![n].pipeIn = SubSeq(@, k + 1, Len(@))]
        /\ UNCHANGED <<up, known, queued, chan, reset, made, ended, given, lost, wild>>

\* The callback queue calls kq_connect_cb 5 seconds after the request.
ConnectCb(n) ==
    /\ Running(n)
    /\ \E serial \in queued[n] : Send(n, ConnectTimeout(Start(n), serial))

\* A command from the other peer arrives; a peer that is not in the table is
\* added first (ksnCoreCheckNewPeer).  No pipe can be made for a CREATE when the
\* process is out of descriptors: the command is dropped.
Deliver(n) ==
    LET p == Other(n)
        m == Head(chan[p])
        knows == known \cup {n}
    IN  /\ Running(n)
        /\ chan[p] # <<>>
        /\ reset = {}
        /\ \E h \in {Process(Start(n), m)} \cup (IF m.cmd = "CREATE" THEN {Start(n)} ELSE {}) :
              /\ chan' = [chan EXCEPT ![p] = Tail(@), ![n] = @ \o Sent(n, h, knows)]
              /\ Commit(n, h)
        /\ known' = knows
        /\ UNCHANGED <<up, reset, lost>>

\* Mutant of ClosePeer: a lost peer's streams stay.
MutantStreamsStay(n) == Start(n)

\* ksnStreamClosePeer.
ClosePeer(n) == Close(Start(n), "lost")

\* Mutant of ArpRemove: the channel and what it holds stay.
MutantKeepChannel(n) ==
    /\ known' = known \ {n}
    /\ chan' = chan
    /\ Commit(n, ClosePeer(n))

\* ksnetArpRemove: the channel is destroyed and the peer's streams are closed.
ArpRemove(n) ==
    /\ known' = known \ {n}
    /\ chan' = [chan EXCEPT ![n] = <<>>]
    /\ Commit(n, ClosePeer(n))

\* n loses the other peer, which costs one of the bounded losses if it runs.
LosePeer(n) ==
    LET p == Other(n)
    IN  /\ Running(n)
        /\ n \in known
        /\ p \in up => lost < MaxLost
        /\ lost' = IF p \in up THEN lost + 1 ELSE lost
        /\ ArpRemove(n)
        /\ reset' = IF p \in known THEN reset \cup {p} ELSE reset
        /\ UNCHANGED up

\* n notices that the channel began anew: remove_peer_addr.
NoticeReset(n) ==
    /\ Running(n)
    /\ n \in reset
    /\ IF n \in known
       THEN ArpRemove(n)
       ELSE UNCHANGED <<known, stream, queued, chan, made, ended, given, wild>>
    /\ reset' = reset \ {n}
    /\ UNCHANGED <<up, lost>>

\* The mesh introduces the peers to each other again.
Meet(n) ==
    /\ Running(n)
    /\ n \notin known
    /\ Other(n) \in up
    /\ reset = {}
    /\ known' = known \cup {n}
    /\ UNCHANGED <<up, stream, queued, chan, reset, made, ended, given, lost, wild>>

\* ksnetEvMgrFree: the callback queue is destroyed before the streams are
\* closed (ksnStreamDestroy), and then the process ends.
Stop(n) ==
    LET h == Close([Start(n) EXCEPT !.queued = {}], "own")
    IN  /\ Running(n)
        /\ n \in MayStop
        /\ up' = up \ {n}
        /\ chan' = [p \in Peer |-> IF p = n THEN chan[n] \o Sent(n, h, known) ELSE <<>>]
        /\ Commit(n, h)
        /\ UNCHANGED <<known, reset, lost>>

\* A process ends without any of this.
Crash(n) ==
    /\ Running(n)
    /\ n \in MayStop
    /\ up' = up \ {n}
    /\ chan' = [chan EXCEPT ![Other(n)] = <<>>]
    /\ stream' = [stream EXCEPT ![n] = None]
    /\ queued' = [queued EXCEPT ![n] = {}]
    /\ UNCHANGED <<known, reset, made, ended, given, lost, wild>>

Next ==
    \E n \in Peer :
        \/ AppCreate(n)
        \/ AppClose(n)
        \/ AppWrite(n)
        \/ StreamOutCb(n)
        \/ StreamInCb(n)
        \/ ConnectCb(n)
        \/ Deliver(n)
        \/ LosePeer(n)
        \/ NoticeReset(n)
        \/ Meet(n)
        \/ Stop(n)
        \/ Crash(n)

Spec == Init /\ [][Next]_vars

\* TR-UDP delivers and notices a new channel, the watchers of readable pipes and
\* expired timers are called, and a dead peer's silence is noticed.
Fairness ==
    \A n \in Peer :
        /\ WF_vars(Deliver(n))
        /\ WF_vars(NoticeReset(n))
        /\ WF_vars(StreamOutCb(n))
        /\ WF_vars(StreamInCb(n))
        /\ WF_vars(ConnectCb(n))
        /\ WF_vars(Other(n) \notin up /\ LosePeer(n))

FairSpec == Spec /\ Fairness
-----------------------------------------------------------------------------
Message == [cmd : Cmd, serial : Nat, data : Seq(Nat \X Nat)]

\* Every variable has its type; a peer makes no more records than were asked for.
TypeOK ==
    /\ up \subseteq Peer
    /\ known \subseteq Peer
    /\ reset \subseteq Peer
    /\ stream \in [Peer -> Record \cup {None}]
    /\ chan \in [Peer -> Seq(Message)]
    /\ made \in [Peer -> 0..MaxCreate * Cardinality(MayCreate)]
    /\ queued \in [Peer -> SUBSET Nat]
    /\ given \in [Peer -> SUBSET Nat]
    /\ \A n \in Peer : queued[n] \cup given[n] \subseteq 1..made[n]
    /\ ended \in [Peer -> {"never", "own", "closed", "lost", "timeout"}]
    /\ lost \in 0..MaxLost
    /\ wild \in {"none", "callback", "watchers", "queue"}

Has(data, chunk) == \E i \in DOMAIN data : data[i] = chunk

Open(n) == stream[n] # None /\ stream[n].created

Pending(n) == stream[n] # None /\ ~stream[n].created

UnderWay(n, cmd) == \E i \in DOMAIN chan[n] : chan[n][i].cmd = cmd

\* Records of the two ends are connected to each other.
Paired(n) ==
    /\ Open(n) /\ Open(Other(n))
    /\ stream[n].with = stream[Other(n)].serial
    /\ stream[Other(n)].with = stream[n].serial

\* The connection between the peers is being torn down, or one is gone.
Broken == reset # {} \/ up # Peer

\* What the initiator of a stream believes: once it was told CONNECTED, the
\* acceptor has the other end, until a CLOSE is on its way or the peers lose
\* each other.
InitiatorAgrees ==
    \A n \in Peer :
        Open(n) /\ stream[n].initiator /\ ~Broken =>
            Paired(n) \/ UnderWay(Other(n), "CLOSE")

\* What the acceptor believes: the initiator is connected or is about to be,
\* unless a CLOSE is on its way, or the initiator gave up before it was
\* connected, of which the acceptor is never told.
AcceptorAgrees ==
    \A n \in Peer :
        LET p == Other(n)
        IN  Open(n) /\ ~stream[n].initiator /\ ~Broken =>
                \/ Paired(n)
                \/ /\ Pending(p) /\ stream[p].serial = stream[n].with
                   /\ UnderWay(n, "CREATED")
                \/ UnderWay(p, "CLOSE")
                \/ stream[n].with \in given[p]

\* Neither end believes in a stream that the other does not have (stream_cmd: the
\* answers, CLOSE, and the timeout of kq_connect_cb).
EndsAgree == InitiatorAgrees /\ AcceptorAgrees

\* What is in, or was read from, the input pipe of a record was written to the
\* peer's record it is connected to: from the first chunk on, in order, with
\* nothing missing or repeated.
DataInOrder ==
    \A n \in Peer :
        LET s == stream[n]
            data == s.got \o s.pipeIn
        IN  s # None => \A i \in DOMAIN data : data[i] = <<s.with, i>>

\* Nothing that was written to one of two connected records is lost: what has
\* not been read is in a pipe or on its way.
NothingLost ==
    \A n \in Peer :
        LET p == Other(n)
        IN  Paired(n) /\ ~Broken =>
                \A i \in 1..stream[p].wrote :
                    LET chunk == <<stream[p].serial, i>>
                    IN  \/ Has(stream[n].got, chunk) \/ Has(stream[n].pipeIn, chunk)
                        \/ \E j \in DOMAIN chan[p] : Has(chan[p][j].data, chunk)
                        \/ Has(stream[p].pipeOut, chunk)

\* Running watchers and the queue entry of a record are never freed under it,
\* when the application uses a name again only after the peer closed the stream
\* or was lost.  The entry of a stream that ends before it is connected does stay
\* queued, with a pointer to the freed record.
OnlyCallbacksDangle == wild \in {"none", "callback"}

\* A stream that was asked for does not stay pending, whatever becomes of the
\* request: kq_connect_cb, if nothing else, ends it.
PendingResolved == \A n \in Peer : Pending(n) ~> ~Pending(n) \/ wild # "none"

\* A stream with a peer that has stopped or crashed is closed, by its CLOSE or
\* by ksnStreamClosePeer when its silence is noticed.
OrphanClosed ==
    \A n \in Peer :
        Other(n) \notin up ~> stream[n] = None \/ n \notin up \/ wild # "none"
=============================================================================
