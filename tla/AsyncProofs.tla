---------------------------- MODULE AsyncProofs ----------------------------
(***************************************************************************)
(* Proofs about asynchronous calls for every set of threads, number of     *)
(* calls and of full send queues.  As long as no wait has ended before its *)
(* answer, each call is made once and in order, a call that returned in    *)
(* multi-thread mode was made, and each record is freed once.  Whatever    *)
(* waits end before their answer, a call is not lost until a freed record  *)
(* is used, and a single thread's calls are neither lost nor made twice    *)
(* unless the send queue was full.                                         *)
(***************************************************************************)
EXTENDS Async, TLAPS

-----------------------------------------------------------------------------
(* The inductive invariant.                                                *)

\* Records have a place, and so has what the loop handles.
Base ==
    /\ TypeOK
    /\ \A t \in Thread : at[t] # "outside" => calls[t] # 0
    /\ lat = "outside" <=> item = None

\* Where a thread holds async_func_mutex.
Holding == {"locks cv", "takes cv", "adds", "added", "waits", "waited", "unlocks"}

\* Where the call of a thread has not yet been put into the queue.
Before == {"begins", "tries", "locks", "locks cv", "takes cv", "adds"}

\* The mode that the first call tries is tried at all.
CanMulti == ~no_multi_thread_f /\ 0 < CHECK_RETRIVES

Unmade(t) == \A i \in DOMAIN performed :
                 performed[i].thread = t => performed[i].call < calls[t]

\* The mode leaves its first value when the first thread comes, and is never
\* given up; one thread at a time is between LOCK_FUNC and UNLOCK_FUNC.
Common ==
    /\ timeouts = 0 /\ check_retrives = 0 /\ ~undefined
    /\ f_multi_thread \in {"NOT_DEFINED_MULTITHREAD", "MULTITHREAD"}
    /\ MULTITHREADED => CanMulti
    /\ \A t \in Thread : async_func_mutex = t <=> at[t] \in Holding
    /\ \A t \in Thread : at[t] # "outside" => calls[t] # 0
    /\ lat = "outside" <=> item = None
    /\ OnceInOrder
    /\ \A i \in DOMAIN performed :
           performed[i].of = "send" /\ performed[i].call <= calls[performed[i].thread]

\* Before the first thread has set the mode nothing has happened.
Fresh ==
    /\ \A t \in Thread : \/ at[t] = "outside" /\ calls[t] = 0
                         \/ at[t] \in {"begins", "tries"} /\ calls[t] = 1
    /\ live = {} /\ async_queue = <<>> /\ lat = "outside"
    /\ cv_mutex = None /\ ~signalled /\ performed = <<>>

(* In multi-thread mode. *)

\* The loop has made, refused or put off what t asks for.
Answered(t) ==
    LET ud == UdOf(t) IN
    /\ rv[ud] \in {"sent", "full", "refused"}
    /\ of[t] = "check" => rv[ud] = "sent" /\ Unmade(t)
    /\ of[t] = "send" /\ rv[ud] = "sent" => ud \in CallsMade
    /\ rv[ud] = "refused" => ud \in refused
    /\ rv[ud] # "sent" => Unmade(t)

\* The loop has nothing to do.
AtRest == async_queue = <<>> /\ lat = "outside" /\ ~signalled

\* The element of t is in the queue, then in the loop, and then t is signalled.
InExchange(t) ==
    \/ /\ async_queue = <<UdOf(t)>> /\ lat = "outside" /\ ~signalled /\ Unmade(t)
    \/ /\ async_queue = <<>> /\ item = UdOf(t) /\ ~signalled /\ Unmade(t)
       /\ lat \in IF of[t] = "check" THEN {"check", "answers"}
                                     ELSE {"send", "locks", "performs"}
    \/ /\ async_queue = <<>> /\ item = UdOf(t) /\ Answered(t)
       /\ lat \in {"tells", "unlocks"} /\ (signalled <=> lat = "unlocks")
    \/ async_queue = <<>> /\ lat = "outside" /\ signalled /\ Answered(t) /\ at[t] = "waits"

\* A record is its caller's as long as it is in SEND_ASYNC.
Owned ==
    /\ \A ud \in live : Sending(ud.thread) /\ ud = UdOf(ud.thread)
    /\ \A t \in Thread : Sending(t) => UdOf(t) \in live

\* Who has cv_mutex.
Locked ==
    /\ \A t \in Thread : cv_mutex = t <=> at[t] \in {"adds", "added", "waited", "unlocks"}
    /\ cv_mutex = Loop <=> lat \in {"performs", "tells", "unlocks"}

\* Each thread on its way, and the loop at rest between them.
Exchanges ==
    /\ \A t \in Thread :
          /\ at[t] \in Before => Unmade(t)
          /\ at[t] \in {"added", "waits"} => InExchange(t)
          /\ at[t] \in {"waited", "unlocks", "decides", "returns"} => Answered(t)
          /\ at[t] = "returns" => rv[UdOf(t)] # "full"
    /\ (\A t \in Thread : at[t] \notin {"added", "waits"}) => AtRest

Multi == Owned /\ Locked /\ Exchanges /\ Synchronous

(* Without multi-thread mode. *)

\* A call of the same thread that comes after ud.
Earlier(ud, later) == ud.thread = later.thread => ud.call < later.call

\* ud was put in by its thread, and before the call that it is about to put in.
PutIn(ud) ==
    /\ ud.of = "send"
    /\ ud.call <= calls[ud.thread]
    /\ at[ud.thread] \in Before => ud.call < calls[ud.thread]

\* Nobody tries the mode, locks or waits, and only calls are put in.
NoLocks ==
    /\ cv_mutex = None
    /\ \A t \in Thread : of[t] = "send" /\ at[t] \notin {"tries", "takes cv", "waits"}
    /\ lat \notin {"check", "answers", "locks"}

\* The queue keeps the order of each thread, behind the calls that were made.
Queued ==
    \A i \in DOMAIN async_queue :
        /\ PutIn(async_queue[i]) /\ async_queue[i] \in live
        /\ \A j \in DOMAIN async_queue : i < j => Earlier(async_queue[i], async_queue[j])
        /\ \A j \in DOMAIN performed : Earlier(performed[j], async_queue[i])
        /\ lat # "outside" => Earlier(item, async_queue[i])

\* The loop has one call in hand, which it makes and then frees.
InHand ==
    lat # "outside" =>
        /\ PutIn(item)
        /\ item \in live <=> lat # "unlocks"
        /\ lat \in {"send", "performs"} =>
               \A j \in DOMAIN performed : Earlier(performed[j], item)

\* A thread's record is its own until it is put into the queue.
PuttingIn(t) == at[t] \in {"locks", "locks cv", "takes cv", "adds"}

Preparing ==
    /\ \A t \in Thread : at[t] \in Before => Unmade(t)
    /\ \A t \in Thread : PuttingIn(t) => UdOf(t) \in live
    /\ \A ud \in live : InQueue(ud) \/ (PuttingIn(ud.thread) /\ ud = UdOf(ud.thread))

Single == NoLocks /\ Queued /\ InHand /\ Preparing

Mode ==
    /\ MULTITHREADED => Multi
    /\ CanMulti /\ ~MULTITHREADED => Fresh
    /\ ~CanMulti => Single

IInv == TypeOK /\ Common /\ Mode

\* A wait has ended before its answer: the loop was too late.
Late == timeouts \in Nat \ {0}


-----------------------------------------------------------------------------
(* Helpers.                                                                *)

\* The invariant has those.
LEMMA BaseOf ==
    ASSUME IInv
    PROVE  Base
BY DEF IInv, Common, Base

\* The modes: multi-thread, not yet tried, and off.
LEMMA Modes ==
    ASSUME IInv
    PROVE  /\ TypeOK /\ Common
           /\ MULTITHREADED => CanMulti /\ Multi
           /\ ~MULTITHREADED /\ CanMulti => Fresh
           /\ ~CanMulti => ~MULTITHREADED /\ Single
BY DEF IInv, Common, Mode

\* A thread in a call has a record that can be allocated.
LEMMA UdOfIs ==
    ASSUME Base, NEW t \in Thread, at[t] # "outside"
    PROVE  UdOf(t) \in Ud /\ calls[t] \in 1..MaxCalls
<1>1. calls[t] \in 1..MaxCalls
  <2>1. calls[t] \in 0..MaxCalls /\ calls[t] # 0
    BY DEF Base, TypeOK
  <2> QED
    BY <2>1, AsyncAssumption
<1> QED
  BY <1>1 DEF UdOf, Ud, Base, TypeOK

\* Records of two threads are two.
LEMMA UdOfThread ==
    ASSUME NEW t, NEW u
    PROVE  UdOf(t).thread = t /\ (UdOf(t) = UdOf(u) => t = u)
BY DEF UdOf

\* What is said of u's call depends on u's record alone.
LEMMA SameFor ==
    ASSUME NEW u \in Thread, calls'[u] = calls[u], of'[u] = of[u],
           performed' = performed, refused' = refused, rv'[UdOf(u)] = rv[UdOf(u)]
    PROVE  /\ UdOf(u)' = UdOf(u)
           /\ Unmade(u)' <=> Unmade(u)
           /\ Answered(u)' <=> Answered(u)
<1>1. UdOf(u)' = UdOf(u)
  BY DEF UdOf
<1>2. Unmade(u)' <=> Unmade(u)
  BY DEF Unmade
<1> QED
  BY <1>1, <1>2 DEF Answered, CallsMade

\* One thread at a time is inside.
LEMMA OneHolder ==
    ASSUME IInv, NEW t \in Thread, NEW u \in Thread, at[t] \in Holding, at[u] \in Holding
    PROVE  t = u
BY DEF IInv, Common

\* Every record names a thread.
LEMMA Threads ==
    ASSUME Base
    PROVE  /\ \A ud \in live : ud \in Ud /\ ud.thread \in Thread
           /\ \A i \in DOMAIN async_queue : /\ async_queue[i] \in Ud
                                            /\ async_queue[i].thread \in Thread
           /\ \A i \in DOMAIN performed : performed[i] \in Ud /\ performed[i].thread \in Thread
           /\ lat # "outside" => item \in Ud /\ item.thread \in Thread
<1>1. /\ live \subseteq Ud
      /\ async_queue \in Seq(Ud)
      /\ performed \in Seq(Ud)
      /\ item \in Ud \cup {None}
  BY DEF Base, TypeOK
<1>2. \A ud \in Ud : ud.thread \in Thread
  BY DEF Ud
<1>3. lat # "outside" => item # None
  BY DEF Base
<1>4. \A i \in DOMAIN async_queue : async_queue[i] \in Ud
  BY <1>1
<1>5. \A i \in DOMAIN performed : performed[i] \in Ud
  BY <1>1
<1> QED
  BY <1>1, <1>2, <1>3, <1>4, <1>5

\* A step in multi-thread mode that does not change the mode.
LEMMA StaysMulti ==
    ASSUME IInv, MULTITHREADED, UNCHANGED <<no_multi_thread_f, f_multi_thread>>,
           Owned', Locked', Exchanges', Synchronous'
    PROVE  Mode'
<1>1. CanMulti' /\ MULTITHREADED'
  BY Modes DEF CanMulti, MULTITHREADED
<1>2. Multi'
  BY DEF Multi
<1> QED
  BY <1>1, <1>2 DEF Mode

\* A step without the mode.
LEMMA StaysSingle ==
    ASSUME IInv, ~CanMulti, UNCHANGED <<no_multi_thread_f, f_multi_thread>>,
           NoLocks', Queued', InHand', Preparing'
    PROVE  Mode'
<1>1. ~CanMulti' /\ ~MULTITHREADED'
  BY Modes DEF CanMulti, MULTITHREADED
<1>2. Single'
  BY DEF Single
<1> QED
  BY <1>1, <1>2 DEF Mode

\* Without the mode a thread that neither puts in nor comes changes nothing.
LEMMA SingleMove ==
    ASSUME IInv, ~CanMulti, NEW t \in Thread,
           UNCHANGED <<no_multi_thread_f, f_multi_thread, calls, of, live, async_queue, lat,
                       item, cv_mutex, performed>>,
           \A u \in Thread \ {t} : at'[u] = at[u],
           at'[t] \notin {"tries", "takes cv", "waits"}, at'[t] \in Before <=> at[t] \in Before,
           PuttingIn(t)' <=> PuttingIn(t)
    PROVE  Mode'
<1>1. NoLocks /\ Queued /\ InHand /\ Preparing
  BY Modes DEF Single
<1>2. \A u \in Thread : /\ at'[u] \in Before <=> at[u] \in Before
                        /\ PuttingIn(u)' <=> PuttingIn(u)
                        /\ UdOf(u)' = UdOf(u) /\ (Unmade(u)' <=> Unmade(u))
  BY DEF PuttingIn, UdOf, Unmade
<1>3. \A ud \in Ud : PutIn(ud)' <=> PutIn(ud)
  BY <1>2 DEF PutIn, Ud
<1>4. NoLocks'
  BY <1>1 DEF NoLocks
<1>5. Queued'
  BY <1>1, <1>3, Threads, BaseOf DEF Queued, Earlier
<1>6. InHand'
  BY <1>1, <1>3, Threads, BaseOf DEF InHand, Earlier
<1>7. Preparing'
  BY <1>1, <1>2, Threads, BaseOf DEF Preparing, InQueue
<1> QED
  BY <1>4, <1>5, <1>6, <1>7, StaysSingle

\* A record is allocated for t, and nothing is said of the others' calls.
LEMMA Opened ==
    ASSUME IInv, NEW t \in Thread, at[t] # "outside", NEW purpose \in {"check", "send"},
           NEW freed, Open(t, purpose, freed), UNCHANGED <<calls, performed, refused>>
    PROVE  /\ at'[t] = "locks" /\ \A u \in Thread \ {t} : at'[u] = at[u]
           /\ of'[t] = purpose /\ \A u \in Thread \ {t} : of'[u] = of[u]
           /\ live' = (live \ freed) \cup {UdOf(t)'}
           /\ UdOf(t)' \in Ud /\ UdOf(t)'.thread = t
           /\ \A u \in Thread \ {t} :
                 /\ UdOf(u)' = UdOf(u) /\ (Unmade(u)' <=> Unmade(u))
                 /\ at[u] # "outside" =>
                       (Answered(u)' <=> Answered(u)) /\ rv'[UdOf(u)] = rv[UdOf(u)]
           /\ Unmade(t)' <=> Unmade(t)
<1>1. TypeOK
  BY Modes
<1>2. /\ at'[t] = "locks" /\ \A u \in Thread \ {t} : at'[u] = at[u]
      /\ of'[t] = purpose /\ \A u \in Thread \ {t} : of'[u] = of[u]
  BY <1>1 DEF Open, Goto, TypeOK
<1>3. UdOf(t)' = [thread |-> t, call |-> calls[t], of |-> purpose]
  BY <1>2 DEF UdOf
<1>4. UdOf(t)' \in Ud /\ UdOf(t)'.thread = t
  BY <1>3, UdOfIs, BaseOf DEF Ud
<1>5. live' = (live \ freed) \cup {UdOf(t)'}
  BY <1>3 DEF Open
<1>6. rv' = [rv EXCEPT ![UdOf(t)'] = "timeout"]
  BY <1>3 DEF Open
<1>7. ASSUME NEW u \in Thread \ {t}
      PROVE  /\ UdOf(u)' = UdOf(u) /\ (Unmade(u)' <=> Unmade(u))
             /\ at[u] # "outside" =>
                   (Answered(u)' <=> Answered(u)) /\ rv'[UdOf(u)] = rv[UdOf(u)]
  <2>1. UdOf(u)' = UdOf(u) /\ (Unmade(u)' <=> Unmade(u))
    BY <1>2 DEF UdOf, Unmade
  <2>2. ASSUME at[u] # "outside" PROVE rv'[UdOf(u)] = rv[UdOf(u)]
    <3>1. UdOf(u) # UdOf(t)' /\ UdOf(u) \in Ud
      BY <1>3, <2>2, UdOfIs, BaseOf DEF UdOf
    <3> QED
      BY <1>1, <1>6, <3>1 DEF TypeOK
  <2> QED
    BY <1>2, <2>1, <2>2, SameFor
<1>8. Unmade(t)' <=> Unmade(t)
  BY DEF Unmade
<1> QED
  BY <1>2, <1>4, <1>5, <1>7, <1>8

\* The head of the queue.
LEMMA QueueHead ==
    ASSUME Base, async_queue # <<>>
    PROVE  /\ Head(async_queue) \in Ud /\ Tail(async_queue) \in Seq(Ud)
           /\ Head(async_queue).of \in {"check", "send"}
           /\ Head(async_queue) = async_queue[1] /\ 1 \in DOMAIN async_queue
           /\ \A i \in DOMAIN Tail(async_queue) :
                 /\ i + 1 \in DOMAIN async_queue
                 /\ Tail(async_queue)[i] = async_queue[i + 1]
                 /\ 1 < i + 1
<1>1. async_queue \in Seq(Ud)
  BY DEF Base, TypeOK
<1>2. Len(async_queue) \in Nat \ {0} /\ DOMAIN async_queue = 1..Len(async_queue)
  BY <1>1
<1>3. /\ Head(async_queue) \in Ud
      /\ Head(async_queue) = async_queue[1]
      /\ Tail(async_queue) \in Seq(Ud)
  BY <1>1
<1>4. Head(async_queue).of \in {"check", "send"}
  BY <1>3 DEF Ud
<1>5. \A i \in DOMAIN Tail(async_queue) :
          i + 1 \in DOMAIN async_queue /\ Tail(async_queue)[i] = async_queue[i + 1] /\ 1 < i + 1
  <2>1. DOMAIN Tail(async_queue) = 1..(Len(async_queue) - 1)
    BY <1>1, <1>2
  <2> QED
    BY <1>1, <1>2, <2>1
<1> QED
  BY <1>2, <1>3, <1>4, <1>5

\* What the loop handles in multi-thread mode is of the one thread that waits.
LEMMA InLoop ==
    ASSUME IInv, MULTITHREADED, lat # "outside" \/ async_queue # <<>>
    PROVE  \E t \in Thread :
              /\ at[t] \in {"added", "waits"} /\ InExchange(t)
              /\ \A u \in Thread \ {t} : at[u] \notin Holding
              /\ UdOf(t) \in live /\ UdOf(t) \in Ud
<1>1. Owned /\ Exchanges
  BY Modes DEF Multi
<1>2. PICK t \in Thread : at[t] \in {"added", "waits"}
  BY <1>1 DEF Exchanges, AtRest
<1> QED
  BY <1>1, <1>2, OneHolder, UdOfIs, BaseOf DEF Exchanges, Holding, Owned, Sending

\* A step that only sends the signal or starts the idle watcher.
LEMMA OnlySignals ==
    ASSUME IInv, UNCHANGED <<no_multi_thread_f, f_multi_thread, check_retrives, at, calls,
                             of,
                rv, live, async_queue, lat, item, async_func_mutex, cv_mutex, signalled,
                performed, refused, timeouts, fulls, undefined>>
    PROVE  Common' /\ Mode'
<1>1. Common'
  BY Modes DEF Common, MULTITHREADED, CanMulti, OnceInOrder, Ordered
<1>2. \A t \in Thread : /\ UdOf(t)' = UdOf(t)
                        /\ (Unmade(t)' <=> Unmade(t))
                        /\ (Answered(t)' <=> Answered(t))
  BY SameFor
<1>3. CASE MULTITHREADED
  <2>1. Owned /\ Locked /\ Exchanges /\ Synchronous
    BY <1>3, Modes DEF Multi
  <2>2. Owned' /\ Locked'
    BY <1>2, <2>1, Threads, BaseOf DEF Owned, Locked, Sending
  <2>3. Exchanges'
    BY <1>2, <2>1 DEF Exchanges, InExchange, AtRest
  <2>4. Synchronous'
    BY <2>1 DEF Synchronous, MULTITHREADED, CallsMade
  <2> QED
    BY <1>1, <1>3, <2>2, <2>3, <2>4, StaysMulti
<1>4. CASE ~MULTITHREADED /\ CanMulti
  <2>1. Fresh'
    BY <1>4, Modes DEF Fresh
  <2> QED
    BY <1>1, <1>4, <2>1 DEF Mode, MULTITHREADED, CanMulti
<1>5. CASE ~CanMulti
  <2>1. NoLocks /\ Queued /\ InHand /\ Preparing
    BY <1>5, Modes DEF Single
  <2>2. \A ud : PutIn(ud)' <=> PutIn(ud)
    BY DEF PutIn
  <2>3. NoLocks' /\ Queued' /\ InHand'
    BY <2>1, <2>2 DEF NoLocks, Queued, InHand, Earlier
  <2>4. Preparing'
    BY <1>2, <2>1, Threads, BaseOf DEF Preparing, PuttingIn, InQueue
  <2> QED
    BY <1>1, <1>5, <2>3, <2>4, StaysSingle
<1> QED
  BY <1>3, <1>4, <1>5

\* A call that is made follows the ones of its thread that were made before.
LEMMA MadeInOrder ==
    ASSUME IInv, NEW ud \in Ud, performed' = Append(performed, ud),
           \A j \in DOMAIN performed : Earlier(performed[j], ud)
    PROVE  /\ OnceInOrder'
           /\ DOMAIN performed' = DOMAIN performed \cup {Len(performed) + 1}
           /\ \A i \in DOMAIN performed : performed'[i] = performed[i]
           /\ performed'[Len(performed) + 1] = ud
<1>1. performed \in Seq(Ud) /\ OnceInOrder
  BY DEF IInv, TypeOK, Common
<1>2. /\ DOMAIN performed' = DOMAIN performed \cup {Len(performed) + 1}
      /\ \A i \in DOMAIN performed : performed'[i] = performed[i] /\ i < Len(performed) + 1
      /\ performed'[Len(performed) + 1] = ud
      /\ DOMAIN performed = 1..Len(performed) /\ Len(performed) \in Nat
  BY <1>1
<1>3. ASSUME NEW i \in DOMAIN performed', NEW j \in DOMAIN performed', i < j
      PROVE  Ordered(i, j)'
  <2>1. i \in DOMAIN performed
    BY <1>2, <1>3
  <2>2. CASE j \in DOMAIN performed
    BY <1>1, <1>2, <1>3, <2>1, <2>2 DEF OnceInOrder, Ordered
  <2>3. CASE j = Len(performed) + 1
    BY <1>2, <2>1, <2>3 DEF Ordered, Earlier
  <2> QED
    BY <1>2, <2>2, <2>3
<1>4. OnceInOrder'
  BY <1>3 DEF OnceInOrder
<1> QED
  BY <1>2, <1>4

-----------------------------------------------------------------------------
(* The steps keep their variables' types.                                  *)

\* What Call changes, and that it keeps the types.
LEMMA CallTypes ==
    ASSUME Base, NEW t \in Thread, Call(t)
    PROVE  TypeOK' /\ UNCHANGED <<no_multi_thread_f, f_multi_thread, check_retrives, of,
                                  rv, live, async_queue, sig, idle, lat, item,
                                  async_func_mutex, cv_mutex, signalled, performed,
                                  refused, timeouts, fulls, undefined>>
<1>0. TypeOK
  BY DEF Base
<1>1. UNCHANGED <<no_multi_thread_f, f_multi_thread, check_retrives, of, rv, live,
                  async_queue, sig, idle, lat, item, async_func_mutex, cv_mutex,
                  signalled, performed, refused, timeouts, fulls, undefined>>
  BY DEF Call, mode, memory, queue, loop, mutexes, history, Goto
<1>2. at' \in [Thread -> Places]
  BY <1>0 DEF TypeOK, Places, Call, Goto
<1>3. calls' \in [Thread -> 0..MaxCalls]
  <2>1. calls[t] \in 0..MaxCalls /\ calls[t] < MaxCalls
    BY <1>0 DEF TypeOK, Call
  <2>2. calls[t] + 1 \in 0..MaxCalls
    BY <2>1, AsyncAssumption
  <2> QED
    BY <1>0, <2>2 DEF TypeOK, Call
<1> QED
  BY <1>1, <1>2, <1>3, <1>0 DEF TypeOK

\* What CheckMultiThread changes, and that it keeps the types.
LEMMA CheckMultiThreadTypes ==
    ASSUME Base, NEW t \in Thread, CheckMultiThread(t)
    PROVE  /\ TypeOK'
           /\ UNCHANGED <<no_multi_thread_f, f_multi_thread, check_retrives, calls,
                          async_queue, sig, idle, lat, item, async_func_mutex, cv_mutex,
                          signalled, performed, refused, timeouts, fulls, undefined>>
           /\ (Goto(t, "tries") /\ UNCHANGED <<of, rv, live>>) \/ Open(t, "send", {})
<1>0. TypeOK
  BY DEF Base
<1>1. UNCHANGED <<no_multi_thread_f, f_multi_thread, check_retrives, calls, async_queue,
                  sig, idle, lat, item, async_func_mutex, cv_mutex, signalled, performed,
                  refused, timeouts, fulls, undefined>>
  BY DEF CheckMultiThread, mode, queue, loop, mutexes, history
<1>2. (Goto(t, "tries") /\ UNCHANGED <<of, rv, live>>) \/ Open(t, "send", {})
  BY DEF CheckMultiThread
<1>3. at' \in [Thread -> Places]
  BY <1>0, <1>2 DEF TypeOK, Places, Open, Goto
<1>4. of' \in [Thread -> {"check", "send"}]
  BY <1>0, <1>2 DEF TypeOK, Open
<1>5. live' \in SUBSET Ud
  <2>1. calls[t] \in 1..MaxCalls
    BY UdOfIs DEF CheckMultiThread
  <2>2. [thread |-> t, call |-> calls[t], of |-> "send"] \in Ud
    BY <2>1 DEF Ud
  <2> QED
    BY <1>0, <1>2, <2>2 DEF TypeOK, Open
<1>6. rv' \in [Ud -> Rv]
  BY <1>0, <1>2 DEF TypeOK, Rv, Open
<1> QED
  BY <1>1, <1>2, <1>3, <1>4, <1>5, <1>6, <1>0 DEF TypeOK

\* What TryMultiThread changes, and that it keeps the types.
LEMMA TryMultiThreadTypes ==
    ASSUME Base, NEW t \in Thread, TryMultiThread(t)
    PROVE  /\ TypeOK'
           /\ UNCHANGED <<no_multi_thread_f, check_retrives, calls, async_queue, sig, idle,
                          lat, item, async_func_mutex, cv_mutex, signalled, performed,
                          refused, timeouts, fulls, undefined>>
           /\ MULTITHREADED' /\ Open(t, "check", {})
<1>0. TypeOK
  BY DEF Base
<1>1. UNCHANGED <<no_multi_thread_f, check_retrives, calls, async_queue, sig, idle, lat,
                  item, async_func_mutex, cv_mutex, signalled, performed, refused,
                  timeouts, fulls, undefined>>
  BY DEF TryMultiThread, queue, loop, mutexes, history
<1>2. f_multi_thread' = "MULTITHREAD" /\ MULTITHREADED' /\ Open(t, "check", {})
  BY DEF TryMultiThread, MULTITHREADED
<1>3. at' \in [Thread -> Places]
  BY <1>0, <1>2 DEF TypeOK, Places, Open, Goto
<1>4. of' \in [Thread -> {"check", "send"}]
  BY <1>0, <1>2 DEF TypeOK, Open
<1>5. live' \in SUBSET Ud
  <2>1. calls[t] \in 1..MaxCalls
    BY UdOfIs DEF TryMultiThread
  <2>2. [thread |-> t, call |-> calls[t], of |-> "check"] \in Ud
    BY <2>1 DEF Ud
  <2> QED
    BY <1>0, <1>2, <2>2 DEF TypeOK, Open
<1>6. rv' \in [Ud -> Rv]
  BY <1>0, <1>2 DEF TypeOK, Rv, Open
<1> QED
  BY <1>1, <1>2, <1>3, <1>4, <1>5, <1>6, <1>0 DEF TypeOK

\* What LockFunc changes, and that it keeps the types.
LEMMA LockFuncTypes ==
    ASSUME Base, NEW t \in Thread, LockFunc(t)
    PROVE  TypeOK' /\ UNCHANGED <<no_multi_thread_f, f_multi_thread, check_retrives,
                                  calls, of, rv, live, async_queue, sig, idle, lat, item,
                                  cv_mutex, signalled, performed, refused, timeouts,
                                  fulls, undefined>>
<1>0. TypeOK
  BY DEF Base
<1>1. UNCHANGED <<no_multi_thread_f, f_multi_thread, check_retrives, calls, of, rv, live,
                  async_queue, sig, idle, lat, item, cv_mutex, signalled, performed,
                  refused, timeouts, fulls, undefined>>
  BY DEF LockFunc, mode, memory, queue, loop, history, Goto
<1>2. at' \in [Thread -> Places]
  BY <1>0 DEF TypeOK, Places, LockFunc, Goto
<1>3. async_func_mutex' \in Thread \cup {None}
  BY <1>0 DEF TypeOK, LockFunc
<1> QED
  BY <1>1, <1>2, <1>3, <1>0 DEF TypeOK

\* What LockCv changes, and that it keeps the types.
LEMMA LockCvTypes ==
    ASSUME Base, NEW t \in Thread, LockCv(t)
    PROVE  TypeOK' /\ UNCHANGED <<no_multi_thread_f, f_multi_thread, check_retrives,
                                  calls, of, rv, live, async_queue, sig, idle, lat, item,
                                  async_func_mutex, cv_mutex, signalled, performed,
                                  refused, timeouts, fulls, undefined>>
<1>0. TypeOK
  BY DEF Base
<1>1. UNCHANGED <<no_multi_thread_f, f_multi_thread, check_retrives, calls, of, rv, live,
                  async_queue, sig, idle, lat, item, async_func_mutex, cv_mutex,
                  signalled, performed, refused, timeouts, fulls, undefined>>
  BY DEF LockCv, mode, memory, queue, loop, mutexes, history
<1>2. at' \in [Thread -> Places]
  BY <1>0 DEF TypeOK, Places, LockCv, Goto
<1> QED
  BY <1>1, <1>2, <1>0 DEF TypeOK

\* What TakeCv changes, and that it keeps the types.
LEMMA TakeCvTypes ==
    ASSUME Base, NEW t \in Thread, TakeCv(t)
    PROVE  TypeOK' /\ UNCHANGED <<no_multi_thread_f, f_multi_thread, check_retrives,
                                  calls, of, rv, live, async_queue, sig, idle, lat, item,
                                  async_func_mutex, signalled, performed, refused,
                                  timeouts, fulls, undefined>>
<1>0. TypeOK
  BY DEF Base
<1>1. UNCHANGED <<no_multi_thread_f, f_multi_thread, check_retrives, calls, of, rv, live,
                  async_queue, sig, idle, lat, item, async_func_mutex, signalled,
                  performed, refused, timeouts, fulls, undefined>>
  BY DEF TakeCv, mode, memory, queue, loop, history
<1>2. at' \in [Thread -> Places]
  BY <1>0 DEF TypeOK, Places, TakeCv, Goto
<1>3. cv_mutex' \in Thread \cup {Loop, None}
  BY <1>0 DEF TypeOK, TakeCv
<1> QED
  BY <1>1, <1>2, <1>3, <1>0 DEF TypeOK

\* What Add changes, and that it keeps the types.
LEMMA AddTypes ==
    ASSUME Base, NEW t \in Thread, Add(t)
    PROVE  TypeOK' /\ UNCHANGED <<no_multi_thread_f, f_multi_thread, check_retrives,
                                  calls, of, rv, live, idle, lat, item, async_func_mutex,
                                  cv_mutex, signalled, performed, refused, timeouts,
                                  fulls, undefined>>
<1>0. TypeOK
  BY DEF Base
<1>1. UNCHANGED <<no_multi_thread_f, f_multi_thread, check_retrives, calls, of, rv, live,
                  idle, lat, item, async_func_mutex, cv_mutex, signalled, performed,
                  refused, timeouts, fulls, undefined>>
  BY DEF Add, mode, memory, loop, mutexes, history, Goto, UdOf
<1>2. at' \in [Thread -> Places]
  BY <1>0 DEF TypeOK, Places, Add, Goto, UdOf
<1>3. async_queue' \in Seq(Ud)
  BY <1>0, UdOfIs DEF TypeOK, Add, mode, memory, loop, mutexes, history, Goto, UdOf
<1>4. sig' \in BOOLEAN
  BY <1>0 DEF TypeOK, Add, UdOf
<1> QED
  BY <1>1, <1>2, <1>3, <1>4, <1>0 DEF TypeOK

\* What Wait changes, and that it keeps the types.
LEMMA WaitTypes ==
    ASSUME Base, NEW t \in Thread, Wait(t)
    PROVE  TypeOK' /\ UNCHANGED <<no_multi_thread_f, f_multi_thread, check_retrives,
                                  calls, of, rv, live, async_queue, sig, idle, lat, item,
                                  async_func_mutex, signalled, performed, refused,
                                  timeouts, fulls>>
<1>0. TypeOK
  BY DEF Base
<1>1. UNCHANGED <<no_multi_thread_f, f_multi_thread, check_retrives, calls, of, rv, live,
                  async_queue, sig, idle, lat, item, async_func_mutex, signalled,
                  performed, refused, timeouts, fulls>>
  BY DEF Wait, mode, queue, loop, history, Goto, UnlockCv, MULTITHREADED
<1>2. at' \in [Thread -> Places]
  BY <1>0 DEF TypeOK, Places, Wait, Goto, UnlockCv, MULTITHREADED
<1>3. cv_mutex' \in Thread \cup {Loop, None}
  BY <1>0 DEF TypeOK, Wait, UnlockCv, MULTITHREADED
<1>4. undefined' \in BOOLEAN
  BY <1>0 DEF TypeOK, Wait, UnlockCv, MULTITHREADED
<1> QED
  BY <1>1, <1>2, <1>3, <1>4, <1>0 DEF TypeOK

\* What Wake changes, and that it keeps the types.
LEMMA WakeTypes ==
    ASSUME Base, NEW t \in Thread, Wake(t)
    PROVE  TypeOK' /\ UNCHANGED <<no_multi_thread_f, f_multi_thread, check_retrives,
                                  calls, of, rv, live, async_queue, sig, idle, lat, item,
                                  async_func_mutex, performed, refused, timeouts, fulls,
                                  undefined>>
<1>0. TypeOK
  BY DEF Base
<1>1. UNCHANGED <<no_multi_thread_f, f_multi_thread, check_retrives, calls, of, rv, live,
                  async_queue, sig, idle, lat, item, async_func_mutex, performed, refused,
                  timeouts, fulls, undefined>>
  BY DEF Wake, mode, memory, queue, loop, history, Goto
<1>2. at' \in [Thread -> Places]
  BY <1>0 DEF TypeOK, Places, Wake, Goto
<1>3. signalled' \in BOOLEAN
  BY <1>0 DEF TypeOK, Wake
<1>4. cv_mutex' \in Thread \cup {Loop, None}
  BY <1>0 DEF TypeOK, Wake
<1> QED
  BY <1>1, <1>2, <1>3, <1>4, <1>0 DEF TypeOK

\* What Waited changes, and that it keeps the types.
LEMMA WaitedTypes ==
    ASSUME Base, NEW t \in Thread, Waited(t)
    PROVE  TypeOK' /\ UNCHANGED <<no_multi_thread_f, calls, of, rv, live, async_queue,
                                  sig, idle, lat, item, async_func_mutex, signalled,
                                  performed, refused, timeouts, fulls>>
<1>0. TypeOK
  BY DEF Base
<1>1. UNCHANGED <<no_multi_thread_f, calls, of, rv, live, async_queue, sig, idle, lat,
                  item, async_func_mutex, signalled, performed, refused, timeouts, fulls>>
  BY DEF Waited, queue, loop, history, Goto, Touch, UdOf, ReadRv, MULTITHREADED
<1>2. at' \in [Thread -> Places]
  BY <1>0 DEF TypeOK, Places, Waited, Goto, Touch, UdOf, ReadRv, MULTITHREADED
<1>3. check_retrives' \in Nat
  <2>1. check_retrives' = check_retrives \/ check_retrives' = check_retrives + 1
    BY DEF Waited, queue, loop, history, Goto, Touch, UdOf, ReadRv, MULTITHREADED
  <2> QED
    BY <1>0, <2>1 DEF TypeOK
<1>4. f_multi_thread' \in {"NOT_DEFINED_MULTITHREAD", "MULTITHREAD", "NO_MULTITHREAD"}
  BY <1>0 DEF TypeOK, Waited, Touch, UdOf, ReadRv, MULTITHREADED
<1>5. cv_mutex' \in Thread \cup {Loop, None}
  BY <1>0 DEF TypeOK, Waited, Touch, UdOf, ReadRv, MULTITHREADED
<1>6. undefined' \in BOOLEAN
  BY <1>0 DEF TypeOK, Waited, Touch, UdOf, ReadRv, MULTITHREADED
<1> QED
  BY <1>1, <1>2, <1>3, <1>4, <1>5, <1>6, <1>0 DEF TypeOK

\* What Unlock changes, and that it keeps the types.
LEMMA UnlockTypes ==
    ASSUME Base, NEW t \in Thread, Unlock(t)
    PROVE  TypeOK' /\ UNCHANGED <<no_multi_thread_f, f_multi_thread, check_retrives,
                                  calls, of, rv, live, async_queue, sig, idle, lat, item,
                                  signalled, performed, refused, timeouts, fulls>>
<1>0. TypeOK
  BY DEF Base
<1>1. UNCHANGED <<no_multi_thread_f, f_multi_thread, check_retrives, calls, of, rv, live,
                  async_queue, sig, idle, lat, item, signalled, performed, refused,
                  timeouts, fulls>>
  BY DEF Unlock, mode, queue, loop, history, Goto, UnlockCvIfMulti, UnlockCv, MULTITHREADED
<1>2. at' \in [Thread -> Places]
  BY <1>0 DEF TypeOK, Places, Unlock, Goto, UnlockCvIfMulti, UnlockCv, MULTITHREADED
<1>3. async_func_mutex' \in Thread \cup {None}
  BY <1>0 DEF TypeOK, Unlock, UnlockCvIfMulti, UnlockCv, MULTITHREADED
<1>4. cv_mutex' \in Thread \cup {Loop, None}
  BY <1>0 DEF TypeOK, Unlock, UnlockCvIfMulti, UnlockCv, MULTITHREADED
<1>5. undefined' \in BOOLEAN
  BY <1>0 DEF TypeOK, Unlock, UnlockCvIfMulti, UnlockCv, MULTITHREADED
<1> QED
  BY <1>1, <1>2, <1>3, <1>4, <1>5, <1>0 DEF TypeOK

\* What Decide changes, and that it keeps the types.
LEMMA DecideTypes ==
    ASSUME Base, NEW t \in Thread, Decide(t)
    PROVE  TypeOK' /\ UNCHANGED <<no_multi_thread_f, f_multi_thread, check_retrives,
                                  calls, of, rv, live, async_queue, sig, idle, lat, item,
                                  async_func_mutex, cv_mutex, signalled, performed,
                                  refused, timeouts, fulls>>
<1>0. TypeOK
  BY DEF Base
<1>1. UNCHANGED <<no_multi_thread_f, f_multi_thread, check_retrives, calls, of, rv, live,
                  async_queue, sig, idle, lat, item, async_func_mutex, cv_mutex,
                  signalled, performed, refused, timeouts, fulls>>
  BY DEF Decide, mode, queue, loop, mutexes, history, Goto, Touch, UdOf, ReadRv,
     MULTITHREADED
<1>2. at' \in [Thread -> Places]
  BY <1>0 DEF TypeOK, Places, Decide, Goto, Touch, UdOf, ReadRv, MULTITHREADED
<1>3. undefined' \in BOOLEAN
  BY <1>0 DEF TypeOK, Decide, Touch, UdOf, ReadRv, MULTITHREADED
<1> QED
  BY <1>1, <1>2, <1>3, <1>0 DEF TypeOK

\* What Return changes, and that it keeps the types.
LEMMA ReturnTypes ==
    ASSUME Base, NEW t \in Thread, Return(t)
    PROVE  TypeOK' /\ UNCHANGED <<no_multi_thread_f, f_multi_thread, check_retrives,
                                  calls, of, rv, async_queue, sig, idle, lat, item,
                                  async_func_mutex, cv_mutex, signalled, performed,
                                  refused, timeouts, fulls>>
<1>0. TypeOK
  BY DEF Base
<1>1. UNCHANGED <<no_multi_thread_f, f_multi_thread, check_retrives, calls, of, rv,
                  async_queue, sig, idle, lat, item, async_func_mutex, cv_mutex,
                  signalled, performed, refused, timeouts, fulls>>
  BY DEF Return, mode, queue, loop, mutexes, history, Goto, FreedByCaller, UdOf,
     MULTITHREADED
<1>2. at' \in [Thread -> Places]
  BY <1>0 DEF TypeOK, Places, Return, Goto, FreedByCaller, UdOf, MULTITHREADED
<1>3. live' \in SUBSET Ud
  BY <1>0 DEF TypeOK, Return, FreedByCaller, UdOf, MULTITHREADED
<1>4. undefined' \in BOOLEAN
  BY <1>0 DEF TypeOK, Return, FreedByCaller, UdOf, MULTITHREADED
<1> QED
  BY <1>1, <1>2, <1>3, <1>4, <1>0 DEF TypeOK

\* What CheckReturns changes, and that it keeps the types.
LEMMA CheckReturnsTypes ==
    ASSUME Base, NEW t \in Thread, CheckReturns(t)
    PROVE  TypeOK' /\ UNCHANGED <<no_multi_thread_f, calls, async_queue, sig, idle, lat,
                                  item, async_func_mutex, cv_mutex, signalled, performed,
                                  refused, timeouts, fulls>>
<1>0. TypeOK
  BY DEF Base
<1>1. UNCHANGED <<no_multi_thread_f, calls, async_queue, sig, idle, lat, item,
                  async_func_mutex, cv_mutex, signalled, performed, refused, timeouts,
                  fulls>>
  BY DEF CheckReturns, queue, loop, mutexes, history, Touch, Open, UdOf, FreedByCaller,
     ReadRv, Goto, MULTITHREADED
<1>2. at' \in [Thread -> Places]
  BY <1>0 DEF TypeOK, Places, CheckReturns, Touch, Open, UdOf, FreedByCaller, ReadRv,
     Goto, MULTITHREADED
<1>3. of' \in [Thread -> {"check", "send"}]
  BY <1>0 DEF TypeOK, CheckReturns, Touch, Open, UdOf, FreedByCaller, ReadRv, MULTITHREADED
<1>4. live' \in SUBSET Ud
  <2>1. calls[t] \in 1..MaxCalls
    BY UdOfIs DEF CheckReturns
  <2>2. [thread |-> t, call |-> calls[t], of |-> "send"] \in Ud
    BY <2>1 DEF Ud
  <2> QED
    BY <1>0, <2>2 DEF TypeOK, Open, CheckReturns
<1>5. rv' \in [Ud -> Rv]
  BY <1>0 DEF TypeOK, Rv, CheckReturns, Touch, Open, UdOf, FreedByCaller, ReadRv,
     MULTITHREADED
<1>6. f_multi_thread' \in {"NOT_DEFINED_MULTITHREAD", "MULTITHREAD", "NO_MULTITHREAD"}
  BY <1>0 DEF TypeOK, CheckReturns, Touch, UdOf, FreedByCaller, ReadRv, MULTITHREADED
<1>7. check_retrives' \in Nat
  <2>1. check_retrives' = check_retrives \/ check_retrives' = 0
    BY DEF CheckReturns, queue, loop, mutexes, history, Touch, Open, UdOf, FreedByCaller,
       ReadRv, Goto, MULTITHREADED
  <2> QED
    BY <1>0, <2>1 DEF TypeOK
<1>8. undefined' \in BOOLEAN
  BY <1>0 DEF TypeOK, CheckReturns, Touch, UdOf, FreedByCaller, ReadRv, MULTITHREADED
<1> QED
  BY <1>1, <1>2, <1>3, <1>4, <1>5, <1>6, <1>7, <1>8, <1>0 DEF TypeOK

\* What SigAsync changes, and that it keeps the types.
LEMMA SigAsyncTypes ==
    ASSUME Base, SigAsync
    PROVE  TypeOK' /\ UNCHANGED <<no_multi_thread_f, f_multi_thread, check_retrives, at,
                                  calls, of, rv, live, async_func_mutex, cv_mutex,
                                  signalled, performed, refused, timeouts, fulls>>
<1>0. TypeOK
  BY DEF Base
<1>1. UNCHANGED <<no_multi_thread_f, f_multi_thread, check_retrives, at, calls, of, rv,
                  live, async_func_mutex, cv_mutex, signalled, performed, refused,
                  timeouts, fulls>>
  BY DEF SigAsync, mode, threads, loop, mutexes, history, Handled, Touch
<1>2. sig' \in BOOLEAN
  BY <1>0 DEF TypeOK, SigAsync, Handled, Touch
<1>3. async_queue' \in Seq(Ud)
  BY <1>0, QueueHead DEF TypeOK, SigAsync, mode, threads, loop, mutexes, history, Handled,
     Touch
<1>4. undefined' \in BOOLEAN
  BY <1>0 DEF TypeOK, SigAsync, Handled, Touch
<1>5. lat' \in LoopPlaces
  <2>1. lat' \in {lat, "outside"} \/ (async_queue # <<>> /\ lat' = Head(async_queue).of)
    BY DEF SigAsync, mode, threads, loop, mutexes, history, Handled, Touch
  <2> QED
    BY <1>0, <2>1, QueueHead DEF TypeOK, LoopPlaces
<1>6. item' \in Ud \cup {None}
  <2>1. item' \in {item, None} \/ (async_queue # <<>> /\ item' = Head(async_queue))
    BY DEF SigAsync, mode, threads, loop, mutexes, history, Handled, Touch
  <2> QED
    BY <1>0, <2>1, QueueHead DEF TypeOK
<1>7. idle' \in BOOLEAN
  BY <1>0 DEF TypeOK, SigAsync, Handled, Touch
<1> QED
  BY <1>1, <1>2, <1>3, <1>4, <1>5, <1>6, <1>7, <1>0 DEF TypeOK

\* What IdleAsync changes, and that it keeps the types.
LEMMA IdleAsyncTypes ==
    ASSUME Base, IdleAsync
    PROVE  TypeOK' /\ UNCHANGED <<no_multi_thread_f, f_multi_thread, check_retrives, at,
                                  calls, of, rv, live, async_queue, lat, item,
                                  async_func_mutex, cv_mutex, signalled, performed,
                                  refused, timeouts, fulls, undefined>>
<1>0. TypeOK
  BY DEF Base
<1>1. UNCHANGED <<no_multi_thread_f, f_multi_thread, check_retrives, at, calls, of, rv,
                  live, async_queue, lat, item, async_func_mutex, cv_mutex, signalled,
                  performed, refused, timeouts, fulls, undefined>>
  BY DEF IdleAsync, mode, threads, memory, loop, mutexes, history
<1>2. idle' \in BOOLEAN
  BY <1>0 DEF TypeOK, IdleAsync
<1>3. sig' \in BOOLEAN
  BY <1>0 DEF TypeOK, IdleAsync
<1> QED
  BY <1>1, <1>2, <1>3, <1>0 DEF TypeOK

\* What CheckAnswers changes, and that it keeps the types.
LEMMA CheckAnswersTypes ==
    ASSUME Base, CheckAnswers
    PROVE  TypeOK' /\ UNCHANGED <<no_multi_thread_f, f_multi_thread, check_retrives, at,
                                  calls, of, rv, live, async_queue, sig, idle, item,
                                  async_func_mutex, cv_mutex, signalled, performed,
                                  refused, timeouts, fulls, undefined>>
<1>0. TypeOK
  BY DEF Base
<1>1. UNCHANGED <<no_multi_thread_f, f_multi_thread, check_retrives, at, calls, of, rv,
                  live, async_queue, sig, idle, item, async_func_mutex, cv_mutex,
                  signalled, performed, refused, timeouts, fulls, undefined>>
  BY DEF CheckAnswers, mode, threads, memory, queue, mutexes, history, MULTITHREADED
<1>2. lat' \in LoopPlaces
  BY <1>0 DEF TypeOK, LoopPlaces, CheckAnswers, MULTITHREADED
<1> QED
  BY <1>1, <1>2, <1>0 DEF TypeOK

\* What Answer changes, and that it keeps the types.
LEMMA AnswerTypes ==
    ASSUME Base, Answer
    PROVE  TypeOK' /\ UNCHANGED <<no_multi_thread_f, f_multi_thread, check_retrives, at,
                                  calls, of, live, async_queue, sig, async_func_mutex,
                                  cv_mutex, performed, refused, timeouts, fulls>>
<1>0. TypeOK
  BY DEF Base
<1>1. UNCHANGED <<no_multi_thread_f, f_multi_thread, check_retrives, at, calls, of, live,
                  async_queue, sig, async_func_mutex, cv_mutex, performed, refused,
                  timeouts, fulls>>
  BY DEF Answer, mode, threads, history, Handled, Touch, Signal
<1>2. rv' \in [Ud -> Rv]
  BY <1>0 DEF TypeOK, Rv, Answer, Handled, Touch, Signal
<1>3. undefined' \in BOOLEAN
  BY <1>0 DEF TypeOK, Answer, Handled, Touch, Signal
<1>4. signalled' \in BOOLEAN
  BY <1>0 DEF TypeOK, Answer, Handled, Touch, Signal
<1>5. lat' \in LoopPlaces
  BY <1>0 DEF TypeOK, LoopPlaces, Answer, Handled, Touch, Signal
<1>6. item' \in Ud \cup {None}
  BY <1>0 DEF TypeOK, Answer, Handled, Touch, Signal
<1>7. idle' \in BOOLEAN
  BY <1>0 DEF TypeOK, Answer, Handled, Touch, Signal
<1> QED
  BY <1>1, <1>2, <1>3, <1>4, <1>5, <1>6, <1>7, <1>0 DEF TypeOK

\* What Begin changes, and that it keeps the types.
LEMMA BeginTypes ==
    ASSUME Base, Begin
    PROVE  TypeOK' /\ UNCHANGED <<no_multi_thread_f, f_multi_thread, check_retrives, at,
                                  calls, of, rv, live, async_queue, sig, idle, item,
                                  async_func_mutex, cv_mutex, signalled, performed,
                                  refused, timeouts, fulls, undefined>>
<1>0. TypeOK
  BY DEF Base
<1>1. UNCHANGED <<no_multi_thread_f, f_multi_thread, check_retrives, at, calls, of, rv,
                  live, async_queue, sig, idle, item, async_func_mutex, cv_mutex,
                  signalled, performed, refused, timeouts, fulls, undefined>>
  BY DEF Begin, mode, threads, memory, queue, mutexes, history, MULTITHREADED
<1>2. lat' \in LoopPlaces
  BY <1>0 DEF TypeOK, LoopPlaces, Begin, MULTITHREADED
<1> QED
  BY <1>1, <1>2, <1>0 DEF TypeOK

\* What LoopLock changes, and that it keeps the types.
LEMMA LoopLockTypes ==
    ASSUME Base, LoopLock
    PROVE  TypeOK' /\ UNCHANGED <<no_multi_thread_f, f_multi_thread, check_retrives, at,
                                  calls, of, rv, live, async_queue, sig, idle, item,
                                  async_func_mutex, signalled, performed, refused,
                                  timeouts, fulls, undefined>>
<1>0. TypeOK
  BY DEF Base
<1>1. UNCHANGED <<no_multi_thread_f, f_multi_thread, check_retrives, at, calls, of, rv,
                  live, async_queue, sig, idle, item, async_func_mutex, signalled,
                  performed, refused, timeouts, fulls, undefined>>
  BY DEF LoopLock, mode, threads, memory, queue, history
<1>2. cv_mutex' \in Thread \cup {Loop, None}
  BY <1>0 DEF TypeOK, LoopLock
<1>3. lat' \in LoopPlaces
  BY <1>0 DEF TypeOK, LoopPlaces, LoopLock
<1> QED
  BY <1>1, <1>2, <1>3, <1>0 DEF TypeOK

\* What Perform changes, and that it keeps the types.
LEMMA PerformTypes ==
    ASSUME Base, Perform
    PROVE  TypeOK' /\ UNCHANGED <<no_multi_thread_f, f_multi_thread, check_retrives, at,
                                  calls, of, live, async_queue, sig, idle, item,
                                  async_func_mutex, cv_mutex, signalled, timeouts>>
<1>0. TypeOK
  BY DEF Base
<1>1. UNCHANGED <<no_multi_thread_f, f_multi_thread, check_retrives, at, calls, of, live,
                  async_queue, sig, idle, item, async_func_mutex, cv_mutex, signalled,
                  timeouts>>
  BY DEF Perform, mode, threads, queue, mutexes, Touch, MULTITHREADED
<1>2. fulls' \in 0..MaxFull
  <2>1. fulls' = fulls \/ (fulls < MaxFull /\ fulls' = fulls + 1)
    BY DEF Perform, mode, threads, queue, mutexes, Touch, MULTITHREADED
  <2> QED
    BY <1>0, <2>1, AsyncAssumption DEF TypeOK
<1>3. rv' \in [Ud -> Rv]
  BY <1>0 DEF TypeOK, Rv, Perform, Touch, MULTITHREADED
<1>4. performed' \in Seq(Ud)
  <2>1. performed' = performed \/ performed' = Append(performed, item)
    BY DEF Perform, mode, threads, queue, mutexes, Touch, MULTITHREADED
  <2>2. item \in Ud
    BY Threads DEF Perform
  <2>3. performed \in Seq(Ud)
    BY <1>0 DEF TypeOK
  <2>4. Append(performed, item) \in Seq(Ud)
    BY <2>2, <2>3
  <2> QED
    BY <2>1, <2>3, <2>4
<1>5. refused' \in SUBSET Ud
  <2>1. refused' = refused \/ refused' = refused \cup {item}
    BY DEF Perform, mode, threads, queue, mutexes, Touch, MULTITHREADED
  <2>2. item \in Ud
    BY Threads DEF Perform
  <2> QED
    BY <1>0, <2>1, <2>2, Zenon DEF TypeOK
<1>6. undefined' \in BOOLEAN
  BY <1>0 DEF TypeOK, Perform, Touch, MULTITHREADED
<1>7. lat' \in LoopPlaces
  BY <1>0 DEF TypeOK, LoopPlaces, Perform, Touch, MULTITHREADED
<1> QED
  BY <1>1, <1>2, <1>3, <1>4, <1>5, <1>6, <1>7, <1>0 DEF TypeOK

\* What Tell changes, and that it keeps the types.
LEMMA TellTypes ==
    ASSUME Base, Tell
    PROVE  TypeOK' /\ UNCHANGED <<no_multi_thread_f, f_multi_thread, check_retrives, at,
                                  calls, of, rv, async_queue, sig, idle, item,
                                  async_func_mutex, cv_mutex, performed, refused,
                                  timeouts, fulls>>
<1>0. TypeOK
  BY DEF Base
<1>1. UNCHANGED <<no_multi_thread_f, f_multi_thread, check_retrives, at, calls, of, rv,
                  async_queue, sig, idle, item, async_func_mutex, cv_mutex, performed,
                  refused, timeouts, fulls>>
  BY DEF Tell, mode, threads, queue, history, Touch, Signal, MULTITHREADED
<1>2. live' \in SUBSET Ud
  BY <1>0 DEF TypeOK, Tell, Touch, Signal, MULTITHREADED
<1>3. undefined' \in BOOLEAN
  BY <1>0 DEF TypeOK, Tell, Touch, Signal, MULTITHREADED
<1>4. signalled' \in BOOLEAN
  BY <1>0 DEF TypeOK, Tell, Touch, Signal, MULTITHREADED
<1>5. lat' \in LoopPlaces
  BY <1>0 DEF TypeOK, LoopPlaces, Tell, Touch, Signal, MULTITHREADED
<1> QED
  BY <1>1, <1>2, <1>3, <1>4, <1>5, <1>0 DEF TypeOK

\* What LoopUnlock changes, and that it keeps the types.
LEMMA LoopUnlockTypes ==
    ASSUME Base, LoopUnlock
    PROVE  TypeOK' /\ UNCHANGED <<no_multi_thread_f, f_multi_thread, check_retrives, at,
                                  calls, of, rv, live, async_queue, sig, async_func_mutex,
                                  signalled, performed, refused, timeouts, fulls>>
<1>0. TypeOK
  BY DEF Base
<1>1. UNCHANGED <<no_multi_thread_f, f_multi_thread, check_retrives, at, calls, of, rv,
                  live, async_queue, sig, async_func_mutex, signalled, performed, refused,
                  timeouts, fulls>>
  BY DEF LoopUnlock, mode, threads, history, Handled, UnlockCvIfMulti, UnlockCv,
     MULTITHREADED
<1>2. cv_mutex' \in Thread \cup {Loop, None}
  BY <1>0 DEF TypeOK, LoopUnlock, Handled, UnlockCvIfMulti, UnlockCv, MULTITHREADED
<1>3. undefined' \in BOOLEAN
  BY <1>0 DEF TypeOK, LoopUnlock, Handled, UnlockCvIfMulti, UnlockCv, MULTITHREADED
<1>4. lat' \in LoopPlaces
  BY <1>0 DEF TypeOK, LoopPlaces, LoopUnlock, Handled, UnlockCvIfMulti, UnlockCv,
     MULTITHREADED
<1>5. item' \in Ud \cup {None}
  BY <1>0 DEF TypeOK, LoopUnlock, Handled, UnlockCvIfMulti, UnlockCv, MULTITHREADED
<1>6. idle' \in BOOLEAN
  BY <1>0 DEF TypeOK, LoopUnlock, Handled, UnlockCvIfMulti, UnlockCv, MULTITHREADED
<1> QED
  BY <1>1, <1>2, <1>3, <1>4, <1>5, <1>6, <1>0 DEF TypeOK

-----------------------------------------------------------------------------
(* The steps keep the invariant.                                           *)

\* A thread calls.
LEMMA CallKeeps ==
    ASSUME IInv, NEW t \in Thread, Call(t)
    PROVE  IInv'
<1>1. /\ UNCHANGED <<no_multi_thread_f, f_multi_thread, check_retrives, of, rv, live,
                     async_queue, sig, idle, lat, item, async_func_mutex, cv_mutex,
                     signalled, performed, refused, timeouts, fulls, undefined>>
      /\ TypeOK'
  BY CallTypes, BaseOf
<1>2. TypeOK /\ Common /\ None \notin Thread
  BY Modes, AsyncAssumption
<1>3. /\ at[t] = "outside" /\ at'[t] = "begins"
      /\ \A u \in Thread \ {t} : at'[u] = at[u]
      /\ calls'[t] = calls[t] + 1 /\ calls[t] \in Nat
      /\ \A u \in Thread \ {t} : calls'[u] = calls[u]
  BY <1>2, AsyncAssumption DEF TypeOK, Common, Call, mode, memory, queue, loop, mutexes,
     history, Goto
<1>4. /\ \A u \in Thread \ {t} : /\ UdOf(u)' = UdOf(u)
                                 /\ (Unmade(u)' <=> Unmade(u))
                                 /\ (Answered(u)' <=> Answered(u))
      /\ Unmade(t)'
  <2>1. \A i \in DOMAIN performed : performed[i].thread = t => performed[i].call < calls[t] + 1
    BY <1>2, <1>3, Threads, BaseOf DEF Common, Ud
  <2> QED
    BY <1>1, <1>3, <2>1, SameFor DEF Unmade
<1>9. \A ud \in Ud : ud.call <= calls[ud.thread] => ud.call <= calls'[ud.thread]
  <2> SUFFICES ASSUME NEW ud \in Ud, ud.call <= calls[ud.thread]
               PROVE  ud.call <= calls'[ud.thread]
    OBVIOUS
  <2>1. ud.thread \in Thread /\ ud.call \in Nat
    BY DEF Ud
  <2>2. CASE ud.thread = t
    BY <1>3, <2>1, <2>2
  <2>3. CASE ud.thread # t
    BY <1>3, <2>1, <2>3
  <2> QED
    BY <2>2, <2>3
<1>5. Common'
  <2>1. \A u \in Thread : at'[u] # "outside" => calls'[u] # 0
    BY <1>2, <1>3 DEF Common
  <2>2. \A i \in DOMAIN performed : /\ performed[i].of = "send"
                                    /\ performed[i].call <= calls'[performed[i].thread]
    BY <1>2, <1>9, Threads, BaseOf DEF Common
  <2>3. \A u \in Thread : async_func_mutex = u <=> at'[u] \in Holding
    BY <1>2, <1>3 DEF Common, Holding
  <2>4. OnceInOrder'
    BY <1>1, <1>2 DEF Common, OnceInOrder, Ordered
  <2> QED
    BY <1>1, <1>2, <2>1, <2>2, <2>3, <2>4 DEF Common, MULTITHREADED, CanMulti
<1> SUFFICES Mode'
  BY <1>1, <1>5 DEF IInv
<1>6. CASE MULTITHREADED
  <2>1. Owned /\ Locked /\ Exchanges /\ Synchronous
    BY <1>6, Modes DEF Multi
  <2>2. Owned'
    BY <1>1, <1>3, <1>4, <2>1, Threads, BaseOf DEF Owned, Sending
  <2>3. Locked'
    BY <1>1, <1>3, <2>1 DEF Locked
  <2>4. Exchanges'
    <3>1. \A u \in Thread \ {t} : InExchange(u) => InExchange(u)'
      BY <1>1, <1>3, <1>4 DEF InExchange
    <3>2. \A u \in Thread \ {t} :
              /\ at[u] \in Before => Unmade(u)
              /\ at[u] \in {"added", "waits"} => InExchange(u)
              /\ at[u] \in {"waited", "unlocks", "decides", "returns"} => Answered(u)
              /\ at[u] = "returns" => rv[UdOf(u)] # "full"
      BY <2>1 DEF Exchanges
    <3>3. (\A u \in Thread : at'[u] \notin {"added", "waits"}) => AtRest'
      BY <1>1, <1>3, <2>1 DEF Exchanges, AtRest
    <3> QED
      BY <1>1, <1>3, <1>4, <3>1, <3>2, <3>3 DEF Exchanges
  <2>5. Synchronous'
    <3>1. \A n \in 1..MaxCalls :
           n < calls[t] + 1 => n < calls[t] \/ (n = calls[t] /\ at[t] = "outside")
      BY <1>3, AsyncAssumption
    <3>2. \A u \in Thread, n \in 1..MaxCalls :
              n < calls'[u] \/ (n = calls'[u] /\ at'[u] = "outside")
                  => n < calls[u] \/ (n = calls[u] /\ at[u] = "outside")
      BY <1>3, <3>1
    <3> QED
      BY <1>1, <1>6, <2>1, <3>2 DEF Synchronous, CallsMade, MULTITHREADED
  <2> QED
    BY <1>1, <1>3, <1>6, <2>2, <2>3, <2>4, <2>5, StaysMulti
<1>7. CASE ~MULTITHREADED /\ CanMulti
  <2>1. Fresh'
    BY <1>1, <1>3, <1>7, Modes DEF Fresh
  <2> QED
    BY <1>1, <1>7, <2>1 DEF Mode, MULTITHREADED, CanMulti
<1>8. CASE ~CanMulti
  <2>1. NoLocks /\ Queued /\ InHand /\ Preparing
    BY <1>8, Modes DEF Single
  <2>2. \A ud \in Ud : PutIn(ud) => PutIn(ud)'
    <3> SUFFICES ASSUME NEW ud \in Ud, PutIn(ud) PROVE PutIn(ud)'
      OBVIOUS
    <3>1. /\ ud.thread \in Thread
          /\ ud.call \in Nat
          /\ ud.of = "send"
          /\ ud.call <= calls[ud.thread]
      BY DEF Ud, PutIn
    <3>2. CASE ud.thread = t
      <4>1. ud.call < calls'[t]
        BY <1>3, <3>1, <3>2
      <4> QED
        BY <1>9, <3>1, <3>2, <4>1 DEF PutIn
    <3>3. CASE ud.thread # t
      BY <1>3, <3>1, <3>3 DEF PutIn
    <3> QED
      BY <3>2, <3>3
  <2>3. NoLocks'
    BY <1>1, <1>3, <2>1 DEF NoLocks
  <2>4. Queued'
    BY <1>1, <2>1, <2>2, Threads, BaseOf DEF Queued, Earlier
  <2>5. InHand'
    BY <1>1, <2>1, <2>2, Threads, BaseOf DEF InHand, Earlier
  <2>6. Preparing'
    <3>1. \A u \in Thread : at'[u] \in Before => Unmade(u)'
      BY <1>3, <1>4, <2>1 DEF Preparing
    <3>2. \A u \in Thread : (PuttingIn(u)' <=> PuttingIn(u)) /\ (PuttingIn(u) => UdOf(u)' = UdOf(u))
      BY <1>3, <1>4 DEF PuttingIn
    <3>3. \A ud \in live : ud.thread \in Thread
      BY Threads, BaseOf
    <3>4. \A ud \in live : InQueue(ud)' <=> InQueue(ud)
      BY <1>1 DEF InQueue
    <3> QED
      BY <1>1, <2>1, <3>1, <3>2, <3>3, <3>4 DEF Preparing
  <2> QED
    BY <1>1, <1>8, <2>3, <2>4, <2>5, <2>6, StaysSingle
<1> QED
  BY <1>6, <1>7, <1>8, Modes

\* A thread finds the mode on, or off for good, or one that it will try.
LEMMA CheckMultiThreadKeeps ==
    ASSUME IInv, NEW t \in Thread, CheckMultiThread(t)
    PROVE  IInv'
<1>1. /\ UNCHANGED <<no_multi_thread_f, f_multi_thread, check_retrives, calls,
                     async_queue, sig, idle, lat, item, async_func_mutex, cv_mutex,
                     signalled, performed, refused, timeouts, fulls, undefined>>
      /\ TypeOK'
  BY CheckMultiThreadTypes, BaseOf
<1>2. TypeOK /\ Common /\ None \notin Thread
  BY Modes, AsyncAssumption
<1>3. /\ at[t] = "begins"
      /\ IF CanMulti /\ ~MULTITHREADED
         THEN Goto(t, "tries") /\ UNCHANGED <<of, rv, live>>
         ELSE Open(t, "send", {})
  BY <1>2 DEF Common, CheckMultiThread, CanMulti
<1>4. ASSUME ~(CanMulti /\ ~MULTITHREADED)
      PROVE
      /\ at'[t] = "locks" /\ \A u \in Thread \ {t} : at'[u] = at[u]
      /\ of'[t] = "send"
      /\ \A u \in Thread \ {t} : of'[u] = of[u]
      /\ live' = live \cup {UdOf(t)'}
      /\ UdOf(t)' \in Ud /\ UdOf(t)'.thread = t
      /\ \A u \in Thread \ {t} :
            /\ UdOf(u)' = UdOf(u) /\ (Unmade(u)' <=> Unmade(u))
            /\ at[u] # "outside" =>
                  (Answered(u)' <=> Answered(u)) /\ rv'[UdOf(u)] = rv[UdOf(u)]
      /\ Unmade(t)' <=> Unmade(t)
  BY <1>1, <1>3, <1>4, Opened
<1>5. Common'
  <2>1. at'[t] \in {"tries", "locks"} /\ \A u \in Thread \ {t} : at'[u] = at[u]
    BY <1>2, <1>3 DEF TypeOK, Open, Goto
  <2> QED
    BY <1>1, <1>2, <1>3, <2>1 DEF Common, MULTITHREADED, CanMulti, OnceInOrder, Ordered,
       Holding
<1> SUFFICES Mode'
  BY <1>1, <1>5 DEF IInv
<1>6. CASE MULTITHREADED
  <2>1. Owned /\ Locked /\ Exchanges /\ Synchronous
    BY <1>6, Modes DEF Multi
  <2>2. Owned'
    BY <1>1, <1>3, <1>4, <1>6, <2>1, Threads, BaseOf, UdOfThread DEF Owned, Sending
  <2>3. Locked'
    BY <1>1, <1>3, <1>4, <1>6, <2>1 DEF Locked
  <2>4. Exchanges'
    <3>1. \A u \in Thread \ {t} : at[u] \in {"added",
          "waits"} /\ InExchange(u) => InExchange(u)'
      BY <1>1, <1>3, <1>4, <1>6 DEF InExchange
    <3> QED
      BY <1>1, <1>3, <1>4, <1>6, <2>1, <3>1 DEF Exchanges, AtRest, Before
  <2>5. Synchronous'
    BY <1>1, <1>3, <1>4, <1>6, <2>1 DEF Synchronous, CallsMade, MULTITHREADED
  <2> QED
    BY <1>1, <1>3, <1>6, <2>2, <2>3, <2>4, <2>5, StaysMulti
<1>7. CASE ~MULTITHREADED /\ CanMulti
  <2>1. at'[t] = "tries" /\ UNCHANGED live /\ \A u \in Thread \ {t} : at'[u] = at[u]
    BY <1>2, <1>3, <1>7 DEF TypeOK, Goto
  <2>2. Fresh'
    BY <1>1, <1>3, <1>7, <2>1, Modes DEF Fresh
  <2> QED
    BY <1>1, <1>7, <2>2 DEF Mode, MULTITHREADED, CanMulti
<1>8. CASE ~CanMulti
  <2>1. NoLocks /\ Queued /\ InHand /\ Preparing
    BY <1>8, Modes DEF Single
  <2>2. \A ud \in Ud : PutIn(ud) <=> PutIn(ud)'
    BY <1>1, <1>3, <1>4, <1>8 DEF PutIn, Before, Ud
  <2>3. NoLocks'
    BY <1>1, <1>3, <1>4, <1>8, <2>1 DEF NoLocks
  <2>4. Queued'
    BY <1>1, <1>4, <1>8, <2>1, <2>2, Threads, BaseOf DEF Queued, Earlier
  <2>5. InHand'
    <3>1. lat # "outside" => item # UdOf(t)'
      <4>1. lat # "outside" /\ item.thread = t => item.call < calls[t] /\ item.call \in Nat
        <5>1. lat # "outside" => PutIn(item) /\ item \in Ud
          BY <2>1, Threads, BaseOf DEF InHand
        <5>2. \A ud \in Ud : ud.call \in Nat
          BY DEF Ud
        <5> QED
          BY <1>3, <5>1, <5>2 DEF PutIn, Before
      <4>2. UdOf(t)'.thread = t /\ UdOf(t)'.call = calls[t]
        BY <1>1 DEF UdOf
      <4>3. calls[t] \in Nat
        BY <1>2, AsyncAssumption DEF TypeOK
      <4> QED
        BY <4>1, <4>2, <4>3
    <3> QED
      BY <1>1, <1>4, <1>8, <2>1, <2>2, <3>1, Threads, BaseOf DEF InHand, Earlier
  <2>6. Preparing'
    <3>1. \A u \in Thread : at'[u] \in Before => Unmade(u)'
      BY <1>3, <1>4, <1>8, <2>1 DEF Preparing, Before
    <3>2. /\ \A u \in Thread \ {t} : /\ PuttingIn(u)' <=> PuttingIn(u)
                                     /\ UdOf(u)' = UdOf(u)
          /\ PuttingIn(t)' /\ ~PuttingIn(t)
      BY <1>3, <1>4, <1>8 DEF PuttingIn
    <3>3. \A u \in Thread : PuttingIn(u)' => UdOf(u)' \in live'
      BY <1>4, <1>8, <2>1, <3>2 DEF Preparing
    <3>4. \A ud \in live : ud.thread \in Thread /\ (InQueue(ud)' <=> InQueue(ud))
      BY <1>1, Threads, BaseOf DEF InQueue
    <3>5. \A ud \in live : InQueue(ud)' \/ (PuttingIn(ud.thread)' /\ ud = UdOf(ud.thread)')
      BY <2>1, <3>2, <3>4 DEF Preparing
    <3> QED
      BY <1>4, <1>8, <3>1, <3>2, <3>3, <3>5 DEF Preparing
  <2> QED
    BY <1>1, <1>3, <1>8, <2>3, <2>4, <2>5, <2>6, StaysSingle
<1> QED
  BY <1>6, <1>7, <1>8, Modes

\* The mode is set, by the first thread that tries it or by one that is late.
LEMMA TryMultiThreadKeeps ==
    ASSUME IInv, NEW t \in Thread, TryMultiThread(t)
    PROVE  IInv'
<1>1. /\ UNCHANGED <<no_multi_thread_f, check_retrives, calls, async_queue, sig, idle,
                     lat, item, async_func_mutex, cv_mutex, signalled, performed, refused,
                     timeouts, fulls, undefined>>
      /\ TypeOK' /\ MULTITHREADED' /\ Open(t, "check", {})
  BY TryMultiThreadTypes, BaseOf
<1>2. TypeOK /\ Common /\ None \notin Thread
  BY Modes, AsyncAssumption
<1>3. at[t] = "tries" /\ CanMulti
  BY Modes DEF TryMultiThread, Single, NoLocks
<1>4. /\ at'[t] = "locks" /\ \A u \in Thread \ {t} : at'[u] = at[u]
      /\ of'[t] = "check"
      /\ \A u \in Thread \ {t} : of'[u] = of[u]
      /\ live' = live \cup {UdOf(t)'}
      /\ UdOf(t)' \in Ud /\ UdOf(t)'.thread = t
      /\ \A u \in Thread \ {t} :
            /\ UdOf(u)' = UdOf(u) /\ (Unmade(u)' <=> Unmade(u))
            /\ at[u] # "outside" =>
                  (Answered(u)' <=> Answered(u)) /\ rv'[UdOf(u)] = rv[UdOf(u)]
      /\ Unmade(t)' <=> Unmade(t)
  BY <1>1, <1>3, Opened
<1>5. Common'
  BY <1>1, <1>2, <1>3, <1>4 DEF Common, MULTITHREADED, CanMulti, OnceInOrder, Ordered,
     Holding
<1> SUFFICES Mode'
  BY <1>1, <1>5 DEF IInv
<1>6. CASE MULTITHREADED
  <2>1. Owned /\ Locked /\ Exchanges /\ Synchronous
    BY <1>6, Modes DEF Multi
  <2>2. Owned'
    BY <1>1, <1>3, <1>4, <1>6, <2>1, Threads, BaseOf, UdOfThread DEF Owned, Sending
  <2>3. Locked'
    BY <1>1, <1>3, <1>4, <2>1 DEF Locked
  <2>4. Exchanges'
    <3>1. \A u \in Thread \ {t} : at[u] \in {"added",
          "waits"} /\ InExchange(u) => InExchange(u)'
      BY <1>1, <1>3, <1>4 DEF InExchange
    <3> QED
      BY <1>1, <1>3, <1>4, <1>6, <2>1, <3>1 DEF Exchanges, AtRest, Before
  <2>5. Synchronous'
    BY <1>1, <1>3, <1>4, <1>6, <2>1 DEF Synchronous, CallsMade, MULTITHREADED
  <2> QED
    BY <1>1, <1>3, <1>6, <2>2, <2>3, <2>4, <2>5, StaysMulti DEF MULTITHREADED
<1>7. CASE ~MULTITHREADED /\ CanMulti
  <2>1. /\ \A u \in Thread : \/ at[u] = "outside" /\ calls[u] = 0
                             \/ at[u] \in {"begins", "tries"} /\ calls[u] = 1
        /\ live = {} /\ async_queue = <<>> /\ lat = "outside"
        /\ cv_mutex = None /\ ~signalled /\ performed = <<>>
    BY <1>7, Modes DEF Fresh
  <2>2. Owned'
    BY <1>1, <1>3, <1>4, <2>1, UdOfThread DEF Owned, Sending
  <2>3. Locked'
    BY <1>1, <1>2, <1>4, <2>1, AsyncAssumption DEF Locked
  <2>4. Exchanges'
    <3>1. \A u \in Thread : Unmade(u)'
      BY <1>1, <2>1 DEF Unmade
    <3> QED
      BY <1>1, <1>3, <1>4, <2>1, <3>1 DEF Exchanges, AtRest
  <2>5. Synchronous'
    <3>1. \A n \in 1..MaxCalls : ~(n < 0) /\ n # 0 /\ ~(n < 1)
      BY AsyncAssumption
    <3> QED
      BY <1>1, <1>3, <1>4, <2>1, <3>1 DEF Synchronous
  <2>6. CanMulti' /\ MULTITHREADED'
    BY <1>1, <1>3, <1>7 DEF CanMulti, MULTITHREADED
  <2> QED
    BY <2>2, <2>3, <2>4, <2>5, <2>6 DEF Mode, Multi
<1> QED
  BY <1>3, <1>6, <1>7

\* LOCK_FUNC.
LEMMA LockFuncKeeps ==
    ASSUME IInv, NEW t \in Thread, LockFunc(t)
    PROVE  IInv'
<1>1. /\ UNCHANGED <<no_multi_thread_f, f_multi_thread, check_retrives, calls, of, rv,
                     live, async_queue, sig, idle, lat, item, cv_mutex, signalled,
                     performed, refused, timeouts, fulls, undefined>>
      /\ TypeOK'
  BY LockFuncTypes, BaseOf
<1>2. TypeOK /\ Common /\ None \notin Thread
  BY Modes, AsyncAssumption
<1>3. /\ at[t] = "locks" /\ at'[t] = "locks cv"
      /\ \A u \in Thread \ {t} : at'[u] = at[u]
      /\ async_func_mutex = None /\ async_func_mutex' = t
  BY <1>2, AsyncAssumption DEF TypeOK, Common, LockFunc, mode, memory, queue, loop,
     history, Goto
<1>4. \A u \in Thread : /\ UdOf(u)' = UdOf(u)
                        /\ (Unmade(u)' <=> Unmade(u))
                        /\ (Answered(u)' <=> Answered(u))
  BY <1>1, SameFor
<1>5. Common'
  BY <1>1, <1>2, <1>3 DEF Common, MULTITHREADED, CanMulti, OnceInOrder, Ordered, Holding
<1> SUFFICES Mode'
  BY <1>1, <1>5 DEF IInv
<1>6. CASE MULTITHREADED
  <2>1. /\ Owned
        /\ Locked
        /\ Exchanges
        /\ Synchronous
        /\ AtRest
        /\ \A u \in Thread : at[u] \notin Holding
    BY <1>2, <1>3, <1>6, Modes DEF Common, Multi, Exchanges, Holding
  <2>2. Owned'
    BY <1>1, <1>3, <1>4, <2>1, Threads, BaseOf DEF Owned, Sending
  <2>3. Locked'
    BY <1>1, <1>3, <2>1 DEF Locked
  <2>4. Exchanges'
    BY <1>1, <1>3, <1>4, <2>1 DEF Exchanges, AtRest, Before, Holding
  <2>5. Synchronous'
    BY <1>1, <1>3, <2>1 DEF Synchronous, CallsMade, MULTITHREADED
  <2> QED
    BY <1>1, <1>3, <1>6, <2>2, <2>3, <2>4, <2>5, StaysMulti
<1>7. CASE ~MULTITHREADED /\ CanMulti
  BY <1>3, <1>7, Modes DEF Fresh
<1>8. CASE ~CanMulti
  BY <1>1, <1>3, <1>8, SingleMove, Modes DEF Before, PuttingIn
<1> QED
  BY <1>6, <1>7, <1>8, Modes

\* The thread reads the mode, to lock cv_mutex or not.
LEMMA LockCvKeeps ==
    ASSUME IInv, NEW t \in Thread, LockCv(t)
    PROVE  IInv'
<1>1. /\ UNCHANGED <<no_multi_thread_f, f_multi_thread, check_retrives, calls, of, rv,
                     live, async_queue, sig, idle, lat, item, async_func_mutex, cv_mutex,
                     signalled, performed, refused, timeouts, fulls, undefined>>
      /\ TypeOK'
  BY LockCvTypes, BaseOf
<1>2. TypeOK /\ Common /\ None \notin Thread
  BY Modes, AsyncAssumption
<1>3. /\ at[t] = "locks cv" /\ at'[t] = (IF MULTITHREADED THEN "takes cv" ELSE "adds")
      /\ \A u \in Thread \ {t} : at'[u] = at[u]
  BY <1>2 DEF TypeOK, LockCv, Goto
<1>4. \A u \in Thread : /\ UdOf(u)' = UdOf(u)
                        /\ (Unmade(u)' <=> Unmade(u))
                        /\ (Answered(u)' <=> Answered(u))
  BY <1>1, SameFor
<1>5. Common'
  BY <1>1, <1>2, <1>3 DEF Common, MULTITHREADED, CanMulti, OnceInOrder, Ordered, Holding
<1> SUFFICES Mode'
  BY <1>1, <1>5 DEF IInv
<1>6. CASE MULTITHREADED
  <2>1. /\ Owned
        /\ Locked
        /\ Exchanges
        /\ Synchronous
        /\ \A u \in Thread \ {t} : at[u] \notin Holding
    BY <1>2, <1>3, <1>6, Modes, OneHolder DEF Multi, Holding
  <2>2. Owned'
    BY <1>1, <1>3, <1>4, <1>6, <2>1, Threads, BaseOf DEF Owned, Sending
  <2>3. Locked'
    BY <1>1, <1>3, <1>6, <2>1 DEF Locked
  <2>4. Exchanges'
    BY <1>1, <1>3, <1>4, <1>6, <2>1 DEF Exchanges, AtRest, Before, Holding
  <2>5. Synchronous'
    BY <1>1, <1>3, <1>6, <2>1 DEF Synchronous, CallsMade, MULTITHREADED
  <2> QED
    BY <1>1, <1>3, <1>6, <2>2, <2>3, <2>4, <2>5, StaysMulti
<1>7. CASE ~MULTITHREADED /\ CanMulti
  BY <1>3, <1>7, Modes DEF Fresh
<1>8. CASE ~CanMulti
  BY <1>1, <1>3, <1>8, SingleMove, Modes DEF Before, PuttingIn
<1> QED
  BY <1>6, <1>7, <1>8, Modes

\* LOCK_CV.
LEMMA TakeCvKeeps ==
    ASSUME IInv, NEW t \in Thread, TakeCv(t)
    PROVE  IInv'
<1>1. /\ UNCHANGED <<no_multi_thread_f, f_multi_thread, check_retrives, calls, of, rv,
                     live, async_queue, sig, idle, lat, item, async_func_mutex, signalled,
                     performed, refused, timeouts, fulls, undefined>>
      /\ TypeOK'
  BY TakeCvTypes, BaseOf
<1>2. TypeOK /\ Common /\ None \notin Thread
  BY Modes, AsyncAssumption
<1>3. /\ at[t] = "takes cv" /\ at'[t] = "adds"
      /\ \A u \in Thread \ {t} : at'[u] = at[u]
      /\ cv_mutex = None /\ cv_mutex' = t
  BY <1>2 DEF TypeOK, TakeCv, Goto
<1>4. \A u \in Thread : /\ UdOf(u)' = UdOf(u)
                        /\ (Unmade(u)' <=> Unmade(u))
                        /\ (Answered(u)' <=> Answered(u))
  BY <1>1, SameFor
<1>5. Common'
  BY <1>1, <1>2, <1>3 DEF Common, MULTITHREADED, CanMulti, OnceInOrder, Ordered, Holding
<1> SUFFICES Mode'
  BY <1>1, <1>5 DEF IInv
<1>6. CASE MULTITHREADED
  <2>1. /\ Owned
        /\ Locked
        /\ Exchanges
        /\ Synchronous
        /\ \A u \in Thread \ {t} : at[u] \notin Holding
    BY <1>2, <1>3, <1>6, Modes, OneHolder DEF Multi, Holding
  <2>2. Owned'
    BY <1>1, <1>3, <1>4, <2>1, Threads, BaseOf DEF Owned, Sending
  <2>3. Locked'
    BY <1>1, <1>2, <1>3, <1>6, <2>1, AsyncAssumption DEF Locked
  <2>4. Exchanges'
    BY <1>1, <1>3, <1>4, <2>1 DEF Exchanges, AtRest, Before, Holding
  <2>5. Synchronous'
    BY <1>1, <1>3, <2>1 DEF Synchronous, CallsMade, MULTITHREADED
  <2> QED
    BY <1>1, <1>3, <1>6, <2>2, <2>3, <2>4, <2>5, StaysMulti
<1>7. CASE ~MULTITHREADED /\ CanMulti
  BY <1>3, <1>7, Modes DEF Fresh
<1>8. CASE ~CanMulti
  BY <1>3, <1>8, Modes DEF Single, NoLocks
<1> QED
  BY <1>6, <1>7, <1>8, Modes

\* ksnetEvMgrAsync: the thread's record goes behind those of others.
LEMMA AddKeeps ==
    ASSUME IInv, NEW t \in Thread, Add(t)
    PROVE  IInv'
<1>1. /\ UNCHANGED <<no_multi_thread_f, f_multi_thread, check_retrives, calls, of, rv,
                     live, idle, lat, item, async_func_mutex, cv_mutex, signalled,
                     performed, refused, timeouts, fulls, undefined>>
      /\ TypeOK'
  BY AddTypes, BaseOf
<1>2. TypeOK /\ Common /\ None \notin Thread
  BY Modes, AsyncAssumption
<1>3. /\ at[t] = "adds" /\ at'[t] = "added"
      /\ \A u \in Thread \ {t} : at'[u] = at[u]
      /\ async_queue' = Append(async_queue, UdOf(t))
  BY <1>2, AsyncAssumption DEF TypeOK, Common, Add, mode, memory, loop, mutexes, history,
     Goto, UdOf
<1>4. \A u \in Thread : /\ UdOf(u)' = UdOf(u)
                        /\ (Unmade(u)' <=> Unmade(u))
                        /\ (Answered(u)' <=> Answered(u))
  BY <1>1, SameFor
<1>5. Common'
  BY <1>1, <1>2, <1>3 DEF Common, MULTITHREADED, CanMulti, OnceInOrder, Ordered, Holding
<1> SUFFICES Mode'
  BY <1>1, <1>5 DEF IInv
<1>6. CASE MULTITHREADED
  <2>1. /\ Owned
        /\ Locked
        /\ Exchanges
        /\ Synchronous
        /\ \A u \in Thread \ {t} : at[u] \notin Holding
    BY <1>2, <1>3, <1>6, Modes, OneHolder DEF Multi, Holding
  <2>a. AtRest /\ Unmade(t)
    BY <1>3, <2>1 DEF Exchanges, Before, Holding
  <2>b. async_queue' = <<UdOf(t)>>
    BY <1>3, <2>a DEF AtRest
  <2>2. Owned'
    BY <1>1, <1>3, <1>4, <2>1, Threads, BaseOf DEF Owned, Sending
  <2>3. Locked'
    BY <1>1, <1>3, <2>1 DEF Locked
  <2>4. Exchanges'
    BY <1>1, <1>3, <1>4, <2>1, <2>a, <2>b DEF Exchanges, AtRest, InExchange, Before, Holding
  <2>5. Synchronous'
    BY <1>1, <1>3, <2>1 DEF Synchronous, CallsMade, MULTITHREADED
  <2> QED
    BY <1>1, <1>3, <1>6, <2>2, <2>3, <2>4, <2>5, StaysMulti
<1>7. CASE ~MULTITHREADED /\ CanMulti
  BY <1>3, <1>7, Modes DEF Fresh
<1>8. CASE ~CanMulti
  <2>1. NoLocks /\ Queued /\ InHand /\ Preparing
    BY <1>8, Modes DEF Single
  <2>2. /\ DOMAIN async_queue' = DOMAIN async_queue \cup {Len(async_queue) + 1}
        /\ \A i \in DOMAIN async_queue : /\ async_queue'[i] = async_queue[i]
                                         /\ i < Len(async_queue) + 1
        /\ async_queue'[Len(async_queue) + 1] = UdOf(t)
        /\ ~(Len(async_queue) + 1 < Len(async_queue) + 1)
    BY <1>2, <1>3 DEF TypeOK
  <2>z. PICK ud : ud = UdOf(t)
    OBVIOUS
  <2>y. /\ ud.thread = t
        /\ ud.call = calls[t]
        /\ ud.of = "send"
        /\ ud \in live
        /\ ud \in Ud
        /\ Unmade(t)
    BY <1>3, <2>1, <2>z, UdOfIs, BaseOf DEF UdOf, Before, NoLocks, Preparing, PuttingIn
  <2>3. PutIn(ud)'
    <3>1. calls[t] <= calls[t]
      BY <1>3, UdOfIs, BaseOf, AsyncAssumption
    <3> QED
      BY <1>1, <1>3, <2>y, <3>1 DEF PutIn, Before
  <2>4. \A other \in Ud : PutIn(other) => PutIn(other)' /\ Earlier(other, ud)
    BY <1>1, <1>3, <2>y DEF PutIn, Before, Ud, Earlier
  <2>5. \A u \in Thread : /\ at'[u] \in Before => at[u] \in Before
                          /\ PuttingIn(u)' <=> PuttingIn(u) /\ u # t
    BY <1>3 DEF Before, PuttingIn
  <2>6. \A other : InQueue(other)' <=> InQueue(other) \/ other = UdOf(t)
    BY <1>1, <2>2 DEF InQueue
  <2>7. NoLocks'
    BY <1>1, <1>3, <2>1 DEF NoLocks
  <2>x. async_queue'[Len(async_queue) + 1] = ud
    BY <2>2, <2>z
  <2>8. Queued'
    <3> SUFFICES ASSUME NEW i \in DOMAIN async_queue', NEW e, e = async_queue'[i]
                 PROVE  /\ PutIn(e)' /\ e \in live
                        /\ \A j \in DOMAIN async_queue' : i < j => Earlier(e,
                          async_queue'[j])
                        /\ \A j \in DOMAIN performed : Earlier(performed[j], e)
                        /\ lat # "outside" => Earlier(item, e)
      BY <1>1 DEF Queued, Earlier, PutIn
    <3>1. CASE i \in DOMAIN async_queue
      <4>1. e = async_queue[i] /\ e \in Ud /\ PutIn(e)
        BY <2>1, <2>2, <3>1, Threads, BaseOf DEF Queued
      <4>2. PutIn(e)' /\ Earlier(e, ud)
        BY <2>4, <4>1
      <4>3. \A j \in DOMAIN async_queue' : i < j => Earlier(e, async_queue'[j])
        BY <2>1, <2>2, <2>x, <3>1, <4>1, <4>2 DEF Queued
      <4> QED
        BY <2>1, <3>1, <4>1, <4>2, <4>3 DEF Queued
    <3>2. CASE i = Len(async_queue) + 1
      <4>1. \A j \in DOMAIN performed : Earlier(performed[j], ud)
        BY <2>y DEF Earlier, Unmade
      <4>2. lat # "outside" => Earlier(item, ud)
        BY <2>1, <2>4, Threads, BaseOf DEF InHand
      <4>3. \A j \in DOMAIN async_queue' : ~(i < j)
        BY <1>2, <2>2, <3>2 DEF TypeOK
      <4>4. e = ud
        BY <2>x, <3>2
      <4> QED
        BY <2>y, <2>3, <4>1, <4>2, <4>3, <4>4
    <3> QED
      BY <2>2, <3>1, <3>2
  <2>9. InHand'
    BY <1>1, <2>1, <2>4, Threads, BaseOf DEF InHand, Earlier
  <2>10. Preparing'
    BY <1>1, <1>4, <2>1, <2>5, <2>6, Threads, BaseOf DEF Preparing
  <2> QED
    BY <1>1, <1>8, <2>7, <2>8, <2>9, <2>10, StaysSingle
<1> QED
  BY <1>6, <1>7, <1>8, Modes

\* pthread_cond_timedwait gives cv_mutex back.
LEMMA WaitKeeps ==
    ASSUME IInv, NEW t \in Thread, Wait(t)
    PROVE  IInv'
<1>1. /\ UNCHANGED <<no_multi_thread_f, f_multi_thread, check_retrives, calls, of, rv,
                     live, async_queue, sig, idle, lat, item, async_func_mutex, signalled,
                     performed, refused, timeouts, fulls>>
      /\ TypeOK'
  BY WaitTypes, BaseOf
<1>2. TypeOK /\ Common /\ None \notin Thread
  BY Modes, AsyncAssumption
<1>3. /\ at[t] = "added" /\ at'[t] = (IF MULTITHREADED THEN "waits" ELSE "waited")
      /\ \A u \in Thread \ {t} : at'[u] = at[u]
      /\ IF MULTITHREADED THEN cv_mutex' = None /\ undefined' = (undefined \/ cv_mutex # t)
         ELSE cv_mutex' = cv_mutex /\ undefined' = undefined
  BY <1>2, AsyncAssumption DEF TypeOK, Common, Wait, mode, queue, loop, history, Goto,
     UnlockCv, MULTITHREADED
<1>4. \A u \in Thread : /\ UdOf(u)' = UdOf(u)
                        /\ (Unmade(u)' <=> Unmade(u))
                        /\ (Answered(u)' <=> Answered(u))
  BY <1>1, SameFor
<1>9. MULTITHREADED => cv_mutex = t
  BY <1>3, Modes DEF Multi, Locked
<1>5. Common'
  BY <1>1, <1>2, <1>3, <1>9 DEF Common, MULTITHREADED, CanMulti, OnceInOrder, Ordered,
     Holding
<1> SUFFICES Mode'
  BY <1>1, <1>5 DEF IInv
<1>6. CASE MULTITHREADED
  <2>1. /\ Owned
        /\ Locked
        /\ Exchanges
        /\ Synchronous
        /\ \A u \in Thread \ {t} : at[u] \notin Holding
    BY <1>2, <1>3, <1>6, Modes, OneHolder DEF Multi, Holding
  <2>a. cv_mutex = t
    BY <1>6, <1>9
  <2>2. Owned'
    BY <1>1, <1>3, <1>4, <2>1, Threads, BaseOf DEF Owned, Sending
  <2>3. Locked'
    BY <1>1, <1>2, <1>3, <1>6, <2>1, <2>a, AsyncAssumption DEF Locked, Holding
  <2>4. Exchanges'
    BY <1>1, <1>3, <1>4, <1>6, <2>1, <2>a DEF Exchanges, AtRest, InExchange, Before, Holding
  <2>5. Synchronous'
    BY <1>1, <1>3, <2>1 DEF Synchronous, CallsMade, MULTITHREADED
  <2> QED
    BY <1>1, <1>3, <1>6, <2>2, <2>3, <2>4, <2>5, StaysMulti
<1>7. CASE ~MULTITHREADED /\ CanMulti
  BY <1>3, <1>7, Modes DEF Fresh
<1>8. CASE ~CanMulti
  BY <1>1, <1>3, <1>8, SingleMove, Modes DEF Before, PuttingIn
<1> QED
  BY <1>6, <1>7, <1>8, Modes

\* The answer that was signalled is there.
LEMMA WakeKeeps ==
    ASSUME IInv, NEW t \in Thread, Wake(t)
    PROVE  IInv'
<1>1. /\ UNCHANGED <<no_multi_thread_f, f_multi_thread, check_retrives, calls, of, rv,
                     live, async_queue, sig, idle, lat, item, async_func_mutex, performed,
                     refused, timeouts, fulls, undefined>>
      /\ TypeOK'
  BY WakeTypes, BaseOf
<1>2. TypeOK /\ Common /\ None \notin Thread
  BY Modes, AsyncAssumption
<1>3. /\ at[t] = "waits" /\ at'[t] = "waited"
      /\ \A u \in Thread \ {t} : at'[u] = at[u]
      /\ signalled /\ ~signalled' /\ cv_mutex = None /\ cv_mutex' = t
  BY <1>2, AsyncAssumption DEF TypeOK, Common, Wake, mode, memory, queue, loop, history,
     Goto
<1>4. \A u \in Thread : /\ UdOf(u)' = UdOf(u)
                        /\ (Unmade(u)' <=> Unmade(u))
                        /\ (Answered(u)' <=> Answered(u))
  BY <1>1, SameFor
<1>5. Common'
  BY <1>1, <1>2, <1>3 DEF Common, MULTITHREADED, CanMulti, OnceInOrder, Ordered, Holding
<1> SUFFICES Mode'
  BY <1>1, <1>5 DEF IInv
<1>6. CASE MULTITHREADED
  <2>1. /\ Owned
        /\ Locked
        /\ Exchanges
        /\ Synchronous
        /\ \A u \in Thread \ {t} : at[u] \notin Holding
    BY <1>2, <1>3, <1>6, Modes, OneHolder DEF Multi, Holding
  <2>a. AtRest' /\ Answered(t)
    BY <1>1, <1>2, <1>3, <2>1, AsyncAssumption DEF Exchanges, InExchange, AtRest, Locked
  <2>2. Owned'
    BY <1>1, <1>3, <1>4, <2>1, Threads, BaseOf DEF Owned, Sending
  <2>3. Locked'
    BY <1>1, <1>2, <1>3, <1>6, <2>1, AsyncAssumption DEF Locked, Holding
  <2>4. Exchanges'
    BY <1>1, <1>3, <1>4, <2>1, <2>a DEF Exchanges, Before, Holding
  <2>5. Synchronous'
    BY <1>1, <1>3, <2>1 DEF Synchronous, CallsMade, MULTITHREADED
  <2> QED
    BY <1>1, <1>3, <1>6, <2>2, <2>3, <2>4, <2>5, StaysMulti
<1>7. CASE ~MULTITHREADED /\ CanMulti
  BY <1>3, <1>7, Modes DEF Fresh
<1>8. CASE ~CanMulti
  BY <1>3, <1>8, Modes DEF Single, NoLocks
<1> QED
  BY <1>6, <1>7, <1>8, Modes

\* There is an answer, so that the mode stays.
LEMMA WaitedKeeps ==
    ASSUME IInv, NEW t \in Thread, Waited(t)
    PROVE  IInv'
<1>1. /\ UNCHANGED <<no_multi_thread_f, calls, of, rv, live, async_queue, sig, idle, lat,
                     item, async_func_mutex, signalled, performed, refused, timeouts,
                     fulls>>
      /\ TypeOK'
  BY WaitedTypes, BaseOf
<1>2. TypeOK /\ Common /\ None \notin Thread
  BY Modes, AsyncAssumption
<1>9. MULTITHREADED => UdOf(t) \in live /\ Answered(t)
  BY Modes DEF Multi, Owned, Exchanges, Sending, Waited
<1>10. MULTITHREADED => ReadRv(UdOf(t)) = {rv[UdOf(t)]} /\ rv[UdOf(t)] # "timeout"
  BY <1>9 DEF ReadRv, Answered
<1>3. /\ at[t] = "waited" /\ at'[t] = "unlocks"
      /\ \A u \in Thread \ {t} : at'[u] = at[u]
      /\ UNCHANGED <<check_retrives, f_multi_thread, cv_mutex>> /\ ~undefined'
  BY <1>2, AsyncAssumption, <1>9, <1>10 DEF TypeOK, Common, Waited, queue, loop, history,
     Goto, Touch, UdOf, ReadRv, MULTITHREADED
<1>4. \A u \in Thread : /\ UdOf(u)' = UdOf(u)
                        /\ (Unmade(u)' <=> Unmade(u))
                        /\ (Answered(u)' <=> Answered(u))
  BY <1>1, SameFor
<1>5. Common'
  BY <1>1, <1>2, <1>3 DEF Common, MULTITHREADED, CanMulti, OnceInOrder, Ordered, Holding
<1> SUFFICES Mode'
  BY <1>1, <1>5 DEF IInv
<1>6. CASE MULTITHREADED
  <2>1. /\ Owned
        /\ Locked
        /\ Exchanges
        /\ Synchronous
        /\ \A u \in Thread \ {t} : at[u] \notin Holding
    BY <1>2, <1>3, <1>6, Modes, OneHolder DEF Multi, Holding
  <2>2. Owned'
    BY <1>1, <1>3, <1>4, <2>1, Threads, BaseOf DEF Owned, Sending
  <2>3. Locked'
    BY <1>1, <1>2, <1>3, <1>6, <2>1, AsyncAssumption DEF Locked, Holding
  <2>4. Exchanges'
    BY <1>1, <1>3, <1>4, <1>6, <2>1 DEF Exchanges, AtRest, InExchange, Before, Holding
  <2>5. Synchronous'
    BY <1>1, <1>3, <2>1 DEF Synchronous, CallsMade, MULTITHREADED
  <2> QED
    BY <1>1, <1>3, <1>6, <2>2, <2>3, <2>4, <2>5, StaysMulti
<1>7. CASE ~MULTITHREADED /\ CanMulti
  BY <1>3, <1>7, Modes DEF Fresh
<1>8. CASE ~CanMulti
  BY <1>1, <1>3, <1>8, SingleMove, Modes DEF Before, PuttingIn
<1> QED
  BY <1>6, <1>7, <1>8, Modes

\* Both mutexes are unlocked by their owner.
LEMMA UnlockKeeps ==
    ASSUME IInv, NEW t \in Thread, Unlock(t)
    PROVE  IInv'
<1>1. /\ UNCHANGED <<no_multi_thread_f, f_multi_thread, check_retrives, calls, of, rv,
                     live, async_queue, sig, idle, lat, item, signalled, performed,
                     refused, timeouts, fulls>>
      /\ TypeOK'
  BY UnlockTypes, BaseOf
<1>2. TypeOK /\ Common /\ None \notin Thread
  BY Modes, AsyncAssumption
<1>9. MULTITHREADED => cv_mutex = t
  BY Modes DEF Multi, Locked, Unlock
<1>3. /\ at[t] = "unlocks" /\ at'[t] = "decides"
      /\ \A u \in Thread \ {t} : at'[u] = at[u]
      /\ async_func_mutex' = None
      /\ ~undefined'
      /\ cv_mutex' = (IF MULTITHREADED THEN None ELSE cv_mutex)
  BY <1>2, AsyncAssumption, <1>9 DEF TypeOK, Common, Unlock, mode, queue, loop, history,
     Goto, UnlockCvIfMulti, UnlockCv, MULTITHREADED
<1>4. \A u \in Thread : /\ UdOf(u)' = UdOf(u)
                        /\ (Unmade(u)' <=> Unmade(u))
                        /\ (Answered(u)' <=> Answered(u))
  BY <1>1, SameFor
<1>5. Common'
  BY <1>1, <1>2, <1>3, OneHolder DEF Common, MULTITHREADED, CanMulti, OnceInOrder,
     Ordered, Holding
<1> SUFFICES Mode'
  BY <1>1, <1>5 DEF IInv
<1>6. CASE MULTITHREADED
  <2>1. /\ Owned
        /\ Locked
        /\ Exchanges
        /\ Synchronous
        /\ \A u \in Thread \ {t} : at[u] \notin Holding
    BY <1>2, <1>3, <1>6, Modes, OneHolder DEF Multi, Holding
  <2>2. Owned'
    BY <1>1, <1>3, <1>4, <2>1, Threads, BaseOf DEF Owned, Sending
  <2>3. Locked'
    BY <1>1, <1>2, <1>3, <1>6, <1>9, <2>1, AsyncAssumption DEF Locked, Holding
  <2>4. Exchanges'
    BY <1>1, <1>3, <1>4, <1>6, <2>1 DEF Exchanges, AtRest, InExchange, Before, Holding
  <2>5. Synchronous'
    BY <1>1, <1>3, <2>1 DEF Synchronous, CallsMade, MULTITHREADED
  <2> QED
    BY <1>1, <1>3, <1>6, <2>2, <2>3, <2>4, <2>5, StaysMulti
<1>7. CASE ~MULTITHREADED /\ CanMulti
  BY <1>3, <1>7, Modes DEF Fresh
<1>8. CASE ~CanMulti
  BY <1>1, <1>3, <1>8, SingleMove, Modes DEF Before, PuttingIn
<1> QED
  BY <1>6, <1>7, <1>8, Modes

\* Only a call that the loop put off is repeated.
LEMMA DecideKeeps ==
    ASSUME IInv, NEW t \in Thread, Decide(t)
    PROVE  IInv'
<1>1. /\ UNCHANGED <<no_multi_thread_f, f_multi_thread, check_retrives, calls, of, rv,
                     live, async_queue, sig, idle, lat, item, async_func_mutex, cv_mutex,
                     signalled, performed, refused, timeouts, fulls>>
      /\ TypeOK'
  BY DecideTypes, BaseOf
<1>2. TypeOK /\ Common /\ None \notin Thread
  BY Modes, AsyncAssumption
<1>9. MULTITHREADED => UdOf(t) \in live /\ Answered(t)
  BY Modes DEF Multi, Owned, Exchanges, Sending, Decide
<1>10. MULTITHREADED => ReadRv(UdOf(t)) = {rv[UdOf(t)]} /\ rv[UdOf(t)] # "timeout"
  BY <1>9 DEF ReadRv, Answered
<1>3. /\ /\ at[t] = "decides"
         /\ at'[t] = (IF MULTITHREADED /\ rv[UdOf(t)] = "full" THEN "locks" ELSE "returns")
      /\ \A u \in Thread \ {t} : at'[u] = at[u]
      /\ ~undefined'
  BY <1>2, AsyncAssumption, <1>9, <1>10 DEF TypeOK, Common, Decide, mode, queue, loop,
     mutexes, history, Goto, Touch, UdOf, ReadRv, MULTITHREADED
<1>4. \A u \in Thread : /\ UdOf(u)' = UdOf(u)
                        /\ (Unmade(u)' <=> Unmade(u))
                        /\ (Answered(u)' <=> Answered(u))
  BY <1>1, SameFor
<1>5. Common'
  BY <1>1, <1>2, <1>3 DEF Common, MULTITHREADED, CanMulti, OnceInOrder, Ordered, Holding
<1> SUFFICES Mode'
  BY <1>1, <1>5 DEF IInv
<1>6. CASE MULTITHREADED
  <2>1. Owned /\ Locked /\ Exchanges /\ Synchronous
    BY <1>6, Modes DEF Multi
  <2>2. Owned'
    BY <1>1, <1>3, <1>4, <2>1, Threads, BaseOf DEF Owned, Sending
  <2>3. Locked'
    BY <1>1, <1>3, <2>1 DEF Locked
  <2>4. Exchanges'
    <3>1. \A u \in Thread \ {t} : InExchange(u) => InExchange(u)'
      BY <1>1, <1>3, <1>4 DEF InExchange
    <3>2. at'[t] = "locks" => Unmade(t)
      BY <1>3, <1>6, <1>9 DEF Answered
    <3>3. at'[t] = "returns" => rv[UdOf(t)] # "full"
      BY <1>3, <1>6
    <3>4. at'[t] \in {"locks", "returns"} /\ Answered(t)
      BY <1>3, <1>6, <1>9
    <3> QED
      BY <1>1, <1>3, <1>4, <2>1, <3>1, <3>2, <3>3, <3>4 DEF Exchanges, AtRest, Before
  <2>5. Synchronous'
    BY <1>1, <1>3, <2>1 DEF Synchronous, CallsMade, MULTITHREADED
  <2> QED
    BY <1>1, <1>3, <1>6, <2>2, <2>3, <2>4, <2>5, StaysMulti
<1>7. CASE ~MULTITHREADED /\ CanMulti
  BY <1>3, <1>7, Modes DEF Fresh
<1>8. CASE ~CanMulti
  BY <1>1, <1>3, <1>8, SingleMove, Modes DEF Before, PuttingIn
<1> QED
  BY <1>6, <1>7, <1>8, Modes

\* In multi-thread mode the caller frees its record.
LEMMA ReturnKeeps ==
    ASSUME IInv, NEW t \in Thread, Return(t)
    PROVE  IInv'
<1>1. /\ UNCHANGED <<no_multi_thread_f, f_multi_thread, check_retrives, calls, of, rv,
                     async_queue, sig, idle, lat, item, async_func_mutex, cv_mutex,
                     signalled, performed, refused, timeouts, fulls>>
      /\ TypeOK'
  BY ReturnTypes, BaseOf
<1>2. TypeOK /\ Common /\ None \notin Thread
  BY Modes, AsyncAssumption
<1>9. MULTITHREADED => UdOf(t) \in live /\ Answered(t)
  BY Modes DEF Multi, Owned, Exchanges, Sending, Return
<1>10. MULTITHREADED => ReadRv(UdOf(t)) = {rv[UdOf(t)]} /\ rv[UdOf(t)] # "timeout"
  BY <1>9 DEF ReadRv, Answered
<1>3. /\ at[t] = "returns" /\ at'[t] = "outside" /\ of[t] = "send"
      /\ \A u \in Thread \ {t} : at'[u] = at[u]
      /\ ~undefined' /\ live' = live \ (IF MULTITHREADED THEN {UdOf(t)} ELSE {})
  BY <1>2, AsyncAssumption, <1>9 DEF TypeOK, Common, Return, mode, queue, loop, mutexes,
     history, Goto, FreedByCaller, UdOf, MULTITHREADED
<1>4. \A u \in Thread : /\ UdOf(u)' = UdOf(u)
                        /\ (Unmade(u)' <=> Unmade(u))
                        /\ (Answered(u)' <=> Answered(u))
  BY <1>1, SameFor
<1>5. Common'
  BY <1>1, <1>2, <1>3 DEF Common, MULTITHREADED, CanMulti, OnceInOrder, Ordered, Holding
<1> SUFFICES Mode'
  BY <1>1, <1>5 DEF IInv
<1>6. CASE MULTITHREADED
  <2>1. Owned /\ Locked /\ Exchanges /\ Synchronous
    BY <1>6, Modes DEF Multi
  <2>2. Owned'
    BY <1>1, <1>3, <1>4, <1>6, <2>1, Threads, BaseOf, UdOfThread DEF Owned, Sending
  <2>3. Locked'
    BY <1>1, <1>3, <2>1 DEF Locked
  <2>4. Exchanges'
    BY <1>1, <1>3, <1>4, <2>1 DEF Exchanges, AtRest, InExchange, Before
  <2>5. Synchronous'
    BY <1>1, <1>2, <1>3, <1>6, <1>9, <2>1 DEF Synchronous, CallsMade, MULTITHREADED, UdOf,
       Answered, Exchanges, TypeOK
  <2> QED
    BY <1>1, <1>3, <1>6, <2>2, <2>3, <2>4, <2>5, StaysMulti
<1>7. CASE ~MULTITHREADED /\ CanMulti
  BY <1>3, <1>7, Modes DEF Fresh
<1>8. CASE ~CanMulti
  BY <1>1, <1>3, <1>8, SingleMove, Modes DEF Before, PuttingIn
<1> QED
  BY <1>6, <1>7, <1>8, Modes

\* The loop has answered, so that the mode stays and the check's record is freed.
LEMMA CheckReturnsKeeps ==
    ASSUME IInv, NEW t \in Thread, CheckReturns(t)
    PROVE  IInv'
<1>1. /\ UNCHANGED <<no_multi_thread_f, calls, async_queue, sig, idle, lat, item,
                     async_func_mutex, cv_mutex, signalled, performed, refused, timeouts,
                     fulls>>
      /\ TypeOK'
  BY CheckReturnsTypes, BaseOf
<1>2. TypeOK /\ Common /\ None \notin Thread
  BY Modes, AsyncAssumption
<1>9. MULTITHREADED => UdOf(t) \in live /\ Answered(t)
  BY Modes DEF Multi, Owned, Exchanges, Sending, CheckReturns
<1>10. MULTITHREADED => ReadRv(UdOf(t)) = {rv[UdOf(t)]} /\ rv[UdOf(t)] # "timeout"
  BY <1>9 DEF ReadRv, Answered
<1>3. /\ at[t] = "returns" /\ of[t] = "check"
      /\ Open(t, "send", IF MULTITHREADED THEN {UdOf(t)} ELSE {})
      /\ MULTITHREADED => f_multi_thread' = f_multi_thread /\ check_retrives' = 0 /\ ~undefined'
  <2>1. /\ at[t] = "returns" /\ of[t] = "check"
        /\ Open(t, "send", IF MULTITHREADED THEN {UdOf(t)} ELSE {})
    BY DEF CheckReturns, FreedByCaller
  <2>2. ASSUME MULTITHREADED
        PROVE  f_multi_thread' = f_multi_thread /\ check_retrives' = 0 /\ ~undefined'
    <3>1. rv[UdOf(t)] = "sent" /\ UdOf(t) \in live /\ ReadRv(UdOf(t)) = {rv[UdOf(t)]}
      BY <1>9, <1>10, <2>1, <2>2 DEF Answered
    <3>2. f_multi_thread' = "MULTITHREAD" /\ check_retrives' = 0
      BY <3>1 DEF CheckReturns
    <3>3. undefined' = (undefined \/ UdOf(t) \notin live)
      BY DEF CheckReturns, Touch
    <3> QED
      BY <1>2, <2>2, <3>1, <3>2, <3>3 DEF Common, MULTITHREADED
  <2> QED
    BY <2>1, <2>2
<1>4. /\ at'[t] = "locks" /\ \A u \in Thread \ {t} : at'[u] = at[u]
      /\ of'[t] = "send" /\ \A u \in Thread \ {t} : of'[u] = of[u]
      /\ live' = (live \ (IF MULTITHREADED THEN {UdOf(t)} ELSE {})) \cup {UdOf(t)'}
      /\ UdOf(t)' \in Ud /\ UdOf(t)'.thread = t
      /\ \A u \in Thread \ {t} :
            /\ UdOf(u)' = UdOf(u) /\ (Unmade(u)' <=> Unmade(u))
            /\ at[u] # "outside" =>
                  (Answered(u)' <=> Answered(u)) /\ rv'[UdOf(u)] = rv[UdOf(u)]
      /\ Unmade(t)' <=> Unmade(t)
  BY <1>1, <1>3, Opened
<1>11. MULTITHREADED
  BY <1>3, Modes DEF Fresh, Single, NoLocks
<1>5. Common'
  BY <1>1, <1>2, <1>3, <1>4, <1>11 DEF Common, MULTITHREADED, CanMulti, OnceInOrder,
     Ordered, Holding
<1> SUFFICES Mode'
  BY <1>1, <1>5 DEF IInv
<1>6. CASE MULTITHREADED
  <2>1. Owned /\ Locked /\ Exchanges /\ Synchronous /\ Unmade(t)
    BY <1>3, <1>6, <1>9, Modes DEF Multi, Answered
  <2>2. Owned'
    BY <1>1, <1>3, <1>4, <1>6, <2>1, Threads, BaseOf, UdOfThread DEF Owned, Sending
  <2>3. Locked'
    BY <1>1, <1>3, <1>4, <2>1 DEF Locked
  <2>4. Exchanges'
    <3>1. \A u \in Thread \ {t} : at[u] \in {"added",
          "waits"} /\ InExchange(u) => InExchange(u)'
      BY <1>1, <1>3, <1>4 DEF InExchange
    <3> QED
      BY <1>1, <1>3, <1>4, <1>6, <2>1, <3>1 DEF Exchanges, AtRest, Before
  <2>5. Synchronous'
    BY <1>1, <1>3, <1>4, <1>6, <2>1 DEF Synchronous, CallsMade, MULTITHREADED
  <2> QED
    BY <1>1, <1>3, <1>6, <2>2, <2>3, <2>4, <2>5, StaysMulti
<1>7. CASE ~MULTITHREADED /\ CanMulti
  BY <1>7, <1>11
<1>8. CASE ~CanMulti
  BY <1>8, <1>11, Modes
<1> QED
  BY <1>6, <1>7, <1>8, Modes

\* sig_async_cb takes the head of the queue.
LEMMA SigAsyncKeeps ==
    ASSUME IInv, SigAsync
    PROVE  IInv'
<1>1. /\ UNCHANGED <<no_multi_thread_f, f_multi_thread, check_retrives, at, calls, of, rv,
                     live, async_func_mutex, cv_mutex, signalled, performed, refused,
                     timeouts, fulls>>
      /\ TypeOK'
  BY SigAsyncTypes, BaseOf
<1>2. TypeOK /\ Common /\ None \notin Ud /\ lat = "outside"
  BY Modes, AsyncAssumption DEF SigAsync
<1>3. CASE async_queue = <<>> \/ idle
  <2>1. UNCHANGED <<async_queue, idle, undefined, lat, item>>
    BY <1>3 DEF SigAsync, loop
  <2> QED
    BY <1>1, <2>1, OnlySignals DEF IInv
<1>4. CASE async_queue # <<>> /\ ~idle
  <2> DEFINE ud == Head(async_queue)
  <2>1. ud \in live
    <3>1. CASE MULTITHREADED
      <4>1. PICK t \in Thread : InExchange(t) /\ UdOf(t) \in live
        BY <1>4, <3>1, InLoop
      <4> QED
        BY <1>4, <4>1 DEF InExchange
    <3>2. CASE ~CanMulti
      BY <1>4, <3>2, Modes, QueueHead, BaseOf DEF Single, Queued
    <3> QED
      BY <1>4, <3>1, <3>2, Modes DEF Fresh
  <2>2. /\ ud \in Ud /\ async_queue' = Tail(async_queue) /\ ~undefined'
        /\ lat' = ud.of /\ item' = ud /\ lat' \in {"check", "send"}
    BY <1>2, <1>4, <2>1, QueueHead, BaseOf DEF SigAsync, Touch, Common
  <2> HIDE DEF ud
  <2>3. \A u \in Thread : /\ UdOf(u)' = UdOf(u)
                          /\ (Unmade(u)' <=> Unmade(u))
                          /\ (Answered(u)' <=> Answered(u))
    BY <1>1, SameFor
  <2>4. Common'
    BY <1>1, <1>2, <2>2 DEF Common, MULTITHREADED, CanMulti, OnceInOrder, Ordered
  <2> SUFFICES Mode'
    BY <1>1, <2>4 DEF IInv
  <2>5. CASE MULTITHREADED
    <3>1. PICK t \in Thread :
                /\ at[t] \in {"added", "waits"} /\ InExchange(t)
                /\ \A u \in Thread \ {t} : at[u] \notin Holding
                /\ UdOf(t) \in live /\ UdOf(t) \in Ud
      BY <1>4, <2>5, InLoop
    <3>2. async_queue = <<UdOf(t)>> /\ ~signalled /\ Unmade(t)
      BY <1>2, <1>4, <3>1 DEF InExchange
    <3>3. ud = UdOf(t) /\ async_queue' = <<>> /\ ud.of = of[t]
      BY <2>2, <3>2 DEF ud, UdOf
    <3>4. Owned /\ Locked /\ Exchanges /\ Synchronous
      BY <2>5, Modes DEF Multi
    <3>5. Owned'
      BY <1>1, <2>3, <3>4, Threads, BaseOf DEF Owned, Sending
    <3>6. Locked'
      BY <1>1, <1>2, <2>2, <3>4 DEF Locked
    <3>7. InExchange(t)'
      BY <1>1, <2>2, <2>3, <3>2, <3>3 DEF InExchange
    <3>8. Exchanges'
      BY <1>1, <2>3, <3>1, <3>4, <3>7 DEF Exchanges, Holding, Before
    <3>9. Synchronous'
      BY <1>1, <3>4 DEF Synchronous, CallsMade, MULTITHREADED
    <3> QED
      BY <1>1, <2>5, <3>5, <3>6, <3>8, <3>9, StaysMulti
  <2>6. CASE ~MULTITHREADED /\ CanMulti
    BY <1>4, <2>6, Modes DEF Fresh
  <2>7. CASE ~CanMulti
    <3>1. NoLocks /\ Queued /\ InHand /\ Preparing
      BY <2>7, Modes DEF Single
    <3>2. \A e : PutIn(e)' <=> PutIn(e)
      BY <1>1 DEF PutIn
    <3>3. ud = async_queue[1] /\ 1 \in DOMAIN async_queue
      BY <1>4, QueueHead, BaseOf DEF ud
    <3>4. PutIn(ud) /\ ud.of = "send" /\ \A j \in DOMAIN performed : Earlier(performed[j],
          ud)
      BY <3>1, <3>3 DEF Queued, PutIn
    <3>5. lat' = "send"
      BY <2>2, <3>4
    <3>6. \A i \in DOMAIN async_queue' :
              i + 1 \in DOMAIN async_queue /\ async_queue'[i] = async_queue[i + 1] /\ 1 < i + 1
      BY <1>4, <2>2, QueueHead, BaseOf
    <3>7. \A i, j \in DOMAIN async_queue' : i < j => i + 1 < j + 1
      <4>1. DOMAIN async_queue' \subseteq Nat
        BY <1>1 DEF TypeOK
      <4> QED
        BY <4>1
    <3>8. NoLocks'
      BY <1>1, <3>1, <3>5 DEF NoLocks
    <3>9. Queued'
      <4> SUFFICES ASSUME NEW i \in DOMAIN async_queue', NEW e, e = async_queue'[i]
                   PROVE  /\ PutIn(e) /\ e \in live
                          /\ \A j \in DOMAIN async_queue' : i < j => Earlier(e,
                            async_queue'[j])
                          /\ \A j \in DOMAIN performed : Earlier(performed[j], e)
                          /\ Earlier(ud, e)
        BY <1>1, <2>2, <3>2 DEF Queued, Earlier
      <4>1. e = async_queue[i + 1] /\ i + 1 \in DOMAIN async_queue /\ 1 < i + 1
        BY <3>6
      <4>2. \A j \in DOMAIN async_queue' : i < j => Earlier(e, async_queue'[j])
        BY <3>1, <3>6, <3>7, <4>1 DEF Queued
      <4> QED
        BY <3>1, <3>3, <4>1, <4>2 DEF Queued
    <3>10. InHand'
      <4>1. ud \in live
        BY <2>1 DEF ud
      <4> QED
        BY <1>1, <2>2, <3>2, <3>4, <3>5, <4>1 DEF InHand, Earlier
    <3>11. Preparing'
      <4>1. \A e \in live : InQueue(e) => InQueue(e)'
        <5> SUFFICES ASSUME NEW e \in live, InQueue(e) PROVE InQueue(e)'
          OBVIOUS
        <5>1. item = None /\ e # None
          BY <1>2, Threads, BaseOf DEF Common
        <5>2. PICK i \in DOMAIN async_queue : async_queue[i] = e
          BY <5>1 DEF InQueue
        <5>3. CASE i = 1
          BY <2>2, <3>3, <5>2, <5>3 DEF InQueue
        <5>4. CASE i # 1
          <6>1. i - 1 \in DOMAIN async_queue' /\ async_queue'[i - 1] = async_queue[i]
            <7>1. async_queue \in Seq(Ud)
              BY <1>2 DEF TypeOK
            <7>2. Len(async_queue) \in Nat /\ DOMAIN async_queue = 1..Len(async_queue)
              BY <7>1
            <7>3. DOMAIN Tail(async_queue) = 1..(Len(async_queue) - 1)
              BY <1>4, <7>1, <7>2
            <7>4. i - 1 \in 1..(Len(async_queue) - 1) /\ (i - 1) + 1 = i
              BY <5>4, <7>2
            <7> QED
              BY <2>2, <3>6, <7>3, <7>4
          <6> QED
            BY <5>2, <6>1 DEF InQueue
        <5> QED
          BY <5>3, <5>4
      <4> QED
        BY <1>1, <2>3, <3>1, <4>1, Threads, BaseOf DEF Preparing, PuttingIn
    <3> QED
      BY <1>1, <2>7, <3>8, <3>9, <3>10, <3>11, StaysSingle
  <2> QED
    BY <2>5, <2>6, <2>7, Modes
<1> QED
  BY <1>3, <1>4

\* The signal is sent again.
LEMMA IdleAsyncKeeps ==
    ASSUME IInv, IdleAsync
    PROVE  IInv'
<1>1. /\ UNCHANGED <<no_multi_thread_f, f_multi_thread, check_retrives, at, calls, of, rv,
                     live, async_queue, lat, item, async_func_mutex, cv_mutex, signalled,
                     performed, refused, timeouts, fulls, undefined>>
      /\ TypeOK'
  BY IdleAsyncTypes, BaseOf
<1> QED
  BY <1>1, OnlySignals DEF IInv

\* A check is never dropped: the mode is not given up.
LEMMA NeverDropped ==
    ASSUME IInv
    PROVE  ~CheckDropped
BY Modes DEF CheckDropped, Fresh, Single, NoLocks

\* The check is for the thread that waits.
LEMMA CheckAnswersKeeps ==
    ASSUME IInv, CheckAnswers
    PROVE  IInv'
<1>1. /\ UNCHANGED <<no_multi_thread_f, f_multi_thread, check_retrives, at, calls, of, rv,
                     live, async_queue, sig, idle, item, async_func_mutex, cv_mutex,
                     signalled, performed, refused, timeouts, fulls, undefined>>
      /\ TypeOK'
  BY CheckAnswersTypes, BaseOf
<1>2. TypeOK /\ Common /\ None \notin Thread
  BY Modes, AsyncAssumption
<1>3. /\ lat = "check" /\ lat' = "answers"
      /\ MULTITHREADED
  BY <1>2, AsyncAssumption DEF TypeOK, Common, CheckAnswers, mode, threads, memory, queue,
     mutexes, history, MULTITHREADED
<1>4. \A u \in Thread : /\ UdOf(u)' = UdOf(u)
                        /\ (Unmade(u)' <=> Unmade(u))
                        /\ (Answered(u)' <=> Answered(u))
  BY <1>1, SameFor
<1>5. Common'
  BY <1>1, <1>2, <1>3 DEF Common, MULTITHREADED, CanMulti, OnceInOrder, Ordered, Holding
<1> SUFFICES Mode'
  BY <1>1, <1>5 DEF IInv
<1>6. CASE MULTITHREADED
  <2>1. PICK t \in Thread :
              /\ at[t] \in {"added", "waits"} /\ InExchange(t)
              /\ \A u \in Thread \ {t} : at[u] \notin Holding
              /\ UdOf(t) \in live /\ UdOf(t) \in Ud
    BY <1>3, <1>6, InLoop
  <2>0. Owned /\ Locked /\ Exchanges /\ Synchronous
    BY <1>6, Modes DEF Multi
  <2>2. Owned'
    BY <1>1, <1>3, <1>4, <2>0, <2>1, Threads, BaseOf DEF Owned, Sending
  <2>3. Locked'
    BY <1>1, <1>3, <2>0 DEF Locked
  <2>4. Exchanges'
    BY <1>1, <1>3, <1>4, <2>0, <2>1 DEF Exchanges, AtRest, InExchange, Before, Holding
  <2>5. Synchronous'
    BY <1>1, <1>3, <2>0 DEF Synchronous, CallsMade, MULTITHREADED
  <2> QED
    BY <1>1, <1>3, <1>6, <2>2, <2>3, <2>4, <2>5, StaysMulti
<1>7. CASE ~MULTITHREADED /\ CanMulti
  BY <1>3, <1>7
<1>8. CASE ~CanMulti
  BY <1>3, <1>8, Modes
<1> QED
  BY <1>6, <1>7, <1>8, Modes

\* The check is answered and its thread signalled.
LEMMA AnswerKeeps ==
    ASSUME IInv, Answer
    PROVE  IInv'
<1>1. /\ UNCHANGED <<no_multi_thread_f, f_multi_thread, check_retrives, at, calls, of,
                     live, async_queue, sig, async_func_mutex, cv_mutex, performed,
                     refused, timeouts, fulls>>
      /\ TypeOK'
  BY AnswerTypes, BaseOf
<1>2. TypeOK /\ Common /\ None \notin Thread
  BY Modes, AsyncAssumption
<1>m. MULTITHREADED
  BY Modes DEF Answer, Fresh, Single, NoLocks
<1>t. PICK t \in Thread :
              /\ at[t] \in {"added", "waits"} /\ InExchange(t)
              /\ \A u \in Thread \ {t} : at[u] \notin Holding
              /\ UdOf(t) \in live /\ UdOf(t) \in Ud
  BY <1>m, InLoop DEF Answer
<1>s. at[t] = "waits" /\ item = UdOf(t) /\ of[t] = "check" /\ Unmade(t) /\ async_queue = <<>>
  BY <1>m, <1>t, Modes, AsyncAssumption DEF Multi, Locked, InExchange, Answer
<1>3. /\ lat = "answers" /\ lat' = "outside" /\ item' = None
      /\ cv_mutex = None
      /\ rv' = [rv EXCEPT ![item] = "sent"]
  BY <1>2, AsyncAssumption DEF TypeOK, Common, Answer, mode, threads, history, Handled,
     Touch, Signal
<1>4. /\ \A u \in Thread : UdOf(u)' = UdOf(u) /\ (Unmade(u)' <=> Unmade(u))
      /\ \A u \in Thread \ {t} : rv'[UdOf(u)] = rv[UdOf(u)] /\ (Answered(u)' <=> Answered(u))
      /\ Answered(t)'
  <2>1. \A u \in Thread : UdOf(u)' = UdOf(u) /\ (Unmade(u)' <=> Unmade(u))
    BY <1>1 DEF UdOf, Unmade
  <2>2. \A u \in Thread \ {t} : rv'[UdOf(u)] = rv[UdOf(u)]
    BY <1>3, <1>s, UdOfThread
  <2>3. rv'[UdOf(t)] = "sent"
    BY <1>2, <1>3, <1>t, <1>s DEF TypeOK
  <2> QED
    BY <1>1, <1>s, <2>1, <2>2, <2>3, SameFor DEF Answered
<1>u. signalled' /\ ~undefined'
  BY <1>2, <1>t, <1>s DEF Answer, Signal, Touch, Common
<1>5. Common'
  BY <1>1, <1>2, <1>3, <1>u, <1>m DEF Common, MULTITHREADED, CanMulti, OnceInOrder,
     Ordered, Holding
<1> SUFFICES Mode'
  BY <1>1, <1>5 DEF IInv
<1>6. CASE MULTITHREADED
  <2>1. Owned /\ Locked /\ Exchanges /\ Synchronous
    BY <1>6, Modes DEF Multi
  <2>2. Owned'
    BY <1>1, <1>4, <2>1, Threads, BaseOf DEF Owned, Sending
  <2>3. Locked'
    BY <1>1, <1>3, <2>1 DEF Locked
  <2>4. Exchanges'
    BY <1>1, <1>3, <1>4, <1>t, <1>s, <1>u, <2>1 DEF Exchanges, AtRest, InExchange, Before,
       Holding
  <2>5. Synchronous'
    BY <1>1, <2>1 DEF Synchronous, CallsMade, MULTITHREADED
  <2> QED
    BY <1>1, <1>3, <1>6, <2>2, <2>3, <2>4, <2>5, StaysMulti
<1>7. CASE ~MULTITHREADED /\ CanMulti
  BY <1>7, <1>m
<1>8. CASE ~CanMulti
  BY <1>8, <1>m, Modes
<1> QED
  BY <1>6, <1>7, <1>8, Modes

\* With the mode the loop locks first.
LEMMA BeginKeeps ==
    ASSUME IInv, Begin
    PROVE  IInv'
<1>1. /\ UNCHANGED <<no_multi_thread_f, f_multi_thread, check_retrives, at, calls, of, rv,
                     live, async_queue, sig, idle, item, async_func_mutex, cv_mutex,
                     signalled, performed, refused, timeouts, fulls, undefined>>
      /\ TypeOK'
  BY BeginTypes, BaseOf
<1>2. TypeOK /\ Common /\ None \notin Thread
  BY Modes, AsyncAssumption
<1>3. /\ lat = "send" /\ lat' = (IF MULTITHREADED THEN "locks" ELSE "performs")
  BY <1>2, AsyncAssumption DEF TypeOK, Common, Begin, mode, threads, memory, queue,
     mutexes, history, MULTITHREADED
<1>4. \A u \in Thread : /\ UdOf(u)' = UdOf(u)
                        /\ (Unmade(u)' <=> Unmade(u))
                        /\ (Answered(u)' <=> Answered(u))
  BY <1>1, SameFor
<1>5. Common'
  BY <1>1, <1>2, <1>3 DEF Common, MULTITHREADED, CanMulti, OnceInOrder, Ordered, Holding
<1> SUFFICES Mode'
  BY <1>1, <1>5 DEF IInv
<1>6. CASE MULTITHREADED
  <2>1. PICK t \in Thread :
              /\ at[t] \in {"added", "waits"} /\ InExchange(t)
              /\ \A u \in Thread \ {t} : at[u] \notin Holding
              /\ UdOf(t) \in live /\ UdOf(t) \in Ud
    BY <1>3, <1>6, InLoop
  <2>0. Owned /\ Locked /\ Exchanges /\ Synchronous
    BY <1>6, Modes DEF Multi
  <2>2. Owned'
    BY <1>1, <1>3, <1>4, <2>0, <2>1, Threads, BaseOf DEF Owned, Sending
  <2>3. Locked'
    BY <1>1, <1>3, <1>6, <2>0 DEF Locked
  <2>4. Exchanges'
    BY <1>1, <1>3, <1>4, <1>6, <2>0, <2>1 DEF Exchanges, AtRest, InExchange, Before, Holding
  <2>5. Synchronous'
    BY <1>1, <1>3, <2>0 DEF Synchronous, CallsMade, MULTITHREADED
  <2> QED
    BY <1>1, <1>3, <1>6, <2>2, <2>3, <2>4, <2>5, StaysMulti
<1>7. CASE ~MULTITHREADED /\ CanMulti
  BY <1>3, <1>7, Modes DEF Fresh
<1>8. CASE ~CanMulti
  <2>1. NoLocks /\ Queued /\ InHand /\ Preparing /\ lat' = "performs"
    BY <1>3, <1>8, Modes DEF Single
  <2>2. \A ud : PutIn(ud)' <=> PutIn(ud)
    BY <1>1 DEF PutIn
  <2>3. NoLocks'
    BY <1>1, <2>1 DEF NoLocks
  <2>4. Queued'
    BY <1>1, <1>3, <2>1, <2>2 DEF Queued, Earlier
  <2>5. InHand'
    BY <1>1, <1>3, <2>1, <2>2 DEF InHand, Earlier
  <2>6. Preparing'
    BY <1>1, <1>4, <2>1, Threads, BaseOf DEF Preparing, PuttingIn, InQueue
  <2> QED
    BY <1>1, <1>8, <2>3, <2>4, <2>5, <2>6, StaysSingle
<1> QED
  BY <1>6, <1>7, <1>8, Modes

\* The thread that waits has given cv_mutex back.
LEMMA LoopLockKeeps ==
    ASSUME IInv, LoopLock
    PROVE  IInv'
<1>1. /\ UNCHANGED <<no_multi_thread_f, f_multi_thread, check_retrives, at, calls, of, rv,
                     live, async_queue, sig, idle, item, async_func_mutex, signalled,
                     performed, refused, timeouts, fulls, undefined>>
      /\ TypeOK'
  BY LoopLockTypes, BaseOf
<1>2. TypeOK /\ Common /\ None \notin Thread
  BY Modes, AsyncAssumption
<1>3. /\ lat = "locks" /\ lat' = "performs"
      /\ cv_mutex = None /\ cv_mutex' = Loop
  BY <1>2, AsyncAssumption DEF TypeOK, Common, LoopLock, mode, threads, memory, queue,
     history
<1>4. \A u \in Thread : /\ UdOf(u)' = UdOf(u)
                        /\ (Unmade(u)' <=> Unmade(u))
                        /\ (Answered(u)' <=> Answered(u))
  BY <1>1, SameFor
<1>5. Common'
  BY <1>1, <1>2, <1>3 DEF Common, MULTITHREADED, CanMulti, OnceInOrder, Ordered, Holding
<1> SUFFICES Mode'
  BY <1>1, <1>5 DEF IInv
<1>6. CASE MULTITHREADED
  <2>1. PICK t \in Thread :
              /\ at[t] \in {"added", "waits"} /\ InExchange(t)
              /\ \A u \in Thread \ {t} : at[u] \notin Holding
              /\ UdOf(t) \in live /\ UdOf(t) \in Ud
    BY <1>3, <1>6, InLoop
  <2>0. Owned /\ Locked /\ Exchanges /\ Synchronous
    BY <1>6, Modes DEF Multi
  <2>2. Owned'
    BY <1>1, <1>3, <1>4, <2>0, <2>1, Threads, BaseOf DEF Owned, Sending
  <2>3. Locked'
    BY <1>1, <1>2, <1>3, <2>0, AsyncAssumption DEF Locked
  <2>4. Exchanges'
    BY <1>1, <1>3, <1>4, <2>0, <2>1 DEF Exchanges, AtRest, InExchange, Before, Holding
  <2>5. Synchronous'
    BY <1>1, <1>3, <2>0 DEF Synchronous, CallsMade, MULTITHREADED
  <2> QED
    BY <1>1, <1>3, <1>6, <2>2, <2>3, <2>4, <2>5, StaysMulti
<1>7. CASE ~MULTITHREADED /\ CanMulti
  BY <1>3, <1>7, Modes DEF Fresh
<1>8. CASE ~CanMulti
  BY <1>3, <1>8, Modes DEF Single, NoLocks
<1> QED
  BY <1>6, <1>7, <1>8, Modes

\* The call is made, refused or put off.
LEMMA PerformKeeps ==
    ASSUME IInv, Perform
    PROVE  IInv'
<1>1. /\ UNCHANGED <<no_multi_thread_f, f_multi_thread, check_retrives, at, calls, of,
                     live, async_queue, sig, idle, item, async_func_mutex, cv_mutex,
                     signalled, timeouts>>
      /\ TypeOK'
  BY PerformTypes, BaseOf
<1>2. TypeOK /\ Common /\ None \notin Ud /\ lat = "performs" /\ lat' = "tells" /\ item \in Ud
  BY Modes, Threads, BaseOf, AsyncAssumption DEF Perform
<1>3. PICK found \in {"sent", "full", "refused"} :
         /\ rv' = [rv EXCEPT ![item] = found]
         /\ performed' = IF ~MULTITHREADED \/ found = "sent"
                         THEN Append(performed, item) ELSE performed
         /\ refused' = IF MULTITHREADED /\ found = "refused"
                       THEN refused \cup {item} ELSE refused
  BY DEF Perform
<1>4. undefined' = (undefined \/ item \notin live)
  BY DEF Perform, Touch
<1>5. ASSUME \A j \in DOMAIN performed : Earlier(performed[j], item),
             item.of = "send", item.call <= calls[item.thread], item \in live
      PROVE  Common'
  <2>1. OnceInOrder'
    <3>1. CASE performed' = performed
      BY <1>2, <3>1 DEF Common, OnceInOrder, Ordered
    <3>2. CASE performed' = Append(performed, item)
      BY <1>2, <1>5, <3>2, MadeInOrder
    <3> QED
      BY <1>3, <3>1, <3>2
  <2>2. \A i \in DOMAIN performed' :
            performed'[i].of = "send" /\ performed'[i].call <= calls'[performed'[i].thread]
    <3>1. CASE performed' = performed
      BY <1>1, <1>2, <3>1 DEF Common
    <3>2. CASE performed' = Append(performed, item)
      BY <1>1, <1>2, <1>5, <3>2, MadeInOrder DEF Common
    <3> QED
      BY <1>3, <3>1, <3>2
  <2>3. ~undefined' /\ item # None
    BY <1>2, <1>4, <1>5 DEF Common
  <2> QED
    BY <1>1, <1>2, <2>1, <2>2, <2>3 DEF Common, MULTITHREADED, CanMulti
<1>6. CASE MULTITHREADED
  <2>1. PICK t \in Thread :
              /\ at[t] \in {"added", "waits"} /\ InExchange(t)
              /\ \A u \in Thread \ {t} : at[u] \notin Holding
              /\ UdOf(t) \in live /\ UdOf(t) \in Ud
    BY <1>2, <1>6, InLoop
  <2>2. Owned /\ Locked /\ Exchanges /\ Synchronous
    BY <1>6, Modes DEF Multi
  <2>3. at[t] = "waits"
    BY <1>2, <2>1, <2>2, AsyncAssumption DEF Locked
  <2>4. /\ async_queue = <<>> /\ item = UdOf(t) /\ ~signalled /\ Unmade(t) /\ of[t] = "send"
    <3>1. of[t] \in {"check", "send"}
      BY <1>2 DEF TypeOK
    <3> QED
      BY <1>2, <2>1, <3>1 DEF InExchange
  <2>5. item.thread = t /\ item.of = "send" /\ item.call = calls[t]
    BY <2>4 DEF UdOf
  <2>6. Common'
    <3>1. \A j \in DOMAIN performed : Earlier(performed[j], item)
      BY <2>4, <2>5 DEF Earlier, Unmade
    <3>2. item.call <= calls[item.thread]
      <4>1. calls[t] \in Nat
        BY <1>2, AsyncAssumption DEF TypeOK
      <4> QED
        BY <2>5, <4>1
    <3> QED
      BY <1>5, <2>1, <2>4, <2>5, <3>1, <3>2
  <2>7. \A u \in Thread : UdOf(u)' = UdOf(u)
    BY <1>1 DEF UdOf
  <2>8. /\ \A i \in DOMAIN performed : i \in DOMAIN performed' /\ performed'[i] = performed[i]
        /\ \A i \in DOMAIN performed' : i \in DOMAIN performed \/ performed'[i] = item
        /\ found = "sent" => \E i \in DOMAIN performed' : performed'[i] = item
        /\ found # "sent" => performed' = performed
    <3>1. \A j \in DOMAIN performed : Earlier(performed[j], item)
      BY <2>4, <2>5 DEF Earlier, Unmade
    <3>2. CASE found = "sent"
      <4>1. performed' = Append(performed, item)
        BY <1>3, <3>2
      <4> QED
        BY <1>2, <3>1, <3>2, <4>1, MadeInOrder
    <3>3. CASE found # "sent"
      BY <1>3, <1>6, <3>3
    <3> QED
      BY <3>2, <3>3
  <2>9. \A ud \in Ud : /\ ud \in CallsMade => ud \in CallsMade'
                       /\ ud # item => (ud \in CallsMade' <=> ud \in CallsMade)
    BY <2>8 DEF CallsMade
  <2>10. \A u \in Thread \ {t} : /\ Unmade(u)' <=> Unmade(u)
                                 /\ at[u] # "outside" => /\ Answered(u)' <=> Answered(u)
                                                        /\ rv'[UdOf(u)] = rv[UdOf(u)]
    <3> SUFFICES ASSUME NEW u \in Thread \ {t}
                 PROVE  /\ Unmade(u)' <=> Unmade(u)
                        /\ at[u] # "outside" => /\ Answered(u)' <=> Answered(u)
                                               /\ rv'[UdOf(u)] = rv[UdOf(u)]
      OBVIOUS
    <3>1. Unmade(u)' <=> Unmade(u)
      BY <1>1, <2>5, <2>8 DEF Unmade
    <3>2. UdOf(u) # item
      BY <2>4, UdOfThread
    <3>3. rv'[UdOf(u)] = rv[UdOf(u)]
      BY <1>3, <3>2
    <3>4. UdOf(u) \in refused' <=> UdOf(u) \in refused
      BY <1>3, <3>2
    <3>5. ASSUME at[u] # "outside" PROVE UdOf(u) \in CallsMade' <=> UdOf(u) \in CallsMade
      BY <2>9, <3>2, <3>5, UdOfIs, BaseOf
    <3> QED
      BY <1>1, <2>7, <3>1, <3>3, <3>4, <3>5 DEF Answered
  <2>11. Answered(t)'
    <3>1. rv'[UdOf(t)] = found
      BY <1>2, <1>3, <2>1, <2>4 DEF TypeOK
    <3>2. found = "sent" => UdOf(t) \in CallsMade'
      BY <2>4, <2>8 DEF CallsMade
    <3>3. found = "refused" => UdOf(t) \in refused'
      BY <1>3, <1>6, <2>4
    <3>4. found # "sent" => Unmade(t)'
      BY <1>1, <2>4, <2>8 DEF Unmade
    <3> QED
      BY <1>1, <2>4, <2>7, <3>1, <3>2, <3>3, <3>4 DEF Answered
  <2>12. Owned'
    BY <1>1, <2>2, <2>7, Threads, BaseOf DEF Owned, Sending
  <2>13. Locked'
    BY <1>1, <1>2, <2>2 DEF Locked
  <2>14. Exchanges'
    <3>1. InExchange(t)'
      BY <1>1, <1>2, <2>4, <2>7, <2>11 DEF InExchange
    <3> QED
      BY <1>1, <2>1, <2>2, <2>3, <2>7, <2>10, <3>1 DEF Exchanges, Before, Holding
  <2>15. Synchronous'
    <3>1. \A u \in Thread, n \in 1..MaxCalls : [thread |-> u, call |-> n,
          of |-> "send"] \in Ud
      BY DEF Ud
    <3>2. refused \subseteq refused'
      BY <1>3
    <3> QED
      BY <1>1, <2>2, <1>6, <2>9, <3>1, <3>2 DEF Synchronous, MULTITHREADED
  <2>16. Mode'
    BY <1>1, <1>6, <2>12, <2>13, <2>14, <2>15, StaysMulti
  <2> QED
    BY <1>1, <2>6, <2>16 DEF IInv
<1>7. CASE ~MULTITHREADED /\ CanMulti
  BY <1>2, <1>7, Modes DEF Fresh
<1>8. CASE ~CanMulti
  <2>1. NoLocks /\ Queued /\ InHand /\ Preparing /\ ~MULTITHREADED
    BY <1>8, Modes DEF Single
  <2>2. PutIn(item) /\ item \in live /\ \A j \in DOMAIN performed : Earlier(performed[j],
        item)
    BY <1>2, <2>1 DEF InHand
  <2>3. Common'
    BY <1>5, <2>2 DEF PutIn
  <2>4. /\ DOMAIN performed' = DOMAIN performed \cup {Len(performed) + 1}
        /\ \A i \in DOMAIN performed : performed'[i] = performed[i]
        /\ performed'[Len(performed) + 1] = item
    <3>1. performed' = Append(performed, item)
      BY <1>3, <2>1
    <3> QED
      BY <1>2, <2>2, <3>1, MadeInOrder
  <2>5. \A e : PutIn(e)' <=> PutIn(e)
    BY <1>1 DEF PutIn
  <2>6. NoLocks'
    BY <1>1, <1>2, <2>1 DEF NoLocks
  <2>7. Queued'
    <3> SUFFICES ASSUME NEW i \in DOMAIN async_queue
                 PROVE  /\ PutIn(async_queue[i]) /\ async_queue[i] \in live
                        /\ \A j \in DOMAIN async_queue : i < j => Earlier(async_queue[i],
                          async_queue[j])
                        /\ \A j \in DOMAIN performed' : Earlier(performed'[j],
                          async_queue[i])
                        /\ Earlier(item, async_queue[i])
      BY <1>1, <2>5 DEF Queued, Earlier
    <3>1. Earlier(item, async_queue[i])
      BY <1>2, <2>1 DEF Queued
    <3>2. \A j \in DOMAIN performed' : Earlier(performed'[j], async_queue[i])
      BY <2>1, <2>4, <3>1 DEF Queued
    <3> QED
      BY <2>1, <3>1, <3>2 DEF Queued
  <2>8. InHand'
    BY <1>1, <1>2, <2>2, <2>5 DEF InHand
  <2>9. Preparing'
    <3>1. \A u \in Thread : UdOf(u)' = UdOf(u) /\ (at[u] \in Before => Unmade(u)')
      <4> SUFFICES ASSUME NEW u \in Thread, at[u] \in Before PROVE Unmade(u)'
        BY <1>1 DEF UdOf
      <4>1. item.thread = u => item.call < calls[u]
        BY <2>2 DEF PutIn
      <4>2. Unmade(u)
        BY <2>1 DEF Preparing
      <4> QED
        BY <1>1, <2>4, <4>1, <4>2 DEF Unmade
    <3> QED
      BY <1>1, <2>1, <3>1, Threads, BaseOf DEF Preparing, PuttingIn, InQueue
  <2>10. Mode'
    BY <1>1, <1>8, <2>6, <2>7, <2>8, <2>9, StaysSingle
  <2> QED
    BY <1>1, <2>3, <2>10 DEF IInv
<1> QED
  BY <1>6, <1>7, <1>8, Modes

\* The thread is signalled, or the record freed.
LEMMA TellKeeps ==
    ASSUME IInv, Tell
    PROVE  IInv'
<1>1. /\ UNCHANGED <<no_multi_thread_f, f_multi_thread, check_retrives, at, calls, of, rv,
                     async_queue, sig, idle, item, async_func_mutex, cv_mutex, performed,
                     refused, timeouts, fulls>>
      /\ TypeOK'
  BY TellTypes, BaseOf
<1>2. TypeOK /\ Common /\ None \notin Thread
  BY Modes, AsyncAssumption
<1>m. MULTITHREADED => \E t \in Thread :
              /\ at[t] = "waits" /\ item = UdOf(t) /\ Answered(t) /\ async_queue = <<>>
              /\ (signalled <=> lat = "unlocks") /\ cv_mutex = Loop
              /\ \A u \in Thread \ {t} : at[u] \notin Holding
  <2> SUFFICES ASSUME MULTITHREADED
               PROVE  \E t \in Thread :
                        /\ at[t] = "waits"
                        /\ item = UdOf(t)
                        /\ Answered(t)
                        /\ async_queue = <<>>
                        /\ (signalled <=> lat = "unlocks") /\ cv_mutex = Loop
                        /\ \A u \in Thread \ {t} : at[u] \notin Holding
    OBVIOUS
  <2>1. lat \in {"tells", "unlocks"} /\ Locked
    BY Modes DEF Multi, Tell
  <2>2. PICK t \in Thread :
              /\ at[t] \in {"added", "waits"} /\ InExchange(t)
              /\ \A u \in Thread \ {t} : at[u] \notin Holding
    BY <2>1, InLoop
  <2> QED
    BY <2>1, <2>2, AsyncAssumption DEF Locked, InExchange
<1>f. MULTITHREADED \/ ~CanMulti
  BY Modes DEF Fresh, Tell
<1>i. item \in Ud /\ item # None
  BY Threads, BaseOf, AsyncAssumption DEF Tell
<1>l. ~MULTITHREADED => (item \in live <=> lat # "unlocks") /\ PutIn(item)
  BY <1>f, Modes DEF Single, InHand, Tell
<1>3. /\ lat = "tells" /\ lat' = "unlocks" /\ ~undefined'
      /\ signalled' = (IF MULTITHREADED THEN TRUE ELSE signalled)
      /\ live' = (IF MULTITHREADED THEN live ELSE live \ {item})
  <2>1. /\ lat = "tells"
        /\ lat' = "unlocks"
        /\ live' = (IF MULTITHREADED THEN live ELSE live \ {item})
    BY DEF Tell
  <2>2. ~undefined'
    BY <1>2, <1>l, <2>1 DEF Tell, Touch, Common
  <2>3. signalled' = (IF MULTITHREADED THEN TRUE ELSE signalled)
    BY <1>m DEF Tell, Signal
  <2> QED
    BY <2>1, <2>2, <2>3
<1>4. \A u \in Thread : /\ UdOf(u)' = UdOf(u)
                        /\ (Unmade(u)' <=> Unmade(u))
                        /\ (Answered(u)' <=> Answered(u))
  BY <1>1, SameFor
<1>5. Common'
  BY <1>1, <1>2, <1>3, <1>i DEF Common, MULTITHREADED, CanMulti, OnceInOrder, Ordered,
     Holding
<1> SUFFICES Mode'
  BY <1>1, <1>5 DEF IInv
<1>6. CASE MULTITHREADED
  <2>1. PICK t \in Thread :
              /\ at[t] = "waits" /\ item = UdOf(t) /\ Answered(t) /\ async_queue = <<>>
              /\ (signalled <=> lat = "unlocks") /\ cv_mutex = Loop
              /\ \A u \in Thread \ {t} : at[u] \notin Holding
    BY <1>6, <1>m
  <2>0. Owned /\ Locked /\ Exchanges /\ Synchronous
    BY <1>6, Modes DEF Multi
  <2>2. Owned'
    BY <1>1, <1>3, <1>4, <1>6, <2>0, Threads, BaseOf DEF Owned, Sending
  <2>3. Locked'
    BY <1>1, <1>3, <2>0 DEF Locked
  <2>4. Exchanges'
    <3>1. InExchange(t)'
      BY <1>1, <1>3, <1>4, <1>6, <2>1 DEF InExchange
    <3> QED
      BY <1>1, <1>3, <1>4, <2>0, <2>1, <3>1 DEF Exchanges, Before, Holding
  <2>5. Synchronous'
    BY <1>1, <1>3, <2>0 DEF Synchronous, CallsMade, MULTITHREADED
  <2> QED
    BY <1>1, <1>3, <1>6, <2>2, <2>3, <2>4, <2>5, StaysMulti
<1>7. CASE ~MULTITHREADED /\ CanMulti
  BY <1>f, <1>7
<1>8. CASE ~CanMulti
  <2>1. NoLocks /\ Queued /\ InHand /\ Preparing
    BY <1>8, Modes DEF Single
  <2>2. \A e : PutIn(e)' <=> PutIn(e)
    BY <1>1 DEF PutIn
  <2>3. NoLocks'
    BY <1>1, <1>3, <2>1 DEF NoLocks
  <2>4. \A i \in DOMAIN async_queue : async_queue[i] # item
    <3>1. \A i \in DOMAIN async_queue : Earlier(item, async_queue[i])
      BY <1>3, <2>1 DEF Queued
    <3>2. item.call \in Nat
      BY <1>i DEF Ud
    <3> QED
      BY <3>1, <3>2 DEF Earlier
  <2>5. \A u \in Thread : PuttingIn(u) => UdOf(u) # item
    <3> SUFFICES ASSUME NEW u \in Thread, PuttingIn(u), UdOf(u) = item PROVE FALSE
      OBVIOUS
    <3>1. item.thread = u /\ item.call = calls[u] /\ at[u] \in Before
      BY DEF UdOf, PuttingIn, Before
    <3>2. calls[u] < calls[u] /\ calls[u] \in Nat
      BY <1>2, <1>l, <1>8, <3>1, Modes, AsyncAssumption DEF PutIn, TypeOK
    <3> QED
      BY <3>2
  <2>6. ~MULTITHREADED
    BY <1>8, Modes
  <2>7. Queued'
    BY <1>1, <1>3, <2>1, <2>2, <2>4, <2>6 DEF Queued, Earlier
  <2>8. InHand'
    BY <1>1, <1>3, <2>1, <2>2, <2>6 DEF InHand
  <2>9. Preparing'
    BY <1>1, <1>3, <1>4, <2>1, <2>5, <2>6, Threads, BaseOf DEF Preparing, PuttingIn, InQueue
  <2> QED
    BY <1>1, <1>3, <1>8, <2>3, <2>7, <2>8, <2>9, StaysSingle
<1> QED
  BY <1>6, <1>7, <1>8, Modes

\* The loop releases cv_mutex and is at rest.
LEMMA LoopUnlockKeeps ==
    ASSUME IInv, LoopUnlock
    PROVE  IInv'
<1>1. /\ UNCHANGED <<no_multi_thread_f, f_multi_thread, check_retrives, at, calls, of, rv,
                     live, async_queue, sig, async_func_mutex, signalled, performed,
                     refused, timeouts, fulls>>
      /\ TypeOK'
  BY LoopUnlockTypes, BaseOf
<1>2. TypeOK /\ Common /\ None \notin Thread
  BY Modes, AsyncAssumption
<1>m. MULTITHREADED => \E t \in Thread :
              /\ at[t] = "waits" /\ item = UdOf(t) /\ Answered(t) /\ async_queue = <<>>
              /\ (signalled <=> lat = "unlocks") /\ cv_mutex = Loop
              /\ \A u \in Thread \ {t} : at[u] \notin Holding
  <2> SUFFICES ASSUME MULTITHREADED
               PROVE  \E t \in Thread :
                        /\ at[t] = "waits"
                        /\ item = UdOf(t)
                        /\ Answered(t)
                        /\ async_queue = <<>>
                        /\ (signalled <=> lat = "unlocks") /\ cv_mutex = Loop
                        /\ \A u \in Thread \ {t} : at[u] \notin Holding
    OBVIOUS
  <2>1. lat \in {"tells", "unlocks"} /\ Locked
    BY Modes DEF Multi, LoopUnlock
  <2>2. PICK t \in Thread :
              /\ at[t] \in {"added", "waits"} /\ InExchange(t)
              /\ \A u \in Thread \ {t} : at[u] \notin Holding
    BY <2>1, InLoop
  <2> QED
    BY <2>1, <2>2, AsyncAssumption DEF Locked, InExchange
<1>f. MULTITHREADED \/ ~CanMulti
  BY Modes DEF Fresh, LoopUnlock
<1>i. item \in Ud /\ item # None
  BY Threads, BaseOf, AsyncAssumption DEF LoopUnlock
<1>l. ~MULTITHREADED => (item \in live <=> lat # "unlocks") /\ PutIn(item)
  BY <1>f, Modes DEF Single, InHand, LoopUnlock
<1>3. /\ lat = "unlocks" /\ lat' = "outside" /\ item' = None /\ ~undefined'
      /\ cv_mutex' = (IF MULTITHREADED THEN None ELSE cv_mutex)
  <2>1. MULTITHREADED => cv_mutex = Loop
    BY <1>m
  <2> QED
    BY <1>2, <2>1 DEF LoopUnlock, UnlockCvIfMulti, UnlockCv, Handled, Common
<1>4. \A u \in Thread : /\ UdOf(u)' = UdOf(u)
                        /\ (Unmade(u)' <=> Unmade(u))
                        /\ (Answered(u)' <=> Answered(u))
  BY <1>1, SameFor
<1>5. Common'
  BY <1>1, <1>2, <1>3 DEF Common, MULTITHREADED, CanMulti, OnceInOrder, Ordered, Holding
<1> SUFFICES Mode'
  BY <1>1, <1>5 DEF IInv
<1>6. CASE MULTITHREADED
  <2>1. PICK t \in Thread :
              /\ at[t] = "waits" /\ item = UdOf(t) /\ Answered(t) /\ async_queue = <<>>
              /\ (signalled <=> lat = "unlocks") /\ cv_mutex = Loop
              /\ \A u \in Thread \ {t} : at[u] \notin Holding
    BY <1>6, <1>m
  <2>0. Owned /\ Locked /\ Exchanges /\ Synchronous
    BY <1>6, Modes DEF Multi
  <2>2. Owned'
    BY <1>1, <1>3, <1>4, <1>6, <2>0, Threads, BaseOf DEF Owned, Sending
  <2>3. Locked'
    BY <1>1, <1>2, <1>3, <1>6, <2>0, <2>1, AsyncAssumption DEF Locked
  <2>4. Exchanges'
    <3>1. InExchange(t)'
      BY <1>1, <1>3, <1>4, <1>6, <2>1 DEF InExchange
    <3> QED
      BY <1>1, <1>3, <1>4, <2>0, <2>1, <3>1 DEF Exchanges, Before, Holding
  <2>5. Synchronous'
    BY <1>1, <1>3, <2>0 DEF Synchronous, CallsMade, MULTITHREADED
  <2> QED
    BY <1>1, <1>3, <1>6, <2>2, <2>3, <2>4, <2>5, StaysMulti
<1>7. CASE ~MULTITHREADED /\ CanMulti
  BY <1>f, <1>7
<1>8. CASE ~CanMulti
  <2>1. NoLocks /\ Queued /\ InHand /\ Preparing
    BY <1>8, Modes DEF Single
  <2>2. \A e : PutIn(e)' <=> PutIn(e)
    BY <1>1 DEF PutIn
  <2>3. NoLocks'
    BY <1>1, <1>3, <2>1 DEF NoLocks
  <2>4. ~MULTITHREADED /\ item \notin live
    BY <1>3, <1>8, <1>l, Modes
  <2>5. Queued'
    BY <1>1, <1>3, <2>1, <2>2 DEF Queued, Earlier
  <2>6. InHand'
    BY <1>3 DEF InHand
  <2>7. Preparing'
    BY <1>1, <1>3, <1>4, <2>1, <2>4, Threads, BaseOf DEF Preparing, PuttingIn, InQueue
  <2> QED
    BY <1>1, <1>3, <1>8, <2>3, <2>5, <2>6, <2>7, StaysSingle
<1> QED
  BY <1>6, <1>7, <1>8, Modes

-----------------------------------------------------------------------------
(* The invariant holds until a wait ends before its answer.                *)

\* At first no thread has called and the mode is not yet tried.
LEMMA AsyncInit == Init => IInv
<1> SUFFICES ASSUME Init PROVE IInv
  OBVIOUS
<1>1. performed = <<>> /\ async_queue = <<>> /\ live = {} /\ lat = "outside" /\ item = None
  BY DEF Init
<1>2. DOMAIN performed = {} /\ DOMAIN async_queue = {}
  BY <1>1
<1>3. TypeOK
  <2>1. at \in [Thread -> Places] /\ lat \in LoopPlaces
    BY DEF Init, Places, LoopPlaces
  <2>2. calls \in [Thread -> 0..MaxCalls] /\ 0 \in 0..MaxTimeouts /\ 0 \in 0..MaxFull
    BY AsyncAssumption DEF Init
  <2>3. rv \in [Ud -> Rv]
    BY DEF Init, Rv
  <2>4. of \in [Thread -> {"check", "send"}] /\ no_multi_thread_f \in BOOLEAN
    BY DEF Init
  <2>5. /\ async_queue \in Seq(Ud)
        /\ performed \in Seq(Ud)
        /\ live \subseteq Ud
        /\ refused \subseteq Ud
    BY DEF Init
  <2>6. /\ f_multi_thread \in {"NOT_DEFINED_MULTITHREAD", "MULTITHREAD", "NO_MULTITHREAD"}
        /\ check_retrives \in Nat /\ item \in Ud \cup {None}
        /\ async_func_mutex \in Thread \cup {None} /\ cv_mutex \in Thread \cup {Loop, None}
        /\ timeouts = 0 /\ fulls = 0
    BY DEF Init
  <2>7. sig \in BOOLEAN /\ idle \in BOOLEAN /\ signalled \in BOOLEAN /\ undefined \in BOOLEAN
    BY DEF Init
  <2> QED
    BY <2>1, <2>2, <2>3, <2>4, <2>5, <2>6, <2>7 DEF TypeOK
<1>4. Common
  BY <1>1, <1>2, AsyncAssumption DEF Init, Common, MULTITHREADED, Holding, OnceInOrder
<1>5. ~MULTITHREADED
  BY DEF Init, MULTITHREADED
<1>6. Fresh
  BY DEF Init, Fresh
<1>7. Single
  <2>1. NoLocks
    BY DEF Init, NoLocks
  <2>2. Queued /\ InHand
    BY <1>1, <1>2 DEF Queued, InHand
  <2>3. Preparing
    BY <1>1, <1>2 DEF Init, Preparing, PuttingIn, Before, Unmade
  <2> QED
    BY <2>1, <2>2, <2>3 DEF Single
<1> QED
  BY <1>3, <1>4, <1>5, <1>6, <1>7 DEF IInv, Mode

\* The wait of a thread ends without an answer.
LEMMA TimedOutIsLate ==
    ASSUME IInv, NEW t \in Thread, TimedOut(t)
    PROVE  Late'
BY DEF IInv, TypeOK, TimedOut, Late

\* Every other step of the threads and of the loop keeps the invariant.
LEMMA AsyncNext == IInv /\ [Next]_vars => IInv' \/ Late'
<1> SUFFICES ASSUME IInv, [Next]_vars PROVE IInv' \/ Late'
  OBVIOUS
<1>1. ASSUME NEW t \in Thread, Call(t) \/ Step(t) PROVE IInv'
  BY <1>1, CallKeeps, CheckMultiThreadKeeps, TryMultiThreadKeeps, LockFuncKeeps,
     LockCvKeeps, TakeCvKeeps, AddKeeps, WaitKeeps, WakeKeeps, WaitedKeeps, UnlockKeeps,
     DecideKeeps, ReturnKeeps, CheckReturnsKeeps DEF Step
<1>2. CASE LoopStep
  BY <1>2, SigAsyncKeeps, IdleAsyncKeeps, NeverDropped, CheckAnswersKeeps, AnswerKeeps,
     BeginKeeps, LoopLockKeeps, PerformKeeps, TellKeeps, LoopUnlockKeeps DEF LoopStep
<1>3. CASE UNCHANGED vars
  <2>1. /\ UNCHANGED <<no_multi_thread_f, f_multi_thread, check_retrives, at, calls, of>>
        /\ UNCHANGED <<rv, live, async_queue, sig, idle, lat, item, async_func_mutex>>
        /\ UNCHANGED <<cv_mutex, signalled, performed, refused, timeouts, fulls, undefined>>
    BY <1>3 DEF vars, mode, threads, memory, queue, loop, mutexes, history
  <2>2. TypeOK'
    BY <2>1, Modes DEF TypeOK
  <2> QED
    BY <2>1, <2>2, OnlySignals DEF IInv
<1> QED
  BY <1>1, <1>2, <1>3, TimedOutIsLate DEF Next

\* What was too late stays so.
LEMMA StaysLate == Late /\ [Next]_vars => Late'
<1> SUFFICES ASSUME Late, [Next]_vars PROVE Late'
  OBVIOUS
<1>1. ASSUME NEW t \in Thread, Call(t) \/ Step(t) PROVE timeouts' = timeouts
  BY <1>1 DEF Step, Call, CheckMultiThread, TryMultiThread, LockFunc, LockCv, TakeCv, Add,
     Wait, Wake, Waited, Unlock, Decide, Return, CheckReturns, history
<1>2. ASSUME NEW t \in Thread, TimedOut(t) PROVE timeouts' = timeouts + 1
  BY <1>2 DEF TimedOut
<1>3. CASE LoopStep
  BY <1>3 DEF LoopStep, SigAsync, IdleAsync, CheckDropped, CheckAnswers, Answer, Begin,
     LoopLock, Perform, Tell, LoopUnlock, history, Late
<1>4. CASE UNCHANGED vars
  BY <1>4 DEF vars, history, Late
<1> QED
  BY <1>1, <1>2, <1>3, <1>4 DEF Next, Late

\* The invariant, and that it tells all that was in time.
LEMMA IInvUntilLate == Spec => [](IInv \/ Late)
BY AsyncInit, AsyncNext, StaysLate, PTL DEF Spec

LEMMA NotLate == IInv \/ Late => (timeouts = 0 => IInv)
BY DEF Late

\* As long as no wait has ended before its answer no call is made twice, nor
\* before an earlier one of its thread, in either mode and however often the
\* send queue is full.
THEOREM CallsOnceInOrder == Spec => [](timeouts = 0 => OnceInOrder)
<1>1. IInv => OnceInOrder
  BY DEF IInv, Common
<1> QED
  BY <1>1, IInvUntilLate, NotLate, PTL

\* As long as no wait has ended before its answer a call that has returned in
\* multi-thread mode has been made, or refused.
THEOREM CallsSynchronous == Spec => [](timeouts = 0 => Synchronous)
<1>1. IInv => Synchronous
  BY Modes DEF Multi, Synchronous
<1> QED
  BY <1>1, IInvUntilLate, NotLate, PTL

\* As long as no wait has ended before its answer no record is used after it was
\* freed, none is forgotten, and each mutex is unlocked by its owner: the
\* caller frees in multi-thread mode, the loop without it.
THEOREM RecordsFreedOnce == Spec => [](timeouts = 0 => FreedOnce)
<1>1. IInv => FreedOnce
  <2> SUFFICES ASSUME IInv PROVE NoLeak
    BY Modes DEF Common, FreedOnce, WellDefined
  <2>1. CASE MULTITHREADED
    BY <2>1, Modes DEF Multi, Owned, NoLeak
  <2>2. CASE ~MULTITHREADED /\ CanMulti
    BY <2>2, Modes DEF Fresh, NoLeak
  <2>3. CASE ~CanMulti
    BY <2>3, Modes DEF Single, Preparing, PuttingIn, NoLeak, Sending
  <2> QED
    BY <2>1, <2>2, <2>3
<1> QED
  BY <1>1, IInvUntilLate, NotLate, PTL

-----------------------------------------------------------------------------
(* Calls whose wait may end before the answer.                             *)

\* A sequence and its tail.
LEMMA TailIs ==
    ASSUME NEW S, NEW u \in Seq(S), u # <<>>
    PROVE  /\ Tail(u) \in Seq(S) /\ Len(u) \in Nat /\ Len(Tail(u)) \in Nat
           /\ Len(u) = Len(Tail(u)) + 1 /\ 1 \in DOMAIN u /\ Head(u) = u[1] /\ u[1] \in S
           /\ DOMAIN u = 1..Len(u) /\ DOMAIN Tail(u) = 1..Len(Tail(u))
           /\ \A i \in DOMAIN Tail(u) : i + 1 \in DOMAIN u /\ Tail(u)[i] = u[i + 1]
           /\ \A i \in DOMAIN u : i = 1 \/ (i - 1 \in DOMAIN Tail(u) /\ Tail(u)[i - 1] = u[i])
<1> DEFINE v == Tail(u)
<1>0. v = Tail(u)
  OBVIOUS
<1> HIDE DEF v
<1>1. /\ v \in Seq(S) /\ Len(u) \in Nat /\ Len(v) \in Nat
      /\ DOMAIN u = 1..Len(u) /\ DOMAIN v = 1..Len(v) /\ Head(u) = u[1]
  BY <1>0
<1>2. Len(u) # 0
  OBVIOUS
<1>3. Len(u) = Len(v) + 1 /\ \A i \in 1..Len(v) : v[i] = u[i + 1]
  BY <1>0, <1>1, <1>2
<1>4. 1 \in DOMAIN u /\ u[1] \in S
  BY <1>1, <1>2
<1>5. \A i \in DOMAIN v : i + 1 \in DOMAIN u /\ v[i] = u[i + 1]
  BY <1>1, <1>3
<1>6. \A i \in DOMAIN u : i = 1 \/ (i - 1 \in DOMAIN v /\ v[i - 1] = u[i])
  <2> SUFFICES ASSUME NEW i \in DOMAIN u, i # 1
               PROVE  i - 1 \in DOMAIN v /\ v[i - 1] = u[i]
    OBVIOUS
  <2>1. i - 1 \in 1..Len(v) /\ (i - 1) + 1 = i
    BY <1>1, <1>3
  <2> QED
    BY <1>1, <1>3, <2>1
<1> QED
  BY <1>0, <1>1, <1>3, <1>4, <1>5, <1>6

CallOf(t, n) == [thread |-> t, call |-> n, of |-> "send"]

\* Where a thread is about to lock.
Locking == {"locks", "locks cv", "takes cv"}

\* Where what a thread asked for was put into the queue.
Put == {"added", "waits", "waited", "unlocks", "decides", "returns"}

\* t's call n was put into the queue.
WasPut(t, n) ==
    \/ n < calls[t]
    \/ n = calls[t] /\ at[t] = "outside"
    \/ n = calls[t] /\ of[t] = "send" /\ at[t] \in Put

\* A call was made, or there was a reason not to.
Settled(ud) == ud \in CallsMade \cup refused \/ fulls > 0

\* What was put into the queue is there, or is settled.
Kept ==
    /\ \A t \in Thread, n \in 1..MaxCalls :
          WasPut(t, n) => InQueue(CallOf(t, n)) \/ Settled(CallOf(t, n))
    /\ lat \in {"tells", "unlocks"} => Settled(item)
    /\ lat \in {"check", "answers"} => item.of = "check"

KInv == Base /\ (~undefined => Kept)

\* What TimedOut changes, and that it keeps the types.
LEMMA TimedOutTypes ==
    ASSUME Base, NEW t \in Thread, TimedOut(t)
    PROVE  TypeOK' /\ UNCHANGED <<no_multi_thread_f, f_multi_thread, check_retrives,
                                  calls, of, rv, live, async_queue, sig, idle, lat, item,
                                  async_func_mutex, signalled, performed, refused, fulls,
                                  undefined>>
<1>0. TypeOK
  BY DEF Base
<1>1. UNCHANGED <<no_multi_thread_f, f_multi_thread, check_retrives, calls, of, rv, live,
                  async_queue, sig, idle, lat, item, async_func_mutex, signalled,
                  performed, refused, fulls, undefined>>
  BY DEF TimedOut, mode, memory, queue, loop
<1>2. at' \in [Thread -> Places]
  BY <1>0 DEF TypeOK, Places, TimedOut, Goto
<1>3. cv_mutex' \in Thread \cup {Loop, None}
  BY <1>0 DEF TypeOK, TimedOut
<1>4. timeouts' \in 0..MaxTimeouts
  <2>1. timeouts \in 0..MaxTimeouts /\ timeouts < MaxTimeouts /\ timeouts' = timeouts + 1
    BY <1>0 DEF TypeOK, TimedOut
  <2> QED
    BY <2>1, AsyncAssumption
<1> QED
  BY <1>1, <1>2, <1>3, <1>4, <1>0 DEF TypeOK

\* What CheckDropped changes, and that it keeps the types.
LEMMA CheckDroppedTypes ==
    ASSUME Base, CheckDropped
    PROVE  TypeOK' /\ UNCHANGED <<no_multi_thread_f, f_multi_thread, check_retrives, at,
                                  calls, of, rv, async_queue, sig, async_func_mutex,
                                  cv_mutex, signalled, performed, refused, timeouts, fulls>>
<1>0. TypeOK
  BY DEF Base
<1>1. UNCHANGED <<no_multi_thread_f, f_multi_thread, check_retrives, at, calls, of, rv,
                  async_queue, sig, async_func_mutex, cv_mutex, signalled, performed,
                  refused, timeouts, fulls>>
  BY DEF CheckDropped, mode, threads, mutexes, history
<1>2. live' \in SUBSET Ud
  BY <1>0 DEF TypeOK, CheckDropped
<1>3. undefined' \in BOOLEAN
  BY <1>0 DEF TypeOK, CheckDropped, Touch
<1>4. lat' = "outside" /\ item' = None /\ idle' = TRUE
  BY DEF CheckDropped, Handled
<1> QED
  BY <1>1, <1>2, <1>3, <1>4, <1>0 DEF TypeOK, LoopPlaces

\* A thread goes on: the loop and the other threads do not.
LEMMA ThreadSteps ==
    ASSUME Base, NEW t \in Thread, Call(t) \/ Step(t) \/ TimedOut(t)
    PROVE  /\ TypeOK' /\ UNCHANGED <<lat, item, performed, refused, fulls>>
           /\ Add(t) \/ async_queue' = async_queue
           /\ \A u \in Thread \ {t} : at'[u] = at[u] /\ calls'[u] = calls[u] /\ of'[u] = of[u]
<1>0. TypeOK /\ at \in [Thread -> Places] /\ calls \in [Thread -> 0..MaxCalls]
      /\ of \in [Thread -> {"check", "send"}]
  BY DEF Base, TypeOK
<1>1. CASE Call(t)
  BY <1>0, <1>1, CallTypes DEF Call, Goto
<1>2. CASE CheckMultiThread(t)
  <2>1. /\ TypeOK' /\ UNCHANGED <<calls, async_queue, lat, item, performed, refused, fulls>>
        /\ (Goto(t, "tries") /\ UNCHANGED of) \/ Open(t, "send", {})
    BY <1>2, CheckMultiThreadTypes
  <2> QED
    BY <1>0, <2>1 DEF Open, Goto
<1>3. CASE \/ LockFunc(t) \/ LockCv(t) \/ TakeCv(t) \/ Add(t)
           \/ Wait(t) \/ Wake(t) \/ TimedOut(t)
  <2>1. TypeOK' /\ UNCHANGED <<calls, of, lat, item, performed, refused, fulls>>
        /\ (Add(t) \/ async_queue' = async_queue)
    BY <1>3, LockFuncTypes, LockCvTypes, TakeCvTypes, AddTypes, WaitTypes, WakeTypes,
       TimedOutTypes
  <2>2. \E place \in Places : Goto(t, place)
    BY <1>3 DEF LockFunc, LockCv, TakeCv, Add, Wait, Wake, TimedOut, Places
  <2> QED
    BY <1>0, <2>1, <2>2 DEF Goto
<1>4. CASE Waited(t) \/ Unlock(t) \/ Decide(t) \/ Return(t)
  <2>1. TypeOK' /\ UNCHANGED <<calls, of, async_queue, lat, item, performed, refused, fulls>>
    BY <1>4, WaitedTypes, UnlockTypes, DecideTypes, ReturnTypes
  <2>2. \E place \in Places : Goto(t, place)
    BY <1>4 DEF Waited, Unlock, Decide, Return, Places
  <2> QED
    BY <1>0, <2>1, <2>2 DEF Goto
<1>5. CASE CheckReturns(t)
  <2>1. \E freed : Open(t, "send", freed)
    BY <1>5 DEF CheckReturns
  <2> QED
    BY <1>0, <1>5, <2>1, CheckReturnsTypes DEF Open, Goto
<1>6. CASE TryMultiThread(t)
  <2>1. /\ TypeOK' /\ UNCHANGED <<calls, async_queue, lat, item, performed, refused, fulls>>
        /\ Open(t, "check", {})
    BY <1>6, TryMultiThreadTypes
  <2> QED
    BY <1>0, <2>1 DEF Open, Goto
<1> QED
  BY <1>1, <1>2, <1>3, <1>4, <1>5, <1>6 DEF Step

\* The place of the thread that goes on, and what it is about.
LEMMA ThreadGoes ==
    ASSUME Base, NEW t \in Thread, Call(t) \/ Step(t) \/ TimedOut(t)
    PROVE  \/ at[t] = "outside" /\ at'[t] = "begins" /\ calls'[t] = calls[t] + 1
           \/ /\ at[t] # "outside" /\ calls'[t] = calls[t] /\ of'[t] = of[t]
              /\ \/ at[t] \in Locking /\ at'[t] \in {"locks cv", "takes cv", "adds"}
                 \/ at[t] = "adds" /\ at'[t] = "added" /\ Add(t)
                 \/ at[t] \in Put /\ at'[t] \in Put
                 \/ at[t] = "decides" /\ at'[t] = "locks" /\ Decide(t)
                 \/ at[t] = "returns" /\ of[t] = "send" /\ at'[t] = "outside"
           \/ /\ at[t] = "begins" /\ at'[t] = "tries"
              /\ calls'[t] = calls[t] /\ of'[t] = of[t]
           \/ at[t] \in {"begins", "tries"} /\ at'[t] = "locks" /\ calls'[t] = calls[t]
           \/ /\ at[t] = "returns" /\ at'[t] = "locks" /\ calls'[t] = calls[t]
              /\ of[t] = "check" /\ of'[t] = "send"
<1>0. at \in [Thread -> Places] /\ calls \in [Thread -> 0..MaxCalls]
      /\ of \in [Thread -> {"check", "send"}]
  BY DEF Base, TypeOK
<1>1. CASE Call(t)
  BY <1>0, <1>1 DEF Call, Goto
<1>2. CASE CheckMultiThread(t)
  BY <1>0, <1>2, CheckMultiThreadTypes DEF CheckMultiThread, Open, Goto
<1>3. CASE LockFunc(t) \/ LockCv(t) \/ TakeCv(t)
  <2>1. UNCHANGED <<calls, of>>
    BY <1>3, LockFuncTypes, LockCvTypes, TakeCvTypes
  <2>2. /\ at[t] \in Locking
        /\ \E place \in {"locks cv", "takes cv", "adds"} : Goto(t, place)
    BY <1>3 DEF LockFunc, LockCv, TakeCv, Locking
  <2> QED
    BY <1>0, <2>1, <2>2 DEF Goto, Locking
<1>4. CASE Add(t)
  BY <1>0, <1>4, AddTypes DEF Add, Goto
<1>5. CASE Wait(t) \/ Wake(t) \/ TimedOut(t)
  <2>1. UNCHANGED <<calls, of>>
    BY <1>5, WaitTypes, WakeTypes, TimedOutTypes
  <2>2. at[t] \in Put /\ \E place \in Put : Goto(t, place)
    BY <1>5 DEF Wait, Wake, TimedOut, Put
  <2> QED
    BY <1>0, <2>1, <2>2 DEF Goto, Put
<1>6. CASE Waited(t) \/ Unlock(t)
  <2>1. UNCHANGED <<calls, of>>
    BY <1>6, WaitedTypes, UnlockTypes
  <2>2. at[t] \in Put /\ \E place \in Put : Goto(t, place)
    BY <1>6 DEF Waited, Unlock, Put
  <2> QED
    BY <1>0, <2>1, <2>2 DEF Goto, Put
<1>7. CASE Decide(t)
  <2>1. UNCHANGED <<calls, of>>
    BY <1>7, DecideTypes
  <2>2. at[t] = "decides" /\ \E place \in {"locks", "returns"} : Goto(t, place)
    BY <1>7 DEF Decide
  <2> QED
    BY <1>0, <1>7, <2>1, <2>2 DEF Goto, Put
<1>8. CASE Return(t)
  <2>1. UNCHANGED <<calls, of>>
    BY <1>8, ReturnTypes
  <2> QED
    BY <1>0, <1>8, <2>1 DEF Return, Goto
<1>9. CASE CheckReturns(t)
  <2>1. \E freed : Open(t, "send", freed)
    BY <1>9 DEF CheckReturns
  <2>2. at[t] = "returns" /\ of[t] = "check" /\ UNCHANGED calls
    BY <1>9 DEF CheckReturns
  <2> QED
    BY <1>0, <2>1, <2>2 DEF Open, Goto
<1>10. CASE TryMultiThread(t)
  BY <1>0, <1>10, TryMultiThreadTypes DEF TryMultiThread, Open, Goto
<1> QED
  BY <1>1, <1>2, <1>3, <1>4, <1>5, <1>6, <1>7, <1>8, <1>9, <1>10 DEF Step

\* A record goes from the queue into the loop, or is dropped if it was freed.
Taken == lat = "outside" /\ async_queue # <<>> /\ async_queue' = Tail(async_queue)

Dropped == Taken /\ Head(async_queue) \notin live /\ undefined' /\ lat' = "outside" /\ item' = None

\* What the loop does with what it handles.
Moves ==
    \/ lat = "check" /\ lat' = "answers"
    \/ lat = "send" /\ lat' \in {"locks", "performs"}
    \/ lat = "locks" /\ lat' = "performs"
    \/ lat = "tells" /\ lat' = "unlocks"

Ends == lat \in {"check", "answers", "unlocks"} /\ lat' = "outside" /\ item' = None

Makes ==
    /\ lat = "performs" /\ lat' = "tells" /\ item' = item
    /\ \/ performed' = Append(performed, item) /\ refused' = refused /\ fulls' \in {fulls, fulls + 1}
       \/ performed' = performed /\ refused' = refused \cup {item} /\ fulls' = fulls
       \/ performed' = performed /\ refused' = refused /\ fulls' = fulls + 1

\* The loop goes on: the threads do not.
LEMMA LoopSteps ==
    ASSUME Base, LoopStep
    PROVE  /\ TypeOK' /\ UNCHANGED <<at, calls, of>>
           /\ Taken \/ async_queue' = async_queue
           /\ Makes \/ UNCHANGED <<performed, refused, fulls>>
           /\ \/ async_queue' = async_queue /\ UNCHANGED <<lat, item>>
              \/ Taken /\ item' = Head(async_queue) /\ lat' = item'.of
              \/ Dropped
              \/ async_queue' = async_queue /\ item' = item /\ Moves
              \/ async_queue' = async_queue /\ Ends
              \/ async_queue' = async_queue /\ Makes
<1>1. CASE SigAsync
  <2>1. /\ TypeOK' /\ UNCHANGED <<at, calls, of, performed, refused, fulls>>
    BY <1>1, SigAsyncTypes
  <2>2. CASE async_queue # <<>> /\ ~idle
    <3>1. /\ Taken
          /\ \/ lat' = Head(async_queue).of /\ item' = Head(async_queue)
             \/ Dropped
      BY <1>1, <2>2 DEF SigAsync, Taken, Dropped, Handled, Touch
    <3> QED
      BY <2>1, <3>1
  <2>3. CASE ~(async_queue # <<>> /\ ~idle)
    BY <1>1, <2>1, <2>3 DEF SigAsync, loop
  <2> QED
    BY <2>2, <2>3
<1>2. CASE IdleAsync
  BY <1>2, IdleAsyncTypes
<1>3. CASE CheckDropped
  BY <1>3, CheckDroppedTypes DEF CheckDropped, Handled, Ends
<1>4. CASE CheckAnswers
  BY <1>4, CheckAnswersTypes DEF CheckAnswers, Moves
<1>5. CASE Answer
  BY <1>5, AnswerTypes DEF Answer, Handled, Ends
<1>6. CASE Begin
  BY <1>6, BeginTypes DEF Begin, Moves
<1>7. CASE LoopLock
  BY <1>7, LoopLockTypes DEF LoopLock, Moves
<1>8. CASE Perform
  <2>1. /\ TypeOK' /\ UNCHANGED <<at, calls, of, async_queue, item>>
    BY <1>8, PerformTypes
  <2>2. fulls \in Nat
    BY AsyncAssumption DEF Base, TypeOK
  <2>3. Makes
    BY <1>8, <2>1, <2>2 DEF Perform, Makes
  <2> QED
    BY <2>1, <2>3
<1>9. CASE Tell
  BY <1>9, TellTypes DEF Tell, Moves
<1>10. CASE LoopUnlock
  BY <1>10, LoopUnlockTypes DEF LoopUnlock, Handled, Ends
<1> QED
  BY <1>1, <1>2, <1>3, <1>4, <1>5, <1>6, <1>7, <1>8, <1>9, <1>10 DEF LoopStep

\* Places and calls fit together after every step.
LEMMA BaseKeeps ==
    ASSUME Base, Next
    PROVE  Base'
<1>1. ASSUME NEW t \in Thread, Call(t) \/ Step(t) \/ TimedOut(t)
      PROVE  Base'
  <2>1. calls \in [Thread -> 0..MaxCalls] /\ MaxCalls \in Nat
    BY AsyncAssumption DEF Base, TypeOK
  <2>2. /\ TypeOK' /\ UNCHANGED <<lat, item>>
        /\ \A u \in Thread \ {t} : at'[u] = at[u] /\ calls'[u] = calls[u]
    BY <1>1, ThreadSteps
  <2>3. at'[t] # "outside" => calls'[t] # 0
    <3>1. calls[t] \in Nat /\ (at[t] # "outside" => calls[t] # 0)
      BY <2>1 DEF Base
    <3>2. calls[t] + 1 # 0
      BY <3>1
    <3>3. \/ at[t] = "outside" /\ calls'[t] = calls[t] + 1
          \/ at[t] # "outside" /\ calls'[t] = calls[t]
      BY <1>1, ThreadGoes
    <3> QED
      BY <3>1, <3>2, <3>3
  <2> QED
    BY <2>2, <2>3 DEF Base
<1>2. CASE LoopStep
  <2>1. TypeOK' /\ UNCHANGED <<at, calls, of>>
    BY <1>2, LoopSteps
  <2>2. async_queue # <<>> => /\ Head(async_queue) # None
                              /\ Head(async_queue).of # "outside"
    BY QueueHead, AsyncAssumption
  <2>3. \/ UNCHANGED <<lat, item>>
        \/ Taken /\ item' = Head(async_queue) /\ lat' = item'.of
        \/ lat' = "outside" /\ item' = None
        \/ lat # "outside" /\ lat' # "outside" /\ item' = item
    BY <1>2, LoopSteps DEF Dropped, Moves, Ends, Makes
  <2>4. lat' = "outside" <=> item' = None
    BY <2>2, <2>3 DEF Base, Taken
  <2> QED
    BY <2>1, <2>4 DEF Base
<1> QED
  BY <1>1, <1>2 DEF Next

\* What is settled stays so.
LEMMA StaysSettled ==
    ASSUME Base, Makes \/ UNCHANGED <<performed, refused, fulls>>
    PROVE  /\ \A ud : Settled(ud) => Settled(ud)'
           /\ Makes => Settled(item)'
<1>1. performed \in Seq(Ud) /\ fulls \in Nat /\ (lat # "outside" => item \in Ud)
  BY Threads, AsyncAssumption DEF Base, TypeOK
<1>2. CASE UNCHANGED <<performed, refused, fulls>>
  BY <1>1, <1>2 DEF Settled, CallsMade, Makes
<1>3. CASE Makes
  <2>1. item \in Ud /\ fulls + 1 > 0 /\ (fulls > 0 => fulls + 1 > 0)
    BY <1>1, <1>3 DEF Makes
  <2>2. ASSUME performed' = Append(performed, item)
        PROVE  CallsMade \subseteq CallsMade' /\ item \in CallsMade'
    <3>1. /\ \A i \in DOMAIN performed : i \in DOMAIN performed' /\ performed'[i] = performed[i]
          /\ Len(performed) + 1 \in DOMAIN performed' /\ performed'[Len(performed) + 1] = item
      BY <1>1, <2>1, <2>2
    <3> QED
      BY <3>1 DEF CallsMade
  <2>3. performed' = performed => CallsMade' = CallsMade
    BY DEF CallsMade
  <2> QED
    BY <1>1, <1>3, <2>1, <2>2, <2>3 DEF Makes, Settled
<1> QED
  BY <1>2, <1>3

\* A call in the queue stays there or is settled, unless its record was freed.
LEMMA KeptStep ==
    ASSUME Base, Kept, Next
    PROVE  Kept' \/ (Dropped /\ fulls' = fulls)
<1>0. calls \in [Thread -> 0..MaxCalls] /\ async_queue \in Seq(Ud)
  BY DEF Base, TypeOK
<1>1. ASSUME NEW t \in Thread, Call(t) \/ Step(t) \/ TimedOut(t)
      PROVE  Kept'
  <2>1. /\ UNCHANGED <<lat, item, performed, refused, fulls>>
        /\ Add(t) \/ async_queue' = async_queue
        /\ \A u \in Thread \ {t} : at'[u] = at[u] /\ calls'[u] = calls[u] /\ of'[u] = of[u]
    BY <1>1, ThreadSteps
  <2>2. \A ud : Settled(ud)' <=> Settled(ud)
    BY <2>1 DEF Settled, CallsMade
  <2>3. \A ud : InQueue(ud) => InQueue(ud)'
    <3>1. CASE async_queue' = async_queue
      BY <2>1, <3>1 DEF InQueue
    <3>2. CASE Add(t)
      <4>1. UdOf(t) \in Ud /\ async_queue' = Append(async_queue, UdOf(t))
        BY <3>2, UdOfIs DEF Add
      <4>2. \A i \in DOMAIN async_queue : i \in DOMAIN async_queue' /\ async_queue'[i] = async_queue[i]
        BY <1>0, <4>1
      <4> QED
        BY <2>1, <4>2 DEF InQueue
    <3> QED
      BY <2>1, <3>1, <3>2
  <2>4. Add(t) => InQueue(UdOf(t))'
    <3>1. ASSUME Add(t)
          PROVE  Len(async_queue) + 1 \in DOMAIN async_queue' /\ async_queue'[Len(async_queue) + 1] = UdOf(t)
      <4>1. UdOf(t) \in Ud /\ async_queue' = Append(async_queue, UdOf(t))
        BY <3>1, UdOfIs DEF Add
      <4> QED
        BY <1>0, <4>1
    <3>2. Add(t) => UdOf(t)' = UdOf(t)
      BY AddTypes DEF UdOf
    <3> QED
      BY <3>1, <3>2 DEF InQueue
  <2>5. \A u \in Thread, n \in 1..MaxCalls :
           WasPut(u, n)' => WasPut(u, n) \/ (Add(t) /\ CallOf(u, n) = UdOf(t))
    <3>1. ASSUME NEW u \in Thread, NEW n \in 1..MaxCalls, WasPut(u, n)'
          PROVE  WasPut(u, n) \/ (Add(t) /\ CallOf(u, n) = UdOf(t))
      <4>1. CASE u # t
        BY <2>1, <3>1, <4>1 DEF WasPut
      <4>2. CASE u = t
        <5>1. calls[t] \in Nat /\ n \in Nat /\ (n < calls[t] + 1 => n <= calls[t])
          BY <1>0, AsyncAssumption
        <5>2. CASE at[t] = "outside" /\ at'[t] = "begins" /\ calls'[t] = calls[t] + 1
          BY <3>1, <4>2, <5>1, <5>2 DEF WasPut, Put
        <5>3. CASE /\ at[t] # "outside" /\ calls'[t] = calls[t] /\ of'[t] = of[t]
                   /\ \/ at[t] \in Locking /\ at'[t] \in {"locks cv", "takes cv", "adds"}
                      \/ at[t] \in Put /\ at'[t] \in Put
                      \/ at[t] = "decides" /\ at'[t] = "locks" /\ Decide(t)
                      \/ at[t] = "returns" /\ of[t] = "send" /\ at'[t] = "outside"
          BY <3>1, <4>2, <5>1, <5>3 DEF WasPut, Put, Locking
        <5>4. CASE /\ at[t] # "outside" /\ calls'[t] = calls[t] /\ of'[t] = of[t]
                   /\ at[t] = "adds" /\ at'[t] = "added" /\ Add(t)
          BY <3>1, <4>2, <5>1, <5>4 DEF WasPut, Put, CallOf, UdOf
        <5>5. CASE at'[t] \in {"tries", "locks"} /\ calls'[t] = calls[t]
          BY <3>1, <4>2, <5>1, <5>5 DEF WasPut, Put
        <5> QED
          BY <1>1, <5>2, <5>3, <5>4, <5>5, ThreadGoes
      <4> QED
        BY <4>1, <4>2
    <3> QED
      BY <3>1
  <2>6. Add(t) => UdOf(t)' = UdOf(t)
    BY AddTypes DEF UdOf
  <2> QED
    BY <2>1, <2>2, <2>3, <2>4, <2>5, <2>6 DEF Kept, CallOf
<1>2. CASE LoopStep
  <2>1. /\ UNCHANGED <<at, calls, of>>
        /\ Makes \/ UNCHANGED <<performed, refused, fulls>>
    BY <1>2, LoopSteps
  <2>2. /\ \A ud : Settled(ud) => Settled(ud)'
        /\ Makes => Settled(item)'
    BY <2>1, StaysSettled
  <2>3. \A u, n : WasPut(u, n)' <=> WasPut(u, n)
    BY <2>1 DEF WasPut
  <2>4. \A u \in Thread, n \in 1..MaxCalls : CallOf(u, n).of = "send" /\ CallOf(u, n) # None
    <3>1. \A u \in Thread, n \in 1..MaxCalls : CallOf(u, n) \in Ud
      BY DEF CallOf, Ud
    <3> QED
      BY <3>1, AsyncAssumption DEF CallOf
  \* Only what has been settled, or is no call, leaves.
  <2>5. ASSUME ~Dropped
        PROVE  \A u \in Thread, n \in 1..MaxCalls :
                  InQueue(CallOf(u, n)) => InQueue(CallOf(u, n))' \/ Settled(CallOf(u, n))'
    <3>1. CASE async_queue' = async_queue /\ item' = item
      BY <3>1 DEF InQueue
    <3>2. CASE Taken /\ item' = Head(async_queue)
      <4>1. \A i \in DOMAIN async_queue :
               i = 1 \/ (i - 1 \in DOMAIN Tail(async_queue) /\ Tail(async_queue)[i - 1] = async_queue[i])
        BY <1>0, <3>2, TailIs DEF Taken
      <4>2. async_queue[1] = Head(async_queue) /\ item = None
        BY <3>2, QueueHead DEF Taken, Base
      <4> QED
        BY <2>4, <3>2, <4>1, <4>2 DEF InQueue, Taken
    <3>3. CASE async_queue' = async_queue /\ Ends
      BY <2>2, <2>4, <3>3 DEF Ends, Kept, InQueue
    <3> QED
      BY <1>2, <2>5, <3>1, <3>2, <3>3, LoopSteps DEF Makes
  <2>6. lat' \in {"tells", "unlocks"} => Settled(item)' \/ Dropped
    <3>1. async_queue # <<>> => Head(async_queue).of \in {"check", "send"}
      BY QueueHead
    <3> QED
      BY <1>2, <2>2, <3>1, LoopSteps DEF Kept, Taken, Moves, Ends, Makes
  <2>7. lat' \in {"check", "answers"} => item'.of = "check" \/ Dropped
    <3>1. async_queue # <<>> => Head(async_queue).of \in {"check", "send"}
      BY QueueHead
    <3> QED
      BY <1>2, <3>1, LoopSteps DEF Kept, Taken, Moves, Ends, Makes
  <2>8. Dropped => fulls' = fulls
    BY <2>1 DEF Dropped, Taken, Makes
  <2>9. CASE ~Dropped
    <3>1. \A u \in Thread, n \in 1..MaxCalls :
             WasPut(u, n)' => InQueue(CallOf(u, n))' \/ Settled(CallOf(u, n))'
      BY <2>2, <2>3, <2>5, <2>9 DEF Kept
    <3> QED
      BY <2>6, <2>7, <2>9, <3>1 DEF Kept, CallOf
  <2> QED
    BY <2>8, <2>9
<1> QED
  BY <1>1, <1>2 DEF Next

\* Without a use of freed memory nothing that was put in is forgotten.
LEMMA KInvKeeps ==
    ASSUME KInv, [Next]_vars
    PROVE  KInv'
<1>1. CASE UNCHANGED vars
  <2>1. Base' <=> Base
    BY <1>1 DEF Base, TypeOK, vars, mode, threads, memory, queue, loop, mutexes, history
  <2>2. /\ UNCHANGED <<at, calls, of, async_queue, lat, item, performed, refused, fulls, undefined>>
    BY <1>1 DEF vars, mode, threads, memory, queue, loop, mutexes, history
  <2>3. Kept' <=> Kept
    BY <2>2 DEF Kept, WasPut, InQueue, Settled, CallsMade
  <2> QED
    BY <2>1, <2>2, <2>3 DEF KInv
<1>2. CASE Next
  <2>1. Base /\ ~undefined /\ Kept
    BY <1>2 DEF KInv, Next
  <2> QED
    BY <1>2, <2>1, BaseKeeps, KeptStep DEF KInv, Dropped
<1> QED
  BY <1>1, <1>2

\* In the first state nothing was put in.
LEMMA KeptInit ==
    ASSUME Init
    PROVE  Base /\ Kept /\ ~undefined
<1>1. Base
  BY AsyncInit, BaseOf
<1>2. /\ \A t \in Thread : calls[t] = 0 /\ \A n \in 1..MaxCalls : ~(n < 0) /\ n # 0
      /\ lat = "outside" /\ ~undefined
  BY AsyncAssumption DEF Init
<1>3. Kept
  BY <1>2 DEF Kept, WasPut
<1> QED
  BY <1>1, <1>2, <1>3

\* What was put into the queue is what has returned.
LEMMA KeptNotLost ==
    ASSUME Base, Kept
    PROVE  LostOnlyIfFull
<1> SUFFICES ASSUME NEW t \in Thread, NEW n \in 1..MaxCalls,
                    n < calls[t] \/ (n = calls[t] /\ at[t] = "outside")
             PROVE  CallOf(t, n) \in CallsMade \cup refused \/ InQueue(CallOf(t, n)) \/ fulls > 0
  BY DEF LostOnlyIfFull, CallOf
<1>1. WasPut(t, n)
  BY DEF WasPut
<1> QED
  BY <1>1 DEF Kept, Settled

-----------------------------------------------------------------------------
(* A single thread that calls.                                             *)

OneCaller == \A t, u \in Thread : t = u

\* A record that was put in before another one, which may be the same.
Precedes(a, b) ==
    \/ a.call < b.call
    \/ a.call = b.call /\ (a.of = b.of \/ (a.of = "check" /\ b.of = "send"))

\* What was put in is not newer than what its thread is about.
Reached(ud) ==
    \A t \in Thread :
        /\ ud.call <= calls[t]
        /\ at[t] \in {"begins", "tries"} => ud.call < calls[t]
        /\ Sending(t) => Precedes(ud, UdOf(t))

\* The queue is in the order in which it was filled, behind the rest.
QueueInTurn ==
    \A i \in DOMAIN async_queue :
        /\ Reached(async_queue[i])
        /\ \A j \in DOMAIN async_queue : i < j => Precedes(async_queue[i], async_queue[j])
        /\ lat # "outside" => Precedes(item, async_queue[i])
        /\ \A j \in DOMAIN performed : Precedes(performed[j], async_queue[i])

ItemInTurn ==
    /\ lat # "outside" =>
          Reached(item) /\ \A j \in DOMAIN performed : Precedes(performed[j], item)
    /\ lat \in {"send", "locks", "performs"} => item.of = "send"

CallsInTurn ==
    \A i \in DOMAIN performed :
        /\ Reached(performed[i]) /\ performed[i].of = "send"
        /\ \A j \in DOMAIN performed : i < j => Precedes(performed[i], performed[j])

\* Calls are made and handled in the order in which they were put in.
InTurn == QueueInTurn /\ ItemInTurn /\ CallsInTurn

NoneTwice == \A i, j \in DOMAIN performed : i < j => performed[i] # performed[j]

\* Where the loop has not yet answered what it handles.
Early == {"check", "answers", "send", "locks", "performs"}

\* ud has been allocated, not answered, and not made.
Pending(ud) == ud \in live /\ rv[ud] = "timeout" /\ \A j \in DOMAIN performed : performed[j] # ud

QueuedOnce ==
    \A i \in DOMAIN async_queue :
        /\ Pending(async_queue[i]) /\ async_queue[i] # item
        /\ \A j \in DOMAIN async_queue : i < j => async_queue[i] # async_queue[j]

\* A record is put in for the first time.
FirstTime ==
    \A t \in Thread :
        PuttingIn(t) => Pending(UdOf(t)) /\ ~InQueue(UdOf(t))

\* With the mode on, a thread that goes on without an answer has ended the mode.
Answers ==
    \A t \in Thread :
        MULTITHREADED /\ at[t] \in {"unlocks", "decides", "returns"} => rv[UdOf(t)] # "timeout"

\* Without a full send queue a record is put in once, and stays until the loop
\* has answered.
PutOnce ==
    /\ QueuedOnce
    /\ lat \in Early => Pending(item)
    /\ \A ud \in Ud : rv[ud] # "full"
    /\ FirstTime /\ Answers

OInv ==
    /\ Base /\ Kept /\ InTurn
    /\ fulls = 0 => NoneTwice
    /\ ~undefined /\ fulls = 0 => PutOnce

\* The order of records.
LEMMA PrecedesIs ==
    ASSUME NEW a \in Ud, NEW b \in Ud, NEW c \in Ud
    PROVE  /\ a.call \in Nat /\ a.of \in {"check", "send"}
           /\ Precedes(a, a)
           /\ Precedes(a, b) /\ Precedes(b, c) => Precedes(a, c)
<1>1. /\ a.call \in Nat /\ b.call \in Nat /\ c.call \in Nat
      /\ a.of \in {"check", "send"}
  BY AsyncAssumption DEF Ud
<1> QED
  BY <1>1 DEF Precedes

\* What was put in stays behind what its thread is about.
LEMMA StaysReached ==
    ASSUME Base, OneCaller, NEW t \in Thread, Call(t) \/ Step(t) \/ TimedOut(t),
           NEW ud \in Ud, Reached(ud)
    PROVE  Reached(ud)'
<1>0. calls[t] \in Nat /\ ud.call \in Nat /\ ud.of \in {"check", "send"}
  <2>1. calls[t] \in 0..MaxCalls
    BY DEF Base, TypeOK
  <2> QED
    BY <2>1, PrecedesIs, AsyncAssumption
<1>1. /\ ud.call <= calls[t]
      /\ at[t] \in {"begins", "tries"} => ud.call < calls[t]
      /\ Sending(t) => Precedes(ud, UdOf(t))
  BY DEF Reached
<1> SUFFICES /\ ud.call <= calls'[t]
             /\ at'[t] \in {"begins", "tries"} => ud.call < calls'[t]
             /\ Sending(t)' => Precedes(ud, UdOf(t)')
  BY DEF OneCaller, Reached, Precedes
<1>2. CASE at[t] = "outside" /\ at'[t] = "begins" /\ calls'[t] = calls[t] + 1
  BY <1>0, <1>1, <1>2 DEF Sending
<1>3. CASE /\ at[t] # "outside" /\ calls'[t] = calls[t] /\ of'[t] = of[t]
           /\ \/ at[t] \in Locking /\ at'[t] \in {"locks cv", "takes cv", "adds"}
              \/ at[t] = "adds" /\ at'[t] = "added" /\ Add(t)
              \/ at[t] \in Put /\ at'[t] \in Put
              \/ at[t] = "decides" /\ at'[t] = "locks" /\ Decide(t)
              \/ at[t] = "returns" /\ of[t] = "send" /\ at'[t] = "outside"
  <2>1. Sending(t) /\ at'[t] \notin {"begins", "tries"} /\ UdOf(t)' = UdOf(t)
    BY <1>3 DEF Sending, Put, Locking, UdOf
  <2> QED
    BY <1>1, <1>3, <2>1
<1>4. CASE at[t] \in {"begins", "tries"} /\ at'[t] = "locks" /\ calls'[t] = calls[t]
  <2>1. ud.call < calls[t] /\ UdOf(t)'.call = calls[t]
    BY <1>1, <1>4 DEF UdOf
  <2> QED
    BY <1>1, <1>4, <2>1 DEF Precedes
<1>5. CASE /\ at[t] = "returns" /\ at'[t] = "locks" /\ calls'[t] = calls[t]
           /\ of[t] = "check" /\ of'[t] = "send"
  <2>1. /\ UdOf(t).call = calls[t] /\ UdOf(t).of = "check"
        /\ UdOf(t)'.call = calls[t] /\ UdOf(t)'.of = "send"
    BY <1>5 DEF UdOf
  <2>2. Precedes(ud, UdOf(t))
    BY <1>1, <1>5 DEF Sending
  <2> QED
    BY <1>0, <1>1, <1>5, <2>1, <2>2 DEF Precedes
<1>6. CASE at[t] = "begins" /\ at'[t] = "tries" /\ calls'[t] = calls[t] /\ of'[t] = of[t]
  BY <1>1, <1>6 DEF Sending
<1> QED
  BY <1>2, <1>3, <1>4, <1>5, <1>6, ThreadGoes

\* Records have the types that InTurn needs.
LEMMA InUd ==
    ASSUME Base
    PROVE  /\ \A i \in DOMAIN async_queue : async_queue[i] \in Ud
           /\ \A i \in DOMAIN performed : performed[i] \in Ud
           /\ lat # "outside" => item \in Ud
BY Threads

\* A thread goes on: the order stays.
LEMMA ThreadsInTurn ==
    ASSUME Base, InTurn, OneCaller, NEW t \in Thread, Call(t) \/ Step(t) \/ TimedOut(t)
    PROVE  InTurn'
<1>1. /\ UNCHANGED <<lat, item, performed, refused, fulls>>
      /\ Add(t) \/ async_queue' = async_queue
  BY ThreadSteps
<1>2. \A ud \in Ud : Reached(ud) => Reached(ud)'
  BY StaysReached
<1>3. ItemInTurn' /\ CallsInTurn'
  BY <1>1, <1>2, InUd DEF InTurn, ItemInTurn, CallsInTurn, Precedes
<1>4. CASE async_queue' = async_queue
  BY <1>1, <1>2, <1>3, <1>4, InUd DEF InTurn, QueueInTurn, Precedes
<1>5. CASE Add(t)
  <2>0. PICK ud \in Ud : ud = UdOf(t)
    BY <1>5, UdOfIs DEF Add
  <2>1. ud \in Ud /\ async_queue' = Append(async_queue, ud) /\ Sending(t)
    BY <1>5, <2>0 DEF Add, Sending
  <2>2. \A other \in Ud : Reached(other) => Precedes(other, ud)
    BY <2>0, <2>1 DEF Reached
  <2>3. Reached(ud)'
    <3>1. UdOf(t)' = ud /\ at'[t] = "added" /\ calls'[t] = calls[t]
      <4>1. at \in [Thread -> Places]
        BY DEF Base, TypeOK
      <4> QED
        BY <1>5, <2>0, <4>1, AddTypes DEF UdOf, Add, Goto
    <3>2. Precedes(ud, ud) /\ ud.call = calls[t] /\ calls[t] \in Nat
      BY <2>0, <2>1, PrecedesIs, UdOfIs DEF UdOf, Base, TypeOK
    <3> QED
      BY <3>1, <3>2 DEF OneCaller, Reached, Precedes
  <2>4. async_queue \in Seq(Ud)
    BY DEF Base, TypeOK
  <2>5. /\ \A i \in DOMAIN async_queue' :
              \/ i \in DOMAIN async_queue /\ async_queue'[i] = async_queue[i]
              \/ i = Len(async_queue) + 1 /\ async_queue'[i] = ud
        /\ \A i \in DOMAIN async_queue : i < Len(async_queue) + 1 /\ ~(Len(async_queue) + 1 < i)
        /\ ~(Len(async_queue) + 1 < Len(async_queue) + 1)
    BY <2>1, <2>4
  <2>6. /\ \A i \in DOMAIN async_queue : Precedes(async_queue[i], ud)
        /\ \A j \in DOMAIN performed : Precedes(performed[j], ud)
        /\ lat # "outside" => Precedes(item, ud)
    BY <2>2, InUd DEF InTurn, QueueInTurn, ItemInTurn, CallsInTurn
  <2>7. ASSUME NEW i \in DOMAIN async_queue'
        PROVE  /\ Reached(async_queue[i])'
               /\ lat # "outside" => Precedes(item, async_queue'[i])
               /\ \A j \in DOMAIN performed : Precedes(performed[j], async_queue'[i])
    <3>1. CASE i \in DOMAIN async_queue /\ async_queue'[i] = async_queue[i]
      BY <1>2, <3>1, InUd DEF InTurn, QueueInTurn
    <3>2. CASE async_queue'[i] = ud
      BY <2>3, <2>6, <3>2
    <3> QED
      BY <2>5, <3>1, <3>2
  <2>8. \A i, j \in DOMAIN async_queue' : i < j => Precedes(async_queue'[i], async_queue'[j])
    <3> SUFFICES ASSUME NEW i \in DOMAIN async_queue', NEW j \in DOMAIN async_queue', i < j
                 PROVE  Precedes(async_queue'[i], async_queue'[j])
      OBVIOUS
    <3>1. i \in DOMAIN async_queue /\ async_queue'[i] = async_queue[i]
      BY <2>5
    <3>2. CASE j \in DOMAIN async_queue /\ async_queue'[j] = async_queue[j]
      BY <3>1, <3>2 DEF InTurn, QueueInTurn
    <3>3. CASE async_queue'[j] = ud
      BY <2>6, <3>1, <3>3
    <3> QED
      BY <2>5, <3>2, <3>3
  <2>9. QueueInTurn'
    BY <1>1, <2>7, <2>8 DEF QueueInTurn, Precedes
  <2> QED
    BY <1>3, <2>9 DEF InTurn
<1> QED
  BY <1>1, <1>4, <1>5

\* The loop takes from the front and appends to the calls: the order stays.
LEMMA LoopInTurn ==
    ASSUME Base, InTurn, LoopStep
    PROVE  InTurn'
<1>0. /\ async_queue \in Seq(Ud) /\ performed \in Seq(Ud)
  BY DEF Base, TypeOK
<1>1. /\ UNCHANGED <<at, calls, of>>
      /\ Taken \/ async_queue' = async_queue
      /\ Makes \/ UNCHANGED <<performed, refused, fulls>>
  BY LoopSteps
<1>2. \A ud : Reached(ud)' <=> Reached(ud)
  BY <1>1 DEF Reached, Precedes, Sending, UdOf
<1>3. CASE Taken /\ performed' = performed /\ item' = Head(async_queue) /\ lat' = item'.of
  <2>1. /\ \A i \in DOMAIN Tail(async_queue) :
              /\ i + 1 \in DOMAIN async_queue /\ Tail(async_queue)[i] = async_queue[i + 1]
              /\ 1 < i + 1
        /\ Head(async_queue) = async_queue[1] /\ 1 \in DOMAIN async_queue
        /\ Head(async_queue).of \in {"check", "send"}
        /\ Tail(async_queue) \in Seq(Ud)
    BY <1>3, QueueHead DEF Taken
  <2>2. \A i, j \in DOMAIN Tail(async_queue) : i < j => i + 1 < j + 1
    BY <2>1
  <2>3. QueueInTurn'
    BY <1>2, <1>3, <2>1, <2>2 DEF InTurn, QueueInTurn, Taken, Precedes
  <2>4. ItemInTurn'
    BY <1>2, <1>3, <2>1 DEF InTurn, QueueInTurn, ItemInTurn, Precedes
  <2>5. CallsInTurn'
    BY <1>2, <1>3 DEF InTurn, CallsInTurn, Precedes
  <2> QED
    BY <2>3, <2>4, <2>5 DEF InTurn
<1>4. CASE Dropped /\ performed' = performed
  <2>1. /\ \A i \in DOMAIN Tail(async_queue) :
              /\ i + 1 \in DOMAIN async_queue /\ Tail(async_queue)[i] = async_queue[i + 1]
        /\ Tail(async_queue) \in Seq(Ud)
    BY <1>4, QueueHead DEF Dropped, Taken
  <2>2. \A i, j \in DOMAIN Tail(async_queue) : i < j => i + 1 < j + 1
    BY <2>1
  <2>3. QueueInTurn'
    BY <1>2, <1>4, <2>1, <2>2 DEF InTurn, QueueInTurn, Dropped, Taken, Precedes
  <2> QED
    BY <1>2, <1>4, <2>3 DEF InTurn, ItemInTurn, CallsInTurn, Dropped, Precedes
<1>5. CASE /\ async_queue' = async_queue /\ performed' = performed
           /\ \/ lat' = "outside"
              \/ /\ item' = item /\ lat # "outside"
                 /\ lat' \in {"send", "locks", "performs"} => lat \in {"send", "locks", "performs"}
              \/ item' = item /\ lat' = lat
  BY <1>2, <1>5 DEF InTurn, QueueInTurn, ItemInTurn, CallsInTurn, Precedes
<1>6. CASE async_queue' = async_queue /\ Makes /\ performed' = Append(performed, item)
  <2>1. /\ item \in Ud /\ Reached(item) /\ item.of = "send"
        /\ \A j \in DOMAIN performed : Precedes(performed[j], item)
    BY <1>6, InUd DEF InTurn, ItemInTurn, Makes
  <2>2. /\ \A i \in DOMAIN performed' :
              \/ i \in DOMAIN performed /\ performed'[i] = performed[i]
              \/ i = Len(performed) + 1 /\ performed'[i] = item
        /\ \A i \in DOMAIN performed : ~(Len(performed) + 1 < i)
        /\ ~(Len(performed) + 1 < Len(performed) + 1)
    BY <1>0, <1>6, <2>1
  <2>3. \A i \in DOMAIN performed' : Precedes(performed'[i], item)
    BY <2>1, <2>2, PrecedesIs
  <2>4. \A i \in DOMAIN performed', k \in DOMAIN async_queue : Precedes(performed'[i], async_queue[k])
    BY <1>6, <2>2 DEF InTurn, QueueInTurn, Makes
  <2>5. QueueInTurn'
    BY <1>2, <1>6, <2>4 DEF InTurn, QueueInTurn, Makes, Precedes
  <2>6. ItemInTurn'
    BY <1>2, <1>6, <2>1, <2>3 DEF ItemInTurn, Makes, Precedes
  <2>7. CallsInTurn'
    <3>1. \A i, j \in DOMAIN performed' : i < j => Precedes(performed'[i], performed'[j])
      <4> SUFFICES ASSUME NEW i \in DOMAIN performed', NEW j \in DOMAIN performed', i < j
                   PROVE  Precedes(performed'[i], performed'[j])
        OBVIOUS
      <4>1. i \in DOMAIN performed /\ performed'[i] = performed[i]
        BY <2>2
      <4>2. CASE j \in DOMAIN performed /\ performed'[j] = performed[j]
        BY <4>1, <4>2 DEF InTurn, CallsInTurn
      <4>3. CASE performed'[j] = item
        BY <2>1, <4>1, <4>3
      <4> QED
        BY <2>2, <4>2, <4>3
    <3>2. \A i \in DOMAIN performed' : Reached(performed'[i]) /\ performed'[i].of = "send"
      BY <2>1, <2>2 DEF InTurn, CallsInTurn
    <3> QED
      BY <1>1, <3>1, <3>2 DEF CallsInTurn, Reached, Precedes, Sending, UdOf
  <2> QED
    BY <2>5, <2>6, <2>7 DEF InTurn
<1>7. CASE Makes
  <2>1. async_queue' = async_queue
    BY <1>1, <1>7 DEF Makes, Taken
  <2> QED
    BY <1>5, <1>6, <1>7, <2>1 DEF Makes
<1>8. CASE ~Makes
  <2>1. performed' = performed
    BY <1>1, <1>8
  <2> QED
    BY <1>3, <1>4, <1>5, <1>8, <2>1, LoopSteps DEF Moves, Ends
<1> QED
  BY <1>7, <1>8

\* What the loop takes into its hand has not been made.
LEMMA StaysOnce ==
    ASSUME Base, fulls = 0 => NoneTwice, Makes \/ UNCHANGED <<performed, refused, fulls>>,
           fulls = 0 /\ lat \in Early => Pending(item)
    PROVE  fulls' = 0 => NoneTwice'
<1>0. performed \in Seq(Ud) /\ fulls \in Nat /\ (lat # "outside" => item \in Ud)
  BY InUd, AsyncAssumption DEF Base, TypeOK
<1>1. CASE performed' = performed
  BY <1>0, <1>1 DEF NoneTwice, Makes
<1>2. CASE Makes /\ performed' = Append(performed, item) /\ fulls' = 0
  <2>1. fulls = 0 /\ item \in Ud /\ \A j \in DOMAIN performed : performed[j] # item
    BY <1>0, <1>2 DEF Makes, Early, Pending
  <2>2. /\ \A i \in DOMAIN performed' :
              \/ i \in DOMAIN performed /\ performed'[i] = performed[i]
              \/ i = Len(performed) + 1 /\ performed'[i] = item
        /\ \A i \in DOMAIN performed : ~(Len(performed) + 1 < i)
        /\ ~(Len(performed) + 1 < Len(performed) + 1)
    BY <1>0, <1>2, <2>1
  <2> QED
    BY <2>1, <2>2 DEF NoneTwice
<1> QED
  BY <1>1, <1>2 DEF Makes

\* What a step may do to the records that are pending: those of the queue stay,
\* and what the loop has in its hand is answered.
LEMMA StaysPutOnce ==
    ASSUME Base, Base', PutOnce, async_queue' = async_queue,
           item' \in {item, None},
           lat' \in Early => lat \in Early /\ item' = item,
           \A ud \in live : ud \in live' \/ rv[ud] # "timeout" \/ (ud = item /\ lat' \notin Early),
           \A ud \in Ud : \/ rv'[ud] = rv[ud]
                          \/ ud = item /\ lat' \notin Early /\ rv'[ud] \in {"sent", "refused"},
           \A i \in DOMAIN performed' :
              \/ i \in DOMAIN performed /\ performed'[i] = performed[i]
              \/ performed'[i] = item /\ lat' \notin Early,
           \A t \in Thread : PuttingIn(t)' => PuttingIn(t) /\ UdOf(t)' = UdOf(t),
           \A t \in Thread :
              MULTITHREADED' /\ at'[t] \in {"unlocks", "decides", "returns"} =>
                 rv[UdOf(t)] # "timeout" /\ UdOf(t)' = UdOf(t)
    PROVE  PutOnce'
<1>1. /\ \A i \in DOMAIN async_queue : async_queue[i] \in Ud /\ async_queue[i] # None
      /\ lat # "outside" => item \in Ud
      /\ live \subseteq Ud
  BY InUd, AsyncAssumption DEF Base, TypeOK
<1>2. \A ud \in Ud : Pending(ud) /\ (ud # item \/ lat' \in Early) => Pending(ud)'
  BY DEF Pending
<1>3. QueuedOnce'
  BY <1>1, <1>2 DEF PutOnce, QueuedOnce, Pending
<1>4. lat' \in Early => Pending(item)'
  BY <1>1, <1>2 DEF PutOnce, Early, Pending
<1>5. \A ud \in Ud : rv'[ud] # "full"
  BY DEF PutOnce
<1>6. FirstTime'
  <2> SUFFICES ASSUME NEW t \in Thread, PuttingIn(t)'
               PROVE  Pending(UdOf(t))' /\ ~InQueue(UdOf(t))'
    BY DEF FirstTime
  <2>1. PuttingIn(t) /\ UdOf(t)' = UdOf(t) /\ UdOf(t) \in Ud
    BY UdOfIs DEF PuttingIn
  <2>2. Pending(UdOf(t)) /\ ~InQueue(UdOf(t))
    BY <2>1 DEF PutOnce, FirstTime
  <2>3. UdOf(t) # item /\ UdOf(t) # None
    BY <2>1, <2>2, AsyncAssumption DEF InQueue
  <2> QED
    BY <1>2, <2>1, <2>2, <2>3 DEF InQueue, Pending
<1>7. Answers'
  <2> SUFFICES ASSUME NEW t \in Thread, MULTITHREADED',
                      at'[t] \in {"unlocks", "decides", "returns"}
               PROVE  rv'[UdOf(t)'] # "timeout"
    BY DEF Answers
  <2>1. UdOf(t)' \in Ud
    <3>1. calls'[t] \in 1..MaxCalls
      <4>1. calls'[t] \in 0..MaxCalls /\ calls'[t] # 0
        BY DEF Base, TypeOK
      <4> QED
        BY <4>1, AsyncAssumption
    <3>2. of'[t] \in {"check", "send"}
      BY DEF Base, TypeOK
    <3> QED
      BY <3>1, <3>2 DEF UdOf, Ud
  <2> QED
    BY <2>1
<1> QED
  BY <1>3, <1>4, <1>5, <1>6, <1>7 DEF PutOnce

\* A thread goes on in SEND_ASYNC without putting in or freeing anything.
LEMMA WalkPutOnce ==
    ASSUME Base, Base', PutOnce, ~undefined', NEW t \in Thread,
           \/ Call(t) \/ LockFunc(t) \/ LockCv(t) \/ TakeCv(t)
           \/ CheckMultiThread(t) /\ Goto(t, "tries") /\ UNCHANGED <<of, rv, live>>
           \/ Wait(t) \/ Wake(t) \/ TimedOut(t) \/ Waited(t) \/ Unlock(t) \/ Decide(t)
    PROVE  PutOnce'
<1>0. /\ at \in [Thread -> Places] /\ calls \in [Thread -> 0..MaxCalls]
      /\ \A u \in Thread : at[u] # "outside" => UdOf(u) \in Ud
  BY UdOfIs DEF Base, TypeOK
<1>1. UNCHANGED <<of, rv, live, async_queue, lat, item, performed>>
  BY CallTypes, CheckMultiThreadTypes, LockFuncTypes, LockCvTypes, TakeCvTypes, WaitTypes,
     WakeTypes, TimedOutTypes, WaitedTypes, UnlockTypes, DecideTypes
<1>2. \A u \in Thread \ {t} : at'[u] = at[u] /\ calls'[u] = calls[u] /\ of'[u] = of[u]
  BY ThreadSteps DEF Step
<1>3. \A u \in Thread \ {t} : UdOf(u)' = UdOf(u) /\ (PuttingIn(u)' => PuttingIn(u))
  BY <1>2 DEF UdOf, PuttingIn
<1>4. CASE Call(t)
  <2>1. at'[t] = "begins" /\ MULTITHREADED' = MULTITHREADED
    BY <1>0, <1>4, CallTypes DEF Call, Goto, MULTITHREADED
  <2> QED
    BY <1>1, <1>2, <1>3, <2>1, StaysPutOnce DEF PuttingIn, PutOnce, Answers
<1>9. CASE CheckMultiThread(t) /\ Goto(t, "tries")
  <2>1. at'[t] = "tries" /\ UNCHANGED calls /\ MULTITHREADED' = MULTITHREADED
    BY <1>0, <1>9, CheckMultiThreadTypes DEF Goto, MULTITHREADED
  <2> QED
    BY <1>1, <1>2, <1>3, <2>1, StaysPutOnce DEF PuttingIn, PutOnce, Answers
<1>5. CASE LockFunc(t) \/ LockCv(t) \/ TakeCv(t) \/ Wait(t) \/ Wake(t) \/ TimedOut(t)
  <2>1. UNCHANGED calls /\ MULTITHREADED' = MULTITHREADED
    BY <1>5, LockFuncTypes, LockCvTypes, TakeCvTypes, WaitTypes, WakeTypes, TimedOutTypes
       DEF MULTITHREADED
  <2>2. \/ at[t] \in Locking /\ at'[t] \in {"locks cv", "takes cv", "adds"}
        \/ at'[t] \in {"waits", "waited"}
    BY <1>0, <1>5 DEF LockFunc, LockCv, TakeCv, Locking, Wait, Wake, TimedOut, Goto
  <2>3. UdOf(t)' = UdOf(t) /\ (PuttingIn(t)' => PuttingIn(t))
    BY <1>1, <2>1, <2>2 DEF UdOf, PuttingIn, Locking
  <2> QED
    BY <1>1, <1>2, <1>3, <2>1, <2>2, <2>3, StaysPutOnce DEF PutOnce, Answers
\* A wait that ends without an answer ends the mode.
<1>6. CASE Waited(t)
  <2>1. UNCHANGED calls /\ at'[t] = "unlocks"
    BY <1>0, <1>6, WaitedTypes DEF Waited, Goto
  <2>2. UdOf(t)' = UdOf(t) /\ ~PuttingIn(t)'
    BY <1>1, <2>1 DEF UdOf, PuttingIn
  <2>3. MULTITHREADED' => MULTITHREADED /\ rv[UdOf(t)] # "timeout"
    BY <1>6 DEF Waited, MULTITHREADED, Touch, ReadRv
  <2> QED
    BY <1>1, <1>2, <1>3, <2>1, <2>2, <2>3, StaysPutOnce DEF PutOnce, Answers
<1>7. CASE Unlock(t)
  <2>1. UNCHANGED calls /\ at[t] = "unlocks" /\ at'[t] = "decides" /\ MULTITHREADED' = MULTITHREADED
    BY <1>0, <1>7, UnlockTypes DEF Unlock, Goto, MULTITHREADED
  <2>2. UdOf(t)' = UdOf(t) /\ ~PuttingIn(t)'
    BY <1>1, <2>1 DEF UdOf, PuttingIn
  <2> QED
    BY <1>1, <1>2, <1>3, <2>1, <2>2, StaysPutOnce DEF PutOnce, Answers
\* The send queue is not full, and the answer has come: no call is repeated.
<1>8. CASE Decide(t)
  <2>1. UNCHANGED calls /\ at[t] = "decides" /\ MULTITHREADED' = MULTITHREADED
    BY <1>8, DecideTypes DEF Decide, MULTITHREADED
  <2>2. MULTITHREADED => rv[UdOf(t)] # "timeout" /\ rv[UdOf(t)] # "full"
    BY <1>0, <2>1 DEF PutOnce, Answers
  <2>3. MULTITHREADED => UdOf(t) \in live
    BY <1>8 DEF Decide, Touch
  <2>4. at'[t] = "returns"
    <3>1. PICK v \in ReadRv(UdOf(t)) :
             Goto(t, IF MULTITHREADED /\ v \in {"full", "timeout"} THEN "locks" ELSE "returns")
      BY <1>8 DEF Decide
    <3>2. MULTITHREADED => v \notin {"full", "timeout"}
      BY <2>2, <2>3, <3>1 DEF ReadRv
    <3> QED
      BY <1>0, <3>1, <3>2 DEF Goto
  <2>5. UdOf(t)' = UdOf(t) /\ ~PuttingIn(t)'
    BY <1>1, <2>1, <2>4 DEF UdOf, PuttingIn
  <2> QED
    BY <1>1, <1>2, <1>3, <2>1, <2>4, <2>5, StaysPutOnce DEF PutOnce, Answers
<1> QED
  BY <1>4, <1>5, <1>6, <1>7, <1>8, <1>9

\* A call returns: with the mode on its record was answered, so that the queue
\* does not have it.
LEMMA ReturnPutOnce ==
    ASSUME Base, Base', PutOnce, NEW t \in Thread, Return(t)
    PROVE  PutOnce'
<1>0. at \in [Thread -> Places]
  BY DEF Base, TypeOK
<1>1. /\ UNCHANGED <<calls, of, rv, async_queue, lat, item, performed>>
      /\ MULTITHREADED' = MULTITHREADED
  BY ReturnTypes DEF MULTITHREADED
<1>2. at'[t] = "outside" /\ \A u \in Thread \ {t} : at'[u] = at[u]
  BY <1>0 DEF Return, Goto
<1>3. \A u \in Thread : UdOf(u)' = UdOf(u) /\ (PuttingIn(u)' => PuttingIn(u))
  BY <1>1, <1>2 DEF UdOf, PuttingIn
<1>4. \A ud \in live : ud \in live' \/ rv[ud] # "timeout"
  <2>1. MULTITHREADED => rv[UdOf(t)] # "timeout"
    BY DEF PutOnce, Answers, Return
  <2> QED
    BY <2>1 DEF Return, FreedByCaller
<1> QED
  BY <1>1, <1>2, <1>3, <1>4, StaysPutOnce DEF PutOnce, Answers

\* A record is allocated that nobody knows.
LEMMA OpenPutOnce ==
    ASSUME Base, Base', OneCaller, PutOnce, InTurn, NEW t \in Thread,
           NEW purpose \in {"check", "send"}, NEW freed \in SUBSET {UdOf(t)},
           Open(t, purpose, freed), UNCHANGED <<calls, async_queue, lat, item, performed>>,
           freed # {} => rv[UdOf(t)] # "timeout",
           \/ at[t] \in {"begins", "tries"}
           \/ at[t] = "returns" /\ of[t] = "check" /\ purpose = "send"
    PROVE  PutOnce'
<1>0. /\ at \in [Thread -> Places] /\ of \in [Thread -> {"check", "send"}]
      /\ rv \in [Ud -> Rv] /\ calls[t] \in Nat
  <2>1. calls[t] \in 0..MaxCalls
    BY DEF Base, TypeOK
  <2> QED
    BY <2>1, AsyncAssumption DEF Base, TypeOK
<1> DEFINE ud == [thread |-> t, call |-> calls[t], of |-> purpose]
<1>1. /\ at'[t] = "locks" /\ UdOf(t)' = ud /\ ud \in Ud /\ ud.call = calls[t] /\ ud.of = purpose
      /\ live' = (live \ freed) \cup {ud} /\ rv' = [rv EXCEPT ![ud] = "timeout"]
  <2>1. ud \in Ud
    BY UdOfIs DEF Ud
  <2> QED
    BY <1>0, <2>1 DEF Open, Goto, UdOf
<1> HIDE DEF ud
<1>2. \A other \in Ud : Reached(other) => other # ud
  <2> SUFFICES ASSUME NEW other \in Ud, Reached(other), other = ud
               PROVE  FALSE
    OBVIOUS
  <2>1. /\ at[t] \in {"begins", "tries"} => ud.call < calls[t]
        /\ Sending(t) => Precedes(ud, UdOf(t))
    BY DEF Reached
  <2>2. CASE at[t] \in {"begins", "tries"}
    BY <1>0, <1>1, <2>1, <2>2
  <2>3. CASE at[t] = "returns" /\ of[t] = "check" /\ purpose = "send"
    <3>1. UdOf(t).call = calls[t] /\ UdOf(t).of = "check" /\ Sending(t)
      BY <2>3 DEF UdOf, Sending
    <3> QED
      BY <1>0, <1>1, <2>1, <2>3, <3>1 DEF Precedes
  <2> QED
    BY <2>2, <2>3
<1>3. /\ \A i \in DOMAIN async_queue : async_queue[i] \in Ud /\ async_queue[i] # ud
      /\ \A i \in DOMAIN performed : performed[i] # ud
      /\ item # ud /\ (lat \in Early => item \in Ud)
  <2>1. item = None \/ (item \in Ud /\ Reached(item))
    BY InUd DEF Base, InTurn, ItemInTurn
  <2> QED
    BY <1>1, <1>2, <2>1, InUd, AsyncAssumption
       DEF InTurn, QueueInTurn, CallsInTurn, Early
<1>4. \A other \in Ud : Pending(other) => Pending(other)'
  BY <1>0, <1>1 DEF Pending
<1>5. QueuedOnce'
  BY <1>3, <1>4 DEF PutOnce, QueuedOnce, Pending
<1>6. lat' \in Early => Pending(item)'
  BY <1>3, <1>4 DEF PutOnce, Pending
<1>7. \A other \in Ud : rv'[other] # "full"
  BY <1>0, <1>1 DEF PutOnce
<1>8. FirstTime'
  <2>1. Pending(ud)' /\ ~InQueue(ud)'
    <3>1. ud \in live' /\ rv'[ud] = "timeout"
      BY <1>0, <1>1
    <3>2. ud' = ud
      BY DEF ud
    <3> QED
      BY <1>3, <3>1, <3>2 DEF Pending, InQueue
  <2>2. ud' = ud
    BY DEF ud
  <2> QED
    BY <1>1, <2>1, <2>2 DEF FirstTime, OneCaller, Pending, InQueue
<1>9. Answers'
  BY <1>1 DEF Answers, OneCaller
<1> QED
  BY <1>5, <1>6, <1>7, <1>8, <1>9 DEF PutOnce

\* The record is put into the queue for the first time.
LEMMA AddPutOnce ==
    ASSUME Base, Base', OneCaller, PutOnce, NEW t \in Thread, Add(t)
    PROVE  PutOnce'
<1>0. /\ at \in [Thread -> Places] /\ async_queue \in Seq(Ud)
  BY DEF Base, TypeOK
<1>1. UNCHANGED <<calls, of, rv, live, lat, item, performed>>
  BY AddTypes
<1>2. PICK ud \in Ud : ud = UdOf(t)
  BY UdOfIs DEF Add
<1>3. Pending(ud) /\ ~InQueue(ud)
  BY <1>2 DEF PutOnce, FirstTime, PuttingIn, Add
<1>4. at'[t] = "added" /\ async_queue' = Append(async_queue, ud)
  BY <1>0, <1>2 DEF Add, Goto
<1>5. /\ \A i \in DOMAIN async_queue' :
            \/ i \in DOMAIN async_queue /\ async_queue'[i] = async_queue[i]
            \/ i = Len(async_queue) + 1 /\ async_queue'[i] = ud
      /\ \A i \in DOMAIN async_queue : ~(Len(async_queue) + 1 < i)
      /\ ~(Len(async_queue) + 1 < Len(async_queue) + 1)
  BY <1>0, <1>4
<1>6. \A other : Pending(other)' <=> Pending(other)
  BY <1>1 DEF Pending
<1>7. QueuedOnce'
  <2>1. \A i \in DOMAIN async_queue' : Pending(async_queue'[i]) /\ async_queue'[i] # item
    BY <1>3, <1>5 DEF PutOnce, QueuedOnce, InQueue
  <2>2. \A i, j \in DOMAIN async_queue' : i < j => async_queue'[i] # async_queue'[j]
    BY <1>3, <1>5 DEF PutOnce, QueuedOnce, InQueue
  <2> QED
    BY <1>1, <2>1, <2>2 DEF QueuedOnce, Pending
<1>8. FirstTime' /\ Answers'
  BY <1>4 DEF FirstTime, Answers, OneCaller, PuttingIn
<1> QED
  BY <1>1, <1>6, <1>7, <1>8 DEF PutOnce

\* The loop takes the first record, which is allocated.
LEMMA SigAsyncPutOnce ==
    ASSUME Base, Base', PutOnce, SigAsync
    PROVE  PutOnce'
<1>1. /\ UNCHANGED <<f_multi_thread, at, calls, of, rv, live, performed>>
  BY SigAsyncTypes
<1>2. \A ud : Pending(ud)' <=> Pending(ud)
  BY <1>1 DEF Pending
<1>3. \A u \in Thread : UdOf(u)' = UdOf(u) /\ (PuttingIn(u)' <=> PuttingIn(u))
  BY <1>1 DEF UdOf, PuttingIn
<1>4. Answers' /\ \A ud \in Ud : rv'[ud] # "full"
  BY <1>1 DEF PutOnce, Answers, MULTITHREADED, UdOf
<1>5. CASE async_queue # <<>> /\ ~idle
  <2>1. /\ Head(async_queue) = async_queue[1] /\ 1 \in DOMAIN async_queue
        /\ \A i \in DOMAIN Tail(async_queue) :
              /\ i + 1 \in DOMAIN async_queue /\ Tail(async_queue)[i] = async_queue[i + 1]
              /\ 1 < i + 1
        /\ Tail(async_queue) \in Seq(Ud)
    BY <1>5, QueueHead
  <2>2. Pending(Head(async_queue)) /\ Head(async_queue) \in live
    BY <2>1 DEF PutOnce, QueuedOnce, Pending
  <2>3. async_queue' = Tail(async_queue) /\ item' = Head(async_queue)
    BY <1>5, <2>2 DEF SigAsync
  <2>4. \A i, j \in DOMAIN Tail(async_queue) : i < j => i + 1 < j + 1
    BY <2>1
  <2>5. QueuedOnce'
    <3>1. \A i \in DOMAIN Tail(async_queue) :
             /\ Pending(Tail(async_queue)[i]) /\ Tail(async_queue)[i] # Head(async_queue)
             /\ \A j \in DOMAIN Tail(async_queue) :
                   i < j => Tail(async_queue)[i] # Tail(async_queue)[j]
      BY <2>1, <2>4 DEF PutOnce, QueuedOnce
    <3> QED
      BY <1>1, <2>3, <3>1 DEF QueuedOnce, Pending
  <2>6. FirstTime'
    <3>1. \A ud : InQueue(ud)' => InQueue(ud)
      BY <2>1, <2>3 DEF InQueue
    <3> QED
      BY <1>1, <1>2, <1>3, <3>1 DEF PutOnce, FirstTime, InQueue, Pending
  <2>7. Pending(item)'
    BY <1>1, <2>2, <2>3 DEF Pending
  <2> QED
    BY <1>4, <2>5, <2>6, <2>7 DEF PutOnce
<1>6. CASE ~(async_queue # <<>> /\ ~idle)
  <2>1. UNCHANGED <<async_queue, lat, item>>
    BY <1>6 DEF SigAsync, loop
  <2> QED
    BY <1>1, <1>2, <1>3, <1>4, <2>1
       DEF PutOnce, QueuedOnce, FirstTime, InQueue, Pending
<1> QED
  BY <1>5, <1>6

\* The loop answers what it has in its hand, which is not in the queue.
LEMMA HandPutOnce ==
    ASSUME Base, Base', PutOnce, fulls \in Nat, fulls' = 0, LoopStep, ~SigAsync
    PROVE  PutOnce'
<1>0. lat # "outside" => item \in Ud
  BY InUd
<1>1. /\ UNCHANGED <<at, calls, of>>
      /\ Makes \/ UNCHANGED <<performed, refused, fulls>>
  BY LoopSteps
<1>2. UNCHANGED <<f_multi_thread, async_queue>>
  BY IdleAsyncTypes, CheckDroppedTypes, CheckAnswersTypes, AnswerTypes, BeginTypes,
     LoopLockTypes, PerformTypes, TellTypes, LoopUnlockTypes DEF LoopStep
<1>3. \A u \in Thread : UdOf(u)' = UdOf(u) /\ (PuttingIn(u)' => PuttingIn(u))
  BY <1>1 DEF UdOf, PuttingIn
<1>4. \A u \in Thread :
         MULTITHREADED' /\ at'[u] \in {"unlocks", "decides", "returns"} =>
            rv[UdOf(u)] # "timeout" /\ UdOf(u)' = UdOf(u)
  BY <1>1, <1>2, <1>3 DEF PutOnce, Answers, MULTITHREADED
<1>5. CASE IdleAsync \/ CheckAnswers \/ Begin \/ LoopLock
  <2>1. UNCHANGED <<rv, live, performed, item>>
    BY <1>5, IdleAsyncTypes, CheckAnswersTypes, BeginTypes, LoopLockTypes
  <2>2. lat' \in Early => lat \in Early
    BY <1>5, IdleAsyncTypes DEF CheckAnswers, Begin, LoopLock, Early
  <2> QED
    BY <1>2, <1>3, <1>4, <2>1, <2>2, StaysPutOnce
<1>6. CASE CheckDropped \/ Tell
  <2>1. UNCHANGED <<rv, performed>> /\ item' \in {item, None} /\ lat' \notin Early
    BY <1>6, CheckDroppedTypes, TellTypes DEF CheckDropped, Handled, Tell, Early
  <2>2. live \subseteq live' \cup {item}
    BY <1>6 DEF CheckDropped, Tell
  <2> QED
    BY <1>2, <1>3, <1>4, <2>1, <2>2, StaysPutOnce
<1>7. CASE Answer
  <2>1. UNCHANGED <<live, performed>> /\ item' = None /\ lat' \notin Early
    BY <1>7, AnswerTypes DEF Answer, Handled, Early
  <2>2. \A ud \in Ud : rv'[ud] = rv[ud] \/ (ud = item /\ rv'[ud] = "sent")
    BY <1>7 DEF Answer, Base, TypeOK
  <2> QED
    BY <1>2, <1>3, <1>4, <2>1, <2>2, StaysPutOnce
<1>8. CASE Perform
  <2>1. UNCHANGED <<live, item>> /\ lat' \notin Early /\ lat = "performs"
    BY <1>8, PerformTypes DEF Perform, Early
  <2>2. \A ud \in Ud : rv'[ud] = rv[ud] \/ (ud = item /\ rv'[ud] \in {"sent", "refused"})
    <3>1. PICK found \in {"sent", "full", "refused"} :
             /\ fulls' = IF found = "full" THEN fulls + 1 ELSE fulls
             /\ rv' = [rv EXCEPT ![item] = found]
      BY <1>8 DEF Perform
    <3>2. found # "full"
      BY <3>1
    <3> QED
      BY <3>1, <3>2 DEF Base, TypeOK
  <2>3. \A i \in DOMAIN performed' :
           (i \in DOMAIN performed /\ performed'[i] = performed[i]) \/ performed'[i] = item
    <3>1. performed \in Seq(Ud) /\ item \in Ud
      BY <1>0, <2>1 DEF Base, TypeOK
    <3>2. performed' = performed \/ performed' = Append(performed, item)
      BY <1>8 DEF Perform
    <3> QED
      BY <3>1, <3>2
  <2> QED
    BY <1>2, <1>3, <1>4, <2>1, <2>2, <2>3, StaysPutOnce
<1>9. CASE LoopUnlock
  <2>1. UNCHANGED <<rv, live, performed>> /\ item' = None /\ lat' \notin Early
    BY <1>9, LoopUnlockTypes DEF LoopUnlock, Handled, Early
  <2> QED
    BY <1>2, <1>3, <1>4, <2>1, StaysPutOnce
<1> QED
  BY <1>5, <1>6, <1>7, <1>8, <1>9 DEF LoopStep

\* Every step, with a single thread and without a full send queue.
LEMMA PutOnceKeeps ==
    ASSUME Base, Base', OneCaller, InTurn, PutOnce, Next, ~undefined', fulls' = 0
    PROVE  PutOnce'
<1>1. ASSUME NEW t \in Thread, Call(t) \/ Step(t) \/ TimedOut(t)
      PROVE  PutOnce'
  <2>1. CASE CheckMultiThread(t)
    <3>1. at[t] = "begins"
      BY <2>1 DEF CheckMultiThread
    <3> QED
      BY <2>1, <3>1, CheckMultiThreadTypes, OpenPutOnce, WalkPutOnce
  <2>5. CASE TryMultiThread(t)
    <3>1. at[t] = "tries"
      BY <2>5 DEF TryMultiThread
    <3> QED
      BY <2>5, <3>1, TryMultiThreadTypes, OpenPutOnce
  <2>2. CASE CheckReturns(t)
    <3>1. Open(t, "send", FreedByCaller(t)) /\ at[t] = "returns" /\ of[t] = "check"
      BY <2>2 DEF CheckReturns
    <3>2. FreedByCaller(t) \in SUBSET {UdOf(t)}
          /\ (FreedByCaller(t) # {} => rv[UdOf(t)] # "timeout")
      BY <3>1 DEF FreedByCaller, PutOnce, Answers
    <3> QED
      BY <2>2, <3>1, <3>2, CheckReturnsTypes, OpenPutOnce
  <2>3. CASE Add(t)
    BY <2>3, AddPutOnce
  <2>4. CASE Return(t)
    BY <2>4, ReturnPutOnce
  <2> QED
    BY <1>1, <2>1, <2>2, <2>3, <2>4, <2>5, WalkPutOnce DEF Step
<1>2. CASE LoopStep
  <2>1. CASE SigAsync
    BY <2>1, SigAsyncPutOnce
  <2>2. CASE ~SigAsync
    <3>1. fulls \in Nat
      BY AsyncAssumption DEF Base, TypeOK
    <3> QED
      BY <1>2, <2>2, <3>1, HandPutOnce
  <2> QED
    BY <2>1, <2>2
<1> QED
  BY <1>1, <1>2 DEF Next

\* A record that is put in once is never dropped.
LEMMA NotDropped ==
    ASSUME Base, PutOnce
    PROVE  ~Dropped
<1>1. async_queue # <<>> => Head(async_queue) = async_queue[1] /\ 1 \in DOMAIN async_queue
  BY QueueHead
<1> QED
  BY <1>1 DEF PutOnce, QueuedOnce, Pending, Dropped, Taken

\* The full send queues are counted.
LEMMA FullsCounted ==
    ASSUME Base, Next
    PROVE  fulls \in Nat /\ (fulls' = 0 => fulls = 0)
<1>1. fulls \in Nat
  BY AsyncAssumption DEF Base, TypeOK
<1>2. Makes \/ UNCHANGED <<performed, refused, fulls>>
  BY ThreadSteps, LoopSteps DEF Next
<1> QED
  BY <1>1, <1>2 DEF Makes

\* The invariant of a single thread.
LEMMA OInvKeeps ==
    ASSUME OneCaller, OInv, [Next]_vars
    PROVE  OInv'
<1>1. CASE UNCHANGED vars
  <2>1. UNCHANGED <<f_multi_thread, at, calls, of, rv, live, async_queue, lat, item, performed,
                    refused, fulls, undefined>>
    BY <1>1 DEF vars, mode, threads, memory, queue, loop, mutexes, history
  <2>2. Base' <=> Base
    BY <1>1 DEF Base, TypeOK, vars, mode, threads, memory, queue, loop, mutexes, history
  <2>3. Kept' <=> Kept
    BY <2>1 DEF Kept, WasPut, InQueue, Settled, CallsMade
  <2>4. InTurn' <=> InTurn
    BY <2>1 DEF InTurn, QueueInTurn, ItemInTurn, CallsInTurn, Reached, Precedes, Sending, UdOf
  <2>5. PutOnce' <=> PutOnce
    BY <2>1 DEF PutOnce, QueuedOnce, Pending, FirstTime, InQueue, Answers, PuttingIn, UdOf,
                MULTITHREADED
  <2>6. NoneTwice' <=> NoneTwice
    BY <2>1 DEF NoneTwice
  <2> QED
    BY <2>1, <2>2, <2>3, <2>4, <2>5, <2>6 DEF OInv
<1>2. CASE Next
  <2>1. Base /\ Kept /\ InTurn /\ ~undefined /\ Base'
    BY <1>2, BaseKeeps DEF OInv, Next
  <2>2. fulls \in Nat /\ (fulls' = 0 => fulls = 0) /\ (fulls = 0 => PutOnce)
    BY <1>2, <2>1, FullsCounted DEF OInv
  <2>3. InTurn'
    BY <1>2, <2>1, ThreadsInTurn, LoopInTurn DEF Next
  <2>4. fulls' = 0 => NoneTwice'
    <3>1. Makes \/ UNCHANGED <<performed, refused, fulls>>
      BY <1>2, <2>1, ThreadSteps, LoopSteps DEF Next
    <3> QED
      BY <2>1, <2>2, <3>1, StaysOnce DEF OInv, PutOnce
  <2>5. ~undefined' /\ fulls' = 0 => PutOnce'
    BY <1>2, <2>1, <2>2, PutOnceKeeps
  \* A full send queue is a reason for a call not to be made.
  <2>6. Kept'
    <3>1. CASE fulls = 0
      BY <1>2, <2>1, <2>2, <3>1, NotDropped, KeptStep
    <3>2. CASE fulls # 0 /\ Dropped /\ fulls' = fulls
      BY <2>2, <3>2 DEF Kept, Settled, Dropped
    <3> QED
      BY <1>2, <2>1, <3>1, <3>2, KeptStep
  <2> QED
    BY <2>1, <2>3, <2>4, <2>5, <2>6 DEF OInv
<1> QED
  BY <1>1, <1>2

\* It holds at first.
LEMMA OInvInit ==
    ASSUME Init
    PROVE  OInv
<1>1. Base /\ Kept
  BY KeptInit
<1>2. InTurn /\ NoneTwice
  BY DEF Init, InTurn, QueueInTurn, ItemInTurn, CallsInTurn, NoneTwice
<1>3. PutOnce
  BY DEF Init, PutOnce, QueuedOnce, FirstTime, Answers, Early, PuttingIn, MULTITHREADED
<1> QED
  BY <1>1, <1>2, <1>3 DEF OInv

\* Two calls in order are of the same record, or the second is later.
LEMMA InTurnTwice ==
    ASSUME OneCaller, OInv
    PROVE  TwiceOnlyIfFull
<1> SUFFICES ASSUME NEW i \in DOMAIN performed, NEW j \in DOMAIN performed, i < j
             PROVE  Ordered(i, j) \/ (performed[i] = performed[j] /\ fulls > 0)
  BY DEF TwiceOnlyIfFull
<1>1. performed[i] \in Ud /\ performed[j] \in Ud /\ fulls \in Nat
  BY InUd, AsyncAssumption DEF OInv, Base, TypeOK
<1>2. /\ Precedes(performed[i], performed[j])
      /\ performed[i].of = "send" /\ performed[j].of = "send"
  BY DEF OInv, InTurn, CallsInTurn
<1>3. CASE performed[i].call < performed[j].call
  BY <1>3 DEF Ordered
<1>4. CASE performed[i].call = performed[j].call
  <2>1. performed[i] = performed[j]
    BY <1>1, <1>2, <1>4 DEF Ud, OneCaller
  <2>2. fulls # 0
    BY <2>1 DEF OInv, NoneTwice
  <2> QED
    BY <1>1, <2>1, <2>2
<1> QED
  BY <1>2, <1>3, <1>4 DEF Precedes

-----------------------------------------------------------------------------

\* For any threads and whatever waits end before their answer: until a freed
\* record is used, a call that returned is made, refused or in the queue, or
\* the send queue was full.
THEOREM LateCallsKept == Spec => [](~undefined => LostOnlyIfFull)
<1>1. Init => KInv
  BY KeptInit DEF KInv
<1>2. KInv /\ [Next]_vars => KInv'
  BY KInvKeeps
<1>3. KInv => (~undefined => LostOnlyIfFull)
  BY KeptNotLost DEF KInv
<1> QED
  BY <1>1, <1>2, <1>3, PTL DEF Spec

\* A single calling thread makes a call twice only when the send queue was full,
\* and then at once: with a second thread the mode can come back between the wait
\* of a call and the question whether to repeat it.
THEOREM CallsTwiceOnlyIfFull ==
    ASSUME OneCaller
    PROVE  Spec => []TwiceOnlyIfFull
<1>1. Init => OInv
  BY OInvInit
<1>2. OInv /\ [Next]_vars => OInv'
  BY OInvKeeps
<1>3. OInv => TwiceOnlyIfFull
  BY InTurnTwice
<1> QED
  BY <1>1, <1>2, <1>3, PTL DEF Spec

\* A single calling thread loses a call only when the send queue was full.
THEOREM CallsLostOnlyIfFull ==
    ASSUME OneCaller
    PROVE  Spec => []LostOnlyIfFull
<1>1. Init => OInv
  BY OInvInit
<1>2. OInv /\ [Next]_vars => OInv'
  BY OInvKeeps
<1>3. OInv => LostOnlyIfFull
  BY KeptNotLost DEF OInv
<1> QED
  BY <1>1, <1>2, <1>3, PTL DEF Spec
=============================================================================
