------------------------------- MODULE Async -------------------------------
(***************************************************************************)
(* Calls of the library from threads other than that of the event loop:    *)
(* src/src/modules/async_calls.c on the queue of src/src/ev_mgr.c.  The    *)
(* calling thread puts its call into the queue and, in multi-thread mode,  *)
(* sleeps on a condition variable until the loop has made it, or for 150   *)
(* milliseconds.  A first exchange without data finds out whether the loop *)
(* runs beside the threads at all; the mode is shared by everybody and     *)
(* read again, without a lock, at each step.                               *)
(*                                                                         *)
(* One action is what a thread does between two accesses of what others    *)
(* use.  The stop of the loop is left out, and so are application events   *)
(* in the queue, which have no ud.  When a freed record (ud) is used, or a *)
(* mutex unlocked by a thread that does not hold it, undefined says so and *)
(* the model ends.                                                         *)
(***************************************************************************)
EXTENDS Naturals, Sequences, FiniteSets

CONSTANTS
    Thread,          \* threads other than the loop's
    Loop,            \* the thread of the loop
    None,            \* no thread, or no record
    MaxCalls,        \* bound on the calls of a thread
    MaxTimeouts,     \* bound on waits that end before their answer
    MaxFull,         \* bound on calls that find the send queue full
    CHECK_RETRIVES   \* timeouts after which the mode is not tried again

\* async_data, by the call it was allocated for: the check of the mode, or the
\* call itself.
Ud == [thread : Thread, call : 1..MaxCalls, of : {"check", "send"}]

\* ud->rv: CHSQ_TIMEOUT, a queue size below SEND_IF (or a peer without a
\* channel), one of SEND_IF or more, or a wrong address or request.
Rv == {"timeout", "sent", "full", "refused"}

ASSUME AsyncAssumption ==
    /\ Loop \notin Thread
    /\ None \notin Thread \cup {Loop} \cup Ud
    /\ MaxCalls \in Nat /\ MaxTimeouts \in Nat /\ MaxFull \in Nat
    /\ CHECK_RETRIVES \in Nat

VARIABLES
    no_multi_thread_f,  \* the option that forbids multi-thread mode
    f_multi_thread,     \* the mode
    check_retrives,     \* timeouts since the mode was last found to work
    at,                 \* where each thread is in SEND_ASYNC
    calls,              \* the calls each thread has begun
    of,                 \* what each thread's current ud is for
    rv,                 \* ud->rv
    live,               \* the records that are allocated
    async_queue,        \* ke->async_queue: the ud of each element
    sig,                \* sig_async_w has been sent
    idle,               \* idle_async_w is active
    lat,                \* where the loop is in the callback of the queue
    item,               \* the ud of the element it handles, or None
    async_func_mutex,   \* its owner, or None
    cv_mutex,           \* its owner, or None
    signalled,          \* the thread that waits was signalled
    performed,          \* the calls made, in order: history
    refused,            \* the calls for a wrong address: history
    timeouts,           \* waits that timed out: history
    fulls,              \* calls that found the send queue full: history
    undefined           \* a freed record was used, or a mutex of another unlocked

mode    == <<no_multi_thread_f, f_multi_thread, check_retrives>>
threads == <<at, calls, of>>
memory  == <<rv, live, undefined>>
queue   == <<async_queue, sig, idle>>
loop    == <<lat, item>>
mutexes == <<async_func_mutex, cv_mutex, signalled>>
history == <<performed, refused, timeouts, fulls>>
vars    == <<mode, threads, memory, queue, loop, mutexes, history>>

MULTITHREADED == f_multi_thread = "MULTITHREAD"

UdOf(t) == [thread |-> t, call |-> calls[t], of |-> of[t]]

\* The values that a read of ud->rv may give.
ReadRv(ud) == IF ud \in live THEN {rv[ud]} ELSE Rv

\* Using ud: it should not have been freed.
Touch(ud) == undefined' = (undefined \/ ud \notin live)

\* pthread_cond_signal: only async_func_mutex's owner waits.
Signal == signalled' = (signalled \/ \E t \in Thread : at[t] = "waits")

UnlockCv(who) == cv_mutex' = None /\ undefined' = (undefined \/ cv_mutex # who)

\* The end of UNLOCK_CV under a condition.
UnlockCvIfMulti(who) == IF MULTITHREADED THEN UnlockCv(who) ELSE UNCHANGED <<cv_mutex, undefined>>

Goto(t, place) == at' = [at EXCEPT ![t] = place]

-----------------------------------------------------------------------------
(* The calling thread. *)

Init ==
    /\ no_multi_thread_f \in BOOLEAN
    /\ f_multi_thread = "NOT_DEFINED_MULTITHREAD"
    /\ check_retrives = 0
    /\ at = [t \in Thread |-> "outside"]
    /\ calls = [t \in Thread |-> 0]
    /\ of = [t \in Thread |-> "send"]
    /\ rv = [ud \in Ud |-> "timeout"]
    /\ live = {}
    /\ async_queue = <<>>
    /\ sig = FALSE /\ idle = FALSE
    /\ lat = "outside" /\ item = None
    /\ async_func_mutex = None /\ cv_mutex = None
    /\ signalled = FALSE
    /\ performed = <<>> /\ refused = {}
    /\ timeouts = 0 /\ fulls = 0
    /\ undefined = FALSE

\* A thread calls one of the four functions; it is not the loop's own.
Call(t) ==
    /\ at[t] = "outside"
    /\ calls[t] < MaxCalls
    /\ calls' = [calls EXCEPT ![t] = @ + 1]
    /\ Goto(t, "begins")
    /\ UNCHANGED <<mode, of, memory, queue, loop, mutexes, history>>

\* A record is allocated for what thread t does next.
Open(t, purpose, freed) ==
    LET ud == [thread |-> t, call |-> calls[t], of |-> purpose] IN
    /\ of' = [of EXCEPT ![t] = purpose]
    /\ live' = (live \ freed) \cup {ud}
    /\ rv' = [rv EXCEPT ![ud] = "timeout"]
    /\ Goto(t, "locks")

\* _check_multi_thread: multi-thread mode is worth a try, unless it is on or is
\* given up.  Several threads may find so before one of them sets the mode.
CheckMultiThread(t) ==
    /\ at[t] = "begins"
    /\ IF ~no_multi_thread_f /\ ~MULTITHREADED /\ check_retrives < CHECK_RETRIVES
       THEN Goto(t, "tries") /\ UNCHANGED <<of, live, rv>>
       ELSE Open(t, "send", {})
    /\ UNCHANGED <<mode, calls, undefined, queue, loop, mutexes, history>>

\* The mode is set and the check begins, whose own look at the mode, made at once,
\* finds it on.
TryMultiThread(t) ==
    /\ at[t] = "tries"
    /\ f_multi_thread' = "MULTITHREAD"
    /\ Open(t, "check", {})
    /\ UNCHANGED <<no_multi_thread_f, check_retrives, calls, undefined, queue, loop,
                   mutexes, history>>

LockFunc(t) ==
    /\ at[t] = "locks"
    /\ async_func_mutex = None
    /\ async_func_mutex' = t
    /\ Goto(t, "locks cv")
    /\ UNCHANGED <<mode, calls, of, memory, queue, loop, cv_mutex, signalled, history>>

\* cv_mutex is taken in multi-thread mode, even if the mode is off by then.
LockCv(t) ==
    /\ at[t] = "locks cv"
    /\ Goto(t, IF MULTITHREADED THEN "takes cv" ELSE "adds")
    /\ UNCHANGED <<mode, calls, of, memory, queue, loop, mutexes, history>>

TakeCv(t) ==
    /\ at[t] = "takes cv"
    /\ cv_mutex = None
    /\ cv_mutex' = t
    /\ Goto(t, "adds")
    /\ UNCHANGED <<mode, calls, of, memory, queue, loop, async_func_mutex, signalled, history>>

\* ksnetEvMgrAsync: the element holds the pointer to ud.
Add(t) ==
    /\ at[t] = "adds"
    /\ async_queue' = Append(async_queue, UdOf(t))
    /\ sig' = TRUE
    /\ Goto(t, "added")
    /\ UNCHANGED <<mode, calls, of, memory, idle, loop, mutexes, history>>

\* pthread_cond_timedwait releases the mutex and sleeps.
Wait(t) ==
    /\ at[t] = "added"
    /\ IF MULTITHREADED
       THEN UnlockCv(t) /\ Goto(t, "waits")
       ELSE Goto(t, "waited") /\ UNCHANGED <<cv_mutex, undefined>>
    /\ UNCHANGED <<mode, calls, of, rv, live, queue, loop, async_func_mutex, signalled, history>>

\* It returns when it has the mutex again: after a signal ...
Wake(t) ==
    /\ at[t] = "waits"
    /\ signalled
    /\ cv_mutex = None
    /\ signalled' = FALSE
    /\ cv_mutex' = t
    /\ Goto(t, "waited")
    /\ UNCHANGED <<mode, calls, of, memory, queue, loop, async_func_mutex, history>>

\* ... or after 150 milliseconds; a spurious wakeup is the same to the caller.
TimedOut(t) ==
    /\ at[t] = "waits"
    /\ ~signalled
    /\ cv_mutex = None
    /\ timeouts < MaxTimeouts
    /\ timeouts' = timeouts + 1
    /\ cv_mutex' = t
    /\ Goto(t, "waited")
    /\ UNCHANGED <<mode, calls, of, memory, queue, loop, async_func_mutex, signalled,
                   performed, refused, fulls>>

\* A wait without an answer ends multi-thread mode, for good after the last
\* retry, and releases cv_mutex.
Waited(t) ==
    /\ at[t] = "waited"
    /\ Goto(t, "unlocks")
    /\ \E v \in ReadRv(UdOf(t)) :
         IF MULTITHREADED /\ v = "timeout"
         THEN /\ check_retrives' = check_retrives + 1
              /\ f_multi_thread' = IF check_retrives + 1 < CHECK_RETRIVES
                                   THEN "NOT_DEFINED_MULTITHREAD"
                                   ELSE "NO_MULTITHREAD"
              /\ cv_mutex' = None
              /\ undefined' = (undefined \/ UdOf(t) \notin live \/ cv_mutex # t)
         ELSE /\ UNCHANGED <<check_retrives, f_multi_thread, cv_mutex>>
              /\ IF MULTITHREADED THEN Touch(UdOf(t)) ELSE UNCHANGED undefined
    /\ UNCHANGED <<no_multi_thread_f, calls, of, rv, live, queue, loop,
                   async_func_mutex, signalled, history>>

Unlock(t) ==
    /\ at[t] = "unlocks"
    /\ UnlockCvIfMulti(t)
    /\ async_func_mutex' = None
    /\ Goto(t, "decides")
    /\ UNCHANGED <<mode, calls, of, rv, live, queue, loop, signalled, history>>

\* Mutant: a full send queue is not tried again.
MutantNoRepeat(t) ==
    /\ at[t] = "decides"
    /\ \E v \in ReadRv(UdOf(t)) :
         Goto(t, IF MULTITHREADED /\ v \in {"timeout"} THEN "locks" ELSE "returns")
    /\ IF MULTITHREADED THEN Touch(UdOf(t)) ELSE UNCHANGED undefined
    /\ UNCHANGED <<mode, calls, of, rv, live, queue, loop, mutexes, history>>

\* Mutant: the mode is not asked.
MutantAlwaysRepeats(t) ==
    /\ at[t] = "decides"
    /\ \E v \in ReadRv(UdOf(t)) :
         Goto(t, IF v \in {"full", "timeout"} THEN "locks" ELSE "returns")
    /\ IF MULTITHREADED THEN Touch(UdOf(t)) ELSE UNCHANGED undefined
    /\ UNCHANGED <<mode, calls, of, rv, live, queue, loop, mutexes, history>>

\* With a full send queue, or no answer, the same call is put in again.
Decide(t) ==
    /\ at[t] = "decides"
    /\ \E v \in ReadRv(UdOf(t)) :
         Goto(t, IF MULTITHREADED /\ v \in {"full", "timeout"} THEN "locks" ELSE "returns")
    /\ IF MULTITHREADED THEN Touch(UdOf(t)) ELSE UNCHANGED undefined
    /\ UNCHANGED <<mode, calls, of, rv, live, queue, loop, mutexes, history>>

\* Mutant: the caller never frees.
MutantFreesNothing(t) == {}

\* What the caller frees on its way out; otherwise the loop is to free it.
FreedByCaller(t) == IF MULTITHREADED THEN {UdOf(t)} ELSE {}

\* The call returns; its result is not used.
Return(t) ==
    /\ at[t] = "returns"
    /\ of[t] = "send"
    /\ live' = live \ FreedByCaller(t)
    /\ undefined' = (undefined \/ ~(FreedByCaller(t) \subseteq live))
    /\ Goto(t, "outside")
    /\ UNCHANGED <<mode, calls, of, rv, queue, loop, mutexes, history>>

\* The check returns and sets the mode, and the call itself begins.
CheckReturns(t) ==
    /\ at[t] = "returns"
    /\ of[t] = "check"
    /\ \E v \in ReadRv(UdOf(t)) :
         /\ f_multi_thread' = IF v = "sent" THEN "MULTITHREAD" ELSE "NO_MULTITHREAD"
         /\ check_retrives' = IF v = "sent" THEN 0 ELSE check_retrives
    /\ Touch(UdOf(t))
    /\ Open(t, "send", FreedByCaller(t))
    /\ UNCHANGED <<no_multi_thread_f, calls, queue, loop, mutexes, history>>

-----------------------------------------------------------------------------
(* The event loop. *)

\* The callback has handled its element and starts idle_async_w.
Handled == lat' = "outside" /\ item' = None /\ idle' = TRUE

\* sig_async_cb takes one element; event_cb looks at the label of its ud, which
\* a freed record may still have.
SigAsync ==
    /\ lat = "outside"
    /\ sig
    /\ sig' = FALSE
    /\ IF async_queue # <<>> /\ ~idle
       THEN LET ud == Head(async_queue) IN
            /\ async_queue' = Tail(async_queue)
            /\ Touch(ud)
            /\ \/ lat' = ud.of /\ item' = ud /\ UNCHANGED idle
               \/ ud \notin live /\ Handled
       ELSE UNCHANGED <<async_queue, idle, undefined, loop>>
    /\ UNCHANGED <<mode, threads, rv, live, mutexes, history>>

\* A check that comes when multi-thread mode is off is dropped.
CheckDropped ==
    /\ lat = "check"
    /\ ~MULTITHREADED
    /\ live' = live \ {item}
    /\ Touch(item)
    /\ Handled
    /\ UNCHANGED <<mode, threads, rv, async_queue, sig, mutexes, history>>

CheckAnswers ==
    /\ lat = "check"
    /\ MULTITHREADED
    /\ lat' = "answers"
    /\ UNCHANGED <<mode, threads, memory, queue, item, mutexes, history>>

\* cv_mutex is taken and released in one step.
Answer ==
    /\ lat = "answers"
    /\ cv_mutex = None
    /\ rv' = [rv EXCEPT ![item] = "sent"]
    /\ Touch(item)
    /\ Signal
    /\ Handled
    /\ UNCHANGED <<mode, threads, live, async_queue, sig, async_func_mutex, cv_mutex, history>>

\* Mutant: a call that comes when the mode is off is dropped, as a check is.
MutantDropsLate ==
    /\ lat = "send"
    /\ IF MULTITHREADED
       THEN lat' = "locks" /\ UNCHANGED <<live, undefined, idle, item>>
       ELSE live' = live \ {item} /\ Touch(item) /\ Handled
    /\ UNCHANGED <<mode, threads, rv, async_queue, sig, mutexes, history>>

\* A call: cv_mutex is taken in multi-thread mode.
Begin ==
    /\ lat = "send"
    /\ lat' = IF MULTITHREADED THEN "locks" ELSE "performs"
    /\ UNCHANGED <<mode, threads, memory, queue, item, mutexes, history>>

LoopLock ==
    /\ lat = "locks"
    /\ cv_mutex = None
    /\ cv_mutex' = Loop
    /\ lat' = "performs"
    /\ UNCHANGED <<mode, threads, memory, queue, item, async_func_mutex, signalled, history>>

\* Mutant: a full send queue does not hold the call back.
MutantMakesAnyway ==
    /\ lat = "performs"
    /\ \E found \in {"sent", "full", "refused"} :
         /\ found = "full" => fulls < MaxFull
         /\ fulls' = IF found = "full" THEN fulls + 1 ELSE fulls
         /\ rv' = [rv EXCEPT ![item] = found]
         /\ performed' = IF found # "refused"
                         THEN Append(performed, item) ELSE performed
         /\ refused' = IF MULTITHREADED /\ found = "refused"
                       THEN refused \cup {item} ELSE refused
    /\ Touch(item)
    /\ lat' = "tells"
    /\ UNCHANGED <<mode, threads, live, queue, item, mutexes, timeouts>>

\* The send queue of the peer is looked at, and in multi-thread mode a call
\* for which it is full, or that has no address, is not made.
Perform ==
    /\ lat = "performs"
    /\ \E found \in {"sent", "full", "refused"} :
         /\ found = "full" => fulls < MaxFull
         /\ fulls' = IF found = "full" THEN fulls + 1 ELSE fulls
         /\ rv' = [rv EXCEPT ![item] = found]
         /\ performed' = IF ~MULTITHREADED \/ found = "sent"
                         THEN Append(performed, item) ELSE performed
         /\ refused' = IF MULTITHREADED /\ found = "refused"
                       THEN refused \cup {item} ELSE refused
    /\ Touch(item)
    /\ lat' = "tells"
    /\ UNCHANGED <<mode, threads, live, queue, item, mutexes, timeouts>>

\* The caller is woken, or has long returned and its ud is freed.
Tell ==
    /\ lat = "tells"
    /\ IF MULTITHREADED
       THEN Signal /\ UNCHANGED <<live, undefined>>
       ELSE live' = live \ {item} /\ Touch(item) /\ UNCHANGED signalled
    /\ lat' = "unlocks"
    /\ UNCHANGED <<mode, threads, rv, queue, item, async_func_mutex, cv_mutex, history>>

LoopUnlock ==
    /\ lat = "unlocks"
    /\ UnlockCvIfMulti(Loop)
    /\ Handled
    /\ UNCHANGED <<mode, threads, rv, live, async_queue, sig, async_func_mutex, signalled, history>>

\* Mutant: the signal is not sent again.
MutantIdleSilent ==
    /\ lat = "outside"
    /\ idle
    /\ idle' = FALSE
    /\ UNCHANGED <<mode, threads, memory, async_queue, sig, loop, mutexes, history>>

\* idle_async_cb sends the signal again, for the next element.
IdleAsync ==
    /\ lat = "outside"
    /\ idle
    /\ idle' = FALSE
    /\ sig' = TRUE
    /\ UNCHANGED <<mode, threads, memory, async_queue, loop, mutexes, history>>

-----------------------------------------------------------------------------

\* The steps of a call.
Step(t) ==
    \/ CheckMultiThread(t) \/ TryMultiThread(t)
    \/ LockFunc(t) \/ LockCv(t) \/ TakeCv(t) \/ Add(t)
    \/ Wait(t) \/ Wake(t) \/ Waited(t) \/ Unlock(t)
    \/ Decide(t) \/ Return(t) \/ CheckReturns(t)

LoopStep ==
    \/ SigAsync \/ IdleAsync
    \/ CheckDropped \/ CheckAnswers \/ Answer
    \/ Begin \/ LoopLock \/ Perform \/ Tell \/ LoopUnlock

Next ==
    /\ ~undefined
    /\ \/ \E t \in Thread : Call(t) \/ Step(t) \/ TimedOut(t)
       \/ LoopStep

Spec == Init /\ [][Next]_vars

\* Threads that can go on do, and so does the loop.  A thread that waits for a
\* mutex gets it once the others stop taking it, which they do: calls and full
\* queues are bounded.
FairSpec ==
    /\ Spec
    /\ \A t \in Thread : WF_vars(~undefined /\ Step(t))
    /\ WF_vars(~undefined /\ LoopStep)

-----------------------------------------------------------------------------

\* Where a thread can be in SEND_ASYNC, and the loop in its callback.
Places == {"outside", "begins", "tries", "locks", "locks cv", "takes cv", "adds", "added",
           "waits", "waited", "unlocks", "decides", "returns"}
LoopPlaces == {"outside", "check", "answers", "send", "locks", "performs", "tells", "unlocks"}

TypeOK ==
    /\ no_multi_thread_f \in BOOLEAN
    /\ f_multi_thread \in {"NOT_DEFINED_MULTITHREAD", "MULTITHREAD", "NO_MULTITHREAD"}
    /\ check_retrives \in Nat
    /\ at \in [Thread -> Places]
    /\ calls \in [Thread -> 0..MaxCalls]
    /\ of \in [Thread -> {"check", "send"}]
    /\ rv \in [Ud -> Rv]
    /\ live \subseteq Ud
    /\ async_queue \in Seq(Ud)
    /\ sig \in BOOLEAN /\ idle \in BOOLEAN
    /\ lat \in LoopPlaces
    /\ item \in Ud \cup {None}
    /\ async_func_mutex \in Thread \cup {None}
    /\ cv_mutex \in Thread \cup {Loop, None}
    /\ signalled \in BOOLEAN
    /\ performed \in Seq(Ud) /\ refused \subseteq Ud
    /\ timeouts \in 0..MaxTimeouts /\ fulls \in 0..MaxFull
    /\ undefined \in BOOLEAN

\* Inside SEND_ASYNC, with an allocated record.
Sending(t) == at[t] \notin {"outside", "begins", "tries"}

InQueue(ud) == ud = item \/ \E i \in DOMAIN async_queue : async_queue[i] = ud

CallsMade == {performed[i] : i \in DOMAIN performed}

\* Two calls that were made are of different threads, or in the order in which
\* their thread made them.
Ordered(i, j) ==
    performed[i].thread = performed[j].thread => performed[i].call < performed[j].call

\* No call is made twice, nor before an earlier one of its thread, although a call
\* that finds the send queue full is put into the queue again.
OnceInOrder == \A i, j \in DOMAIN performed : i < j => Ordered(i, j)

\* In multi-thread mode a call that has returned has been made, or refused.
Synchronous ==
    MULTITHREADED =>
        \A t \in Thread, n \in 1..MaxCalls :
            LET ud == [thread |-> t, call |-> n, of |-> "send"] IN
            n < calls[t] \/ (n = calls[t] /\ at[t] = "outside")
                => ud \in CallsMade \cup refused

\* No record is used after it was freed, by its thread or by the loop, and
\* nobody unlocks cv_mutex for another.
WellDefined == ~undefined

\* ... nor is one forgotten: it belongs to a thread, or to the queue.
NoLeak ==
    \A ud \in live :
        InQueue(ud) \/ (Sending(ud.thread) /\ ud = UdOf(ud.thread))

\* Thread and loop, which decide by the mode who frees a record, free it once.
FreedOnce == WellDefined /\ NoLeak

\* The loop leaves its callback without cv_mutex: otherwise the next thread that
\* calls, and then the loop itself, wait for it for ever.
LoopReleases == cv_mutex = Loop => lat \in {"performs", "tells", "unlocks"}

\* With late answers, and a single calling thread: a call is made twice, the second
\* time at once after the first, only when the send queue was full and it was put into
\* the queue again.  With a second thread it is not so: the check of that thread may
\* turn the mode on between the wait of a call, which the mode did not ask for, and
\* Decide, which then finds no answer and puts the call in again.
TwiceOnlyIfFull ==
    \A i, j \in DOMAIN performed :
        i < j => Ordered(i, j) \/ (performed[i] = performed[j] /\ fulls > 0)

\* A call that has returned is made, or refused, or is still in the queue, unless
\* the send queue was full.  With a second thread that is so only until a freed record
\* is used: the loop may drop it.
LostOnlyIfFull ==
    \A t \in Thread, n \in 1..MaxCalls :
        LET ud == [thread |-> t, call |-> n, of |-> "send"] IN
        n < calls[t] \/ (n = calls[t] /\ at[t] = "outside")
            => ud \in CallsMade \cup refused \/ InQueue(ud) \/ fulls > 0

\* Every call is made or refused in the end, and returns.
Served ==
    \A t \in Thread, n \in 1..MaxCalls :
        calls[t] = n ~>
            /\ n < calls[t] \/ at[t] = "outside"
            /\ [thread |-> t, call |-> n, of |-> "send"] \in CallsMade \cup refused
=============================================================================
