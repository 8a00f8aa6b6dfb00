-------------------------------- MODULE CQue --------------------------------
(***************************************************************************)
(* The callback queue of Teonet, src/src/modules/cque.c.                   *)
(*                                                                         *)
(* A queue record holds a callback and a libev timer.  The callback is     *)
(* called once: with type 1 when ksnCQueExec is called with the record's   *)
(* id, or with type 0 when the timer expires first.  The record stays in   *)
(* the map while its callback runs, and callbacks call back into the queue *)
(* (they add, execute and remove other records), so Exec and the timer are *)
(* two actions each: the call of the callback and the removal after it.    *)
(*                                                                         *)
(* Ids are 32 bit and wrap, skipping 0; pblMapAdd replaces and frees the   *)
(* entry that still has the id it is given.  Every call of ksnCQueAdd has  *)
(* a serial number here, which the code does not have: it is how the       *)
(* properties tell two records with the same id apart.                     *)
(***************************************************************************)
EXTENDS Naturals, Sequences, FiniteSets

CONSTANTS
    MaxId,          \* the largest id: 2^32 - 1 in the code
    MaxAdds,        \* bound on the calls of ksnCQueAdd
    MaxDepth,       \* bound on callbacks running inside callbacks
    Data,           \* user data pointers
    Untimed         \* whether clients pass timeout 0 to ksnCQueAdd

ASSUME CQueAssumption ==
    /\ MaxId \in Nat \ {0}
    /\ MaxAdds \in Nat
    /\ MaxDepth \in Nat
    /\ Untimed \in BOOLEAN

VARIABLES
    loop,      \* "running", "stopping" (runEventMgr is 0) or "ended"
    alive,     \* the ksnCQueClass has not been destroyed
    nextId,    \* kq->id
    map,       \* kq->cque_map: id -> record
    timers,    \* serials of the records whose ev_timer is active in the loop
    frames,    \* the callbacks running now, innermost last
    added,     \* number of ksnCQueAdd calls: the serial of the last one
    calls,     \* how often the callback of each serial has been called
    gone,      \* serials removed without a call: ksnCQueRemove, Destroy, no memory
    lost,      \* serials whose record pblMapAdd replaced
    wild       \* what made the program use a dead or never initialised watcher

vars == <<loop, alive, nextId, map, timers, frames, added, calls, gone, lost, wild>>

Ids == 1..MaxId

Serials == 1..added

\* ksnCQueData.  junk: whether the timeout field, which ksnCQueAdd leaves
\* uninitialised when it is called with timeout 0, reads as positive.
Record == [serial : Nat, timed : BOOLEAN, junk : BOOLEAN, data : Data]

Frame == [id : Ids, serial : Nat, type : {0, 1}]

Queued == {map[i].serial : i \in DOMAIN map}

RunningSerials == {frames[k].serial : k \in DOMAIN frames}

RunningIds == {frames[k].id : k \in DOMAIN frames}

\* cq->timeout > 0.0
TimeoutPositive(r) == r.timed \/ r.junk

EmptyMap == [i \in {} |-> 0]

Without(id) == [i \in DOMAIN map \ {id} |-> map[i]]

\* Mutant of StopWatcher: the record is executed or removed with its timer running.
MutantNoStop(r) ==
    /\ timers' = timers
    /\ wild' = wild

\* ev_timer_stop on the record's watcher; one that was never initialised is
\* undefined behaviour, after which the model makes no step.
StopWatcher(r) ==
    /\ timers' = timers \ {r.serial}
    /\ wild' = IF TimeoutPositive(r) /\ ~r.timed THEN "junk" ELSE wild

-----------------------------------------------------------------------------
Init ==
    /\ loop = "running"
    /\ alive = TRUE
    /\ nextId = 0
    /\ map = EmptyMap
    /\ timers = {}
    /\ frames = <<>>
    /\ added = 0
    /\ calls = <<>>
    /\ gone = {}
    /\ lost = {}
    /\ wild = "none"

\* The queue exists and nothing undefined has happened.
Sane == alive /\ wild = "none"

\* The id ksnCQueAdd takes: kq->id, or 1 when it is 0.
FreshId == IF nextId = 0 THEN 1 ELSE nextId

\* The call counts with one more call, not made yet.
WithNewCall == [s \in 1..(added + 1) |-> IF s = added + 1 THEN 0 ELSE calls[s]]

\* Mutant of Inc: the counter wraps one id too early.
MutantIncShort(x) == IF x + 1 >= MaxId THEN 0 ELSE x + 1

\* ++ on a uint32_t: x + 1 modulo MaxId + 1.
Inc(x) == IF x = MaxId THEN 0 ELSE x + 1

\* Mutant of Add: the timer is started only for records added outside callbacks.
MutantAddNoTimer(timed, junk, data) ==
    LET id == FreshId
        new == [serial |-> added + 1, timed |-> timed, junk |-> junk, data |-> data]
    IN  /\ Sane
        /\ added < MaxAdds
        /\ nextId' = Inc(id)
        /\ map' = [i \in DOMAIN map \cup {id} |-> IF i = id THEN new ELSE map[i]]
        /\ timers' = IF timed /\ frames = <<>> THEN timers \cup {added + 1} ELSE timers
        /\ added' = added + 1
        /\ calls' = WithNewCall
        /\ lost' = IF id \in DOMAIN map THEN lost \cup {map[id].serial} ELSE lost
        /\ wild' = IF id \in DOMAIN map /\ map[id].serial \in timers THEN "wrap" ELSE wild
        /\ UNCHANGED <<loop, alive, frames, gone>>

\* ksnCQueAdd with pblMapAdd and pblMapGet succeeding.
Add(timed, junk, data) ==
    LET id == FreshId
        new == [serial |-> added + 1, timed |-> timed, junk |-> junk, data |-> data]
    IN  /\ Sane
        /\ added < MaxAdds
        /\ nextId' = Inc(id)
        /\ map' = [i \in DOMAIN map \cup {id} |-> IF i = id THEN new ELSE map[i]]
        /\ timers' = IF timed THEN timers \cup {added + 1} ELSE timers
        /\ added' = added + 1
        /\ calls' = WithNewCall
        /\ lost' = IF id \in DOMAIN map THEN lost \cup {map[id].serial} ELSE lost
        \* the replaced entry is freed with its watcher still active
        /\ wild' = IF id \in DOMAIN map /\ map[id].serial \in timers THEN "wrap" ELSE wild
        /\ UNCHANGED <<loop, alive, frames, gone>>

\* ksnCQueAdd when pblMapAdd returns an error: the id is used up, NULL is returned.
AddRefused ==
    /\ Sane
    /\ added < MaxAdds
    /\ nextId' = Inc(FreshId)
    /\ added' = added + 1
    /\ calls' = WithNewCall
    /\ gone' = gone \cup {added + 1}
    /\ UNCHANGED <<loop, alive, map, timers, frames, lost, wild>>

\* The callback of record id starts: calls counts it.
Call(id, type) ==
    /\ frames' = Append(frames, [id |-> id, serial |-> map[id].serial, type |-> type])
    /\ calls' = [calls EXCEPT ![map[id].serial] = @ + 1]

\* ksnCQueExec up to the callback.  Clients do not execute, from inside a
\* callback, the record that callback belongs to.
Exec(id) ==
    /\ Sane
    /\ Len(frames) < MaxDepth
    /\ id \in DOMAIN map
    /\ id \notin RunningIds
    /\ StopWatcher(map[id])
    /\ Call(id, 1)
    /\ UNCHANGED <<loop, alive, nextId, map, added, gone, lost>>

\* cq_timer_cb up to the callback.  The loop calls it, never another callback.
TimerCb(id) ==
    /\ Sane
    /\ loop # "ended"
    /\ frames = <<>>
    /\ MaxDepth > 0
    /\ id \in DOMAIN map
    /\ map[id].serial \in timers
    /\ timers' = timers \ {map[id].serial}
    /\ Call(id, 0)
    /\ UNCHANGED <<loop, alive, nextId, map, added, gone, lost, wild>>

\* Mutant of Return: the record stays in the map after its callback.
MutantReturnKeeps ==
    /\ Sane
    /\ frames # <<>>
    /\ frames' = SubSeq(frames, 1, Len(frames) - 1)
    /\ UNCHANGED <<loop, alive, nextId, map, timers, added, calls, gone, lost, wild>>

\* The rest of ksnCQueExec and of cq_timer_cb: after the callback and the
\* event, the map entry with the record's id is removed and freed.
Return ==
    LET top == frames[Len(frames)]
    IN  /\ Sane
        /\ frames # <<>>
        /\ map' = Without(top.id)
        /\ frames' = SubSeq(frames, 1, Len(frames) - 1)
        \* cq points to a freed entry if the id was given away meanwhile
        /\ wild' = IF top.id \in DOMAIN map /\ map[top.id].serial = top.serial
                   THEN wild ELSE "wrap"
        /\ UNCHANGED <<loop, alive, nextId, timers, added, calls, gone, lost>>

\* ksnCQueRemove of a record whose callback is not running.
Remove(id) ==
    /\ Sane
    /\ id \in DOMAIN map
    /\ id \notin RunningIds
    /\ StopWatcher(map[id])
    /\ map' = Without(id)
    /\ gone' = gone \cup {map[id].serial}
    /\ UNCHANGED <<loop, alive, nextId, frames, added, calls, lost>>

\* Mutant of SetData: data set for a removed record brings the record back.
MutantSetDataAdds(id, data) ==
    LET old == IF id \in DOMAIN map THEN map[id]
               ELSE [serial |-> id, timed |-> FALSE, junk |-> FALSE, data |-> data]
    IN  /\ Sane
        /\ id \in Serials
        /\ map' = [i \in DOMAIN map \cup {id} |-> IF i = id THEN [old EXCEPT !.data = data]
                                                   ELSE map[i]]
        /\ UNCHANGED <<loop, alive, nextId, timers, frames, added, calls, gone, lost, wild>>

\* ksnCQueSetData.
SetData(id, data) ==
    /\ Sane
    /\ id \in DOMAIN map
    /\ map' = [map EXCEPT ![id].data = data]
    /\ UNCHANGED <<loop, alive, nextId, timers, frames, added, calls, gone, lost, wild>>

\* teoCqueStopAll and ksnCQueDestroy: every record is freed; watchers are stopped
\* only while ksnetEvMgrStatus says the event manager is running, so those of a
\* queue destroyed after runEventMgr was cleared stay in a loop that still runs.
Destroy ==
    /\ Sane
    /\ frames = <<>>
    /\ alive' = FALSE
    /\ timers' = IF loop = "running" THEN {} ELSE timers
    /\ wild' = IF loop = "running" /\ \E i \in DOMAIN map : map[i].junk /\ ~map[i].timed
               THEN "junk" ELSE wild
    /\ gone' = gone \cup (Queued \ RunningSerials)
    /\ map' = EmptyMap
    /\ UNCHANGED <<loop, nextId, frames, added, calls, lost>>

\* cq_timer_cb for a watcher that outlived its record and queue: it reads the
\* freed ksnCQueData.
FreedTimerCb ==
    /\ ~alive
    /\ wild = "none"
    /\ loop # "ended"
    /\ timers # {}
    /\ wild' = "freed"
    /\ UNCHANGED <<loop, alive, nextId, map, timers, frames, added, calls, gone, lost>>

\* ksnetEvMgrStop or a signal clears runEventMgr; the loop goes on until
\* timer_cb sees it and breaks out of ev_run.
StopLoop ==
    /\ loop = "running"
    /\ loop' = "stopping"
    /\ UNCHANGED <<alive, nextId, map, timers, frames, added, calls, gone, lost, wild>>

BreakLoop ==
    /\ loop = "stopping"
    /\ frames = <<>>
    /\ loop' = "ended"
    /\ UNCHANGED <<alive, nextId, map, timers, frames, added, calls, gone, lost, wild>>

Next ==
    \/ \E d \in Data : Add(TRUE, FALSE, d)
    \/ \E d \in Data, junk \in BOOLEAN : Untimed /\ Add(FALSE, junk, d)
    \/ AddRefused
    \/ \E id \in Ids : Exec(id)
    \/ \E id \in Ids : TimerCb(id)
    \/ Return
    \/ \E id \in Ids : Remove(id)
    \/ \E id \in Ids, d \in Data : SetData(id, d)
    \/ Destroy
    \/ FreedTimerCb
    \/ StopLoop
    \/ BreakLoop

Spec == Init /\ [][Next]_vars

\* The loop dispatches an expired timer unless it is stopped first, callbacks
\* return, and a cleared runEventMgr is seen by the repeating timer_cb.
Fairness ==
    /\ \A id \in Ids : WF_vars(TimerCb(id))
    /\ WF_vars(Return)
    /\ WF_vars(BreakLoop)

FairSpec == Spec /\ Fairness

-----------------------------------------------------------------------------
\* Every variable holds a value of its C type; map keys are non-zero ids.
TypeOK ==
    /\ loop \in {"running", "stopping", "ended"}
    /\ alive \in BOOLEAN
    /\ nextId \in 0..MaxId
    /\ DOMAIN map \subseteq Ids
    /\ map \in [DOMAIN map -> Record]
    /\ timers \subseteq Nat
    /\ frames \in Seq(Frame)
    /\ added \in Nat
    /\ calls \in [1..added -> Nat]
    /\ gone \subseteq Nat
    /\ lost \subseteq Nat
    /\ wild \in {"none", "wrap", "junk", "freed"}

\* The promise of the queue: ksnCQueExec and the timeout between them call the
\* callback of a record at most once, and never that of a record that was
\* removed, whatever callbacks do to the queue while they run.
AtMostOnce ==
    \A s \in Serials : calls[s] <= 1 /\ (s \in gone => calls[s] = 0)

\* No call is forgotten and no watcher outlives its record: as long as the
\* queue exists, a call that was not made, cancelled or overwritten is in the
\* map, and exactly the waiting timed records have an active watcher.
Accounted ==
    Sane =>
        /\ \A s \in Serials : calls[s] = 0 /\ s \notin gone \cup lost => s \in Queued
        /\ timers = {map[i].serial :
                        i \in {j \in DOMAIN map : map[j].timed /\ calls[map[j].serial] = 0}}

\* A record is replaced, and its watcher or a running callback left with freed
\* memory, only when MaxId further calls of ksnCQueAdd were made since its own.
OnlyWrapOverwrites ==
    /\ \A s \in lost : added >= s + MaxId
    /\ wild = "wrap" => added > MaxId

\* The counter stands as far past the id of a record in the map as ksnCQueAdd
\* was called since the record's own call, or it has wrapped since then.
IdDistance ==
    \A i \in DOMAIN map :
        LET after == i + (added - map[i].serial) + 1
        IN  \/ after = FreshId
            \/ after >= FreshId + MaxId

\* Each serial has one place: map entries are distinct, no cancelled or
\* overwritten one is in the map, one that was called is in the map only while
\* its callback runs.
OnePlace ==
    /\ \A i \in DOMAIN map :
        /\ map[i].serial \in Serials
        /\ map[i].serial \notin gone \cup lost
        /\ calls[map[i].serial] = 0 \/ map[i].serial \in RunningSerials
    /\ \A i, j \in DOMAIN map : map[i].serial = map[j].serial => i = j
    /\ gone \cup lost \subseteq Serials

\* A running callback was counted, belongs to one frame, and its record is in
\* the map under the id the frame will remove, or was overwritten.
FramesHold ==
    /\ \A k \in DOMAIN frames :
        LET f == frames[k]
        IN  /\ f.serial \in Serials
            /\ calls[f.serial] = 1
            /\ f.serial \in lost \/ (f.id \in DOMAIN map /\ map[f.id].serial = f.serial)
    /\ \A k, l \in DOMAIN frames : frames[k].serial = frames[l].serial => k = l

\* The inductive invariant behind AtMostOnce, Accounted and OnlyWrapOverwrites.
IInv ==
    /\ TypeOK
    /\ AtMostOnce
    /\ Accounted
    /\ OnlyWrapOverwrites
    /\ Sane => IdDistance /\ OnePlace /\ FramesHold

\* The state of each call as its client sees it: made once the callback has
\* been called, waiting while the record is in the map, dropped otherwise.
CallState ==
    [s \in Serials |-> IF calls[s] > 0 THEN "called"
                       ELSE IF s \in Queued THEN "waiting" ELSE "dropped"]

OneShot == INSTANCE OneShotCalls WITH call <- CallState

\* The queue implements one-shot calls: a callback is called only for a record
\* that is in the map and has not been called, a record that left the map never
\* comes back, and this holds through the wrap of the ids and through Destroy.
ImplementsOneShot == OneShot!Spec

\* A timed call does not wait forever: it is called, cancelled or overwritten,
\* unless the loop stops.
TimedCallResolved ==
    \A id \in Ids : (id \in DOMAIN map /\ map[id].timed /\ calls[map[id].serial] = 0)
        ~> (id \notin DOMAIN map \/ calls[map[id].serial] > 0 \/ loop = "ended" \/ ~Sane)
=============================================================================
