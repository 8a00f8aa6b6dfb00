----------------------------- MODULE CQueProofs -----------------------------
(***************************************************************************)
(* Proofs about the callback queue for every MaxId, MaxAdds and MaxDepth:  *)
(* its invariants, and that it implements one-shot calls.                  *)
(***************************************************************************)
EXTENDS CQue, SequenceTheorems, TLAPS

\* Pushing a frame: the frames below it stay where they are.
LEMMA Push ==
    ASSUME frames \in Seq(Frame), NEW f \in Frame
    PROVE  /\ Append(frames, f) \in Seq(Frame)
           /\ DOMAIN Append(frames, f) = DOMAIN frames \cup {Len(frames) + 1}
           /\ Len(frames) + 1 \notin DOMAIN frames
           /\ \A k \in DOMAIN frames : Append(frames, f)[k] = frames[k]
           /\ Append(frames, f)[Len(frames) + 1] = f
  BY AppendProperties

\* Popping the innermost frame.
LEMMA Pop ==
    ASSUME frames \in Seq(Frame), frames # <<>>
    PROVE  /\ SubSeq(frames, 1, Len(frames) - 1) \in Seq(Frame)
           /\ Len(frames) \in DOMAIN frames
           /\ DOMAIN SubSeq(frames, 1, Len(frames) - 1) = DOMAIN frames \ {Len(frames)}
           /\ \A k \in DOMAIN frames \ {Len(frames)} :
                 SubSeq(frames, 1, Len(frames) - 1)[k] = frames[k]
<1>1. Len(frames) \in Nat \ {0} /\ DOMAIN frames = 1..Len(frames)
  BY EmptySeq
<1>2. \A k \in 1..(Len(frames) - 1) : frames[k] \in Frame
  BY <1>1, ElementOfSeq
<1>3. LET g == SubSeq(frames, 1, Len(frames) - 1)
      IN  /\ g \in Seq(Frame)
          /\ Len(g) = Len(frames) - 1
          /\ \A k \in 1..(Len(frames) - 1) : g[k] = frames[k]
  BY <1>1, <1>2, SubSeqProperties
<1> QED
  BY <1>1, <1>3

\* The initial state of ksnCQueInit satisfies the inductive invariant.
LEMMA InitIInv == Init => IInv
  BY CQueAssumption DEF Init, EmptyMap, IInv, TypeOK, AtMostOnce, Accounted, OnlyWrapOverwrites,
     Sane, IdDistance, OnePlace, FramesHold, Serials, Queued, RunningSerials, Ids, Record, Frame

\* Every step of the queue keeps its variables in their types.
LEMMA StepTypeOK == TypeOK /\ [Next]_vars => TypeOK'
<1> SUFFICES ASSUME TypeOK, [Next]_vars PROVE TypeOK'
  OBVIOUS
<1> USE CQueAssumption DEF TypeOK
<1>1. ASSUME NEW timed \in BOOLEAN, NEW junk \in BOOLEAN, NEW d \in Data, Add(timed, junk, d)
      PROVE  TypeOK'
  <2>1. FreshId \in Ids /\ nextId' \in 0..MaxId
    BY <1>1 DEF Add, FreshId, Inc, Ids
  <2>2. DOMAIN map' \subseteq Ids
    BY <1>1, <2>1 DEF Add
  <2>3. map' \in [DOMAIN map' -> Record]
    BY <1>1, <2>1 DEF Add, Record
  <2>4. calls' \in [1..added' -> Nat]
    BY <1>1 DEF Add, WithNewCall
  <2>5. timers' \subseteq Nat /\ lost' \subseteq Nat
    BY <1>1, <2>1 DEF Add, Record
  <2> QED
    BY <1>1, <2>1, <2>2, <2>3, <2>4, <2>5, SMTT(30) DEF Add
<1>2. CASE AddRefused
  BY <1>2, SMTT(30) DEF AddRefused, FreshId, Inc, WithNewCall, Ids
<1>3. ASSUME NEW id \in Ids, NEW type \in {0, 1}, id \in DOMAIN map, Call(id, type)
      PROVE  frames' \in Seq(Frame) /\ calls' \in [1..added -> Nat]
  <2>1. [id |-> id, serial |-> map[id].serial, type |-> type] \in Frame
    BY <1>3 DEF Frame, Record
  <2>2. frames' \in Seq(Frame)
    BY <1>3, <2>1, Push DEF Call
  <2>3. calls' = [s \in 1..added |-> IF s = map[id].serial THEN calls[s] + 1 ELSE calls[s]]
    BY <1>3 DEF Call
  <2>4. calls' \in [1..added -> Nat]
    BY <2>3
  <2> QED
    BY <2>2, <2>4
<1>4. ASSUME NEW id \in Ids, Exec(id) PROVE TypeOK'
  BY <1>3, <1>4 DEF Exec, StopWatcher
<1>5. ASSUME NEW id \in Ids, TimerCb(id) PROVE TypeOK'
  BY <1>3, <1>5 DEF TimerCb
<1>6. CASE Return
  BY <1>6, Pop DEF Return, Without
<1>7. ASSUME NEW id \in Ids, Remove(id) PROVE TypeOK'
  BY <1>7 DEF Remove, StopWatcher, Without, Record
<1>8. ASSUME NEW id \in Ids, NEW d \in Data, SetData(id, d) PROVE TypeOK'
  BY <1>8 DEF SetData, Record
<1>9. CASE Destroy
  BY <1>9 DEF Destroy, Queued, EmptyMap, Record
<1>10. CASE FreedTimerCb \/ StopLoop \/ BreakLoop \/ UNCHANGED vars
  BY <1>10 DEF FreedTimerCb, StopLoop, BreakLoop, vars
<1> QED
  BY <1>1, <1>2, <1>4, <1>5, <1>6, <1>7, <1>8, <1>9, <1>10 DEF Next

\* ksnCQueAdd keeps the inductive invariant, the wrap of the ids included.
LEMMA AddIInv ==
    ASSUME IInv, TypeOK', NEW timed \in BOOLEAN, NEW junk \in BOOLEAN, NEW d \in Data,
           Add(timed, junk, d)
    PROVE  IInv'
<1> DEFINE id == FreshId
           n == added + 1
<1> USE CQueAssumption
<1>1. /\ id \in Ids /\ FreshId' \in Ids /\ n \in Nat
      /\ FreshId' = IF id = MaxId THEN 1 ELSE id + 1
  BY DEF IInv, TypeOK, Add, FreshId, Inc, Ids
<1>2. /\ Sane /\ IdDistance /\ OnePlace /\ FramesHold
      /\ map \in [DOMAIN map -> Record] /\ DOMAIN map \subseteq Ids
      /\ added \in Nat /\ calls \in [1..added -> Nat]
  BY DEF Add, IInv, TypeOK
<1>3. /\ DOMAIN map' = DOMAIN map \cup {id}
      /\ map'[id].serial = n /\ map'[id].timed = timed
      /\ \A i \in DOMAIN map : i # id => map'[i] = map[i]
      /\ \A i \in DOMAIN map : map[i].serial \in 1..added
  BY <1>1, <1>2 DEF Add, OnePlace, Serials
<1>4. /\ added' = n /\ DOMAIN calls' = 1..n /\ calls'[n] = 0
      /\ \A s \in 1..added : calls'[s] = calls[s]
  BY <1>1, <1>2 DEF Add, WithNewCall
<1>5. id \in DOMAIN map => added + 1 >= map[id].serial + MaxId
  <2> SUFFICES ASSUME id \in DOMAIN map PROVE added + 1 >= map[id].serial + MaxId
    OBVIOUS
  <2> DEFINE s == map[id].serial
  <2>1. s \in 1..added /\ id \in 1..MaxId
    BY <1>1, <1>3 DEF Ids
  <2>2. id + (added - s) + 1 = id \/ id + (added - s) + 1 >= id + MaxId
    BY <1>2 DEF IdDistance
  <2> QED
    BY <1>2, <2>1, <2>2, SMTT(30)
<1>6. AtMostOnce'
  <2>1. \A s \in 1..added : calls[s] <= 1 /\ (s \in gone => calls[s] = 0)
    BY DEF IInv, AtMostOnce, Serials
  <2>2. gone' = gone /\ gone \subseteq 1..added
    BY <1>2 DEF Add, OnePlace, Serials
  <2>3. \A s \in 1..n : s \in 1..added \/ s = n
    BY <1>2
  <2>4. ASSUME NEW s \in 1..n PROVE calls'[s] <= 1 /\ (s \in gone' => calls'[s] = 0)
    <3>1. CASE s \in 1..added
      BY <1>4, <2>1, <2>2, <3>1
    <3>2. CASE s = n
      BY <1>4, <3>2
    <3> QED
      BY <2>3, <3>1, <3>2
  <2> QED
    BY <1>4, <2>4 DEF AtMostOnce, Serials
<1>7. OnlyWrapOverwrites'
  <2>1. /\ \A s \in lost : s \in 1..added /\ added >= s + MaxId
        /\ wild = "wrap" => added > MaxId
    BY <1>2 DEF OnlyWrapOverwrites, IInv, OnePlace, Serials
  <2>2. /\ lost' = IF id \in DOMAIN map THEN lost \cup {map[id].serial} ELSE lost
        /\ wild' = "wrap" => wild = "wrap" \/ id \in DOMAIN map
    BY DEF Add
  <2>3. id \in DOMAIN map => n >= map[id].serial + MaxId /\ map[id].serial \in 1..added
    BY <1>3, <1>5
  <2>4. MaxId \in Nat
    OBVIOUS
  <2> QED
    BY <1>2, <1>4, <2>1, <2>2, <2>3, <2>4 DEF OnlyWrapOverwrites
<1>8. IdDistance'
  <2>1. SUFFICES ASSUME NEW i \in DOMAIN map'
                 PROVE  \/ i + (added' - map'[i].serial) + 1 = FreshId'
                        \/ i + (added' - map'[i].serial) + 1 >= FreshId' + MaxId
    BY DEF IdDistance
  <2>2. i \in 1..MaxId /\ FreshId \in 1..MaxId /\ MaxId \in Nat
    BY <1>1, <1>2, <1>3 DEF Ids
  <2>3. CASE i = id
    BY <1>1, <1>2, <1>3, <1>4, <2>2, <2>3, SMTT(30)
  <2>4. CASE i # id
    <3> DEFINE s == map[i].serial
    <3>1. i \in DOMAIN map /\ map'[i].serial = s /\ s \in 1..added
      BY <1>3, <2>1, <2>4
    <3>2. i + (added - s) + 1 = FreshId \/ i + (added - s) + 1 >= FreshId + MaxId
      BY <1>2, <3>1 DEF IdDistance
    <3> HIDE DEF s
    <3>3. added \in Nat /\ added' = added + 1
      BY <1>2, <1>4
    <3>4. FreshId' = IF FreshId = MaxId THEN 1 ELSE FreshId + 1
      BY <1>1
    <3>5. i + (added' - s) + 1 = FreshId' \/ i + (added' - s) + 1 >= FreshId' + MaxId
      BY <2>2, <3>1, <3>2, <3>3, <3>4
    <3> QED
      BY <3>1, <3>5
  <2> QED
    BY <2>3, <2>4
<1>9. RunningSerials' = RunningSerials /\ \A s \in RunningSerials : s \in 1..added
  BY <1>2 DEF Add, RunningSerials, FramesHold, Serials
<1>10. OnePlace'
  BY <1>1, <1>2, <1>3, <1>4, <1>9 DEF OnePlace, Serials, Add
<1>11. FramesHold'
  BY <1>1, <1>2, <1>3, <1>4 DEF FramesHold, Serials, Add
<1>12. Accounted'
  <2>1. SUFFICES ASSUME Sane' PROVE Accounted'
    BY DEF Accounted
  <2>2. id \in DOMAIN map => map[id].serial \notin timers
    BY <2>1, <1>2 DEF Sane, Add
  <2>3. Accounted
    BY DEF IInv
  <2>4. \A s \in Serials' : calls'[s] = 0 /\ s \notin gone' \cup lost' => s \in Queued'
    BY <1>1, <1>2, <1>3, <1>4, <2>3 DEF Accounted, Serials, Queued, Add
  <2>5. timers' = {map'[i].serial :
                    i \in {j \in DOMAIN map' : map'[j].timed /\ calls'[map'[j].serial] = 0}}
    <3> DEFINE T == {map[i].serial :
                       i \in {j \in DOMAIN map : map[j].timed /\ calls[map[j].serial] = 0}}
               U == {map'[i].serial :
                       i \in {j \in DOMAIN map' : map'[j].timed /\ calls'[map'[j].serial] = 0}}
    <3>1. timers = T /\ timers' = IF timed THEN timers \cup {n} ELSE timers
      BY <1>2, <2>3 DEF Accounted, Add
    <3>2. \A i \in DOMAIN map : i # id =>
             map'[i] = map[i] /\ calls'[map[i].serial] = calls[map[i].serial]
      BY <1>3, <1>4
    <3>3. \A x : x \in T => x \in U
      BY <1>3, <2>2, <3>1, <3>2
    <3>4. n \in U <=> timed
      BY <1>2, <1>3, <1>4, <3>2
    <3>5. \A x : x \in U => x \in T \/ (x = n /\ timed)
      BY <1>3, <3>2
    <3> QED
      BY <3>1, <3>3, <3>4, <3>5
  <2> QED
    BY <2>4, <2>5 DEF Accounted
<1> QED
  BY <1>6, <1>7, <1>8, <1>10, <1>11, <1>12 DEF IInv

\* A failed ksnCQueAdd uses up an id and keeps the inductive invariant.
LEMMA AddRefusedIInv ==
    ASSUME IInv, TypeOK', AddRefused
    PROVE  IInv'
<1> DEFINE n == added + 1
<1> USE CQueAssumption
<1>1. /\ FreshId \in 1..MaxId /\ MaxId \in Nat
      /\ FreshId' = IF FreshId = MaxId THEN 1 ELSE FreshId + 1
  BY DEF IInv, TypeOK, AddRefused, FreshId, Inc, Ids
<1>2. /\ Sane /\ IdDistance /\ OnePlace /\ FramesHold /\ Accounted
      /\ DOMAIN map \subseteq 1..MaxId /\ added \in Nat /\ calls \in [1..added -> Nat]
  BY DEF AddRefused, IInv, TypeOK, Ids
<1>3. /\ map' = map /\ timers' = timers /\ frames' = frames /\ lost' = lost /\ Sane'
      /\ gone' = gone \cup {n} /\ added' = n /\ n \in Nat
      /\ calls'[n] = 0 /\ \A s \in 1..added : calls'[s] = calls[s]
  BY <1>2 DEF AddRefused, WithNewCall, Sane
<1>4. \A i \in DOMAIN map : map[i].serial \in 1..added
  BY <1>2 DEF OnePlace, Serials
<1>5. AtMostOnce'
  BY <1>2, <1>3 DEF AtMostOnce, IInv, Serials, OnePlace
<1>6. OnlyWrapOverwrites'
  BY <1>2, <1>3 DEF OnlyWrapOverwrites, IInv, TypeOK, OnePlace, Serials, AddRefused
<1>7. IdDistance'
  <2>1. SUFFICES ASSUME NEW i \in DOMAIN map
                 PROVE  \/ i + (added' - map[i].serial) + 1 = FreshId'
                        \/ i + (added' - map[i].serial) + 1 >= FreshId' + MaxId
    BY <1>3 DEF IdDistance
  <2> DEFINE s == map[i].serial
  <2>2. s \in 1..added /\ i \in 1..MaxId /\ added \in Nat /\ added' = added + 1
    BY <1>2, <1>3, <1>4
  <2>3. i + (added - s) + 1 = FreshId \/ i + (added - s) + 1 >= FreshId + MaxId
    BY <1>2 DEF IdDistance
  <2> HIDE DEF s
  <2>4. i + (added' - s) + 1 = FreshId' \/ i + (added' - s) + 1 >= FreshId' + MaxId
    BY <1>1, <2>2, <2>3
  <2> QED
    BY <2>4 DEF s
<1>8. RunningSerials' = RunningSerials
  BY <1>3 DEF RunningSerials
<1>9. OnePlace'
  BY <1>2, <1>3, <1>4, <1>8 DEF OnePlace, Serials
<1>10. FramesHold'
  BY <1>2, <1>3 DEF FramesHold, Serials
<1>11. Accounted'
  <2>1. \A s \in Serials' : calls'[s] = 0 /\ s \notin gone' \cup lost' => s \in Queued'
    BY <1>2, <1>3 DEF Accounted, Serials, Queued
  <2>2. \A i \in DOMAIN map : calls'[map[i].serial] = calls[map[i].serial]
    BY <1>3, <1>4
  <2>3. timers' = {map'[i].serial :
                    i \in {j \in DOMAIN map' : map'[j].timed /\ calls'[map'[j].serial] = 0}}
    BY <1>2, <1>3, <2>2 DEF Accounted
  <2> QED
    BY <2>1, <2>3 DEF Accounted
<1> QED
  BY <1>5, <1>6, <1>7, <1>9, <1>10, <1>11 DEF IInv

\* Calling the callback of a record that is not running, with its watcher
\* stopped, keeps the inductive invariant: ksnCQueExec and cq_timer_cb.
LEMMA CallIInv ==
    ASSUME IInv, TypeOK', Sane, NEW id \in DOMAIN map, NEW type \in {0, 1},
           map[id].serial \notin RunningSerials, Call(id, type),
           timers' = timers \ {map[id].serial}, wild' = wild \/ wild' = "junk",
           UNCHANGED <<alive, nextId, map, added, gone, lost>>
    PROVE  IInv'
<1> DEFINE s == map[id].serial
           f == [id |-> id, serial |-> s, type |-> type]
<1>1. /\ IdDistance /\ OnePlace /\ FramesHold /\ Accounted
      /\ map \in [DOMAIN map -> Record] /\ DOMAIN map \subseteq Ids
      /\ frames \in Seq(Frame) /\ added \in Nat /\ calls \in [1..added -> Nat]
  BY DEF IInv, TypeOK
<1>2. s \in 1..added /\ s \notin gone \cup lost /\ calls[s] = 0
  BY <1>1 DEF OnePlace, Serials
<1>3. f \in Frame
  BY <1>1, <1>2 DEF Frame, Record
<1>4. /\ DOMAIN frames' = DOMAIN frames \cup {Len(frames) + 1}
      /\ Len(frames) + 1 \notin DOMAIN frames
      /\ \A k \in DOMAIN frames : frames'[k] = frames[k]
      /\ frames'[Len(frames) + 1] = f
  BY <1>1, <1>3, Push DEF Call
<1>5. calls'[s] = 1 /\ \A t \in 1..added : t # s => calls'[t] = calls[t]
  BY <1>1, <1>2 DEF Call
<1>6. RunningSerials' = RunningSerials \cup {s}
  BY <1>4 DEF RunningSerials
<1>7. AtMostOnce'
  BY <1>1, <1>2, <1>5 DEF AtMostOnce, IInv, Serials
<1>8. OnlyWrapOverwrites'
  BY DEF OnlyWrapOverwrites, IInv, Sane
<1>9. IdDistance'
  BY <1>1 DEF IdDistance, FreshId
<1>10. OnePlace'
  BY <1>1, <1>2, <1>5, <1>6 DEF OnePlace, Serials
<1>11. FramesHold'
  <2>1. \A k \in DOMAIN frames : frames[k].serial # s
    BY DEF RunningSerials
  <2> QED
    BY <1>1, <1>2, <1>4, <1>5, <2>1 DEF FramesHold, Serials
<1>12. Accounted'
  <2>1. \A t \in Serials' : calls'[t] = 0 /\ t \notin gone' \cup lost' => t \in Queued'
    BY <1>1, <1>5 DEF Accounted, Serials, Queued
  <2>2. \A i \in DOMAIN map : i # id => map[i].serial # s /\ map[i].serial \in 1..added
    BY <1>1 DEF OnePlace, Serials
  <2>3. timers' = {map[i].serial :
                    i \in {j \in DOMAIN map : map[j].timed /\ calls'[map[j].serial] = 0}}
    BY <1>1, <1>5, <2>2 DEF Accounted
  <2> QED
    BY <2>1, <2>3 DEF Accounted
<1> QED
  BY <1>7, <1>8, <1>9, <1>10, <1>11, <1>12 DEF IInv

\* Removing the record of the callback that returns keeps the inductive
\* invariant; if the record was overwritten, MaxId calls were added meanwhile.
LEMMA ReturnIInv ==
    ASSUME IInv, TypeOK', Return
    PROVE  IInv'
<1> DEFINE n == Len(frames)
           top == frames[n]
           same == top.id \in DOMAIN map /\ map[top.id].serial = top.serial
<1>1. /\ Sane /\ IdDistance /\ OnePlace /\ FramesHold /\ Accounted
      /\ map \in [DOMAIN map -> Record] /\ DOMAIN map \subseteq Ids
      /\ frames \in Seq(Frame) /\ frames # <<>> /\ added \in Nat
  BY DEF Return, IInv, TypeOK
<1>2. /\ n \in DOMAIN frames /\ DOMAIN frames' = DOMAIN frames \ {n}
      /\ \A k \in DOMAIN frames' : frames'[k] = frames[k]
  BY <1>1, Pop DEF Return
<1>3. /\ DOMAIN map' = DOMAIN map \ {top.id}
      /\ \A i \in DOMAIN map' : map'[i] = map[i]
  BY DEF Return, Without
<1>4. UNCHANGED <<alive, nextId, timers, added, calls, gone, lost>>
  BY DEF Return
<1>5. AtMostOnce'
  BY <1>4 DEF AtMostOnce, IInv, Serials
<1>6. ~same => top.serial \in lost /\ top.serial \in 1..added
  BY <1>1, <1>2 DEF FramesHold, Serials
<1>7. OnlyWrapOverwrites'
  <2>1. ~same => added > MaxId
    BY <1>1, <1>6, CQueAssumption DEF IInv, OnlyWrapOverwrites
  <2> QED
    BY <1>4, <2>1 DEF OnlyWrapOverwrites, IInv, Return
<1>8. CASE ~same
  BY <1>5, <1>7, <1>8 DEF IInv, Accounted, Sane, Return
<1>9. CASE same
  <2>1. \A k \in DOMAIN frames' : frames[k].serial # top.serial
    BY <1>1, <1>2 DEF FramesHold
  <2>2. calls[top.serial] = 1 /\ top.serial \in 1..added
    BY <1>1, <1>2 DEF FramesHold, Serials
  <2>3. IdDistance'
    BY <1>1, <1>3, <1>4 DEF IdDistance, FreshId
  <2>4. OnePlace'
    <3>1. \A i \in DOMAIN map' : map[i].serial # top.serial
      BY <1>1, <1>3, <1>9 DEF OnePlace
    <3>2. \A t \in RunningSerials : t # top.serial => t \in RunningSerials'
      BY <1>2 DEF RunningSerials
    <3> QED
      BY <1>1, <1>3, <1>4, <3>1, <3>2 DEF OnePlace, Serials
  <2>5. FramesHold'
    <3>1. \A k \in DOMAIN frames' : frames[k].serial \in lost \/ frames[k].id # top.id
      BY <1>1, <1>2, <1>9, <2>1 DEF FramesHold
    <3> QED
      BY <1>1, <1>2, <1>3, <1>4, <3>1 DEF FramesHold, Serials
  <2>6. Accounted'
    <3>1. \A t \in Serials : calls[t] = 0 /\ t \in Queued => t \in Queued'
      BY <1>3, <1>9, <2>2 DEF Queued
    <3>2. {map'[i].serial : i \in {j \in DOMAIN map' : map'[j].timed /\ calls[map'[j].serial] = 0}}
          = {map[i].serial : i \in {j \in DOMAIN map : map[j].timed /\ calls[map[j].serial] = 0}}
      BY <1>3, <1>9, <2>2
    <3>3. \A t \in Serials' : calls'[t] = 0 /\ t \notin gone' \cup lost' => t \in Queued'
      BY <1>1, <1>4, <3>1 DEF Accounted, Serials
    <3> QED
      BY <1>1, <1>4, <3>2, <3>3 DEF Accounted
  <2> QED
    BY <1>5, <1>7, <2>3, <2>4, <2>5, <2>6 DEF IInv
<1> QED
  BY <1>8, <1>9

\* ksnCQueRemove keeps the inductive invariant.
LEMMA RemoveIInv ==
    ASSUME IInv, TypeOK', NEW id \in Ids, Remove(id)
    PROVE  IInv'
<1> DEFINE s == map[id].serial
<1>1. /\ Sane /\ IdDistance /\ OnePlace /\ FramesHold /\ Accounted
      /\ map \in [DOMAIN map -> Record] /\ id \in DOMAIN map /\ id \notin RunningIds
      /\ added \in Nat /\ calls \in [1..added -> Nat]
  BY DEF Remove, IInv, TypeOK
<1>2. /\ DOMAIN map' = DOMAIN map \ {id}
      /\ \A i \in DOMAIN map' : map'[i] = map[i] /\ map[i].serial # s
  BY <1>1 DEF Remove, Without, OnePlace
<1>3. /\ UNCHANGED <<alive, nextId, frames, added, calls, lost>>
      /\ gone' = gone \cup {s} /\ timers' = timers \ {s}
      /\ wild' # "wrap"
  BY <1>1 DEF Remove, StopWatcher, Sane
<1>4. \A k \in DOMAIN frames : frames[k].id # id /\ frames[k].serial # s
  BY <1>1 DEF RunningIds, FramesHold, OnePlace
<1>5. s \in 1..added /\ calls[s] = 0
  BY <1>1, <1>4 DEF OnePlace, Serials, RunningSerials
<1>6. AtMostOnce'
  BY <1>3, <1>5 DEF AtMostOnce, IInv, Serials
<1>7. OnlyWrapOverwrites'
  BY <1>3 DEF OnlyWrapOverwrites, IInv
<1>8. IdDistance'
  BY <1>1, <1>2, <1>3 DEF IdDistance, FreshId
<1>9. RunningSerials' = RunningSerials
  BY <1>3 DEF RunningSerials
<1>10. OnePlace'
  BY <1>1, <1>2, <1>3, <1>5, <1>9 DEF OnePlace, Serials
<1>11. FramesHold'
  BY <1>1, <1>2, <1>3, <1>4 DEF FramesHold, Serials
<1>12. Accounted'
  <2>1. \A t \in Serials' : calls'[t] = 0 /\ t \notin gone' \cup lost' => t \in Queued'
    BY <1>1, <1>2, <1>3 DEF Accounted, Serials, Queued
  <2>2. timers' = {map'[i].serial :
                    i \in {j \in DOMAIN map' : map'[j].timed /\ calls'[map'[j].serial] = 0}}
    BY <1>1, <1>2, <1>3 DEF Accounted
  <2> QED
    BY <2>1, <2>2 DEF Accounted
<1> QED
  BY <1>6, <1>7, <1>8, <1>10, <1>11, <1>12 DEF IInv

\* ksnCQueSetData keeps the inductive invariant: it changes no serial and no timer.
LEMMA SetDataIInv ==
    ASSUME IInv, TypeOK', NEW id \in Ids, NEW d \in Data, SetData(id, d)
    PROVE  IInv'
<1>1. /\ DOMAIN map' = DOMAIN map
      /\ \A i \in DOMAIN map : map'[i].serial = map[i].serial /\ map'[i].timed = map[i].timed
  BY DEF SetData, IInv, TypeOK, Record
<1>2. UNCHANGED <<alive, nextId, timers, frames, added, calls, gone, lost, wild>> /\ Sane
  BY DEF SetData
<1>3. Queued' = Queued /\ RunningSerials' = RunningSerials /\ Serials' = Serials
  BY <1>1, <1>2 DEF Queued, RunningSerials, Serials
<1>4. AtMostOnce' /\ OnlyWrapOverwrites'
  BY <1>2, <1>3 DEF AtMostOnce, OnlyWrapOverwrites, IInv
<1>5. IdDistance' /\ OnePlace' /\ FramesHold'
  BY <1>1, <1>2, <1>3 DEF IdDistance, OnePlace, FramesHold, IInv, FreshId
<1>6. Accounted'
  BY <1>1, <1>2, <1>3 DEF Accounted, IInv, Sane
<1> QED
  BY <1>4, <1>5, <1>6 DEF IInv

\* The inductive invariant is inductive.
LEMMA StepIInv == IInv /\ [Next]_vars => IInv'
<1> SUFFICES ASSUME IInv, [Next]_vars PROVE IInv'
  OBVIOUS
<1>1. TypeOK'
  BY StepTypeOK DEF IInv
<1>2. ASSUME NEW id \in Ids, Exec(id) PROVE IInv'
  <2>1. id \in DOMAIN map /\ id \notin RunningIds /\ Sane
    BY <1>2 DEF Exec
  <2>2. map[id].serial \notin RunningSerials
    BY <2>1 DEF IInv, RunningSerials, RunningIds, FramesHold, OnePlace
  <2> QED
    BY <1>1, <1>2, <2>1, <2>2, CallIInv DEF Exec, StopWatcher
<1>3. ASSUME NEW id \in Ids, TimerCb(id) PROVE IInv'
  BY <1>1, <1>3, CallIInv DEF TimerCb, RunningSerials
<1>4. CASE Destroy
  <2>1. calls' = calls /\ added' = added /\ lost' = lost /\ alive' = FALSE /\ wild' # "wrap"
    BY <1>4 DEF Destroy, Sane
  <2>2. \A s \in gone' : s \in gone \/ calls[s] = 0
    BY <1>4 DEF Destroy, IInv, OnePlace, Queued
  <2>3. AtMostOnce' /\ OnlyWrapOverwrites'
    BY <2>1, <2>2 DEF AtMostOnce, OnlyWrapOverwrites, IInv, Serials
  <2> QED
    BY <1>1, <2>1, <2>3 DEF IInv, Accounted, Sane
<1>5. CASE FreedTimerCb
  BY <1>1, <1>5 DEF FreedTimerCb, IInv, AtMostOnce, Accounted, OnlyWrapOverwrites, Sane, Serials
<1>6. CASE StopLoop \/ BreakLoop \/ UNCHANGED vars
  BY <1>1, <1>6 DEF StopLoop, BreakLoop, vars, IInv, AtMostOnce, Accounted, OnlyWrapOverwrites,
     Sane, IdDistance, OnePlace, FramesHold, FreshId, Serials, Queued, RunningSerials
<1> QED
  BY <1>1, <1>2, <1>3, <1>4, <1>5, <1>6, AddIInv, AddRefusedIInv, ReturnIInv, RemoveIInv, SetDataIInv
  DEF Next

\* The inductive invariant holds in every reachable state of the queue.
THEOREM QueueInvariant == Spec => []IInv
  BY InitIInv, StepIInv, PTL DEF Spec

\* For every id width, number of calls and nesting depth: ksnCQueExec and
\* cq_timer_cb call a callback at most once, and never that of a removed record.
THEOREM CallbackAtMostOnce == Spec => []AtMostOnce
<1>1. IInv => AtMostOnce
  BY DEF IInv
<1> QED
  BY <1>1, QueueInvariant, PTL

\* For every instance: no call is forgotten and exactly the waiting timed
\* records have an active watcher, after every operation of cque.c.
THEOREM NoCallForgotten == Spec => []Accounted
<1>1. IInv => Accounted
  BY DEF IInv
<1> QED
  BY <1>1, QueueInvariant, PTL

\* For every instance: pblMapAdd replaces a record only after MaxId later adds.
THEOREM OverwriteNeedsWrap == Spec => []OnlyWrapOverwrites
<1>1. IInv => OnlyWrapOverwrites
  BY DEF IInv
<1> QED
  BY <1>1, QueueInvariant, PTL

CallStates == {"waiting", "called", "dropped"}

\* A function over 1..n extended by one element is the appended sequence.
LEMMA Extended ==
    ASSUME NEW n \in Nat, NEW f \in [1..n -> CallStates], NEW g \in [1..(n + 1) -> CallStates],
           \A s \in 1..n : g[s] = f[s]
    PROVE  g = Append(f, g[n + 1])
<1>1. f \in Seq(CallStates) /\ Len(f) = n /\ g \in Seq(CallStates) /\ Len(g) = n + 1
  BY IsASeq
<1>2. /\ Append(f, g[n + 1]) \in Seq(CallStates)
      /\ Len(Append(f, g[n + 1])) = n + 1
      /\ \A i \in 1..n : Append(f, g[n + 1])[i] = f[i]
      /\ Append(f, g[n + 1])[n + 1] = g[n + 1]
  BY <1>1, AppendProperties
<1>3. \A i \in 1..Len(g) : g[i] = Append(f, g[n + 1])[i]
  BY <1>1, <1>2
<1> QED
  BY <1>1, <1>2, <1>3, SeqEqual

\* A step that hands in no call and makes none only drops waiting calls.
LEMMA QuietStepDrops ==
    ASSUME IInv, IInv', added' = added, calls' = calls, Queued' \subseteq Queued
    PROVE  OneShot!Drop
<1> DEFINE D == OneShot!Waiting \ Queued'
<1>1. CallState' = OneShot!Dropping(D)
  BY DEF OneShot!Dropping, OneShot!Waiting, CallState, Serials, IInv, TypeOK
<1>2. D \in SUBSET OneShot!Waiting
  OBVIOUS
<1> QED
  BY <1>1, <1>2 DEF OneShot!Drop

\* Calling the callback of a waiting record makes that call.
LEMMA CallStepMakes ==
    ASSUME IInv, IInv', NEW id \in DOMAIN map, NEW type \in {0, 1}, Call(id, type),
           Sane, map[id].serial \notin RunningSerials, added' = added, map' = map
    PROVE  OneShot!Make
<1> DEFINE s == map[id].serial
<1>1. s \in 1..added /\ calls[s] = 0 /\ s \in Queued /\ Queued' = Queued /\ added \in Nat
  BY DEF IInv, OnePlace, Serials, Queued, TypeOK
<1>2. calls \in [1..added -> Nat] /\ calls' \in [1..added -> Nat]
  BY DEF IInv, TypeOK
<1>3. calls'[s] = 1 /\ \A t \in 1..added : t # s => calls'[t] = calls[t]
  BY <1>1, <1>2 DEF Call
<1>4. s \in OneShot!Waiting
  BY <1>1 DEF OneShot!Waiting, CallState, Serials
<1>5. CallState' = [CallState EXCEPT ![s] = "called"]
  <2>1. Serials' = Serials /\ Serials = 1..added
    BY DEF Serials
  <2>2. ASSUME NEW t \in 1..added
        PROVE  (IF calls'[t] > 0 THEN "called" ELSE IF t \in Queued' THEN "waiting" ELSE "dropped")
               = IF t = s THEN "called" ELSE CallState[t]
    BY <1>1, <1>3, <2>1 DEF CallState
  <2> QED
    BY <2>1, <2>2 DEF CallState
<1> QED
  BY <1>4, <1>5 DEF OneShot!Make

\* A step that hands in the next call and drops at most one waiting one.
LEMMA AddStepIssues ==
    ASSUME IInv, IInv', added' = added + 1, calls' = WithNewCall, NEW D,
           D \in SUBSET OneShot!Waiting, \A s, t \in D : s = t,
           \A s \in Serials : calls[s] = 0 => (s \in Queued' <=> s \in Queued \ D)
    PROVE  OneShot!Issue
<1> DEFINE f == OneShot!Dropping(D)
           g == CallState'
           n == added
<1>1. n \in Nat /\ calls \in [1..n -> Nat] /\ Serials = 1..n /\ Serials' = 1..(n + 1)
  BY DEF IInv, TypeOK, Serials
<1>2. calls'[n + 1] = 0 /\ \A s \in 1..n : calls'[s] = calls[s]
  BY <1>1 DEF WithNewCall
<1>3. f \in [1..n -> CallStates]
  BY <1>1 DEF OneShot!Dropping, CallState, CallStates
<1>4. g \in [1..(n + 1) -> CallStates]
  BY <1>1 DEF CallState, CallStates
<1>5. \A s \in 1..n : g[s] = f[s]
  <2>1. SUFFICES ASSUME NEW s \in 1..n PROVE g[s] = f[s]
    OBVIOUS
  <2>2. /\ g[s] = IF calls[s] > 0 THEN "called" ELSE IF s \in Queued' THEN "waiting" ELSE "dropped"
        /\ CallState[s] = IF calls[s] > 0 THEN "called"
                          ELSE IF s \in Queued THEN "waiting" ELSE "dropped"
    BY <1>1, <1>2 DEF CallState
  <2>3. DOMAIN CallState = 1..n /\ f[s] = IF s \in D THEN "dropped" ELSE CallState[s]
    BY <1>1 DEF OneShot!Dropping, CallState
  <2>4. s \in D => CallState[s] = "waiting"
    BY DEF OneShot!Waiting
  <2> QED
    BY <1>1, <2>2, <2>3, <2>4
<1>6. g[n + 1] \in {"waiting", "dropped"}
  BY <1>1, <1>2 DEF CallState
<1>7. CallState' = Append(OneShot!Dropping(D), g[n + 1])
  BY <1>1, <1>3, <1>4, <1>5, Extended
<1> QED
  BY <1>6, <1>7 DEF OneShot!Issue

\* Every step of the queue is a step, or a stutter, of one-shot calls.
LEMMA StepImplements == IInv /\ IInv' /\ [Next]_vars => [OneShot!Next]_CallState
<1> SUFFICES ASSUME IInv, IInv', [Next]_vars
             PROVE  OneShot!Issue \/ OneShot!Make \/ OneShot!Drop
  BY DEF OneShot!Next
<1>1. ASSUME NEW timed \in BOOLEAN, NEW junk \in BOOLEAN, NEW d \in Data, Add(timed, junk, d)
      PROVE  OneShot!Issue
  <2> DEFINE id == FreshId
             D == IF id \in DOMAIN map /\ calls[map[id].serial] = 0 THEN {map[id].serial} ELSE {}
  <2>1. OnePlace /\ added \in Nat /\ added' = added + 1 /\ calls' = WithNewCall
    BY <1>1 DEF Add, IInv, TypeOK
  <2>2. /\ DOMAIN map' = DOMAIN map \cup {id} /\ map'[id].serial = added + 1
        /\ \A i \in DOMAIN map : i # id => map'[i] = map[i]
    BY <1>1 DEF Add
  <2>3. D \in SUBSET OneShot!Waiting /\ \A s, t \in D : s = t
    BY <2>1 DEF OneShot!Waiting, CallState, Queued, OnePlace, Serials
  <2>4. ASSUME NEW s \in Serials, calls[s] = 0
        PROVE  s \in Queued' <=> s \in Queued \ D
    <3>1. s \in Queued' => \E i \in DOMAIN map : i # id /\ map[i].serial = s
      BY <2>1, <2>2 DEF Queued, Serials
    <3>2. (\E i \in DOMAIN map : i # id /\ map[i].serial = s) => s \in Queued'
      BY <2>2 DEF Queued
    <3>3. (\E i \in DOMAIN map : i # id /\ map[i].serial = s) <=> s \in Queued \ D
      BY <2>1, <2>4 DEF Queued, OnePlace
    <3> QED
      BY <3>1, <3>2, <3>3
  <2> HIDE DEF D
  <2> QED
    BY <2>1, <2>3, <2>4, AddStepIssues
<1>2. ASSUME AddRefused PROVE OneShot!Issue
  <2> DEFINE D == {}
  <2>1. added' = added + 1 /\ calls' = WithNewCall /\ Queued' = Queued
    BY <1>2 DEF AddRefused, Queued
  <2>2. /\ D \in SUBSET OneShot!Waiting /\ \A s, t \in D : s = t
        /\ \A s \in Serials : calls[s] = 0 => (s \in Queued' <=> s \in Queued \ D)
    BY <2>1
  <2> QED
    BY <2>1, <2>2, AddStepIssues
<1>3. ASSUME NEW id \in Ids, Exec(id) PROVE OneShot!Make
  <2>1. id \in DOMAIN map /\ id \notin RunningIds /\ Sane
    BY <1>3 DEF Exec
  <2>2. map[id].serial \notin RunningSerials
    BY <2>1 DEF IInv, RunningSerials, RunningIds, FramesHold, OnePlace
  <2> QED
    BY <1>3, <2>1, <2>2, CallStepMakes DEF Exec
<1>4. ASSUME NEW id \in Ids, TimerCb(id) PROVE OneShot!Make
  BY <1>4, CallStepMakes DEF TimerCb, RunningSerials
<1>5. ASSUME Return PROVE OneShot!Drop
  BY <1>5, QuietStepDrops DEF Return, Without, Queued
<1>6. ASSUME NEW id \in Ids, Remove(id) PROVE OneShot!Drop
  BY <1>6, QuietStepDrops DEF Remove, Without, Queued
<1>7. ASSUME NEW id \in Ids, NEW d \in Data, SetData(id, d) PROVE OneShot!Drop
  <2>1. \A i \in DOMAIN map : map'[i].serial = map[i].serial
    BY <1>7 DEF SetData, IInv, TypeOK, Record
  <2>2. DOMAIN map' = DOMAIN map /\ added' = added /\ calls' = calls
    BY <1>7 DEF SetData, IInv, TypeOK
  <2> QED
    BY <2>1, <2>2, QuietStepDrops DEF Queued
<1>8. ASSUME Destroy PROVE OneShot!Drop
  BY <1>8, QuietStepDrops DEF Destroy, EmptyMap, Queued
<1>9. ASSUME FreedTimerCb \/ StopLoop \/ BreakLoop \/ UNCHANGED vars PROVE OneShot!Drop
  BY <1>9, QuietStepDrops DEF FreedTimerCb, StopLoop, BreakLoop, vars, Queued
<1> QED
  BY <1>1, <1>2, <1>3, <1>4, <1>5, <1>6, <1>7, <1>8, <1>9 DEF Next

\* The callback queue implements one-shot calls, for every instance: a call is
\* made only while it waits, and is never repeated, undone or brought back.
THEOREM QueueImplementsOneShot == Spec => ImplementsOneShot
<1>1. Init => OneShot!Init
  BY DEF Init, OneShot!Init, CallState, Serials
<1> QED
  BY <1>1, StepImplements, QueueInvariant, PTL DEF Spec, OneShot!Spec, ImplementsOneShot

=============================================================================
