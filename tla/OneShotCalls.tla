---------------------------- MODULE OneShotCalls ----------------------------
(***************************************************************************)
(* What a callback queue promises its clients, whatever its ids, map and   *)
(* timers do: a call that is handed in waits until it is made or dropped,  *)
(* calls are made one at a time, and neither is ever undone or repeated.   *)
(***************************************************************************)
EXTENDS Naturals, Sequences, FiniteSets

VARIABLE call   \* the state of each call, in the order they were handed in

Waiting == {s \in DOMAIN call : call[s] = "waiting"}

\* Calls after the ones in D have been dropped.
Dropping(D) == [s \in DOMAIN call |-> IF s \in D THEN "dropped" ELSE call[s]]

Init == call = <<>>

\* A call is handed in; it may be refused, or push one waiting call out.
Issue ==
    \E D \in SUBSET Waiting, outcome \in {"waiting", "dropped"} :
        /\ \A s, t \in D : s = t
        /\ call' = Append(Dropping(D), outcome)

\* The callback of one waiting call is called.
Make == \E s \in Waiting : call' = [call EXCEPT ![s] = "called"]

\* Waiting calls are cancelled.
Drop == \E D \in SUBSET Waiting : call' = Dropping(D)

Next == Issue \/ Make \/ Drop

Spec == Init /\ [][Next]_call
=============================================================================
