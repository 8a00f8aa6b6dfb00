-------------------------- MODULE PacketTransport --------------------------
(***************************************************************************)
(* What a peer may rely on when others send it packets of any length:      *)
(* each packet it processes is one that was sent, packets of one sender    *)
(* come in the order they were sent, none comes twice; some may be lost.   *)
(***************************************************************************)
EXTENDS Naturals, Sequences

CONSTANT Sender

VARIABLES
    origin,     \* origin[s]: the sender of the s-th packet that was sent
    processed   \* the packets processed, in this order

Init == origin = <<>> /\ processed = <<>>

Send == \E p \in Sender : origin' = Append(origin, p) /\ UNCHANGED processed

\* Packet s is processed after none of its sender's that was sent later.
Process ==
    \E s \in DOMAIN origin :
        /\ \A k \in DOMAIN processed : origin[processed[k]] = origin[s] => processed[k] < s
        /\ processed' = Append(processed, s)
        /\ UNCHANGED origin

Next == Send \/ Process

Spec == Init /\ [][Next]_<<origin, processed>>
=============================================================================
