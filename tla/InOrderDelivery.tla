-------------------------- MODULE InOrderDelivery --------------------------
(***************************************************************************)
(* What an order-preserving node promises, whatever the worker threads do: *)
(* the packets of a stream leave the node in the order of their ids, none  *)
(* of them twice, and a packet leaves only when every packet before it has *)
(* left or has been announced as skipped.  OrderedNode implements it.      *)
(***************************************************************************)
EXTENDS Integers, Sequences

CONSTANT Packets    \* a set of integers

VARIABLES
    offered,    \* the packets that have been handed to the node
    skipped,    \* the packets announced as skipped
    delivered   \* the packets that left the node, in the order they did

vars == <<offered, skipped, delivered>>

Delivered == {delivered[i] : i \in 1 .. Len(delivered)}

Init ==
    /\ offered = {}
    /\ skipped = {}
    /\ delivered = <<>>

Offer(p) ==
    /\ p \notin offered
    /\ offered' = offered \union {p}
    /\ UNCHANGED <<skipped, delivered>>

Skip(p) ==
    /\ p \notin offered
    /\ skipped' = skipped \union {p}
    /\ UNCHANGED <<offered, delivered>>

Deliver(p) ==
    /\ p \in offered
    /\ p \notin Delivered
    /\ \A q \in Packets : q < p => q \in Delivered \union skipped
    /\ \A q \in Delivered : q < p
    /\ delivered' = Append(delivered, p)
    /\ UNCHANGED <<offered, skipped>>

Next == \E p \in Packets : Offer(p) \/ Skip(p) \/ Deliver(p)

Spec == Init /\ [][Next]_vars
============================================================================
