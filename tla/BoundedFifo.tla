----------------------------- MODULE BoundedFifo -----------------------------
(***************************************************************************)
(* What MPMCQueue promises its callers (spec 4.2, the comments of          *)
(* try_enqueue and try_dequeue): a FIFO of at most Capacity items, each    *)
(* operation taking effect atomically at one instant.                      *)
(*                                                                         *)
(*   q       the items enqueued and not yet dequeued, oldest first;        *)
(*   res[t]  "full" or "empty" while thread t's last call has returned     *)
(*           false, "none" otherwise;                                      *)
(*   out[c]  the item consumer c's last successful dequeue returned.       *)
(*                                                                         *)
(* Spec promises that the successful calls behave as a bounded FIFO and    *)
(* lets a call fail at any time.  When a false return is allowed is stated *)
(* over completed calls in MC_MPMCQueueStrict, since a call that overlaps  *)
(* an enqueue has no single instant at which "empty" is judged.            *)
(***************************************************************************)
EXTENDS Naturals, Sequences

CONSTANTS Capacity, Producers, Consumers, Items, NoItem

VARIABLES q, res, out

fifoVars == <<q, res, out>>

Init ==
    /\ q = <<>>
    /\ res = [t \in Producers \cup Consumers |-> "none"]
    /\ out = [c \in Consumers |-> NoItem]

\* A new call by t clears the outcome of its previous one.
Invoke(t) ==
    /\ res' = [res EXCEPT ![t] = "none"]
    /\ UNCHANGED <<q, out>>

Enqueue(p, v) ==
    /\ Len(q) < Capacity
    /\ q' = Append(q, v)
    /\ UNCHANGED <<res, out>>

Dequeue(c) ==
    /\ q # <<>>
    /\ q' = Tail(q)
    /\ out' = [out EXCEPT ![c] = Head(q)]
    /\ UNCHANGED res

\* A failing call, full or empty, with no condition on q.
MayFail(t) ==
    /\ res' = [res EXCEPT ![t] = IF t \in Producers THEN "full" ELSE "empty"]
    /\ UNCHANGED <<q, out>>

Success ==
    \/ \E t \in Producers \cup Consumers : Invoke(t)
    \/ \E p \in Producers, v \in Items : Enqueue(p, v)
    \/ \E c \in Consumers : Dequeue(c)

Next == Success \/ \E t \in Producers \cup Consumers : MayFail(t)

Spec == Init /\ [][Next]_fifoVars
====
