------------------------- MODULE MC_MPMCQueueStrict -------------------------
(***************************************************************************)
(* The clients of MC_MPMCQueue with one history variable more: at the      *)
(* instant a consumer enters try_dequeue, ackedAtCall records the          *)
(* positions of the items still in the queue whose try_enqueue had already *)
(* returned true.  An item whose producer is between its head_ CAS and its *)
(* release-store is not counted: that enqueue overlaps the dequeue and may *)
(* take effect after it.                                                   *)
(***************************************************************************)
EXTENDS MC_MPMCQueue

VARIABLE ackedAtCall

strictVars == <<vars, ackedAtCall>>

\* Positions a producer has claimed but not yet published.
InFlight == {qpos[p] : p \in {t \in Producers :
                                  qpc[t] \in {"enq_write", "enq_publish"}}}

\* Items in the queue whose try_enqueue has returned true.
Acked == (tail .. head - 1) \ InFlight

StrictInit == Init /\ ackedAtCall = [c \in Consumers |-> {}]

StrictNext ==
    \/ \E c \in Consumers :
          ConsumerPoll(c) /\ ackedAtCall' = [ackedAtCall EXCEPT ![c] = Acked]
    \/ (\E p \in Producers : ProducerLog(p) \/ ProducerStep(p))
          /\ UNCHANGED ackedAtCall
    \/ (\E c \in Consumers : ConsumerStep(c)) /\ UNCHANGED ackedAtCall

StrictSpec == StrictInit /\ [][StrictNext]_strictVars

\* Spec 4.2 and the comment of try_dequeue: it returns false only when the
\* queue is empty.  Stated over completed calls: a try_dequeue that returns
\* false began after no item whose try_enqueue had already returned true
\* and that is still unclaimed when it returns (every such item was taken
\* by a concurrent consumer's tail_ CAS before the false return).
EmptyOnlyWhenDrained ==
    \A c \in Consumers :
        qpc[c] = "deq_empty" => \A pos \in ackedAtCall[c] : pos < tail
====
