---------------------------- MODULE MC_MPMCQueue ----------------------------
(***************************************************************************)
(* The threaded queue test of src/test/test_parser.cpp                     *)
(* (mpmc_queue_threaded), generalised to several producers and consumers:  *)
(* each producer enqueues its items 0 .. MaxEnq-1 in order, retrying       *)
(* `while (!queue.try_enqueue(i)) yield();`, and each consumer calls       *)
(* try_dequeue in a loop.                                                  *)
(***************************************************************************)
EXTENDS MPMCQueue, TLC

CONSTANT MaxEnq   \* items each producer enqueues (NUM_ITEMS of the test)

ASSUME MaxEnq \in Nat \ {0}

VARIABLE sent     \* the producer's loop variable i

vars == <<queueVars, sent>>

Init ==
    /\ QInit
    /\ sent = [p \in Producers |-> 0]

\* A producer starts try_enqueue(i), first or again after a false return.
ProducerLog(p) ==
    /\ sent[p] < MaxEnq
    /\ EnqCall(p, <<p, sent[p]>>)
    /\ UNCHANGED sent

\* A producer's step inside try_enqueue; returning true advances i.
ProducerStep(p) ==
    \/ EnqPublish(p) /\ sent' = [sent EXCEPT ![p] = @ + 1]
    \/ (EnqCheck(p) \/ EnqCasOk(p) \/ EnqCasFail(p) \/ EnqWrite(p))
          /\ UNCHANGED sent

ConsumerPoll(c) == DeqCall(c) /\ UNCHANGED sent

ConsumerStep(c) == DeqStep(c) /\ UNCHANGED sent

Next ==
    \/ \E p \in Producers : ProducerLog(p) \/ ProducerStep(p)
    \/ \E c \in Consumers : ConsumerPoll(c) \/ ConsumerStep(c)

\* Threads are preemptively scheduled and keep running; a weak CAS does not
\* fail spuriously forever, hence strong fairness on the successful CAS.
Fairness ==
    /\ \A p \in Producers : /\ WF_vars(ProducerLog(p) \/ ProducerStep(p))
                            /\ SF_vars(EnqCasOk(p) /\ UNCHANGED sent)
    /\ \A c \in Consumers : /\ WF_vars(ConsumerPoll(c) \/ ConsumerStep(c))
                            /\ SF_vars(DeqCasOk(c) /\ UNCHANGED sent)

Spec == Init /\ [][Next]_vars /\ Fairness

TypeOK == QTypeOK /\ sent \in [Producers -> 0 .. MaxEnq]

\* No lost item: every position a producer's CAS on head_ won is
\* eventually copied out by some consumer polling try_dequeue.
EveryEnqueuedIsDequeued ==
    \A n \in 0 .. Cardinality(Producers) * MaxEnq - 1 :
        (head > n) ~> (\E i \in DOMAIN taken : taken[i][1] = n)

(***************************************************************************)
(* Refinement of BoundedFifo.  An enqueue takes effect at its successful   *)
(* CAS on head_ and a dequeue at its successful CAS on tail_, so the       *)
(* abstract queue is the run of claimed items from tail_ to head_.  A      *)
(* consumer's abstract result is fixed at its CAS: until it has copied the *)
(* slot it is the item claimed at its position, afterwards what it copied. *)
(***************************************************************************)
Outcome(t) ==
    CASE qpc[t] = "enq_full"  -> "full"
      [] qpc[t] = "deq_empty" -> "empty"
      [] OTHER                -> "none"

Result(c) ==
    IF qpc[c] = "deq_read" /\ qpos[c] < Len(claimed)
    THEN claimed[qpos[c] + 1]
    ELSE qval[c]

Fifo == INSTANCE BoundedFifo
            WITH q <- SubSeq(claimed, tail + 1, head),
                 res <- [t \in Threads |-> Outcome(t)],
                 out <- [c \in Consumers |-> Result(c)],
                 Items <- Producers \X (0 .. MaxEnq - 1)

\* Every successful try_enqueue and try_dequeue takes effect atomically on a
\* FIFO of at most Capacity items, and each try_dequeue returns the item at
\* the FIFO's head at that instant; a call may still return false.
RefinesBoundedFifo == Fifo!Spec

====
