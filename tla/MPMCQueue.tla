----------------------------- MODULE MPMCQueue -----------------------------
(***************************************************************************)
(* The bounded lock-free queue MPMCQueue<T, Capacity> of                   *)
(* src/include/mpmc_queue.hpp (Vyukov's per-slot sequence protocol).      *)
(*                                                                         *)
(* Every thread of Producers \cup Consumers runs try_enqueue or            *)
(* try_dequeue as a sequence of steps, one per access to shared memory:    *)
(* load of head_/tail_, acquire-load of sequences_[i], CAS on head_/tail_, *)
(* copy of the payload, release-store of sequences_[i].  The code orders   *)
(* every payload access by the acquire/release pair on sequences_[i], so   *)
(* interleaving these steps under sequential consistency is faithful to    *)
(* the orderings the code requests.                                        *)
(*                                                                         *)
(* qpc[t] is where thread t is inside the two methods; the values in       *)
(* Returned are the states in which t is not inside either, and say what   *)
(* the last call returned.  Positions (pos, head_, tail_, sequence         *)
(* numbers) are unbounded size_t counters; models bound them through the   *)
(* number of items the clients offer.                                      *)
(*                                                                         *)
(* claimed and taken are history variables, not state of the code:        *)
(* claimed[p+1] is the item whose producer won the head_ CAS at position   *)
(* p, taken the <<position, item>> pairs consumers copied out, in the      *)
(* order they copied them.                                                 *)
(***************************************************************************)
EXTENDS Naturals, Sequences, FiniteSets

CONSTANTS
    Capacity,   \* the template parameter Capacity
    Producers,  \* threads calling try_enqueue
    Consumers,  \* threads calling try_dequeue
    Observers,  \* threads calling size()
    SizeWidth,  \* bits of size_t
    NoItem      \* the content of a slot nothing was ever copied into

ASSUME Capacity \in Nat \ {0}
ASSUME Producers \cap Consumers = {}
ASSUME SizeWidth \in Nat \ {0}

Threads == Producers \cup Consumers

VARIABLES
    head,     \* head_: next position to enqueue at
    tail,     \* tail_: next position to dequeue from
    seq,      \* sequences_[i] for i \in 0..Capacity-1
    buf,      \* buffer_[i]
    qpc,      \* where each thread is inside try_enqueue / try_dequeue
    qpos,     \* each thread's local pos
    qval,     \* the item being enqueued, or the item dequeued into `item`
    claimed,  \* history: items in the order their head_ CAS succeeded
    taken,    \* history: <<pos, item>> copied out by dequeuers
    szpc,     \* where each observer is inside size()
    szhead,   \* the value size() loaded from head_
    szval     \* what size() returned last

queueVars == <<head, tail, seq, buf, qpc, qpos, qval, claimed, taken,
               szpc, szhead, szval>>
sizeVars == <<szpc, szhead, szval>>

Slots == 0 .. Capacity - 1

\* index = pos & (Capacity - 1); Capacity is a power of two in the code.
Slot(p) == p % Capacity

Returned == {"idle", "enq_ok", "enq_full", "deq_ok", "deq_empty"}

(***************************************************************************)
(* MPMCQueue(): head_ = tail_ = 0, sequences_[i] = i.                      *)
(***************************************************************************)
QInit ==
    /\ head = 0
    /\ tail = 0
    /\ seq = [i \in Slots |-> i]
    /\ buf = [i \in Slots |-> NoItem]
    /\ qpc = [t \in Threads |-> "idle"]
    /\ qpos = [t \in Threads |-> 0]
    /\ qval = [t \in Threads |-> NoItem]
    /\ claimed = <<>>
    /\ taken = <<>>
    /\ szpc = [o \in Observers |-> "idle"]
    /\ szhead = [o \in Observers |-> 0]
    /\ szval = [o \in Observers |-> 0]

(***************************************************************************)
(* try_enqueue(item).                                                      *)
(***************************************************************************)
\* Entry: pos = head_.load(relaxed).
EnqCall(t, v) ==
    /\ qpc[t] \in Returned
    /\ qpc' = [qpc EXCEPT ![t] = "enq_check"]
    /\ qpos' = [qpos EXCEPT ![t] = head]
    /\ qval' = [qval EXCEPT ![t] = v]
    /\ UNCHANGED <<head, tail, seq, buf, claimed, taken,
                   sizeVars>>

\* Mutant: the full test dropped, a slot still held is claimed.
EnqCheckNoFullCheck(t) ==
    LET diff == seq[Slot(qpos[t])] - qpos[t]
    IN  /\ qpc[t] = "enq_check"
        /\ \/ diff <= 0 /\ qpc' = [qpc EXCEPT ![t] = "enq_cas"]
                        /\ UNCHANGED qpos
           \/ diff > 0 /\ qpos' = [qpos EXCEPT ![t] = head]
                       /\ UNCHANGED qpc
        /\ UNCHANGED <<head, tail, seq, buf, qval, claimed, taken, sizeVars>>

\* Loop head: seq = sequences_[index].load(acquire); diff = seq - pos.
\* diff = 0: go on to the CAS; diff < 0: full, return false;
\* diff > 0: pos = head_.load(relaxed) and loop.
EnqCheck(t) ==
    LET diff == seq[Slot(qpos[t])] - qpos[t]
    IN  /\ qpc[t] = "enq_check"
        /\ \/ diff = 0 /\ qpc' = [qpc EXCEPT ![t] = "enq_cas"]
                       /\ UNCHANGED qpos
           \/ diff < 0 /\ qpc' = [qpc EXCEPT ![t] = "enq_full"]
                       /\ UNCHANGED qpos
           \/ diff > 0 /\ qpos' = [qpos EXCEPT ![t] = head]
                       /\ UNCHANGED qpc
        /\ UNCHANGED <<head, tail, seq, buf, qval, claimed, taken,
                   sizeVars>>

\* head_.compare_exchange_weak(pos, pos + 1) succeeds.
EnqCasOk(t) ==
    /\ qpc[t] = "enq_cas"
    /\ head = qpos[t]
    /\ head' = head + 1
    /\ claimed' = Append(claimed, qval[t])
    /\ qpc' = [qpc EXCEPT ![t] = "enq_write"]
    /\ UNCHANGED <<tail, seq, buf, qpos, qval, taken,
                   sizeVars>>

\* The CAS fails (head_ moved, or a spurious failure of the weak CAS):
\* pos receives the current head_ and the loop starts over.
EnqCasFail(t) ==
    /\ qpc[t] = "enq_cas"
    /\ qpos' = [qpos EXCEPT ![t] = head]
    /\ qpc' = [qpc EXCEPT ![t] = "enq_check"]
    /\ UNCHANGED <<head, tail, seq, buf, qval, claimed, taken,
                   sizeVars>>

\* buffer_[index].value = item
EnqWrite(t) ==
    /\ qpc[t] = "enq_write"
    /\ buf' = [buf EXCEPT ![Slot(qpos[t])] = qval[t]]
    /\ qpc' = [qpc EXCEPT ![t] = "enq_publish"]
    /\ UNCHANGED <<head, tail, seq, qpos, qval, claimed, taken,
                   sizeVars>>

\* Mutant: off by one in the published sequence number.
EnqPublishOffByOne(t) ==
    /\ qpc[t] = "enq_publish"
    /\ seq' = [seq EXCEPT ![Slot(qpos[t])] = qpos[t]]
    /\ qpc' = [qpc EXCEPT ![t] = "enq_ok"]
    /\ UNCHANGED <<head, tail, buf, qpos, qval, claimed, taken, sizeVars>>

\* sequences_[index].store(pos + 1, release); return true
EnqPublish(t) ==
    /\ qpc[t] = "enq_publish"
    /\ seq' = [seq EXCEPT ![Slot(qpos[t])] = qpos[t] + 1]
    /\ qpc' = [qpc EXCEPT ![t] = "enq_ok"]
    /\ UNCHANGED <<head, tail, buf, qpos, qval, claimed, taken,
                   sizeVars>>

(***************************************************************************)
(* try_dequeue(item).                                                      *)
(***************************************************************************)
\* Entry: pos = tail_.load(relaxed).
DeqCall(t) ==
    /\ qpc[t] \in Returned
    /\ qpc' = [qpc EXCEPT ![t] = "deq_check"]
    /\ qpos' = [qpos EXCEPT ![t] = tail]
    /\ UNCHANGED <<head, tail, seq, buf, qval, claimed, taken,
                   sizeVars>>

\* Mutant: the empty test dropped, an unpublished slot is claimed.
DeqCheckNoEmptyCheck(t) ==
    LET diff == seq[Slot(qpos[t])] - (qpos[t] + 1)
    IN  /\ qpc[t] = "deq_check"
        /\ \/ diff <= 0 /\ qpc' = [qpc EXCEPT ![t] = "deq_cas"]
                        /\ UNCHANGED qpos
           \/ diff > 0 /\ qpos' = [qpos EXCEPT ![t] = tail]
                       /\ UNCHANGED qpc
        /\ UNCHANGED <<head, tail, seq, buf, qval, claimed, taken, sizeVars>>

\* diff = seq - (pos + 1): 0 go on to the CAS; < 0 empty, return false;
\* > 0 reload pos from tail_.
DeqCheck(t) ==
    LET diff == seq[Slot(qpos[t])] - (qpos[t] + 1)
    IN  /\ qpc[t] = "deq_check"
        /\ \/ diff = 0 /\ qpc' = [qpc EXCEPT ![t] = "deq_cas"]
                       /\ UNCHANGED qpos
           \/ diff < 0 /\ qpc' = [qpc EXCEPT ![t] = "deq_empty"]
                       /\ UNCHANGED qpos
           \/ diff > 0 /\ qpos' = [qpos EXCEPT ![t] = tail]
                       /\ UNCHANGED qpc
        /\ UNCHANGED <<head, tail, seq, buf, qval, claimed, taken,
                   sizeVars>>

\* Mutant: tail_ advanced by a plain store instead of a CAS.
DeqCasOkBlindStore(t) ==
    /\ qpc[t] = "deq_cas"
    /\ tail' = qpos[t] + 1
    /\ qpc' = [qpc EXCEPT ![t] = "deq_read"]
    /\ UNCHANGED <<head, seq, buf, qpos, qval, claimed, taken, sizeVars>>

\* tail_.compare_exchange_weak(pos, pos + 1) succeeds.
DeqCasOk(t) ==
    /\ qpc[t] = "deq_cas"
    /\ tail = qpos[t]
    /\ tail' = tail + 1
    /\ qpc' = [qpc EXCEPT ![t] = "deq_read"]
    /\ UNCHANGED <<head, seq, buf, qpos, qval, claimed, taken,
                   sizeVars>>

DeqCasFail(t) ==
    /\ qpc[t] = "deq_cas"
    /\ qpos' = [qpos EXCEPT ![t] = tail]
    /\ qpc' = [qpc EXCEPT ![t] = "deq_check"]
    /\ UNCHANGED <<head, tail, seq, buf, qval, claimed, taken,
                   sizeVars>>

\* item = buffer_[index].value
DeqRead(t) ==
    /\ qpc[t] = "deq_read"
    /\ qval' = [qval EXCEPT ![t] = buf[Slot(qpos[t])]]
    /\ taken' = Append(taken, <<qpos[t], buf[Slot(qpos[t])]>>)
    /\ qpc' = [qpc EXCEPT ![t] = "deq_release"]
    /\ UNCHANGED <<head, tail, seq, buf, qpos, claimed,
                   sizeVars>>

\* sequences_[index].store(pos + Capacity, release); return true
DeqRelease(t) ==
    /\ qpc[t] = "deq_release"
    /\ seq' = [seq EXCEPT ![Slot(qpos[t])] = qpos[t] + Capacity]
    /\ qpc' = [qpc EXCEPT ![t] = "deq_ok"]
    /\ UNCHANGED <<head, tail, buf, qpos, qval, claimed, taken,
                   sizeVars>>

(***************************************************************************)
(* size(): head_.load(acquire), then tail_.load(acquire), return           *)
(* head - tail in size_t arithmetic.                                       *)
(***************************************************************************)
SizeLoadHead(o) ==
    /\ szpc[o] = "idle"
    /\ szhead' = [szhead EXCEPT ![o] = head]
    /\ szpc' = [szpc EXCEPT ![o] = "load_tail"]
    /\ UNCHANGED <<head, tail, seq, buf, qpc, qpos, qval, claimed, taken, szval>>

SizeLoadTail(o) ==
    /\ szpc[o] = "load_tail"
    /\ szval' = [szval EXCEPT ![o] = (szhead[o] - tail) % (2 ^ SizeWidth)]
    /\ szpc' = [szpc EXCEPT ![o] = "idle"]
    /\ UNCHANGED <<head, tail, seq, buf, qpc, qpos, qval, claimed, taken, szhead>>

\* The steps a thread takes inside a call it has already made.
EnqStep(t) ==
    \/ EnqCheck(t) \/ EnqCasOk(t) \/ EnqCasFail(t)
    \/ EnqWrite(t) \/ EnqPublish(t)

DeqStep(t) ==
    \/ DeqCheck(t) \/ DeqCasOk(t) \/ DeqCasFail(t)
    \/ DeqRead(t) \/ DeqRelease(t)

(***************************************************************************)
(* Properties.                                                             *)
(***************************************************************************)
QTypeOK ==
    /\ head \in Nat /\ tail \in Nat /\ tail <= head
    /\ seq \in [Slots -> Nat]
    /\ qpc \in [Threads -> Returned \cup
                  {"enq_check", "enq_cas", "enq_write", "enq_publish",
                   "deq_check", "deq_cas", "deq_read", "deq_release"}]
    /\ qpos \in [Threads -> Nat]
    /\ Len(claimed) = head
    /\ szpc \in [Observers -> {"idle", "load_tail"}]
    /\ szval \in [Observers -> 0 .. 2 ^ SizeWidth - 1]

\* Thread t has claimed its slot and not yet handed it back by the final
\* release-store of sequences_[index].
OwnsSlot(t) ==
    qpc[t] \in {"enq_write", "enq_publish", "deq_read", "deq_release"}

\* No torn reads or writes: the sequence protocol never lets two threads
\* (two producers, two consumers, or a producer and a consumer) be between
\* their successful CAS and their release-store on the same slot at once.
ExclusiveSlotAccess ==
    \A t1, t2 \in Threads :
        (t1 # t2 /\ OwnsSlot(t1) /\ OwnsSlot(t2))
            => Slot(qpos[t1]) # Slot(qpos[t2])

\* Exactly-once global FIFO: try_dequeue copies out each position at most
\* once, and what it copies for position p is the item of the producer
\* whose CAS on head_ won position p, even when producers publish out of
\* order and the ring has wrapped.
DequeueIsExactlyOnceFifo ==
    /\ \A i, j \in DOMAIN taken : i # j => taken[i][1] # taken[j][1]
    /\ \A i \in DOMAIN taken :
          taken[i][1] < Len(claimed) /\ taken[i][2] = claimed[taken[i][1] + 1]

\* Spec 4.2/4.3: size() (get_queue_size()) is an approximate depth of the
\* queue, so what it returns lies between 0 and Capacity.
SizeWithinCapacity == \A o \in Observers : szval[o] <= Capacity

====
