---------------------------- MODULE AsyncLogger ----------------------------
(***************************************************************************)
(* AsyncLogger of src/include/async_logger.hpp composed with the queue it  *)
(* owns (MPMCQueue, instantiated with the producers and the one worker     *)
(* thread as its only consumer).                                           *)
(*                                                                         *)
(*   producers : log(msg) == queue_.try_enqueue(msg), retried while false  *)
(*               as demo.cpp and benchmark.cpp do;                         *)
(*   worker    : worker_loop(), one step per check of running_ and per     *)
(*               return of try_dequeue, the queue steps in between;        *)
(*   admin     : start() and stop() on one administrative thread; stop()   *)
(*               is split at join(), where it waits for the worker.        *)
(*                                                                         *)
(* The file is a sequence of segments: a record (an item logged by a       *)
(* producer) or <<Filler, n>>, n bytes that hold no record (O_DIRECT       *)
(* padding, or the zero-filled part of a truncated-up file).  Byte counts  *)
(* use the real record widths (ITCHProtocol!SizeOf); the 4 MiB buffer,     *)
(* 4 KiB alignment and 1 GiB initial mapping are the constants BufferSize, *)
(* Alignment and MmapInitialSize, scaled down so that buffer overflow,     *)
(* padding and mapping growth happen within a few records.                 *)
(*                                                                         *)
(* owed and persisted are history variables: the items whose log()         *)
(* returned true before the last stop() began, and the records of every    *)
(* file closed so far.                                                     *)
(***************************************************************************)
EXTENDS Naturals, Sequences, SequencesExt, FiniteSets, ITCHProtocol

CONSTANTS
    Mode,             \* write_mode_: "MMAP", "DIRECT" or "BUFFERED"
    Capacity,         \* QUEUE_SIZE
    Producers,        \* threads calling log()
    Worker,           \* the worker_thread_
    BufferSize,       \* BUFFER_SIZE
    Alignment,        \* ALIGNMENT
    MmapInitialSize,  \* initial_size in open_file()
    SizeWidth,        \* bits of size_t
    NoItem,
    Filler,
    WriteFaults,      \* whether write() may fail or write short
    MmapFaults        \* whether mmap() in expand_mmap may fail

ASSUME Mode \in {"MMAP", "DIRECT", "BUFFERED"}
ASSUME Worker \notin Producers
ASSUME WriteFaults \in BOOLEAN /\ MmapFaults \in BOOLEAN
ASSUME Alignment \in Nat \ {0} /\ BufferSize % Alignment = 0
ASSUME \A t \in SupportedTypes : SizeOf(t) <= BufferSize
ASSUME \A t \in SupportedTypes : SizeOf(t) <= MmapInitialSize

VARIABLES
    head, tail, seq, buf, qpc, qpos, qval, claimed, taken,  \* queue_
    szpc, szhead, szval,                                    \* queue_.size()
    running,       \* running_
    wpc,           \* worker thread: "none" (not joinable), "loop", "deq",
                   \* "drain" (in the drain loop), "exited" (returned),
                   \* "terminated" (an exception escaped it: the process
                   \* has ended)
    apc,           \* admin thread: "idle" or "joining" (inside stop())
    fdOpen,        \* fd_ >= 0
    mmapSize,      \* mmap_size_
    buffer,        \* write_buffer_[0 .. buffer_offset_): the records in it
    totalWritten,  \* total_written_
    file,          \* the file's content, a sequence of segments
    fileLen,       \* the file's length in bytes
    owed,          \* history
    persisted      \* history

Q == INSTANCE MPMCQueue WITH Consumers <- {Worker}, Observers <- {}

queueVars == <<head, tail, seq, buf, qpc, qpos, qval, claimed, taken,
               szpc, szhead, szval>>
sinkVars == <<fdOpen, mmapSize, buffer, totalWritten, file, fileLen>>
loggerVars == <<running, wpc, apc, sinkVars, owed, persisted>>

\* A record is an item <<producer, number, message type>>.
IsRecord(s) == Len(s) = 3
MsgSize(r) == GetMessageSize(r[3])
SegLen(s) == IF IsRecord(s) THEN MsgSize(s) ELSE s[2]
BytesOf(segs) == FoldLeft(LAMBDA acc, s : acc + SegLen(s), 0, segs)
Records(segs) == SelectSeq(segs, IsRecord)

BufferOffset == BytesOf(buffer)                     \* buffer_offset_

\* (bytes + ALIGNMENT - 1) & ~(ALIGNMENT - 1)
RoundUp(n) == ((n + Alignment - 1) \div Alignment) * Alignment

LInit ==
    /\ Q!QInit
    /\ running = FALSE
    /\ wpc = "none"
    /\ apc = "idle"
    /\ fdOpen = FALSE
    /\ mmapSize = 0
    /\ buffer = <<>>
    /\ totalWritten = 0
    /\ file = <<>>
    /\ fileLen = 0
    /\ owed = {}
    /\ persisted = {}

(***************************************************************************)
(* The sink, owned by the worker (and by stop() after join()).             *)
(***************************************************************************)

\* The first k bytes of a run of segments; a segment that k ends inside is
\* kept as <<s, m>>, its first m bytes (torn, if s is a record).
RECURSIVE FirstBytes(_, _)
FirstBytes(segs, k) ==
    IF k = 0 \/ segs = <<>> THEN <<>>
    ELSE IF SegLen(Head(segs)) <= k
         THEN <<Head(segs)>> \o FirstBytes(Tail(segs), k - SegLen(Head(segs)))
         ELSE << <<IF IsRecord(Head(segs)) THEN Head(segs) ELSE Filler, k>> >>

IsTorn(s) == Len(s) = 2 /\ s[1] # Filler

\* What write(fd_, buf, n) may return.  Without WriteFaults, n.  With them
\* also -1 or 0 (nothing written) and short counts; of the short counts
\* only where they end matters, so each segment boundary and one byte
\* past it stand for all of them.
WriteResults(img, n) ==
    IF WriteFaults
    THEN ({0, n} \cup {BytesOf(SubSeq(img, 1, i)) + d :
                          i \in 0 .. Len(img) - 1, d \in {0, 1}}) \cap 0 .. n
    ELSE {n}

\* ::write of n bytes of the buffer (its records, then filler up to n);
\* `if (written > 0) total_written_ += buffer_offset_`, whatever written
\* was.  The caller resets buffer_offset_ in every case.
WriteBytes(n) ==
    LET img == buffer \o (IF n > BufferOffset
                          THEN << <<Filler, n - BufferOffset>> >> ELSE <<>>)
    IN  \E k \in WriteResults(img, n) :
            /\ file' = file \o FirstBytes(img, k)
            /\ fileLen' = fileLen + k
            /\ totalWritten' = IF k > 0 THEN totalWritten + BufferOffset
                                        ELSE totalWritten

\* flush() with a non-empty buffer, DIRECT or BUFFERED: bytes_to_write is
\* buffer_offset_, rounded up to ALIGNMENT under DIRECT.
WriteOut ==
    WriteBytes(IF Mode = "DIRECT" THEN RoundUp(BufferOffset) ELSE BufferOffset)

\* Mutant: buffer_offset_ = 0 missing after the write.
FlushNoReset ==
    \/ /\ buffer = <<>>
       /\ UNCHANGED <<buffer, totalWritten, file, fileLen>>
    \/ /\ buffer # <<>>
       /\ WriteOut
       /\ UNCHANGED buffer

\* flush(): returns at once when buffer_offset_ == 0 (always so under
\* MMAP, whose records never enter the buffer).
Flush ==
    \/ /\ buffer = <<>>
       /\ UNCHANGED <<buffer, totalWritten, file, fileLen>>
    \/ /\ buffer # <<>>
       /\ WriteOut
       /\ buffer' = <<>>

\* Mutant: the expansion test dropped.
WriteMappedNoExpand(r) ==
    /\ file' = Append(file, r)
    /\ totalWritten' = totalWritten + MsgSize(r)
    /\ UNCHANGED <<buffer, mmapSize, fileLen>>

\* expand_mmap(): msync, munmap, ftruncate the file to twice mmap_size_,
\* map that much again.  One doubling, whatever the record needs.
ExpandMmap ==
    /\ mmapSize' = 2 * mmapSize
    /\ fileLen' = 2 * mmapSize

\* write_message(msg) under MMAP: expand_mmap() first when the record does
\* not fit, then copy the record to mmap_ptr_ + total_written_.
WriteMapped(r) ==
    /\ IF totalWritten + MsgSize(r) > mmapSize
         THEN ExpandMmap
         ELSE UNCHANGED <<mmapSize, fileLen>>
    /\ file' = Append(file, r)
    /\ totalWritten' = totalWritten + MsgSize(r)
    /\ UNCHANGED buffer

\* Mutant: the overflow test dropped.
WriteBufferedNoOverflowCheck(r) ==
    /\ buffer' = Append(buffer, r)
    /\ UNCHANGED <<totalWritten, file, fileLen, mmapSize>>

\* write_message(msg) under DIRECT and BUFFERED: flush() first when the
\* record would overflow BUFFER_SIZE, then serialize into the buffer.
WriteBuffered(r) ==
    /\ \/ /\ BufferOffset + MsgSize(r) <= BufferSize
          /\ buffer' = Append(buffer, r)
          /\ UNCHANGED <<totalWritten, file, fileLen>>
       \/ /\ BufferOffset + MsgSize(r) > BufferSize
          /\ WriteOut
          /\ buffer' = <<r>>
    /\ UNCHANGED mmapSize

WriteMessage(r) == IF Mode = "MMAP" THEN WriteMapped(r) ELSE WriteBuffered(r)

(***************************************************************************)
(* Producers: log(msg) is try_enqueue(msg).                                *)
(***************************************************************************)
Log(p, r) == Q!EnqCall(p, r) /\ UNCHANGED loggerVars

LogStep(p) == Q!EnqStep(p) /\ UNCHANGED loggerVars

(***************************************************************************)
(* The worker thread: worker_loop().                                       *)
(***************************************************************************)
\* while (running_.load(acquire)) { try_dequeue ... }, and once running_
\* is seen false, the drain loop's first try_dequeue.
WorkerLoop ==
    /\ wpc = "loop"
    /\ wpc' = IF running THEN "deq" ELSE "drain"
    /\ Q!DeqCall(Worker)
    /\ UNCHANGED <<running, apc, sinkVars, owed, persisted>>

WorkerDeqStep ==
    /\ wpc \in {"deq", "drain"}
    /\ Q!DeqStep(Worker)
    /\ UNCHANGED loggerVars

\* try_dequeue returned true in the main loop: write_message(msg).
WorkerWrite ==
    /\ wpc = "deq"
    /\ qpc[Worker] = "deq_ok"
    /\ WriteMessage(qval[Worker])
    /\ wpc' = "loop"
    /\ UNCHANGED <<queueVars, running, apc, fdOpen, owed, persisted>>

\* Mutant: the idle branch only yields, without flush().
WorkerIdleNoFlush ==
    /\ wpc = "deq"
    /\ qpc[Worker] = "deq_empty"
    /\ wpc' = "loop"
    /\ UNCHANGED <<queueVars, running, apc, sinkVars, owed, persisted>>

\* try_dequeue returned false in the main loop: flush(), yield.
WorkerIdle ==
    /\ wpc = "deq"
    /\ qpc[Worker] = "deq_empty"
    /\ Flush
    /\ wpc' = "loop"
    /\ UNCHANGED <<queueVars, running, apc, fdOpen, mmapSize, owed, persisted>>

\* Drain loop: write_message(msg) and try_dequeue again.
WorkerDrainWrite ==
    /\ wpc = "drain"
    /\ qpc[Worker] = "deq_ok"
    /\ WriteMessage(qval[Worker])
    /\ Q!DeqCall(Worker)
    /\ UNCHANGED <<running, wpc, apc, fdOpen, owed, persisted>>

\* write_message(msg) under MMAP, in either loop, when the record does not
\* fit and expand_mmap()'s mmap() of the doubled file fails: msync and
\* munmap are done and the file has been ftruncate'd to the new size, the
\* runtime_error leaves the thread's function and std::terminate ends the
\* process; the kernel closes fd_.  No record is copied.
WorkerRemapFails ==
    /\ MmapFaults
    /\ Mode = "MMAP"
    /\ wpc \in {"deq", "drain"}
    /\ qpc[Worker] = "deq_ok"
    /\ totalWritten + MsgSize(qval[Worker]) > mmapSize
    /\ fileLen' = 2 * mmapSize
    /\ fdOpen' = FALSE
    /\ wpc' = "terminated"
    /\ UNCHANGED <<queueVars, running, apc, mmapSize, buffer, totalWritten,
                   file, owed, persisted>>

\* Drain loop: try_dequeue returned false; worker_loop returns.
WorkerExit ==
    /\ wpc = "drain"
    /\ qpc[Worker] = "deq_empty"
    /\ wpc' = "exited"
    /\ UNCHANGED <<queueVars, running, apc, sinkVars, owed, persisted>>

(***************************************************************************)
(* The administrative thread: start() and stop().                         *)
(***************************************************************************)
\* open_file(): open with O_TRUNC (and O_DIRECT under DIRECT); under MMAP
\* ftruncate to initial_size and map that much.  total_written_ is not
\* reset, so under MMAP the first record will be copied to offset
\* total_written_ of the new file, after that many zero bytes.
OpenFile ==
    /\ fdOpen' = TRUE
    /\ IF Mode = "MMAP"
         THEN /\ mmapSize' = MmapInitialSize
              /\ fileLen' = MmapInitialSize
              /\ file' = IF totalWritten > 0
                           THEN << <<Filler, totalWritten>> >> ELSE <<>>
         ELSE /\ fileLen' = 0
              /\ file' = <<>>
              /\ UNCHANGED mmapSize

\* start(): returns when running_ is set; otherwise open_file(),
\* running_ = true and the worker thread is launched.
Start ==
    /\ apc = "idle"
    /\ ~running
    /\ OpenFile
    /\ running' = TRUE
    /\ wpc' = "loop"
    /\ UNCHANGED <<queueVars, apc, buffer, totalWritten, owed, persisted>>

\* The items whose log() has returned true: claimed by a CAS on head_ and
\* no longer between that CAS and the release-store that ends try_enqueue.
Acked ==
    {claimed[i] : i \in DOMAIN claimed} \
        {qval[p] : p \in {x \in Producers : qpc[x] \in {"enq_write", "enq_publish"}}}

\* stop(): returns when running_ is clear; otherwise running_ = false,
\* then join().
Stop ==
    /\ apc = "idle"
    /\ running
    /\ running' = FALSE
    /\ apc' = "joining"
    /\ owed' = Acked
    /\ UNCHANGED <<queueVars, wpc, sinkVars, persisted>>

\* close_file(): under MMAP msync, munmap and ftruncate(fd_,
\* total_written_); close(fd_).
CloseFile ==
    /\ IF Mode = "MMAP" THEN fileLen' = totalWritten ELSE TRUE
    /\ fdOpen' = FALSE

\* Mutant: stop() closes the file without the final flush().
StopJoinedNoFlush ==
    /\ apc = "joining"
    /\ wpc = "exited"
    /\ UNCHANGED <<buffer, totalWritten, file>>
    /\ IF Mode = "MMAP" THEN TRUE ELSE UNCHANGED fileLen
    /\ CloseFile
    /\ wpc' = "none"
    /\ apc' = "idle"
    /\ persisted' = persisted \cup Range(Records(file'))
    /\ UNCHANGED <<queueVars, running, mmapSize, owed>>

\* join() returns once worker_loop has; then flush() (under MMAP the
\* buffer is empty and it returns at once) and close_file().
StopJoined ==
    /\ apc = "joining"
    /\ wpc = "exited"
    /\ IF Mode = "MMAP"
         THEN UNCHANGED <<buffer, totalWritten, file>>
         ELSE Flush
    /\ CloseFile
    /\ wpc' = "none"
    /\ apc' = "idle"
    /\ persisted' = persisted \cup Range(Records(file'))
    /\ UNCHANGED <<queueVars, running, mmapSize, owed>>

(***************************************************************************)
(* Properties.                                                             *)
(***************************************************************************)
LTypeOK ==
    /\ running \in BOOLEAN
    /\ wpc \in {"none", "loop", "deq", "drain", "exited", "terminated"}
    /\ apc \in {"idle", "joining"}
    /\ fdOpen \in BOOLEAN
    /\ buffer \in Seq(Range(claimed))
    /\ BufferOffset <= BufferSize
    /\ totalWritten \in Nat /\ fileLen \in Nat

\* Spec 7: once stop() has returned, every record whose log() returned true
\* before stop() was called had its full image in the file when stop()
\* closed it (drained by worker_loop, flushed by stop()).  persisted
\* accumulates what each close_file found, so a record stays counted even
\* if a later start() truncates that file (open_file uses O_TRUNC).
DurableAfterStop == apc = "idle" => owed \subseteq persisted

\* Spec 6: a closed file is a bare concatenation of record images (under
\* DIRECT followed by less than ALIGNMENT bytes of filler), and its length
\* is the bytes of what it holds (close_file truncates an MMAP file to
\* total_written_).
BareConcatenation ==
    ~fdOpen =>
        /\ \/ file = Records(file)
           \/ /\ Mode = "DIRECT"
              /\ file # <<>>
              /\ Front(file) = Records(file)
              /\ ~IsRecord(Last(file)) /\ Last(file)[2] < Alignment
        /\ fileLen = BytesOf(file)

\* Every record copied into the mapping lies inside it: after write_message
\* under MMAP, total_written_ (the end of the last record) is within
\* mmap_size_, or the copy would fault.
MappedWritesInBounds ==
    (Mode = "MMAP" /\ fdOpen /\ Records(file) # <<>>) => totalWritten <= mmapSize

\* Spec 5: with a single writer thread, on-disk order equals enqueue order,
\* the order of the successful CASes on head_: the records of the file are
\* a run of consecutive claims, without gaps or repeats.
DiskOrderIsEnqueueOrder ==
    LET R == Records(file)
    IN  \E s \in 0 .. Len(claimed) - Len(R) :
            R = SubSeq(claimed, s + 1, s + Len(R))

\* Spec 7 and 4.3: the writer never partially commits a record, and
\* total_written() is the bytes durably appended.  Within a session the
\* file holds each record's full image or nothing of it, and
\* total_written_ counts exactly the records in it.  flush() discards the
\* rest of the buffer after a short write() and still adds the whole
\* buffer_offset_ to total_written_.
FlushIsAllOrNothing ==
    /\ \A i \in DOMAIN file : ~IsTorn(file[i])
    /\ totalWritten = BytesOf(Records(file))
====
