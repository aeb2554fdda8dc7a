# TLA+ models of market-data-parser

These modules model the C++ headers under `src/include/`:

- the ITCH wire layouts and the parser;
- the lock-free MPMC queue;
- the asynchronous binary logger that drains the queue to a file.

Each definition is translated from the source lines that `PROJECT.json` ("map") names for it.

## The system and how its parts interact

| Part | Source | Role |
|---|---|---|
| Wire layouts | `itch_protocol.hpp` | Packed structs (`#pragma pack(1)`), the `MessageType` letters, `ntoh*`, `price_to_double`, `get_stock_symbol`. |
| Parser | `itch_parser.hpp` | `parse(data, length)`: dispatch on the first byte, then require `length == sizeof(struct)`, then copy the fields with byte swaps. |
| MPMC queue | `mpmc_queue.hpp` | Vyukov bounded queue. There is a sequence number per slot, and CAS on `head_` (producers) and `tail_` (consumers). `size()` returns `head_ - tail_`. |
| Async logger | `async_logger.hpp` | `log()` is `try_enqueue`. One worker thread dequeues and calls `write_message` in one of three modes: MMAP (copy into a growing mapping), DIRECT and BUFFERED (4 MiB buffer flushed by `write()`, rounded up to 4 KiB under DIRECT). `stop()` clears `running_`, joins the worker (which drains the queue), flushes and closes. |
| System utilities | `system_utils.hpp` | CPU pinning, huge pages, TSC. |
| Drivers | `demo.cpp`, `benchmark.cpp`, `test/test_parser.cpp` | Parse frames, retry `log()` while it returns false, `start()`/`stop()`. |

The parser produces records, and producers pass them to `log()`. The queue hands them to the worker. The worker sizes its writes with `get_message_size`. That is a switch of its own, which must pick the same struct, and so the same `sizeof`, that `parse` checked the frame against.

## Modules

| Module | Models | State and actions |
|---|---|---|
| `ITCHProtocol` | the struct layouts, `sizeof`, `get_message_size`, `get_stock_symbol` | Pure operators. `StructLayout` lists the field widths of each struct, and `SizeOfStruct` sums them, since the structs are packed. There are two tables from message type to struct, translated separately: `ParseCase` is the dispatch of `parse`, and `GetMessageSizeCase` is the switch of `get_message_size`. `Layout` is the layout a frame is decoded with. `StockSymbolLen` is the trailing-space loop, written as a RECURSIVE operator. |
| `ITCHParser` | `ITCHParser::parse`, the nine `parse_*` | Variables `frame` (type byte, length) and `parsed`. One action, `ParseFrame`, offers any frame of any of the 22 types or an unknown byte, with length 0..`MaxLen`. `Decode` lists, field by field, the conversion each `parse_*` applies: `ntoh16/32/64` or a plain copy. `DecodeField` gives its effect on the bytes of a field: the little-endian load, the byte swap, and the width conversions of the call and of the assignment. Values are byte sequences, because TLC's integers have 32 bits. |
| `MPMCQueue` | `try_enqueue`, `try_dequeue`, `size()` | Each thread has a program counter `qpc`. Each atomic access is one step: load head, load seq, the CAS (success or failure, including spurious failure), the slot write or read, and the release store. `claimed` and `taken` are history variables: the items in head-CAS order, and the (position, item) pairs dequeued. |
| `MC_MPMCQueue` | `test_mpmc_queue_threaded` | Producers enqueue `MaxEnq` distinct items each, retrying on full. Consumers poll. `Fifo` instantiates `BoundedFifo` under a refinement mapping:<br>- the abstract queue is `SubSeq(claimed, tail + 1, head)`, so an enqueue takes effect at its head CAS and a dequeue at its tail CAS;<br>- a consumer's abstract result is the item claimed at its position until it copies the slot, and what it copied afterwards. |
| `BoundedFifo` | the contract of the queue (spec 4.2, the comments of `try_enqueue`/`try_dequeue`) | Abstract state: `q` (the items, oldest first), `res` (whether each thread's last call returned false) and `out` (what each consumer last dequeued). `Spec` lets a call fail at any time. When a false return is allowed is checked separately in `MC_MPMCQueueStrict`. |
| `MC_MPMCQueueStrict` | the same clients | Adds the history variable `ackedAtCall`. When a consumer enters `try_dequeue`, it records which queued positions belong to a `try_enqueue` that has already returned true. |
| `MC_MPMCQueueSize` | a thread calling `size()` | Adds observer steps: the load of `head_`, then the load of `tail_`. |
| `AsyncLogger` | the whole logger, composed with `MPMCQueue` through `INSTANCE ... WITH Consumers <- {Worker}` | `running`, worker pc `wpc`, admin pc `apc`, `fdOpen`, `mmapSize`, `buffer` (the records in `write_buffer_`), `totalWritten`, and `file`. `file` is the file's content as segments: records, or filler of n bytes. `fileLen` is the file's length. `owed` and `persisted` are history variables. With `WriteFaults`, `write()` in `flush()` may return -1 or 0, or a short count. A short write leaves a torn segment `<<record, m>>`: the record's first m bytes. With `MmapFaults`, the `mmap()` in `expand_mmap` may fail. `WorkerRemapFails` is that branch of `write_message`: the file is already extended, the exception escapes the worker thread, and `std::terminate` ends the process (`wpc` = "terminated"; `MC_AsyncLogger` stops every thread then). Actions: `Log`/`LogStep` (producers); `WorkerLoop`, `WorkerDeqStep`, `WorkerWrite`, `WorkerIdle`, `WorkerDrainWrite`, `WorkerExit`, `WorkerRemapFails` (worker); `Start`, `Stop`, `StopJoined` (admin). `OpenFile`, `CloseFile`, `Flush`, `WriteMessage` and `ExpandMmap` are parts of these actions, exactly as the calls happen in the code. |
| `MC_AsyncLogger` | `demo_async_logging`, `benchmark_parser_with_logger` | Producers log up to `MaxLogs` records, alternating A and P as the demo does, and retry while `log()` is false. The admin thread starts and stops up to `MaxStarts` times. `LoggedBytes` is the benchmark's `stats.total_bytes`. After `std::terminate`, no thread takes a step (`Alive`). |
| `MC_ITCHParser` | the parser run, tests `parser_add_order`, `endian_conversion` and `stock_symbol_extraction` | Extends `ITCHParser`. `FieldsRoundTrip` decodes every field of an accepted frame from a wire sample with distinct bytes and compares it with the sample. `AddOrderEncode`, `TradeEncode` and `ExecuteOrderEncode` list the `hton*` conversions of the demo and benchmark frame generators. `GeneratedFramesRoundTrip` encodes a value sample with them, decodes it with `Decode`, and compares the result with the sample. Whenever `parse` has returned an A, P or R record, it checks `GetStockSymbol` against a reference definition (the longest prefix not ending in a space) on every 8-character stock field over {A, space}. |

## Runs

| Run | Expect | What it shows |
|---|---|---|
| `queue_fifo` | pass | 2 producers and 2 consumers on a 2-slot queue (wrap-around happens). It checks:<br>- the queue implements `BoundedFifo!Spec` (`RefinesBoundedFifo`);<br>- every dequeue returns the item claimed at that position, exactly once;<br>- no two threads are ever inside one slot;<br>- under fairness, every claimed position is dequeued (`EveryEnqueuedIsDequeued`). |
| `queue_strict_failures` | violation | `try_dequeue` returns false although an item whose `try_enqueue` returned before the call began is still queued (`EmptyOnlyWhenDrained`). In the trace, producer p1 holds position 0 unpublished. Producer p2 then publishes position 1 and returns. A consumer that starts afterwards reports empty. p2's enqueue does not overlap the dequeue, so no choice of linearization point excuses it. |
| `queue_size` | violation | `size()` returns 2^16 - 1 for a 2-slot queue (`SizeWidth` = 16 stands for size_t's 64 bits). |
| `parser` | pass | For every frame `parse` accepts, the struct that `get_message_size`'s switch picks has the same `sizeof` as the frame's length, so the logger writes exactly the frame's bytes per record (`WriterWidthMatchesFrame`). A copy-pasted case in either switch breaks this. Every field of an accepted frame, of each of the nine types, decodes to the big-endian value on the wire (`FieldsRoundTrip`). The frames that the demo and benchmark generators build decode to the values they were given (`GeneratedFramesRoundTrip`). `get_stock_symbol` equals the reference definition (`SymbolIsEffectivePrefix`). |
| `parser_spec_widths` | violation | The spec's widths (A 36, ..., S 12) are rejected: the code's header is 13 bytes, not 11. |
| `logger_buffered` | pass | BUFFERED, one producer, two sessions. After `stop()`, every record acknowledged before it is in the file (`DurableAfterStop`), in enqueue order (`DiskOrderIsEnqueueOrder`). When `stop()` follows all logging, `get_total_written()` equals the benchmark's `stats.total_bytes` (`TotalWrittenMatchesLogged`). Under fairness, two liveness properties hold:<br>- `LoggedEventuallyOnDisk`: every record acknowledged while running reaches the file, even if `stop()` is never called;<br>- `RetryEventuallySucceeds`: a producer retrying on a full queue gets its record in while the logger runs. |
| `logger_mmap` | pass | MMAP, one session, with growth of the mapping. Every copy into the mapping stays in bounds (`MappedWritesInBounds`). |
| `logger_two_producers` | violation | With two producers, an acknowledged record is lost at `stop()`. |
| `logger_direct` | violation | DIRECT puts filler between records, not only at the end. |
| `logger_write_fault` | violation | A short `write()` in `flush()` leaves a torn record in the file, and `total_written_` counts the bytes it dropped (`FlushIsAllOrNothing`, spec 7 and 4.3). |
| `logger_remap_fault` | violation | A failing `mmap()` in `expand_mmap` ends the process (spec 7 says the writer thread). It leaves an MMAP file twice the mapped size, with zero bytes after the records (`BareConcatenation`, spec 6). |
| `logger_mmap_restart_bounds` | violation | `start()` keeps `total_written_`, so a restarted MMAP file starts with a hole as long as the previous session's output. One doubling of the mapping is then not enough, and a record is copied out of bounds. |

The findings behind the violation runs are in `PROJECT.json` ("findings"). Each property of a passing run has a mutant there too: a plausible bug in the mapped code that TLC shows the property catches.

## Bounds and why they suffice

- **Queue.** Capacity 2 with 2 producers × 2 items. Positions wrap the ring twice, so the full and empty tests and the `pos + Capacity` release are exercised in every combination. Two producers and two consumers are enough for both CAS races. Three producers take over 7 minutes and add no new kind of interleaving. Capacity 3 with the same threads also passes every property of `queue_fifo` (100,173 states, 73 s). With four items it reaches a full queue less often than capacity 2, so the run keeps capacity 2.
- **Logger byte constants.** The byte constants are scaled so that their ratios to the real record widths (38 for A, 46 for P) keep the code's branches reachable:
  - `BufferSize` 96 overflows on the third record;
  - `Alignment` 32 pads every flush;
  - `MmapInitialSize` 64 grows on the second record.
- **Logger session and producer counts.** Two sessions exercise restart. Two producers with one record each are enough for the drain loss.
- **`SizeWidth` 16.** Wrap-around happens at any width. 16 keeps the numbers readable.

## Fairness

- `queue_fifo` assumes:
  - weak fairness of every thread step: the OS scheduler keeps running each thread;
  - strong fairness of the two successful CAS actions. `compare_exchange_weak` may fail spuriously or lose to another thread, but a thread that keeps retrying is not refused forever.
- `MC_AsyncLogger` assumes:
  - weak fairness of the producer and worker threads;
  - strong fairness of their successful CAS;
  - weak fairness of `StopJoined`, so that `stop()` continues once `join()` can return.

  `start()` and `stop()` get no fairness, because the application decides whether to call them. The properties are therefore stated "while running" or with `~running` as an escape.

  Two consequences of this fairness: the strong fairness on the CAS assumes away the starvation of a thread at the CAS of `mpmc_queue.hpp:57`, so that case is not checked; and a producer that is still retrying `log()` after `stop()` spins forever, which `RetryEventuallySucceeds` excludes through its `~running` escape.

## Not modelled (yet)

- **`system_utils.hpp`.** OS and hardware wrappers with no state the program decides on.
- **`price_to_double` and the parse timestamp.** A division by 10,000 and a clock read. No property depends on them.
- **Records logged after the last `stop()`.** `log()` does not check `running_`. Such a record stays in the queue and is never written. The drivers never log after `stop()`, and no run shows this yet.
- **Failing system calls other than `write()` and the remap.**
  - `open`, `ftruncate` and `mmap` failing in `open_file` throw from `start()` before `running_` is set, so no state changes.
  - A failing `ftruncate` in `expand_mmap` is ignored. The copy then faults (SIGBUS) or not depending on page boundaries, and the model counts bytes, not pages.
  - `msync` results are ignored too.
  - A failed `open_file` has already truncated the file (`O_TRUNC`). Under MMAP, a failed `mmap` leaves a zero-filled file. `start()` throws, as spec 7 says, and the drivers do not catch the exception.
- **Concurrent `start()`/`stop()` from two threads.** The check-then-act on `running_` is not atomic. No caller makes concurrent calls, and the spec promises idempotence, not thread safety.
- **`get_queue_size()` on the logger.** It is `size()`, already shown to wrap.

## Possible extensions

1. Larger queue instances for `RefinesBoundedFifo` (capacity 4, as in the spec's fill/drain test). With the liveness properties, capacity 2 already takes about 95 s.
2. Violation runs for the records logged after the last `stop()` and for a failed `open_file`. Each finding needs a run of its own.
