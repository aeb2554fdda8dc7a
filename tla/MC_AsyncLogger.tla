---------------------------- MODULE MC_AsyncLogger ----------------------------
(***************************************************************************)
(* The logger pipeline of src/src/demo.cpp and benchmark.cpp: start(),     *)
(* producers that log records with `while (!logger->log(msg))              *)
(* yield();`, then stop(); the administrative thread may start and stop    *)
(* the logger up to MaxStarts times, concurrently with the producers.      *)
(* Records alternate AddOrder and Trade, as the persist-and-truncate       *)
(* scenario of the spec does.                                              *)
(***************************************************************************)
EXTENDS AsyncLogger, TLC

CONSTANTS
    MaxLogs,    \* records each producer logs
    MaxStarts   \* start() calls of the administrative thread

VARIABLES
    sent,       \* records each producer has logged successfully
    starts      \* start() calls so far

vars == <<queueVars, loggerVars, sent, starts>>

\* The message type of a producer's k-th record: A, P, A, P, ...
TypeOf(k) == IF k % 2 = 0 THEN "A" ELSE "P"

\* No thread runs once std::terminate has ended the process.
Alive == wpc # "terminated"

Init ==
    /\ LInit
    /\ sent = [p \in Producers |-> 0]
    /\ starts = 0

ProducerLog(p) ==
    /\ Alive
    /\ sent[p] < MaxLogs
    /\ Log(p, <<p, sent[p], TypeOf(sent[p])>>)
    /\ UNCHANGED <<sent, starts>>

ProducerStep(p) ==
    /\ Alive
    /\ LogStep(p)
    /\ sent' = IF qpc'[p] = "enq_ok" THEN [sent EXCEPT ![p] = @ + 1] ELSE sent
    /\ UNCHANGED starts

WorkerStep ==
    /\ \/ WorkerLoop \/ WorkerDeqStep \/ WorkerWrite \/ WorkerIdle
       \/ WorkerDrainWrite \/ WorkerExit \/ WorkerRemapFails
    /\ UNCHANGED <<sent, starts>>

AdminStart ==
    /\ Alive
    /\ starts < MaxStarts
    /\ Start
    /\ starts' = starts + 1
    /\ UNCHANGED sent

AdminStop == Alive /\ (Stop \/ StopJoined) /\ UNCHANGED <<sent, starts>>

\* The administrative thread has made its last stop() and the program
\* exits, or std::terminate has ended it.
Terminated ==
    /\ (starts = MaxStarts /\ apc = "idle" /\ wpc = "none") \/ ~Alive
    /\ UNCHANGED vars

Next ==
    \/ \E p \in Producers : ProducerLog(p) \/ ProducerStep(p)
    \/ WorkerStep
    \/ AdminStart
    \/ AdminStop
    \/ Terminated

\* The worker and producer threads keep being scheduled, and a weak CAS
\* does not fail spuriously forever; stop() goes on from join() once the
\* worker has returned.  Whether and when the admin thread calls start()
\* or stop() is left free.
Fairness ==
    /\ \A p \in Producers :
          /\ WF_vars(ProducerLog(p) \/ ProducerStep(p))
          /\ SF_vars(ProducerStep(p) /\ head' = head + 1)
    /\ WF_vars(WorkerStep)
    /\ SF_vars(Q!DeqCasOk(Worker) /\ UNCHANGED <<loggerVars, sent, starts>>)
    /\ WF_vars(StopJoined /\ UNCHANGED <<sent, starts>>)

Spec == Init /\ [][Next]_vars /\ Fairness

TypeOK ==
    /\ Q!QTypeOK
    /\ LTypeOK
    /\ sent \in [Producers -> 0 .. MaxLogs]
    /\ starts \in 0 .. MaxStarts

OnDisk(r) == r \in persisted \/ r \in Range(Records(file))

\* Every record the producers are to log.
AllRecords == {<<p, k, TypeOf(k)>> : p \in Producers, k \in 0 .. MaxLogs - 1}

\* stats.total_bytes of benchmark_parser_with_logger: msg.size(), the
\* struct's sizeof, summed over the records whose log() has returned true.
LoggedBytes == MapThenSumSet(MsgSize, {r \in AllRecords : r[2] < sent[r[1]]})

\* benchmark_parser_with_logger prints get_total_written() after stop()
\* beside stats.total_bytes: when stop() has returned and every record was
\* logged before it was called, the two agree, over all sessions.  Each
\* record is counted exactly once by flush(), whether the idle branch,
\* write_message's overflow test or stop() flushed it.
TotalWrittenMatchesLogged ==
    (apc = "idle" /\ ~running /\ owed = AllRecords) => totalWritten = LoggedBytes

\* Spec 5 (the worker loop) and 7: a record whose log() returned true while
\* the logger was running reaches the file, whether or not stop() is ever
\* called: the worker writes it and flushes once the queue runs empty.
LoggedEventuallyOnDisk ==
    \A p \in Producers, k \in 0 .. MaxLogs - 1 :
        LET r == <<p, k, TypeOf(k)>>
        IN  (running /\ r \in Acked) ~> OnDisk(r)

\* demo.cpp and benchmark.cpp retry `while (!logger->log(msg)) yield();`:
\* while the logger runs, a producer that found the queue full gets its
\* record in, because the worker keeps draining it.
RetryEventuallySucceeds ==
    \A p \in Producers :
        (running /\ qpc[p] = "enq_full") ~> (qpc[p] = "enq_ok" \/ ~running)
====
