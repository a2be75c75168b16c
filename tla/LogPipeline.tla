---------------------------- MODULE LogPipeline ----------------------------
(***************************************************************************)
(* One of the three asynchronous log writers of internal/db/db.go          *)
(* (requests, refreshes, account events; they differ only in the size of a *)
(* batch): a bounded channel, a consumer that collects batches and inserts *)
(* them into the log store, and Close, which ends the consumer and then    *)
(* the store.  Log entries are numbered in the order of the calls.         *)
(***************************************************************************)
EXTENDS Integers, Sequences

CONSTANTS
    LOG_BUFFER_SIZE,   \* capacity of the channel
    BatchSize,         \* entries at which a batch is inserted at once
    MaxEntries,        \* bound: Log calls
    InsertFails        \* whether an insert into an open store may fail

ASSUME SizesAssumption == LOG_BUFFER_SIZE \in Nat \ {0} /\ BatchSize \in Nat \ {0}
ASSUME MaxEntriesAssumption == MaxEntries \in Nat
ASSUME InsertFailsAssumption == InsertFails \in BOOLEAN

VARIABLES
    logged,     \* Log calls so far
    queue,      \* the channel
    batch,      \* the consumer's batch
    sink,       \* the entries in the log store, in the order of insertion
    dropped,    \* entries refused by a full channel
    lost,       \* entries of batches whose insert failed
    consumer,   \* where the consumer is
    closer      \* how far Close has got

vars == <<logged, queue, batch, sink, dropped, lost, consumer, closer>>

\* Log entries; the zero value of a receive from a closed channel is none.
Entry == Nat \ {0}

\* "flush" returns to the select, "final" ends the consumer.
TypeOK ==
    /\ logged \in Nat
    /\ queue \in Seq(Entry)
    /\ batch \in Seq(Entry)
    /\ sink \in Seq(Entry)
    /\ dropped \in Nat
    /\ lost \in Nat
    /\ consumer \in {"select", "flush", "final", "stopped"}
    /\ closer \in {"open", "draining", "closed"}

Init ==
    /\ logged = 0
    /\ queue = <<>>
    /\ batch = <<>>
    /\ sink = <<>>
    /\ dropped = 0
    /\ lost = 0
    /\ consumer = "select"
    /\ closer = "open"

-----------------------------------------------------------------------------
\* LogRequest, LogRefresh, LogEvent: never wait; a full channel drops the
\* entry.  They may be called during and after Close.
Log ==
    /\ logged < MaxEntries
    /\ logged' = logged + 1
    /\ \/ /\ Len(queue) < LOG_BUFFER_SIZE
          /\ queue' = Append(queue, logged + 1)
          /\ UNCHANGED dropped
       \/ /\ Len(queue) = LOG_BUFFER_SIZE
          /\ dropped' = dropped + 1
          /\ UNCHANGED queue
    /\ UNCHANGED <<batch, sink, lost, consumer, closer>>

\* Faulty variant: new entries go to the front of the batch.
ReceiveReversed ==
    /\ consumer = "select"
    /\ queue # <<>>
    /\ batch' = <<Head(queue)>> \o batch
    /\ queue' = Tail(queue)
    /\ consumer' = IF Len(batch) + 1 >= BatchSize THEN "flush" ELSE "select"
    /\ UNCHANGED <<logged, sink, dropped, lost, closer>>

\* The select takes the next entry; a full batch is inserted at once.
Receive ==
    /\ consumer = "select"
    /\ queue # <<>>
    /\ batch' = Append(batch, Head(queue))
    /\ queue' = Tail(queue)
    /\ consumer' = IF Len(batch) + 1 >= BatchSize THEN "flush" ELSE "select"
    /\ UNCHANGED <<logged, sink, dropped, lost, closer>>

\* Faulty variant: the ticker only inserts batches that are full.
TickFull ==
    /\ consumer = "select"
    /\ Len(batch) >= BatchSize
    /\ consumer' = "flush"
    /\ UNCHANGED <<logged, queue, batch, sink, dropped, lost, closer>>

\* The select takes the ticker; flush does nothing for an empty batch.
Tick ==
    /\ consumer = "select"
    /\ batch # <<>>
    /\ consumer' = "flush"
    /\ UNCHANGED <<logged, queue, batch, sink, dropped, lost, closer>>

\* The select takes s.done, which it may although the channel has entries.
Stop ==
    /\ consumer = "select"
    /\ closer # "open"
    /\ consumer' = IF batch = <<>> THEN "stopped" ELSE "final"
    /\ UNCHANGED <<logged, queue, batch, sink, dropped, lost, closer>>

After == IF consumer = "final" THEN "stopped" ELSE "select"

\* Faulty variant: the entries stay in the batch and are inserted again.
InsertKeeping ==
    /\ consumer \in {"flush", "final"}
    /\ closer # "closed"
    /\ sink' = sink \o batch
    /\ batch' = IF consumer = "final" THEN <<>> ELSE batch
    /\ consumer' = After
    /\ UNCHANGED <<logged, queue, dropped, lost, closer>>

\* The insert of a batch succeeds.
Insert ==
    /\ consumer \in {"flush", "final"}
    /\ closer # "closed"
    /\ sink' = sink \o batch
    /\ batch' = <<>>
    /\ consumer' = After
    /\ UNCHANGED <<logged, queue, dropped, lost, closer>>

\* The insert fails, as it must once the store is closed: the batch is lost.
InsertError ==
    /\ consumer \in {"flush", "final"}
    /\ InsertFails \/ closer = "closed"
    /\ lost' = lost + Len(batch)
    /\ batch' = <<>>
    /\ consumer' = After
    /\ UNCHANGED <<logged, queue, sink, dropped, closer>>

\* Close: close(s.done) ...
Close ==
    /\ closer = "open"
    /\ closer' = "draining"
    /\ UNCHANGED <<logged, queue, batch, sink, dropped, lost, consumer>>

\* Faulty variant: waits for the consumer for ever.
DrainedOnly ==
    /\ closer = "draining"
    /\ consumer = "stopped" /\ queue = <<>>
    /\ closer' = "closed"
    /\ UNCHANGED <<logged, queue, batch, sink, dropped, lost, consumer>>

\* ... then the wait for the consumers ends, or ten seconds do; the store is
\* closed either way.  An insert may take longer than that.
Closed ==
    /\ closer = "draining"
    /\ closer' = "closed"
    /\ UNCHANGED <<logged, queue, batch, sink, dropped, lost, consumer>>

Consume == Receive \/ Tick \/ Stop \/ Insert \/ InsertError

Next == Log \/ Consume \/ Close \/ Closed

\* The consumer's goroutine runs, its inserts end by their timeout, and the
\* select does not pass over a ready ticker, channel or s.done for ever.  A
\* started Close goes on by its timeout.
Fairness ==
    /\ WF_vars(Consume)
    /\ SF_vars(Tick)
    /\ SF_vars(Stop)
    /\ WF_vars(Closed)

Spec == Init /\ [][Next]_vars /\ Fairness

-----------------------------------------------------------------------------
(***************************************************************************)
(* Properties.                                                             *)
(***************************************************************************)

\* Memory is bounded: the channel by its capacity, the batch by its size, also
\* when the store keeps refusing inserts.
Bounded ==
    /\ Len(queue) <= LOG_BUFFER_SIZE
    /\ Len(batch) <= BatchSize
    /\ consumer = "select" => Len(batch) < BatchSize

\* Every call is accounted for: its entry was dropped by a full channel, is on
\* its way, is in the store, or was in a batch whose insert failed.
Accounted == logged = dropped + lost + Len(queue) + Len(batch) + Len(sink)

Increasing(s) == \A i, j \in DOMAIN s : i < j => s[i] < s[j]

\* The store receives entries in the order of the calls, each at most once,
\* and everything still on its way comes after them.
InOrder == Increasing(sink \o batch \o queue)

\* While the store is open, what was logged does not stay in memory: the
\* channel and the batch are emptied again and again.
Flushed == []<>(closer # "open" \/ (queue = <<>> /\ batch = <<>>))

\* A shutdown comes to its end whatever the store and the callers do, and so
\* does the consumer.
CloseEnds == (closer = "draining") ~> (closer = "closed" /\ consumer = "stopped")

\* The writer keeps the promise of LossyLog: what is held is the batch and
\* then the channel.
Abstract == INSTANCE LossyLog WITH
    Capacity <- LOG_BUFFER_SIZE, Batch <- BatchSize,
    calls <- logged, held <- batch \o queue, stored <- sink, gone <- dropped + lost

\* Every step of the writer is a step of that buffer or none of its business:
\* entries are not duplicated, reordered or taken from the middle, a refusal
\* finds the buffer full, and an insert is all or nothing.
ImplementsLossyLog == Abstract!Spec
=============================================================================
