------------------------------ MODULE JobQueue ------------------------------
(***************************************************************************)
(* One Redis stream, its consumer group and the worker processes that      *)
(* drain it: queue/mod.rs (the Redis client) and worker/main.rs            *)
(* (run_worker and process_messages).  The worker runs this loop once for  *)
(* the audit stream and once for the ingestion stream; the module is the   *)
(* loop for either of them.                                                *)
(*                                                                         *)
(* Every Redis command is a step of its own, because commands of other     *)
(* workers and the expiry of keys interleave with it, and every command    *)
(* may fail, before or after it took effect.  A job is opaque: it          *)
(* succeeds, fails for good (NonRetryable) or fails in a way that is       *)
(* retried.  Time is abstract: an entry's idle time passes the reclaim     *)
(* threshold, and keys expire, at any moment (RetryClock has the clock).   *)
(***************************************************************************)
EXTENDS Integers, FiniteSets, Sequences

CONSTANTS
  Workers,         \* worker processes sharing the consumer group
  Inputs,          \* bodies that producers publish, see Bodies
  MaxEntries,      \* bound: entries ever XADDed to the stream
  BatchSize,       \* COUNT of XREADGROUP and XAUTOCLAIM (10 in the code)
  ScanLimit,       \* pending entries one XAUTOCLAIM examines (10 * COUNT)
  MaxRetries,      \* retry_max_attempts
  MaxFaults,       \* bound: failed Redis calls and stopped workers
  CountMayExpire   \* whether a retry counter can expire between two attempts

\* What an entry carries: a job that parses, a payload that is not a job, or
\* no payload field at all.
Bodies == {"job", "malformed", "bare"}

ASSUME ConstantsAssumption ==
  /\ Inputs \subseteq Bodies
  /\ MaxEntries \in Nat /\ BatchSize \in Nat /\ ScanLimit \in Nat
  /\ MaxRetries \in Nat \ {0}
  /\ MaxFaults \in Nat
  /\ CountMayExpire \in BOOLEAN

Ids     == 1 .. MaxEntries
NoGroup == -1

VARIABLES
  stream,      \* bodies of the entries, by id
  lastId,      \* the group's last-delivered id, NoGroup before XGROUP CREATE
  origin,      \* history: lastId when the group was created
  pending,     \* the group's pending entries list
  idle,        \* pending entries whose idle time exceeds the reclaim threshold
  retryCount,  \* queue:retry-count:<stream>:<id>, 0 when absent
  retryDelay,  \* entries with a live queue:retry-delay:<stream>:<id>
  dlq,         \* entries whose payload was XADDed to the dead-letter stream
  loop,        \* worker: "down", or the call of run_worker it is at
  step,        \* worker: "idle", or the call of process_messages it is at
  batch,       \* worker: messages of the batch not yet taken
  cur,         \* worker: message being handled, 0 if none
  verdict,     \* worker: what the clean-up calls lead to
  completed,   \* history: entries whose job returned Ok
  fatal,       \* history: entries whose job returned NonRetryable
  failures,    \* history: retryable failures accounted for, up to MaxRetries
  faults       \* failed calls and stopped workers so far

redis   == <<stream, lastId, origin, pending, idle, retryCount, retryDelay, dlq>>
history == <<completed, fatal, failures>>
locals  == <<loop, step, batch, cur, verdict>>
vars    == <<redis, locals, history, faults>>

-----------------------------------------------------------------------------
\* The k smallest ids of S: Redis walks streams and pending lists in id order.
Oldest(S, k) == {i \in S : Cardinality({j \in S : j <= i}) <= k}

\* An attempt counter is only compared with MaxRetries, so it stops there.
Bump(n) == IF n < MaxRetries THEN n + 1 ELSE n

HasPayload(i) == stream[i] # "bare"

Fine  == faults' = faults
Fault == faults < MaxFaults /\ faults' = faults + 1

At(w, s)   == step[w] = s
Goto(w, s) == step' = [step EXCEPT ![w] = s]

\* The message is dealt with: the for loop goes on to the next one.
NextMessage(w) ==
  /\ Goto(w, "check")
  /\ cur' = [cur EXCEPT ![w] = 0]
  /\ verdict' = [verdict EXCEPT ![w] = "none"]

Settle(w, v) ==
  /\ verdict' = [verdict EXCEPT ![w] = v]
  /\ Goto(w, "clearCount")

Init ==
  /\ stream = <<>> /\ lastId = NoGroup /\ origin = 0
  /\ pending = {} /\ idle = {} /\ dlq = {}
  /\ retryCount = [i \in Ids |-> 0] /\ retryDelay = {}
  /\ loop = [w \in Workers |-> "down"] /\ step = [w \in Workers |-> "idle"]
  /\ batch = [w \in Workers |-> {}] /\ cur = [w \in Workers |-> 0]
  /\ verdict = [w \in Workers |-> "none"]
  /\ completed = {} /\ fatal = {} /\ failures = [i \in Ids |-> 0]
  /\ faults = 0

-----------------------------------------------------------------------------
\* A producer (the scraper, or the worker's re-ingestion scan) XADDs an entry.
Publish(b) ==
  /\ Len(stream) < MaxEntries
  /\ stream' = Append(stream, b)
  /\ UNCHANGED <<lastId, origin, pending, idle, retryCount, retryDelay, dlq>>
  /\ UNCHANGED <<locals, history, faults>>

\* Mutant: the worker starts without ensure_groups.
StartWithoutGroup(w) ==
  /\ loop[w] = "down"
  /\ loop' = [loop EXCEPT ![w] = "reclaim"]
  /\ UNCHANGED <<redis, step, batch, cur, verdict, history, faults>>

\* A worker starts: ensure_groups creates the group at "$", the end of the
\* stream, unless it exists already (BUSYGROUP).
Start(w) ==
  /\ loop[w] = "down"
  /\ \/ /\ lastId = NoGroup
        /\ lastId' = Len(stream)
        /\ origin' = Len(stream)
     \/ /\ lastId # NoGroup
        /\ UNCHANGED <<lastId, origin>>
  /\ loop' = [loop EXCEPT ![w] = "reclaim"]
  /\ UNCHANGED <<stream, pending, idle, retryCount, retryDelay, dlq>>
  /\ UNCHANGED <<step, batch, cur, verdict, history, faults>>

\* XAUTOCLAIM min-idle from 0-0 walks a prefix of the pending list and takes
\* the oldest entries that are idle for long enough.
Claimable == Oldest(Oldest(pending, ScanLimit) \cap idle, BatchSize)

\* XREADGROUP ">" delivers the next entries after the group's last-delivered id.
NextLastId ==
  IF lastId + BatchSize < Len(stream) THEN lastId + BatchSize ELSE Len(stream)
Deliverable == lastId + 1 .. NextLastId

\* The client keeps the messages with a payload and acknowledges the others;
\* `from' is the pending list the reply left.
Receive(w, S, from) ==
  /\ batch' = [batch EXCEPT ![w] = {i \in S : HasPayload(i)}]
  /\ \/ /\ Fine
        /\ pending' = from \ {i \in S : ~HasPayload(i)}
     \/ /\ Fault
        /\ \E i \in S : ~HasPayload(i)
        /\ \E lost \in SUBSET {i \in S : ~HasPayload(i)} :
             /\ lost # {}
             /\ pending' = from \ ({i \in S : ~HasPayload(i)} \ lost)

Reclaim(w) ==
  /\ loop[w] = "reclaim" /\ At(w, "idle")
  /\ Receive(w, Claimable, pending)
  /\ idle' = idle \ Claimable
  /\ IF \E i \in Claimable : HasPayload(i)
       THEN Goto(w, "check") /\ UNCHANGED loop
       ELSE loop' = [loop EXCEPT ![w] = "read"] /\ UNCHANGED step
  /\ UNCHANGED <<stream, lastId, origin, retryCount, retryDelay, dlq>>
  /\ UNCHANGED <<cur, verdict, history>>

\* The call fails: nothing is processed, though the entries may be claimed.
ReclaimFails(w) ==
  /\ loop[w] = "reclaim" /\ At(w, "idle")
  /\ Fault
  /\ idle' \in {idle, idle \ Claimable}
  /\ loop' = [loop EXCEPT ![w] = "read"]
  /\ UNCHANGED <<stream, lastId, origin, pending, retryCount, retryDelay, dlq>>
  /\ UNCHANGED <<step, batch, cur, verdict, history>>

\* Mutant: XREADGROUP with NOACK, which keeps nothing pending.
ReadNoAck(w) ==
  /\ loop[w] = "read" /\ At(w, "idle")
  /\ lastId' = NextLastId
  /\ Receive(w, Deliverable, pending)
  /\ Goto(w, "check")
  /\ UNCHANGED <<stream, origin, idle, retryCount, retryDelay, dlq>>
  /\ UNCHANGED <<loop, cur, verdict, history>>

Read(w) ==
  /\ loop[w] = "read" /\ At(w, "idle")
  /\ lastId' = NextLastId
  /\ Receive(w, Deliverable, pending \cup Deliverable)
  /\ Goto(w, "check")
  /\ UNCHANGED <<stream, origin, idle, retryCount, retryDelay, dlq>>
  /\ UNCHANGED <<loop, cur, verdict, history>>

\* The call fails: the entries may have been delivered to nobody's knowledge.
ReadFails(w) ==
  /\ loop[w] = "read" /\ At(w, "idle")
  /\ Fault
  /\ \/ UNCHANGED <<lastId, pending>>
     \/ /\ lastId' = NextLastId
        /\ pending' = pending \cup Deliverable
  /\ loop' = [loop EXCEPT ![w] = "reclaim"]
  /\ UNCHANGED <<stream, origin, idle, retryCount, retryDelay, dlq>>
  /\ UNCHANGED <<step, batch, cur, verdict, history>>

-----------------------------------------------------------------------------
\* process_messages takes the messages of the batch one by one.
First(w, i) == i \in batch[w] /\ \A j \in batch[w] : i <= j

\* The entry's retry delay has not run out: it stays pending, untouched.
Skip(w) ==
  /\ At(w, "check")
  /\ \E i \in batch[w] :
       /\ First(w, i)
       /\ i \in retryDelay
       /\ batch' = [batch EXCEPT ![w] = @ \ {i}]
  /\ UNCHANGED <<redis, loop, step, cur, verdict, history, faults>>

\* No delay, or PTTL failed: the payload is parsed, and a malformed one is on
\* its way to the dead-letter stream without touching the retry counter.
Take(w) ==
  /\ At(w, "check")
  /\ \E i \in batch[w] :
       /\ First(w, i)
       /\ (i \notin retryDelay /\ Fine) \/ Fault
       /\ batch' = [batch EXCEPT ![w] = @ \ {i}]
       /\ cur' = [cur EXCEPT ![w] = i]
       /\ \/ /\ stream[i] = "job"
             /\ Goto(w, "process")
             /\ UNCHANGED verdict
          \/ /\ stream[i] # "job"
             /\ verdict' = [verdict EXCEPT ![w] = "dead"]
             /\ Goto(w, "clearDelay")
  /\ UNCHANGED <<redis, loop, history>>

\* The batch is empty: run_worker goes on to its next call.
BatchDone(w) ==
  /\ At(w, "check")
  /\ batch[w] = {}
  /\ Goto(w, "idle")
  /\ \/ loop[w] = "reclaim" /\ loop' = [loop EXCEPT ![w] = "read"]
     \/ loop[w] = "read" /\ loop' = [loop EXCEPT ![w] = "reclaim"]
  /\ UNCHANGED <<redis, batch, cur, verdict, history, faults>>

\* The three results of process(job).
Succeed(w) ==
  /\ At(w, "process")
  /\ completed' = completed \cup {cur[w]}
  /\ Settle(w, "done")
  /\ UNCHANGED <<redis, loop, batch, cur, fatal, failures, faults>>

FailForGood(w) ==
  /\ At(w, "process")
  /\ fatal' = fatal \cup {cur[w]}
  /\ Settle(w, "dead")
  /\ UNCHANGED <<redis, loop, batch, cur, completed, failures, faults>>

FailForNow(w) ==
  /\ At(w, "process")
  /\ Goto(w, "incr")
  /\ UNCHANGED <<redis, loop, batch, cur, verdict, history, faults>>

\* Mutant: gives up one attempt early.
DecideEarly(w, attempt) ==
  IF attempt + 1 >= MaxRetries
    THEN Settle(w, "dead")
    ELSE Goto(w, "setDelay") /\ UNCHANGED verdict

\* The attempt number decides between another try and the dead-letter stream.
Decide(w, attempt) ==
  IF attempt >= MaxRetries
    THEN Settle(w, "dead")
    ELSE Goto(w, "setDelay") /\ UNCHANGED verdict

\* Mutant: the result of INCR is ignored, every attempt is the first.
IncrIgnored(w) ==
  /\ At(w, "incr")
  /\ failures' = [failures EXCEPT ![cur[w]] = Bump(@)]
  /\ Fine
  /\ retryCount' = [retryCount EXCEPT ![cur[w]] = Bump(@)]
  /\ Decide(w, 1)
  /\ UNCHANGED <<stream, lastId, origin, pending, idle, retryDelay, dlq>>
  /\ UNCHANGED <<loop, batch, cur, completed, fatal>>

Incr(w) ==
  /\ At(w, "incr")
  /\ failures' = [failures EXCEPT ![cur[w]] = Bump(@)]
  /\ \/ /\ Fine
        /\ retryCount' = [retryCount EXCEPT ![cur[w]] = Bump(@)]
        /\ Decide(w, Bump(retryCount[cur[w]]))
     \/ /\ Fault   \* INCR or PEXPIRE failed: the attempt counts as the first
        /\ \/ retryCount' = [retryCount EXCEPT ![cur[w]] = Bump(@)]
           \/ UNCHANGED retryCount
        /\ Decide(w, 1)
  /\ UNCHANGED <<stream, lastId, origin, pending, idle, retryDelay, dlq>>
  /\ UNCHANGED <<loop, batch, cur, completed, fatal>>

\* The entry is left pending; it is reclaimed once it is idle for long enough.
SetDelay(w) ==
  /\ At(w, "setDelay")
  /\ \/ Fine /\ retryDelay' = retryDelay \cup {cur[w]}
     \/ Fault /\ UNCHANGED retryDelay
  /\ NextMessage(w)
  /\ UNCHANGED <<stream, lastId, origin, pending, idle, retryCount, dlq>>
  /\ UNCHANGED <<loop, batch, history>>

ClearCount(w) ==
  /\ At(w, "clearCount")
  /\ \/ Fine /\ retryCount' = [retryCount EXCEPT ![cur[w]] = 0]
     \/ Fault /\ UNCHANGED retryCount
  /\ Goto(w, "clearDelay")
  /\ UNCHANGED <<stream, lastId, origin, pending, idle, retryDelay, dlq>>
  /\ UNCHANGED <<loop, batch, cur, verdict, history>>

ClearDelay(w) ==
  /\ At(w, "clearDelay")
  /\ \/ Fine /\ retryDelay' = retryDelay \ {cur[w]}
     \/ Fault /\ UNCHANGED retryDelay
  /\ Goto(w, IF verdict[w] = "done" THEN "ack" ELSE "deadLetter")
  /\ UNCHANGED <<stream, lastId, origin, pending, idle, retryCount, dlq>>
  /\ UNCHANGED <<loop, batch, cur, verdict, history>>

\* Mutant: the entry is acknowledged even though the XADD failed.
DeadLetterAckAnyway(w) ==
  /\ At(w, "deadLetter")
  /\ \/ Fine /\ dlq' = dlq \cup {cur[w]}
     \/ Fault /\ UNCHANGED dlq
  /\ Goto(w, "ack")
  /\ UNCHANGED <<stream, lastId, origin, pending, idle, retryCount, retryDelay>>
  /\ UNCHANGED <<loop, batch, cur, verdict, history>>

\* A failed XADD leaves the entry pending: it is not acknowledged.
DeadLetter(w) ==
  /\ At(w, "deadLetter")
  /\ \/ /\ Fine
        /\ dlq' = dlq \cup {cur[w]}
        /\ Goto(w, "ack")
        /\ UNCHANGED <<cur, verdict>>
     \/ /\ Fault
        /\ dlq' \in {dlq, dlq \cup {cur[w]}}
        /\ NextMessage(w)
  /\ UNCHANGED <<stream, lastId, origin, pending, idle, retryCount, retryDelay>>
  /\ UNCHANGED <<loop, batch, history>>

Ack(w) ==
  /\ At(w, "ack")
  /\ \/ /\ Fine
        /\ pending' = pending \ {cur[w]}
        /\ idle' = idle \ {cur[w]}
     \/ Fault /\ UNCHANGED <<pending, idle>>
  /\ NextMessage(w)
  /\ UNCHANGED <<stream, lastId, origin, retryCount, retryDelay, dlq>>
  /\ UNCHANGED <<loop, batch, history>>

\* The process is killed anywhere, or leaves the loop on ctrl_c (which it sees
\* after a reclaim and at the read).  A restart uses a new consumer name; the
\* entries of the old one stay pending.
Stop(w) ==
  /\ loop[w] # "down"
  /\ Fault
  /\ loop' = [loop EXCEPT ![w] = "down"]
  /\ step' = [step EXCEPT ![w] = "idle"]
  /\ batch' = [batch EXCEPT ![w] = {}]
  /\ cur' = [cur EXCEPT ![w] = 0]
  /\ verdict' = [verdict EXCEPT ![w] = "none"]
  /\ UNCHANGED <<redis, history>>

-----------------------------------------------------------------------------
\* Time passes in Redis.
GoIdle(i) ==
  /\ i \in pending \ idle
  /\ idle' = idle \cup {i}
  /\ UNCHANGED <<stream, lastId, origin, pending, retryCount, retryDelay, dlq>>
  /\ UNCHANGED <<locals, history, faults>>

DelayExpires(i) ==
  /\ i \in retryDelay
  /\ retryDelay' = retryDelay \ {i}
  /\ UNCHANGED <<stream, lastId, origin, pending, idle, retryCount, dlq>>
  /\ UNCHANGED <<locals, history, faults>>

CountExpires(i) ==
  /\ CountMayExpire
  /\ retryCount[i] > 0
  /\ retryCount' = [retryCount EXCEPT ![i] = 0]
  /\ UNCHANGED <<stream, lastId, origin, pending, idle, retryDelay, dlq>>
  /\ UNCHANGED <<locals, history, faults>>

WorkerStep(w) ==
  \/ Start(w)
  \/ Reclaim(w) \/ ReclaimFails(w) \/ Read(w) \/ ReadFails(w)
  \/ Skip(w) \/ Take(w) \/ BatchDone(w)
  \/ Succeed(w) \/ FailForGood(w) \/ FailForNow(w)
  \/ Incr(w) \/ SetDelay(w)
  \/ ClearCount(w) \/ ClearDelay(w) \/ DeadLetter(w) \/ Ack(w)

Next ==
  \/ \E b \in Inputs : Publish(b)
  \/ \E w \in Workers : WorkerStep(w) \/ Stop(w)
  \/ \E i \in Ids : GoIdle(i) \/ DelayExpires(i) \/ CountExpires(i)

Spec == Init /\ [][Next]_vars

\* Workers make progress (the loop has no exit but shutdown, and every call
\* returns) and are started again when they are down, which is an assumption
\* about the deployment; and time passes.
Fairness ==
  /\ \A w \in Workers : WF_vars(WorkerStep(w))
  /\ \A i \in Ids : WF_vars(GoIdle(i)) /\ WF_vars(DelayExpires(i))

FairSpec == Spec /\ Fairness

-----------------------------------------------------------------------------
\* Entries the group has taken over; those published before the group was
\* created are not among them.
Accepted == {i \in Ids : origin < i /\ i <= lastId}
Void     == {i \in DOMAIN stream : ~HasPayload(i)}

\* Type correctness of the stream and its group, of the retry keys, of the
\* workers' local variables and of the histories.
StreamOK ==
  /\ stream \in Seq(Bodies) /\ Len(stream) <= MaxEntries
  /\ lastId \in NoGroup .. MaxEntries /\ origin \in 0 .. MaxEntries
  /\ pending \subseteq Ids /\ idle \subseteq Ids /\ dlq \subseteq Ids

KeysOK ==
  retryCount \in [Ids -> 0 .. MaxRetries] /\ retryDelay \subseteq Ids

Steps == {"idle", "check", "process", "incr", "setDelay", "clearCount",
          "clearDelay", "deadLetter", "ack"}

LocalsOK ==
  /\ loop \in [Workers -> {"down", "reclaim", "read"}]
  /\ step \in [Workers -> Steps]
  /\ batch \in [Workers -> SUBSET Ids]
  /\ cur \in [Workers -> 0 .. MaxEntries]
  /\ verdict \in [Workers -> {"none", "done", "dead"}]
  /\ \A w \in Workers : step[w] \notin {"idle", "check"} => cur[w] # 0
  /\ \A w \in Workers : loop[w] # "down" => lastId # NoGroup

HistoryOK ==
  /\ completed \subseteq Ids /\ fatal \subseteq Ids
  /\ failures \in [Ids -> 0 .. MaxRetries]
  /\ faults \in 0 .. MaxFaults

TypeOK == StreamOK /\ KeysOK /\ LocalsOK /\ HistoryOK

\* No delivered job is lost: whatever calls fail, workers die or entries are
\* reclaimed by a second worker while the first still handles them, an entry
\* with a payload is pending until its job succeeded or it is dead-lettered.
NoLoss ==
  \A i \in Accepted :
    HasPayload(i) => i \in pending \/ i \in completed \/ i \in dlq

\* A job is given up only for cause: a payload that does not parse, a
\* NonRetryable error, or MaxRetries failed attempts; expired, reset or lost
\* counters never make the queue give up earlier.
DeadLetterEarned ==
  \A i \in dlq :
    \/ stream[i] = "malformed"
    \/ i \in fatal
    \/ failures[i] >= MaxRetries

\* The queue implements at-least-once handling of the accepted entries.
Promise == INSTANCE JobDelivery
  WITH void <- Void, accepted <- Accepted, open <- pending, dead <- dlq

AtLeastOnce == Promise!Spec

\* Every entry published to a group that exists is eventually delivered and
\* off the pending list: a job that always fails does not keep itself, or the
\* entries behind it, pending for ever.
Drains ==
  \A i \in Ids :
    (lastId # NoGroup /\ origin < i /\ i <= Len(stream))
      ~> (i \in Accepted \ pending)
=============================================================================
