----------------------------- MODULE RetryClock -----------------------------
(***************************************************************************)
(* The clocks behind JobQueue: how long an entry of the pending list must  *)
(* be idle before XAUTOCLAIM takes it, how long the retry delay and the    *)
(* retry counter live in Redis, how long a job runs and how long a read    *)
(* blocks.  Nothing fails here but the jobs, and what a worker does        *)
(* between two waits takes no time: the module asks what the timing alone  *)
(* does to the retry budget.  One tick is the unit of all durations.       *)
(***************************************************************************)
EXTENDS Integers, FiniteSets

CONSTANTS
  Workers,      \* worker processes
  MaxEntries,   \* bound: entries published
  BatchSize,    \* COUNT of XREADGROUP and XAUTOCLAIM
  ScanLimit,    \* pending entries one XAUTOCLAIM examines (10 * COUNT)
  MaxRetries,   \* retry_max_attempts
  BaseBackoff,  \* retry_base_backoff_ms
  Threshold,    \* reclaim_idle_threshold_ms
  PollTime,     \* poll interval: how long XREADGROUP blocks
  MaxJobTime    \* the longest a job runs

ASSUME DurationsAssumption ==
  /\ MaxEntries \in Nat /\ BatchSize \in Nat \ {0} /\ ScanLimit \in Nat \ {0}
  /\ MaxRetries \in Nat \ {0}
  /\ BaseBackoff \in Nat \ {0} /\ Threshold \in Nat \ {0}
  /\ PollTime \in Nat \ {0} /\ MaxJobTime \in Nat

Ids == 1 .. MaxEntries

VARIABLES
  published,  \* entries in the stream
  lastId,     \* the group's last-delivered id
  pending,    \* the pending entries list
  idleFor,    \* idle time of a pending entry, up to Threshold
  count,      \* the retry counter, 0 when absent
  ttl,        \* what is left of the counter's life
  delay,      \* what is left of the retry delay, 0 when absent
  dlq,        \* dead-lettered entries
  failed,     \* history: failed attempts, up to one more than MaxRetries
  at,         \* worker: "reclaim", "read", "batch" (taking messages) or "job"
  batch,      \* worker: messages not taken yet
  cur,        \* worker: message whose job runs, 0 if none
  source,     \* worker: where the batch came from
  spent       \* worker: how long the job has run, or the read has blocked

group   == <<published, lastId, pending, idleFor>>
keys    == <<count, ttl, delay>>
locals  == <<at, batch, cur, source, spent>>
vars    == <<group, keys, dlq, failed, locals>>

Oldest(S, k) == {i \in S : Cardinality({j \in S : j <= i}) <= k}
Less(n)      == IF n > 0 THEN n - 1 ELSE 0

\* 1 << min(6, n): at most six doublings.
Doubled(n)   == <<1, 2, 4, 8, 16, 32, 64>>[IF n < 6 THEN n + 1 ELSE 7]

\* Mutant: the counter's life leaves out the doublings of the backoff.
CountTtlFlat == MaxRetries * BaseBackoff * 2

\* Life of the counter: max_retries * base * 2^min(6, max_retries) * 2.
CountTtl == MaxRetries * BaseBackoff * Doubled(MaxRetries) * 2

\* Exponential backoff plus a jitter below the base, rounded up to ticks.
Backoffs(attempt) ==
  {BaseBackoff * Doubled(attempt - 1) + jitter : jitter \in 0 .. BaseBackoff}

Init ==
  /\ published = 0 /\ lastId = 0 /\ pending = {} /\ dlq = {}
  /\ idleFor = [i \in Ids |-> 0] /\ count = [i \in Ids |-> 0]
  /\ ttl = [i \in Ids |-> 0] /\ delay = [i \in Ids |-> 0]
  /\ failed = [i \in Ids |-> 0]
  /\ at = [w \in Workers |-> "reclaim"] /\ batch = [w \in Workers |-> {}]
  /\ cur = [w \in Workers |-> 0] /\ source = [w \in Workers |-> "reclaim"]
  /\ spent = [w \in Workers |-> 0]

-----------------------------------------------------------------------------
Publish ==
  /\ published < MaxEntries
  /\ published' = published + 1
  /\ UNCHANGED <<lastId, pending, idleFor, keys, dlq, failed, locals>>

\* The batch a call returned, to be worked through.
Got(w, S, call) ==
  /\ batch' = [batch EXCEPT ![w] = S]
  /\ source' = [source EXCEPT ![w] = call]
  /\ spent' = [spent EXCEPT ![w] = 0]
  /\ idleFor' = [i \in Ids |-> IF i \in S THEN 0 ELSE idleFor[i]]
  /\ at' = [at EXCEPT ![w] = "batch"]

\* Mutant: XAUTOCLAIM without an idle threshold.
ReclaimAtOnce(w) ==
  /\ at[w] = "reclaim"
  /\ Got(w, Oldest(Oldest(pending, ScanLimit), BatchSize), "reclaim")
  /\ UNCHANGED <<published, lastId, pending, keys, dlq, failed, cur>>

\* XAUTOCLAIM starts at 0-0 each time and looks at ScanLimit pending entries:
\* younger ones are out of its reach, however idle they are.
Reclaim(w) ==
  /\ at[w] = "reclaim"
  /\ Got(w, Oldest({i \in Oldest(pending, ScanLimit) : idleFor[i] >= Threshold}, BatchSize),
         "reclaim")
  /\ UNCHANGED <<published, lastId, pending, keys, dlq, failed, cur>>

New == {i \in 1 .. published : i > lastId}

\* Mutant: the group moves on by COUNT, however many entries there are.
ReadByCount(w) ==
  /\ at[w] = "read"
  /\ New # {} \/ spent[w] = PollTime
  /\ LET S == Oldest(New, BatchSize) IN
       /\ Got(w, S, "read")
       /\ lastId' = lastId + BatchSize
       /\ pending' = pending \cup S
  /\ UNCHANGED <<published, keys, dlq, failed, cur>>

\* XREADGROUP returns as soon as there is an entry, or when it has blocked for
\* the poll interval.
Read(w) ==
  /\ at[w] = "read"
  /\ New # {} \/ spent[w] = PollTime
  /\ LET S == Oldest(New, BatchSize) IN
       /\ Got(w, S, "read")
       /\ lastId' = lastId + Cardinality(S)
       /\ pending' = pending \cup S
  /\ UNCHANGED <<published, keys, dlq, failed, cur>>

First(w, i) == i \in batch[w] /\ \A j \in batch[w] : i <= j

\* A message whose retry delay still lives is skipped, else its job starts.
Take(w) ==
  /\ at[w] = "batch"
  /\ \E i \in batch[w] :
       /\ First(w, i)
       /\ batch' = [batch EXCEPT ![w] = @ \ {i}]
       /\ \/ delay[i] > 0 /\ UNCHANGED <<at, cur>>
          \/ /\ delay[i] = 0
             /\ at' = [at EXCEPT ![w] = "job"]
             /\ cur' = [cur EXCEPT ![w] = i]
  /\ UNCHANGED <<group, keys, dlq, failed, source, spent>>

BatchDone(w) ==
  /\ at[w] = "batch"
  /\ batch[w] = {}
  /\ at' = [at EXCEPT ![w] = IF source[w] = "reclaim" THEN "read" ELSE "reclaim"]
  /\ UNCHANGED <<group, keys, dlq, failed, batch, cur, source, spent>>

\* The job is over and its message dealt with.
JobOver(w) ==
  /\ at[w] = "job"
  /\ at' = [at EXCEPT ![w] = "batch"]
  /\ cur' = [cur EXCEPT ![w] = 0]
  /\ spent' = [spent EXCEPT ![w] = 0]
  /\ UNCHANGED <<batch, source, published, lastId>>

\* Mutant: the keys are deleted but the entry is not acknowledged.
CloseWithoutAck(i) ==
  /\ count' = [count EXCEPT ![i] = 0]
  /\ ttl' = [ttl EXCEPT ![i] = 0]
  /\ delay' = [delay EXCEPT ![i] = 0]
  /\ UNCHANGED <<pending, idleFor>>

\* The keys are deleted and the entry acknowledged.
CloseEntry(i) ==
  /\ count' = [count EXCEPT ![i] = 0]
  /\ ttl' = [ttl EXCEPT ![i] = 0]
  /\ delay' = [delay EXCEPT ![i] = 0]
  /\ pending' = pending \ {i}
  /\ idleFor' = [idleFor EXCEPT ![i] = 0]

Succeed(w) ==
  /\ JobOver(w)
  /\ CloseEntry(cur[w])
  /\ UNCHANGED <<dlq, failed>>

\* Mutant: one attempt too many.
RetryLaterOnceMore(i, attempt) ==
  /\ attempt <= MaxRetries
  /\ count' = [count EXCEPT ![i] = attempt]
  /\ ttl' = [ttl EXCEPT ![i] = CountTtl]
  /\ \E b \in Backoffs(attempt) : delay' = [delay EXCEPT ![i] = b]
  /\ UNCHANGED <<dlq, pending, idleFor>>

\* Another try: the counter's life starts anew, and so does the delay.
RetryLater(i, attempt) ==
  /\ attempt < MaxRetries
  /\ count' = [count EXCEPT ![i] = attempt]
  /\ ttl' = [ttl EXCEPT ![i] = CountTtl]
  /\ \E b \in Backoffs(attempt) : delay' = [delay EXCEPT ![i] = b]
  /\ UNCHANGED <<dlq, pending, idleFor>>

GiveUp(i, attempt) ==
  /\ attempt >= MaxRetries
  /\ dlq' = dlq \cup {i}
  /\ CloseEntry(i)

Fail(w) ==
  /\ JobOver(w)
  /\ LET i == cur[w] IN
       /\ failed' = [failed EXCEPT ![i] = IF @ > MaxRetries THEN @ ELSE @ + 1]
       /\ RetryLater(i, count[i] + 1) \/ GiveUp(i, count[i] + 1)

-----------------------------------------------------------------------------
\* A worker only waits inside a job or a blocked read; everything else it does
\* at once.
MayWait(w) ==
  \/ at[w] = "job" /\ spent[w] < MaxJobTime
  \/ at[w] = "read" /\ New = {} /\ spent[w] < PollTime

Tick ==
  /\ \A w \in Workers : MayWait(w)
  /\ spent' = [w \in Workers |-> spent[w] + 1]
  /\ idleFor' = [i \in Ids |->
       IF i \in pending /\ idleFor[i] < Threshold THEN idleFor[i] + 1 ELSE idleFor[i]]
  /\ ttl' = [i \in Ids |-> Less(ttl[i])]
  /\ count' = [i \in Ids |-> IF ttl[i] <= 1 THEN 0 ELSE count[i]]
  /\ delay' = [i \in Ids |-> Less(delay[i])]
  /\ UNCHANGED <<published, lastId, pending, dlq, failed, at, batch, cur, source>>

WorkerStep(w) ==
  Reclaim(w) \/ Read(w) \/ Take(w) \/ BatchDone(w) \/ Succeed(w) \/ Fail(w)

Next == Publish \/ Tick \/ \E w \in Workers : WorkerStep(w)

\* Jobs and reads end, and time goes on.
Spec == Init /\ [][Next]_vars /\ WF_vars(Tick) /\ \A w \in Workers : WF_vars(WorkerStep(w))

-----------------------------------------------------------------------------
TypeOK ==
  /\ published \in 0 .. MaxEntries /\ lastId \in 0 .. published
  /\ pending \subseteq 1 .. lastId /\ dlq \subseteq 1 .. lastId
  /\ idleFor \in [Ids -> 0 .. Threshold]
  /\ count \in [Ids -> 0 .. MaxRetries - 1]
  /\ ttl \in [Ids -> 0 .. CountTtl]
  /\ delay \in [Ids -> Nat] /\ failed \in [Ids -> 0 .. MaxRetries + 1]
  /\ at \in [Workers -> {"reclaim", "read", "batch", "job"}]
  /\ batch \in [Workers -> SUBSET Ids]
  /\ cur \in [Workers -> 0 .. MaxEntries]
  /\ source \in [Workers -> {"reclaim", "read"}]
  /\ spent \in [Workers -> Nat]

\* The counter outlives the wait for the next attempt: while an entry is being
\* retried it holds the number of attempts that failed (queue/mod.rs:252).
CounterExact == \A i \in pending : count[i] = failed[i]

\* A job that keeps failing is given up at its MaxRetries-th failure, neither
\* later nor earlier, whoever else reclaims and skips its entry in between.
AttemptsBounded ==
  \A i \in Ids : failed[i] <= MaxRetries /\ (i \in dlq => failed[i] = MaxRetries)

\* No job runs in two workers at once: a pending entry is only reclaimed when
\* its worker is gone.
OneHandler ==
  \A v, w \in Workers : v # w /\ cur[v] # 0 => cur[v] # cur[w]

\* Every delivered entry is eventually completed or given up.
Settles == \A i \in Ids : (i \in pending) ~> (i \notin pending)
=============================================================================
