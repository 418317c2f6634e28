--------------------------- MODULE ScheduledScans ---------------------------
(***************************************************************************)
(* The two periodic tasks of a worker process (worker/main.rs): refreshing *)
(* mv_fiscal_impact (refresh_mv) and re-ingesting stale shared laws        *)
(* (ReingestionService::enqueue_stale).  Several processes run them; each  *)
(* run is guarded by pg_try_advisory_lock, a lock of the database SESSION, *)
(* while every statement takes whichever connection of the pool is idle.   *)
(* So the unlock may reach another session than the lock did.              *)
(***************************************************************************)
EXTENDS Naturals, FiniteSets

CONSTANTS
  Procs,     \* worker processes
  Conns,     \* connections of the pool of each (DB_POOL_MAX)
  Timers,    \* sets of scans whose timers may be the ones that fire
  RowCount,  \* shared laws stored in fiscal_knowledge_base
  Limit,     \* rows a scan selects at most (100)
  MaxDepth   \* bound: times a session takes a lock it already holds

ASSUME ScanAssumption ==
  /\ Timers \subseteq SUBSET {"refresh", "reingest"}
  /\ RowCount \in Nat /\ Limit \in Nat \ {0} /\ MaxDepth \in Nat \ {0}

\* refresh_mv and enqueue_stale.
Scans == {"refresh", "reingest"}

VARIABLES
  timers, \* configuration: the scans whose interval lets them run
  lock,   \* scan: the session that holds its advisory lock and how often
  stage,  \* process, scan: where the task is, see Stages
  cut,    \* process, scan: the session of its lock ended while it worked
  stale,  \* so many rows, the oldest, are older than the staleness
  batch,  \* process: rows it has selected and not yet published
  jobs    \* rows with a re-ingestion job in the queue

lockVars == <<lock, stage, cut>>
rowVars  == <<timers, stale, batch, jobs>>
vars     == <<timers, lock, stage, cut, stale, batch, jobs>>

Sessions == Procs \X Conns

\* "skipped" is "asleep" after a run that returned Ok(None).
Resting == {"asleep", "skipped"}
Working == {"locked", "publishing"}
Stages  == Resting \cup Working \cup {"ending"}

\* The rows in the order of updated_at, 1 the oldest.  Nothing moves them: only
\* an ingestion would, and that of a shared law is refused (see Refuse); so they
\* were put into the table by other means.
Rows    == 1 .. RowCount

Free    == [by |-> <<>>, depth |-> 0]

Init ==
  /\ timers \in Timers
  /\ lock = [k \in Scans |-> Free]
  /\ stage = [p \in Procs |-> [k \in Scans |-> "asleep"]]
  /\ cut = [p \in Procs |-> [k \in Scans |-> FALSE]]
  /\ stale = 0 /\ jobs = {}
  /\ batch = [p \in Procs |-> {}]

-----------------------------------------------------------------------------
\* PostgreSQL: one session owns a lock; the owner may take it again, and must
\* then release it as often.
MayTake(s, k) == lock[k].depth = 0 \/ lock[k].by = s

Taken(s, k) == [lock EXCEPT ![k] = [by |-> s, depth |-> @.depth + 1]]

\* pg_advisory_unlock answers FALSE, and does nothing, in any other session.
Released(s, k) ==
  IF lock[k].by # s THEN lock
  ELSE [lock EXCEPT ![k] = IF @.depth = 1 THEN Free ELSE [by |-> s, depth |-> @.depth - 1]]

-----------------------------------------------------------------------------
\* Mutant: the answer of pg_try_advisory_lock is not looked at.
AcquireUnchecked(p, k) ==
  /\ k \in timers /\ stage[p][k] \in Resting
  /\ \E c \in Conns : \/ /\ MayTake(<<p, c>>, k) /\ lock[k].depth < MaxDepth
                         /\ lock' = Taken(<<p, c>>, k)
                      \/ ~ MayTake(<<p, c>>, k) /\ lock' = lock
  /\ stage' = [stage EXCEPT ![p][k] = "locked"]
  /\ UNCHANGED <<cut, rowVars>>

\* The timer fired and the lock was free, or held by the very session the
\* pool handed out.
Acquire(p, k) ==
  /\ k \in timers /\ stage[p][k] \in Resting
  /\ \E c \in Conns : /\ MayTake(<<p, c>>, k) /\ lock[k].depth < MaxDepth
                      /\ lock' = Taken(<<p, c>>, k)
  /\ stage' = [stage EXCEPT ![p][k] = "locked"]
  /\ UNCHANGED <<cut, rowVars>>

\* Ok(None): the lock is held by another session.
Skip(p, k) ==
  /\ k \in timers /\ stage[p][k] \in Resting
  /\ \E c \in Conns : ~ MayTake(<<p, c>>, k)
  /\ stage' = [stage EXCEPT ![p][k] = "skipped"]
  /\ UNCHANGED <<lock, cut, rowVars>>

\* Mutant: a failed scan ends the task instead of being logged.
TryFailsForGood(p, k) ==
  /\ k \in timers /\ stage[p][k] \in Resting
  /\ stage' = [stage EXCEPT ![p][k] = "ended"]
  /\ UNCHANGED <<lock, cut, rowVars>>

\* The lock query fails (`?'): no connection, or it broke.
TryFails(p, k) ==
  /\ k \in timers /\ stage[p][k] \in Resting
  /\ stage' = [stage EXCEPT ![p][k] = "asleep"]
  /\ UNCHANGED <<lock, cut, rowVars>>

\* REFRESH MATERIALIZED VIEW CONCURRENTLY, whether or not it fails.
Refresh(p) ==
  /\ stage[p]["refresh"] = "locked"
  /\ stage' = [stage EXCEPT ![p]["refresh"] = "ending"]
  /\ UNCHANGED <<lock, cut, rowVars>>

\* The Limit oldest stale rows; a row that an ingestion is writing is locked
\* and left out (SKIP LOCKED).  Selecting does not move updated_at.
StaleRows == {r \in Rows : r <= stale}

\* Mutant: one row less than the limit.
OldestOneShort(rows) ==
  {r \in rows : Cardinality({q \in rows : q <= r}) < Limit}

Oldest(rows) == {r \in rows : Cardinality({q \in rows : q <= r}) <= Limit}

Select(p) ==
  /\ stage[p]["reingest"] = "locked"
  /\ \E locked \in SUBSET (jobs \cap StaleRows) :
       batch' = [batch EXCEPT ![p] = Oldest(StaleRows \ locked)]
  /\ stage' = [stage EXCEPT ![p]["reingest"] = "publishing"]
  /\ UNCHANGED <<timers, lock, cut, stale, jobs>>

\* One XADD for each selected row, in the order in which the UPDATE returned
\* them, which is any.
Publish(p, r) ==
  /\ stage[p]["reingest"] = "publishing"
  /\ r \in batch[p]
  /\ jobs' = jobs \cup {r}
  /\ batch' = [batch EXCEPT ![p] = @ \ {r}]
  /\ UNCHANGED <<lockVars, timers, stale>>

AllPublished(p) ==
  /\ stage[p]["reingest"] = "publishing"
  /\ batch[p] = {}
  /\ stage' = [stage EXCEPT ![p]["reingest"] = "ending"]
  /\ UNCHANGED <<lock, cut, rowVars>>

\* The UPDATE or an XADD fails (`?'): the rows not yet published are dropped,
\* the lock is released like after a complete scan.
ScanFails(p) ==
  /\ stage[p]["reingest"] \in Working
  /\ stage' = [stage EXCEPT ![p]["reingest"] = "ending"]
  /\ batch' = [batch EXCEPT ![p] = {}]
  /\ UNCHANGED <<timers, lock, cut, stale, jobs>>

\* pg_advisory_unlock, in the session of whichever connection is idle; what
\* it answers is ignored.
Unlock(p, k) ==
  /\ stage[p][k] = "ending"
  /\ \E c \in Conns : lock' = Released(<<p, c>>, k)
  /\ stage' = [stage EXCEPT ![p][k] = "asleep"]
  /\ cut' = [cut EXCEPT ![p][k] = FALSE]
  /\ UNCHANGED rowVars

\* The unlock query gets no connection in time, or fails: ignored too.
UnlockFails(p, k) ==
  /\ stage[p][k] = "ending"
  /\ stage' = [stage EXCEPT ![p][k] = "asleep"]
  /\ cut' = [cut EXCEPT ![p][k] = FALSE]
  /\ UNCHANGED <<lock, rowVars>>

-----------------------------------------------------------------------------
\* The pool closes a connection that is too old or idle too long, or the
\* server or the network ends the session: its locks are free.
Dropped(sessions) ==
  [k \in Scans |-> IF lock[k].by \in sessions THEN Free ELSE lock[k]]

Close(p, c) ==
  /\ \E k \in Scans : lock[k].by = <<p, c>>
  /\ lock' = Dropped({<<p, c>>})
  /\ cut' = [cut EXCEPT ![p] = [k \in Scans |->
               @[k] \/ (lock[k].by = <<p, c>> /\ stage[p][k] \in Working)]]
  /\ UNCHANGED <<stage, rowVars>>

\* The process ends, and is started again.
Restart(p) ==
  /\ lock' = Dropped({p} \X Conns)
  /\ stage' = [stage EXCEPT ![p] = [k \in Scans |-> "asleep"]]
  /\ cut' = [cut EXCEPT ![p] = [k \in Scans |-> FALSE]]
  /\ batch' = [batch EXCEPT ![p] = {}]
  /\ UNCHANGED <<timers, stale, jobs>>

\* Time passes.
Age ==
  /\ stale < RowCount /\ stale' = stale + 1
  /\ UNCHANGED <<lockVars, timers, batch, jobs>>

\* A worker takes the job.  The database refuses it like every job of a shared
\* law (KnowledgeBase!Refused): the transaction is rolled back, updated_at
\* included, and after the retries the job goes to the dead-letter stream.
Refuse(r) ==
  /\ r \in jobs /\ jobs' = jobs \ {r}
  /\ UNCHANGED <<lockVars, timers, stale, batch>>

-----------------------------------------------------------------------------
TaskStep(p, k) ==
  Acquire(p, k) \/ Skip(p, k) \/ TryFails(p, k) \/ Unlock(p, k) \/ UnlockFails(p, k)

Work(p) ==
  \/ Refresh(p) \/ Select(p) \/ AllPublished(p) \/ ScanFails(p)
  \/ \E r \in Rows : Publish(p, r)

Next ==
  \/ \E p \in Procs, k \in Scans : TaskStep(p, k)
  \/ \E p \in Procs : Work(p) \/ Restart(p)
  \/ \E p \in Procs, c \in Conns : Close(p, c)
  \/ Age
  \/ \E r \in Rows : Refuse(r)

\* Timers fire and a scan goes on to its end; a connection does not live for
\* ever (max_lifetime of the pool); no step fails each time it is tried.
Fairness ==
  /\ \A k \in Scans : SF_vars(\E p \in Procs : Acquire(p, k))
  /\ SF_vars(\E p \in Procs : Select(p))
  /\ \A r \in Rows : SF_vars(\E p \in Procs : Publish(p, r)) /\ WF_vars(Refuse(r))
  /\ \A p \in Procs : /\ WF_vars(Refresh(p)) /\ WF_vars(AllPublished(p))
                      /\ WF_vars((\E r \in Rows : Publish(p, r)) \/ ScanFails(p))
  /\ \A p \in Procs, k \in Scans : WF_vars(Unlock(p, k) \/ UnlockFails(p, k))
  /\ \A p \in Procs, c \in Conns : WF_vars(Close(p, c))

Spec     == Init /\ [][Next]_vars
FairSpec == Spec /\ Fairness

-----------------------------------------------------------------------------
LockTypeOK ==
  /\ lock \in [Scans -> {Free} \cup [by : Sessions, depth : 1 .. MaxDepth]]
  /\ stage \in [Procs -> [Scans -> Stages]]
  /\ cut \in [Procs -> [Scans -> BOOLEAN]]

\* Type correctness.
TypeOK ==
  /\ LockTypeOK /\ timers \in Timers
  /\ stale \in 0 .. RowCount
  /\ batch \in [Procs -> SUBSET Rows]
  /\ jobs \subseteq Rows

\* Only one worker runs a scan at a time (pipeline/mod.rs:131-132), unless the
\* connection that took the lock was closed under it.  A leaked lock, taken
\* again by its session or released elsewhere, never lets a second one in.
OneScan ==
  \A k \in Scans : \A p, q \in Procs :
    (p # q /\ stage[p][k] \in Working /\ stage[q][k] \in Working)
       => cut[p][k] \/ cut[q][k]

\* No leaked lock and no failure stops a scan for good.
ScansGoOn ==
  \A k \in Scans : []<>(k \in timers => \E p \in Procs : stage[p][k] = "locked")

\* Each of the Limit oldest laws, once stale, is published for re-ingestion
\* eventually: neither leaked locks nor a scan that always fails part-way after
\* some other row keeps it out, since a scan leaves updated_at alone
\* (pipeline/mod.rs:166-177).  For that same reason nothing of the kind holds of
\* the younger ones.
OldestEnqueued ==
  \A r \in {q \in Rows : q <= Limit} :
    (r \in StaleRows /\ "reingest" \in timers) ~> r \in jobs

\* "Ok(None) when lock is held by another worker" (worker/main.rs:301).
NoneMeansAnother ==
  [][\A p \in Procs, k \in Scans :
       stage[p][k] # "skipped" /\ stage'[p][k] = "skipped"
         => \E q \in Procs \ {p}, c \in Conns : lock[k].by = <<q, c>>]_vars
=============================================================================
