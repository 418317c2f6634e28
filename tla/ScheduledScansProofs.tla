------------------------ MODULE ScheduledScansProofs ------------------------
(***************************************************************************)
(* OneScan for every number of processes, connections and rows.  It is not *)
(* inductive: what a step preserves is that a task at work has its lock in *)
(* some session of its own process, or lost that session (HoldInv).        *)
(***************************************************************************)
EXTENDS ScheduledScans, TLAPS

\* The process of a task at work owns the lock, unless the session was closed.
Holds(p, k) == lock[k].depth > 0 /\ \E c \in Conns : lock[k].by = <<p, c>>

HoldInv ==
  \A p \in Procs, k \in Scans :
    stage[p][k] \in Working => cut[p][k] \/ Holds(p, k)

ScanInv == LockTypeOK /\ HoldInv

-----------------------------------------------------------------------------
LEMMA InitScanInv == Init => ScanInv
BY DEF Init, ScanInv, LockTypeOK, HoldInv, Stages, Resting, Working, Free

\* The lock is taken by a session of p: it was free or this session's already,
\* so no other process at work loses it.
LEMMA AcquireKeeps ==
  ASSUME NEW p \in Procs, NEW k \in Scans, ScanInv, Acquire(p, k)
  PROVE  ScanInv'
<1>1. PICK c \in Conns : /\ MayTake(<<p, c>>, k) /\ lock[k].depth < MaxDepth
                         /\ lock' = Taken(<<p, c>>, k)
  BY DEF Acquire
<1>2. lock[k] \in {Free} \cup [by : Sessions, depth : 1 .. MaxDepth]
  BY DEF ScanInv, LockTypeOK
<1>3. lock[k].depth + 1 \in 1 .. MaxDepth
  BY <1>1, <1>2, ScanAssumption DEF Free
<1>4. lock' = [lock EXCEPT ![k] = [by |-> <<p, c>>, depth |-> lock[k].depth + 1]]
  BY <1>1, <1>2 DEF Taken, ScanInv, LockTypeOK
<1>5. <<p, c>> \in Sessions
  BY DEF Sessions
<1>6. LockTypeOK'
  BY <1>3, <1>4, <1>5 DEF Acquire, ScanInv, LockTypeOK, Stages, Working
<1>7. ASSUME NEW q \in Procs, NEW l \in Scans, stage'[q][l] \in Working
      PROVE  cut'[q][l] \/ Holds(q, l)'
  <2>1. CASE q = p /\ l = k
    BY <1>2, <1>3, <1>4, <2>1 DEF Holds, ScanInv, LockTypeOK
  <2>2. CASE l # k
    BY <1>4, <1>7, <2>2 DEF Acquire, ScanInv, LockTypeOK, HoldInv, Holds
  <2>3. CASE q # p /\ l = k
    <3>1. stage[q][k] \in Working /\ cut' = cut
      BY <1>7, <2>3 DEF Acquire, ScanInv, LockTypeOK
    <3>2. CASE cut[q][k]
      BY <2>3, <3>1, <3>2
    <3>3. CASE Holds(q, k)
      BY <1>1, <1>2, <2>3, <3>3 DEF Holds, MayTake
    <3>4. QED BY <3>1, <3>2, <3>3 DEF ScanInv, HoldInv
  <2>4. QED BY <2>1, <2>2, <2>3
<1>8. QED BY <1>6, <1>7 DEF ScanInv, HoldInv

\* A step that leaves the lock table alone and sends the task to rest or on
\* with a scan that was at work.
LEMMA MoveKeeps ==
  ASSUME NEW p \in Procs, NEW k \in Scans, NEW s \in Stages, ScanInv,
         stage' = [stage EXCEPT ![p][k] = s], lock' = lock, cut' = cut,
         s \in Working => stage[p][k] \in Working
  PROVE  ScanInv'
<1>1. LockTypeOK'
  BY DEF ScanInv, LockTypeOK
<1>2. ASSUME NEW q \in Procs, NEW l \in Scans, stage'[q][l] \in Working
      PROVE  stage[q][l] \in Working
  BY <1>2 DEF ScanInv, LockTypeOK
<1>3. HoldInv'
  BY <1>2 DEF ScanInv, HoldInv, Holds
<1>4. QED BY <1>1, <1>3 DEF ScanInv

LockTable == [Scans -> {Free} \cup [by : Sessions, depth : 1 .. MaxDepth]]

\* A task goes to rest, and every lock but its own is held as before.
LEMMA RestKeeps ==
  ASSUME NEW p \in Procs, NEW k \in Scans, ScanInv,
         stage' = [stage EXCEPT ![p][k] = "asleep"],
         cut' = [cut EXCEPT ![p][k] = FALSE],
         lock' \in LockTable,
         \A q \in Procs, l \in Scans : (q # p \/ l # k) /\ Holds(q, l) => Holds(q, l)'
  PROVE  ScanInv'
<1>1. LockTypeOK'
  BY DEF ScanInv, LockTypeOK, LockTable, Stages, Resting
<1>2. ASSUME NEW q \in Procs, NEW l \in Scans, stage'[q][l] \in Working
      PROVE  cut'[q][l] \/ Holds(q, l)'
  <2>1. q # p \/ l # k
    BY <1>2 DEF ScanInv, LockTypeOK, Working
  <2>2. stage[q][l] \in Working /\ cut'[q][l] = cut[q][l]
    BY <1>2, <2>1 DEF ScanInv, LockTypeOK
  <2>3. QED BY <2>1, <2>2 DEF ScanInv, HoldInv
<1>3. QED BY <1>1, <1>2 DEF ScanInv, HoldInv

LEMMA UnlockFailsKeeps ==
  ASSUME NEW p \in Procs, NEW k \in Scans, ScanInv, UnlockFails(p, k)
  PROVE  ScanInv'
<1>1. lock' = lock
  BY DEF UnlockFails
<1>2. lock' \in LockTable
  BY <1>1 DEF ScanInv, LockTypeOK, LockTable
<1>3. ASSUME NEW q \in Procs, NEW l \in Scans, Holds(q, l)
      PROVE  Holds(q, l)'
  BY <1>1, <1>3 DEF Holds
<1>4. QED BY <1>2, <1>3, RestKeeps DEF UnlockFails

\* Unlocking in any session of p: no other process loses the lock.
LEMMA UnlockKeeps ==
  ASSUME NEW p \in Procs, NEW k \in Scans, ScanInv, Unlock(p, k)
  PROVE  ScanInv'
<1>1. PICK c \in Conns : lock' = Released(<<p, c>>, k)
  BY DEF Unlock
<1>2. lock \in LockTable
  BY DEF ScanInv, LockTypeOK, LockTable
<1>3. lock[k] \in {Free} \cup [by : Sessions, depth : 1 .. MaxDepth]
  BY <1>2 DEF LockTable
<1>4. CASE lock[k].by # <<p, c>>
  <2>1. lock' = lock
    BY <1>1, <1>4 DEF Released
  <2>2. ASSUME NEW q \in Procs, NEW l \in Scans, Holds(q, l)
        PROVE  Holds(q, l)'
    BY <2>1, <2>2 DEF Holds
  <2>3. QED BY <1>2, <2>1, <2>2, RestKeeps DEF Unlock
<1>5. CASE lock[k].by = <<p, c>>
  <2>1. lock[k] \in [by : Sessions, depth : 1 .. MaxDepth]
    <3>1. <<p, c>> # <<>>
      OBVIOUS
    <3>2. QED BY <1>3, <1>5, <3>1 DEF Free
  <2>2. PICK t \in {Free} \cup [by : Sessions, depth : 1 .. MaxDepth] :
          lock' = [lock EXCEPT ![k] = t]
    <3>1. CASE lock[k].depth = 1
      <4>1. lock' = [lock EXCEPT ![k] = Free]
        BY <1>1, <1>2, <1>5, <3>1 DEF Released, LockTable
      <4>2. QED BY <4>1
    <3>2. CASE lock[k].depth # 1
      <4>1. lock' = [lock EXCEPT ![k] = [by |-> <<p, c>>, depth |-> lock[k].depth - 1]]
        BY <1>1, <1>2, <1>5, <3>2 DEF Released, LockTable
      <4>2. [by |-> <<p, c>>, depth |-> lock[k].depth - 1]
              \in [by : Sessions, depth : 1 .. MaxDepth]
        BY <1>5, <2>1, <3>2, ScanAssumption
      <4>3. QED BY <4>1, <4>2
    <3>3. QED BY <3>1, <3>2
  <2>3. lock' \in LockTable
    BY <1>2, <2>2 DEF LockTable
  <2>4. ASSUME NEW q \in Procs, NEW l \in Scans, q # p \/ l # k, Holds(q, l)
        PROVE  Holds(q, l)'
    <3>1. l # k
      BY <1>5, <2>4 DEF Holds
    <3>2. lock'[l] = lock[l]
      BY <1>2, <2>2, <3>1 DEF LockTable
    <3>3. QED BY <2>4, <3>2 DEF Holds
  <2>5. QED BY <2>3, <2>4, RestKeeps DEF Unlock
<1>6. QED BY <1>4, <1>5

\* A session that ends takes its lock away only from a task that is marked.
LEMMA DroppedTable ==
  ASSUME NEW S, lock \in LockTable
  PROVE  Dropped(S) \in LockTable
BY DEF Dropped, LockTable

LEMMA CloseKeeps ==
  ASSUME NEW p \in Procs, NEW c \in Conns, ScanInv, Close(p, c)
  PROVE  ScanInv'
<1>1. lock \in LockTable
  BY DEF ScanInv, LockTypeOK, LockTable
<1>2. /\ lock' = Dropped({<<p, c>>}) /\ stage' = stage
      /\ cut' = [cut EXCEPT ![p] = [k \in Scans |->
           cut[p][k] \/ (lock[k].by = <<p, c>> /\ stage[p][k] \in Working)]]
  BY DEF Close
<1>3. LockTypeOK'
  <2>1. lock' \in LockTable
    BY <1>1, <1>2, DroppedTable
  <2>2. cut' \in [Procs -> [Scans -> BOOLEAN]]
    BY <1>2, Zenon DEF ScanInv, LockTypeOK
  <2>3. QED BY <1>2, <2>1, <2>2 DEF ScanInv, LockTypeOK, LockTable
<1>4. ASSUME NEW q \in Procs, NEW k \in Scans, stage'[q][k] \in Working
      PROVE  cut'[q][k] \/ Holds(q, k)'
  <2>1. CASE lock[k].by = <<p, c>> /\ q = p
    BY <1>2, <1>4, <2>1 DEF ScanInv, LockTypeOK
  <2>2. CASE cut[q][k]
    BY <1>2, <2>2 DEF ScanInv, LockTypeOK
  <2>3. CASE Holds(q, k) /\ ~ (lock[k].by = <<p, c>> /\ q = p)
    <3>1. lock[k].by # <<p, c>>
      BY <2>3 DEF Holds
    <3>2. lock'[k] = lock[k]
      BY <1>2, <3>1 DEF Dropped
    <3>3. QED BY <2>3, <3>2 DEF Holds
  <2>4. cut[q][k] \/ Holds(q, k)
    BY <1>2, <1>4 DEF ScanInv, HoldInv
  <2>5. QED BY <2>1, <2>2, <2>3, <2>4
<1>5. QED BY <1>3, <1>4 DEF ScanInv, HoldInv

LEMMA RestartKeeps ==
  ASSUME NEW p \in Procs, ScanInv, Restart(p)
  PROVE  ScanInv'
<1>1. lock \in LockTable
  BY DEF ScanInv, LockTypeOK, LockTable
<1>2. /\ lock' = Dropped({p} \X Conns)
      /\ stage' = [stage EXCEPT ![p] = [k \in Scans |-> "asleep"]]
      /\ cut' = [cut EXCEPT ![p] = [k \in Scans |-> FALSE]]
  BY DEF Restart
<1>3. LockTypeOK'
  <2>1. lock' \in LockTable
    BY <1>1, <1>2, DroppedTable
  <2>2. QED BY <1>2, <2>1 DEF ScanInv, LockTypeOK, LockTable, Stages, Resting
<1>4. ASSUME NEW q \in Procs, NEW k \in Scans, stage'[q][k] \in Working
      PROVE  cut'[q][k] \/ Holds(q, k)'
  <2>1. q # p
    BY <1>2, <1>4 DEF ScanInv, LockTypeOK, Working
  <2>2. stage[q][k] \in Working /\ cut'[q][k] = cut[q][k]
    BY <1>2, <1>4, <2>1 DEF ScanInv, LockTypeOK
  <2>3. ASSUME Holds(q, k)
        PROVE  Holds(q, k)'
    <3>1. lock[k].by \notin {p} \X Conns
      BY <2>1, <2>3 DEF Holds
    <3>2. lock'[k] = lock[k]
      BY <1>2, <3>1 DEF Dropped
    <3>3. QED BY <2>3, <3>2 DEF Holds
  <2>4. QED BY <2>2, <2>3 DEF ScanInv, HoldInv
<1>5. QED BY <1>3, <1>4 DEF ScanInv, HoldInv

-----------------------------------------------------------------------------
LEMMA StutterKeeps == ScanInv /\ UNCHANGED lockVars => ScanInv'
BY DEF ScanInv, LockTypeOK, HoldInv, Holds, lockVars

LEMMA NextKeeps == ScanInv /\ [Next]_vars => ScanInv'
<1> SUFFICES ASSUME ScanInv, [Next]_vars
             PROVE  ScanInv'
  OBVIOUS
<1> USE DEF Stages, Resting, Working
<1>1. ASSUME NEW p \in Procs, NEW k \in Scans, Skip(p, k) \/ TryFails(p, k)
      PROVE  ScanInv'
  BY <1>1, MoveKeeps DEF Skip, TryFails
<1>2. ASSUME NEW p \in Procs, NEW k \in Scans, TaskStep(p, k)
      PROVE  ScanInv'
  BY <1>1, <1>2, AcquireKeeps, UnlockKeeps, UnlockFailsKeeps DEF TaskStep
<1>3. ASSUME NEW p \in Procs, Work(p)
      PROVE  ScanInv'
  <2>1. CASE Refresh(p)
    BY <2>1, MoveKeeps DEF Refresh, Scans
  <2>2. CASE Select(p)
    BY <2>2, MoveKeeps DEF Select, Scans
  <2>3. CASE \E r \in Rows : Publish(p, r)
    BY <2>3, StutterKeeps DEF Publish
  <2>4. CASE AllPublished(p)
    BY <2>4, MoveKeeps DEF AllPublished, Scans
  <2>5. CASE ScanFails(p)
    BY <2>5, MoveKeeps DEF ScanFails, Scans
  <2>6. QED BY <1>3, <2>1, <2>2, <2>3, <2>4, <2>5 DEF Work
<1>4. CASE Age \/ (\E r \in Rows : Refuse(r)) \/ UNCHANGED vars
  BY <1>4, StutterKeeps DEF Age, Refuse, vars, lockVars
<1>5. QED BY <1>2, <1>3, <1>4, CloseKeeps, RestartKeeps DEF Next

\* The lock table and the tasks are well typed for every instance.
THEOREM LocksTypeCorrect == Spec => []LockTypeOK
<1>1. ScanInv => LockTypeOK
  BY DEF ScanInv
<1>2. QED BY <1>1, InitScanInv, NextKeeps, PTL DEF Spec

\* Two sessions of different processes cannot both own a lock, so of two
\* tasks at work on one scan one has lost its session.
THEOREM OneScanAtATime == Spec => []OneScan
<1>1. ScanInv => OneScan
  BY DEF ScanInv, HoldInv, Holds, OneScan
<1>2. QED BY <1>1, InitScanInv, NextKeeps, PTL DEF Spec

-----------------------------------------------------------------------------
\* The rows: no more are stale than there are, and what is selected or queued
\* is a row of the table.
RowTypeOK ==
  /\ timers \in Timers
  /\ stale \in 0 .. RowCount
  /\ batch \in [Procs -> SUBSET Rows]
  /\ jobs \subseteq Rows

LEMMA InitRows == Init => RowTypeOK
BY ScanAssumption DEF Init, RowTypeOK

LEMMA NextRows == RowTypeOK /\ [Next]_vars => RowTypeOK'
<1> SUFFICES ASSUME RowTypeOK, [Next]_vars
             PROVE  RowTypeOK'
  OBVIOUS
<1>1. CASE UNCHANGED rowVars
  BY <1>1 DEF RowTypeOK, rowVars
<1>2. ASSUME NEW p \in Procs, NEW b \in SUBSET Rows, batch' = [batch EXCEPT ![p] = b],
             UNCHANGED <<timers, stale>>, jobs' \subseteq Rows
      PROVE  RowTypeOK'
  BY <1>2 DEF RowTypeOK
<1>3. ASSUME NEW p \in Procs, NEW k \in Scans, TaskStep(p, k)
      PROVE  UNCHANGED rowVars
  BY <1>3 DEF TaskStep, Acquire, Skip, TryFails, Unlock, UnlockFails
<1>4. ASSUME NEW p \in Procs, Work(p)
      PROVE  RowTypeOK'
  <2>1. CASE Refresh(p) \/ AllPublished(p)
    BY <1>1, <2>1 DEF Refresh, AllPublished
  <2>2. CASE Select(p)
    <3>1. PICK locked \in SUBSET (jobs \cap StaleRows) :
            batch' = [batch EXCEPT ![p] = Oldest(StaleRows \ locked)]
      BY <2>2 DEF Select
    <3>2. Oldest(StaleRows \ locked) \in SUBSET Rows
      BY DEF Oldest, StaleRows
    <3>3. QED BY <1>2, <2>2, <3>1, <3>2 DEF Select, RowTypeOK
  <2>3. ASSUME NEW r \in Rows, Publish(p, r)
        PROVE  RowTypeOK'
    <3>1. batch[p] \ {r} \in SUBSET Rows
      BY DEF RowTypeOK
    <3>2. QED BY <1>2, <2>3, <3>1 DEF Publish, RowTypeOK
  <2>4. CASE ScanFails(p)
    BY <1>2, <2>4 DEF ScanFails, RowTypeOK
  <2>5. QED BY <1>4, <2>1, <2>2, <2>3, <2>4 DEF Work
<1>5. ASSUME NEW p \in Procs, Restart(p)
      PROVE  RowTypeOK'
  BY <1>2, <1>5 DEF Restart, RowTypeOK
<1>6. CASE Age
  BY <1>6, ScanAssumption DEF Age, RowTypeOK
<1>7. ASSUME NEW r \in Rows, Refuse(r)
      PROVE  RowTypeOK'
  BY <1>7 DEF Refuse, RowTypeOK
<1>8. ASSUME NEW p \in Procs, NEW c \in Conns, Close(p, c)
      PROVE  UNCHANGED rowVars
  BY <1>8 DEF Close
<1>9. QED
  BY <1>1, <1>3, <1>4, <1>5, <1>6, <1>7, <1>8 DEF Next, vars, rowVars

\* Locks, tasks and rows are well typed for every instance.
THEOREM TypeCorrect == Spec => []TypeOK
<1>1. LockTypeOK /\ RowTypeOK => TypeOK
  BY DEF TypeOK, RowTypeOK
<1>2. QED BY <1>1, LocksTypeCorrect, InitRows, NextRows, PTL DEF Spec

=============================================================================
