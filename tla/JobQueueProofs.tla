--------------------------- MODULE JobQueueProofs ---------------------------
(***************************************************************************)
(* Proofs about JobQueue, for every number of workers, entries, retries    *)
(* and faults: type correctness, no delivered job is lost, no job is given *)
(* up without cause, and the queue implements JobDelivery.                 *)
(***************************************************************************)
EXTENDS JobQueue, TLAPS

\* The entries a worker may come to hold: accepted, and with a payload.
Jobs == {i \in Accepted : HasPayload(i)}

\* Delivery moves forward over the stream from the group's origin, and only
\* accepted entries are pending.
DeliveryInv ==
  /\ lastId <= Len(stream)
  /\ IF lastId = NoGroup THEN origin = 0 ELSE origin <= lastId
  /\ pending \subseteq Accepted

\* A worker holds only jobs.
HoldInv ==
  \A w \in Workers :
    /\ batch[w] \subseteq Jobs
    /\ step[w] \notin {"idle", "check"} => cur[w] \in Jobs

\* The steps from the verdict to the acknowledgement keep the reason for it
\* true: the job completed, or its payload is in the dead-letter stream.
VerdictInv ==
  \A w \in Workers :
    /\ step[w] \in {"clearCount", "clearDelay", "deadLetter", "ack"}
         => verdict[w] \in {"done", "dead"}
    /\ step[w] = "deadLetter" => verdict[w] = "dead"
    /\ step[w] \in {"clearCount", "clearDelay", "ack"} /\ verdict[w] = "done"
         => cur[w] \in completed
    /\ step[w] = "ack" /\ verdict[w] = "dead" => cur[w] \in dlq

\* Why an entry may be given up.
Earned(i) ==
  \/ stream[i] = "malformed"
  \/ i \in fatal
  \/ failures[i] >= MaxRetries

\* The counter in Redis never runs ahead of the failures it counts.
CountInv == \A i \in Ids : retryCount[i] <= failures[i]

\* A worker that gives an entry up has cause.
GivingUp(w) ==
  \/ step[w] = "deadLetter"
  \/ step[w] \in {"clearCount", "clearDelay"} /\ verdict[w] = "dead"

CauseInv ==
  /\ \A w \in Workers : GivingUp(w) => Earned(cur[w])
  /\ \A i \in dlq : i \in DOMAIN stream /\ Earned(i)

-----------------------------------------------------------------------------
\* XAUTOCLAIM takes pending entries that are idle.
LEMMA ClaimableIsPending == Claimable \subseteq pending \cap idle
  BY DEF Claimable, Oldest

\* XREADGROUP delivers new entries: existing ones after the last-delivered id,
\* up to the one that becomes the last.
LEMMA DeliverableIsNext ==
  ASSUME StreamOK, lastId # NoGroup
  PROVE  /\ NextLastId \in 0 .. MaxEntries
         /\ Deliverable \subseteq Ids
         /\ Deliverable = lastId + 1 .. NextLastId
         /\ lastId <= Len(stream)
              => lastId <= NextLastId /\ NextLastId <= Len(stream)
<1>1. Len(stream) \in Nat /\ BatchSize \in Nat /\ MaxEntries \in Nat
  BY ConstantsAssumption DEF StreamOK
<1>2. lastId \in Nat
  BY <1>1 DEF StreamOK, NoGroup
<1> QED
  BY <1>1, <1>2 DEF StreamOK, NextLastId, Deliverable, Ids

\* A saturated counter stays in its range and does not decrease.
LEMMA BumpBounded ==
  \A n \in 0 .. MaxRetries : Bump(n) \in 0 .. MaxRetries /\ n <= Bump(n)
  BY ConstantsAssumption DEF Bump

\* A call that records no outcome keeps the histories and the fault budget.
LEMMA HistoryKept ==
  ASSUME HistoryOK, UNCHANGED history, Fine \/ Fault
  PROVE  HistoryOK'
<1>1. faults' \in 0 .. MaxFaults
  BY ConstantsAssumption DEF HistoryOK, Fine, Fault
<1> QED
  BY <1>1 DEF HistoryOK, history

\* Every step preserves the types.
LEMMA TypeStep ==
  ASSUME TypeOK, [Next]_vars
  PROVE  TypeOK'
<1> USE DEF TypeOK, Ids, NoGroup
<1>1. ASSUME NEW b \in Inputs, Publish(b) PROVE TypeOK'
  <2>1. StreamOK'
    BY <1>1, ConstantsAssumption DEF Publish, Bodies, StreamOK
  <2>2. KeysOK' /\ LocalsOK' /\ HistoryOK'
    BY <1>1 DEF Publish, locals, history, KeysOK, LocalsOK, HistoryOK
  <2> QED
    BY <2>1, <2>2
<1>2. ASSUME NEW w \in Workers, Start(w) PROVE TypeOK'
  <2>1. StreamOK'
    BY <1>2, ConstantsAssumption DEF Start, StreamOK
  <2>2. LocalsOK'
    BY <1>2 DEF Start, At, Steps, LocalsOK
  <2>3. KeysOK' /\ HistoryOK'
    BY <1>2 DEF Start, history, KeysOK, HistoryOK
  <2> QED
    BY <2>1, <2>2, <2>3
<1>3. ASSUME NEW w \in Workers, Reclaim(w) PROVE TypeOK'
  <2>1. StreamOK'
    BY <1>3 DEF Reclaim, Receive, StreamOK
  <2>2. LocalsOK'
    BY <1>3, ClaimableIsPending DEF Reclaim, Receive, StreamOK, Goto, At,
           Steps, LocalsOK
  <2>3. KeysOK' /\ HistoryOK'
    BY <1>3, ConstantsAssumption DEF Reclaim, Receive, Fine, Fault, history,
           KeysOK, HistoryOK
  <2> QED
    BY <2>1, <2>2, <2>3
<1>4. ASSUME NEW w \in Workers, ReclaimFails(w) PROVE TypeOK'
  <2>1. StreamOK'
    BY <1>4 DEF ReclaimFails, StreamOK
  <2>2. LocalsOK'
    BY <1>4 DEF ReclaimFails, At, Steps, LocalsOK
  <2>3. KeysOK' /\ HistoryOK'
    BY <1>4, ConstantsAssumption DEF ReclaimFails, Fault, history, KeysOK,
           HistoryOK
  <2> QED
    BY <2>1, <2>2, <2>3
<1>5. ASSUME NEW w \in Workers, Read(w) PROVE TypeOK'
  <2>1. lastId # -1
    BY <1>5 DEF Read, LocalsOK
  <2>2. /\ NextLastId \in -1 .. MaxEntries /\ NextLastId # -1
        /\ Deliverable \subseteq 1 .. MaxEntries
    BY <2>1, DeliverableIsNext, ConstantsAssumption
  <2>3. StreamOK'
    BY <1>5, <2>1, <2>2 DEF Read, Receive, StreamOK
  <2>4. LocalsOK'
    BY <1>5, <2>1, <2>2 DEF Read, Receive, Goto, At, Steps, LocalsOK
  <2>5. KeysOK'
    BY <1>5 DEF Read, KeysOK
  <2>6. HistoryOK'
    <3>1. Fine \/ Fault
      BY <1>5 DEF Read, Receive
    <3> QED
      BY <1>5, <3>1, HistoryKept DEF Read
  <2> QED
    BY <2>3, <2>4, <2>5, <2>6
<1>6. ASSUME NEW w \in Workers, ReadFails(w) PROVE TypeOK'
  <2>1. lastId # -1
    BY <1>6 DEF ReadFails, LocalsOK
  <2>2. /\ NextLastId \in -1 .. MaxEntries /\ NextLastId # -1
        /\ Deliverable \subseteq 1 .. MaxEntries
    BY <2>1, DeliverableIsNext, ConstantsAssumption
  <2>3. StreamOK'
    BY <1>6, <2>1, <2>2 DEF ReadFails, StreamOK
  <2>4. LocalsOK'
    BY <1>6, <2>1, <2>2 DEF ReadFails, At, Steps, LocalsOK
  <2>5. KeysOK' /\ HistoryOK'
    BY <1>6, ConstantsAssumption DEF ReadFails, Fault, history, KeysOK,
           HistoryOK
  <2> QED
    BY <2>3, <2>4, <2>5
<1>7. ASSUME NEW w \in Workers, Skip(w) PROVE TypeOK'
  <2>1. LocalsOK'
    BY <1>7 DEF Skip, At, Steps, redis, LocalsOK
  <2>2. StreamOK' /\ KeysOK' /\ HistoryOK'
    BY <1>7 DEF Skip, redis, history, StreamOK, KeysOK, HistoryOK
  <2> QED
    BY <2>1, <2>2
<1>8. ASSUME NEW w \in Workers, Take(w) PROVE TypeOK'
  <2>1. LocalsOK'
    BY <1>8, ConstantsAssumption DEF Take, Goto, At, Steps, redis, LocalsOK
  <2>2. StreamOK' /\ KeysOK'
    BY <1>8 DEF Take, redis, StreamOK, KeysOK
  <2>3. HistoryOK'
    BY <1>8, ConstantsAssumption DEF Take, Fine, Fault, history, HistoryOK
  <2> QED
    BY <2>1, <2>2, <2>3
<1>9. ASSUME NEW w \in Workers, BatchDone(w) PROVE TypeOK'
  <2>1. LocalsOK'
    BY <1>9 DEF BatchDone, Goto, At, Steps, redis, LocalsOK
  <2>2. StreamOK' /\ KeysOK' /\ HistoryOK'
    BY <1>9 DEF BatchDone, redis, history, StreamOK, KeysOK, HistoryOK
  <2> QED
    BY <2>1, <2>2
<1>10. ASSUME NEW w \in Workers, Succeed(w) PROVE TypeOK'
  <2>1. cur[w] \in Ids
    BY <1>10 DEF Succeed, LocalsOK, At
  <2>2. LocalsOK'
    BY <1>10 DEF Succeed, Settle, Goto, At, Steps, redis, LocalsOK
  <2>3. StreamOK' /\ KeysOK'
    BY <1>10 DEF Succeed, redis, StreamOK, KeysOK
  <2>4. HistoryOK'
    BY <1>10, <2>1 DEF Succeed, At, HistoryOK
  <2> QED
    BY <2>2, <2>3, <2>4
<1>11. ASSUME NEW w \in Workers, FailForGood(w) PROVE TypeOK'
  <2>1. cur[w] \in Ids
    BY <1>11 DEF FailForGood, LocalsOK, At
  <2>2. LocalsOK'
    BY <1>11 DEF FailForGood, Settle, Goto, At, Steps, redis, LocalsOK
  <2>3. StreamOK' /\ KeysOK'
    BY <1>11 DEF FailForGood, redis, StreamOK, KeysOK
  <2>4. HistoryOK'
    BY <1>11, <2>1 DEF FailForGood, At, HistoryOK
  <2> QED
    BY <2>2, <2>3, <2>4
<1>12. ASSUME NEW w \in Workers, FailForNow(w) PROVE TypeOK'
  <2>1. LocalsOK'
    BY <1>12 DEF FailForNow, Goto, At, Steps, redis, LocalsOK
  <2>2. StreamOK' /\ KeysOK' /\ HistoryOK'
    BY <1>12 DEF FailForNow, redis, history, StreamOK, KeysOK, HistoryOK
  <2> QED
    BY <2>1, <2>2
<1>13. ASSUME NEW w \in Workers, Incr(w) PROVE TypeOK'
  <2>1. cur[w] \in Ids
    BY <1>13 DEF Incr, LocalsOK, At
  <2>2. LocalsOK'
    BY <1>13 DEF Incr, Decide, Settle, Goto, At, Steps, LocalsOK
  <2>3. StreamOK'
    BY <1>13 DEF Incr, StreamOK
  <2>4. KeysOK'
    BY <1>13, <2>1, BumpBounded DEF Incr, KeysOK
  <2>5. failures' \in [Ids -> 0 .. MaxRetries]
    <3>1. Bump(failures[cur[w]]) \in 0 .. MaxRetries
      BY <2>1, BumpBounded DEF HistoryOK
    <3> QED
      BY <1>13, <2>1, <3>1 DEF Incr, HistoryOK
  <2>6. HistoryOK'
    <3>1. faults' \in 0 .. MaxFaults
      BY <1>13, ConstantsAssumption DEF Incr, Fine, Fault, HistoryOK
    <3> QED
      BY <1>13, <2>5, <3>1 DEF Incr, HistoryOK
  <2> QED
    BY <2>2, <2>3, <2>4, <2>6
<1>14. ASSUME NEW w \in Workers, SetDelay(w) PROVE TypeOK'
  <2>1. cur[w] \in Ids
    BY <1>14 DEF SetDelay, LocalsOK, At
  <2>2. LocalsOK'
    BY <1>14, ConstantsAssumption DEF SetDelay, NextMessage, Goto, At,
           Steps, LocalsOK
  <2>3. StreamOK' /\ HistoryOK'
    BY <1>14, ConstantsAssumption DEF SetDelay, Fine, Fault, history,
           StreamOK, HistoryOK
  <2>4. KeysOK'
    BY <1>14, <2>1 DEF SetDelay, KeysOK
  <2> QED
    BY <2>2, <2>3, <2>4
<1>15. ASSUME NEW w \in Workers, ClearCount(w) PROVE TypeOK'
  <2>1. cur[w] \in Ids
    BY <1>15 DEF ClearCount, LocalsOK, At
  <2>2. LocalsOK'
    BY <1>15 DEF ClearCount, Goto, At, Steps, LocalsOK
  <2>3. StreamOK' /\ HistoryOK'
    BY <1>15, ConstantsAssumption DEF ClearCount, Fine, Fault, history,
           StreamOK, HistoryOK
  <2>4. KeysOK'
    <3>1. \/ retryCount' = [retryCount EXCEPT ![cur[w]] = 0]
          \/ retryCount' = retryCount
      BY <1>15 DEF ClearCount
    <3>2. 0 \in 0 .. MaxRetries
      BY ConstantsAssumption
    <3>3. retryCount' \in [Ids -> 0 .. MaxRetries]
      BY <3>1, <3>2 DEF KeysOK
    <3> QED
      BY <1>15, <3>3 DEF ClearCount, KeysOK
  <2> QED
    BY <2>2, <2>3, <2>4
<1>16. ASSUME NEW w \in Workers, ClearDelay(w) PROVE TypeOK'
  <2>1. LocalsOK'
    BY <1>16 DEF ClearDelay, Goto, At, Steps, LocalsOK
  <2>2. StreamOK' /\ HistoryOK'
    BY <1>16, ConstantsAssumption DEF ClearDelay, Fine, Fault, history,
           StreamOK, HistoryOK
  <2>3. KeysOK'
    BY <1>16 DEF ClearDelay, KeysOK
  <2> QED
    BY <2>1, <2>2, <2>3
<1>17. ASSUME NEW w \in Workers, DeadLetter(w) PROVE TypeOK'
  <2>1. cur[w] \in Ids
    BY <1>17 DEF DeadLetter, LocalsOK, At
  <2>2. LocalsOK'
    BY <1>17, ConstantsAssumption DEF DeadLetter, NextMessage, Goto, At,
           Steps, LocalsOK
  <2>3. StreamOK'
    BY <1>17, <2>1 DEF DeadLetter, StreamOK
  <2>4. KeysOK'
    BY <1>17 DEF DeadLetter, KeysOK
  <2>5. HistoryOK'
    <3>1. Fine \/ Fault
      BY <1>17 DEF DeadLetter
    <3> QED
      BY <1>17, <3>1, HistoryKept DEF DeadLetter
  <2> QED
    BY <2>2, <2>3, <2>4, <2>5
<1>18. ASSUME NEW w \in Workers, Ack(w) PROVE TypeOK'
  <2>1. LocalsOK'
    BY <1>18, ConstantsAssumption DEF Ack, NextMessage, Goto, At, Steps,
           LocalsOK
  <2>2. StreamOK'
    BY <1>18 DEF Ack, StreamOK
  <2>3. KeysOK'
    BY <1>18 DEF Ack, KeysOK
  <2>4. HistoryOK'
    <3>1. Fine \/ Fault
      BY <1>18 DEF Ack
    <3> QED
      BY <1>18, <3>1, HistoryKept DEF Ack
  <2> QED
    BY <2>1, <2>2, <2>3, <2>4
<1>19. ASSUME NEW w \in Workers, Stop(w) PROVE TypeOK'
  <2>1. LocalsOK'
    BY <1>19, ConstantsAssumption DEF Stop, Steps, redis, LocalsOK
  <2>2. StreamOK' /\ KeysOK'
    BY <1>19 DEF Stop, redis, StreamOK, KeysOK
  <2>3. HistoryOK'
    BY <1>19, HistoryKept DEF Stop
  <2> QED
    BY <2>1, <2>2, <2>3
<1>20. ASSUME NEW i \in Ids, GoIdle(i) PROVE TypeOK'
  <2>1. StreamOK' /\ KeysOK' /\ LocalsOK' /\ HistoryOK'
    BY <1>20 DEF GoIdle, locals, history, StreamOK, KeysOK, LocalsOK,
           HistoryOK
  <2> QED
    BY <2>1
<1>21. ASSUME NEW i \in Ids, DelayExpires(i) PROVE TypeOK'
  <2>1. StreamOK' /\ KeysOK' /\ LocalsOK' /\ HistoryOK'
    BY <1>21 DEF DelayExpires, locals, history, StreamOK, KeysOK, LocalsOK,
           HistoryOK
  <2> QED
    BY <2>1
<1>22. ASSUME NEW i \in Ids, CountExpires(i) PROVE TypeOK'
  <2>1. StreamOK' /\ LocalsOK' /\ HistoryOK'
    BY <1>22 DEF CountExpires, locals, history, StreamOK, LocalsOK,
           HistoryOK
  <2>2. KeysOK'
    BY <1>22, ConstantsAssumption DEF CountExpires, KeysOK
  <2> QED
    BY <2>1, <2>2
<1>23. CASE UNCHANGED vars
  BY <1>23 DEF vars, redis, locals, history, StreamOK, KeysOK, LocalsOK, HistoryOK
<1> QED
  BY <1>1, <1>2, <1>3, <1>4, <1>5, <1>6, <1>7, <1>8, <1>9, <1>10, <1>11,
     <1>12, <1>13, <1>14, <1>15, <1>16, <1>17, <1>18, <1>19, <1>20, <1>21,
     <1>22, <1>23, Zenon DEF Next, WorkerStep, Ids

\* The stream, the retry keys and the workers' variables have their types.
THEOREM TypeCorrect == Spec => []TypeOK
<1>1. Init => TypeOK
  BY ConstantsAssumption
     DEF Init, TypeOK, StreamOK, KeysOK, LocalsOK, HistoryOK, Bodies, Steps,
         Ids, NoGroup
<1>2. TypeOK /\ [Next]_vars => TypeOK'
  BY TypeStep
<1> QED
  BY <1>1, <1>2, PTL DEF Spec

-----------------------------------------------------------------------------
\* The steps that leave the stream, the group and the pending list alone.
HandlingStep(w) ==
  \/ ReclaimFails(w) \/ Skip(w) \/ Take(w) \/ BatchDone(w)
  \/ Succeed(w) \/ FailForGood(w) \/ FailForNow(w) \/ Incr(w) \/ SetDelay(w)
  \/ ClearCount(w) \/ ClearDelay(w) \/ DeadLetter(w) \/ Stop(w)

TimeStep(i) == GoIdle(i) \/ DelayExpires(i) \/ CountExpires(i)

LEMMA HandlingFrame ==
  ASSUME NEW w \in Workers, HandlingStep(w)
  PROVE  UNCHANGED <<stream, lastId, origin, pending>>
  BY DEF HandlingStep, ReclaimFails, Skip, Take, BatchDone, Succeed,
         FailForGood, FailForNow, Incr, SetDelay, ClearCount, ClearDelay,
         DeadLetter, Stop, redis

LEMMA TimeFrame ==
  ASSUME NEW i \in Ids, TimeStep(i)
  PROVE  /\ UNCHANGED <<stream, lastId, origin, pending, dlq, failures>>
         /\ UNCHANGED <<loop, step, batch, cur, verdict, completed, fatal>>
         /\ TypeOK => \A j \in Ids : retryCount'[j] \in {0, retryCount[j]}
  BY DEF TimeStep, GoIdle, DelayExpires, CountExpires, locals, history,
         TypeOK, KeysOK

\* Every step of the queue, by what it may do to the stream and the group.
LEMMA StepKinds ==
  ASSUME [Next]_vars
  PROVE  \/ \E b \in Inputs : Publish(b)
         \/ \E w \in Workers : \/ Start(w) \/ Reclaim(w) \/ Read(w)
                               \/ ReadFails(w) \/ Ack(w) \/ HandlingStep(w)
         \/ \E i \in Ids : TimeStep(i)
         \/ UNCHANGED vars
  BY Zenon DEF Next, WorkerStep, HandlingStep, TimeStep

LEMMA DeliveryStep ==
  ASSUME TypeOK, DeliveryInv, [Next]_vars
  PROVE  DeliveryInv'
<1> USE DEF DeliveryInv, Accepted, Ids, NoGroup
<1>1. ASSUME NEW b \in Inputs, Publish(b) PROVE DeliveryInv'
  BY <1>1, ConstantsAssumption DEF Publish, TypeOK, StreamOK, Bodies
<1>2. ASSUME NEW w \in Workers, Start(w) PROVE DeliveryInv'
  BY <1>2 DEF Start, TypeOK, StreamOK
<1>3. ASSUME NEW w \in Workers, Reclaim(w) PROVE DeliveryInv'
  BY <1>3 DEF Reclaim, Receive
<1>4. ASSUME NEW w \in Workers, Read(w) \/ ReadFails(w) PROVE DeliveryInv'
  <2>1. lastId # -1
    BY <1>4 DEF Read, ReadFails, TypeOK, LocalsOK
  <2>2. /\ lastId <= NextLastId /\ NextLastId <= Len(stream)
        /\ NextLastId # -1 /\ NextLastId \in -1 .. MaxEntries
        /\ Deliverable = lastId + 1 .. NextLastId
        /\ Deliverable \subseteq Ids
    BY <2>1, DeliverableIsNext, ConstantsAssumption DEF TypeOK
  <2>3. lastId \in Int /\ origin \in Int /\ origin <= lastId
    BY <2>1, ConstantsAssumption DEF TypeOK, StreamOK
  <2>4. CASE UNCHANGED <<lastId, pending>>
    BY <1>4, <2>4 DEF Read, ReadFails
  <2>5. CASE lastId' = NextLastId /\ pending' \subseteq pending \cup Deliverable
    <3>1. UNCHANGED <<stream, origin>>
      BY <1>4 DEF Read, ReadFails
    <3>2. Accepted \cup Deliverable \subseteq Accepted'
      BY <2>2, <2>3, <2>5, <3>1
    <3> QED
      BY <2>2, <2>3, <2>5, <3>1, <3>2
  <2> QED
    BY <1>4, <2>4, <2>5 DEF Read, ReadFails, Receive
<1>5. ASSUME NEW w \in Workers, Ack(w) PROVE DeliveryInv'
  BY <1>5 DEF Ack
<1>6. ASSUME NEW w \in Workers, HandlingStep(w) PROVE DeliveryInv'
  BY <1>6, HandlingFrame
<1>7. ASSUME NEW i \in Ids, TimeStep(i) PROVE DeliveryInv'
  BY <1>7, TimeFrame
<1>8. CASE UNCHANGED vars
  BY <1>8 DEF vars, redis
<1> QED
  BY <1>1, <1>2, <1>3, <1>4, <1>5, <1>6, <1>7, <1>8, StepKinds

\* A job stays a job: the stream only grows, the group only moves forward.
LEMMA JobsStay ==
  ASSUME TypeOK, DeliveryInv, [Next]_vars
  PROVE  Accepted \subseteq Accepted' /\ Jobs \subseteq Jobs'
<1> USE DEF Accepted, Jobs, HasPayload, Ids, NoGroup
<1>0. Len(stream) \in Nat /\ lastId \in Int /\ origin \in Int /\ MaxEntries \in Nat
  BY ConstantsAssumption DEF TypeOK, StreamOK
<1>1. ASSUME NEW b \in Inputs, Publish(b) PROVE Jobs \subseteq Jobs'
  BY <1>0, <1>1 DEF Publish, TypeOK, StreamOK, DeliveryInv
<1>2. ASSUME NEW w \in Workers, Start(w)
      PROVE  Accepted \subseteq Accepted' /\ Jobs \subseteq Jobs'
  BY <1>0, <1>2 DEF Start
<1>3. ASSUME NEW w \in Workers, Read(w) \/ ReadFails(w)
      PROVE  Accepted \subseteq Accepted' /\ Jobs \subseteq Jobs'
  <2>1. lastId # -1
    BY <1>3 DEF Read, ReadFails, TypeOK, LocalsOK
  <2>2. lastId <= NextLastId /\ NextLastId \in -1 .. MaxEntries
    BY <2>1, <1>0, DeliverableIsNext DEF TypeOK, DeliveryInv
  <2> QED
    BY <1>0, <1>3, <2>2 DEF Read, ReadFails
<1>4. ASSUME UNCHANGED <<stream, lastId, origin>>
      PROVE  Accepted \subseteq Accepted' /\ Jobs \subseteq Jobs'
  BY <1>4
<1>5. ASSUME NEW b \in Inputs, Publish(b) PROVE Accepted \subseteq Accepted'
  BY <1>5 DEF Publish
<1>6. ASSUME NEW w \in Workers, Reclaim(w) \/ Ack(w)
      PROVE  UNCHANGED <<stream, lastId, origin>>
  BY <1>6 DEF Reclaim, Ack
<1>7. UNCHANGED vars => UNCHANGED <<stream, lastId, origin>>
  BY DEF vars, redis
<1> QED
  BY <1>1, <1>2, <1>3, <1>4, <1>5, <1>6, <1>7, StepKinds, HandlingFrame, TimeFrame

LEMMA HoldStep ==
  ASSUME TypeOK, DeliveryInv, HoldInv, [Next]_vars
  PROVE  HoldInv'
<1> USE DEF HoldInv
<1>1. Jobs \subseteq Jobs'
  BY JobsStay
<1>2. ASSUME UNCHANGED <<step, batch, cur>> PROVE HoldInv'
  BY <1>1, <1>2
<1>3. ASSUME NEW w \in Workers, Reclaim(w) PROVE HoldInv'
  <2>1. {i \in Claimable : HasPayload(i)} \subseteq Jobs
    BY ClaimableIsPending DEF DeliveryInv, Jobs
  <2> QED
    BY <1>1, <1>3, <2>1 DEF Reclaim, Receive, Goto, At, TypeOK, LocalsOK
<1>4. ASSUME NEW w \in Workers, Read(w) PROVE HoldInv'
  <2>1. {i \in Deliverable : HasPayload(i)} \subseteq pending'
    BY <1>4 DEF Read, Receive
  <2>2. {i \in Deliverable : HasPayload(i)} \subseteq Jobs'
    BY <1>4, <2>1, DeliveryStep DEF Read, DeliveryInv, Jobs, HasPayload
  <2> QED
    BY <1>1, <1>4, <2>2 DEF Read, Receive, Goto, At, TypeOK, LocalsOK
<1>5. ASSUME NEW w \in Workers, Skip(w) \/ BatchDone(w) \/ Stop(w)
      PROVE  HoldInv'
  BY <1>1, <1>5 DEF Skip, BatchDone, Stop, Goto, At, TypeOK, LocalsOK
<1>6. ASSUME NEW w \in Workers, Take(w) PROVE HoldInv'
  BY <1>1, <1>6 DEF Take, Goto, At, TypeOK, LocalsOK
<1>7. ASSUME NEW w \in Workers,
             \/ Succeed(w) \/ FailForGood(w) \/ FailForNow(w) \/ Incr(w)
             \/ ClearCount(w) \/ ClearDelay(w)
      PROVE  HoldInv'
  <2>1. /\ UNCHANGED <<batch, cur>>
        /\ step[w] \notin {"idle", "check"}
        /\ \A v \in Workers \ {w} : step'[v] = step[v]
    BY <1>7 DEF Succeed, FailForGood, FailForNow, Incr, ClearCount, ClearDelay,
                Settle, Decide, Goto, At, TypeOK, LocalsOK
  <2> QED
    BY <1>1, <2>1
<1>8. ASSUME NEW w \in Workers, SetDelay(w) \/ DeadLetter(w) \/ Ack(w)
      PROVE  HoldInv'
  BY <1>1, <1>8
     DEF SetDelay, DeadLetter, Ack, NextMessage, Goto, At, TypeOK, LocalsOK
<1>9. ASSUME NEW w \in Workers, Start(w) \/ ReclaimFails(w) \/ ReadFails(w)
      PROVE  UNCHANGED <<step, batch, cur>>
  BY <1>9 DEF Start, ReclaimFails, ReadFails
<1>10. ASSUME NEW b \in Inputs, Publish(b) PROVE UNCHANGED <<step, batch, cur>>
  BY <1>10 DEF Publish, locals
<1>11. UNCHANGED vars => UNCHANGED <<step, batch, cur>>
  BY DEF vars, locals
<1> QED
  BY <1>2, <1>3, <1>4, <1>5, <1>6, <1>7, <1>8, <1>9, <1>10, <1>11, StepKinds,
     TimeFrame DEF HandlingStep

LEMMA VerdictStep ==
  ASSUME TypeOK, VerdictInv, [Next]_vars
  PROVE  VerdictInv'
<1> USE DEF VerdictInv
<1>1. ASSUME UNCHANGED <<step, cur, verdict, completed, dlq>> PROVE VerdictInv'
  BY <1>1
<1>2. ASSUME NEW w \in Workers,
             \/ Reclaim(w) \/ Read(w) \/ Skip(w) \/ BatchDone(w)
             \/ FailForNow(w) \/ SetDelay(w) \/ Ack(w) \/ Stop(w)
      PROVE  VerdictInv'
  <2>1. /\ UNCHANGED <<completed, dlq>>
        /\ step'[w] \in {"idle", "check", "incr"}
        /\ \A v \in Workers \ {w} :
             step'[v] = step[v] /\ cur'[v] = cur[v] /\ verdict'[v] = verdict[v]
    BY <1>2 DEF Reclaim, Read, Skip, BatchDone, FailForNow, SetDelay, Ack, Stop,
                NextMessage, Goto, At, redis, history, TypeOK, LocalsOK
  <2> QED
    BY <2>1
<1>3. ASSUME NEW w \in Workers, Take(w) PROVE VerdictInv'
  BY <1>3 DEF Take, Goto, At, redis, history, TypeOK, LocalsOK
<1>4. ASSUME NEW w \in Workers, Succeed(w) \/ FailForGood(w) PROVE VerdictInv'
  BY <1>4 DEF Succeed, FailForGood, Settle, Goto, At, redis, TypeOK, LocalsOK
<1>5. ASSUME NEW w \in Workers, Incr(w) PROVE VerdictInv'
  <2>1. UNCHANGED <<cur, completed, dlq>>
    BY <1>5 DEF Incr
  <2>2. \/ step'[w] = "setDelay" /\ UNCHANGED verdict
        \/ step'[w] = "clearCount" /\ verdict' = [verdict EXCEPT ![w] = "dead"]
    BY <1>5 DEF Incr, Decide, Settle, Goto, TypeOK, LocalsOK
  <2>3. \A v \in Workers \ {w} : step'[v] = step[v]
    BY <1>5 DEF Incr, Decide, Settle, Goto, TypeOK, LocalsOK
  <2> QED
    BY <2>1, <2>2, <2>3 DEF TypeOK, LocalsOK
<1>6. ASSUME NEW w \in Workers, ClearCount(w) \/ ClearDelay(w) PROVE VerdictInv'
  BY <1>6 DEF ClearCount, ClearDelay, Goto, At, history, TypeOK, LocalsOK
<1>7. ASSUME NEW w \in Workers, DeadLetter(w) PROVE VerdictInv'
  BY <1>7 DEF DeadLetter, NextMessage, Goto, At, history, TypeOK, LocalsOK
<1>8. ASSUME NEW w \in Workers, Start(w) \/ ReclaimFails(w) \/ ReadFails(w)
      PROVE  UNCHANGED <<step, cur, verdict, completed, dlq>>
  BY <1>8 DEF Start, ReclaimFails, ReadFails, history
<1>9. ASSUME NEW b \in Inputs, Publish(b)
      PROVE  UNCHANGED <<step, cur, verdict, completed, dlq>>
  BY <1>9 DEF Publish, locals, history
<1>10. UNCHANGED vars => UNCHANGED <<step, cur, verdict, completed, dlq>>
  BY DEF vars, redis, locals, history
<1> QED
  BY <1>1, <1>2, <1>3, <1>4, <1>5, <1>6, <1>7, <1>8, <1>9, <1>10, StepKinds,
     TimeFrame DEF HandlingStep

\* Reasons to give an entry up are not forgotten.
LEMMA EarnedStays ==
  ASSUME TypeOK, [Next]_vars, NEW i \in DOMAIN stream, Earned(i)
  PROVE  Earned(i)' /\ i \in DOMAIN stream'
<1> USE DEF Earned
<1>0. i \in Ids /\ i \in 1 .. Len(stream)
  BY ConstantsAssumption DEF TypeOK, StreamOK, Ids
<1>1. ASSUME NEW b \in Inputs, Publish(b)
      PROVE  Earned(i)' /\ i \in DOMAIN stream'
  BY <1>0, <1>1 DEF Publish, history, TypeOK, StreamOK
<1>2. ASSUME NEW w \in Workers, HandlingStep(w)
      PROVE  /\ stream' = stream /\ fatal \subseteq fatal'
             /\ failures[i] <= failures'[i]
  <2>1. stream' = stream
    BY <1>2, HandlingFrame
  <2>2. CASE Incr(w)
    <3>1. failures[i] \in 0 .. MaxRetries
      BY <1>0 DEF TypeOK, HistoryOK
    <3>2. failures'[i] \in {failures[i], Bump(failures[i])}
      BY <1>0, <2>2 DEF Incr, TypeOK, HistoryOK
    <3> QED
      BY <2>1, <2>2, <3>1, <3>2, BumpBounded DEF Incr
  <2>3. CASE FailForGood(w)
    BY <1>0, <2>1, <2>3 DEF FailForGood, TypeOK, HistoryOK
  <2>4. CASE ~Incr(w) /\ ~FailForGood(w)
    <3>1. UNCHANGED <<fatal, failures>>
      BY <1>2, <2>4
         DEF HandlingStep, ReclaimFails, Skip, Take, BatchDone, Succeed,
             FailForNow, SetDelay, ClearCount, ClearDelay, DeadLetter, Stop,
             history
    <3> QED
      BY <1>0, <2>1, <3>1 DEF TypeOK, HistoryOK
  <2> QED
    BY <2>2, <2>3, <2>4
<1>3. ASSUME NEW w \in Workers,
             Start(w) \/ Reclaim(w) \/ Read(w) \/ ReadFails(w) \/ Ack(w)
      PROVE  UNCHANGED <<stream, fatal, failures>>
  BY <1>3 DEF Start, Reclaim, Read, ReadFails, Ack, history
<1>4. UNCHANGED vars => UNCHANGED <<stream, fatal, failures>>
  BY DEF vars, redis, history
<1>5. /\ failures[i] \in 0 .. MaxRetries /\ failures'[i] \in 0 .. MaxRetries
      /\ MaxRetries \in Nat
  BY <1>0, TypeStep, ConstantsAssumption DEF TypeOK, HistoryOK
<1> QED
  BY <1>1, <1>2, <1>3, <1>4, <1>5, StepKinds, TimeFrame

LEMMA CountStep ==
  ASSUME TypeOK, CountInv, [Next]_vars
  PROVE  CountInv'
<1> USE DEF CountInv
<1>1. ASSUME UNCHANGED <<retryCount, failures>>
      PROVE  CountInv'
  BY <1>1
<1>2. ASSUME NEW w \in Workers, Incr(w)
      PROVE  CountInv'
  <2>1. failures' = [failures EXCEPT ![cur[w]] = Bump(@)]
    BY <1>2 DEF Incr
  <2>2. \/ retryCount' = [retryCount EXCEPT ![cur[w]] = Bump(@)]
        \/ retryCount' = retryCount
    BY <1>2 DEF Incr
  <2>3. \A i \in Ids : retryCount[i] \in 0 .. MaxRetries
                       /\ failures[i] \in 0 .. MaxRetries
    BY DEF TypeOK, KeysOK, HistoryOK
  <2>4. \A m, n \in 0 .. MaxRetries :
          m <= n => Bump(m) <= Bump(n) /\ m <= Bump(n)
    BY ConstantsAssumption DEF Bump
  <2> QED
    BY <2>1, <2>2, <2>3, <2>4 DEF TypeOK, KeysOK, HistoryOK
<1>3. ASSUME NEW w \in Workers, ClearCount(w)
      PROVE  CountInv'
  BY <1>3 DEF ClearCount, history, TypeOK, KeysOK, HistoryOK
<1>4. ASSUME NEW i \in Ids, TimeStep(i)
      PROVE  CountInv'
  BY <1>4, TimeFrame DEF TypeOK, KeysOK, HistoryOK
<1>5. ASSUME NEW w \in Workers,
             \/ Start(w) \/ Reclaim(w) \/ Read(w) \/ ReadFails(w) \/ Ack(w)
             \/ HandlingStep(w) /\ ~Incr(w) /\ ~ClearCount(w)
      PROVE  UNCHANGED <<retryCount, failures>>
  BY <1>5 DEF Start, Reclaim, Read, ReadFails, Ack, HandlingStep, ReclaimFails,
              Skip, Take, BatchDone, Succeed, FailForGood, FailForNow,
              SetDelay, ClearDelay, DeadLetter, Stop, redis, history
<1>6. ASSUME NEW b \in Inputs, Publish(b)
      PROVE  UNCHANGED <<retryCount, failures>>
  BY <1>6 DEF Publish, history
<1>7. UNCHANGED vars => UNCHANGED <<retryCount, failures>>
  BY DEF vars, redis, history
<1> QED
  BY <1>1, <1>2, <1>3, <1>4, <1>5, <1>6, <1>7, StepKinds

\* A message being handled is an entry of the stream, and so are the letters.
LEMMA HeldInStream ==
  ASSUME TypeOK, DeliveryInv, HoldInv, NEW w \in Workers,
         step[w] \notin {"idle", "check"}
  PROVE  cur[w] \in DOMAIN stream /\ cur[w] \in Ids /\ HasPayload(cur[w])
  BY ConstantsAssumption
     DEF HoldInv, Jobs, Accepted, DeliveryInv, TypeOK, StreamOK, Ids, NoGroup

LEMMA CauseStep ==
  ASSUME TypeOK, DeliveryInv, HoldInv, VerdictInv, CountInv, CauseInv,
         [Next]_vars
  PROVE  CauseInv'
<1>1. \A i \in DOMAIN stream : Earned(i) => Earned(i)' /\ i \in DOMAIN stream'
  BY EarnedStays
<1>2. \A w \in Workers, i \in Ids :
        GivingUp(w) /\ cur[w] = i => i \in DOMAIN stream /\ Earned(i)
  BY HeldInStream DEF CauseInv, GivingUp
<1>3. ASSUME \A i \in dlq' : i \in dlq \/ (Earned(i)' /\ i \in DOMAIN stream'),
             \A w \in Workers, i \in Ids :
               GivingUp(w)' /\ cur'[w] = i =>
                 (GivingUp(w) /\ cur[w] = i) \/ Earned(i)'
      PROVE  CauseInv'
  <2>1. \A w \in Workers : GivingUp(w)' => cur'[w] \in Ids
    BY TypeStep DEF GivingUp, TypeOK, LocalsOK, Ids
  <2>2. \A w \in Workers, i \in Ids : GivingUp(w)' /\ cur'[w] = i => Earned(i)'
    BY <1>1, <1>2, <1>3
  <2> QED
    BY <1>1, <1>3, <2>1, <2>2 DEF CauseInv
<1>4. ASSUME NEW w \in Workers, UNCHANGED dlq,
             \A v \in Workers \ {w} : /\ step'[v] = step[v] /\ cur'[v] = cur[v]
                                      /\ verdict'[v] = verdict[v],
             \A i \in Ids : GivingUp(w)' /\ cur'[w] = i =>
               (GivingUp(w) /\ cur[w] = i) \/ Earned(i)'
      PROVE  CauseInv'
  <2>1. ASSUME NEW v \in Workers, NEW i \in Ids, GivingUp(v)', cur'[v] = i
        PROVE  (GivingUp(v) /\ cur[v] = i) \/ Earned(i)'
    BY <1>4, <2>1 DEF GivingUp
  <2> QED
    BY <1>3, <1>4, <2>1 DEF Earned, GivingUp
<1>5. ASSUME NEW w \in Workers,
             \/ Reclaim(w) \/ Read(w) \/ Skip(w) \/ BatchDone(w)
             \/ Succeed(w) \/ FailForNow(w) \/ SetDelay(w) \/ Ack(w) \/ Stop(w)
      PROVE  CauseInv'
  <2>1. /\ UNCHANGED dlq
        /\ step'[w] \notin {"deadLetter", "clearDelay"}
        /\ step'[w] = "clearCount" => verdict'[w] = "done"
        /\ \A v \in Workers \ {w} :
             step'[v] = step[v] /\ cur'[v] = cur[v] /\ verdict'[v] = verdict[v]
    BY <1>5
       DEF Reclaim, Read, Skip, BatchDone, Succeed, FailForNow, SetDelay, Ack,
           Stop, Settle, NextMessage, Goto, At, redis, TypeOK, LocalsOK
  <2> QED
    BY <1>4, <2>1 DEF GivingUp
<1>6. ASSUME NEW w \in Workers, Take(w) PROVE CauseInv'
  <2>1. \A i \in batch[w] :
          i \in DOMAIN stream /\ (stream[i] # "job" => stream[i] = "malformed")
    BY ConstantsAssumption
       DEF HoldInv, Jobs, Accepted, HasPayload, DeliveryInv, TypeOK, StreamOK,
           Ids, NoGroup, Bodies
  <2>2. /\ UNCHANGED <<dlq, stream>>
        /\ \A v \in Workers \ {w} :
             step'[v] = step[v] /\ cur'[v] = cur[v] /\ verdict'[v] = verdict[v]
    BY <1>6 DEF Take, Goto, redis, TypeOK, LocalsOK
  <2>3. GivingUp(w)' => stream[cur'[w]] # "job" /\ cur'[w] \in batch[w]
    BY <1>6 DEF Take, Goto, GivingUp, TypeOK, LocalsOK
  <2> QED
    BY <1>4, <2>1, <2>2, <2>3 DEF Earned
<1>7. ASSUME NEW w \in Workers, FailForGood(w) PROVE CauseInv'
  <2>1. /\ UNCHANGED <<dlq, cur>> /\ cur[w] \in fatal'
        /\ \A v \in Workers \ {w} :
             step'[v] = step[v] /\ verdict'[v] = verdict[v]
    BY <1>7 DEF FailForGood, Settle, Goto, redis, TypeOK, LocalsOK
  <2> QED
    BY <1>4, <2>1 DEF Earned
<1>8. ASSUME NEW w \in Workers, Incr(w) PROVE CauseInv'
  <2>1. cur[w] \in Ids
    BY <1>8 DEF Incr, At, TypeOK, LocalsOK, Ids
  <2>2. /\ UNCHANGED <<dlq, cur>> /\ failures'[cur[w]] = Bump(failures[cur[w]])
    BY <1>8, <2>1 DEF Incr, TypeOK, HistoryOK
  <2>3. \E attempt \in {1, Bump(retryCount[cur[w]])} :
          Decide(w, attempt)
    BY <1>8 DEF Incr
  <2>4. \A v \in Workers \ {w} : step'[v] = step[v] /\ verdict'[v] = verdict[v]
    BY <2>3 DEF Decide, Settle, Goto, TypeOK, LocalsOK
  <2>5. step'[w] \in {"clearCount", "clearDelay", "deadLetter"}
          => 1 >= MaxRetries \/ Bump(retryCount[cur[w]]) >= MaxRetries
    BY <2>3 DEF Decide, Settle, Goto, TypeOK, LocalsOK
  <2>6. 1 >= MaxRetries \/ Bump(retryCount[cur[w]]) >= MaxRetries
          => Bump(failures[cur[w]]) >= MaxRetries
    <3>1. /\ retryCount[cur[w]] \in 0 .. MaxRetries
          /\ failures[cur[w]] \in 0 .. MaxRetries
          /\ retryCount[cur[w]] <= failures[cur[w]]
      BY <2>1 DEF CountInv, TypeOK, KeysOK, HistoryOK
    <3> QED
      BY <3>1, ConstantsAssumption DEF Bump
  <2> QED
    BY <1>4, <2>2, <2>4, <2>5, <2>6 DEF Earned, GivingUp
<1>9. ASSUME NEW w \in Workers, ClearCount(w) \/ ClearDelay(w) PROVE CauseInv'
  <2>1. /\ UNCHANGED <<dlq, cur, verdict>>
        /\ \A v \in Workers \ {w} : step'[v] = step[v]
        /\ GivingUp(w)' => GivingUp(w)
    BY <1>9
       DEF ClearCount, ClearDelay, Goto, At, GivingUp, VerdictInv, TypeOK,
           LocalsOK
  <2> QED
    BY <1>4, <2>1
<1>10. ASSUME NEW w \in Workers, DeadLetter(w) PROVE CauseInv'
  <2>1. /\ dlq' \subseteq dlq \cup {cur[w]}
        /\ GivingUp(w) /\ cur[w] \in Ids
        /\ step'[w] \in {"ack", "check"}
        /\ \A v \in Workers \ {w} :
             step'[v] = step[v] /\ cur'[v] = cur[v] /\ verdict'[v] = verdict[v]
    BY <1>10
       DEF DeadLetter, NextMessage, Goto, At, GivingUp, TypeOK, LocalsOK, Ids
  <2>2. cur[w] \in DOMAIN stream' /\ \A i \in Ids : i = cur[w] => Earned(i)'
    BY <1>1, <1>2, <2>1
  <2>3. \A v \in Workers, i \in Ids :
          GivingUp(v)' /\ cur'[v] = i => GivingUp(v) /\ cur[v] = i
    BY <2>1 DEF GivingUp
  <2>4. ASSUME NEW i \in dlq', i \notin dlq
        PROVE  Earned(i)' /\ i \in DOMAIN stream'
    <3>1. i = cur[w] /\ i \in Ids
      BY <2>1, <2>4
    <3> QED
      BY <2>2, <3>1
  <2> QED
    BY <1>3, <2>3, <2>4 DEF Earned, GivingUp
<1>11. ASSUME UNCHANGED <<dlq, step, cur, verdict>> PROVE CauseInv'
  <2>1. \A w \in Workers : GivingUp(w)' <=> GivingUp(w)
    BY <1>11 DEF GivingUp
  <2> QED
    BY <1>3, <1>11, <2>1 DEF Earned, GivingUp
<1>12. ASSUME NEW w \in Workers, Start(w) \/ ReclaimFails(w) \/ ReadFails(w)
       PROVE  UNCHANGED <<dlq, step, cur, verdict>>
  BY <1>12 DEF Start, ReclaimFails, ReadFails
<1>13. ASSUME NEW b \in Inputs, Publish(b)
       PROVE  UNCHANGED <<dlq, step, cur, verdict>>
  BY <1>13 DEF Publish, locals
<1>14. UNCHANGED vars => UNCHANGED <<dlq, step, cur, verdict>>
  BY DEF vars, redis, locals
<1> QED
  BY <1>5, <1>6, <1>7, <1>8, <1>9, <1>10, <1>11, <1>12, <1>13, <1>14,
     StepKinds, TimeFrame DEF HandlingStep

-----------------------------------------------------------------------------
\* The inductive invariant of the queue.
IInv ==
  /\ TypeOK /\ DeliveryInv /\ HoldInv /\ VerdictInv /\ CountInv /\ CauseInv

LEMMA IInvHolds == Spec => []IInv
<1>1. Init => IInv
  <2>1. Init => TypeOK
    BY ConstantsAssumption
       DEF Init, TypeOK, StreamOK, KeysOK, LocalsOK, HistoryOK, Bodies, Steps,
           Ids, NoGroup
  <2>2. Init => DeliveryInv /\ HoldInv /\ VerdictInv
    BY DEF Init, DeliveryInv, HoldInv, VerdictInv, NoGroup
  <2>3. Init => CountInv /\ CauseInv
    BY DEF Init, CountInv, CauseInv, GivingUp
  <2> QED
    BY <2>1, <2>2, <2>3 DEF IInv
<1>2. IInv /\ [Next]_vars => IInv'
  BY TypeStep, DeliveryStep, HoldStep, VerdictStep, CountStep, CauseStep
     DEF IInv
<1> QED
  BY <1>1, <1>2, PTL DEF Spec

\* Nothing is given up without cause: the payload does not parse, the job
\* failed for good, or it failed MaxRetries times.
THEOREM GivenUpForCause == Spec => []DeadLetterEarned
<1>1. IInv => DeadLetterEarned
  BY DEF IInv, CauseInv, Earned, DeadLetterEarned
<1> QED
  BY <1>1, IInvHolds, PTL

-----------------------------------------------------------------------------
\* What a step of the queue is for JobDelivery.
LEMMA PublishRefines ==
  ASSUME IInv, NEW b \in Inputs, Publish(b)
  PROVE  Promise!Next \/ UNCHANGED Promise!vars
<1> DEFINE new == Len(stream) + 1
<1>1. /\ Len(stream) \in Nat /\ MaxEntries \in Nat /\ lastId \in Int
      /\ new \in Ids /\ DOMAIN stream' = DOMAIN stream \cup {new}
      /\ stream'[new] = b /\ \A i \in DOMAIN stream : stream'[i] = stream[i]
      /\ new \notin DOMAIN stream
  BY ConstantsAssumption DEF Publish, IInv, TypeOK, StreamOK, Ids
<1>2. UNCHANGED <<Accepted, pending, completed, dlq>>
  BY DEF Publish, history, Accepted
<1>3. new \notin Accepted
  BY <1>1 DEF Accepted, IInv, DeliveryInv
<1>4. CASE b = "bare"
  <2>1. Void' = Void \cup {new}
    BY <1>1, <1>4 DEF Void, HasPayload
  <2>2. Promise!PublishVoid(new)
    BY <1>2, <1>3, <2>1 DEF Promise!PublishVoid
  <2> QED
    BY <1>1, <2>2 DEF Promise!Next
<1>5. CASE b # "bare"
  <2>1. Void' = Void
    BY <1>1, <1>5 DEF Void, HasPayload
  <2> QED
    BY <1>2, <2>1 DEF Promise!vars
<1> QED
  BY <1>4, <1>5

\* Delivery and reclaim hand entries over, and close those without payload.
LEMMA ReceiveRefines ==
  ASSUME IInv, NEW w \in Workers, Reclaim(w) \/ Read(w) \/ ReadFails(w)
  PROVE  Promise!Next \/ UNCHANGED Promise!vars
<1>1. UNCHANGED <<Void, completed, dlq>>
  BY DEF Reclaim, Read, ReadFails, history, Void, HasPayload
<1>2. CASE Reclaim(w)
  <2>1. PICK closed \in SUBSET Ids :
          closed \subseteq Void /\ pending' = pending \ closed
    <3>1. Claimable \subseteq Ids /\ \A i \in Claimable : i \in DOMAIN stream
      BY ClaimableIsPending, ConstantsAssumption
         DEF IInv, DeliveryInv, Accepted, TypeOK, StreamOK, Ids, NoGroup
    <3>2. \E closed \in SUBSET {i \in Claimable : ~HasPayload(i)} :
            pending' = pending \ closed
      BY <1>2 DEF Reclaim, Receive
    <3> QED
      BY <3>1, <3>2 DEF Void
  <2>2. Accepted' = Accepted
    BY <1>2 DEF Reclaim, Accepted
  <2>3. Promise!Accept({}, closed)
    BY <1>1, <2>1, <2>2 DEF Promise!Accept
  <2> QED
    BY <2>1, <2>3 DEF Promise!Next
<1>3. CASE Read(w) \/ ReadFails(w)
  <2>1. lastId # NoGroup
    BY <1>3 DEF Read, ReadFails, IInv, TypeOK, LocalsOK
  <2>2. CASE UNCHANGED <<lastId, pending>>
    <3>1. Accepted' = Accepted
      BY <1>3, <2>2 DEF Read, ReadFails, Accepted
    <3> QED
      BY <1>1, <2>2, <3>1 DEF Promise!vars
  <2>3. CASE \E closed \in SUBSET Deliverable :
               /\ \A i \in closed : ~HasPayload(i)
               /\ pending' = (pending \cup Deliverable) \ closed
               /\ lastId' = NextLastId
    <3>1. PICK closed \in SUBSET Deliverable :
               /\ \A i \in closed : ~HasPayload(i)
               /\ pending' = (pending \cup Deliverable) \ closed
               /\ lastId' = NextLastId
      BY <2>3
    <3>2. /\ NextLastId \in 0 .. MaxEntries /\ Deliverable \subseteq Ids
          /\ Deliverable = lastId + 1 .. NextLastId
          /\ lastId <= NextLastId /\ NextLastId <= Len(stream)
      BY <2>1, DeliverableIsNext DEF IInv, DeliveryInv, TypeOK
    <3>3. /\ lastId \in Int /\ origin \in Int /\ origin <= lastId
          /\ 0 <= lastId /\ Len(stream) \in Nat /\ origin' = origin
          /\ MaxEntries \in Nat
      BY <1>3, <2>1, ConstantsAssumption
         DEF Read, ReadFails, IInv, DeliveryInv, TypeOK, StreamOK, NoGroup
    <3>4. /\ Accepted' = Accepted \cup Deliverable
          /\ Deliverable \cap Accepted = {}
      BY <3>1, <3>2, <3>3 DEF Accepted, Ids
    <3>5. closed \subseteq Void
      BY <3>1, <3>2, <3>3 DEF Void
    <3>6. Promise!Accept(Deliverable, closed)
      BY <1>1, <3>1, <3>4, <3>5 DEF Promise!Accept
    <3> QED
      BY <3>1, <3>2, <3>6 DEF Promise!Next
  <2>4. \/ UNCHANGED <<lastId, pending>>
        \/ \E closed \in SUBSET Deliverable :
               /\ \A i \in closed : ~HasPayload(i)
               /\ pending' = (pending \cup Deliverable) \ closed
               /\ lastId' = NextLastId
    <3>1. CASE Read(w)
      BY <3>1 DEF Read, Receive
    <3>2. CASE ReadFails(w)
      <4>1. \/ UNCHANGED <<lastId, pending>>
            \/ lastId' = NextLastId /\ pending' = pending \cup Deliverable
        BY <3>2 DEF ReadFails
      <4>2. /\ {} \in SUBSET Deliverable
            /\ pending \cup Deliverable = (pending \cup Deliverable) \ {}
        OBVIOUS
      <4>3. \A i \in {} : ~HasPayload(i)
        OBVIOUS
      <4> QED
        BY <4>1, <4>2, <4>3
    <3> QED
      BY <1>3, <3>1, <3>2
  <2> QED
    BY <2>2, <2>3, <2>4
<1> QED
  BY <1>2, <1>3

\* Of the other steps of a worker, the results of a job, the dead letter and
\* the acknowledgement matter to the promise.
LEMMA HandlingRefines ==
  ASSUME IInv, NEW w \in Workers, HandlingStep(w) \/ Start(w) \/ Ack(w)
  PROVE  Promise!Next \/ UNCHANGED Promise!vars
<1>1. UNCHANGED <<Void, Accepted>>
  <2>1. CASE HandlingStep(w)
    BY <2>1, HandlingFrame DEF Void, Accepted, HasPayload
  <2>2. CASE Ack(w)
    BY <2>2 DEF Ack, Void, Accepted, HasPayload
  <2>3. CASE Start(w)
    <3>1. UNCHANGED Void
      BY <2>3 DEF Start, Void, HasPayload
    <3>2. lastId \in Int /\ origin \in Int
      BY ConstantsAssumption DEF IInv, TypeOK, StreamOK, NoGroup
    <3>3. Accepted' = Accepted
      BY <2>3, <3>2, ConstantsAssumption
         DEF Start, IInv, TypeOK, StreamOK, Accepted, Ids, NoGroup
    <3> QED
      BY <3>1, <3>3
  <2> QED
    BY <2>1, <2>2, <2>3
<1>2. step[w] \notin {"idle", "check"} => cur[w] \in Accepted \ Void
                                          /\ cur[w] \in Ids
  BY HeldInStream DEF IInv, HoldInv, Jobs, Void
<1>3. CASE Succeed(w)
  <2>1. Promise!Complete(cur[w])
    BY <1>1, <1>2, <1>3 DEF Succeed, At, redis, Promise!Complete
  <2> QED
    BY <1>2, <1>3, <2>1 DEF Succeed, At, Promise!Next
<1>4. CASE DeadLetter(w)
  <2>1. CASE dlq' = dlq \cup {cur[w]}
    <3>1. Promise!GiveUp(cur[w])
      BY <1>1, <1>2, <1>4, <2>1 DEF DeadLetter, At, history, Promise!GiveUp
    <3> QED
      BY <1>2, <1>4, <3>1 DEF DeadLetter, At, Promise!Next
  <2>2. CASE dlq' = dlq
    BY <1>1, <1>4, <2>2 DEF DeadLetter, history, Promise!vars
  <2> QED
    BY <1>4, <2>1, <2>2 DEF DeadLetter
<1>5. CASE Ack(w)
  <2>1. cur[w] \in completed \cup dlq
    BY <1>5 DEF Ack, At, IInv, VerdictInv
  <2>2. CASE pending' = pending \ {cur[w]}
    <3>1. Promise!Close(cur[w])
      BY <1>1, <1>5, <2>1, <2>2 DEF Ack, history, Promise!Close
    <3> QED
      BY <1>2, <1>5, <3>1 DEF Ack, At, Promise!Next
  <2>3. CASE pending' = pending
    BY <1>1, <1>5, <2>3 DEF Ack, history, Promise!vars
  <2> QED
    BY <1>5, <2>2, <2>3 DEF Ack
<1>6. CASE Start(w)
  BY <1>1, <1>6 DEF Start, history, Promise!vars
<1>7. CASE HandlingStep(w) /\ ~Succeed(w) /\ ~DeadLetter(w)
  <2>1. UNCHANGED <<completed, dlq>>
    BY <1>7
       DEF HandlingStep, ReclaimFails, Skip, Take, BatchDone, FailForGood,
           FailForNow, Incr, SetDelay, ClearCount, ClearDelay, Stop, redis,
           history
  <2> QED
    BY <1>1, <1>7, <2>1, HandlingFrame DEF Promise!vars
<1> QED
  BY <1>3, <1>4, <1>5, <1>6, <1>7

\* The queue implements at-least-once handling.
THEOREM ImplementsDelivery == Spec => AtLeastOnce
<1>1. Init => Promise!Init
  <2>1. Init => Void = {} /\ Accepted = {}
    BY DEF Init, Void, Accepted, NoGroup, Ids
  <2> QED
    BY <2>1 DEF Init, Promise!Init
<1>2. IInv /\ [Next]_vars => [Promise!Next]_(Promise!vars)
  <2> SUFFICES ASSUME IInv, [Next]_vars
               PROVE  Promise!Next \/ UNCHANGED Promise!vars
    OBVIOUS
  <2>1. ASSUME NEW i \in Ids, TimeStep(i) PROVE UNCHANGED Promise!vars
    BY <2>1, TimeFrame DEF Promise!vars, Void, Accepted, HasPayload
  <2>2. CASE UNCHANGED vars
    BY <2>2
       DEF vars, redis, history, Promise!vars, Void, Accepted, HasPayload
  <2> QED
    BY <2>1, <2>2, StepKinds, PublishRefines, ReceiveRefines, HandlingRefines
<1> QED
  BY <1>1, <1>2, IInvHolds, PTL DEF Spec, AtLeastOnce, Promise!Spec

-----------------------------------------------------------------------------
\* Only entries without a payload, and the entry a worker acknowledges, leave
\* the pending list.
LEMMA LeavesPending ==
  ASSUME IInv, [Next]_vars, NEW i \in pending, i \notin pending'
  PROVE  ~HasPayload(i) \/ i \in completed \/ i \in dlq
<1>1. ASSUME NEW w \in Workers, Ack(w)
      PROVE  i \in completed \/ i \in dlq
  BY <1>1 DEF Ack, At, IInv, VerdictInv
<1>2. ASSUME NEW w \in Workers, Reclaim(w) \/ Read(w) \/ ReadFails(w)
      PROVE  ~HasPayload(i)
  BY <1>2 DEF Reclaim, Read, ReadFails, Receive
<1>3. ASSUME NEW w \in Workers, Start(w) PROVE FALSE
  BY <1>3 DEF Start
<1>4. ASSUME NEW b \in Inputs, Publish(b) PROVE FALSE
  BY <1>4 DEF Publish
<1>5. CASE UNCHANGED vars
  BY <1>5 DEF vars, redis
<1> QED
  BY <1>1, <1>2, <1>3, <1>4, <1>5, StepKinds, HandlingFrame, TimeFrame

\* Entries become accepted by being delivered, and stay pending unless they
\* have no payload.
LEMMA EntersPending ==
  ASSUME IInv, [Next]_vars, NEW i \in Accepted', i \notin Accepted
  PROVE  i \in DOMAIN stream /\ (~HasPayload(i) \/ i \in pending')
<1> USE DEF Accepted
<1>1. ASSUME UNCHANGED <<lastId, origin>> PROVE FALSE
  BY <1>1
<1>2. ASSUME NEW w \in Workers, Start(w) PROVE FALSE
  BY <1>2, ConstantsAssumption DEF Start, IInv, TypeOK, StreamOK, Ids, NoGroup
<1>3. ASSUME NEW w \in Workers, Read(w) \/ ReadFails(w), lastId' = NextLastId
      PROVE  i \in DOMAIN stream /\ (~HasPayload(i) \/ i \in pending')
  <2>1. lastId # NoGroup
    BY <1>3 DEF Read, ReadFails, IInv, TypeOK, LocalsOK
  <2>2. /\ lastId \in Int /\ NextLastId \in Int /\ Len(stream) \in Nat
        /\ lastId <= NextLastId /\ NextLastId <= Len(stream) /\ 0 <= lastId
        /\ Deliverable = lastId + 1 .. NextLastId
    BY <2>1, DeliverableIsNext, ConstantsAssumption
       DEF IInv, DeliveryInv, TypeOK, StreamOK, NoGroup
  <2>3. i \in Int /\ origin' = origin
    BY <1>3 DEF Read, ReadFails, Ids
  <2>4. i \in Deliverable
    BY <1>3, <2>2, <2>3
  <2>5. CASE Read(w)
    BY <2>2, <2>4, <2>5 DEF Read, Receive, IInv, TypeOK, StreamOK
  <2>6. CASE ReadFails(w) /\ pending' = pending \cup Deliverable
    BY <2>2, <2>4, <2>6 DEF IInv, TypeOK, StreamOK
  <2>7. CASE ReadFails(w) /\ UNCHANGED <<lastId, pending>>
    BY <1>1, <2>3, <2>7
  <2> QED
    BY <1>3, <2>5, <2>6, <2>7 DEF ReadFails
<1>4. ASSUME NEW w \in Workers,
             \/ Reclaim(w) \/ Ack(w)
             \/ ReadFails(w) /\ lastId' # NextLastId
      PROVE  UNCHANGED <<lastId, origin>>
  BY <1>4 DEF Reclaim, Ack, ReadFails
<1>5. ASSUME NEW b \in Inputs, Publish(b) PROVE UNCHANGED <<lastId, origin>>
  BY <1>5 DEF Publish
<1>6. UNCHANGED vars => UNCHANGED <<lastId, origin>>
  BY DEF vars, redis
<1>7. ASSUME NEW w \in Workers, Read(w) PROVE lastId' = NextLastId
  BY <1>7 DEF Read
<1> QED
  BY <1>1, <1>2, <1>3, <1>4, <1>5, <1>6, <1>7, StepKinds, HandlingFrame,
     TimeFrame

\* Reasons for an entry to be off the pending list are not forgotten.
LEMMA OutcomesStay ==
  ASSUME TypeOK, [Next]_vars
  PROVE  /\ completed \subseteq completed' /\ dlq \subseteq dlq'
         /\ \A i \in DOMAIN stream : HasPayload(i)' <=> HasPayload(i)
<1> USE DEF HasPayload
<1>1. ASSUME NEW b \in Inputs, Publish(b)
      PROVE  /\ UNCHANGED <<completed, dlq>>
             /\ \A i \in DOMAIN stream : stream'[i] = stream[i]
  BY <1>1 DEF Publish, history, TypeOK, StreamOK
<1>2. ASSUME NEW w \in Workers,
             Start(w) \/ Reclaim(w) \/ Read(w) \/ ReadFails(w) \/ Ack(w)
      PROVE  UNCHANGED <<stream, completed, dlq>>
  BY <1>2 DEF Start, Reclaim, Read, ReadFails, Ack, history
<1>3. ASSUME NEW w \in Workers, HandlingStep(w)
      PROVE  completed \subseteq completed' /\ dlq \subseteq dlq'
  BY <1>3
     DEF HandlingStep, ReclaimFails, Skip, Take, BatchDone, Succeed,
         FailForGood, FailForNow, Incr, SetDelay, ClearCount, ClearDelay,
         DeadLetter, Stop, redis, history
<1>4. UNCHANGED vars => UNCHANGED <<stream, completed, dlq>>
  BY DEF vars, redis, history
<1> QED
  BY <1>1, <1>2, <1>3, <1>4, StepKinds, HandlingFrame, TimeFrame

\* No accepted entry with a payload is lost.
THEOREM NothingLost == Spec => []NoLoss
<1>1. Init => NoLoss
  BY DEF Init, NoLoss, Accepted, NoGroup, Ids
<1>2. IInv /\ NoLoss /\ [Next]_vars => NoLoss'
  <2> SUFFICES ASSUME IInv, NoLoss, [Next]_vars,
                      NEW i \in Accepted', HasPayload(i)'
               PROVE  i \in pending' \/ i \in completed' \/ i \in dlq'
    BY DEF NoLoss
  <2>1. CASE i \in Accepted
    <3>1. i \in DOMAIN stream
      BY <2>1, ConstantsAssumption
         DEF Accepted, IInv, DeliveryInv, TypeOK, StreamOK, Ids, NoGroup
    <3>2. HasPayload(i)
      BY <3>1, OutcomesStay DEF IInv
    <3> QED
      BY <2>1, <3>2, LeavesPending, OutcomesStay DEF NoLoss, IInv
  <2>2. CASE i \notin Accepted
    BY <2>2, EntersPending, OutcomesStay DEF IInv
  <2> QED
    BY <2>1, <2>2
<1> QED
  BY <1>1, <1>2, IInvHolds, PTL DEF Spec
=============================================================================
