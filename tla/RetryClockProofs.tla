-------------------------- MODULE RetryClockProofs --------------------------
(***************************************************************************)
(* Theorems about RetryClock, for any number of workers and entries and    *)
(* any durations: how large the reclaim threshold must be for no job to    *)
(* run in two workers, and how long the counter must live for no attempt   *)
(* to be forgotten while an entry waits for its turn.                      *)
(***************************************************************************)
EXTENDS RetryClock, FiniteSetTheorems, WellFoundedInduction, TLAPS

USE DurationsAssumption

\* An entry must be idle for longer than a worker takes for a whole batch.
Patient == MaxJobTime * BatchSize < Threshold

-----------------------------------------------------------------------------
(* Oldest.                                                                 *)

LEMMA Least ==
  ASSUME NEW S, S \subseteq Nat, S # {}
  PROVE  \E x \in S : \A y \in S : x <= y
<1> DEFINE R == OpToRel(<, Nat)
<1>1. IsWellFoundedOn(R, Nat)
  BY NatLessThanWellFounded
<1>2. R = {ss \in Nat \X Nat : ss[1] < ss[2]}
  BY DEF OpToRel
<1> HIDE DEF R
<1>3. PICK x \in S : \A y \in S : ~ (<<y, x>> \in R)
  BY <1>1, WFMin
<1>4. ASSUME NEW y \in S, y < x PROVE FALSE
  <2>1. <<y, x>> \in Nat \X Nat /\ <<y, x>>[1] = y /\ <<y, x>>[2] = x
    OBVIOUS
  <2>2. <<y, x>> \in R
    BY <1>2, <1>4, <2>1
  <2> QED BY <1>3, <2>2
<1> QED BY <1>3, <1>4

LEMMA IdsFinite ==
  ASSUME NEW S, S \subseteq Ids
  PROVE  IsFiniteSet(S) /\ Cardinality(S) \in Nat /\ (Cardinality(S) = 0 <=> S = {})
<1>1. IsFiniteSet(Ids)
  BY FS_Interval DEF Ids
<1>2. IsFiniteSet(S)
  BY <1>1, FS_Subset
<1> QED BY <1>2, FS_CardinalityType, FS_EmptySet

\* COUNT bounds what is taken.
LEMMA OldestBounded ==
  ASSUME NEW S, S \subseteq Ids
  PROVE  /\ Oldest(S, BatchSize) \subseteq S
         /\ Cardinality(Oldest(S, BatchSize)) <= BatchSize
<1> DEFINE O == Oldest(S, BatchSize)
<1>1. O \subseteq S
  BY DEF Oldest
<1>2. CASE O = {}
  BY <1>1, <1>2, IdsFinite
<1>0. O \subseteq Ids
  BY <1>1
<1>3. CASE O # {}
  <2> DEFINE D == {MaxEntries - x : x \in O}
  <2>1. D \subseteq Nat /\ D # {}
    <3> HIDE DEF O
    <3>1. \A x \in O : x \in 1 .. MaxEntries
      BY <1>0 DEF Ids
    <3>2. \A x \in O : MaxEntries - x \in Nat
      BY <3>1
    <3> QED BY <1>3, <3>2
  <2>2. PICK d \in D : \A e \in D : d <= e
    BY <2>1, Least
  <2>3. PICK m \in O : d = MaxEntries - m
    BY <2>2
  <2>4. \A x \in O : MaxEntries - m <= MaxEntries - x
    BY <2>2, <2>3
  <2>5. \A x \in O : x <= m
    <3> HIDE DEF O
    <3>1. \A x \in O : x \in Int
      BY <1>0 DEF Ids
    <3> QED BY <2>3, <2>4, <3>1
  <2>6. O \subseteq {j \in S : j <= m} /\ Cardinality({j \in S : j <= m}) <= BatchSize
    BY <1>1, <2>3, <2>5 DEF Oldest
  <2>7. /\ IsFiniteSet({j \in S : j <= m}) /\ Cardinality({j \in S : j <= m}) \in Nat
        /\ Cardinality(O) \in Nat
    BY <1>1, IdsFinite
  <2>8. Cardinality(O) <= Cardinality({j \in S : j <= m})
    BY <2>6, <2>7, FS_Subset
  <2> QED BY <1>1, <2>6, <2>7, <2>8
<1> QED BY <1>2, <1>3

\* A limit that no set reaches takes all of it.
LEMMA OldestAll ==
  ASSUME NEW S, S \subseteq Ids, NEW k \in Nat, Cardinality(S) <= k
  PROVE  Oldest(S, k) = S
<1> SUFFICES ASSUME NEW i \in S
             PROVE  Cardinality({j \in S : j <= i}) <= k
  BY DEF Oldest
<1>1. IsFiniteSet(S) /\ Cardinality(S) \in Nat /\ Cardinality({j \in S : j <= i}) \in Nat
  BY IdsFinite
<1>2. Cardinality({j \in S : j <= i}) <= Cardinality(S)
  BY <1>1, FS_Subset
<1> QED BY <1>1, <1>2

\* The group moves on to the last of the entries that XREADGROUP returns.
LEMMA OldestNew ==
  ASSUME published \in 0 .. MaxEntries, lastId \in 0 .. published
  PROVE  LET S == Oldest(New, BatchSize) IN
           /\ lastId + Cardinality(S) \in 0 .. published
           /\ S = lastId + 1 .. lastId + Cardinality(S)
<1>1. New = lastId + 1 .. published
  BY DEF New
<1>2. \A i \in New : {j \in New : j <= i} = lastId + 1 .. i
  BY <1>1
<1>3. \A i \in New : Cardinality({j \in New : j <= i}) = i - lastId
  <2> SUFFICES ASSUME NEW i \in New
               PROVE  Cardinality(lastId + 1 .. i) = i - lastId
    BY <1>2
  <2>1. i \in Int /\ lastId + 1 \in Int /\ ~ (lastId + 1 > i) /\ lastId \in Int
    BY <1>1
  <2>2. Cardinality(lastId + 1 .. i) = i - (lastId + 1) + 1
    BY <2>1, FS_Interval
  <2> QED BY <2>1, <2>2
<1>4. Oldest(New, BatchSize) = {i \in New : i - lastId <= BatchSize}
  BY <1>3 DEF Oldest
<1>5. PICK m \in lastId .. published :
        Oldest(New, BatchSize) = lastId + 1 .. m
  <2>1. CASE lastId + BatchSize <= published
    <3>1. {i \in New : i - lastId <= BatchSize} = lastId + 1 .. lastId + BatchSize
      BY <1>1, <2>1
    <3>2. lastId + BatchSize \in lastId .. published
      BY <2>1
    <3> QED BY <1>4, <3>1, <3>2
  <2>2. CASE published < lastId + BatchSize
    <3>1. {i \in New : i - lastId <= BatchSize} = lastId + 1 .. published
      BY <1>1, <2>2
    <3> QED BY <1>4, <3>1
  <2> QED BY <2>1, <2>2
<1>6. Cardinality(lastId + 1 .. m) = m - lastId
  <2>1. m \in Int /\ lastId + 1 \in Int /\ lastId \in Int /\ lastId <= m
    OBVIOUS
  <2>2. Cardinality(lastId + 1 .. m) = IF lastId + 1 > m THEN 0 ELSE m - (lastId + 1) + 1
    BY <2>1, FS_Interval
  <2> QED BY <2>1, <2>2
<1>7. lastId + (m - lastId) = m
  OBVIOUS
<1> QED BY <1>5, <1>6, <1>7

-----------------------------------------------------------------------------
(* The invariant.                                                          *)

\* The entries a worker has in hand.
Own(w) == batch[w] \cup ({cur[w]} \ {0})

\* How long the jobs may have taken that a worker has run since its last call.
Allowance(w) ==
  (BatchSize - Cardinality(Own(w))) * MaxJobTime + (IF at[w] = "job" THEN spent[w] ELSE 0)

WorkerOK(w) ==
  /\ Own(w) \subseteq pending
  /\ cur[w] = 0 <=> at[w] # "job"
  /\ cur[w] \notin batch[w]
  /\ at[w] \in {"reclaim", "read"} => batch[w] = {}
  /\ at[w] = "batch" => spent[w] = 0
  /\ at[w] = "job" => spent[w] <= MaxJobTime
  /\ Cardinality(Own(w)) <= BatchSize
  /\ \A i \in Own(w) : idleFor[i] <= Allowance(w)

Apart == \A v, w \in Workers : v # w => Own(v) \cap Own(w) = {}

ClockTypes ==
  /\ published \in 0 .. MaxEntries /\ lastId \in 0 .. published
  /\ pending \subseteq 1 .. lastId
  /\ idleFor \in [Ids -> 0 .. Threshold]
  /\ at \in [Workers -> {"reclaim", "read", "batch", "job"}]
  /\ batch \in [Workers -> SUBSET Ids]
  /\ cur \in [Workers -> 0 .. MaxEntries]
  /\ spent \in [Workers -> Nat]

ClockInv == ClockTypes /\ (\A w \in Workers : WorkerOK(w)) /\ Apart

LEMMA ClockInitial == Init => ClockInv
<1> SUFFICES ASSUME Init PROVE ClockInv
  OBVIOUS
<1>1. ClockTypes
  BY DEF Init, ClockTypes
<1>2. \A w \in Workers : Own(w) = {}
  BY DEF Init, Own
<1>3. \A w \in Workers : WorkerOK(w)
  BY <1>2, FS_EmptySet DEF Init, WorkerOK
<1>4. Apart
  BY <1>2 DEF Apart
<1> QED BY <1>1, <1>3, <1>4 DEF ClockInv

LEMMA OwnTypes ==
  ASSUME ClockTypes, NEW w \in Workers
  PROVE  /\ Own(w) \subseteq Ids /\ IsFiniteSet(Own(w)) /\ Cardinality(Own(w)) \in Nat
         /\ Own(w) # {} => Cardinality(Own(w)) # 0
         /\ spent[w] \in Nat
<1>1. Own(w) \subseteq Ids
  BY DEF ClockTypes, Own, Ids
<1> QED BY <1>1, IdsFinite DEF ClockTypes

LEMMA Product ==
  ASSUME NEW b \in Nat, NEW c \in Nat, c <= b, NEW m \in Nat
  PROVE  /\ (b - c) * m \in Nat
         /\ c # 0 => (b - c) * m + m <= m * b
         /\ c # 0 => (b - (c - 1)) * m = (b - c) * m + m
<1>1. PICK a \in Nat : a = b - c
  OBVIOUS
<1>2. a * m \in Nat /\ b * m \in Nat /\ b * m = m * b
  OBVIOUS
<1>3. CASE c = 0
  BY <1>1, <1>2, <1>3
<1>4. CASE c # 0
  <2>1. (a + 1) * m = a * m + m
    BY SMT
  <2>2. b - (c - 1) = a + 1 /\ a + 1 <= b
    BY <1>1, <1>4
  <2>3. (a + 1) * m <= b * m
    BY <2>2, SMT
  <2> QED BY <1>1, <1>2, <2>1, <2>2, <2>3
<1> QED BY <1>3, <1>4

LEMMA OneLess ==
  ASSUME NEW S, S \subseteq Ids, NEW i \in S, NEW c \in Nat, c = Cardinality(S)
  PROVE  Cardinality(S \ {i}) = c - 1
<1>1. IsFiniteSet(S)
  BY IdsFinite
<1>2. Cardinality(S \ {i}) = IF i \in S THEN Cardinality(S) - 1 ELSE Cardinality(S)
  BY <1>1, FS_RemoveElement
<1> QED BY <1>2

\* What a worker has in hand is too fresh to be reclaimed.
LEMMA OwnedIsFresh ==
  ASSUME Patient, ClockInv, NEW w \in Workers, NEW i \in Own(w)
  PROVE  idleFor[i] < Threshold
<1>1. WorkerOK(w) /\ ClockTypes
  BY DEF ClockInv
<1>2. /\ i \in Ids /\ Cardinality(Own(w)) \in Nat /\ Cardinality(Own(w)) # 0
      /\ Cardinality(Own(w)) <= BatchSize /\ spent[w] \in Nat
  BY <1>1, OwnTypes DEF WorkerOK
<1>3. PICK c \in Nat : c = Cardinality(Own(w))
  BY <1>2
<1>4. (BatchSize - c) * MaxJobTime \in Nat
      /\ (BatchSize - c) * MaxJobTime + MaxJobTime <= MaxJobTime * BatchSize
  BY <1>2, <1>3, Product
<1>5. idleFor[i] <= (BatchSize - c) * MaxJobTime + MaxJobTime
  <2>1. idleFor[i] \in Nat
    BY <1>1, <1>2 DEF ClockTypes
  <2> QED BY <1>1, <1>2, <1>3, <1>4, <2>1 DEF WorkerOK, Allowance
<1>6. idleFor[i] \in Nat /\ MaxJobTime * BatchSize \in Nat
  BY <1>1, <1>2 DEF ClockTypes
<1> QED BY <1>4, <1>5, <1>6 DEF Patient

-----------------------------------------------------------------------------
(* Steps.                                                                  *)

\* A worker whose own state does not change.
LEMMA WorkerFrame ==
  ASSUME NEW w \in Workers, WorkerOK(w),
         at'[w] = at[w], batch'[w] = batch[w], cur'[w] = cur[w], spent'[w] = spent[w],
         Own(w) \subseteq pending', \A i \in Own(w) : idleFor'[i] = idleFor[i]
  PROVE  WorkerOK(w)' /\ Own(w)' = Own(w)
BY DEF WorkerOK, Own, Allowance

\* A call returned the batch S.
LEMMA GotKeeps ==
  ASSUME ClockInv, NEW w \in Workers, NEW S \in SUBSET Ids, NEW call,
         at[w] \in {"reclaim", "read"}, Got(w, S, call), UNCHANGED cur,
         Cardinality(S) <= BatchSize, S \subseteq pending', pending \subseteq pending',
         \A v \in Workers : S \cap Own(v) = {}
  PROVE  /\ (\A v \in Workers : WorkerOK(v)') /\ Apart'
         /\ idleFor' \in [Ids -> 0 .. Threshold]
         /\ at' \in [Workers -> {"reclaim", "read", "batch", "job"}]
         /\ batch' \in [Workers -> SUBSET Ids]
         /\ spent' \in [Workers -> Nat]
<1>1. ClockTypes /\ \A v \in Workers : WorkerOK(v)
  BY DEF ClockInv
<1>2. /\ at' = [at EXCEPT ![w] = "batch"] /\ batch' = [batch EXCEPT ![w] = S]
      /\ spent' = [spent EXCEPT ![w] = 0]
      /\ idleFor' = [i \in Ids |-> IF i \in S THEN 0 ELSE idleFor[i]]
  BY DEF Got
<1>3. /\ idleFor' \in [Ids -> 0 .. Threshold]
      /\ at' \in [Workers -> {"reclaim", "read", "batch", "job"}]
      /\ batch' \in [Workers -> SUBSET Ids]
      /\ spent' \in [Workers -> Nat]
  BY <1>1, <1>2 DEF ClockTypes
<1>4. cur'[w] = 0 /\ at'[w] = "batch" /\ batch'[w] = S /\ spent'[w] = 0
  BY <1>1, <1>2 DEF WorkerOK, ClockTypes
<1>5. Own(w)' = S
  BY <1>4 DEF Own
<1>6. WorkerOK(w)'
  <2>1. Cardinality(S) \in Nat
    BY IdsFinite
  <2>2. (BatchSize - Cardinality(S)) * MaxJobTime \in Nat
    BY <2>1, Product
  <2>3. Allowance(w)' \in Nat
    BY <1>4, <1>5, <2>2 DEF Allowance
  <2>4. \A i \in S : idleFor'[i] = 0
    BY <1>2
  <2>5. 0 \notin S
    BY DEF Ids
  <2> QED BY <1>4, <1>5, <2>3, <2>4, <2>5 DEF WorkerOK
<1>7. ASSUME NEW v \in Workers, v # w
      PROVE  WorkerOK(v)' /\ Own(v)' = Own(v)
  <2>1. at'[v] = at[v] /\ batch'[v] = batch[v] /\ cur'[v] = cur[v] /\ spent'[v] = spent[v]
    BY <1>1, <1>2, <1>7 DEF ClockTypes
  <2>2. Own(v) \subseteq pending'
    BY <1>1 DEF WorkerOK
  <2>3. \A i \in Own(v) : idleFor'[i] = idleFor[i]
    BY <1>1, <1>2, OwnTypes
  <2> QED BY <1>1, <2>1, <2>2, <2>3, WorkerFrame
<1>8. \A v \in Workers : WorkerOK(v)'
  BY <1>6, <1>7
<1>9. Apart'
  BY <1>5, <1>7 DEF Apart, ClockInv
<1> QED BY <1>3, <1>8, <1>9

LEMMA ReclaimKeeps ==
  ASSUME Patient, ClockInv, NEW w \in Workers, Reclaim(w)
  PROVE  ClockInv'
<1>1. PICK S : S = Oldest({i \in Oldest(pending, ScanLimit) : idleFor[i] >= Threshold}, BatchSize)
  OBVIOUS
<1>2. /\ Got(w, S, "reclaim") /\ at[w] = "reclaim"
      /\ UNCHANGED <<published, lastId, pending, cur>>
  BY <1>1 DEF Reclaim
<1>3. ClockTypes /\ pending \subseteq Ids
  BY DEF ClockInv, ClockTypes, Ids
<1>4. /\ S \subseteq {i \in pending : idleFor[i] >= Threshold}
      /\ Cardinality(S) <= BatchSize
  <2>1. Oldest(pending, ScanLimit) \subseteq pending
    BY DEF Oldest
  <2> QED BY <1>1, <1>3, <2>1, OldestBounded
<1>5. \A v \in Workers : S \cap Own(v) = {}
  <2> SUFFICES ASSUME NEW v \in Workers, NEW i \in S \cap Own(v) PROVE FALSE
    OBVIOUS
  <2>1. idleFor[i] < Threshold /\ idleFor[i] >= Threshold
    BY <1>4, OwnedIsFresh
  <2>2. idleFor[i] \in Nat
    BY <1>3, <1>4 DEF ClockTypes
  <2> QED BY <2>1, <2>2
<1>6. S \in SUBSET Ids /\ S \subseteq pending' /\ pending \subseteq pending'
  BY <1>2, <1>3, <1>4
<1> QED BY <1>2, <1>3, <1>4, <1>5, <1>6, GotKeeps DEF ClockInv, ClockTypes

LEMMA ReadKeeps ==
  ASSUME ClockInv, NEW w \in Workers, Read(w)
  PROVE  ClockInv'
<1>1. PICK S : S = Oldest(New, BatchSize)
  OBVIOUS
<1>2. /\ Got(w, S, "read") /\ at[w] = "read" /\ UNCHANGED <<published, cur>>
      /\ lastId' = lastId + Cardinality(S) /\ pending' = pending \cup S
  BY <1>1 DEF Read
<1>3. ClockTypes /\ published \in 0 .. MaxEntries /\ lastId \in 0 .. published
      /\ pending \subseteq 1 .. lastId
  BY DEF ClockInv, ClockTypes
<1>4. lastId' \in 0 .. published /\ S = lastId + 1 .. lastId'
  BY <1>1, <1>2, <1>3, OldestNew
<1>5. New \subseteq Ids /\ S \subseteq New
  BY <1>1, <1>3 DEF New, Ids, Oldest
<1>6. Cardinality(S) <= BatchSize
  BY <1>1, <1>5, OldestBounded
<1>7. \A v \in Workers : S \cap Own(v) = {}
  <2>1. \A v \in Workers : Own(v) \subseteq 1 .. lastId
    BY <1>3 DEF ClockInv, WorkerOK
  <2> QED BY <1>3, <1>4, <2>1
<1>8. lastId' >= lastId /\ lastId' \in Nat
  <2>1. Cardinality(S) \in Nat
    BY <1>5, IdsFinite
  <2> QED BY <1>2, <1>3, <2>1
<1>9. pending' \subseteq 1 .. lastId'
  <2>1. 1 .. lastId \subseteq 1 .. lastId'
    BY <1>3, <1>8
  <2>2. lastId + 1 .. lastId' \subseteq 1 .. lastId'
    BY <1>3, <1>8
  <2> QED BY <1>2, <1>3, <1>4, <2>1, <2>2
<1>10. S \in SUBSET Ids /\ S \subseteq pending' /\ pending \subseteq pending'
  BY <1>2, <1>5
<1> QED BY <1>2, <1>3, <1>4, <1>6, <1>7, <1>9, <1>10, GotKeeps DEF ClockInv, ClockTypes

\* The next message is skipped, or its job starts.
LEMMA TakeKeeps ==
  ASSUME ClockInv, NEW w \in Workers, Take(w)
  PROVE  ClockInv'
<1>1. PICK i \in batch[w] :
        /\ batch' = [batch EXCEPT ![w] = batch[w] \ {i}]
        /\ \/ UNCHANGED <<at, cur>>
           \/ at' = [at EXCEPT ![w] = "job"] /\ cur' = [cur EXCEPT ![w] = i]
  BY DEF Take
<1>2. /\ at[w] = "batch" /\ UNCHANGED <<published, lastId, pending, idleFor, spent>>
  BY DEF Take, group
<1>3. ClockTypes /\ WorkerOK(w) /\ i \in Ids /\ i # 0 /\ cur[w] = 0 /\ spent[w] = 0
  BY <1>2 DEF ClockInv, ClockTypes, WorkerOK, Ids
<1>4. ClockTypes'
  BY <1>1, <1>2, <1>3 DEF ClockTypes, Ids
<1>5. batch'[w] = batch[w] \ {i} /\ Own(w) = batch[w]
  BY <1>1, <1>3 DEF ClockTypes, Own
<1>6. \A j \in Own(w) : idleFor[j] \in Nat
  BY <1>3, OwnTypes DEF ClockTypes
<1>7. Own(w)' \subseteq Own(w) /\ WorkerOK(w)'
  <2>1. CASE UNCHANGED <<at, cur>>
    <3>1. Own(w)' = Own(w) \ {i}
      BY <1>3, <1>5, <2>1 DEF Own
    <3>2. PICK c \in Nat : c = Cardinality(Own(w)) /\ c # 0 /\ c <= BatchSize
      BY <1>3, <1>5, OwnTypes DEF WorkerOK
    <3>3. Cardinality(Own(w) \ {i}) = c - 1
      BY <1>3, <1>5, <3>2, OwnTypes, OneLess
    <3>4. /\ (BatchSize - (c - 1)) * MaxJobTime = (BatchSize - c) * MaxJobTime + MaxJobTime
          /\ (BatchSize - c) * MaxJobTime \in Nat
      BY <3>2, Product
    <3>5. \A j \in Own(w) : idleFor[j] <= (BatchSize - c) * MaxJobTime + 0
      BY <1>2, <1>3, <3>2 DEF WorkerOK, Allowance
    <3>6. Allowance(w)' = (BatchSize - (c - 1)) * MaxJobTime + 0
      BY <1>2, <2>1, <3>1, <3>3 DEF Allowance
    <3>7. \A j \in Own(w) : idleFor'[j] <= Allowance(w)'
      BY <1>2, <1>6, <3>4, <3>5, <3>6
    <3> QED BY <1>2, <1>3, <1>5, <2>1, <3>1, <3>2, <3>3, <3>7 DEF WorkerOK
  <2>2. CASE at' = [at EXCEPT ![w] = "job"] /\ cur' = [cur EXCEPT ![w] = i]
    <3>1. at'[w] = "job" /\ cur'[w] = i /\ spent'[w] = 0
      BY <1>2, <1>3, <2>2 DEF ClockTypes
    <3>2. Own(w)' = Own(w)
      BY <1>1, <1>3, <1>5, <3>1 DEF Own
    <3>3. Allowance(w)' = Allowance(w)
      BY <1>2, <3>1, <3>2 DEF Allowance
    <3> QED BY <1>2, <1>3, <1>5, <3>1, <3>2, <3>3 DEF WorkerOK
  <2> QED BY <1>1, <2>1, <2>2
<1>8. ASSUME NEW v \in Workers, v # w
      PROVE  WorkerOK(v)' /\ Own(v)' = Own(v)
  <2>1. at'[v] = at[v] /\ batch'[v] = batch[v] /\ cur'[v] = cur[v] /\ spent'[v] = spent[v]
    BY <1>1, <1>2, <1>3, <1>8 DEF ClockTypes
  <2>2. WorkerOK(v) /\ Own(v) \subseteq pending'
    BY <1>2 DEF ClockInv, WorkerOK
  <2> QED BY <1>2, <2>1, <2>2, WorkerFrame
<1>9. Apart'
  BY <1>7, <1>8 DEF Apart, ClockInv
<1>10. \A v \in Workers : WorkerOK(v)'
  BY <1>7, <1>8
<1> QED BY <1>4, <1>9, <1>10 DEF ClockInv

LEMMA BatchDoneKeeps ==
  ASSUME ClockInv, NEW w \in Workers, BatchDone(w)
  PROVE  ClockInv'
<1>1. PICK a \in {"read", "reclaim"} : at' = [at EXCEPT ![w] = a]
  BY DEF BatchDone
<1>2. /\ at[w] = "batch" /\ batch[w] = {}
      /\ UNCHANGED <<published, lastId, pending, idleFor, batch, cur, spent>>
  BY DEF BatchDone, group
<1>3. ClockTypes /\ \A v \in Workers : WorkerOK(v)
  BY DEF ClockInv
<1>4. ClockTypes'
  BY <1>1, <1>2, <1>3 DEF ClockTypes
<1>5. \A v \in Workers : Own(v)' = Own(v)
  BY <1>2 DEF Own
<1>6. Own(w) = {} /\ cur[w] = 0 /\ at'[w] = a
  BY <1>1, <1>2, <1>3 DEF Own, WorkerOK, ClockTypes
<1>7. WorkerOK(w)'
  BY <1>2, <1>3, <1>5, <1>6, FS_EmptySet DEF WorkerOK
<1>8. \A v \in Workers : v # w => WorkerOK(v)'
  <2> SUFFICES ASSUME NEW v \in Workers, v # w PROVE WorkerOK(v)'
    OBVIOUS
  <2>1. at'[v] = at[v]
    BY <1>1, <1>3 DEF ClockTypes
  <2> QED BY <1>2, <1>3, <2>1, WorkerFrame DEF WorkerOK
<1>9. Apart'
  BY <1>5 DEF Apart, ClockInv
<1> QED BY <1>4, <1>7, <1>8, <1>9 DEF ClockInv

\* The job is over; its entry may be acknowledged.
LEMMA JobOverKeeps ==
  ASSUME ClockInv, NEW w \in Workers, JobOver(w),
         pending \ {cur[w]} \subseteq pending', pending' \subseteq pending,
         idleFor' = idleFor \/ idleFor' = [idleFor EXCEPT ![cur[w]] = 0]
  PROVE  ClockInv'
<1>1. /\ at[w] = "job" /\ at' = [at EXCEPT ![w] = "batch"]
      /\ cur' = [cur EXCEPT ![w] = 0] /\ spent' = [spent EXCEPT ![w] = 0]
      /\ UNCHANGED <<batch, published, lastId>>
  BY DEF JobOver
<1>2. ClockTypes /\ WorkerOK(w)
  BY DEF ClockInv
<1>3. /\ cur[w] \in Own(w) /\ cur[w] \in Ids /\ cur[w] \notin batch[w]
      /\ batch[w] = Own(w) \ {cur[w]} /\ spent[w] <= MaxJobTime
  BY <1>1, <1>2 DEF WorkerOK, Own, ClockTypes, Ids
<1>4. idleFor' \in [Ids -> 0 .. Threshold] /\ \A i \in Ids : i # cur[w] => idleFor'[i] = idleFor[i]
  BY <1>2, <1>3 DEF ClockTypes
<1>5. ClockTypes'
  BY <1>1, <1>2, <1>4 DEF ClockTypes
<1>6. /\ at'[w] = "batch" /\ cur'[w] = 0 /\ spent'[w] = 0 /\ batch'[w] = batch[w]
      /\ Own(w)' = batch[w]
  BY <1>1, <1>2 DEF ClockTypes, Own
<1>7. WorkerOK(w)'
  <2>1. PICK c \in Nat : c = Cardinality(Own(w)) /\ c # 0 /\ c <= BatchSize
    BY <1>2, <1>3, OwnTypes DEF WorkerOK
  <2>2. Cardinality(Own(w)') = c - 1
    <3>1. Cardinality(Own(w) \ {cur[w]}) = c - 1
      BY <1>2, <1>3, <2>1, OwnTypes, OneLess
    <3> QED BY <1>3, <1>6, <3>1
  <2>3. /\ (BatchSize - (c - 1)) * MaxJobTime = (BatchSize - c) * MaxJobTime + MaxJobTime
        /\ (BatchSize - c) * MaxJobTime \in Nat
    BY <2>1, Product
  <2>4. \A i \in Own(w) : idleFor[i] \in Nat /\ idleFor[i] <= (BatchSize - c) * MaxJobTime + spent[w]
    BY <1>1, <1>2, <2>1, OwnTypes DEF WorkerOK, Allowance, ClockTypes
  <2>5. Allowance(w)' = (BatchSize - (c - 1)) * MaxJobTime + 0
    BY <1>6, <2>2 DEF Allowance
  <2>6. spent[w] \in Nat
    BY <1>2, OwnTypes
  <2>7. \A i \in Own(w)' : idleFor'[i] <= Allowance(w)'
    <3> SUFFICES ASSUME NEW i \in Own(w), i # cur[w]
                 PROVE  idleFor'[i] <= Allowance(w)'
      BY <1>3, <1>6
    <3>1. idleFor'[i] = idleFor[i]
      BY <1>2, <1>4, OwnTypes
    <3> QED BY <1>3, <2>3, <2>4, <2>5, <2>6, <3>1
  <2>8. Own(w)' \subseteq pending'
    BY <1>2, <1>3, <1>6 DEF WorkerOK
  <2>9. 0 \notin batch[w]
    BY <1>2 DEF ClockTypes, Ids
  <2>10. Cardinality(Own(w)') <= BatchSize
    BY <2>1, <2>2
  <2> QED BY <1>6, <2>7, <2>8, <2>9, <2>10 DEF WorkerOK
<1>8. ASSUME NEW v \in Workers, v # w
      PROVE  WorkerOK(v)' /\ Own(v)' = Own(v)
  <2>1. at'[v] = at[v] /\ batch'[v] = batch[v] /\ cur'[v] = cur[v] /\ spent'[v] = spent[v]
    BY <1>1, <1>2, <1>8 DEF ClockTypes
  <2>2. cur[w] \notin Own(v) /\ WorkerOK(v)
    BY <1>3, <1>8 DEF ClockInv, Apart
  <2>3. Own(v) \subseteq pending'
    BY <2>2 DEF WorkerOK
  <2>4. \A i \in Own(v) : idleFor'[i] = idleFor[i]
    BY <1>2, <1>4, <2>2, OwnTypes
  <2> QED BY <2>1, <2>2, <2>3, <2>4, WorkerFrame
<1>9. Apart'
  BY <1>3, <1>6, <1>8 DEF Apart, ClockInv
<1>10. \A v \in Workers : WorkerOK(v)'
  BY <1>7, <1>8
<1> QED BY <1>5, <1>9, <1>10 DEF ClockInv

LEMMA SettleKeeps ==
  ASSUME ClockInv, NEW w \in Workers, Succeed(w) \/ Fail(w)
  PROVE  ClockInv'
<1>1. JobOver(w)
  BY DEF Succeed, Fail
<1>2. \/ UNCHANGED <<pending, idleFor>>
      \/ pending' = pending \ {cur[w]} /\ idleFor' = [idleFor EXCEPT ![cur[w]] = 0]
  BY DEF Succeed, Fail, RetryLater, GiveUp, CloseEntry
<1> QED BY <1>1, <1>2, JobOverKeeps

\* Time passes: only for jobs and blocked reads.
LEMMA TickKeeps ==
  ASSUME Patient, ClockInv, Tick
  PROVE  ClockInv'
<1>1. /\ \A w \in Workers : MayWait(w)
      /\ spent' = [w \in Workers |-> spent[w] + 1]
      /\ idleFor' = [i \in Ids |->
           IF i \in pending /\ idleFor[i] < Threshold THEN idleFor[i] + 1 ELSE idleFor[i]]
      /\ UNCHANGED <<published, lastId, pending, at, batch, cur>>
  BY DEF Tick
<1>2. ClockTypes
  BY DEF ClockInv
<1>3. idleFor' \in [Ids -> 0 .. Threshold]
  <2>1. \A i \in Ids : idleFor'[i] \in 0 .. Threshold
    BY <1>1, <1>2 DEF ClockTypes
  <2> QED BY <1>1, <2>1
<1>4. ClockTypes'
  BY <1>1, <1>2, <1>3 DEF ClockTypes
<1>5. \A w \in Workers : Own(w)' = Own(w)
  BY <1>1 DEF Own
<1>6. ASSUME NEW w \in Workers
      PROVE  WorkerOK(w)'
  <2>1. WorkerOK(w) /\ MayWait(w) /\ spent[w] \in Nat /\ spent'[w] = spent[w] + 1
    BY <1>1, <1>2, OwnTypes DEF ClockInv
  <2>2. CASE at[w] = "job"
    <3>1. spent[w] < MaxJobTime
      BY <2>1, <2>2 DEF MayWait
    <3>2. \A i \in Own(w) : i \in Ids /\ idleFor[i] \in Nat
      BY <1>2, OwnTypes DEF ClockTypes
    <3>3. \A i \in Own(w) : idleFor'[i] <= idleFor[i] + 1
      BY <1>1, <3>2
    <3>4. PICK k \in Nat : k = (BatchSize - Cardinality(Own(w))) * MaxJobTime
      BY <1>2, <2>1, OwnTypes, Product DEF WorkerOK
    <3>5. Allowance(w) = k + spent[w] /\ Allowance(w)' = k + (spent[w] + 1)
      BY <1>1, <1>5, <2>1, <2>2, <3>4 DEF Allowance
    <3>6. \A i \in Own(w) : idleFor'[i] <= Allowance(w)'
      <4> SUFFICES ASSUME NEW i \in Own(w) PROVE idleFor'[i] <= Allowance(w)'
        OBVIOUS
      <4>1. idleFor[i] <= k + spent[w]
        BY <2>1, <3>5 DEF WorkerOK
      <4>2. idleFor'[i] \in Nat
        BY <1>3, <3>2
      <4> QED BY <2>1, <3>2, <3>3, <3>5, <4>1, <4>2
    <3> QED BY <1>1, <1>5, <2>1, <2>2, <3>1, <3>6 DEF WorkerOK
  <2>3. CASE at[w] = "read"
    <3>1. Own(w) = {} /\ cur[w] = 0
      BY <2>1, <2>3 DEF WorkerOK, Own
    <3> QED BY <1>1, <1>5, <2>1, <2>3, <3>1 DEF WorkerOK
  <2> QED BY <2>1, <2>2, <2>3 DEF MayWait
<1>7. Apart'
  BY <1>5 DEF Apart, ClockInv
<1> QED BY <1>4, <1>6, <1>7 DEF ClockInv

LEMMA ClockSound ==
  ASSUME Patient, ClockInv, [Next]_vars
  PROVE  ClockInv'
<1>0. ClockTypes /\ \A w \in Workers : WorkerOK(w)
  BY DEF ClockInv
<1>1. ASSUME UNCHANGED <<lastId, pending, idleFor, at, batch, cur, spent>>,
             published' \in 0 .. MaxEntries, lastId \in 0 .. published'
      PROVE  ClockInv'
  <2>1. ClockTypes'
    BY <1>0, <1>1 DEF ClockTypes
  <2>2. \A w \in Workers : WorkerOK(w)' /\ Own(w)' = Own(w)
    BY <1>0, <1>1, WorkerFrame DEF WorkerOK
  <2> QED BY <2>1, <2>2 DEF ClockInv, Apart
<1>2. CASE UNCHANGED vars
  BY <1>0, <1>1, <1>2 DEF vars, group, locals, ClockTypes
<1>3. CASE Publish
  BY <1>0, <1>1, <1>3 DEF Publish, locals, ClockTypes
<1>4. CASE Tick
  BY <1>4, TickKeeps
<1>5. ASSUME NEW w \in Workers, WorkerStep(w)
      PROVE  ClockInv'
  BY <1>5, ReclaimKeeps, ReadKeeps, TakeKeeps, BatchDoneKeeps, SettleKeeps DEF WorkerStep
<1> QED BY <1>2, <1>3, <1>4, <1>5 DEF Next

\* If an entry must be idle for longer than a whole batch can take, no job runs
\* in two workers at once (reclaim_idle_threshold_ms, config/mod.rs:82-83).
THEOREM OneHandlerAtATime ==
  ASSUME Patient
  PROVE  Spec => []OneHandler
<1>1. Init => ClockInv
  BY ClockInitial
<1>2. ClockInv /\ [Next]_vars => ClockInv'
  BY ClockSound
<1>3. ClockInv => OneHandler
  BY DEF ClockInv, Apart, Own, OneHandler
<1> QED BY <1>1, <1>2, <1>3, PTL DEF Spec

-----------------------------------------------------------------------------
(* Types, whatever the durations: an entry that two workers handle may be  *)
(* acknowledged under one of them, but each has it from a delivery.        *)

LEMMA DoubledPositive ==
  ASSUME NEW n \in Nat
  PROVE  Doubled(n) \in 1 .. 64
<1>1. PICK k \in 1 .. 7 : k = IF n < 6 THEN n + 1 ELSE 7
  OBVIOUS
<1>2. k = 1 \/ k = 2 \/ k = 3 \/ k = 4 \/ k = 5 \/ k = 6 \/ k = 7
  BY <1>1
<1> QED BY <1>1, <1>2 DEF Doubled

LEMMA TimesPositive ==
  ASSUME NEW a \in Nat \ {0}, NEW b \in Nat \ {0}
  PROVE  a * b \in Nat \ {0}
BY SMT

LEMMA CountTtlPositive == CountTtl \in Nat \ {0}
<1>1. PICK d \in Nat \ {0} : d = Doubled(MaxRetries)
  BY DoubledPositive
<1>2. PICK a \in Nat \ {0} : a = MaxRetries * BaseBackoff
  BY TimesPositive
<1>3. a * d \in Nat \ {0}
  BY <1>1, <1>2, TimesPositive
<1> QED BY <1>1, <1>2, <1>3 DEF CountTtl

LEMMA BackoffPositive ==
  ASSUME NEW a \in Nat \ {0}, NEW b \in Backoffs(a)
  PROVE  b \in Nat \ {0}
<1>1. PICK d \in Nat \ {0} : d = Doubled(a - 1)
  BY DoubledPositive
<1>2. PICK c \in Nat \ {0} : c = BaseBackoff * d
  BY <1>1, TimesPositive
<1>3. PICK jitter \in 0 .. BaseBackoff : b = c + jitter
  BY <1>1, <1>2 DEF Backoffs
<1> QED BY <1>2, <1>3

Delivered ==
  \A w \in Workers : /\ batch[w] \subseteq 1 .. lastId /\ cur[w] \in 0 .. lastId
                     /\ at[w] = "job" => cur[w] # 0

TypeInv == TypeOK /\ Delivered

LEMMA InitTypes == Init => TypeInv
BY CountTtlPositive DEF Init, TypeInv, TypeOK, Delivered

\* A call that returns S, of which the group has heard.
LEMMA GotTypes ==
  ASSUME TypeInv, NEW w \in Workers, NEW S, NEW call \in {"reclaim", "read"},
         Got(w, S, call), UNCHANGED <<published, keys, dlq, failed, cur>>,
         lastId' \in lastId .. published, S \subseteq 1 .. lastId',
         pending' \subseteq 1 .. lastId'
  PROVE  TypeInv'
<1>1. /\ lastId \in Nat /\ lastId' \in 0 .. published /\ published \in 0 .. MaxEntries
      /\ 1 .. lastId \subseteq 1 .. lastId' /\ 0 .. lastId \subseteq 0 .. lastId'
  BY DEF TypeInv, TypeOK
<1>2. S \subseteq Ids
  BY <1>1 DEF Ids
<1>3. /\ at' = [at EXCEPT ![w] = "batch"] /\ batch' = [batch EXCEPT ![w] = S]
      /\ spent' = [spent EXCEPT ![w] = 0] /\ source' = [source EXCEPT ![w] = call]
      /\ idleFor' = [i \in Ids |-> IF i \in S THEN 0 ELSE idleFor[i]]
  BY DEF Got
<1>4. idleFor' \in [Ids -> 0 .. Threshold]
  BY <1>3 DEF TypeInv, TypeOK
<1>5. /\ at' \in [Workers -> {"reclaim", "read", "batch", "job"}]
      /\ batch' \in [Workers -> SUBSET Ids]
      /\ spent' \in [Workers -> Nat]
      /\ source' \in [Workers -> {"reclaim", "read"}]
  BY <1>2, <1>3 DEF TypeInv, TypeOK
<1>6. dlq' \subseteq 1 .. lastId'
  BY <1>1 DEF TypeInv, TypeOK
<1>7. TypeOK'
  BY <1>1, <1>4, <1>5, <1>6 DEF TypeInv, TypeOK, keys
<1>8. ASSUME NEW v \in Workers
      PROVE  /\ batch'[v] \subseteq 1 .. lastId' /\ cur'[v] \in 0 .. lastId'
             /\ at'[v] = "job" => cur'[v] # 0
  BY <1>1, <1>3 DEF TypeInv, TypeOK, Delivered
<1> QED BY <1>7, <1>8 DEF TypeInv, Delivered

LEMMA ReclaimTypes ==
  ASSUME TypeInv, NEW w \in Workers, Reclaim(w)
  PROVE  TypeInv'
<1>1. PICK S : S = Oldest({i \in Oldest(pending, ScanLimit) : idleFor[i] >= Threshold}, BatchSize)
  OBVIOUS
<1>2. Got(w, S, "reclaim") /\ UNCHANGED <<published, lastId, pending, keys, dlq, failed, cur>>
  BY <1>1 DEF Reclaim
<1>3. S \subseteq pending /\ pending \subseteq 1 .. lastId
  BY <1>1 DEF Oldest, TypeInv, TypeOK
<1>4. lastId' \in lastId .. published
  BY <1>2 DEF TypeInv, TypeOK
<1> QED BY <1>2, <1>3, <1>4, GotTypes

LEMMA ReadTypes ==
  ASSUME TypeInv, NEW w \in Workers, Read(w)
  PROVE  TypeInv'
<1>1. PICK S : S = Oldest(New, BatchSize)
  OBVIOUS
<1>2. /\ Got(w, S, "read") /\ UNCHANGED <<published, keys, dlq, failed, cur>>
      /\ lastId' = lastId + Cardinality(S) /\ pending' = pending \cup S
  BY <1>1 DEF Read
<1>3. published \in 0 .. MaxEntries /\ lastId \in 0 .. published /\ pending \subseteq 1 .. lastId
  BY DEF TypeInv, TypeOK
<1>4. lastId' \in 0 .. published /\ S = lastId + 1 .. lastId'
  BY <1>1, <1>2, <1>3, OldestNew
<1>5. Cardinality(S) \in Nat
  <2>1. S \subseteq Ids
    BY <1>3, <1>4 DEF Ids
  <2> QED BY <2>1, IdsFinite
<1>6. lastId' \in lastId .. published
  BY <1>2, <1>3, <1>4, <1>5
<1>7. S \subseteq 1 .. lastId' /\ pending' \subseteq 1 .. lastId'
  <2>1. lastId + 1 .. lastId' \subseteq 1 .. lastId'
    BY <1>3, <1>6
  <2>2. 1 .. lastId \subseteq 1 .. lastId'
    BY <1>3, <1>6
  <2> QED BY <1>2, <1>3, <1>4, <2>1, <2>2
<1> QED BY <1>2, <1>6, <1>7, GotTypes

LEMMA TakeTypes ==
  ASSUME TypeInv, NEW w \in Workers, Take(w)
  PROVE  TypeInv'
<1>1. PICK i \in batch[w] :
        /\ batch' = [batch EXCEPT ![w] = batch[w] \ {i}]
        /\ \/ UNCHANGED <<at, cur>>
           \/ at' = [at EXCEPT ![w] = "job"] /\ cur' = [cur EXCEPT ![w] = i]
  BY DEF Take
<1>2. UNCHANGED <<group, keys, dlq, failed, source, spent>>
  BY DEF Take
<1>3. i \in 1 .. lastId /\ i \in 0 .. MaxEntries /\ i # 0
  BY DEF TypeInv, TypeOK, Delivered
<1>4. TypeOK'
  BY <1>1, <1>2, <1>3 DEF TypeInv, TypeOK, group, keys
<1>5. Delivered'
  BY <1>1, <1>2, <1>3 DEF TypeInv, TypeOK, Delivered, group
<1> QED BY <1>4, <1>5 DEF TypeInv

LEMMA BatchDoneTypes ==
  ASSUME TypeInv, NEW w \in Workers, BatchDone(w)
  PROVE  TypeInv'
<1>1. PICK a \in {"read", "reclaim"} : at' = [at EXCEPT ![w] = a]
  BY DEF BatchDone
<1>2. UNCHANGED <<group, keys, dlq, failed, batch, cur, source, spent>>
  BY DEF BatchDone
<1>3. TypeOK'
  BY <1>1, <1>2 DEF TypeInv, TypeOK, group, keys
<1>4. Delivered'
  BY <1>1, <1>2 DEF TypeInv, TypeOK, Delivered, group
<1> QED BY <1>3, <1>4 DEF TypeInv

\* The job is over and its entry closed, retried or given up.
LEMMA JobOverTypes ==
  ASSUME TypeInv, NEW w \in Workers, JobOver(w), pending' \subseteq pending,
         idleFor' \in [Ids -> 0 .. Threshold],
         count' \in [Ids -> 0 .. MaxRetries - 1], ttl' \in [Ids -> 0 .. CountTtl],
         delay' \in [Ids -> Nat], failed' \in [Ids -> 0 .. MaxRetries + 1],
         dlq' \subseteq dlq \cup {cur[w]}
  PROVE  TypeInv'
<1>1. /\ at[w] = "job" /\ at' = [at EXCEPT ![w] = "batch"]
      /\ cur' = [cur EXCEPT ![w] = 0] /\ spent' = [spent EXCEPT ![w] = 0]
      /\ UNCHANGED <<batch, source, published, lastId>>
  BY DEF JobOver
<1>2. cur[w] \in 1 .. lastId
  BY <1>1 DEF TypeInv, TypeOK, Delivered
<1>3. pending' \subseteq 1 .. lastId' /\ dlq' \subseteq 1 .. lastId'
  BY <1>1, <1>2 DEF TypeInv, TypeOK
<1>4. /\ at' \in [Workers -> {"reclaim", "read", "batch", "job"}]
      /\ cur' \in [Workers -> 0 .. MaxEntries] /\ spent' \in [Workers -> Nat]
  BY <1>1 DEF TypeInv, TypeOK
<1>5. TypeOK'
  BY <1>1, <1>3, <1>4 DEF TypeInv, TypeOK
<1>6. Delivered'
  BY <1>1 DEF TypeInv, TypeOK, Delivered
<1> QED BY <1>5, <1>6 DEF TypeInv

LEMMA CloseTypes ==
  ASSUME TypeInv, NEW i, CloseEntry(i)
  PROVE  /\ pending' \subseteq pending /\ idleFor' \in [Ids -> 0 .. Threshold]
         /\ count' \in [Ids -> 0 .. MaxRetries - 1] /\ ttl' \in [Ids -> 0 .. CountTtl]
         /\ delay' \in [Ids -> Nat]
<1>1. 0 \in 0 .. Threshold /\ 0 \in 0 .. MaxRetries - 1 /\ 0 \in 0 .. CountTtl
  BY CountTtlPositive
<1> QED BY <1>1 DEF CloseEntry, TypeInv, TypeOK

LEMMA SettleTypes ==
  ASSUME TypeInv, NEW w \in Workers, Succeed(w) \/ Fail(w)
  PROVE  TypeInv'
<1>1. CASE Succeed(w)
  <2>1. JobOver(w) /\ CloseEntry(cur[w]) /\ UNCHANGED <<dlq, failed>>
    BY <1>1 DEF Succeed
  <2>2. failed' \in [Ids -> 0 .. MaxRetries + 1]
    BY <2>1 DEF TypeInv, TypeOK
  <2> QED BY <2>1, <2>2, CloseTypes, JobOverTypes
<1>2. CASE Fail(w)
  <2>1. PICK i : i = cur[w]
    OBVIOUS
  <2>2. /\ JobOver(w) /\ at[w] = "job"
        /\ failed' = [failed EXCEPT ![i] = IF failed[i] > MaxRetries THEN failed[i] ELSE failed[i] + 1]
        /\ RetryLater(i, count[i] + 1) \/ GiveUp(i, count[i] + 1)
    BY <1>2, <2>1 DEF Fail, JobOver
  <2>3. i \in Ids
    BY <2>1, <2>2 DEF TypeInv, TypeOK, Delivered, Ids
  <2>4. failed' \in [Ids -> 0 .. MaxRetries + 1]
    <3>1. failed[i] \in 0 .. MaxRetries + 1
      BY <2>3 DEF TypeInv, TypeOK
    <3>2. (IF failed[i] > MaxRetries THEN failed[i] ELSE failed[i] + 1) \in 0 .. MaxRetries + 1
      BY <3>1
    <3> QED BY <2>2, <3>2 DEF TypeInv, TypeOK
  <2>5. PICK a \in Nat \ {0} : a = count[i] + 1
    BY <2>3 DEF TypeInv, TypeOK
  <2>6. CASE RetryLater(i, a)
    <3>1. a < MaxRetries /\ a \in 0 .. MaxRetries - 1
      BY <2>6 DEF RetryLater
    <3>2. PICK b \in Backoffs(a) : delay' = [delay EXCEPT ![i] = b]
      BY <2>6 DEF RetryLater
    <3>3. b \in Nat /\ CountTtl \in 0 .. CountTtl
      BY <3>2, BackoffPositive, CountTtlPositive
    <3>4. /\ count' = [count EXCEPT ![i] = a] /\ ttl' = [ttl EXCEPT ![i] = CountTtl]
          /\ UNCHANGED <<dlq, pending, idleFor>>
      BY <2>6 DEF RetryLater
    <3>5. /\ count' \in [Ids -> 0 .. MaxRetries - 1] /\ ttl' \in [Ids -> 0 .. CountTtl]
          /\ delay' \in [Ids -> Nat] /\ idleFor' \in [Ids -> 0 .. Threshold]
      BY <3>1, <3>2, <3>3, <3>4 DEF TypeInv, TypeOK
    <3> QED BY <2>2, <2>4, <3>4, <3>5, JobOverTypes
  <2>7. CASE GiveUp(i, a)
    <3>1. CloseEntry(i) /\ dlq' \subseteq dlq \cup {cur[w]}
      BY <2>1, <2>7 DEF GiveUp
    <3> QED BY <2>2, <2>4, <3>1, CloseTypes, JobOverTypes
  <2> QED BY <2>2, <2>5, <2>6, <2>7
<1> QED BY <1>1, <1>2

LEMMA TickTypes ==
  ASSUME TypeInv, Tick
  PROVE  TypeInv'
<1>1. /\ spent' = [w \in Workers |-> spent[w] + 1]
      /\ idleFor' = [i \in Ids |->
           IF i \in pending /\ idleFor[i] < Threshold THEN idleFor[i] + 1 ELSE idleFor[i]]
      /\ ttl' = [i \in Ids |-> Less(ttl[i])]
      /\ count' = [i \in Ids |-> IF ttl[i] <= 1 THEN 0 ELSE count[i]]
      /\ delay' = [i \in Ids |-> Less(delay[i])]
      /\ UNCHANGED <<published, lastId, pending, dlq, failed, at, batch, cur, source>>
  BY DEF Tick
<1>2. PICK c \in Nat : c = CountTtl
  BY CountTtlPositive
<1>3. ASSUME NEW i \in Ids
      PROVE  /\ idleFor'[i] \in 0 .. Threshold /\ count'[i] \in 0 .. MaxRetries - 1
             /\ ttl'[i] \in 0 .. c /\ delay'[i] \in Nat
  <2>1. /\ idleFor[i] \in 0 .. Threshold /\ count[i] \in 0 .. MaxRetries - 1
        /\ ttl[i] \in 0 .. c /\ delay[i] \in Nat
    BY <1>2 DEF TypeInv, TypeOK
  <2> QED BY <1>1, <1>2, <2>1 DEF Less
<1>4. \A w \in Workers : spent[w] + 1 \in Nat
  BY DEF TypeInv, TypeOK
<1>5. TypeOK'
  BY <1>1, <1>2, <1>3, <1>4 DEF TypeInv, TypeOK
<1>6. Delivered'
  BY <1>1 DEF TypeInv, Delivered
<1> QED BY <1>5, <1>6 DEF TypeInv

LEMMA NextTypes ==
  ASSUME TypeInv, [Next]_vars
  PROVE  TypeInv'
<1>1. ASSUME published' \in published .. MaxEntries,
             UNCHANGED <<lastId, pending, idleFor, keys, dlq, failed, locals>>
      PROVE  TypeInv'
  BY <1>1 DEF TypeInv, TypeOK, Delivered, keys, locals
<1>2. CASE UNCHANGED vars
  BY <1>1, <1>2 DEF vars, group, TypeInv, TypeOK
<1>3. CASE Publish
  BY <1>1, <1>3 DEF Publish, TypeInv, TypeOK
<1>4. ASSUME NEW w \in Workers, WorkerStep(w)
      PROVE  TypeInv'
  BY <1>4, ReclaimTypes, ReadTypes, TakeTypes, BatchDoneTypes, SettleTypes DEF WorkerStep
<1> QED BY <1>2, <1>3, <1>4, TickTypes DEF Next

\* Every value stays in its range for all durations, the unsafe ones included:
\* the counter never passes the attempts that RetryLater allows.
THEOREM TypeCorrect == Spec => []TypeOK
<1>1. TypeInv => TypeOK
  BY DEF TypeInv
<1> QED BY <1>1, InitTypes, NextTypes, PTL DEF Spec

-----------------------------------------------------------------------------
(* The counter.  A retried entry waits for its delay, for the threshold,   *)
(* for its turn among the older entries and for its place in a batch; the  *)
(* counter must live longer than all that.  An entry that XAUTOCLAIM does  *)
(* not examine waits for no known time, so the theorems are about the      *)
(* behaviours in which none is out of reach.                               *)

\* No more entries are pending than one XAUTOCLAIM examines.
AllScanned == Cardinality(pending) <= ScanLimit

\* The longest that a batch takes, that a worker is away from XAUTOCLAIM, how
\* many calls hand out all that one of them examines, and how long an idle entry
\* waits for its turn.
Proc == BatchSize * MaxJobTime
Lap  == PollTime + 2 * Proc
Most == IF MaxEntries < ScanLimit THEN MaxEntries ELSE ScanLimit
Laps == (Most + BatchSize - 1) \div BatchSize
Wait == Laps * Lap

\* Entries that wait for a call need no longer than it takes any of them to
\* become idle again, and the counter lives longer than the longest wait.
LongLived ==
  /\ Laps > 1 => Wait + Proc < Threshold
  /\ \A a \in 1 .. MaxRetries - 1 : \A b \in Backoffs(a) :
       b + Threshold + Wait + Proc < CountTtl

\* What is left of the batch at hand, and until the worker's next XAUTOCLAIM.
Rem(w) ==
  Cardinality(batch[w]) * MaxJobTime + (IF at[w] = "job" THEN MaxJobTime - spent[w] ELSE 0)

Round(w) ==
  IF at[w] = "reclaim" THEN 0
  ELSE IF at[w] = "read" THEN (PollTime - spent[w]) + Proc
  ELSE IF source[w] = "reclaim" THEN Rem(w) + PollTime + Proc ELSE Rem(w)

\* In no worker's hands; and the older entries that a call may prefer to i
\* within the next d ticks.
Unhandled(i) == \A w \in Workers : i \notin Own(w)
Ahead(i, d)  == {j \in pending : j < i /\ Unhandled(j) /\ Threshold - idleFor[j] <= d}

\* Every worker, left to itself, takes i within d ticks: in k more rounds it
\* takes all that is ahead of i, BatchSize at a time.
InTurn(i, d) ==
  \A w \in Workers : \E k \in Nat :
    Cardinality(Ahead(i, d)) < BatchSize * (k + 1) /\ Round(w) + k * Lap <= d

\* The counter of i outlives the wait for its next attempt.
Delayed(i)  == delay[i] # 0 => delay[i] + Threshold + Wait + Proc < ttl[i]
Resting(i)  == (delay[i] = 0 /\ Unhandled(i) /\ idleFor[i] < Threshold)
                 => (Threshold - idleFor[i]) + Wait + Proc < ttl[i]
Waiting(i)  == (delay[i] = 0 /\ Unhandled(i) /\ idleFor[i] = Threshold)
                 => \E d \in 0 .. Wait : d + Proc < ttl[i] /\ InTurn(i, d)
InBatch(i)  == \A w \in Workers : delay[i] = 0 /\ i \in Own(w) => Rem(w) < ttl[i]

Timely(i) == Delayed(i) /\ Resting(i) /\ Waiting(i) /\ InBatch(i)

ReadsEnd  == \A w \in Workers : at[w] = "read" => spent[w] <= PollTime
Untouched == \A i \in Ids : i > lastId => count[i] = 0 /\ failed[i] = 0
Somebody  == lastId > 0 => Workers # {}
InTime    == \A i \in pending : count[i] # 0 => Timely(i)

BaseInv  == TypeInv /\ ClockInv /\ ReadsEnd /\ AllScanned
FewFailures == \A i \in Ids : failed[i] <= MaxRetries
TimeInv  == /\ BaseInv /\ Untouched /\ Somebody
            /\ CounterExact /\ FewFailures /\ InTime

-----------------------------------------------------------------------------
LEMMA Sizes ==
  /\ Proc \in Nat /\ Proc = MaxJobTime * BatchSize /\ Lap \in Nat /\ Laps \in Nat
  /\ Wait \in Nat /\ Most \in Nat /\ Most <= BatchSize * Laps /\ Lap = PollTime + Proc + Proc
<1>1. Proc \in Nat /\ Proc = MaxJobTime * BatchSize
  BY DEF Proc
<1>2. Lap \in Nat /\ Lap = PollTime + Proc + Proc
  BY <1>1 DEF Lap
<1>3. Laps \in Nat /\ Most \in Nat /\ Most <= BatchSize * Laps
  <2>0. Most \in Nat
    BY DEF Most
  <2>1. PICK n \in Nat : n = Most + BatchSize - 1
    BY <2>0
  <2>2. n \div BatchSize \in Nat /\ n < BatchSize * (n \div BatchSize) + BatchSize
    BY SMTT(30)
  <2> QED BY <2>0, <2>1, <2>2 DEF Laps
<1>4. Wait \in Nat
  BY <1>2, <1>3 DEF Wait
<1> QED BY <1>1, <1>2, <1>3, <1>4

\* No batch takes longer than Proc, no round longer than Lap.
RoundsEnd == \A w \in Workers : Rem(w) \in 0 .. Proc /\ Round(w) \in 0 .. Lap

LEMMA Rounds == BaseInv => RoundsEnd
<1> SUFFICES ASSUME BaseInv, NEW w \in Workers
             PROVE  Rem(w) \in 0 .. Proc /\ Round(w) \in 0 .. Lap
  BY DEF RoundsEnd
<1>1. ClockTypes /\ WorkerOK(w) /\ spent[w] \in Nat /\ batch[w] \subseteq Ids
  BY OwnTypes DEF BaseInv, ClockInv, ClockTypes
<1>2. PICK c \in Nat : c = Cardinality(batch[w])
  BY <1>1, IdsFinite
<1>3. PICK s \in Nat : s = IF at[w] = "job" THEN MaxJobTime - spent[w] ELSE 0
  BY <1>1 DEF WorkerOK
<1>4. c * MaxJobTime + s \in 0 .. Proc
  <2>1. CASE at[w] = "job"
    <3>1. Own(w) = batch[w] \cup {cur[w]} /\ cur[w] \notin batch[w]
      BY <1>1, <2>1 DEF WorkerOK, Own
    <3>2. Cardinality(Own(w)) = c + 1
      BY <1>1, <1>2, <3>1, IdsFinite, FS_AddElement
    <3>3. c + 1 <= BatchSize
      BY <1>1, <3>2 DEF WorkerOK
    <3>4. (BatchSize - (c + 1)) * MaxJobTime \in Nat
      BY <3>3, Product
    <3>5. s <= MaxJobTime
      BY <1>1, <1>3, <2>1
    <3>6. PICK x \in Nat : x = c * MaxJobTime
      OBVIOUS
    <3>7. PICK e \in Nat : BatchSize = (c + 1) + e
      <4>1. BatchSize - (c + 1) \in Nat
        BY <3>3
      <4> QED BY <4>1
    <3>8. ((c + 1) + e) * MaxJobTime = c * MaxJobTime + MaxJobTime + e * MaxJobTime
      BY SMT
    <3>9. PICK y \in Nat : y = e * MaxJobTime
      BY <3>7
    <3>10. Proc = x + MaxJobTime + y
      BY <3>6, <3>7, <3>8, <3>9 DEF Proc
    <3> QED BY <1>3, <3>5, <3>6, <3>9, <3>10
  <2>2. CASE at[w] # "job"
    <3>1. Own(w) = batch[w]
      BY <1>1, <2>2 DEF WorkerOK, Own
    <3>2. c <= BatchSize /\ s = 0
      BY <1>1, <1>2, <1>3, <2>2, <3>1 DEF WorkerOK
    <3>3. PICK x \in Nat : x = c * MaxJobTime
      OBVIOUS
    <3>4. PICK e \in Nat : BatchSize = c + e
      <4>1. BatchSize - c \in Nat
        BY <3>2
      <4> QED BY <4>1
    <3>5. (c + e) * MaxJobTime = c * MaxJobTime + e * MaxJobTime
      BY SMT
    <3>6. PICK y \in Nat : y = e * MaxJobTime
      BY <3>4
    <3>7. Proc = x + y
      BY <3>3, <3>4, <3>5, <3>6 DEF Proc
    <3> QED BY <3>2, <3>3, <3>6, <3>7
  <2> QED BY <2>1, <2>2
<1>5. Rem(w) \in 0 .. Proc
  BY <1>2, <1>3, <1>4 DEF Rem
<1>6. Round(w) \in 0 .. Lap
  <2>1. at[w] = "read" => PollTime - spent[w] \in 0 .. PollTime
    BY <1>1 DEF BaseInv, ReadsEnd
  <2> QED BY <1>5, <2>1, Sizes DEF Round
<1> QED BY <1>5, <1>6

AheadBounded ==
  \A i \in Ids, d \in Nat : /\ IsFiniteSet(Ahead(i, d))
                            /\ Cardinality(Ahead(i, d)) \in Nat
                            /\ i \in pending => Cardinality(Ahead(i, d)) < Most

LEMMA Aheads == BaseInv => AheadBounded
<1> SUFFICES ASSUME BaseInv, NEW i \in Ids, NEW d \in Nat
             PROVE  /\ IsFiniteSet(Ahead(i, d))
                    /\ Cardinality(Ahead(i, d)) \in Nat
                    /\ i \in pending => Cardinality(Ahead(i, d)) < Most
  BY DEF AheadBounded
<1>0. ClockTypes /\ AllScanned
  BY DEF BaseInv, ClockInv
<1>1. Ahead(i, d) \subseteq 1 .. i - 1
  <2> SUFFICES ASSUME NEW j \in pending, j < i PROVE j \in 1 .. i - 1
    BY DEF Ahead
  <2>1. j \in 1 .. lastId /\ lastId \in Int /\ i \in Int
    BY <1>0 DEF ClockTypes, Ids
  <2> QED BY <2>1
<1>2. 1 .. i - 1 \subseteq Ids /\ i \in Int /\ i >= 1 /\ i <= MaxEntries
  BY DEF Ids
<1>3. Cardinality(1 .. i - 1) = i - 1
  <2>1. 1 \in Int /\ i - 1 \in Int
    BY <1>2
  <2>2. Cardinality(1 .. i - 1) = IF 1 > i - 1 THEN 0 ELSE (i - 1) - 1 + 1
    BY <2>1, FS_Interval
  <2> QED BY <1>2, <2>2
<1>4. IsFiniteSet(1 .. i - 1)
  BY <1>2, IdsFinite
<1>5. Cardinality(Ahead(i, d)) <= Cardinality(1 .. i - 1)
  BY <1>1, <1>4, FS_Subset
<1>6. Ahead(i, d) \subseteq Ids
  BY <1>1, <1>2
<1>7. IsFiniteSet(Ahead(i, d)) /\ Cardinality(Ahead(i, d)) \in Nat
  BY <1>6, IdsFinite
<1>8. Cardinality(Ahead(i, d)) < MaxEntries
  BY <1>2, <1>3, <1>5, <1>7
<1>9. ASSUME i \in pending
      PROVE  Cardinality(Ahead(i, d)) < ScanLimit
  <2>1. pending \subseteq Ids
    BY <1>0 DEF ClockTypes, Ids
  <2>2. IsFiniteSet(pending \ {i}) /\ Cardinality(pending \ {i}) = Cardinality(pending) - 1
    BY <1>9, <2>1, IdsFinite, FS_RemoveElement
  <2>3. Ahead(i, d) \subseteq pending \ {i}
    BY <1>2 DEF Ahead
  <2>4. Cardinality(Ahead(i, d)) <= Cardinality(pending \ {i})
    BY <2>2, <2>3, FS_Subset
  <2>5. Cardinality(pending) \in Nat /\ Cardinality(pending) <= ScanLimit
    BY <1>0, <2>1, IdsFinite DEF AllScanned
  <2> QED BY <1>7, <2>2, <2>4, <2>5
<1> QED BY <1>7, <1>8, <1>9 DEF Most

\* Whatever is ahead, Wait is enough.
TurnsCome == \A i \in pending : InTurn(i, Wait)

LEMMA Turns == BaseInv => TurnsCome
<1> SUFFICES ASSUME BaseInv, NEW i \in pending, NEW w \in Workers
             PROVE  \E k \in Nat : /\ Cardinality(Ahead(i, Wait)) < BatchSize * (k + 1)
                                   /\ Round(w) + k * Lap <= Wait
  BY DEF TurnsCome, InTurn
<1>0. i \in Ids
  BY DEF BaseInv, ClockInv, ClockTypes, Ids
<1>1. PICK c \in Nat : c = Cardinality(Ahead(i, Wait)) /\ c < Most
  BY <1>0, Aheads, Sizes DEF AheadBounded
<1>2. Most \in Nat \ {0}
  BY <1>1, Sizes
<1>3. Laps # 0
  BY <1>2, Sizes
<1>4. PICK k \in Nat : Laps = k + 1
  <2>1. Laps - 1 \in Nat
    BY <1>3, Sizes
  <2> QED BY <2>1, Sizes
<1>5. c < BatchSize * (k + 1)
  <2>1. PICK m \in Nat : m = BatchSize * (k + 1)
    BY <1>4
  <2>2. Most <= m
    BY <1>4, <2>1, Sizes
  <2> QED BY <1>1, <1>2, <2>1, <2>2
<1>6. Round(w) + k * Lap <= Wait
  <2>1. PICK l \in Nat : l = Lap
    BY Sizes
  <2>2. Wait = k * l + l
    <3>1. (k + 1) * l = k * l + l
      BY SMT
    <3> QED BY <1>4, <2>1, <3>1 DEF Wait
  <2>3. Round(w) \in 0 .. l
    BY <2>1, Rounds DEF RoundsEnd
  <2>4. PICK x \in Nat : x = k * l
    OBVIOUS
  <2> QED BY <2>1, <2>2, <2>3, <2>4
<1> QED BY <1>1, <1>5, <1>6

\* An entry that leaves a worker's hands is too fresh to come before another.
LEMMA OwnIdle ==
  ASSUME ClockInv, NEW w \in Workers, NEW i \in Own(w)
  PROVE  i \in Ids /\ idleFor[i] \in 0 .. Proc
<1>1. WorkerOK(w) /\ ClockTypes
  BY DEF ClockInv
<1>2. /\ i \in Ids /\ Cardinality(Own(w)) \in Nat /\ Cardinality(Own(w)) # 0
      /\ Cardinality(Own(w)) <= BatchSize /\ spent[w] \in Nat
  BY <1>1, OwnTypes DEF WorkerOK
<1>3. PICK c \in Nat : c = Cardinality(Own(w))
  BY <1>2
<1>4. (BatchSize - c) * MaxJobTime \in Nat
      /\ (BatchSize - c) * MaxJobTime + MaxJobTime <= MaxJobTime * BatchSize
  BY <1>2, <1>3, Product
<1>5. idleFor[i] \in Nat
  BY <1>1, <1>2 DEF ClockTypes
<1>6. idleFor[i] <= (BatchSize - c) * MaxJobTime + MaxJobTime
  BY <1>1, <1>2, <1>3, <1>4, <1>5 DEF WorkerOK, Allowance
<1> QED BY <1>2, <1>4, <1>5, <1>6, Sizes

\* A turn that is not put off: no more is ahead, and no worker is farther away.
LEMMA TurnKept ==
  ASSUME BaseInv, BaseInv', NEW i \in Ids, i \in pending', NEW d \in 0 .. Wait, InTurn(i, d),
         NEW w \in Workers, Round(w)' <= Round(w),
         Laps > 1 => Ahead(i, d)' \subseteq Ahead(i, d)
  PROVE  \E k \in Nat : /\ Cardinality(Ahead(i, d)') < BatchSize * (k + 1)
                        /\ Round(w)' + k * Lap <= d
<1>1. PICK k \in Nat : /\ Cardinality(Ahead(i, d)) < BatchSize * (k + 1)
                       /\ Round(w) + k * Lap <= d
  BY DEF InTurn
<1>2. AheadBounded /\ RoundsEnd
  BY Aheads, Rounds
<1>3. AheadBounded' /\ RoundsEnd'
  BY Aheads, Rounds, PTL
<1>4. Round(w)' + k * Lap <= d
  <2>1. PICK x \in Nat : x = k * Lap
    BY Sizes
  <2>2. Round(w) \in Nat /\ Round(w)' \in Nat /\ d \in Nat
    BY <1>2, <1>3, Sizes DEF RoundsEnd
  <2> QED BY <1>1, <2>1, <2>2
<1>5. d \in Nat
  BY Sizes
<1>6. PICK a \in Nat : a = Cardinality(Ahead(i, d))
  BY <1>2, <1>5 DEF AheadBounded
<1>7. PICK b \in Nat : b = Cardinality(Ahead(i, d)') /\ b < Most
  BY <1>3, <1>5 DEF AheadBounded
<1>8. b < BatchSize * (k + 1)
  <2>1. PICK m \in Nat : m = BatchSize * (k + 1)
    OBVIOUS
  <2>2. CASE Laps > 1
    <3>1. IsFiniteSet(Ahead(i, d))
      BY <1>2, <1>5 DEF AheadBounded
    <3>2. b <= a
      BY <1>6, <1>7, <2>2, <3>1, FS_Subset
    <3> QED BY <1>1, <1>6, <1>7, <2>1, <3>2
  <2>3. CASE ~ (Laps > 1)
    <3>1. Laps = 0 \/ Laps = 1
      BY <2>3, Sizes
    <3>2. Most <= BatchSize /\ Most \in Nat
      BY <3>1, Sizes
    <3>3. BatchSize * (k + 1) = BatchSize * k + BatchSize
      BY SMT
    <3>4. PICK x \in Nat : x = BatchSize * k
      OBVIOUS
    <3> QED BY <1>7, <3>2, <3>3, <3>4
  <2> QED BY <2>2, <2>3
<1> QED BY <1>4, <1>7, <1>8

-----------------------------------------------------------------------------
LEMMA ReadsKeep ==
  ASSUME BaseInv, [Next]_vars
  PROVE  ReadsEnd'
<1> SUFFICES ASSUME NEW v \in Workers, at'[v] = "read"
             PROVE  spent'[v] <= PollTime
  BY DEF ReadsEnd
<1>1. ClockTypes /\ WorkerOK(v) /\ spent[v] \in Nat /\ (at[v] = "read" => spent[v] <= PollTime)
  BY OwnTypes DEF BaseInv, ClockInv, ReadsEnd
<1>2. CASE at'[v] = at[v] /\ spent'[v] = spent[v]
  BY <1>1, <1>2
<1>3. CASE Publish \/ UNCHANGED vars
  BY <1>2, <1>3 DEF Publish, vars, locals
<1>4. CASE Tick
  BY <1>1, <1>4 DEF Tick, MayWait
<1>5. ASSUME NEW w \in Workers, WorkerStep(w), w # v
      PROVE  at'[v] = at[v] /\ spent'[v] = spent[v]
  BY <1>1, <1>5 DEF WorkerStep, Reclaim, Read, Got, Take, BatchDone, Succeed, Fail, JobOver,
                    ClockTypes
<1>6. CASE WorkerStep(v)
  <2>1. CASE BatchDone(v)
    BY <1>1, <2>1 DEF BatchDone, WorkerOK
  <2>2. CASE Reclaim(v) \/ Read(v)
    BY <1>1, <2>2 DEF Reclaim, Read, Got, ClockTypes
  <2>3. CASE Take(v)
    BY <1>1, <2>3 DEF Take, ClockTypes
  <2>4. CASE Succeed(v) \/ Fail(v)
    BY <1>1, <2>4 DEF Succeed, Fail, JobOver, ClockTypes
  <2> QED BY <1>6, <2>1, <2>2, <2>3, <2>4 DEF WorkerStep
<1> QED BY <1>2, <1>3, <1>4, <1>5, <1>6 DEF Next

LEMMA BaseKeeps ==
  ASSUME Patient, BaseInv, [Next]_vars, AllScanned'
  PROVE  BaseInv'
BY NextTypes, ClockSound, ReadsKeep DEF BaseInv

-----------------------------------------------------------------------------
(* Entries that a step does not touch.                                     *)

LEMMA Unseen ==
  ASSUME NEW i, Timely(i),
         UNCHANGED <<pending, idleFor, ttl, delay, at, batch, cur, source, spent>>
  PROVE  Timely(i)'
<1>1. \A w \in Workers : Own(w)' = Own(w) /\ Rem(w)' = Rem(w) /\ Round(w)' = Round(w)
  BY DEF Own, Rem, Round
<1>2. \A j : Unhandled(j)' <=> Unhandled(j)
  BY <1>1 DEF Unhandled
<1>3. \A d : Ahead(i, d)' = Ahead(i, d)
  BY <1>2 DEF Ahead
<1>4. \A d : InTurn(i, d)' <=> InTurn(i, d)
  BY <1>1, <1>3 DEF InTurn
<1> QED BY <1>1, <1>2, <1>4 DEF Timely, Delayed, Resting, Waiting, InBatch

\* A worker to which nothing happens.
LEMMA SameView ==
  ASSUME NEW v \in Workers, at'[v] = at[v], batch'[v] = batch[v], cur'[v] = cur[v],
         source'[v] = source[v], spent'[v] = spent[v]
  PROVE  Own(v)' = Own(v) /\ Rem(v)' = Rem(v) /\ Round(v)' = Round(v)
<1>1. Own(v)' = Own(v) /\ Rem(v)' = Rem(v)
  BY DEF Own, Rem
<1> QED BY <1>1 DEF Round

\* An entry that a step of w leaves as it was, with what becomes of its turn.
LEMMA Stays ==
  ASSUME BaseInv, BaseInv', NEW w \in Workers, NEW i \in Ids, i \in pending', Timely(i),
         ttl'[i] = ttl[i], delay'[i] = delay[i], idleFor'[i] = idleFor[i],
         \A v \in Workers \ {w} : Own(v)' = Own(v) /\ Rem(v)' = Rem(v) /\ Round(v)' = Round(v),
         i \in Own(w)' => i \in Own(w) /\ Rem(w)' <= Rem(w),
         i \in Own(w) => i \in Own(w)',
         \A d \in 0 .. Wait : Laps > 1 => Ahead(i, d)' \subseteq Ahead(i, d),
         \A d \in 0 .. Wait :
           delay[i] = 0 /\ Unhandled(i) /\ idleFor[i] = Threshold /\ InTurn(i, d)
             => \E k \in Nat : /\ Cardinality(Ahead(i, d)') < BatchSize * (k + 1)
                               /\ Round(w)' + k * Lap <= d
  PROVE  Timely(i)'
<1>1. Unhandled(i)' => Unhandled(i)
  BY DEF Unhandled
<1>2. Delayed(i)'
  BY DEF Timely, Delayed
<1>3. Resting(i)'
  BY <1>1 DEF Timely, Resting
<1>4. Waiting(i)'
  <2> SUFFICES ASSUME delay[i] = 0, Unhandled(i), idleFor[i] = Threshold
               PROVE  \E d \in 0 .. Wait : d + Proc < ttl'[i] /\ InTurn(i, d)'
    BY <1>1 DEF Waiting
  <2>1. PICK d \in 0 .. Wait : d + Proc < ttl[i] /\ InTurn(i, d)
    BY DEF Timely, Waiting
  <2>2. RoundsEnd
    BY Rounds
  <2>3. ASSUME NEW v \in Workers, v # w
        PROVE  \E k \in Nat : /\ Cardinality(Ahead(i, d)') < BatchSize * (k + 1)
                              /\ Round(v)' + k * Lap <= d
    <3>1. Round(v)' <= Round(v)
      BY <2>2, <2>3, Sizes DEF RoundsEnd
    <3> QED BY <2>1, <3>1, TurnKept
  <2>4. InTurn(i, d)'
    BY <2>1, <2>3 DEF InTurn
  <2> QED BY <2>1, <2>4
<1>5. InBatch(i)'
  <2> SUFFICES ASSUME NEW v \in Workers, delay'[i] = 0, i \in Own(v)'
               PROVE  Rem(v)' < ttl'[i]
    BY DEF InBatch
  <2>1. i \in Own(v) /\ Rem(v)' <= Rem(v)
    <3>1. Rem(v) \in Nat
      BY Rounds, Sizes DEF RoundsEnd
    <3> QED BY <3>1
  <2>2. Rem(v) < ttl[i]
    BY <2>1 DEF Timely, InBatch
  <2>3. Rem(v) \in Nat /\ Rem(v)' \in Nat /\ ttl[i] \in Nat
    <3>1. RoundsEnd'
      BY Rounds, PTL
    <3>2. ttl[i] \in 0 .. CountTtl
      BY DEF BaseInv, TypeInv, TypeOK
    <3> QED BY <3>1, <3>2, Rounds, Sizes, CountTtlPositive DEF RoundsEnd
  <2> QED BY <2>1, <2>2, <2>3
<1> QED BY <1>2, <1>3, <1>4, <1>5 DEF Timely

\* Nothing comes before i but what did, and what w has just let go is not idle
\* enough to.
LEMMA AheadKept ==
  ASSUME LongLived, BaseInv', NEW w \in Workers, NEW i \in Ids, NEW d \in 0 .. Wait,
         \A v \in Workers \ {w} : Own(v)' = Own(v),
         \A x \in pending' : x < i =>
            /\ x \in pending
            /\ \/ x \in Own(w)'
               \/ x \notin Own(w) /\ idleFor'[x] = idleFor[x]
               \/ idleFor'[x] <= Proc,
         Laps > 1
  PROVE  Ahead(i, d)' \subseteq Ahead(i, d)
<1> SUFFICES ASSUME NEW x \in pending', x < i, Unhandled(x)', Threshold - idleFor'[x] <= d
             PROVE  x \in pending /\ Unhandled(x) /\ Threshold - idleFor[x] <= d
  BY DEF Ahead
<1>1. x \notin Own(w)' /\ idleFor'[x] \in 0 .. Threshold /\ x \in pending
  BY DEF Unhandled, BaseInv, ClockInv, ClockTypes, Ids
<1>2. ~ (idleFor'[x] <= Proc)
  <2>1. Wait + Proc < Threshold
    BY DEF LongLived
  <2> QED BY <1>1, <2>1, Sizes
<1>3. x \notin Own(w) /\ idleFor'[x] = idleFor[x]
  BY <1>1, <1>2
<1>4. Unhandled(x)
  BY <1>3 DEF Unhandled
<1> QED BY <1>1, <1>3, <1>4

-----------------------------------------------------------------------------
(* The steps of a worker.                                                  *)

\* Whoever is left out of a full batch has only older entries before it.
LEMMA OldestFull ==
  ASSUME NEW S \in SUBSET Ids, NEW i \in S, i \notin Oldest(S, BatchSize)
  PROVE  /\ Cardinality(Oldest(S, BatchSize)) \in Nat
         /\ BatchSize <= Cardinality(Oldest(S, BatchSize))
         /\ \A x \in Oldest(S, BatchSize) : x < i
<1>1. PICK O : O = Oldest(S, BatchSize)
  OBVIOUS
<1>2. O = {j \in S : Cardinality({q \in S : q <= j}) <= BatchSize}
  BY <1>1 DEF Oldest
<1>3. ASSUME NEW n
      PROVE  Cardinality({q \in S : q <= n}) \in Nat /\ IsFiniteSet({q \in S : q <= n})
  <2>1. {q \in S : q <= n} \subseteq Ids
    OBVIOUS
  <2> QED BY <2>1, IdsFinite
<1>4. \A q \in S : q \in Nat
  BY DEF Ids
<1>5. PICK m \in S \ O : \A q \in S \ O : m <= q
  <2>1. S \ O \subseteq Nat /\ S \ O # {}
    BY <1>1, <1>4
  <2> QED BY <2>1, Least
<1>6. {q \in S : q < m} \subseteq O
  <2> SUFFICES ASSUME NEW q \in S, q < m, q \notin O PROVE FALSE
    OBVIOUS
  <2>1. m <= q /\ m \in Nat /\ q \in Nat
    BY <1>4, <1>5
  <2> QED BY <2>1
<1>7. Cardinality({q \in S : q <= m}) = Cardinality({q \in S : q < m}) + 1
  <2>1. {q \in S : q <= m} = {q \in S : q < m} \cup {m}
    BY <1>4
  <2>2. {q \in S : q < m} \subseteq Ids /\ m \notin {q \in S : q < m}
    BY <1>4
  <2>3. IsFiniteSet({q \in S : q < m})
    BY <2>2, IdsFinite
  <2> QED BY <2>1, <2>2, <2>3, FS_AddElement
<1>8. O \subseteq Ids
  BY <1>2
<1>9. /\ Cardinality(O) \in Nat /\ Cardinality({q \in S : q < m}) \in Nat
      /\ Cardinality({q \in S : q < m}) <= Cardinality(O)
  BY <1>6, <1>8, IdsFinite, FS_Subset
<1>10. BatchSize <= Cardinality(O)
  <2>1. ~ (Cardinality({q \in S : q <= m}) <= BatchSize)
    BY <1>2, <1>5
  <2> QED BY <1>3, <1>7, <1>9, <2>1
<1>11. ASSUME NEW x \in O, ~ (x < i)
       PROVE  FALSE
  <2>1. {q \in S : q <= i} \subseteq {q \in S : q <= x}
    BY <1>2, <1>4, <1>11
  <2>2. Cardinality({q \in S : q <= i}) <= Cardinality({q \in S : q <= x})
    BY <1>3, <2>1, FS_Subset
  <2>3. Cardinality({q \in S : q <= x}) <= BatchSize
    BY <1>2
  <2>4. PICK u \in Nat, v \in Nat : /\ u = Cardinality({q \in S : q <= i})
                                    /\ v = Cardinality({q \in S : q <= x})
    BY <1>3
  <2>5. u <= BatchSize
    BY <2>2, <2>3, <2>4
  <2>6. i \in O
    BY <1>2, <2>4, <2>5
  <2> QED BY <1>1, <2>6
<1> QED BY <1>1, <1>9, <1>10, <1>11

LEMMA TypesOf ==
  ASSUME BaseInv, NEW i \in Ids
  PROVE  /\ ttl[i] \in Nat /\ delay[i] \in Nat /\ idleFor[i] \in 0 .. Threshold
         /\ count[i] \in 0 .. MaxRetries - 1 /\ failed[i] \in 0 .. MaxRetries + 1
         /\ (i \in pending => i \in Ids)
BY CountTtlPositive DEF BaseInv, TypeInv, TypeOK

\* The worker of a call that hands out S: all that is in its hands afterwards.
LEMMA GotViews ==
  ASSUME BaseInv, NEW w \in Workers, NEW S \in SUBSET Ids, NEW call,
         at[w] \in {"reclaim", "read"}, Got(w, S, call), UNCHANGED cur
  PROVE  /\ Own(w) = {} /\ Own(w)' = S
         /\ \A v \in Workers \ {w} :
              Own(v)' = Own(v) /\ Rem(v)' = Rem(v) /\ Round(v)' = Round(v)
         /\ \A j \in Ids \ S : idleFor'[j] = idleFor[j]
         /\ at'[w] = "batch" /\ source'[w] = call
<1>1. ClockTypes /\ WorkerOK(w) /\ source \in [Workers -> {"reclaim", "read"}]
  BY DEF BaseInv, ClockInv, TypeInv, TypeOK
<1>2. /\ at' = [at EXCEPT ![w] = "batch"] /\ batch' = [batch EXCEPT ![w] = S]
      /\ spent' = [spent EXCEPT ![w] = 0] /\ source' = [source EXCEPT ![w] = call]
      /\ idleFor' = [i \in Ids |-> IF i \in S THEN 0 ELSE idleFor[i]]
  BY DEF Got
<1>3. Own(w) = {} /\ Own(w)' = S
  BY <1>1, <1>2 DEF WorkerOK, Own, ClockTypes
<1>4. ASSUME NEW v \in Workers, v # w
      PROVE  Own(v)' = Own(v) /\ Rem(v)' = Rem(v) /\ Round(v)' = Round(v)
  <2>1. /\ at'[v] = at[v] /\ batch'[v] = batch[v] /\ cur'[v] = cur[v]
        /\ source'[v] = source[v] /\ spent'[v] = spent[v]
    BY <1>1, <1>2, <1>4 DEF ClockTypes
  <2> QED BY <2>1, SameView
<1>5. \A j \in Ids \ S : idleFor'[j] = idleFor[j]
  BY <1>2
<1>6. at'[w] = "batch" /\ source'[w] = call
  BY <1>1, <1>2 DEF ClockTypes
<1> QED BY <1>3, <1>4, <1>5, <1>6

LEMMA TimeParts ==
  ASSUME TimeInv, BaseInv'
  PROVE  /\ BaseInv /\ ClockInv /\ ClockTypes /\ pending \subseteq Ids
         /\ RoundsEnd /\ RoundsEnd'
<1>1. RoundsEnd'
  BY Rounds, PTL
<1>2. BaseInv /\ RoundsEnd
  BY Rounds DEF TimeInv
<1>3. ClockInv /\ ClockTypes
  BY <1>2 DEF BaseInv, ClockInv
<1>4. pending \subseteq Ids
  BY <1>3 DEF ClockTypes, Ids
<1> QED BY <1>1, <1>2, <1>3, <1>4

LEMMA ReclaimTime ==
  ASSUME LongLived, Patient, TimeInv, BaseInv', NEW w \in Workers, Reclaim(w)
  PROVE  InTime'
<1>1. PICK R : R = {i \in pending : idleFor[i] >= Threshold}
  OBVIOUS
<1>2. PICK S : S = Oldest(R, BatchSize)
  OBVIOUS
<1>3. /\ Got(w, S, "reclaim") /\ at[w] = "reclaim"
      /\ UNCHANGED <<published, lastId, pending, keys, dlq, failed, cur>>
  <2>1. Oldest(pending, ScanLimit) = pending
    BY TimeParts, OldestAll DEF BaseInv, AllScanned
  <2> QED BY <1>1, <1>2, <2>1 DEF Reclaim
<1>4. BaseInv /\ ClockInv /\ ClockTypes /\ pending \subseteq Ids /\ RoundsEnd /\ RoundsEnd'
  BY TimeParts
<1>5. R \subseteq Ids /\ S \subseteq R
  BY <1>1, <1>2, <1>4 DEF Oldest
<1>6. S \in SUBSET Ids
  BY <1>5
<1>7. /\ Own(w) = {} /\ Own(w)' = S
      /\ \A v \in Workers \ {w} :
           Own(v)' = Own(v) /\ Rem(v)' = Rem(v) /\ Round(v)' = Round(v)
      /\ \A j \in Ids \ S : idleFor'[j] = idleFor[j]
  BY <1>3, <1>4, <1>6, GotViews
<1> SUFFICES ASSUME NEW i \in pending, count[i] # 0
             PROVE  Timely(i)'
  BY <1>3 DEF InTime, keys
<1>8. Timely(i) /\ i \in Ids /\ ttl'[i] = ttl[i] /\ delay'[i] = delay[i]
  BY <1>3, <1>4 DEF TimeInv, InTime, keys
<1>9. CASE i \in S
  <2>1. Delayed(i)'
    BY <1>8 DEF Timely, Delayed
  <2>2. ~ Unhandled(i)'
    BY <1>7, <1>9 DEF Unhandled
  <2>3. Unhandled(i) /\ idleFor[i] = Threshold
    <3>1. idleFor[i] >= Threshold /\ idleFor[i] \in 0 .. Threshold
      BY <1>1, <1>4, <1>5, <1>8, <1>9 DEF ClockTypes
    <3>2. \A v \in Workers : i \notin Own(v)
      BY <1>4, <1>8, <3>1, OwnedIsFresh
    <3> QED BY <3>1, <3>2 DEF Unhandled
  <2>4. InBatch(i)'
    <3> SUFFICES ASSUME NEW v \in Workers, delay[i] = 0, i \in Own(v)'
                 PROVE  Rem(v)' < ttl[i]
      BY <1>8 DEF InBatch
    <3>1. v = w
      BY <1>7, <2>3 DEF Unhandled
    <3>2. Rem(w)' \in 0 .. Proc
      BY <1>4 DEF RoundsEnd
    <3>3. PICK d \in 0 .. Wait : d + Proc < ttl[i]
      BY <1>8, <2>3 DEF Timely, Waiting
    <3>4. ttl[i] \in Nat
      BY <1>4, <1>8, TypesOf
    <3> QED BY <3>1, <3>2, <3>3, <3>4, Sizes
  <2> QED BY <2>1, <2>2, <2>4 DEF Timely, Resting, Waiting
<1>10. CASE i \notin S
  <2>1. ASSUME NEW d \in 0 .. Wait
        PROVE  Ahead(i, d)' \subseteq Ahead(i, d) \ S
    <3> SUFFICES ASSUME NEW x \in pending, x < i, Unhandled(x)', Threshold - idleFor'[x] <= d
                 PROVE  x \notin S /\ Unhandled(x) /\ Threshold - idleFor[x] <= d
      BY <1>3 DEF Ahead
    <3>1. x \notin S
      BY <1>7 DEF Unhandled
    <3>2. Unhandled(x)
      BY <1>7 DEF Unhandled
    <3> QED BY <1>4, <1>7, <3>1, <3>2
  <2>2. ASSUME NEW d \in 0 .. Wait, delay[i] = 0, Unhandled(i), idleFor[i] = Threshold,
               InTurn(i, d)
        PROVE  \E k \in Nat : /\ Cardinality(Ahead(i, d)') < BatchSize * (k + 1)
                              /\ Round(w)' + k * Lap <= d
    <3>1. i \in R
      BY <1>1, <2>2
    <3>2. PICK s \in Nat : s = Cardinality(S) /\ BatchSize <= s
      BY <1>2, <1>5, <1>10, <3>1, OldestFull
    <3>3. \A x \in S : x < i
      BY <1>2, <1>5, <1>10, <3>1, OldestFull
    <3>4. S \subseteq Ahead(i, d)
      <4> SUFFICES ASSUME NEW x \in S
                   PROVE  Unhandled(x) /\ Threshold - idleFor[x] <= d
        BY <1>1, <1>5, <3>3 DEF Ahead
      <4>1. idleFor[x] >= Threshold /\ idleFor[x] \in 0 .. Threshold /\ x \in Ids
        BY <1>1, <1>4, <1>5 DEF ClockTypes
      <4>2. \A v \in Workers : x \notin Own(v)
        BY <1>4, <4>1, OwnedIsFresh
      <4>3. d \in Nat
        BY Sizes
      <4> QED BY <4>1, <4>2, <4>3 DEF Unhandled
    <3>5. d \in Nat /\ IsFiniteSet(Ahead(i, d))
      BY <1>4, <1>8, Aheads, Sizes DEF AheadBounded
    <3>6. PICK a \in Nat : a = Cardinality(Ahead(i, d))
      BY <3>5, FS_CardinalityType
    <3>7. IsFiniteSet(Ahead(i, d) \ S) /\ Cardinality(Ahead(i, d) \ S) = a - s
      <4>1. Ahead(i, d) \cap S = S
        BY <3>4
      <4>2. Cardinality(Ahead(i, d) \ S) = Cardinality(Ahead(i, d)) - Cardinality(Ahead(i, d) \cap S)
        BY <3>5, FS_Difference
      <4>3. IsFiniteSet(Ahead(i, d) \ S)
        BY <3>5, FS_Difference
      <4> QED BY <3>2, <3>6, <4>1, <4>2, <4>3
    <3>8. PICK b \in Nat : b = Cardinality(Ahead(i, d)') /\ b <= a - s
      <4>1. Ahead(i, d)' \subseteq Ahead(i, d) \ S
        BY <2>1
      <4>2. IsFiniteSet(Ahead(i, d)') /\ Cardinality(Ahead(i, d)') <= a - s
        BY <3>7, <4>1, FS_Subset
      <4>3. Cardinality(Ahead(i, d)') \in Nat
        BY <4>2, FS_CardinalityType
      <4> QED BY <4>2, <4>3
    <3>9. PICK k \in Nat : a < BatchSize * (k + 1) /\ Round(w) + k * Lap <= d
      BY <2>2, <3>6 DEF InTurn
    <3>10. k # 0
      <4>1. s <= a
        BY <3>8
      <4> QED BY <3>2, <3>9, <4>1
    <3>11. PICK l \in Nat : k = l + 1
      <4>1. k - 1 \in Nat
        BY <3>10
      <4> QED BY <4>1
    <3>12. b < BatchSize * (l + 1)
      <4>1. BatchSize * (k + 1) = BatchSize * (l + 1) + BatchSize
        BY <3>11, SMT
      <4>2. PICK m \in Nat : m = BatchSize * (l + 1)
        OBVIOUS
      <4> QED BY <3>2, <3>8, <3>9, <4>1, <4>2
    <3>13. Round(w)' + l * Lap <= d
      <4>1. PICK z \in Nat : z = Lap
        BY Sizes
      <4>2. k * z = l * z + z
        BY <3>11, SMT
      <4>3. PICK m \in Nat : m = l * z
        OBVIOUS
      <4>4. Round(w) = 0 /\ Round(w)' \in 0 .. z
        BY <1>3, <1>4, <4>1 DEF Round, RoundsEnd
      <4> QED BY <3>5, <3>9, <4>1, <4>2, <4>3, <4>4
    <3> QED BY <3>8, <3>12, <3>13
  <2>3. i \notin Own(w)' /\ i \notin Own(w) /\ idleFor'[i] = idleFor[i]
    BY <1>7, <1>8, <1>10
  <2>4. \A d \in 0 .. Wait : Laps > 1 => Ahead(i, d)' \subseteq Ahead(i, d)
    BY <2>1
  <2> QED BY <1>3, <1>4, <1>7, <1>8, <2>2, <2>3, <2>4, Stays
<1> QED BY <1>9, <1>10

LEMMA ReadTime ==
  ASSUME LongLived, TimeInv, BaseInv', NEW w \in Workers, Read(w)
  PROVE  InTime'
<1>1. PICK S : S = Oldest(New, BatchSize)
  OBVIOUS
<1>2. /\ Got(w, S, "read") /\ at[w] = "read"
      /\ pending' = pending \cup S /\ UNCHANGED <<published, keys, dlq, failed, cur>>
  BY <1>1 DEF Read
<1>3. BaseInv /\ ClockTypes /\ pending \subseteq Ids /\ RoundsEnd /\ RoundsEnd'
  BY TimeParts
<1>4. S \in SUBSET Ids /\ \A x \in S : x > lastId
  BY <1>1, <1>3 DEF Oldest, New, ClockTypes, Ids
<1>5. /\ Own(w) = {} /\ Own(w)' = S
      /\ \A v \in Workers \ {w} :
           Own(v)' = Own(v) /\ Rem(v)' = Rem(v) /\ Round(v)' = Round(v)
      /\ \A j \in Ids \ S : idleFor'[j] = idleFor[j]
      /\ at'[w] = "batch" /\ source'[w] = "read"
  BY <1>2, <1>3, <1>4, GotViews
<1> SUFFICES ASSUME NEW i \in pending', count'[i] # 0
             PROVE  Timely(i)'
  BY DEF InTime
<1>6. i \in Ids /\ ~ (i > lastId) /\ i \notin S /\ i \in pending
  <2>1. i \in Ids
    BY <1>2, <1>3, <1>4
  <2>2. count[i] # 0
    BY <1>2 DEF keys
  <2>3. ~ (i > lastId)
    BY <2>1, <2>2 DEF TimeInv, Untouched
  <2> QED BY <1>2, <1>4, <2>1, <2>3
<1>7. Timely(i) /\ ttl'[i] = ttl[i] /\ delay'[i] = delay[i] /\ idleFor'[i] = idleFor[i]
  BY <1>2, <1>5, <1>6 DEF TimeInv, InTime, keys
<1>8. Round(w)' <= Round(w)
  <2>1. Round(w)' = Rem(w)'
    BY <1>5 DEF Round
  <2>2. Rem(w)' \in 0 .. Proc
    BY <1>3 DEF RoundsEnd
  <2>3. Round(w) = (PollTime - spent[w]) + Proc
    BY <1>2 DEF Round
  <2>4. PollTime - spent[w] \in Nat
    BY <1>2, <1>3 DEF BaseInv, ReadsEnd, ClockTypes
  <2> QED BY <2>1, <2>2, <2>3, <2>4, Sizes
<1>9. ASSUME NEW d \in 0 .. Wait
      PROVE  Ahead(i, d)' \subseteq Ahead(i, d)
  <2> SUFFICES ASSUME NEW x \in pending', x < i, Unhandled(x)', Threshold - idleFor'[x] <= d
               PROVE  x \in pending /\ Unhandled(x) /\ Threshold - idleFor[x] <= d
    BY DEF Ahead
  <2>1. x \notin S
    BY <1>5 DEF Unhandled
  <2>2. x \in pending /\ Unhandled(x)
    BY <1>2, <1>5, <2>1 DEF Unhandled
  <2> QED BY <1>3, <1>5, <2>1, <2>2
<1>10. i \notin Own(w)' /\ i \notin Own(w)
  BY <1>5, <1>6
<1>11. ASSUME NEW d \in 0 .. Wait, InTurn(i, d)
       PROVE  \E k \in Nat : /\ Cardinality(Ahead(i, d)') < BatchSize * (k + 1)
                             /\ Round(w)' + k * Lap <= d
  BY <1>3, <1>6, <1>8, <1>9, <1>11, TurnKept
<1> QED BY <1>3, <1>5, <1>6, <1>7, <1>9, <1>10, <1>11, Stays

\* The entries that w leaves alone when it drops j, or nothing, from its hands.
LEMMA Released ==
  ASSUME LongLived, TimeInv, BaseInv', NEW w \in Workers, NEW i \in pending, i \in pending', Timely(i),
         NEW j \in Own(w), i # j \/ i \in Own(w)',
         ttl'[i] = ttl[i], delay'[i] = delay[i],
         \A x \in Ids \ {j} : idleFor'[x] = idleFor[x],
         idleFor'[j] = idleFor[j] \/ idleFor'[j] = 0,
         pending' \subseteq pending, i # j \/ idleFor'[j] = idleFor[j],
         \A v \in Workers \ {w} : Own(v)' = Own(v) /\ Rem(v)' = Rem(v) /\ Round(v)' = Round(v),
         Own(w)' \subseteq Own(w), Own(w) \ {j} \subseteq Own(w)',
         Rem(w)' <= Rem(w), Round(w)' <= Round(w)
  PROVE  Timely(i)'
<1>1. BaseInv /\ ClockInv /\ pending \subseteq Ids
  BY TimeParts
<1>2. i \in Ids /\ idleFor'[i] = idleFor[i]
  BY <1>1
<1>3. j \in Ids /\ idleFor[j] \in 0 .. Proc
  BY <1>1, OwnIdle
<1>4. idleFor'[j] <= Proc
  BY <1>3, Sizes
<1>5. ASSUME NEW d \in 0 .. Wait, Laps > 1
      PROVE  Ahead(i, d)' \subseteq Ahead(i, d)
  <2>1. ASSUME NEW x \in pending', x < i
        PROVE  /\ x \in pending
               /\ \/ x \in Own(w)'
                  \/ x \notin Own(w) /\ idleFor'[x] = idleFor[x]
                  \/ idleFor'[x] <= Proc
    <3>1. x \in pending /\ x \in Ids
      BY <1>1
    <3>2. CASE x = j
      BY <1>4, <3>1, <3>2
    <3>3. CASE x # j
      BY <3>1, <3>3
    <3> QED BY <3>2, <3>3
  <2> QED BY <1>2, <1>5, <2>1, AheadKept
<1>6. ASSUME NEW d \in 0 .. Wait, InTurn(i, d)
      PROVE  \E k \in Nat : /\ Cardinality(Ahead(i, d)') < BatchSize * (k + 1)
                            /\ Round(w)' + k * Lap <= d
  BY <1>1, <1>2, <1>5, <1>6, TurnKept
<1>7. i \in Own(w) => i \in Own(w)'
  OBVIOUS
<1>8. i \in Own(w)' => i \in Own(w) /\ Rem(w)' <= Rem(w)
  OBVIOUS
<1> QED BY <1>1, <1>2, <1>5, <1>6, <1>7, <1>8, Stays

LEMMA TakeTime ==
  ASSUME LongLived, TimeInv, BaseInv', NEW w \in Workers, Take(w)
  PROVE  InTime'
<1>1. PICK j \in batch[w] :
        /\ batch' = [batch EXCEPT ![w] = batch[w] \ {j}]
        /\ \/ delay[j] > 0 /\ UNCHANGED <<at, cur>>
           \/ at' = [at EXCEPT ![w] = "job"] /\ cur' = [cur EXCEPT ![w] = j]
  BY DEF Take
<1>2. at[w] = "batch" /\ UNCHANGED <<group, keys, dlq, failed, source, spent>>
  BY DEF Take
<1>3. BaseInv /\ ClockInv /\ ClockTypes /\ WorkerOK(w) /\ pending \subseteq Ids /\ RoundsEnd /\ RoundsEnd'
  BY TimeParts DEF ClockInv
<1>4. /\ j \in Ids /\ j # 0 /\ cur[w] = 0 /\ spent[w] = 0 /\ Own(w) = batch[w]
      /\ batch'[w] = batch[w] \ {j}
  BY <1>1, <1>2, <1>3 DEF WorkerOK, ClockTypes, Own, Ids
<1>5. \A v \in Workers \ {w} :
        Own(v)' = Own(v) /\ Rem(v)' = Rem(v) /\ Round(v)' = Round(v)
  <2> SUFFICES ASSUME NEW v \in Workers, v # w
               PROVE  Own(v)' = Own(v) /\ Rem(v)' = Rem(v) /\ Round(v)' = Round(v)
    OBVIOUS
  <2>1. /\ at'[v] = at[v] /\ batch'[v] = batch[v] /\ cur'[v] = cur[v]
        /\ source'[v] = source[v] /\ spent'[v] = spent[v]
    BY <1>1, <1>2, <1>3 DEF ClockTypes
  <2> QED BY <2>1, SameView
<1>6. PICK c \in Nat : c = Cardinality(batch[w]) /\ c # 0 /\ Cardinality(batch[w] \ {j}) = c - 1
  <2>1. batch[w] \subseteq Ids
    BY <1>3 DEF ClockTypes
  <2>2. PICK c \in Nat : c = Cardinality(batch[w])
    BY <2>1, IdsFinite
  <2> QED BY <2>1, <2>2, IdsFinite, OneLess
<1>7. PICK x \in Nat : x = (c - 1) * MaxJobTime /\ c * MaxJobTime = x + MaxJobTime
  <2>1. PICK e \in Nat : c = e + 1
    <3>1. c - 1 \in Nat
      BY <1>6
    <3> QED BY <3>1
  <2>2. (e + 1) * MaxJobTime = e * MaxJobTime + MaxJobTime
    BY SMT
  <2>3. e * MaxJobTime \in Nat
    BY <2>1
  <2> QED BY <2>1, <2>2, <2>3
<1>8. Rem(w) = x + MaxJobTime
  BY <1>2, <1>6, <1>7 DEF Rem
<1>9. Rem(w)' <= Rem(w) /\ Round(w)' <= Round(w)
  <2>1. CASE UNCHANGED <<at, cur>>
    <3>1. at'[w] = "batch" /\ source'[w] = source[w]
      BY <1>2, <2>1
    <3>2. Rem(w)' = x + 0
      BY <1>4, <1>6, <1>7, <3>1 DEF Rem
    <3> QED BY <1>2, <1>8, <3>1, <3>2, Sizes DEF Round
  <2>2. CASE at' = [at EXCEPT ![w] = "job"]
    <3>1. at'[w] = "job" /\ source'[w] = source[w] /\ spent'[w] = 0
      BY <1>2, <1>3, <1>4, <2>2 DEF ClockTypes
    <3>2. Rem(w)' = x + (MaxJobTime - 0)
      BY <1>4, <1>6, <1>7, <3>1 DEF Rem
    <3> QED BY <1>2, <1>8, <3>1, <3>2, Sizes DEF Round
  <2> QED BY <1>1, <2>1, <2>2
<1>10. /\ Own(w)' \subseteq Own(w) /\ Own(w) \ {j} \subseteq Own(w)'
       /\ j \in Own(w)' \/ delay[j] > 0
  <2>1. CASE UNCHANGED cur /\ delay[j] > 0
    BY <1>4, <2>1 DEF Own
  <2>2. CASE cur' = [cur EXCEPT ![w] = j]
    BY <1>3, <1>4, <2>2 DEF Own, ClockTypes
  <2> QED BY <1>1, <2>1, <2>2
<1> SUFFICES ASSUME NEW i \in pending, count[i] # 0
             PROVE  Timely(i)'
  BY <1>2 DEF InTime, group, keys
<1>11. Timely(i) /\ i \in Ids
  BY <1>3 DEF TimeInv, InTime
<1>12. /\ ttl'[i] = ttl[i] /\ delay'[i] = delay[i] /\ idleFor' = idleFor /\ pending' = pending
  BY <1>2 DEF group, keys
<1>13. CASE i # j \/ i \in Own(w)'
  <2>1. j \in Own(w)
    BY <1>4
  <2> QED BY <1>5, <1>9, <1>10, <1>11, <1>12, <1>13, <2>1, Released
<1>14. CASE i = j /\ j \notin Own(w)'
  <2>1. delay[i] # 0
    BY <1>3, <1>10, <1>11, <1>14, TypesOf
  <2>2. Delayed(i)'
    BY <1>11, <1>12 DEF Timely, Delayed
  <2> QED BY <1>12, <2>1, <2>2 DEF Timely, Resting, Waiting, InBatch
<1> QED BY <1>13, <1>14

LEMMA BatchDoneTime ==
  ASSUME LongLived, TimeInv, BaseInv', NEW w \in Workers, BatchDone(w)
  PROVE  InTime'
<1>1. /\ at[w] = "batch" /\ batch[w] = {}
      /\ at' = [at EXCEPT ![w] = IF source[w] = "reclaim" THEN "read" ELSE "reclaim"]
      /\ UNCHANGED <<group, keys, dlq, failed, batch, cur, source, spent>>
  BY DEF BatchDone
<1>2. BaseInv /\ ClockTypes /\ WorkerOK(w) /\ pending \subseteq Ids /\ RoundsEnd /\ RoundsEnd'
  BY TimeParts DEF ClockInv
<1>3. \A v \in Workers : Own(v)' = Own(v)
  BY <1>1 DEF Own
<1>4. \A v \in Workers \ {w} :
        Own(v)' = Own(v) /\ Rem(v)' = Rem(v) /\ Round(v)' = Round(v)
  <2> SUFFICES ASSUME NEW v \in Workers, v # w
               PROVE  Own(v)' = Own(v) /\ Rem(v)' = Rem(v) /\ Round(v)' = Round(v)
    OBVIOUS
  <2>1. /\ at'[v] = at[v] /\ batch'[v] = batch[v] /\ cur'[v] = cur[v]
        /\ source'[v] = source[v] /\ spent'[v] = spent[v]
    BY <1>1, <1>2 DEF ClockTypes
  <2> QED BY <2>1, SameView
<1>5. Rem(w) \in Nat /\ spent[w] = 0 /\ Own(w) = {}
  BY <1>1, <1>2, Sizes DEF RoundsEnd, WorkerOK, Own
<1>6. Round(w)' <= Round(w)
  <2>1. CASE source[w] = "reclaim"
    <3>1. at'[w] = "read" /\ spent'[w] = 0
      BY <1>1, <1>2, <1>5, <2>1 DEF ClockTypes
    <3>2. Round(w)' = (PollTime - 0) + Proc
      BY <3>1 DEF Round
    <3>3. Round(w) = Rem(w) + PollTime + Proc
      BY <1>1, <2>1 DEF Round
    <3> QED BY <1>5, <3>2, <3>3, Sizes
  <2>2. CASE source[w] # "reclaim"
    <3>1. at'[w] = "reclaim"
      BY <1>1, <1>2, <2>2 DEF ClockTypes
    <3>2. Round(w)' = 0
      BY <3>1 DEF Round
    <3>3. Round(w) \in Nat
      BY <1>2, Sizes DEF RoundsEnd
    <3> QED BY <3>2, <3>3
  <2> QED BY <2>1, <2>2
<1> SUFFICES ASSUME NEW i \in pending, count[i] # 0
             PROVE  Timely(i)'
  BY <1>1 DEF InTime, group, keys
<1>7. Timely(i) /\ i \in Ids
  BY <1>2 DEF TimeInv, InTime
<1>8. /\ ttl'[i] = ttl[i] /\ delay'[i] = delay[i] /\ idleFor' = idleFor /\ pending' = pending
  BY <1>1 DEF group, keys
<1>9. ASSUME NEW d \in 0 .. Wait
      PROVE  Ahead(i, d)' \subseteq Ahead(i, d)
  BY <1>3, <1>8 DEF Ahead, Unhandled
<1>10. ASSUME NEW d \in 0 .. Wait, InTurn(i, d)
       PROVE  \E k \in Nat : /\ Cardinality(Ahead(i, d)') < BatchSize * (k + 1)
                             /\ Round(w)' + k * Lap <= d
  BY <1>2, <1>6, <1>7, <1>8, <1>9, <1>10, TurnKept
<1>11. i \notin Own(w) /\ i \notin Own(w)'
  BY <1>3, <1>5
<1> QED BY <1>2, <1>4, <1>7, <1>8, <1>9, <1>10, <1>11, Stays

\* A job has ended: what becomes of the other entries, and of its own if it is
\* to be retried.
LEMMA JobOverTime ==
  ASSUME LongLived, TimeInv, BaseInv', NEW w \in Workers, JobOver(w),
         NEW c, c = cur[w], pending' \subseteq pending, pending \ {c} \subseteq pending',
         \A x \in Ids \ {c} : idleFor'[x] = idleFor[x],
         idleFor'[c] = idleFor[c] \/ idleFor'[c] = 0,
         NEW i \in pending, count[i] # 0, i # c, ttl'[i] = ttl[i], delay'[i] = delay[i]
  PROVE  Timely(i)'
<1>1. /\ at[w] = "job" /\ at' = [at EXCEPT ![w] = "batch"]
      /\ cur' = [cur EXCEPT ![w] = 0] /\ spent' = [spent EXCEPT ![w] = 0]
      /\ UNCHANGED <<batch, source, published, lastId>>
  BY DEF JobOver
<1>2. BaseInv /\ ClockTypes /\ WorkerOK(w) /\ pending \subseteq Ids /\ RoundsEnd /\ RoundsEnd'
  BY TimeParts DEF ClockInv
<1>3. /\ c \in Own(w) /\ c \notin batch[w] /\ Own(w) = batch[w] \cup {c}
      /\ spent[w] \in Nat /\ spent[w] <= MaxJobTime
  BY <1>1, <1>2, OwnTypes DEF WorkerOK, Own
<1>4. at'[w] = "batch" /\ cur'[w] = 0 /\ Own(w)' = batch[w] /\ source'[w] = source[w]
  BY <1>1, <1>2 DEF ClockTypes, Own
<1>5. \A v \in Workers \ {w} :
        Own(v)' = Own(v) /\ Rem(v)' = Rem(v) /\ Round(v)' = Round(v)
  <2> SUFFICES ASSUME NEW v \in Workers, v # w
               PROVE  Own(v)' = Own(v) /\ Rem(v)' = Rem(v) /\ Round(v)' = Round(v)
    OBVIOUS
  <2>1. /\ at'[v] = at[v] /\ batch'[v] = batch[v] /\ cur'[v] = cur[v]
        /\ source'[v] = source[v] /\ spent'[v] = spent[v]
    BY <1>1, <1>2 DEF ClockTypes
  <2> QED BY <2>1, SameView
<1>6. Rem(w)' <= Rem(w)
  <2>1. PICK n \in Nat : n = Cardinality(batch[w])
    BY <1>2, IdsFinite DEF ClockTypes
  <2>2. PICK x \in Nat : x = n * MaxJobTime
    OBVIOUS
  <2>3. Rem(w) = x + (MaxJobTime - spent[w])
    BY <1>1, <2>1, <2>2 DEF Rem
  <2>4. Rem(w)' = x + 0
    BY <1>1, <1>4, <2>1, <2>2 DEF Rem
  <2> QED BY <1>3, <2>3, <2>4
<1>7. Round(w)' <= Round(w)
  <2>1. Rem(w) \in Nat /\ Rem(w)' \in Nat
    BY <1>2, Sizes DEF RoundsEnd
  <2> QED BY <1>1, <1>4, <1>6, <2>1, Sizes DEF Round
<1>8. Timely(i)
  BY DEF TimeInv, InTime
<1>9. Own(w)' \subseteq Own(w) /\ Own(w) \ {c} \subseteq Own(w)'
  BY <1>3, <1>4
<1> QED BY <1>3, <1>5, <1>6, <1>7, <1>8, <1>9, Released

TimeRest == InTime /\ CounterExact /\ FewFailures /\ Untouched

LEMMA CloseTime ==
  ASSUME LongLived, TimeInv, BaseInv', NEW w \in Workers, JobOver(w),
         NEW c, c = cur[w], c \in pending, CloseEntry(c),
         \A i \in Ids \ {c} : failed'[i] = failed[i], failed'[c] <= MaxRetries
  PROVE  TimeRest'
<1>1. BaseInv /\ ClockTypes /\ pending \subseteq Ids
  BY TimeParts
<1>2. /\ pending' = pending \ {c} /\ lastId' = lastId /\ c \in 1 .. lastId /\ c \in Ids
      /\ \A i \in Ids \ {c} : /\ count'[i] = count[i] /\ ttl'[i] = ttl[i]
                              /\ delay'[i] = delay[i] /\ idleFor'[i] = idleFor[i]
      /\ idleFor'[c] = 0
  BY <1>1 DEF CloseEntry, JobOver, ClockTypes, BaseInv, TypeInv, TypeOK
<1>3. InTime'
  <2> SUFFICES ASSUME NEW i \in pending, i # c, count'[i] # 0
               PROVE  Timely(i)'
    BY <1>2 DEF InTime
  <2>1. pending \ {c} \subseteq pending' /\ pending' \subseteq pending
    BY <1>2
  <2> QED BY <1>1, <1>2, <2>1, JobOverTime
<1>4. CounterExact'
  BY <1>1, <1>2 DEF TimeInv, CounterExact
<1>5. FewFailures'
  BY <1>2 DEF TimeInv, FewFailures
<1>6. Untouched'
  <2> SUFFICES ASSUME NEW i \in Ids, i > lastId
               PROVE  count'[i] = 0 /\ failed'[i] = 0
    BY <1>2 DEF Untouched
  <2>1. i # c
    BY <1>1, <1>2 DEF ClockTypes
  <2> QED BY <1>2, <2>1 DEF TimeInv, Untouched
<1> QED BY <1>3, <1>4, <1>5, <1>6 DEF TimeRest

LEMMA SettleTime ==
  ASSUME LongLived, TimeInv, BaseInv', NEW w \in Workers, Succeed(w) \/ Fail(w)
  PROVE  TimeRest'
<1>1. PICK c : c = cur[w]
  OBVIOUS
<1>2. JobOver(w) /\ at[w] = "job" /\ lastId' = lastId
  BY DEF Succeed, Fail, JobOver
<1>3. BaseInv /\ ClockTypes /\ WorkerOK(w) /\ pending \subseteq Ids
  BY TimeParts DEF ClockInv
<1>4. c \in pending /\ c \in Ids /\ c \in 1 .. lastId
  BY <1>1, <1>2, <1>3 DEF WorkerOK, Own, ClockTypes
<1>5. CASE Succeed(w)
  <2>1. CloseEntry(c) /\ failed' = failed
    BY <1>1, <1>5 DEF Succeed
  <2>2. failed[c] <= MaxRetries
    BY <1>4 DEF TimeInv, FewFailures
  <2> QED BY <1>1, <1>2, <1>4, <2>1, <2>2, CloseTime
<1>6. CASE Fail(w)
  <2>1. PICK n \in 0 .. MaxRetries - 1 : n = count[c] /\ n = failed[c]
    BY <1>3, <1>4, TypesOf DEF TimeInv, CounterExact
  <2>2. failed' = [failed EXCEPT ![c] = n + 1]
    <3>1. ~ (n > MaxRetries)
      BY <2>1
    <3>2. failed' = [failed EXCEPT ![c] = IF failed[c] > MaxRetries THEN failed[c] ELSE failed[c] + 1]
      BY <1>1, <1>6 DEF Fail
    <3> QED BY <2>1, <3>1, <3>2
  <2>3. /\ failed'[c] = n + 1 /\ n + 1 <= MaxRetries
        /\ \A i \in Ids \ {c} : failed'[i] = failed[i]
    BY <1>3, <1>4, <2>1, <2>2 DEF BaseInv, TypeInv, TypeOK
  <2>4. PICK a \in Nat \ {0} : a = n + 1
    OBVIOUS
  <2>5. RetryLater(c, a) \/ GiveUp(c, a)
    BY <1>1, <1>6, <2>1, <2>4 DEF Fail
  <2>6. CASE GiveUp(c, a)
    BY <1>1, <1>2, <1>4, <2>3, <2>6, CloseTime DEF GiveUp
  <2>7. CASE RetryLater(c, a)
    <3>1. PICK b \in Backoffs(a) : delay' = [delay EXCEPT ![c] = b]
      BY <2>7 DEF RetryLater
    <3>2. /\ a \in 1 .. MaxRetries - 1 /\ UNCHANGED <<dlq, pending, idleFor>>
          /\ count' = [count EXCEPT ![c] = a] /\ ttl' = [ttl EXCEPT ![c] = CountTtl]
      BY <2>4, <2>7 DEF RetryLater
    <3>3. /\ count'[c] = a /\ ttl'[c] = CountTtl /\ delay'[c] = b
          /\ \A i \in Ids \ {c} : /\ count'[i] = count[i] /\ ttl'[i] = ttl[i]
                                  /\ delay'[i] = delay[i]
      BY <1>3, <1>4, <3>1, <3>2 DEF BaseInv, TypeInv, TypeOK
    <3>4. Timely(c)'
      <4>1. b + Threshold + Wait + Proc < CountTtl
        BY <3>1, <3>2 DEF LongLived
      <4>2. delay'[c] # 0
        BY <3>1, <3>3, BackoffPositive
      <4> QED BY <3>3, <4>1, <4>2 DEF Timely, Delayed, Resting, Waiting, InBatch
    <3>5. ASSUME NEW i \in pending, i # c, count[i] # 0
          PROVE  Timely(i)'
      BY <1>1, <1>2, <1>3, <3>2, <3>3, <3>5, JobOverTime
    <3>6. InTime'
      BY <1>3, <3>2, <3>3, <3>4, <3>5 DEF InTime
    <3>7. CounterExact'
      BY <1>3, <2>3, <2>4, <3>2, <3>3 DEF TimeInv, CounterExact
    <3>8. FewFailures'
      BY <2>3 DEF TimeInv, FewFailures
    <3>9. Untouched'
      <4> SUFFICES ASSUME NEW i \in Ids, i > lastId
                   PROVE  count'[i] = 0 /\ failed'[i] = 0
        BY <1>2 DEF Untouched
      <4>1. i # c
        BY <1>3, <1>4 DEF ClockTypes
      <4> QED BY <2>3, <3>3, <4>1 DEF TimeInv, Untouched
    <3> QED BY <3>6, <3>7, <3>8, <3>9 DEF TimeRest
  <2> QED BY <2>5, <2>6, <2>7
<1> QED BY <1>5, <1>6

-----------------------------------------------------------------------------
(* Time passes: every wait gets shorter with the counter's life.           *)

LEMMA TickTime ==
  ASSUME LongLived, TimeInv, BaseInv', Tick
  PROVE  TimeRest'
<1>1. /\ \A w \in Workers : MayWait(w)
      /\ spent' = [w \in Workers |-> spent[w] + 1]
      /\ idleFor' = [i \in Ids |->
           IF i \in pending /\ idleFor[i] < Threshold THEN idleFor[i] + 1 ELSE idleFor[i]]
      /\ ttl' = [i \in Ids |-> Less(ttl[i])]
      /\ count' = [i \in Ids |-> IF ttl[i] <= 1 THEN 0 ELSE count[i]]
      /\ delay' = [i \in Ids |-> Less(delay[i])]
      /\ UNCHANGED <<published, lastId, pending, dlq, failed, at, batch, cur, source>>
  BY DEF Tick
<1>2. BaseInv /\ ClockTypes /\ pending \subseteq Ids /\ RoundsEnd /\ RoundsEnd'
  BY TimeParts
<1>3. TurnsCome'
  BY Turns, PTL
<1>4. ASSUME NEW w \in Workers
      PROVE  /\ Own(w)' = Own(w)
             /\ Own(w) # {} => Rem(w)' = Rem(w) - 1
             /\ Round(w)' = Round(w) - 1
  <2>1. WorkerOK(w) /\ MayWait(w) /\ spent[w] \in Nat /\ spent'[w] = spent[w] + 1
    BY <1>1, <1>2, OwnTypes DEF BaseInv, ClockInv
  <2>2. Own(w)' = Own(w) /\ at'[w] = at[w] /\ source'[w] = source[w] /\ batch'[w] = batch[w]
    BY <1>1 DEF Own
  <2>3. CASE at[w] = "job"
    <3>1. PICK n \in Nat : n = Cardinality(batch[w])
      BY <1>2, IdsFinite DEF ClockTypes
    <3>2. PICK x \in Nat : x = n * MaxJobTime
      OBVIOUS
    <3>3. Rem(w) = x + (MaxJobTime - spent[w])
      BY <2>3, <3>1, <3>2 DEF Rem
    <3>4. Rem(w)' = x + (MaxJobTime - (spent[w] + 1))
      BY <2>1, <2>2, <2>3, <3>1, <3>2 DEF Rem
    <3>5. Rem(w)' = Rem(w) - 1
      BY <2>1, <3>3, <3>4
    <3>6. Rem(w) \in Nat /\ Rem(w)' \in Nat
      BY <1>2, Sizes DEF RoundsEnd
    <3> QED BY <2>2, <2>3, <3>5, <3>6, Sizes DEF Round
  <2>4. CASE at[w] = "read"
    <3>1. Own(w) = {}
      BY <2>1, <2>4 DEF WorkerOK, Own
    <3> QED BY <2>1, <2>2, <2>4, <3>1, Sizes DEF Round
  <2> QED BY <2>1, <2>3, <2>4 DEF MayWait
<1>5. \A j : Unhandled(j)' <=> Unhandled(j)
  BY <1>4 DEF Unhandled
<1>6. ASSUME NEW i \in pending, count[i] # 0
      PROVE  Timely(i)' /\ ttl[i] > 1
  <2>1. Timely(i) /\ i \in Ids
    BY <1>2, <1>6 DEF TimeInv, InTime
  <2>2. PICK t \in Nat, g \in Nat, e \in 0 .. Threshold :
          t = ttl[i] /\ g = delay[i] /\ e = idleFor[i]
    BY <1>2, <2>1, TypesOf
  <2>3. /\ ttl'[i] = Less(t) /\ delay'[i] = Less(g)
        /\ idleFor'[i] = IF e < Threshold THEN e + 1 ELSE e
    BY <1>1, <2>1, <2>2
  <2>4. PICK wt \in Nat, p \in Nat : wt = Wait /\ p = Proc
    BY Sizes
  <2>5. \A w \in Workers : Rem(w)' \in 0 .. p
    BY <1>2, <2>4 DEF RoundsEnd
  <2>6. InTurn(i, Wait)'
    BY <1>1, <1>3 DEF TurnsCome
  <2>7. CASE g # 0
    <3>1. g + Threshold + wt + p < t
      BY <2>1, <2>2, <2>4, <2>7 DEF Timely, Delayed
    <3>2. t > 1 /\ Less(t) = t - 1 /\ Less(g) = g - 1
      BY <2>7, <3>1 DEF Less
    <3>3. Delayed(i)'
      <4>1. (g - 1) + Threshold + wt + p < t - 1
        BY <3>1
      <4> QED BY <2>3, <2>4, <3>2, <4>1 DEF Delayed
    <3>4. wt + p < t - 1 /\ Threshold + wt + p < t - 1
      BY <2>7, <3>1
    <3>5. Resting(i)'
      <4> SUFFICES ASSUME idleFor'[i] < Threshold
                   PROVE  (Threshold - idleFor'[i]) + wt + p < t - 1
        BY <2>3, <2>4, <3>2 DEF Resting
      <4>1. idleFor'[i] \in Nat
        BY <2>3
      <4> QED BY <3>4, <4>1
    <3>6. Waiting(i)'
      <4>1. Wait \in 0 .. Wait
        BY Sizes
      <4>2. Wait + Proc < ttl'[i]
        BY <2>3, <2>4, <3>2, <3>4
      <4> QED BY <2>6, <4>1, <4>2 DEF Waiting
    <3>7. InBatch(i)'
      <4> SUFFICES ASSUME NEW w \in Workers
                   PROVE  Rem(w)' < t - 1
        BY <2>3, <3>2 DEF InBatch
      <4>1. Rem(w)' \in 0 .. p
        BY <2>5
      <4> QED BY <3>4, <4>1
    <3> QED BY <2>2, <3>2, <3>3, <3>5, <3>6, <3>7 DEF Timely
  <2>8. CASE g = 0 /\ \E w \in Workers : i \in Own(w)
    <3>1. PICK w \in Workers : i \in Own(w)
      BY <2>8
    <3>2. ASSUME NEW v \in Workers, i \in Own(v)
          PROVE  Rem(v)' < t - 1 /\ t > 1
      <4>1. Rem(v) < t
        BY <2>1, <2>2, <2>8, <3>2 DEF Timely, InBatch
      <4>2. Rem(v)' = Rem(v) - 1
        BY <1>4, <3>2
      <4>3. Rem(v) \in Nat /\ Rem(v)' \in Nat
        BY <1>2, Sizes DEF RoundsEnd
      <4> QED BY <4>1, <4>2, <4>3
    <3>3. t > 1 /\ ttl'[i] = t - 1 /\ delay'[i] = 0
      BY <2>3, <2>8, <3>1, <3>2 DEF Less
    <3>4. InBatch(i)'
      BY <1>4, <3>2, <3>3 DEF InBatch
    <3>5. ~ Unhandled(i)'
      BY <1>5, <3>1 DEF Unhandled
    <3> QED BY <2>2, <3>3, <3>4, <3>5 DEF Timely, Delayed, Resting, Waiting
  <2>9. CASE g = 0 /\ Unhandled(i) /\ e < Threshold
    <3>1. (Threshold - e) + wt + p < t
      BY <2>1, <2>2, <2>4, <2>9 DEF Timely, Resting
    <3>2. t > 1 /\ ttl'[i] = t - 1 /\ delay'[i] = 0 /\ idleFor'[i] = e + 1
      BY <2>3, <2>9, <3>1 DEF Less
    <3>3. Resting(i)'
      <4>1. (Threshold - (e + 1)) + wt + p < t - 1
        BY <3>1
      <4> QED BY <2>4, <3>2, <4>1 DEF Resting
    <3>4. Waiting(i)'
      <4> SUFFICES ASSUME e + 1 = Threshold
                   PROVE  \E d \in 0 .. Wait : d + Proc < ttl'[i] /\ InTurn(i, d)'
        BY <3>2 DEF Waiting
      <4>1. Wait \in 0 .. Wait
        BY Sizes
      <4>2. Wait + Proc < ttl'[i]
        BY <2>4, <3>1, <3>2
      <4> QED BY <2>6, <4>1, <4>2
    <3>5. InBatch(i)' /\ Delayed(i)'
      BY <1>4, <2>9, <3>2 DEF InBatch, Unhandled, Delayed
    <3> QED BY <2>2, <3>2, <3>3, <3>4, <3>5 DEF Timely
  <2>10. CASE g = 0 /\ Unhandled(i) /\ e = Threshold
    <3>1. PICK d \in 0 .. Wait : d + Proc < ttl[i] /\ InTurn(i, d)
      BY <2>1, <2>2, <2>10 DEF Timely, Waiting
    <3>2. d # 0
      <4>1. PICK v \in Workers : TRUE
        <5>1. lastId > 0
          BY <1>2 DEF ClockTypes
        <5> QED BY <5>1 DEF TimeInv, Somebody
      <4>2. PICK k \in Nat : Round(v) + k * Lap <= d
        BY <3>1 DEF InTurn
      <4>3. PICK x \in Nat : x = k * Lap
        BY Sizes
      <4>4. Round(v) \in Nat /\ Round(v)' \in Nat /\ Round(v)' = Round(v) - 1
        BY <1>2, <1>4, Sizes DEF RoundsEnd
      <4> QED BY <4>2, <4>3, <4>4
    <3>3. PICK h \in Nat : d = h + 1 /\ h \in 0 .. Wait
      <4>1. d - 1 \in Nat /\ d - 1 \in 0 .. Wait
        BY <3>2, Sizes
      <4> QED BY <4>1, Sizes
    <3>4. t > 1 /\ ttl'[i] = t - 1 /\ delay'[i] = 0 /\ idleFor'[i] = e
      BY <2>2, <2>3, <2>4, <2>10, <3>1, <3>3 DEF Less
    <3>5. Ahead(i, h)' \subseteq Ahead(i, d)
      <4> SUFFICES ASSUME NEW x \in pending, x < i, Unhandled(x), Threshold - idleFor'[x] <= h
                   PROVE  Threshold - idleFor[x] <= d
        BY <1>1, <1>5 DEF Ahead
      <4>1. x \in Ids /\ idleFor[x] \in 0 .. Threshold
        BY <1>2 DEF ClockTypes
      <4>2. idleFor'[x] = IF idleFor[x] < Threshold THEN idleFor[x] + 1 ELSE idleFor[x]
        BY <1>1, <4>1
      <4> QED BY <3>3, <4>1, <4>2
    <3>6. InTurn(i, h)'
      <4> SUFFICES ASSUME NEW v \in Workers
                   PROVE  \E k \in Nat : /\ Cardinality(Ahead(i, h)') < BatchSize * (k + 1)
                                         /\ Round(v)' + k * Lap <= h
        BY DEF InTurn
      <4>1. PICK k \in Nat : /\ Cardinality(Ahead(i, d)) < BatchSize * (k + 1)
                             /\ Round(v) + k * Lap <= d
        BY <3>1 DEF InTurn
      <4>2. PICK x \in Nat : x = k * Lap
        BY Sizes
      <4>3. Round(v)' + x <= h
        <5>1. Round(v) \in Nat /\ Round(v)' = Round(v) - 1
          BY <1>2, <1>4, Sizes DEF RoundsEnd
        <5> QED BY <3>3, <4>1, <4>2, <5>1
      <4>4. IsFiniteSet(Ahead(i, d)) /\ Cardinality(Ahead(i, d)) \in Nat
        <5>1. d \in Nat
          BY Sizes
        <5> QED BY <1>2, <2>1, <5>1, Aheads DEF AheadBounded
      <4>5. /\ Cardinality(Ahead(i, h)') \in Nat
            /\ Cardinality(Ahead(i, h)') <= Cardinality(Ahead(i, d))
        BY <3>5, <4>4, FS_Subset, FS_CardinalityType
      <4>6. PICK m \in Nat : m = BatchSize * (k + 1)
        OBVIOUS
      <4> QED BY <4>1, <4>2, <4>3, <4>4, <4>5, <4>6
    <3>7. Waiting(i)'
      <4>1. h + Proc < ttl'[i]
        BY <2>2, <2>4, <3>1, <3>3, <3>4
      <4> QED BY <3>3, <3>6, <4>1 DEF Waiting
    <3>8. InBatch(i)' /\ Delayed(i)' /\ Resting(i)'
      BY <1>4, <2>10, <3>4 DEF InBatch, Unhandled, Delayed, Resting
    <3> QED BY <2>2, <3>4, <3>7, <3>8 DEF Timely
  <2> QED BY <2>7, <2>8, <2>9, <2>10 DEF Unhandled
<1>7. \A i \in Ids : count'[i] = 0 \/ count'[i] = count[i]
  BY <1>1
<1>8. InTime'
  BY <1>1, <1>2, <1>6, <1>7 DEF InTime
<1>9. CounterExact'
  <2> SUFFICES ASSUME NEW i \in pending
               PROVE  count'[i] = failed[i]
    BY <1>1 DEF CounterExact
  <2>1. count[i] = failed[i] /\ i \in Ids
    BY <1>2 DEF TimeInv, CounterExact
  <2>2. CASE count[i] = 0
    BY <1>7, <2>1, <2>2
  <2>3. CASE count[i] # 0
    <3>1. ~ (ttl[i] <= 1)
      <4>1. ttl[i] \in Nat /\ ttl[i] > 1
        BY <1>2, <1>6, <2>1, <2>3, TypesOf
      <4> QED BY <4>1
    <3> QED BY <1>1, <2>1, <3>1
  <2> QED BY <2>2, <2>3
<1>10. FewFailures' /\ Untouched'
  BY <1>1, <1>7 DEF TimeInv, FewFailures, Untouched
<1> QED BY <1>8, <1>9, <1>10 DEF TimeRest

-----------------------------------------------------------------------------
LEMMA InitTime == ASSUME Init PROVE TimeInv
<1>1. BaseInv
  <2>1. AllScanned
    BY FS_EmptySet DEF Init, AllScanned
  <2> QED BY <2>1, InitTypes, ClockInitial DEF BaseInv, Init, ReadsEnd
<1>2. Untouched /\ Somebody /\ CounterExact /\ FewFailures /\ InTime
  BY DEF Init, Untouched, Somebody, CounterExact, FewFailures, InTime
<1> QED BY <1>1, <1>2 DEF TimeInv

\* The steps that leave the attempts alone and hand out no new entry.
LEMMA RestKeeps ==
  ASSUME TimeInv, InTime', UNCHANGED <<failed, count>>, lastId' \in Nat, lastId' >= lastId,
         pending' \subseteq pending \cup {i \in Ids : i > lastId}
  PROVE  TimeRest'
<1>1. pending \subseteq Ids /\ lastId \in Nat
  BY DEF TimeInv, BaseInv, ClockInv, ClockTypes, Ids
<1>2. CounterExact'
  BY <1>1 DEF TimeInv, CounterExact, Untouched
<1>3. Untouched'
  <2> SUFFICES ASSUME NEW i \in Ids, i > lastId'
               PROVE  i > lastId
    BY DEF TimeInv, Untouched
  <2> QED BY <1>1 DEF Ids
<1> QED BY <1>2, <1>3 DEF TimeInv, TimeRest, FewFailures

LEMMA NextTime ==
  ASSUME Patient, LongLived, TimeInv, [Next]_vars, AllScanned'
  PROVE  TimeInv'
<1>1. BaseInv /\ BaseInv' /\ ClockTypes /\ lastId' \in Nat
  <2>1. BaseInv /\ BaseInv'
    BY BaseKeeps DEF TimeInv
  <2> QED BY <2>1 DEF BaseInv, ClockInv, ClockTypes
<1>2. CASE Publish \/ UNCHANGED vars
  <2>1. UNCHANGED <<lastId, pending, idleFor, count, ttl, delay, failed, at, batch, cur, source, spent>>
    BY <1>2 DEF Publish, vars, group, keys, locals
  <2>2. InTime'
    BY <2>1, Unseen DEF TimeInv, InTime
  <2>3. TimeRest'
    BY <2>1, <2>2 DEF TimeRest, TimeInv, CounterExact, FewFailures, Untouched
  <2> QED BY <1>1, <2>1, <2>3 DEF TimeRest, TimeInv, Somebody
<1>3. CASE Tick
  <2>1. UNCHANGED lastId
    BY <1>3 DEF Tick
  <2> QED BY <1>1, <1>3, <2>1, TickTime DEF TimeRest, TimeInv, Somebody
<1>4. ASSUME NEW w \in Workers, WorkerStep(w)
      PROVE  TimeInv'
  <2>1. Somebody'
    BY DEF Somebody
  <2>2. CASE Succeed(w) \/ Fail(w)
    BY <1>1, <2>1, <2>2, SettleTime DEF TimeRest, TimeInv
  <2>3. CASE Reclaim(w) \/ Take(w) \/ BatchDone(w)
    <3>1. UNCHANGED <<failed, count, lastId, pending>>
      BY <2>3 DEF Reclaim, Take, BatchDone, group, keys
    <3>2. InTime'
      BY <1>1, <2>3, ReclaimTime, TakeTime, BatchDoneTime
    <3>3. lastId' >= lastId
      BY <1>1, <3>1 DEF ClockTypes
    <3>4. TimeRest'
      BY <1>1, <3>1, <3>2, <3>3, RestKeeps
    <3> QED BY <1>1, <2>1, <3>4 DEF TimeRest, TimeInv
  <2>4. CASE Read(w)
    <3>1. UNCHANGED <<failed, count>> /\ pending' = pending \cup Oldest(New, BatchSize)
      BY <2>4 DEF Read, keys
    <3>2. lastId' >= lastId
      <4>1. New \subseteq Ids
        BY <1>1 DEF New, ClockTypes, Ids
      <4>2. Cardinality(Oldest(New, BatchSize)) \in Nat
        BY <4>1, IdsFinite DEF Oldest
      <4> QED BY <1>1, <2>4, <4>2 DEF Read, ClockTypes
    <3>3. pending' \subseteq pending \cup {i \in Ids : i > lastId}
      BY <1>1, <3>1 DEF Oldest, New, ClockTypes, Ids
    <3>4. TimeRest'
      BY <1>1, <2>4, <3>1, <3>2, <3>3, ReadTime, RestKeeps
    <3> QED BY <1>1, <2>1, <3>4 DEF TimeRest, TimeInv
  <2> QED BY <1>4, <2>2, <2>3, <2>4 DEF WorkerStep
<1> QED BY <1>2, <1>3, <1>4 DEF Next

\* The counter never expires under a retried entry: as long as an entry is
\* pending it counts every failed attempt, if the counter lives longer than a
\* delay, the threshold, the turns before it and a batch together, and no more
\* entries are ever pending than XAUTOCLAIM examines (worker/main.rs:256-258).
THEOREM CounterIsExact ==
  ASSUME Patient, LongLived
  PROVE  Spec /\ []AllScanned => []CounterExact
<1>1. Init => TimeInv
  BY InitTime
<1>2. TimeInv /\ AllScanned' /\ [Next]_vars => TimeInv'
  BY NextTime
<1>3. TimeInv => CounterExact
  BY DEF TimeInv
<1> QED BY <1>1, <1>2, <1>3, PTL DEF Spec

\* A given-up entry is closed, and keeps the failures it had.
DeadInv == TimeInv /\ \A i \in dlq : i \notin pending /\ failed[i] = MaxRetries

LEMMA SettleDead ==
  ASSUME DeadInv, NEW w \in Workers, Succeed(w) \/ Fail(w)
  PROVE  \A i \in dlq' : i \notin pending' /\ failed'[i] = MaxRetries
<1>1. PICK c : c = cur[w]
  OBVIOUS
<1>2. at[w] = "job"
  BY DEF Succeed, Fail, JobOver
<1>3. BaseInv /\ ClockTypes /\ WorkerOK(w) /\ pending \subseteq Ids
  <2>1. BaseInv /\ ClockTypes /\ WorkerOK(w)
    BY DEF DeadInv, TimeInv, BaseInv, ClockInv
  <2> QED BY <2>1 DEF ClockTypes, Ids
<1>4. c \in pending /\ c \in Ids /\ c \notin dlq
  BY <1>1, <1>2, <1>3 DEF WorkerOK, Own, DeadInv
<1>5. dlq \subseteq Ids /\ failed \in [Ids -> 0 .. MaxRetries + 1]
  <2>1. /\ dlq \subseteq 1 .. lastId /\ lastId \in 0 .. published
        /\ published \in 0 .. MaxEntries /\ failed \in [Ids -> 0 .. MaxRetries + 1]
    BY <1>3 DEF BaseInv, TypeInv, TypeOK
  <2> QED BY <2>1 DEF Ids
<1>6. CASE Succeed(w)
  <2>1. UNCHANGED <<dlq, failed>> /\ pending' = pending \ {c}
    BY <1>1, <1>6 DEF Succeed, CloseEntry
  <2> QED BY <2>1 DEF DeadInv
<1>7. CASE Fail(w)
  <2>1. PICK n \in 0 .. MaxRetries - 1 : n = count[c] /\ n = failed[c]
    BY <1>3, <1>4, TypesOf DEF TimeInv, CounterExact, DeadInv
  <2>2. failed' = [failed EXCEPT ![c] = IF failed[c] > MaxRetries THEN failed[c] ELSE failed[c] + 1]
    BY <1>1, <1>7 DEF Fail
  <2>3. failed'[c] = n + 1 /\ \A i \in Ids \ {c} : failed'[i] = failed[i]
    BY <1>4, <1>5, <2>1, <2>2
  <2>4. RetryLater(c, n + 1) \/ GiveUp(c, n + 1)
    BY <1>1, <1>7, <2>1 DEF Fail
  <2>5. CASE RetryLater(c, n + 1)
    <3>1. UNCHANGED <<dlq, pending>>
      BY <2>5 DEF RetryLater
    <3> QED BY <1>4, <1>5, <2>3, <3>1 DEF DeadInv
  <2>6. CASE GiveUp(c, n + 1)
    <3>1. n + 1 = MaxRetries /\ dlq' = dlq \cup {c} /\ pending' = pending \ {c}
      BY <2>1, <2>6 DEF GiveUp, CloseEntry
    <3> QED BY <1>4, <1>5, <2>3, <3>1 DEF DeadInv
  <2> QED BY <2>4, <2>5, <2>6
<1> QED BY <1>6, <1>7

LEMMA DeadSound ==
  ASSUME Patient, LongLived, DeadInv, [Next]_vars, AllScanned'
  PROVE  DeadInv'
<1>1. TimeInv'
  BY NextTime DEF DeadInv
<1>2. ASSUME NEW w \in Workers, Succeed(w) \/ Fail(w)
      PROVE  DeadInv'
  BY <1>1, <1>2, SettleDead DEF DeadInv
<1>3. ASSUME NEW w \in Workers, Read(w)
      PROVE  DeadInv'
  <2>1. UNCHANGED <<dlq, failed>> /\ pending' = pending \cup Oldest(New, BatchSize)
    BY <1>3 DEF Read
  <2>2. lastId \in Nat /\ dlq \subseteq 1 .. lastId
    BY DEF DeadInv, TimeInv, BaseInv, TypeInv, TypeOK
  <2>3. \A i \in Oldest(New, BatchSize) : i > lastId
    BY DEF Oldest, New
  <2>4. \A i \in dlq : i \notin Oldest(New, BatchSize)
    BY <2>2, <2>3
  <2> QED BY <1>1, <2>1, <2>4 DEF DeadInv
<1>4. CASE UNCHANGED <<dlq, failed, pending>>
  BY <1>1, <1>4 DEF DeadInv
<1>5. ASSUME NEW w \in Workers, Reclaim(w) \/ Take(w) \/ BatchDone(w)
      PROVE  UNCHANGED <<dlq, failed, pending>>
  BY <1>5 DEF Reclaim, Take, BatchDone, group
<1>6. Publish \/ Tick \/ UNCHANGED vars => UNCHANGED <<dlq, failed, pending>>
  BY DEF Publish, Tick, vars, group
<1> QED BY <1>2, <1>3, <1>4, <1>5, <1>6 DEF Next, WorkerStep

\* Under the same conditions a job is given up at its MaxRetries-th failure
\* exactly (worker/main.rs:262).
THEOREM AttemptsAreBounded ==
  ASSUME Patient, LongLived
  PROVE  Spec /\ []AllScanned => []AttemptsBounded
<1>1. Init => DeadInv
  BY InitTime DEF DeadInv, Init
<1>2. DeadInv /\ AllScanned' /\ [Next]_vars => DeadInv'
  BY DeadSound
<1>3. DeadInv => AttemptsBounded
  BY DEF DeadInv, TimeInv, FewFailures, AttemptsBounded
<1> QED BY <1>1, <1>2, <1>3, PTL DEF Spec
=============================================================================
