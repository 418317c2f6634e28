------------------------ MODULE KnowledgeBaseProofs ------------------------
(***************************************************************************)
(* Proofs about KnowledgeBase for every value of its constants: the types, *)
(* and that the chunks of a law are those of its text.  The invariant is   *)
(* inductive together with the types.  It speaks of the tables only, so    *)
(* AuditTrailProofs uses the step lemma again for its own actions.         *)
(***************************************************************************)
EXTENDS KnowledgeBase, FiniteSetTheorems, TLAPS

KBInv == KBTypeOK /\ ChunksMatchText

LEMMA MissingFinite ==
  ASSUME NEW d, NEW t \in Texts, NEW i \in Nat
  PROVE  /\ Cardinality(Missing(d, t)) \in Nat
         /\ Cardinality({m \in Missing(d, t) : m <= i}) \in Nat
<1>1. t.chunks \in Int
  BY KnowledgeAssumption DEF Texts
<1>2. IsFiniteSet(0 .. t.chunks - 1)
  BY <1>1, FS_Interval
<1>3. /\ Missing(d, t) \subseteq 0 .. t.chunks - 1
      /\ {m \in Missing(d, t) : m <= i} \subseteq 0 .. t.chunks - 1
  BY DEF Missing
<1>4. /\ IsFiniteSet(Missing(d, t))
      /\ IsFiniteSet({m \in Missing(d, t) : m <= i})
  BY <1>2, <1>3, FS_Subset
<1> QED
  BY <1>4, FS_CardinalityType

\* The rows that Store leaves for the document it stores.
LEMMA UpsertedRows ==
  ASSUME KBTypeOK, NEW d \in Docs, NEW t \in Texts,
         \A c, e \in Rows(d) : c.index = e.index => c = e
  PROVE  /\ Upserted(d, t) \subseteq ChunkRow
         /\ \A c \in Upserted(d, t) : c.doc = d /\ c.text = t
         /\ {c.index : c \in Upserted(d, t)} = 0 .. t.chunks - 1
         /\ \A c, e \in Upserted(d, t) : c.index = e.index => c = e
<1> DEFINE Kept == Rows(d) \ StaleRows(d, t)
           Up(c) == [c EXCEPT !.text = t]
<1>1. t.chunks \in Nat
  BY KnowledgeAssumption DEF Texts
<1>2. \A c \in Rows(d) : c \in ChunkRow /\ c.doc = d
  BY DEF Rows, KBTypeOK
<1>3. \A c \in Rows(d) :
        /\ Up(c) \in ChunkRow /\ Up(c).doc = d /\ Up(c).text = t
        /\ Up(c).index = c.index
  BY <1>2 DEF ChunkRow
<1>4. \A c \in Kept : c \in Rows(d) /\ c.index \in 0 .. t.chunks - 1
  BY <1>1, <1>2 DEF StaleRows, ChunkRow
<1>5. \A i \in Missing(d, t) :
        /\ i \in 0 .. t.chunks - 1
        /\ NewRow(d, t, i) \in ChunkRow
        /\ NewRow(d, t, i).doc = d /\ NewRow(d, t, i).text = t
        /\ NewRow(d, t, i).index = i
  <2> SUFFICES ASSUME NEW i \in Missing(d, t)
               PROVE  /\ i \in 0 .. t.chunks - 1
                      /\ NewRow(d, t, i) \in ChunkRow
                      /\ NewRow(d, t, i).doc = d /\ NewRow(d, t, i).text = t
                      /\ NewRow(d, t, i).index = i
    OBVIOUS
  <2>1. i \in 0 .. t.chunks - 1 /\ i \in Nat
    BY <1>1 DEF Missing
  <2>2. Cardinality({m \in Missing(d, t) : m <= i}) \in Nat
    BY <2>1, MissingFinite
  <2> DEFINE n == lastChunk + Cardinality({m \in Missing(d, t) : m <= i})
  <2>3. n \in Nat
    BY <2>2 DEF KBTypeOK
  <2>4. NewRow(d, t, i) = [id |-> n, doc |-> d, index |-> i, text |-> t]
    BY DEF NewRow
  <2> HIDE DEF n
  <2> QED
    BY <2>1, <2>3, <2>4 DEF ChunkRow
<1>6. Upserted(d, t) = {Up(c) : c \in Kept} \cup {NewRow(d, t, i) : i \in Missing(d, t)}
  BY DEF Upserted
<1>7. \A i \in 0 .. t.chunks - 1 :
        i \in Missing(d, t) \/ \E c \in Kept : c.index = i
  <2> SUFFICES ASSUME NEW i \in 0 .. t.chunks - 1, i \notin Missing(d, t)
               PROVE  \E c \in Kept : c.index = i
    OBVIOUS
  <2>1. PICK c \in Rows(d) : c.index = i
    BY DEF Missing
  <2>2. c \notin StaleRows(d, t)
    BY <1>1, <2>1 DEF StaleRows
  <2> QED
    BY <2>1, <2>2
<1>8. \A i \in Missing(d, t) : \A c \in Kept : c.index # i
  BY DEF Missing
<1> HIDE DEF Up, Kept
<1>9. Upserted(d, t) \subseteq ChunkRow
  BY <1>3, <1>4, <1>5, <1>6
<1>10. \A c \in Upserted(d, t) : c.doc = d /\ c.text = t
  BY <1>3, <1>4, <1>5, <1>6
<1>11. {c.index : c \in Upserted(d, t)} = 0 .. t.chunks - 1
  <2>1. \A c \in Upserted(d, t) : c.index \in 0 .. t.chunks - 1
    BY <1>3, <1>4, <1>5, <1>6
  <2>2. \A i \in 0 .. t.chunks - 1 : \E c \in Upserted(d, t) : c.index = i
    BY <1>3, <1>4, <1>5, <1>6, <1>7
  <2> QED
    BY <2>1, <2>2
<1>12. \A c, e \in Upserted(d, t) : c.index = e.index => c = e
  <2> SUFFICES ASSUME NEW c \in Upserted(d, t), NEW e \in Upserted(d, t),
                      c.index = e.index
               PROVE  c = e
    OBVIOUS
  <2>1. CASE \E k \in Kept : c = Up(k)
    <3>1. PICK k \in Kept : c = Up(k)
      BY <2>1
    <3>2. k \in Rows(d) /\ c.index = k.index
      BY <1>3, <1>4, <3>1
    <3>3. \A i \in Missing(d, t) : e # NewRow(d, t, i)
      <4> SUFFICES ASSUME NEW i \in Missing(d, t), e = NewRow(d, t, i)
                   PROVE  FALSE
        OBVIOUS
      <4>1. e.index = i
        BY <1>5
      <4> QED
        BY <1>8, <3>2, <4>1
    <3>4. PICK l \in Kept : e = Up(l)
      BY <1>6, <3>3
    <3>5. l \in Rows(d) /\ e.index = l.index
      BY <1>3, <1>4, <3>4
    <3>6. k = l
      BY <3>2, <3>5
    <3> QED
      BY <3>1, <3>4, <3>6
  <2>2. CASE \E i \in Missing(d, t) : c = NewRow(d, t, i)
    <3>1. PICK i \in Missing(d, t) : c = NewRow(d, t, i)
      BY <2>2
    <3>2. c.index = i
      BY <1>5, <3>1
    <3>3. \A k \in Kept : e # Up(k)
      BY <1>3, <1>4, <1>8, <3>2
    <3>4. PICK j \in Missing(d, t) : e = NewRow(d, t, j)
      BY <1>6, <3>3
    <3>5. i = j
      BY <1>5, <3>2, <3>4
    <3> QED
      BY <3>1, <3>4, <3>5
  <2> QED
    BY <1>6, <2>1, <2>2
<1> QED
  BY <1>9, <1>10, <1>11, <1>12
-----------------------------------------------------------------------------
LEMMA InitInv == KBInit => KBInv
  BY KnowledgeAssumption DEF KBInit, KBInv, KBTypeOK, ChunksMatchText, Rows, NoLaw

\* A step that does not touch the tables keeps what the invariant says of them.
LEMMA TablesKept ==
  ASSUME ChunksMatchText, UNCHANGED <<kb, chunk>>
  PROVE  ChunksMatchText'
  BY DEF ChunksMatchText, Rows

LEMMA SubmitInv ==
  ASSUME KBInv, NEW d \in Docs, NEW t \in Texts, Submit(d, t)
  PROVE  KBInv'
<1> DEFINE n == Len(jobs) + 1
<1>1. /\ jobs \in Seq([doc : Docs, text : Texts])
      /\ jobs' = Append(jobs, [doc |-> d, text |-> t])
      /\ [doc |-> d, text |-> t] \in [doc : Docs, text : Texts]
  BY DEF KBInv, KBTypeOK, Submit
<1>2. jobs' \in Seq([doc : Docs, text : Texts])
  BY <1>1
<1>3. DOMAIN jobs' = DOMAIN jobs \cup {n}
  BY <1>1
<1>4. open' = open \cup {n}
  BY DEF Submit
<1>5. /\ open' \cup stored' \cup refused' \subseteq DOMAIN jobs'
      /\ embedded' \in [Workers -> {0} \cup DOMAIN jobs']
  <2> HIDE DEF n
  <2>1. DOMAIN jobs \subseteq DOMAIN jobs'
    BY <1>3
  <2>2. stored' = stored /\ refused' = refused /\ embedded' = embedded
    BY DEF Submit, tables
  <2>3. /\ open \cup stored \cup refused \subseteq DOMAIN jobs
        /\ embedded \in [Workers -> {0} \cup DOMAIN jobs]
    BY DEF KBInv, KBTypeOK
  <2>4. open' \cup stored' \cup refused' \subseteq DOMAIN jobs'
    BY <1>3, <1>4, <2>1, <2>2, <2>3
  <2>5. embedded' \in [Workers -> {0} \cup DOMAIN jobs']
    BY <2>1, <2>2, <2>3
  <2> QED
    BY <2>4, <2>5
<1>6. UNCHANGED <<deliveries, kb, chunk, lastChunk>>
  BY DEF Submit, tables
<1>7. KBTypeOK'
  BY <1>2, <1>5, <1>6 DEF KBInv, KBTypeOK
<1> QED
  BY <1>6, <1>7, TablesKept DEF KBInv

LEMMA SeqElement ==
  ASSUME NEW S, NEW s \in Seq(S), NEW i \in DOMAIN s
  PROVE  s[i] \in S
  OBVIOUS

LEMMA StoreInv ==
  ASSUME KBInv, NEW w \in Workers, Store(w)
  PROVE  KBInv'
<1> PICK j : j = embedded[w]
  OBVIOUS
<1>1. j \in DOMAIN jobs
  BY DEF KBInv, KBTypeOK, Store
<1>2. jobs[j] \in [doc : Docs, text : Texts]
  BY <1>1, SeqElement DEF KBInv, KBTypeOK
<1>3. PICK d \in Docs, t \in Texts : d = jobs[j].doc /\ t = jobs[j].text
  BY <1>2
<1>4. /\ kb' = [kb EXCEPT ![d] = UpsertedLaw(d, t)]
      /\ chunk' = (chunk \ Rows(d)) \cup Upserted(d, t)
      /\ lastChunk' = lastChunk + Cardinality(Missing(d, t))
      /\ stored' = stored \cup {j}
      /\ embedded' = [embedded EXCEPT ![w] = 0]
      /\ UNCHANGED <<jobs, open, deliveries, refused>>
  BY <1>3 DEF Store
<1>5. \A c, e \in Rows(d) : c.index = e.index => c = e
  BY <1>3 DEF KBInv, ChunksMatchText
<1>6. /\ Upserted(d, t) \subseteq ChunkRow
      /\ \A c \in Upserted(d, t) : c.doc = d /\ c.text = t
      /\ {c.index : c \in Upserted(d, t)} = 0 .. t.chunks - 1
      /\ \A c, e \in Upserted(d, t) : c.index = e.index => c = e
  BY <1>3, <1>5, UpsertedRows DEF KBInv
<1>7. UpsertedLaw(d, t) \in StoredLaw
  <2>1. kb[d] \in {NoLaw} \cup StoredLaw
    BY <1>3 DEF KBInv, KBTypeOK
  <2>2. kb[d].version \in Nat
    BY <2>1 DEF NoLaw, StoredLaw
  <2> QED
    BY <1>3, <2>2 DEF UpsertedLaw, StoredLaw
<1>8. kb' \in [Docs -> {NoLaw} \cup StoredLaw]
  BY <1>3, <1>4, <1>7 DEF KBInv, KBTypeOK
<1>9. chunk' \subseteq ChunkRow
  BY <1>4, <1>6 DEF KBInv, KBTypeOK
<1>10. lastChunk' \in Nat
  <2>1. 0 \in Nat /\ lastChunk \in Nat
    BY DEF KBInv, KBTypeOK
  <2>2. Cardinality(Missing(d, t)) \in Nat
    BY <2>1, MissingFinite
  <2> QED
    BY <1>4, <2>1, <2>2
<1>11. /\ jobs' \in Seq([doc : Docs, text : Texts])
       /\ open' \cup stored' \cup refused' \subseteq DOMAIN jobs'
       /\ deliveries' \in 0 .. MaxDeliveries
       /\ embedded' \in [Workers -> {0} \cup DOMAIN jobs']
  BY <1>1, <1>4 DEF KBInv, KBTypeOK
<1>12. KBTypeOK'
  BY <1>8, <1>9, <1>10, <1>11 DEF KBTypeOK
<1>13. Rows(d)' = Upserted(d, t)
  BY <1>4, <1>6 DEF Rows
<1>14. \A x \in Docs \ {d} : Rows(x)' = Rows(x) /\ kb'[x] = kb[x]
  BY <1>4, <1>6 DEF Rows, KBInv, KBTypeOK
<1>15. kb'[d].text = t /\ kb'[d] # NoLaw
  <2>1. kb'[d] = UpsertedLaw(d, t)
    BY <1>3, <1>4 DEF KBInv, KBTypeOK
  <2>2. kb'[d].version # 0
    BY <1>7, <2>1 DEF StoredLaw
  <2>3. kb'[d] # NoLaw
    BY <2>2 DEF NoLaw
  <2> QED
    BY <2>1, <2>3 DEF UpsertedLaw
<1>16. ChunksMatchText'
  <2> SUFFICES ASSUME NEW x \in Docs
               PROVE  (IF kb[x] = NoLaw THEN Rows(x) = {}
                       ELSE /\ {c.index : c \in Rows(x)} = 0 .. kb[x].text.chunks - 1
                            /\ \A c, e \in Rows(x) : c.index = e.index => c = e
                            /\ \A c \in Rows(x) : c.text = kb[x].text)'
    BY DEF ChunksMatchText
  <2>1. CASE x = d
    BY <1>6, <1>13, <1>15, <2>1
  <2>2. CASE x # d
    <3>1. Rows(x)' = Rows(x) /\ kb'[x] = kb[x]
      BY <1>14, <2>2
    <3> QED
      BY <3>1 DEF KBInv, ChunksMatchText
  <2> QED
    BY <2>1, <2>2
<1> QED
  BY <1>12, <1>16 DEF KBInv

\* Every step of the ingestion, and every step of others that leaves its jobs
\* and tables alone, keeps the invariant.
LEMMA StepInv ==
  ASSUME KBInv, KBNext \/ UNCHANGED <<ingestion, tables>>
  PROVE  KBInv'
<1>1. CASE UNCHANGED <<ingestion, tables>>
  BY <1>1, TablesKept DEF ingestion, tables, KBInv, KBTypeOK
<1>2. ASSUME NEW d \in Docs, NEW t \in Texts, Submit(d, t)
      PROVE  KBInv'
  BY <1>2, SubmitInv
<1>3. ASSUME NEW w \in Workers, NEW j \in open, Embed(w, j)
      PROVE  KBInv'
  <2>1. deliveries' \in 0 .. MaxDeliveries
    BY <1>3, KnowledgeAssumption DEF Embed, KBInv, KBTypeOK
  <2>2. j \in DOMAIN jobs
    BY DEF KBInv, KBTypeOK
  <2>3. embedded' \in [Workers -> {0} \cup DOMAIN jobs]
    BY <1>3, <2>2 DEF Embed, KBInv, KBTypeOK
  <2> QED
    BY <1>3, <2>1, <2>3, TablesKept DEF Embed, tables, KBInv, KBTypeOK
<1>4. ASSUME NEW w \in Workers, Abandon(w)
      PROVE  KBInv'
  BY <1>4, TablesKept DEF Abandon, tables, KBInv, KBTypeOK
<1>5. ASSUME NEW w \in Workers, Refuse(w)
      PROVE  KBInv'
  BY <1>5, TablesKept DEF Refuse, tables, KBInv, KBTypeOK
<1>6. ASSUME NEW j \in open, Close(j)
      PROVE  KBInv'
  BY <1>6, TablesKept DEF Close, tables, KBInv, KBTypeOK
<1>7. ASSUME NEW w \in Workers, Store(w)
      PROVE  KBInv'
  BY <1>7, StoreInv
<1> QED
  BY <1>1, <1>2, <1>3, <1>4, <1>5, <1>6, <1>7 DEF KBNext, IngestionStep

LEMMA KBInvariant == KBSpec => []KBInv
<1>1. KBInv /\ [KBNext]_kbVars => KBInv'
  BY StepInv DEF kbVars
<1> QED
  BY <1>1, InitInv, PTL DEF KBSpec

\* The types of the ingestion hold in every state.
THEOREM KBTypeCorrect == KBSpec => []KBTypeOK
<1>1. KBInv => KBTypeOK
  BY DEF KBInv
<1> QED
  BY <1>1, KBInvariant, PTL

\* A stored law is always chunked completely and by one text, for any number
\* of workers, laws and chunks, and whichever jobs are stored in which order:
\* the delete of the surplus rows and the upsert of the others leave exactly
\* the chunks of the text that the law's row holds.
THEOREM ChunksAreTheText == KBSpec => []ChunksMatchText
<1>1. KBInv => ChunksMatchText
  BY DEF KBInv
<1> QED
  BY <1>1, KBInvariant, PTL

-----------------------------------------------------------------------------
(* The promise to those who cite chunks.                                   *)

\* Ids are handed out once.
IdsOnce ==
  /\ \A c \in chunk : c.id \in 1 .. lastChunk
  /\ \A c, e \in chunk : c.id = e.id => c = e

\* The new rows are numbered one after the other.
LEMMA NewIds ==
  ASSUME NEW d, NEW t \in Texts, lastChunk \in Nat, NEW i \in Missing(d, t)
  PROVE  /\ NewRow(d, t, i).id \in lastChunk + 1 .. lastChunk + Cardinality(Missing(d, t))
         /\ \A j \in Missing(d, t) : i < j => NewRow(d, t, i).id < NewRow(d, t, j).id
<1> DEFINE S(k) == {m \in Missing(d, t) : m <= k}
<1>1. Missing(d, t) \subseteq Nat /\ IsFiniteSet(Missing(d, t))
  <2>1. Missing(d, t) \subseteq 0 .. t.chunks - 1 /\ t.chunks - 1 \in Int
    BY KnowledgeAssumption DEF Missing, Texts
  <2>2. IsFiniteSet(0 .. t.chunks - 1)
    BY <2>1, FS_Interval
  <2> QED BY <2>1, <2>2, FS_Subset
<1>2. \A k : IsFiniteSet(S(k)) /\ Cardinality(S(k)) \in Nat
             /\ Cardinality(S(k)) <= Cardinality(Missing(d, t))
  <2> SUFFICES ASSUME NEW k
               PROVE  IsFiniteSet(S(k)) /\ Cardinality(S(k)) \in Nat
                      /\ Cardinality(S(k)) <= Cardinality(Missing(d, t))
    OBVIOUS
  <2>1. S(k) \subseteq Missing(d, t)
    OBVIOUS
  <2> QED BY <1>1, <2>1, FS_Subset, FS_CardinalityType
<1>3. i \in S(i)
  BY <1>1
<1>4. Cardinality(S(i)) # 0
  BY <1>2, <1>3, FS_EmptySet
<1>5. \A k : NewRow(d, t, k).id = lastChunk + Cardinality(S(k))
  BY DEF NewRow
<1>6. Cardinality(Missing(d, t)) \in Nat
  BY <1>1, FS_CardinalityType
<1>7. ASSUME NEW j \in Missing(d, t), i < j
      PROVE  Cardinality(S(i)) < Cardinality(S(j))
  <2>1. j \notin S(i) /\ S(i) \cup {j} \subseteq S(j)
    BY <1>1, <1>7
  <2>2. Cardinality(S(i) \cup {j}) = Cardinality(S(i)) + 1
    BY <1>2, <2>1, FS_AddElement
  <2>3. Cardinality(S(i) \cup {j}) <= Cardinality(S(j))
    BY <1>2, <2>1, FS_Subset
  <2>4. Cardinality(S(i)) \in Nat /\ Cardinality(S(j)) \in Nat
    BY <1>2
  <2> HIDE DEF S
  <2> QED BY <2>2, <2>3, <2>4
<1> HIDE DEF S
<1>8. NewRow(d, t, i).id \in lastChunk + 1 .. lastChunk + Cardinality(Missing(d, t))
  BY <1>2, <1>4, <1>5, <1>6
<1>9. ASSUME NEW j \in Missing(d, t), i < j
      PROVE  NewRow(d, t, i).id < NewRow(d, t, j).id
  BY <1>2, <1>5, <1>7, <1>9
<1> QED BY <1>8, <1>9

\* Each row after the upsert is a row that was there, at its place, or a new one.
LEMMA UpsertedIds ==
  ASSUME KBInv, IdsOnce, NEW d \in Docs, NEW t \in Texts
  PROVE  /\ \A c \in Upserted(d, t) :
              \/ c.index \in Missing(d, t) /\ c.id \in lastChunk + 1 .. lastChunk + Cardinality(Missing(d, t))
              \/ \E e \in Rows(d) : c = [e EXCEPT !.text = t] /\ c.id = e.id /\ c.index = e.index
         /\ \A c, e \in Upserted(d, t) : c.id = e.id => c = e
<1> DEFINE New(c) == \E i \in Missing(d, t) : c = NewRow(d, t, i)
           Old(c) == \E e \in Rows(d) : c = [e EXCEPT !.text = t] /\ c.id = e.id /\ c.index = e.index
<1>1. lastChunk \in Nat /\ Rows(d) \subseteq chunk /\ Missing(d, t) \subseteq Int
  BY DEF KBInv, KBTypeOK, Rows, Missing
<1>2. \A e \in Rows(d) : [e EXCEPT !.text = t].id = e.id /\ [e EXCEPT !.text = t].index = e.index
  BY <1>1 DEF KBInv, KBTypeOK, ChunkRow
<1>3. \A c \in Upserted(d, t) : New(c) \/ Old(c)
  BY <1>2 DEF Upserted
<1>4. \A i \in Missing(d, t) : NewRow(d, t, i).index = i
  BY DEF NewRow
<1>5. ASSUME NEW c, New(c)
      PROVE  c.index \in Missing(d, t)
             /\ c.id \in lastChunk + 1 .. lastChunk + Cardinality(Missing(d, t))
  BY <1>1, <1>4, <1>5, NewIds
<1>6. ASSUME NEW c, NEW e, New(c), New(e), c.id = e.id
      PROVE  c = e
  <2>1. PICK i \in Missing(d, t), j \in Missing(d, t) : c = NewRow(d, t, i) /\ e = NewRow(d, t, j)
    BY <1>6
  <2>2. /\ c.id \in Int /\ e.id \in Int
        /\ (i < j => c.id < e.id) /\ (j < i => e.id < c.id)
    <3>1. /\ c.id \in lastChunk + 1 .. lastChunk + Cardinality(Missing(d, t))
          /\ i < j => c.id < e.id
      BY <1>1, <2>1, NewIds
    <3>2. /\ e.id \in lastChunk + 1 .. lastChunk + Cardinality(Missing(d, t))
          /\ j < i => e.id < c.id
      BY <1>1, <2>1, NewIds
    <3> QED BY <3>1, <3>2
  <2>3. ~ (i < j) /\ ~ (j < i)
    <3>1. ~ (c.id < e.id) /\ ~ (e.id < c.id)
      BY <1>6, <2>2
    <3> QED BY <2>1, <1>1, <3>1, NewIds
  <2> QED BY <1>1, <2>1, <2>3
<1>7. ASSUME NEW c, NEW e, Old(c), Old(e), c.id = e.id
      PROVE  c = e
  BY <1>1, <1>7 DEF IdsOnce
<1>8. ASSUME NEW c, NEW e, New(c), Old(e)
      PROVE  c.id # e.id
  <2>1. e.id \in 1 .. lastChunk
    BY <1>1, <1>8 DEF IdsOnce
  <2>2. c.id \in lastChunk + 1 .. lastChunk + Cardinality(Missing(d, t))
    BY <1>5, <1>8
  <2> QED BY <1>1, <2>1, <2>2
<1> HIDE DEF New
<1>9. \A c, e \in Upserted(d, t) : c.id = e.id => c = e
  <2> SUFFICES ASSUME NEW c \in Upserted(d, t), NEW e \in Upserted(d, t), c.id = e.id
               PROVE  c = e
    OBVIOUS
  <2> HIDE DEF Old
  <2> QED BY <1>3, <1>6, <1>7, <1>8
<1>10. \A c \in Upserted(d, t) :
         \/ c.index \in Missing(d, t) /\ c.id \in lastChunk + 1 .. lastChunk + Cardinality(Missing(d, t))
         \/ Old(c)
  <2> HIDE DEF Old
  <2> QED BY <1>3, <1>5
<1> QED BY <1>9, <1>10

\* Storing a law replaces it as CitableLaws allows.
LEMMA StoreReplaces ==
  ASSUME KBInv, IdsOnce, NEW w \in Workers, Store(w)
  PROVE  IdsOnce' /\ \E d \in Docs : Promise!Replace(d)
<1> PICK j : j = embedded[w]
  OBVIOUS
<1>1. j \in DOMAIN jobs
  BY DEF KBInv, KBTypeOK, Store
<1>2. jobs[j] \in [doc : Docs, text : Texts]
  BY <1>1, SeqElement DEF KBInv, KBTypeOK
<1>3. PICK d \in Docs, t \in Texts : d = jobs[j].doc /\ t = jobs[j].text
  BY <1>2
<1>4. /\ kb' = [kb EXCEPT ![d] = UpsertedLaw(d, t)]
      /\ chunk' = (chunk \ Rows(d)) \cup Upserted(d, t)
      /\ lastChunk' = lastChunk + Cardinality(Missing(d, t))
      /\ Ids(StaleRows(d, t)) \cap Cited = {} /\ runs' = runs
  BY <1>3 DEF Store, Refused
<1>5. PICK n \in Nat : n = Cardinality(Missing(d, t)) /\ lastChunk \in Nat /\ lastChunk' = lastChunk + n
  <2>1. 0 \in Nat
    OBVIOUS
  <2>2. Cardinality(Missing(d, t)) \in Nat
    BY <2>1, MissingFinite
  <2> QED BY <1>4, <2>2 DEF KBInv, KBTypeOK
<1>6. /\ Upserted(d, t) \subseteq ChunkRow
      /\ \A c \in Upserted(d, t) : c.doc = d /\ c.text = t
      /\ {c.index : c \in Upserted(d, t)} = 0 .. t.chunks - 1
      /\ \A c, e \in Upserted(d, t) : c.index = e.index => c = e
  <2>1. \A c, e \in Rows(d) : c.index = e.index => c = e
    BY <1>3 DEF KBInv, ChunksMatchText
  <2> QED BY <1>3, <2>1, UpsertedRows DEF KBInv
<1>7. /\ \A c \in Upserted(d, t) :
           \/ c.index \in Missing(d, t) /\ c.id \in lastChunk + 1 .. lastChunk + n
           \/ \E e \in Rows(d) : c = [e EXCEPT !.text = t] /\ c.id = e.id /\ c.index = e.index
      /\ \A c, e \in Upserted(d, t) : c.id = e.id => c = e
  BY <1>3, <1>5, UpsertedIds
<1>8. \A c \in chunk : c.id \in 1 .. lastChunk
  BY DEF IdsOnce
<1>9. \A c \in Rows(d) : c \in chunk /\ c.doc = d /\ c.id \in 1 .. lastChunk
  BY <1>8 DEF Rows
<1>10. \A c \in Upserted(d, t) :
         c.id \in 1 .. lastChunk + n /\ \A e \in chunk \ Rows(d) : c.id # e.id
  <2> SUFFICES ASSUME NEW c \in Upserted(d, t)
               PROVE  c.id \in 1 .. lastChunk + n /\ \A e \in chunk \ Rows(d) : c.id # e.id
    OBVIOUS
  <2>1. CASE c.id \in lastChunk + 1 .. lastChunk + n
    BY <1>5, <1>8, <2>1
  <2>2. CASE \E e \in Rows(d) : c.id = e.id
    BY <1>5, <1>9, <2>2 DEF IdsOnce
  <2> QED BY <1>7, <2>1, <2>2
<1>11. IdsOnce'
  <2>1. \A c \in chunk' : c.id \in 1 .. lastChunk'
    BY <1>4, <1>5, <1>8, <1>10
  <2>2. \A c, e \in chunk' : c.id = e.id => c = e
    BY <1>4, <1>7, <1>10 DEF IdsOnce
  <2> QED BY <2>1, <2>2 DEF IdsOnce
<1>12. {c \in chunk' : c.doc = d} = Upserted(d, t) /\ {c \in chunk : c.doc = d} = Rows(d)
       /\ {c \in chunk' : c.doc # d} = {c \in chunk : c.doc # d}
  BY <1>4, <1>6 DEF Rows
<1>13. Promise!Rechunked(t, Rows(d), Upserted(d, t))
  <2>1. ASSUME NEW c \in Upserted(d, t)
        PROVE  /\ \A e \in Rows(d) : e.index = c.index => e.id = c.id
               /\ c.index \notin {e.index : e \in Rows(d)} =>
                    c.id \in (1 .. lastChunk + n) \ (1 .. lastChunk)
    <3>1. CASE c.index \in Missing(d, t) /\ c.id \in lastChunk + 1 .. lastChunk + n
      <4>1. \A e \in Rows(d) : e.index # c.index
        BY <3>1 DEF Missing
      <4> QED BY <1>5, <3>1, <4>1
    <3>2. CASE \E e \in Rows(d) : c.id = e.id /\ c.index = e.index
      BY <1>3, <3>2 DEF KBInv, ChunksMatchText
    <3> QED BY <1>7, <3>1, <3>2
  <2>2. ASSUME NEW e \in Rows(d), e.id \in Cited
        PROVE  \E c \in Upserted(d, t) : c.id = e.id
    <3>1. e \notin StaleRows(d, t)
      BY <1>4, <2>2 DEF Ids
    <3>2. [e EXCEPT !.text = t] \in Upserted(d, t)
      BY <3>1 DEF Upserted
    <3>3. [e EXCEPT !.text = t].id = e.id
      BY <1>9 DEF KBInv, KBTypeOK, ChunkRow
    <3> QED BY <3>2, <3>3
  <2> QED BY <1>5, <1>6, <1>7, <2>1, <2>2 DEF Promise!Rechunked
<1>14. /\ kb'[d].version = kb[d].version + 1 /\ kb'[d].text = t
       /\ \A e \in Docs \ {d} : kb'[e] = kb[e]
  BY <1>3, <1>4 DEF UpsertedLaw, KBInv, KBTypeOK
<1>15. 1 .. lastChunk \subseteq 1 .. lastChunk' /\ Cited' = Cited
  BY <1>4, <1>5 DEF Cited
<1>16. Promise!Rechunked(t, {c \in chunk : c.doc = d}, {c \in chunk' : c.doc = d})
  BY <1>12, <1>13
<1>17. Promise!Replace(d)
  BY <1>3, <1>12, <1>14, <1>15, <1>16 DEF Promise!Replace
<1> QED BY <1>11, <1>17
=============================================================================
