-------------------------- MODULE AuditTrailProofs --------------------------
(***************************************************************************)
(* Proof that every generated rate keeps its source, for every value of    *)
(* the constants.  The invariant adds to the ingestion's that every run    *)
(* cites a chunk that is still there: Store deletes no row that a run      *)
(* cites, because the schema refuses the transaction, and CommitWrite adds *)
(* only runs whose chunk is there.                                         *)
(***************************************************************************)
EXTENDS AuditTrail, KnowledgeBaseProofs

\* The chunk a run cites is there.
RunsCiteChunks == \A r \in runs : \E c \in chunk : c.id = r.chunk

\* Every SKU with rates has the run that generated them, and its vector_id.
RatesHaveRuns ==
  \A s \in Skus : sku[s].rates # 0 =>
    \E r \in runs : r.id = sku[s].rates /\ r.sku = s /\ sku[s].vector = r.chunk

AuditInv ==
  /\ TypeOK
  /\ ChunksMatchText
  /\ RunsCiteChunks
  /\ RatesHaveRuns

LEMMA InvIngestion == AuditInv => KBInv
  BY DEF AuditInv, TypeOK, KBInv

LEMMA AuditInitInv == Init => AuditInv
<1> SUFFICES ASSUME Init PROVE AuditInv
  OBVIOUS
<1>1. KBInv
  BY InitInv DEF Init
<1>2. sku \in [Skus -> SkuRow] /\ \A s \in Skus : sku[s].rates = 0
  BY DEF Init, NoSku, SkuRow
<1>3. RunsCiteChunks
  BY DEF Init, KBInit, RunsCiteChunks
<1>4. audit \in [Workers -> AuditOf] /\ \A w \in Workers : audit[w].stage = "idle"
  BY DEF Init, NoAudit, AuditOf
<1>5. IsFiniteSet(runs) /\ RunIds = 1 .. Cardinality(runs) /\ log = RunIds
  <2>1. runs = {} /\ log = {} /\ RunIds = {}
    BY DEF Init, KBInit, RunIds
  <2>2. IsFiniteSet(runs) /\ Cardinality(runs) = 0
    BY <2>1, FS_EmptySet
  <2> QED
    BY <2>1, <2>2
<1>6. /\ edits \in 0 .. MaxEdits /\ auditDeliveries \in 0 .. MaxAuditDeliveries
      /\ clock \in Nat
  BY AuditAssumption DEF Init
<1>7. auditJobs \in Seq(Skus) /\ openAudits \cup rejected \subseteq DOMAIN auditJobs
  BY DEF Init
<1>8. TypeOK
  BY <1>1, <1>2, <1>4, <1>5, <1>6, <1>7 DEF TypeOK, KBInv
<1> QED
  BY <1>1, <1>2, <1>3, <1>8 DEF AuditInv, RatesHaveRuns, KBInv

\* A chunk is stored for a law that is stored.
LEMMA ChunkHasLaw ==
  ASSUME KBInv, NEW c \in chunk
  PROVE  kb[c.doc] # NoLaw
<1>1. c.doc \in Docs /\ c \in Rows(c.doc)
  BY DEF KBInv, KBTypeOK, ChunkRow, Rows
<1> QED
  BY <1>1 DEF KBInv, ChunksMatchText

LEMMA InvImpliesResolvable == AuditInv => RatesResolvable
<1> SUFFICES ASSUME AuditInv, NEW s \in Skus, sku[s].rates # 0
             PROVE  \E r \in runs :
                      /\ r.id = sku[s].rates /\ r.sku = s
                      /\ sku[s].vector = r.chunk
                      /\ \E c \in chunk : c.id = r.chunk /\ kb[c.doc] # NoLaw
  BY DEF RatesResolvable
<1>1. PICK r \in runs : r.id = sku[s].rates /\ r.sku = s /\ sku[s].vector = r.chunk
  BY DEF AuditInv, RatesHaveRuns
<1>2. PICK c \in chunk : c.id = r.chunk
  BY DEF AuditInv, RunsCiteChunks
<1>3. kb[c.doc] # NoLaw
  BY ChunkHasLaw, InvIngestion
<1> QED
  BY <1>1, <1>2, <1>3

-----------------------------------------------------------------------------
\* A transaction that the schema accepts keeps every row that a run cites.
LEMMA StoreKeepsCited ==
  ASSUME KBInv, NEW w \in Workers, Store(w), NEW c \in chunk, c.id \in Cited
  PROVE  \E e \in chunk' : e.id = c.id
<1> PICK j : j = embedded[w]
  OBVIOUS
<1> PICK d : d = jobs[j].doc
  OBVIOUS
<1> PICK t : t = jobs[j].text
  OBVIOUS
<1>1. /\ chunk' = (chunk \ Rows(d)) \cup Upserted(d, t)
      /\ Ids(StaleRows(d, t)) \cap Cited = {}
  BY DEF Store, Refused
<1>2. c \notin StaleRows(d, t)
  BY <1>1 DEF Ids
<1>3. CASE c \in Rows(d)
  <2>1. [c EXCEPT !.text = t] \in chunk'
    BY <1>1, <1>2, <1>3 DEF Upserted
  <2>2. [c EXCEPT !.text = t].id = c.id
    BY DEF KBInv, KBTypeOK, ChunkRow
  <2> QED
    BY <2>1, <2>2
<1>4. CASE c \notin Rows(d)
  BY <1>1, <1>4
<1> QED
  BY <1>3, <1>4

\* The state of the audits alone: what a step that leaves the runs, the chunks
\* and the rates alone has to keep.
LEMMA AuditOnly ==
  ASSUME AuditInv, TypeOK', UNCHANGED <<kb, chunk, runs>>,
         \A s \in Skus : sku'[s].rates = sku[s].rates /\ sku'[s].vector = sku[s].vector
  PROVE  AuditInv'
<1>1. ChunksMatchText'
  BY TablesKept DEF AuditInv
<1>2. RunsCiteChunks'
  BY DEF AuditInv, RunsCiteChunks
<1>3. RatesHaveRuns'
  BY DEF AuditInv, RatesHaveRuns
<1> QED
  BY <1>1, <1>2, <1>3 DEF AuditInv

LEMMA StoreLawInv ==
  ASSUME AuditInv, NEW w \in Workers, StoreLaw(w)
  PROVE  AuditInv'
<1>1. Store(w) /\ runs' = runs
  BY DEF StoreLaw, Store
<1>2. KBInv'
  BY <1>1, StoreInv, InvIngestion
<1>3. RunsCiteChunks'
  <2> SUFFICES ASSUME NEW r \in runs
               PROVE  \E c \in chunk' : c.id = r.chunk
    BY <1>1 DEF RunsCiteChunks
  <2>1. PICK c \in chunk : c.id = r.chunk
    BY DEF AuditInv, RunsCiteChunks
  <2>2. c.id \in Cited
    BY <2>1 DEF Cited
  <2> QED
    BY <1>1, <2>1, <2>2, StoreKeepsCited, InvIngestion
<1>4. \A s \in Skus : sku[s].rates # 0 => sku[s].vector \in Ids(chunk')
  <2> SUFFICES ASSUME NEW s \in Skus, sku[s].rates # 0
               PROVE  sku[s].vector \in Ids(chunk')
    OBVIOUS
  <2>1. PICK r \in runs : sku[s].vector = r.chunk
    BY DEF AuditInv, RatesHaveRuns
  <2>2. PICK c \in chunk' : c.id = r.chunk
    BY <1>1, <1>3 DEF RunsCiteChunks
  <2> QED
    BY <2>1, <2>2 DEF Ids
<1>5. sku' = [s \in Skus |-> IF sku[s].vector \in Ids(chunk) \ Ids(chunk')
                             THEN [sku[s] EXCEPT !.vector = 0] ELSE sku[s]]
  BY DEF StoreLaw
<1>6. \A s \in Skus : sku[s] \in SkuRow
  BY DEF AuditInv, TypeOK
<1>7. \A s \in Skus : [sku[s] EXCEPT !.vector = 0] \in SkuRow
  BY <1>6 DEF SkuRow
<1>8. sku' \in [Skus -> SkuRow]
  BY <1>5, <1>6, <1>7
<1>9. TypeOK'
  BY <1>1, <1>2, <1>8 DEF AuditInv, TypeOK, KBInv, StoreLaw, RunIds, AuditOf
<1>10. \A s \in Skus : sku'[s].rates = sku[s].rates
  BY <1>5, <1>6 DEF SkuRow
<1>11. \A s \in Skus : sku[s].rates # 0 => sku'[s] = sku[s]
  BY <1>4, <1>5
<1>12. RatesHaveRuns'
  BY <1>1, <1>10, <1>11 DEF AuditInv, RatesHaveRuns
<1> QED
  BY <1>2, <1>3, <1>9, <1>12 DEF AuditInv, KBInv

LEMMA CommitWriteInv ==
  ASSUME AuditInv, NEW w \in Workers, CommitWrite(w)
  PROVE  AuditInv'
<1> PICK r : r = Run(w)
  OBVIOUS
<1>1. /\ r.chunk = audit[w].chunk /\ r.id = Cardinality(runs) + 1
      /\ r.sku = auditJobs[audit[w].job]
      /\ r.chunk \in Ids(chunk)
      /\ runs' = runs \cup {r}
      /\ sku' = [sku EXCEPT ![r.sku].rates = r.id, ![r.sku].vector = r.chunk]
      /\ log' = log \cup {r.id}
      /\ audit' = [audit EXCEPT ![w] = NoAudit]
      /\ UNCHANGED <<ingestion, tables, edits, auditJobs, openAudits,
                     auditDeliveries, clock, rejected>>
  BY DEF CommitWrite, Run
<1>2. KBInv' /\ chunk' = chunk
  BY <1>1, StepInv, InvIngestion DEF tables
<1>3. RunsCiteChunks'
  BY <1>1, <1>2 DEF AuditInv, RunsCiteChunks, Ids
<1>4. r.chunk \in Nat /\ r.id \in Nat
  <2>1. Cardinality(runs) \in Nat
    BY FS_CardinalityType DEF AuditInv, TypeOK
  <2>2. r.chunk \in Nat
    BY <1>1, InvIngestion DEF Ids, KBInv, KBTypeOK, ChunkRow
  <2> QED
    BY <1>1, <2>1, <2>2
<1>5. \A s \in Skus : sku[s] \in SkuRow
  BY DEF AuditInv, TypeOK
<1>6. r.sku \in Skus
  <2>1. audit[w].stage # "idle" /\ audit[w].job \in DOMAIN auditJobs
    BY DEF CommitWrite, AuditInv, TypeOK, AuditOf
  <2> QED
    BY <1>1, <2>1, SeqElement DEF AuditInv, TypeOK
<1>7. /\ sku'[r.sku] = [sku[r.sku] EXCEPT !.rates = r.id, !.vector = r.chunk]
      /\ \A s \in Skus \ {r.sku} : sku'[s] = sku[s]
      /\ DOMAIN sku' = Skus
  BY <1>1, <1>6 DEF AuditInv, TypeOK
<1>8. /\ sku'[r.sku] \in SkuRow
      /\ sku'[r.sku].rates = r.id /\ sku'[r.sku].vector = r.chunk
  BY <1>4, <1>5, <1>6, <1>7 DEF SkuRow
<1>9. sku' \in [Skus -> SkuRow]
  <2>1. ASSUME NEW s \in Skus
        PROVE  sku'[s] \in SkuRow
    <3>1. CASE s = r.sku
      BY <1>8, <3>1
    <3>2. CASE s # r.sku
      BY <1>5, <1>7, <3>2
    <3> QED
      BY <3>1, <3>2
  <2>2. sku = [s \in Skus |-> sku[s]]
    BY DEF AuditInv, TypeOK
  <2>3. sku' = [s \in Skus |-> sku'[s]]
    BY <1>1, <2>2
  <2> QED
    BY <2>1, <2>3
<1>10. IsFiniteSet(runs') /\ RunIds' = 1 .. Cardinality(runs') /\ log' = RunIds'
  <2>1. /\ IsFiniteSet(runs) /\ Cardinality(runs) \in Nat
        /\ RunIds = 1 .. Cardinality(runs)
    BY FS_CardinalityType DEF AuditInv, TypeOK
  <2>2. r \notin runs
    BY <1>1, <2>1 DEF RunIds
  <2>3. IsFiniteSet(runs') /\ Cardinality(runs') = Cardinality(runs) + 1
    BY <1>1, <2>1, <2>2, FS_AddElement
  <2>4. RunIds' = RunIds \cup {r.id}
    BY <1>1 DEF RunIds
  <2>5. RunIds' = 1 .. Cardinality(runs')
    BY <1>1, <2>1, <2>3, <2>4
  <2> QED
    BY <1>1, <2>3, <2>4, <2>5 DEF AuditInv, TypeOK
<1>11. /\ audit' \in [Workers -> AuditOf']
       /\ \A v \in Workers : audit'[v].stage # "idle" => audit'[v].job # 0
  BY <1>1 DEF AuditInv, TypeOK, AuditOf, NoAudit
<1>12. TypeOK'
  BY <1>1, <1>2, <1>9, <1>10, <1>11 DEF AuditInv, TypeOK, KBInv
<1>13. RatesHaveRuns'
  <2> SUFFICES ASSUME NEW s \in Skus, sku'[s].rates # 0
               PROVE  \E q \in runs' : /\ q.id = sku'[s].rates /\ q.sku = s
                                       /\ sku'[s].vector = q.chunk
    BY DEF RatesHaveRuns
  <2>1. CASE s = r.sku
    BY <1>1, <1>8, <2>1
  <2>2. CASE s # r.sku
    <3>1. sku'[s] = sku[s]
      BY <1>7, <2>2
    <3>2. PICK q \in runs : q.id = sku[s].rates /\ q.sku = s /\ sku[s].vector = q.chunk
      BY <3>1 DEF AuditInv, RatesHaveRuns
    <3> QED
      BY <1>1, <3>1, <3>2
  <2> QED
    BY <2>1, <2>2
<1> QED
  BY <1>2, <1>3, <1>12, <1>13 DEF AuditInv, KBInv
-----------------------------------------------------------------------------
\* An edit of the inventory changes the status of a row and nothing else.
LEMMA EditInv ==
  ASSUME AuditInv, NEW s \in Skus, UpsertSku(s) \/ UpdateSku(s) \/ DeleteSku(s)
  PROVE  AuditInv'
<1>1. PICK st \in {"active", "deleted"} : sku' = [sku EXCEPT ![s].status = st]
  BY DEF UpsertSku, UpdateSku, DeleteSku
<1>2. edits' \in 0 .. MaxEdits
  BY AuditAssumption DEF AuditInv, TypeOK, UpsertSku, UpdateSku, DeleteSku
<1>3. UNCHANGED <<kbVars, auditJobs, openAudits, auditDeliveries, audit, clock, log,
                 rejected>>
  BY DEF UpsertSku, UpdateSku, DeleteSku
<1>4. sku \in [Skus -> SkuRow]
  BY DEF AuditInv, TypeOK
<1>5. [sku[s] EXCEPT !.status = st] \in SkuRow
  BY <1>4 DEF SkuRow
<1>6. sku' = [sku EXCEPT ![s] = [sku[s] EXCEPT !.status = st]]
  BY <1>1, <1>4
<1>7. sku' \in [Skus -> SkuRow]
  BY <1>4, <1>5, <1>6
<1>8. \A q \in Skus : sku'[q].rates = sku[q].rates /\ sku'[q].vector = sku[q].vector
  BY <1>4, <1>6 DEF SkuRow
<1>9. KBTypeOK'
  BY <1>3, StepInv, InvIngestion DEF kbVars, KBInv
<1>10. TypeOK'
  BY <1>2, <1>3, <1>7, <1>9 DEF AuditInv, TypeOK, kbVars, RunIds, AuditOf
<1> QED
  BY <1>3, <1>8, <1>10, AuditOnly DEF kbVars, tables

\* Steps of the ingestion other than Store.
LEMMA IngestInv ==
  ASSUME AuditInv, Ingest
  PROVE  AuditInv'
<1>1. KBInv'
  BY StepInv, InvIngestion DEF Ingest, KBNext
<1>2. UNCHANGED <<kb, chunk, runs>>
  BY DEF Ingest, IngestionStep, Submit, Embed, Abandon, Refuse, Close, tables
<1>3. UNCHANGED auditVars
  BY DEF Ingest
<1>4. TypeOK'
  BY <1>1, <1>2, <1>3 DEF AuditInv, TypeOK, KBInv, auditVars, RunIds, AuditOf
<1> QED
  BY <1>2, <1>3, <1>4, AuditOnly DEF auditVars

LEMMA SubmitAuditInv ==
  ASSUME AuditInv, NEW s \in Skus, SubmitAudit(s)
  PROVE  AuditInv'
<1>1. /\ auditJobs' = Append(auditJobs, s)
      /\ openAudits' = openAudits \cup {Len(auditJobs) + 1}
      /\ UNCHANGED <<kbVars, sku, edits, auditDeliveries, audit, clock, log, rejected>>
  BY DEF SubmitAudit
<1>2. auditJobs \in Seq(Skus)
  BY DEF AuditInv, TypeOK
<1>3. auditJobs' \in Seq(Skus)
  BY <1>1, <1>2
<1>4. DOMAIN auditJobs' = DOMAIN auditJobs \cup {Len(auditJobs) + 1}
  BY <1>1, <1>2
<1>5. openAudits' \cup rejected' \subseteq DOMAIN auditJobs'
  BY <1>1, <1>4 DEF AuditInv, TypeOK
<1>6. AuditOf \subseteq AuditOf'
  BY <1>4 DEF AuditOf
<1>7. audit' \in [Workers -> AuditOf']
  BY <1>1, <1>6 DEF AuditInv, TypeOK
<1>8. KBTypeOK'
  BY <1>1, StepInv, InvIngestion DEF kbVars, KBInv
<1>9. TypeOK'
  BY <1>1, <1>3, <1>5, <1>7, <1>8 DEF AuditInv, TypeOK, kbVars, RunIds
<1> QED
  BY <1>1, <1>9, AuditOnly DEF kbVars, tables

\* The state of one worker's audit replaced.
LEMMA OneAudit ==
  ASSUME AuditInv, NEW w \in Workers, NEW a \in AuditOf,
         a.stage # "idle" => a.job # 0, audit' = [audit EXCEPT ![w] = a]
  PROVE  /\ audit' \in [Workers -> AuditOf]
         /\ \A v \in Workers : audit'[v].stage # "idle" => audit'[v].job # 0
<1>1. /\ audit \in [Workers -> AuditOf]
      /\ \A v \in Workers : audit[v].stage # "idle" => audit[v].job # 0
  BY DEF AuditInv, TypeOK
<1> QED
  BY <1>1

\* Steps of an audit before it commits.
LEMMA AuditStepInv ==
  ASSUME AuditInv, NEW w \in Workers,
         \/ \E j \in openAudits : LoadSku(w, j)
         \/ Retrieve(w) \/ Reject(w) \/ BeginWrite(w) \/ GiveUpTry(w)
  PROVE  AuditInv'
<1> DEFINE Kept == UNCHANGED <<kbVars, sku, edits, auditJobs, openAudits, log>>
<1>1. Kept
  BY DEF LoadSku, Retrieve, Reject, BeginWrite, GiveUpTry
<1>2. KBTypeOK'
  BY <1>1, StepInv, InvIngestion DEF kbVars, KBInv
<1>3. AuditOf' = AuditOf
  BY <1>1 DEF AuditOf
<1>4. audit[w] \in AuditOf /\ NoAudit \in AuditOf
  BY DEF AuditInv, TypeOK, AuditOf, NoAudit
<1>5. /\ audit' \in [Workers -> AuditOf]
      /\ \A v \in Workers : audit'[v].stage # "idle" => audit'[v].job # 0
      /\ auditDeliveries' \in 0 .. MaxAuditDeliveries /\ clock' \in Nat
      /\ rejected' \subseteq DOMAIN auditJobs
  <2>1. ASSUME NEW j \in openAudits, LoadSku(w, j)
        PROVE  /\ audit' \in [Workers -> AuditOf]
               /\ \A v \in Workers : audit'[v].stage # "idle" => audit'[v].job # 0
               /\ auditDeliveries' \in 0 .. MaxAuditDeliveries /\ clock' \in Nat
               /\ rejected' \subseteq DOMAIN auditJobs
    <3>1. j \in DOMAIN auditJobs /\ j # 0
      BY DEF AuditInv, TypeOK
    <3>2. /\ audit' = [audit EXCEPT ![w].stage = "loaded", ![w].job = j]
          /\ auditDeliveries' = auditDeliveries + 1 /\ auditDeliveries < MaxAuditDeliveries
          /\ UNCHANGED <<clock, rejected>>
      BY <2>1 DEF LoadSku
    <3> DEFINE a == [audit[w] EXCEPT !.stage = "loaded", !.job = j]
    <3>3. a \in AuditOf /\ a.job # 0
      BY <1>4, <3>1 DEF AuditOf
    <3>4. audit' = [audit EXCEPT ![w] = a]
      BY <3>2
    <3>5. /\ auditDeliveries' \in 0 .. MaxAuditDeliveries /\ clock' \in Nat
          /\ rejected' \subseteq DOMAIN auditJobs
      BY <3>2, AuditAssumption DEF AuditInv, TypeOK
    <3> HIDE DEF a
    <3> QED
      BY <3>3, <3>4, <3>5, OneAudit
  <2>2. CASE Retrieve(w)
    <3>1. PICK c \in chunk :
            /\ audit' = [audit EXCEPT ![w].stage = "answered", ![w].chunk = c.id,
                                      ![w].text = c.text]
            /\ UNCHANGED <<auditDeliveries, clock, rejected>>
      BY <2>2 DEF Retrieve
    <3>2. c.id \in Nat /\ c.text \in Texts
      BY DEF AuditInv, TypeOK, KBTypeOK, ChunkRow
    <3> DEFINE a == [audit[w] EXCEPT !.stage = "answered", !.chunk = c.id,
                                     !.text = c.text]
    <3>3. audit[w].job # 0
      BY <2>2 DEF Retrieve, AuditInv, TypeOK
    <3>4. a \in AuditOf /\ a.job # 0
      BY <1>4, <3>2, <3>3 DEF AuditOf
    <3>5. audit' = [audit EXCEPT ![w] = a]
      BY <3>1, <3>2
    <3>6. /\ auditDeliveries' \in 0 .. MaxAuditDeliveries /\ clock' \in Nat
          /\ rejected' \subseteq DOMAIN auditJobs
      BY <3>1 DEF AuditInv, TypeOK
    <3> HIDE DEF a
    <3> QED
      BY <3>4, <3>5, <3>6, OneAudit
  <2>3. CASE Reject(w)
    <3>1. audit[w].job \in DOMAIN auditJobs
      BY <1>4, <2>3 DEF Reject, AuditInv, TypeOK, AuditOf
    <3> QED
      BY <1>4, <2>3, <3>1 DEF Reject, AuditInv, TypeOK, AuditOf, NoAudit
  <2>4. CASE BeginWrite(w)
    <3>1. audit[w].job # 0
      BY <2>4 DEF BeginWrite, AuditInv, TypeOK
    <3>2. PICK n \in Nat : n = clock + 1
      BY DEF AuditInv, TypeOK
    <3> DEFINE a == [audit[w] EXCEPT !.stage = "writing", !.started = n]
    <3>3. a \in AuditOf /\ a.job # 0
      BY <1>4, <3>1, <3>2 DEF AuditOf
    <3>4. audit' = [audit EXCEPT ![w] = a]
      BY <2>4, <3>2 DEF BeginWrite
    <3>5. /\ auditDeliveries' \in 0 .. MaxAuditDeliveries /\ clock' \in Nat
          /\ rejected' \subseteq DOMAIN auditJobs
      BY <2>4, <3>2 DEF BeginWrite, AuditInv, TypeOK
    <3> HIDE DEF a
    <3> QED
      BY <3>3, <3>4, <3>5, OneAudit
  <2>5. CASE GiveUpTry(w)
    BY <1>4, <2>5 DEF GiveUpTry, AuditInv, TypeOK, AuditOf, NoAudit
  <2> QED
    BY <2>1, <2>2, <2>3, <2>4, <2>5
<1>6. TypeOK'
  BY <1>1, <1>2, <1>3, <1>5 DEF AuditInv, TypeOK, kbVars, RunIds
<1> QED
  BY <1>1, <1>6, AuditOnly DEF kbVars, tables

LEMMA CloseAuditInv ==
  ASSUME AuditInv, NEW j \in openAudits, CloseAudit(j)
  PROVE  AuditInv'
<1>1. /\ openAudits' \subseteq openAudits
      /\ UNCHANGED <<kbVars, sku, edits, auditJobs, auditDeliveries, audit, clock,
                     log, rejected>>
  BY DEF CloseAudit
<1>2. KBTypeOK'
  BY <1>1, StepInv, InvIngestion DEF kbVars, KBInv
<1>3. TypeOK'
  BY <1>1, <1>2 DEF AuditInv, TypeOK, kbVars, RunIds, AuditOf
<1> QED
  BY <1>1, <1>3, AuditOnly DEF kbVars, tables

LEMMA AuditNextInv == AuditInv /\ [Next]_vars => AuditInv'
<1> SUFFICES ASSUME AuditInv, [Next]_vars PROVE AuditInv'
  OBVIOUS
<1>1. CASE UNCHANGED vars
  <2>1. KBInv'
    BY <1>1, StepInv, InvIngestion DEF vars, kbVars
  <2>2. TypeOK'
    BY <1>1, <2>1 DEF vars, kbVars, auditVars, AuditInv, TypeOK, KBInv, RunIds, AuditOf
  <2> QED
    BY <1>1, <2>2, AuditOnly DEF vars, kbVars, auditVars, tables
<1>2. CASE Ingest
  BY <1>2, IngestInv
<1>3. ASSUME NEW w \in Workers, StoreLaw(w)
      PROVE  AuditInv'
  BY <1>3, StoreLawInv
<1>4. ASSUME NEW w \in Workers, AuditStep(w)
      PROVE  AuditInv'
  BY <1>4, AuditStepInv, CommitWriteInv DEF AuditStep
<1>5. ASSUME NEW s \in Skus, UpsertSku(s) \/ UpdateSku(s) \/ DeleteSku(s)
      PROVE  AuditInv'
  BY <1>5, EditInv
<1>6. ASSUME NEW s \in Skus, SubmitAudit(s)
      PROVE  AuditInv'
  BY <1>6, SubmitAuditInv
<1>7. ASSUME NEW j \in openAudits, CloseAudit(j)
      PROVE  AuditInv'
  BY <1>7, CloseAuditInv
<1> QED
  BY <1>1, <1>2, <1>3, <1>4, <1>5, <1>6, <1>7 DEF Next

LEMMA AuditInvariant == Spec => []AuditInv
  BY AuditInitInv, AuditNextInv, PTL DEF Spec

\* Types hold in every state: an audit under way has a job, and runs, their
\* numbers and their log entries stay in step.
THEOREM AuditTypeCorrect == Spec => []TypeOK
<1>1. AuditInv => TypeOK
  BY DEF AuditInv
<1> QED
  BY <1>1, AuditInvariant, PTL

\* Every generated rate keeps a resolvable source, for any number of workers,
\* tenants, laws, chunks and SKUs: no sequence of ingestions, edits and
\* audits leaves a SKU with rates whose vector_id is NULL, is not the chunk
\* its run cites, or refers to a row that is gone.
THEOREM EveryRateResolvable == Spec => []RatesResolvable
  BY AuditInvariant, InvImpliesResolvable, PTL

\* The audits do not disturb the chunks: a stored law is chunked by its text
\* in every state of the ingestion and the audits together.
THEOREM ChunksAreTheTextAudited == Spec => []ChunksMatchText
<1>1. AuditInv => ChunksMatchText
  BY DEF AuditInv
<1> QED
  BY <1>1, AuditInvariant, PTL

-----------------------------------------------------------------------------
(* What GET explain/artifact/latest returns.                               *)

\* The record of an audit after a step of its worker.
LEMMA AuditAfter ==
  ASSUME AuditInv, NEW w \in Workers, AuditStep(w)
  PROVE  \E a :
    /\ audit' = [audit EXCEPT ![w] = a] /\ clock' \in {clock, clock + 1}
    /\ a.stage = "writing" =>
         audit[w].stage = "answered" /\ a.started = clock + 1 /\ clock' = clock + 1
<1> DEFINE Goal(a) ==
    /\ audit' = [audit EXCEPT ![w] = a] /\ clock' \in {clock, clock + 1}
    /\ a.stage = "writing" =>
         audit[w].stage = "answered" /\ a.started = clock + 1 /\ clock' = clock + 1
<1>0. audit \in [Workers -> AuditOf] /\ audit[w] \in AuditOf
  BY DEF AuditInv, TypeOK
<1>1. ASSUME NEW j \in openAudits, LoadSku(w, j)
      PROVE  \E a : Goal(a)
  <2>1. PICK a : a = [audit[w] EXCEPT !.stage = "loaded", !.job = j]
    OBVIOUS
  <2>2. audit' = [audit EXCEPT ![w] = a] /\ clock' = clock
    BY <1>0, <1>1, <2>1 DEF LoadSku
  <2>3. a.stage = "loaded"
    BY <1>0, <2>1 DEF AuditOf
  <2>4. Goal(a)
    BY <2>2, <2>3
  <2> QED BY <2>4
<1>2. CASE Retrieve(w)
  <2>1. PICK c \in chunk :
          /\ audit' = [audit EXCEPT ![w].stage = "answered", ![w].chunk = c.id,
                                    ![w].text = c.text]
          /\ UNCHANGED clock
    BY <1>2 DEF Retrieve
  <2>2. PICK a : a = [audit[w] EXCEPT !.stage = "answered", !.chunk = c.id,
                                      !.text = c.text]
    OBVIOUS
  <2>3. audit' = [audit EXCEPT ![w] = a]
    BY <1>0, <2>1, <2>2
  <2>4. a.stage = "answered"
    BY <1>0, <2>2 DEF AuditOf
  <2>5. Goal(a)
    BY <2>1, <2>3, <2>4
  <2> QED BY <2>5
<1>3. CASE Reject(w) \/ CommitWrite(w) \/ GiveUpTry(w)
  <2>1. Goal(NoAudit)
    BY <1>3 DEF Reject, CommitWrite, GiveUpTry, NoAudit
  <2> QED BY <2>1
<1>4. CASE BeginWrite(w)
  <2>1. PICK n : n = clock + 1
    OBVIOUS
  <2>2. PICK a : a = [audit[w] EXCEPT !.stage = "writing", !.started = n]
    OBVIOUS
  <2>3. audit' = [audit EXCEPT ![w] = a]
    BY <1>0, <1>4, <2>1, <2>2 DEF BeginWrite
  <2>4. a.stage = "writing" /\ a.started = n
    BY <1>0, <2>2 DEF AuditOf
  <2>5. clock' = n /\ audit[w].stage = "answered"
    BY <1>4, <2>1 DEF BeginWrite
  <2>6. Goal(a)
    BY <2>1, <2>3, <2>4, <2>5
  <2> QED BY <2>6
<1> QED BY <1>1, <1>2, <1>3, <1>4 DEF AuditStep

\* Only CommitWrite changes the runs and the rates; only the audits their clock.
LEMMA RunsKept ==
  ASSUME AuditInv, [Next]_vars, \A w \in Workers : ~ CommitWrite(w)
  PROVE  /\ runs' = runs /\ \A s \in Skus : sku'[s].rates = sku[s].rates
         /\ (\E w \in Workers : AuditStep(w)) \/ UNCHANGED <<audit, clock>>
<1>0. \A s \in Skus : sku[s] \in SkuRow
  BY DEF AuditInv, TypeOK
<1>1. CASE UNCHANGED vars
  BY <1>1 DEF vars, kbVars, auditVars
<1>2. CASE Ingest
  BY <1>2 DEF Ingest, IngestionStep, Submit, Embed, Abandon, Refuse, Close, auditVars
<1>3. ASSUME NEW w \in Workers, StoreLaw(w)
      PROVE  runs' = runs /\ UNCHANGED <<audit, clock>> /\ \A s \in Skus : sku'[s].rates = sku[s].rates
  <2>1. runs' = runs /\ UNCHANGED <<audit, clock>>
    BY <1>3 DEF StoreLaw, Store
  <2>2. \A s \in Skus : sku'[s].rates = sku[s].rates
    BY <1>0, <1>3 DEF StoreLaw, SkuRow
  <2> QED BY <2>1, <2>2
<1>4. ASSUME NEW w \in Workers, AuditStep(w)
      PROVE  runs' = runs /\ \A s \in Skus : sku'[s].rates = sku[s].rates
  BY <1>4 DEF AuditStep, LoadSku, Retrieve, Reject, BeginWrite, GiveUpTry, kbVars
<1>5. ASSUME NEW t \in Skus, UpsertSku(t) \/ UpdateSku(t) \/ DeleteSku(t)
      PROVE  runs' = runs /\ UNCHANGED <<audit, clock>> /\ \A s \in Skus : sku'[s].rates = sku[s].rates
  <2>1. PICK st \in {"active", "deleted"} : sku' = [sku EXCEPT ![t].status = st]
    BY <1>5 DEF UpsertSku, UpdateSku, DeleteSku
  <2>2. \A s \in Skus : sku'[s].rates = sku[s].rates
    BY <1>0, <2>1 DEF SkuRow, AuditInv, TypeOK
  <2> QED BY <1>5, <2>2 DEF UpsertSku, UpdateSku, DeleteSku, kbVars
<1>6. CASE (\E s \in Skus : SubmitAudit(s)) \/ \E j \in openAudits : CloseAudit(j)
  BY <1>6 DEF SubmitAudit, CloseAudit, kbVars
<1> QED BY <1>1, <1>2, <1>3, <1>4, <1>5, <1>6 DEF Next

\* Runs have their own number and began at their own time, which no audit that
\* is about to commit has; a SKU has the rates of its last run.
RunsOrdered ==
  /\ \A r \in runs : r.sku \in Skus /\ r.started \in 1 .. clock
  /\ \A r, q \in runs : (r.id = q.id \/ r.started = q.started) => r = q
  /\ \A r \in runs : r.id <= sku[r.sku].rates
  /\ \A w \in Workers : audit[w].stage = "writing" =>
       audit[w].started \in 1 .. clock /\ \A r \in runs : r.started # audit[w].started
  /\ \A v, w \in Workers :
       v # w /\ audit[v].stage = "writing" /\ audit[w].stage = "writing" =>
         audit[v].started # audit[w].started

LEMMA RunNumbers ==
  ASSUME AuditInv
  PROVE  /\ Cardinality(runs) \in Nat
         /\ \A r \in runs : r.id \in 1 .. Cardinality(runs)
BY FS_CardinalityType DEF AuditInv, TypeOK, RunIds

\* A step that leaves the runs alone.
LEMMA OrderKept ==
  ASSUME AuditInv, RunsOrdered, runs' = runs,
         \A s \in Skus : sku'[s].rates = sku[s].rates,
         (\E w \in Workers : AuditStep(w)) \/ UNCHANGED <<audit, clock>>
  PROVE  RunsOrdered'
<1>1. CASE UNCHANGED <<audit, clock>>
  BY <1>1 DEF RunsOrdered
<1>2. ASSUME NEW w \in Workers, AuditStep(w)
      PROVE  RunsOrdered'
  <2>1. PICK a :
          /\ audit' = [audit EXCEPT ![w] = a] /\ clock' \in {clock, clock + 1}
          /\ a.stage = "writing" => a.started = clock + 1 /\ clock' = clock + 1
    BY <1>2, AuditAfter
  <2>2. clock \in Nat /\ \A v \in Workers : audit'[v] = IF v = w THEN a ELSE audit[v]
    BY <2>1 DEF AuditInv, TypeOK
  <2>3. \A r \in runs : r.started \in 1 .. clock'
    BY <2>1, <2>2 DEF RunsOrdered
  <2>4. \A v \in Workers : audit'[v].stage = "writing" =>
          audit'[v].started \in 1 .. clock' /\ \A r \in runs : r.started # audit'[v].started
    <3> SUFFICES ASSUME NEW v \in Workers, audit'[v].stage = "writing"
                 PROVE  /\ audit'[v].started \in 1 .. clock'
                        /\ \A r \in runs : r.started # audit'[v].started
      OBVIOUS
    <3>1. CASE v = w
      BY <2>1, <2>2, <3>1 DEF RunsOrdered
    <3>2. CASE v # w
      BY <2>1, <2>2, <3>2 DEF RunsOrdered
    <3> QED BY <3>1, <3>2
  <2>5. \A v, u \in Workers :
          v # u /\ audit'[v].stage = "writing" /\ audit'[u].stage = "writing" =>
            audit'[v].started # audit'[u].started
    BY <2>1, <2>2 DEF RunsOrdered
  <2> QED BY <2>3, <2>4, <2>5 DEF RunsOrdered
<1> QED BY <1>1, <1>2

\* An audit commits: its run is the last of its SKU.
LEMMA OrderCommitted ==
  ASSUME AuditInv, RunsOrdered, NEW w \in Workers, CommitWrite(w)
  PROVE  RunsOrdered'
<1> PICK r : r = Run(w)
  OBVIOUS
<1>1. /\ audit[w].stage = "writing" /\ runs' = runs \cup {r}
      /\ sku' = [sku EXCEPT ![r.sku].rates = r.id, ![r.sku].vector = r.chunk]
      /\ audit' = [audit EXCEPT ![w] = NoAudit] /\ clock' = clock
  BY DEF CommitWrite
<1>2. /\ r.id = Cardinality(runs) + 1 /\ r.sku = auditJobs[audit[w].job]
      /\ r.started = audit[w].started
  BY DEF Run
<1>3. r.sku \in Skus
  <2>1. audit[w].job \in DOMAIN auditJobs
    BY <1>1 DEF AuditInv, TypeOK, AuditOf
  <2> QED BY <1>2, <2>1, SeqElement DEF AuditInv, TypeOK
<1>4. Cardinality(runs) \in Nat /\ \A q \in runs : q.id < r.id /\ q.id \in Nat
  BY <1>2, RunNumbers
<1>5. r.started \in 1 .. clock /\ \A q \in runs : q.started # r.started
  BY <1>1, <1>2 DEF RunsOrdered
<1>6. \A s \in Skus : sku'[s].rates = IF s = r.sku THEN r.id ELSE sku[s].rates
  <2>1. \A s \in Skus : sku[s] \in SkuRow
    BY DEF AuditInv, TypeOK
  <2>2. PICK row : row = [sku[r.sku] EXCEPT !.rates = r.id, !.vector = r.chunk]
    OBVIOUS
  <2>3. sku' = [sku EXCEPT ![r.sku] = row]
    BY <1>1, <1>3, <2>2 DEF AuditInv, TypeOK
  <2>4. row.rates = r.id
    BY <1>3, <2>1, <2>2 DEF SkuRow
  <2> QED BY <1>3, <2>3, <2>4 DEF AuditInv, TypeOK
<1>7. /\ \A v \in Workers : v # w => audit'[v] = audit[v]
      /\ audit'[w].stage = "idle"
  BY <1>1 DEF AuditInv, TypeOK, NoAudit
<1>8. \A q \in runs' : q.sku \in Skus /\ q.started \in 1 .. clock'
  BY <1>1, <1>3, <1>5 DEF RunsOrdered
<1>9. \A p, q \in runs' : (p.id = q.id \/ p.started = q.started) => p = q
  BY <1>1, <1>4, <1>5 DEF RunsOrdered
<1>10. \A q \in runs' : q.id <= sku'[q.sku].rates
  <2>1. r.id <= sku'[r.sku].rates
    BY <1>3, <1>4, <1>2, <1>6
  <2>2. ASSUME NEW q \in runs PROVE q.id <= sku'[q.sku].rates
    BY <1>2, <1>4, <1>6 DEF RunsOrdered
  <2> QED BY <1>1, <2>1, <2>2
<1>11. \A v \in Workers : audit'[v].stage = "writing" =>
         audit'[v].started \in 1 .. clock' /\ \A q \in runs' : q.started # audit'[v].started
  BY <1>1, <1>2, <1>7 DEF RunsOrdered
<1>12. \A v, u \in Workers :
         v # u /\ audit'[v].stage = "writing" /\ audit'[u].stage = "writing" =>
           audit'[v].started # audit'[u].started
  BY <1>7 DEF RunsOrdered
<1> QED BY <1>8, <1>9, <1>10, <1>11, <1>12 DEF RunsOrdered

LEMMA OrderInvariant == Spec => [](AuditInv /\ RunsOrdered)
<1>1. Init => RunsOrdered
  BY DEF Init, KBInit, RunsOrdered, NoAudit
<1>2. AuditInv /\ RunsOrdered /\ [Next]_vars => RunsOrdered'
  BY RunsKept, OrderKept, OrderCommitted
<1> QED BY <1>1, <1>2, AuditInitInv, AuditNextInv, PTL DEF Spec

\* The latest artifact is the run of the SKU's rates unless two audits of the
\* SKU overlapped (explain_latest_artifact, audit/mod.rs:330).
THEOREM LatestArtifactIsCurrent == Spec => []ReplayIsCurrent
<1>1. AuditInv /\ RunsOrdered => ReplayIsCurrent
  <2> SUFFICES ASSUME AuditInv, RunsOrdered, NEW s \in Skus, NEW r \in LatestArtifact(s),
                      sku[s].rates # r.id
               PROVE  \E q \in runs : q.sku = s /\ q.started < r.started /\ r.id < q.id
    BY DEF ReplayIsCurrent
  <2>1. r \in runs /\ r.sku = s /\ \A q \in runs : q.sku = s => q.started <= r.started
    BY DEF LatestArtifact
  <2>2. r.id \in Nat \ {0} /\ r.id <= sku[s].rates
    BY <2>1, RunNumbers DEF RunsOrdered
  <2>3. sku[s].rates \in Nat
    BY DEF AuditInv, TypeOK, SkuRow
  <2>4. PICK q \in runs : q.id = sku[s].rates /\ q.sku = s
    BY <2>2, <2>3 DEF AuditInv, RatesHaveRuns
  <2>5. q.started # r.started /\ q.started \in Nat /\ r.started \in Nat
    BY <2>1, <2>4 DEF RunsOrdered
  <2> QED BY <2>1, <2>2, <2>3, <2>4, <2>5
<1> QED BY <1>1, OrderInvariant, PTL

-----------------------------------------------------------------------------
(* Ingestion and audits keep the promise of CitableLaws.                   *)

\* Steps that store nothing.
LEMMA NothingStored ==
  ASSUME [Next]_vars, \A w \in Workers : ~ StoreLaw(w)
  PROVE  /\ UNCHANGED tables
         /\ (runs' = runs /\ audit' = audit) \/ \E w \in Workers : AuditStep(w)
<1>1. CASE UNCHANGED vars
  BY <1>1 DEF vars, kbVars, auditVars
<1>2. CASE Ingest
  BY <1>2 DEF Ingest, IngestionStep, Submit, Embed, Abandon, Refuse, Close, auditVars
<1>3. ASSUME NEW w \in Workers, AuditStep(w)
      PROVE  UNCHANGED tables
  BY <1>3 DEF AuditStep, LoadSku, Retrieve, Reject, BeginWrite, CommitWrite, GiveUpTry, kbVars
<1>4. CASE \/ \E s \in Skus : UpsertSku(s) \/ UpdateSku(s) \/ DeleteSku(s) \/ SubmitAudit(s)
           \/ \E j \in openAudits : CloseAudit(j)
  BY <1>4 DEF UpsertSku, UpdateSku, DeleteSku, SubmitAudit, CloseAudit, kbVars
<1> QED BY <1>1, <1>2, <1>3, <1>4 DEF Next

LEMMA CitesStep ==
  ASSUME AuditInv, IdsOnce, [Next]_vars
  PROVE  IdsOnce' /\ [Promise!Next]_Promise!vars
<1>1. ASSUME NEW w \in Workers, StoreLaw(w)
      PROVE  IdsOnce' /\ Promise!Next
  <2>1. Store(w)
    BY <1>1 DEF StoreLaw
  <2> QED BY <2>1, StoreReplaces, InvIngestion DEF Promise!Next
<1>2. ASSUME NEW w \in Workers, CommitWrite(w)
      PROVE  IdsOnce' /\ Promise!Next
  <2>1. /\ audit[w].chunk \in Ids(chunk) /\ runs' = runs \cup {Run(w)}
        /\ UNCHANGED <<kb, chunk, lastChunk>>
    BY <1>2 DEF CommitWrite, tables
  <2>2. PICK c \in chunk : c.id = audit[w].chunk
    BY <2>1 DEF Ids
  <2>3. Run(w).chunk = c.id
    BY <2>2 DEF Run
  <2>4. Cited' = Cited \cup {c.id}
    BY <2>1, <2>3 DEF Cited
  <2>5. c.id \in 1 .. lastChunk
    BY DEF IdsOnce
  <2>6. Promise!Cite(c.id)
    BY <2>1, <2>4 DEF Promise!Cite
  <2> QED BY <2>1, <2>5, <2>6 DEF IdsOnce, Promise!Next
<1>3. CASE UNCHANGED <<tables, runs>>
  <2>1. UNCHANGED <<kb, chunk, lastChunk>> /\ Cited' = Cited
    BY <1>3 DEF tables, Cited
  <2> QED BY <2>1 DEF IdsOnce, Promise!vars
<1>4. ASSUME NEW w \in Workers, AuditStep(w), ~ CommitWrite(w)
      PROVE  UNCHANGED <<tables, runs>>
  BY <1>4 DEF AuditStep, LoadSku, Retrieve, Reject, BeginWrite, GiveUpTry, kbVars
<1> QED BY <1>1, <1>2, <1>3, <1>4, NothingStored

\* Ingestion and audits together implement CitableLaws: whatever is stored, a
\* law is replaced as a whole and a cited chunk stays where it is, with the
\* identity it had (pipeline/mod.rs:312-335, audit/mod.rs:178-249).
THEOREM CitationsAreKept == Spec => CitationsKept
<1>1. Init => IdsOnce /\ Promise!Init
  <2> SUFFICES ASSUME Init PROVE IdsOnce /\ Promise!Init
    OBVIOUS
  <2>1. chunk = {} /\ lastChunk = 0 /\ runs = {} /\ kb = [d \in Docs |-> [version |-> 0]]
    BY DEF Init, KBInit, NoLaw
  <2>2. Cited = {} /\ 1 .. lastChunk = {}
    BY <2>1 DEF Cited
  <2> QED BY <2>1, <2>2 DEF IdsOnce, Promise!Init
<1>2. AuditInv /\ IdsOnce /\ [Next]_vars => IdsOnce' /\ [Promise!Next]_Promise!vars
  BY CitesStep
<1> QED BY <1>1, <1>2, AuditInvariant, PTL DEF Spec, CitationsKept, Promise!Spec
=============================================================================
