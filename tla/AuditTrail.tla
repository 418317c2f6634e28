----------------------------- MODULE AuditTrail -----------------------------
(***************************************************************************)
(* The audits: AuditService::process_audit_job (services/audit/mod.rs) and *)
(* the inventory it writes to, on top of KnowledgeBase, whose chunks it    *)
(* cites.  An audit reads the SKU in one transaction, searches the chunks  *)
(* and asks the model without one, and writes its run, the SKU's rates and *)
(* its log entry in a second one.  Between the three the SKU may be        *)
(* edited, the chunks rewritten and the same job handled elsewhere.  What  *)
(* the model answers is abstracted: rates are named by their run.          *)
(***************************************************************************)
EXTENDS KnowledgeBase

CONSTANTS
  Company,          \* the tenant whose SKUs are audited
  Skus,             \* its sku_id values
  MaxAudits,        \* bound: audit jobs published
  MaxAuditDeliveries, \* bound: deliveries of audit jobs to workers
  MaxEdits          \* bound: edits of the inventory

ASSUME AuditAssumption ==
  /\ Company \in Tenants
  /\ MaxAudits \in Nat /\ MaxAuditDeliveries \in Nat /\ MaxEdits \in Nat

VARIABLES
  sku,             \* inventory_transition, see NoSku
  edits,           \* edits of the inventory so far
  auditJobs,       \* audit jobs published: their SKU
  openAudits,      \* audit jobs not acknowledged yet
  auditDeliveries, \* deliveries so far
  audit,           \* worker: the audit it is at, see NoAudit
  clock,           \* write transactions begun: the order of their NOW()
  log,             \* fiscal_audit_log: runs with a RATE_GENERATED event
  rejected         \* audit jobs with an AUDIT_LOW_CONFIDENCE event

auditVars == <<sku, edits, auditJobs, openAudits, auditDeliveries, audit, clock,
               log, rejected>>
vars      == <<kbVars, auditVars>>

\* A row of the inventory: whether it is there and active, the run that
\* produced its reform_taxes (0: none) and its vector_id (0: NULL).
NoSku   == [status |-> "absent", rates |-> 0, vector |-> 0]
NoAudit == [stage |-> "idle", job |-> 0, chunk |-> 0, text |-> NoLaw,
            started |-> 0]

Init ==
  /\ KBInit
  /\ sku = [s \in Skus |-> NoSku] /\ edits = 0
  /\ auditJobs = <<>> /\ openAudits = {} /\ auditDeliveries = 0
  /\ audit = [w \in Workers |-> NoAudit]
  /\ clock = 0 /\ log = {} /\ rejected = {}

-----------------------------------------------------------------------------
\* POST creates a SKU, overwrites it or brings a deleted one back; the rates
\* of the last audit stay.
UpsertSku(s) ==
  /\ edits < MaxEdits /\ edits' = edits + 1
  /\ sku' = [sku EXCEPT ![s].status = "active"]
  /\ UNCHANGED <<kbVars, auditJobs, openAudits, auditDeliveries, audit, clock,
                 log, rejected>>

\* PUT overwrites the fields it is given, is_active among them.
UpdateSku(s) ==
  /\ edits < MaxEdits /\ edits' = edits + 1
  /\ sku[s].status # "absent"
  /\ \E st \in {"active", "deleted"} : sku' = [sku EXCEPT ![s].status = st]
  /\ UNCHANGED <<kbVars, auditJobs, openAudits, auditDeliveries, audit, clock,
                 log, rejected>>

DeleteSku(s) ==
  /\ edits < MaxEdits /\ edits' = edits + 1
  /\ sku[s].status = "active"
  /\ sku' = [sku EXCEPT ![s].status = "deleted"]
  /\ UNCHANGED <<kbVars, auditJobs, openAudits, auditDeliveries, audit, clock,
                 log, rejected>>

\* A stored law may drop chunk rows: a vector_id that refers to one is set to
\* NULL (ON DELETE SET NULL).
StoreLaw(w) ==
  /\ Store(w)
  /\ sku' = [s \in Skus |->
       IF sku[s].vector \in Ids(chunk) \ Ids(chunk')
         THEN [sku[s] EXCEPT !.vector = 0] ELSE sku[s]]
  /\ UNCHANGED <<edits, auditJobs, openAudits, auditDeliveries, audit, clock,
                 log, rejected>>

-----------------------------------------------------------------------------
SubmitAudit(s) ==
  /\ Len(auditJobs) < MaxAudits
  /\ auditJobs' = Append(auditJobs, s)
  /\ openAudits' = openAudits \cup {Len(auditJobs) + 1}
  /\ UNCHANGED <<kbVars, sku, edits, auditDeliveries, audit, clock, log, rejected>>

\* First transaction: the job is delivered and its SKU is there and active.
LoadSku(w, j) ==
  /\ audit[w].stage = "idle" /\ j \in openAudits
  /\ auditDeliveries < MaxAuditDeliveries
  /\ auditDeliveries' = auditDeliveries + 1
  /\ sku[auditJobs[j]].status = "active"
  /\ audit' = [audit EXCEPT ![w].stage = "loaded", ![w].job = j]
  /\ UNCHANGED <<kbVars, sku, edits, auditJobs, openAudits, clock, log, rejected>>

\* The search returns chunks of the company and of shared laws, nearest first;
\* the audit cites the first one with the text it had then.
Retrieve(w) ==
  /\ audit[w].stage = "loaded"
  /\ \E c \in chunk :
       /\ c.doc[1] \in {Company, Shared}
       /\ audit' = [audit EXCEPT ![w].stage = "answered", ![w].chunk = c.id,
                                 ![w].text = c.text]
  /\ UNCHANGED <<kbVars, sku, edits, auditJobs, openAudits, auditDeliveries,
                 clock, log, rejected>>

\* The confidence is too low: an event is logged and the job goes to the
\* dead-letter stream (NonRetryable).
Reject(w) ==
  /\ audit[w].stage = "answered"
  /\ rejected' = rejected \cup {audit[w].job}
  /\ audit' = [audit EXCEPT ![w] = NoAudit]
  /\ UNCHANGED <<kbVars, sku, edits, auditJobs, openAudits, auditDeliveries,
                 clock, log>>

\* Second transaction: NOW() is the time it begins.
BeginWrite(w) ==
  /\ audit[w].stage = "answered"
  /\ clock' = clock + 1
  /\ audit' = [audit EXCEPT ![w].stage = "writing", ![w].started = clock + 1]
  /\ UNCHANGED <<kbVars, sku, edits, auditJobs, openAudits, auditDeliveries,
                 log, rejected>>

\* The run, the SKU's rates and the log entry are committed together, if the
\* chunk is still there.  The SKU may have been edited or deleted meanwhile.
\* The run keeps the text of the chunk (source_snapshot) but no content_version.
Run(w) ==
  [id |-> Cardinality(runs) + 1, job |-> audit[w].job,
   sku |-> auditJobs[audit[w].job], chunk |-> audit[w].chunk,
   text |-> audit[w].text, started |-> audit[w].started]

\* Mutant: no log entry is written.
CommitWriteNoLog(w) ==
  /\ audit[w].stage = "writing"
  /\ audit[w].chunk \in Ids(chunk)
  /\ runs' = runs \cup {Run(w)}
  /\ sku' = [sku EXCEPT ![Run(w).sku].rates = Run(w).id,
                        ![Run(w).sku].vector = Run(w).chunk]
  /\ audit' = [audit EXCEPT ![w] = NoAudit]
  /\ UNCHANGED <<ingestion, tables, edits, auditJobs, openAudits,
                 auditDeliveries, clock, log, rejected>>

CommitWrite(w) ==
  /\ audit[w].stage = "writing"
  /\ audit[w].chunk \in Ids(chunk)
  /\ runs' = runs \cup {Run(w)}
  /\ sku' = [sku EXCEPT ![Run(w).sku].rates = Run(w).id,
                        ![Run(w).sku].vector = Run(w).chunk]
  /\ log' = log \cup {Run(w).id}
  /\ audit' = [audit EXCEPT ![w] = NoAudit]
  /\ UNCHANGED <<ingestion, tables, edits, auditJobs, openAudits,
                 auditDeliveries, clock, rejected>>

\* The worker dies, a call or a transaction fails, the answer does not
\* validate, or there is nothing to cite: the job will be tried again.
GiveUpTry(w) ==
  /\ audit[w].stage # "idle"
  /\ audit' = [audit EXCEPT ![w] = NoAudit]
  /\ UNCHANGED <<kbVars, sku, edits, auditJobs, openAudits, auditDeliveries,
                 clock, log, rejected>>

\* The queue acknowledges a job that completed or was rejected.
CloseAudit(j) ==
  /\ j \in openAudits
  /\ j \in rejected \/ \E r \in runs : r.job = j
  /\ openAudits' = openAudits \ {j}
  /\ UNCHANGED <<kbVars, sku, edits, auditJobs, auditDeliveries, audit, clock,
                 log, rejected>>

Ingest == IngestionStep /\ UNCHANGED auditVars

AuditStep(w) ==
  \/ \E j \in openAudits : LoadSku(w, j)
  \/ Retrieve(w) \/ Reject(w) \/ BeginWrite(w) \/ CommitWrite(w) \/ GiveUpTry(w)

Next ==
  \/ Ingest
  \/ \E w \in Workers : StoreLaw(w) \/ AuditStep(w)
  \/ \E s \in Skus : UpsertSku(s) \/ UpdateSku(s) \/ DeleteSku(s) \/ SubmitAudit(s)
  \/ \E j \in openAudits : CloseAudit(j)

Spec == Init /\ [][Next]_vars

-----------------------------------------------------------------------------
RunIds == {r.id : r \in runs}

SkuRow  == [status : {"absent", "active", "deleted"}, rates : Nat, vector : Nat]
AuditOf == [stage : {"idle", "loaded", "answered", "writing"},
            job : {0} \cup DOMAIN auditJobs, chunk : Nat,
            text : {NoLaw} \cup Texts, started : Nat]

\* Type correctness; an audit that is under way has a job, and the runs are
\* numbered and each has its log entry.
TypeOK ==
  /\ KBTypeOK
  /\ sku \in [Skus -> SkuRow] /\ edits \in 0 .. MaxEdits
  /\ auditJobs \in Seq(Skus) /\ openAudits \cup rejected \subseteq DOMAIN auditJobs
  /\ auditDeliveries \in 0 .. MaxAuditDeliveries /\ clock \in Nat
  /\ audit \in [Workers -> AuditOf]
  /\ \A w \in Workers : audit[w].stage # "idle" => audit[w].job # 0
  /\ IsFiniteSet(runs) /\ RunIds = 1 .. Cardinality(runs) /\ log = RunIds

\* Every generated rate has a resolvable source: whatever laws are stored
\* after the audit, the SKU's vector_id is the chunk its run cites, and that
\* row exists and belongs to a stored law (docs/testing-quality.md:32).
RatesResolvable ==
  \A s \in Skus : sku[s].rates # 0 =>
    \E r \in runs :
      /\ r.id = sku[s].rates /\ r.sku = s
      /\ sku[s].vector = r.chunk
      /\ \E c \in chunk : c.id = r.chunk /\ kb[c.doc] # NoLaw

\* Mutant: the runs are ordered the other way round.
LatestArtifactFirst(s) ==
  {r \in runs : r.sku = s /\ \A q \in runs : q.sku = s => q.started >= r.started}

\* What GET explain/artifact/latest returns: the run that began last.
LatestArtifact(s) ==
  {r \in runs : r.sku = s /\ \A q \in runs : q.sku = s => q.started <= r.started}

\* What GET explain returns: the SKU's rates with the text its vector_id has
\* now, if the SKU is active and has a vector_id.
Explained(s) ==
  {[rates |-> sku[s].rates, text |-> c.text] :
     c \in {k \in chunk : k.id = sku[s].vector /\ sku[s].status = "active"}}

\* The latest artifact is the one that produced the SKU's rates, and only two
\* audits of the SKU whose transactions overlapped can part the two, never an
\* edit, a repeated job or a crash (docs/backlog.md:107: "Audit replay
\* reproduces last generated rate context").
ReplayIsCurrent ==
  \A s \in Skus : \A r \in LatestArtifact(s) :
    \/ sku[s].rates = r.id
    \/ \E q \in runs : q.sku = s /\ q.started < r.started /\ r.id < q.id

\* GET explain shows the rates together with the text they were generated from
\* (docs/backlog.md:110: "explainability data is complete, accurate, and
\* auditable").
ExplainsRates ==
  \A s \in Skus : \A e \in Explained(s) : \A r \in runs :
    r.id = e.rates => e.text = r.text
=============================================================================
