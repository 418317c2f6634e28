--------------------------- MODULE KnowledgeBase ---------------------------
(***************************************************************************)
(* Ingestion of legislation: IngestionService::process_job                 *)
(* (services/pipeline/mod.rs) on the tables fiscal_knowledge_base and      *)
(* fiscal_knowledge_chunk.  A job is delivered at least once and in any    *)
(* order, and several workers may handle it at once (JobQueue).  A worker  *)
(* embeds the chunks of the text first and then stores everything in one   *)
(* transaction; the upsert of the law's row locks it, so the transactions  *)
(* on one law follow each other.  A text is its revision and the number of *)
(* chunks chunk_text makes of it.  Foreign keys and NOT NULL columns are   *)
(* part of the program: a transaction they refuse changes nothing.         *)
(***************************************************************************)
EXTENDS Integers, FiniteSets, Sequences

CONSTANTS
  Workers,        \* worker processes
  Tenants,        \* companies
  Shared,         \* the nil company_id of shared legislation
  Laws,           \* law_ref values
  Revisions,      \* revisions a law goes through
  MaxChunks,      \* bound: chunks of a text
  MaxJobs,        \* bound: ingestion jobs published
  MaxDeliveries   \* bound: deliveries of ingestion jobs to workers

ASSUME KnowledgeAssumption ==
  /\ Shared \notin Tenants
  /\ MaxChunks \in Nat /\ MaxJobs \in Nat /\ MaxDeliveries \in Nat

Docs  == (Tenants \cup {Shared}) \X Laws
Texts == [revision : Revisions, chunks : 0 .. MaxChunks]
NoLaw == [version |-> 0]

VARIABLES
  jobs,       \* ingestion jobs published: document and text
  open,       \* jobs not acknowledged yet
  deliveries, \* deliveries so far
  embedded,   \* worker: the job whose chunks it has embedded, 0 if none
  kb,         \* fiscal_knowledge_base: version and text of a document
  chunk,      \* fiscal_knowledge_chunk: rows with id, document, index, text
  lastChunk,  \* chunk ids handed out
  runs,       \* audit_explainability_run: its rows cite chunks (RESTRICT)
  stored,     \* history: jobs whose transaction committed
  refused     \* history: jobs whose transaction the schema refused

ingestion == <<jobs, open, deliveries, embedded, stored, refused>>
tables    == <<kb, chunk, lastChunk>>
kbVars    == <<ingestion, tables, runs>>

Rows(d) == {c \in chunk : c.doc = d}
Cited   == {r.chunk : r \in runs}
Ids(S)  == {c.id : c \in S}

KBInit ==
  /\ jobs = <<>> /\ open = {} /\ deliveries = 0
  /\ embedded = [w \in Workers |-> 0]
  /\ kb = [d \in Docs |-> NoLaw]
  /\ chunk = {} /\ lastChunk = 0
  /\ runs = {} /\ stored = {} /\ refused = {}

-----------------------------------------------------------------------------
Submit(d, t) ==
  /\ Len(jobs) < MaxJobs
  /\ jobs' = Append(jobs, [doc |-> d, text |-> t])
  /\ open' = open \cup {Len(jobs) + 1}
  /\ UNCHANGED <<deliveries, embedded, stored, refused, tables, runs>>

\* A job is delivered, and embed_batch returned a vector for every chunk.
Embed(w, j) ==
  /\ embedded[w] = 0 /\ j \in open
  /\ deliveries < MaxDeliveries
  /\ deliveries' = deliveries + 1
  /\ embedded' = [embedded EXCEPT ![w] = j]
  /\ UNCHANGED <<jobs, open, stored, refused, tables, runs>>

\* The worker dies or the transaction fails on its connection.
Abandon(w) ==
  /\ embedded[w] # 0
  /\ embedded' = [embedded EXCEPT ![w] = 0]
  /\ UNCHANGED <<jobs, open, deliveries, stored, refused, tables, runs>>

\* Mutant: one row too many survives.
StaleRowsOffByOne(d, t) == {c \in Rows(d) : c.index > t.chunks}

\* Rows beyond the new number of chunks, which the transaction deletes.
StaleRows(d, t) == {c \in Rows(d) : c.index >= t.chunks}

\* Mutant: nothing protects the rows that audit runs cite.
RefusedUnrestricted(j) == jobs[j].doc[1] = Shared

\* The statements the schema refuses: a row cited by an audit run is not
\* deleted, and a shared law has no company for its chunks and its log entry.
Refused(j) ==
  \/ jobs[j].doc[1] = Shared
  \/ Ids(StaleRows(jobs[j].doc, jobs[j].text)) \cap Cited # {}

\* The upsert of the chunks 0 .. t.chunks - 1 keeps the ids of the rows that
\* exist and gives the others new ones.
Missing(d, t) == {i \in 0 .. t.chunks - 1 : \A c \in Rows(d) : c.index # i}
NewRow(d, t, i) ==
  [id |-> lastChunk + Cardinality({m \in Missing(d, t) : m <= i}),
   doc |-> d, index |-> i, text |-> t]

\* Mutant: the rows are deleted and inserted anew.
UpsertedAnew(d, t) ==
  {[NewRow(d, t, i) EXCEPT !.id = lastChunk + 1 + i] : i \in 0 .. t.chunks - 1}

Upserted(d, t) ==
  {[c EXCEPT !.text = t] : c \in Rows(d) \ StaleRows(d, t)}
    \cup {NewRow(d, t, i) : i \in Missing(d, t)}

\* The row of the law after the upsert.
UpsertedLaw(d, t) == [version |-> kb[d].version + 1, text |-> t]

Store(w) ==
  /\ embedded[w] # 0
  /\ ~Refused(embedded[w])
  /\ LET d == jobs[embedded[w]].doc
         t == jobs[embedded[w]].text
     IN
       /\ kb' = [kb EXCEPT ![d] = UpsertedLaw(d, t)]
       /\ chunk' = (chunk \ Rows(d)) \cup Upserted(d, t)
       /\ lastChunk' = lastChunk + Cardinality(Missing(d, t))
  /\ stored' = stored \cup {embedded[w]}
  /\ embedded' = [embedded EXCEPT ![w] = 0]
  /\ UNCHANGED <<jobs, open, deliveries, refused, runs>>

Refuse(w) ==
  /\ embedded[w] # 0
  /\ Refused(embedded[w])
  /\ refused' = refused \cup {embedded[w]}
  /\ embedded' = [embedded EXCEPT ![w] = 0]
  /\ UNCHANGED <<jobs, open, deliveries, stored, tables, runs>>

\* The queue acknowledges a job that completed, or gives a failing one up.
Close(j) ==
  /\ j \in open \cap (stored \cup refused)
  /\ open' = open \ {j}
  /\ UNCHANGED <<jobs, deliveries, embedded, stored, refused, tables, runs>>

IngestionStep ==
  \/ \E d \in Docs, t \in Texts : Submit(d, t)
  \/ \E w \in Workers :
       \/ \E j \in open : Embed(w, j)
       \/ Abandon(w) \/ Refuse(w)
  \/ \E j \in open : Close(j)

KBNext == IngestionStep \/ \E w \in Workers : Store(w)

KBSpec == KBInit /\ [][KBNext]_kbVars

-----------------------------------------------------------------------------
StoredLaw == [version : Nat \ {0}, text : Texts]
ChunkRow  == [id : Nat, doc : Docs, index : Nat, text : Texts]

\* Type correctness; jobs that are open, embedded, stored or refused exist.
KBTypeOK ==
  /\ jobs \in Seq([doc : Docs, text : Texts])
  /\ open \cup stored \cup refused \subseteq DOMAIN jobs
  /\ deliveries \in 0 .. MaxDeliveries
  /\ embedded \in [Workers -> {0} \cup DOMAIN jobs]
  /\ kb \in [Docs -> {NoLaw} \cup StoredLaw]
  /\ chunk \subseteq ChunkRow /\ lastChunk \in Nat

\* A stored law is chunked completely and by one text: its rows are exactly
\* the chunks of the text in fiscal_knowledge_base, whichever jobs were stored
\* before and in which order.
ChunksMatchText ==
  \A d \in Docs :
    IF kb[d] = NoLaw THEN Rows(d) = {}
    ELSE /\ {c.index : c \in Rows(d)} = 0 .. kb[d].text.chunks - 1
         /\ \A c, e \in Rows(d) : c.index = e.index => c = e
         /\ \A c \in Rows(d) : c.text = kb[d].text

Promise == INSTANCE CitableLaws WITH
  law <- kb, chunks <- chunk, used <- 1 .. lastChunk, cited <- Cited

\* Whatever is stored, in whichever order and by however many workers, a law is
\* replaced as a whole, and a chunk that an audit cites stays where it is, with
\* the identity it had (the upsert and the delete of pipeline/mod.rs:312-335).
CitationsKept == Promise!Spec

\* Jobs of shared legislation, the only ones that the scraper and the
\* re-ingestion scan publish, are stored (docs/scraper-devspec.md:68).
SharedStored == \A j \in refused : jobs[j].doc[1] # Shared
=============================================================================
