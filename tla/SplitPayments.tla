--------------------------- MODULE SplitPayments ---------------------------
(***************************************************************************)
(* Split-payment events of one company (services/splitpayment/mod.rs):     *)
(* create inserts an event unless its idempotency key has one, and then    *)
(* answers with the existing one; list reads one page and the total.  What *)
(* an event says is left out: nothing compares it.  Transactions are READ  *)
(* COMMITTED: each statement sees what has been committed before it.       *)
(***************************************************************************)
EXTENDS Naturals, FiniteSets, HttpServer

CONSTANTS
  Keys,        \* idempotency keys that clients use
  NoEvent,     \* no row
  PageSize,    \* the limit of a list request
  MaxCreates   \* bound: create transactions begun

ASSUME PaymentAssumption ==
  /\ PageSize \in Nat \ {0} /\ MaxCreates \in Nat /\ NoEvent \notin 1 .. MaxCreates

Ids == 1 .. MaxCreates

VARIABLES
  row,    \* key: its row in split_payment_events, by its id, or NoEvent
  begun,  \* create transactions begun; the order is that of created_at
  tx,     \* handler: its create transaction, see NoTx
  told,   \* history: key: events that its requests were answered with
  walk    \* a client that reads all pages of the list, see NoWalk

payVars == <<row, begun, tx, told, walk>>

\* A row's id and created_at are those of the transaction that inserted it.
NoTx == [stage |-> "idle", key |-> NoEvent, id |-> NoEvent]

\* The page it is at, the events it has got and, as history, those that were
\* there when it began.
NoWalk == [stage |-> "idle", page |-> 1, got |-> {}, base |-> {}]

PayInit ==
  /\ row = [k \in Keys |-> NoEvent] /\ begun = 0
  /\ tx = [h \in Handlers |-> NoTx]
  /\ told = [k \in Keys |-> {}]
  /\ walk = NoWalk

Rows == {row[k] : k \in Keys} \ {NoEvent}

-----------------------------------------------------------------------------
BeginCreate(h, k) ==
  /\ tx[h].stage = "idle" /\ begun < MaxCreates
  /\ begun' = begun + 1
  /\ tx' = [tx EXCEPT ![h] = [stage |-> "begun", key |-> k, id |-> begun + 1]]
  /\ UNCHANGED <<row, told, walk>>

\* INSERT waits for a transaction that has inserted the same key.
MustWait(h) ==
  \E g \in Handlers \ {h} : tx[g].stage = "inserted" /\ tx[g].key = tx[h].key

\* ON CONFLICT DO NOTHING.
Insert(h) ==
  /\ tx[h].stage = "begun" /\ ~ MustWait(h)
  /\ tx' = [tx EXCEPT ![h].stage =
       IF row[tx[h].key] = NoEvent THEN "inserted" ELSE "conflict"]
  /\ UNCHANGED <<row, begun, told, walk>>

\* Mutant: the answer names the event that was not inserted.
ReadExistingOwn(h) ==
  /\ tx[h].stage = "conflict"
  /\ tx' = [tx EXCEPT ![h].stage = "read"]
  /\ UNCHANGED <<row, begun, told, walk>>

\* The SELECT after a conflict.
ReadExisting(h) ==
  /\ tx[h].stage = "conflict"
  /\ tx' = [tx EXCEPT ![h].stage = "read", ![h].id = row[tx[h].key]]
  /\ UNCHANGED <<row, begun, told, walk>>

Commit(h) ==
  /\ tx[h].stage \in {"inserted", "read"}
  /\ row' = IF tx[h].stage = "read" THEN row ELSE [row EXCEPT ![tx[h].key] = tx[h].id]
  /\ tx' = [tx EXCEPT ![h].stage = "committed"]
  /\ UNCHANGED <<begun, told, walk>>

Respond(h) ==
  /\ tx[h].stage = "committed"
  /\ told' = [told EXCEPT ![tx[h].key] = @ \cup {tx[h].id}]
  /\ tx' = [tx EXCEPT ![h] = NoTx]
  /\ UNCHANGED <<row, begun, walk>>

\* A statement fails, the process dies or the answer is lost; the client sends
\* its request again.
RequestFails(h) ==
  /\ tx[h].stage # "idle"
  /\ tx' = [tx EXCEPT ![h] = NoTx]
  /\ UNCHANGED <<row, begun, told, walk>>

-----------------------------------------------------------------------------
StartWalk ==
  /\ walk.stage \in {"idle", "complete"}
  /\ walk' = [NoWalk EXCEPT !.stage = "rows", !.base = Rows]
  /\ UNCHANGED <<row, begun, tx, told>>

\* The place of an event in the list: ORDER BY created_at DESC.
Rank(i) == Cardinality({j \in Rows : j >= i})

\* Mutant: the first page is left out.
PageFromOne(p) == {i \in Rows : Rank(i) \in p * PageSize + 1 .. (p + 1) * PageSize}

\* LIMIT PageSize OFFSET (page - 1) * PageSize.
Page(p) == {i \in Rows : Rank(i) \in (p - 1) * PageSize + 1 .. p * PageSize}

ReadPage ==
  /\ walk.stage = "rows"
  /\ walk' = [walk EXCEPT !.stage = "count", !.got = @ \cup Page(walk.page)]
  /\ UNCHANGED <<row, begun, tx, told>>

HasMore == walk.page * PageSize < Cardinality(Rows)

\* The total is counted by a statement of its own; the client goes on as long
\* as has_more says so.
ReadTotal ==
  /\ walk.stage = "count"
  /\ walk' = IF HasMore THEN [walk EXCEPT !.stage = "rows", !.page = @ + 1]
                        ELSE [walk EXCEPT !.stage = "complete"]
  /\ UNCHANGED <<row, begun, tx, told>>

-----------------------------------------------------------------------------
TxOf == [stage : {"idle", "begun", "inserted", "conflict", "read", "committed"},
         key : Keys \cup {NoEvent}, id : Ids \cup {NoEvent}]

WalkOf == [stage : {"idle", "rows", "count", "complete"}, page : Nat,
           got : SUBSET Ids, base : SUBSET Ids]

PayTypeOK ==
  /\ row \in [Keys -> Ids \cup {NoEvent}] /\ begun \in 0 .. MaxCreates
  /\ tx \in [Handlers -> TxOf]
  /\ \A h \in Handlers : tx[h].stage # "idle" => tx[h].key \in Keys /\ tx[h].id \in Ids
  /\ told \in [Keys -> SUBSET Ids]
  /\ walk \in WalkOf

\* A client that reads page after page gets every event that was there when it
\* began, whatever is created meanwhile and however far the total runs ahead
\* of the page (splitpayment/mod.rs:140).
NothingMissed == walk.stage = "complete" => walk.base \subseteq walk.got

\* One event for each key, and every request with the key is answered with it
\* (docs/api-contract.md:511, docs/tasklist.md:75).
Keyed == INSTANCE KeyedEvents WITH event <- row
=============================================================================
