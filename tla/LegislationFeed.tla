-------------------------- MODULE LegislationFeed --------------------------
(***************************************************************************)
(* The scraper (scraper/lib/Scraper): runs over one source of legislation  *)
(* that fetch its documents (Source/*.pm), skip the texts whose digest is  *)
(* recorded (Dedup.inspect), append the others to the ingestion stream     *)
(* (Publisher.publish_job) and record them (Dedup.commit).  Sources share  *)
(* nothing but the stream.  A digest is the text it was made of; the set   *)
(* of all digests that commit also keeps is never read and left out.       *)
(* The program that drives a run is not in the repository; its steps are   *)
(* those of docs/scraper-devspec.md, and runs of one source may overlap.   *)
(***************************************************************************)
EXTENDS Naturals, FiniteSets, Sequences, Functions

CONSTANTS
  MaxLaws,        \* law_refs of the source, one document each, in its order
  Texts,          \* texts a law may have
  FirstText,      \* the text every law starts with
  NoText,         \* no digest recorded
  Runners,        \* runs that may be under way at once
  MaxAmendments,  \* bound: changes of a document at the source
  MaxFaults       \* bound: failures of any kind

ASSUME FeedAssumption ==
  /\ FirstText \in Texts /\ NoText \notin Texts
  /\ MaxLaws \in Nat /\ MaxAmendments \in Nat /\ MaxFaults \in Nat

Laws == 1 .. MaxLaws

Attempts == 2     \* publish_job: tries of one XADD

VARIABLES
  isolates,   \* whether the adapter goes on after a document that fails
  broken,     \* documents that cannot be fetched or parsed
  site,       \* law: its text at the source
  changes,    \* law: how often that text has changed
  map,        \* the hash scraper:seen:<source>:law_ref
  stream,     \* law: its jobs in the ingestion stream
  run,        \* runner: its run, see Idle
  overlapped, \* history: two runs were under way at once
  faults      \* faults so far

source == <<isolates, broken, site, changes>>
vars   == <<source, map, stream, run, overlapped, faults>>

\* A run: documents fetched and not inspected yet, the one being published, and
\* the XADD attempt.
Idle == [at |-> "idle", docs |-> {}, law |-> 0, text |-> NoText, attempt |-> 0]

\* The run goes on with the documents that are left, or is over.
GoOn(docs) == IF docs = {} THEN Idle ELSE [Idle EXCEPT !.at = "inspect", !.docs = docs]

Init ==
  /\ isolates \in BOOLEAN /\ broken \in SUBSET Laws
  /\ site = [l \in Laws |-> FirstText] /\ changes = [l \in Laws |-> 0]
  /\ map = [l \in Laws |-> NoText]
  /\ stream = [l \in Laws |-> <<>>]
  /\ run = [r \in Runners |-> Idle]
  /\ overlapped = FALSE /\ faults = 0

Fault == faults < MaxFaults /\ faults' = faults + 1

-----------------------------------------------------------------------------
\* The source publishes another text of a law.
Amend(l) ==
  /\ FoldFunction(+, 0, changes) < MaxAmendments
  /\ \E t \in Texts \ {site[l]} : site' = [site EXCEPT ![l] = t]
  /\ changes' = [changes EXCEPT ![l] = @ + 1]
  /\ UNCHANGED <<isolates, broken, map, stream, run, overlapped, faults>>

\* The keys are not refreshed for 90 days; they expire together.
Expire ==
  /\ Fault
  /\ map' = [l \in Laws |-> NoText]
  /\ UNCHANGED <<source, stream, run, overlapped>>

\* A run that has fetched the documents in S.
Fetched(r, S) ==
  /\ run[r].at = "idle"
  /\ run' = [run EXCEPT ![r] = GoOn({<<l, site[l]>> : l \in S})]
  /\ overlapped' = (overlapped \/ \E q \in Runners : run[q].at # "idle")
  /\ UNCHANGED <<source, map, stream>>

\* Documents that can be fetched and turned into text.
Readable == Laws \ broken

\* Mutant: one document that fails ends the run here too.
FetchEachAborts(r) ==
  isolates /\ Fetched(r, IF broken = {} THEN Laws ELSE {}) /\ UNCHANGED faults

\* Confaz leaves a document out that fails after the retries.
FetchEach(r) == isolates /\ Fetched(r, Readable) /\ UNCHANGED faults

\* In RfbInstrucoes and Dou it ends the run, before anything is published.
FetchAll(r) ==
  ~isolates /\ Fetched(r, IF broken = {} THEN Laws ELSE {}) /\ UNCHANGED faults

Fetch(r) == FetchEach(r) \/ FetchAll(r)

\* A document fails this time and is left out (in the other adapters only if
\* it is answered with 4xx or holds no text); the index fails, or a document
\* that ends the run.
FetchWithFailure(r) ==
  /\ Fault
  /\ \/ \E l \in Laws : (isolates \/ broken = {}) /\ Fetched(r, Readable \ {l})
     \/ Fetched(r, {})

-----------------------------------------------------------------------------
\* The digest recorded for the law is that of the text.
UnchangedText(l, t) == map[l] = t

\* The next document of the list is taken; its digest is compared with the
\* recorded one.
Inspect(r) ==
  /\ run[r].at = "inspect"
  /\ \E d \in run[r].docs :
       /\ \A other \in run[r].docs : d[1] <= other[1]
       /\ LET rest == run[r].docs \ {d} IN
            run' = [run EXCEPT ![r] =
              IF UnchangedText(d[1], d[2]) THEN GoOn(rest)
              ELSE [at |-> "send", docs |-> rest, law |-> d[1], text |-> d[2],
                    attempt |-> 1]]
  /\ UNCHANGED <<source, map, stream, overlapped, faults>>

Appended(r) == stream' = [stream EXCEPT ![run[r].law] = Append(@, run[r].text)]

Send(r) ==
  /\ run[r].at = "send"
  /\ Appended(r)
  /\ run' = [run EXCEPT ![r].at = "commit"]
  /\ UNCHANGED <<source, map, overlapped, faults>>

\* Mutant: a publication whose last attempt failed passes for done.
AfterFailedSendSwallowed(m) ==
  IF m.attempt < Attempts THEN [m EXCEPT !.attempt = @ + 1]
                          ELSE [m EXCEPT !.at = "commit"]

\* Mutant: the attempts are not counted against their limit.
AfterFailedSendEndless(m) == [m EXCEPT !.attempt = @ + 1]

\* Another attempt, or publish_job dies and the run with it.
AfterFailedSend(m) ==
  IF m.attempt < Attempts THEN [m EXCEPT !.attempt = @ + 1] ELSE Idle

\* XADD fails, or is carried out and its answer lost.
SendFails(r) ==
  /\ run[r].at = "send"
  /\ Fault
  /\ Appended(r) \/ UNCHANGED stream
  /\ run' = [run EXCEPT ![r] = AfterFailedSend(run[r])]
  /\ UNCHANGED <<source, map, overlapped>>

-----------------------------------------------------------------------------
\* Mutant: a digest that was recorded is kept.
RecordedOnce(m) == [map EXCEPT ![m.law] = IF @ = NoText THEN m.text ELSE @]

Recorded(m) == [map EXCEPT ![m.law] = m.text]

Commit(r) ==
  /\ run[r].at = "commit"
  /\ map' = Recorded(run[r])
  /\ run' = [run EXCEPT ![r] = GoOn(run[r].docs)]
  /\ UNCHANGED <<source, stream, overlapped, faults>>

\* HSET fails inside the transaction with an error that does not begin with ERR:
\* commit returns success all the same.
CommitPartly(r) ==
  /\ run[r].at = "commit"
  /\ Fault
  /\ UNCHANGED map
  /\ run' = [run EXCEPT ![r] = GoOn(run[r].docs)]
  /\ UNCHANGED <<source, stream, overlapped>>

\* EXEC is carried out and its answer lost: commit dies.
CommitUnanswered(r) ==
  /\ run[r].at = "commit"
  /\ Fault
  /\ map' = Recorded(run[r])
  /\ run' = [run EXCEPT ![r] = Idle]
  /\ UNCHANGED <<source, stream, overlapped>>

\* The process ends, or a call before EXEC fails.
RunDies(r) ==
  /\ run[r].at # "idle"
  /\ Fault
  /\ run' = [run EXCEPT ![r] = Idle]
  /\ UNCHANGED <<source, map, stream, overlapped>>

RunStep(r) == Fetch(r) \/ Inspect(r) \/ Send(r) \/ Commit(r)

Next ==
  \/ Expire \/ \E l \in Laws : Amend(l)
  \/ \E r \in Runners :
       \/ RunStep(r) \/ FetchWithFailure(r) \/ SendFails(r)
       \/ CommitPartly(r) \/ CommitUnanswered(r) \/ RunDies(r)

\* Runs are scheduled again and again, and a run goes on.
Spec == Init /\ [][Next]_vars /\ \A r \in Runners : WF_vars(RunStep(r))

-----------------------------------------------------------------------------
Published(l) == {stream[l][i] : i \in DOMAIN stream[l]}

RunOf == [at : {"idle", "inspect", "send", "commit"},
          docs : SUBSET (Laws \X Texts),
          law : Laws \cup {0}, text : Texts \cup {NoText},
          attempt : 0 .. Attempts]

TypeOK ==
  /\ isolates \in BOOLEAN /\ broken \in SUBSET Laws
  /\ site \in [Laws -> Texts] /\ changes \in [Laws -> Nat]
  /\ map \in [Laws -> Texts \cup {NoText}]
  /\ stream \in [Laws -> Seq(Texts)]
  /\ run \in [Runners -> RunOf]
  /\ \A r \in Runners : run[r].at \in {"send", "commit"} =>
       (run[r].law \in Laws /\ run[r].text \in Texts)
  /\ overlapped \in BOOLEAN /\ faults \in 0 .. MaxFaults

\* A recorded digest stands for a text that is in the stream: whichever step
\* of a run fails or is repeated, no text is skipped that was never published
\* (Publisher.pm:49, Dedup.pm:45).
NoneSwallowed == \A l \in Laws : map[l] # NoText => map[l] \in Published(l)

\* Unless runs overlap, a law has one job for its first text and one for each
\* change, and each fault costs it at most one more
\* (docs/scraper-devspec.md:253-254).
OneJobPerText ==
  \A l \in Laws : overlapped \/ Len(stream[l]) <= 1 + changes[l] + faults

\* Whether runs get to a law: its document works, and no other one ends the run.
Reached(l) == l \notin broken /\ (isolates \/ broken = {})

\* A text that stays at the source is published at last, if runs get to it.
Surfaces ==
  \A l \in Laws, t \in Texts :
    (Reached(l) /\ site[l] = t) ~> (t \in Published(l) \/ site[l] # t)
=============================================================================
