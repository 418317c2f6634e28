----------------------- MODULE LegislationFeedProofs -----------------------
(***************************************************************************)
(* Theorems about LegislationFeed, for any number of laws, texts, runs,    *)
(* changes at the source and faults.                                       *)
(***************************************************************************)
EXTENDS LegislationFeed, TLAPS

USE FeedAssumption

\* What a run does to its own record, and to nothing but the digests and jobs
\* of the law it is at.
Step(r) ==
  \/ Fetch(r) \/ FetchWithFailure(r) \/ Inspect(r) \/ Send(r) \/ SendFails(r)
  \/ Commit(r) \/ CommitPartly(r) \/ CommitUnanswered(r) \/ RunDies(r)

LEMMA NextCases ==
  ASSUME [Next]_vars
  PROVE  \/ UNCHANGED vars \/ Expire \/ \E l \in Laws : Amend(l)
         \/ \E r \in Runners : Step(r)
BY DEF Next, RunStep, Step

\* A run whose record is well typed; one that sends or commits has a text.
GoodRun(m) ==
  /\ m \in RunOf
  /\ m.at \in {"send", "commit"} => m.law \in Laws /\ m.text \in Texts

LEMMA IdleGood == GoodRun(Idle) /\ Idle.at = "idle" /\ Idle.docs = {}
BY DEF GoodRun, Idle, RunOf, Attempts

LEMMA GoOnGood ==
  ASSUME NEW docs \in SUBSET (Laws \X Texts)
  PROVE  /\ GoodRun(GoOn(docs)) /\ GoOn(docs).docs = docs
         /\ GoOn(docs).at \in {"idle", "inspect"}
         /\ GoOn(docs).at = "idle" => docs = {}
<1>1. CASE docs = {}
  BY <1>1, IdleGood DEF GoOn
<1>2. CASE docs # {}
  <2>1. GoOn(docs) = [at |-> "inspect", docs |-> docs, law |-> 0, text |-> NoText,
                      attempt |-> 0]
    BY <1>2 DEF GoOn, Idle
  <2> QED BY <1>2, <2>1 DEF GoodRun, RunOf, Attempts
<1> QED BY <1>1, <1>2

LEMMA AfterFailedSendGood ==
  ASSUME NEW m, GoodRun(m), m.at = "send"
  PROVE  /\ GoodRun(AfterFailedSend(m))
         /\ AfterFailedSend(m).at \in {"send", "idle"}
         /\ AfterFailedSend(m).at = "send" =>
              /\ AfterFailedSend(m).docs = m.docs /\ AfterFailedSend(m).law = m.law
              /\ AfterFailedSend(m).text = m.text
         /\ AfterFailedSend(m).docs \subseteq m.docs
<1>1. CASE m.attempt < Attempts
  <2>1. PICK n : n = m.attempt + 1
    OBVIOUS
  <2>2. AfterFailedSend(m) = [m EXCEPT !.attempt = n]
    BY <1>1, <2>1 DEF AfterFailedSend
  <2>3. n \in 0 .. Attempts
    BY <1>1, <2>1 DEF GoodRun, RunOf, Attempts
  <2> QED BY <2>2, <2>3 DEF GoodRun, RunOf
<1>2. CASE ~(m.attempt < Attempts)
  BY <1>2, IdleGood DEF AfterFailedSend
<1> QED BY <1>1, <1>2

\* The record of a run after a step, and the record before it.
LEMMA RunAfter ==
  ASSUME TypeOK, NEW r \in Runners, Step(r)
  PROVE  \E m : /\ GoodRun(m) /\ run' = [run EXCEPT ![r] = m]
                /\ m.at = "send" => run[r].at \in {"inspect", "send"}
                /\ m.at = "commit" => Send(r) /\ m.law = run[r].law /\ m.text = run[r].text
<1> DEFINE Goal(m) ==
      /\ GoodRun(m) /\ run' = [run EXCEPT ![r] = m]
      /\ m.at = "send" => run[r].at \in {"inspect", "send"}
      /\ m.at = "commit" => Send(r) /\ m.law = run[r].law /\ m.text = run[r].text
<1>0. GoodRun(run[r]) /\ run[r].docs \subseteq Laws \X Texts
  BY DEF TypeOK, GoodRun, RunOf
<1>1. CASE Fetch(r) \/ FetchWithFailure(r)
  <2>1. PICK S \in SUBSET Laws : Fetched(r, S)
    BY <1>1 DEF Fetch, FetchEach, FetchAll, FetchWithFailure, Readable
  <2>2. {<<l, site[l]>> : l \in S} \in SUBSET (Laws \X Texts)
    BY DEF TypeOK
  <2>3. Goal(GoOn({<<l, site[l]>> : l \in S}))
    BY <2>1, <2>2, GoOnGood DEF Fetched
  <2> QED BY <2>3
<1>2. CASE Inspect(r)
  <2>1. PICK d \in run[r].docs :
          run' = [run EXCEPT ![r] =
            IF UnchangedText(d[1], d[2]) THEN GoOn(run[r].docs \ {d})
            ELSE [at |-> "send", docs |-> run[r].docs \ {d}, law |-> d[1],
                  text |-> d[2], attempt |-> 1]]
    BY <1>2 DEF Inspect
  <2>2. CASE UnchangedText(d[1], d[2])
    <3>1. Goal(GoOn(run[r].docs \ {d}))
      BY <1>0, <2>1, <2>2, GoOnGood
    <3> QED BY <3>1
  <2>3. CASE ~UnchangedText(d[1], d[2])
    <3>1. PICK m : m = [at |-> "send", docs |-> run[r].docs \ {d}, law |-> d[1],
                        text |-> d[2], attempt |-> 1]
      OBVIOUS
    <3>2. GoodRun(m) /\ m.at = "send"
      BY <1>0, <3>1 DEF GoodRun, RunOf, Attempts
    <3>3. Goal(m)
      BY <1>2, <2>1, <2>3, <3>1, <3>2 DEF Inspect
    <3> QED BY <3>3
  <2> QED BY <2>2, <2>3
<1>3. CASE Send(r)
  <2>1. PICK m : m = [run[r] EXCEPT !.at = "commit"]
    OBVIOUS
  <2>2. GoodRun(m) /\ m.at = "commit" /\ m.law = run[r].law /\ m.text = run[r].text
    BY <1>0, <1>3, <2>1 DEF GoodRun, RunOf, Send
  <2>3. run' = [run EXCEPT ![r] = m]
    BY <1>3, <2>1 DEF Send, TypeOK
  <2>4. Goal(m)
    BY <1>3, <2>2, <2>3
  <2> QED BY <2>4
<1>4. CASE SendFails(r)
  <2>1. Goal(AfterFailedSend(run[r]))
    BY <1>0, <1>4, AfterFailedSendGood DEF SendFails
  <2> QED BY <2>1
<1>5. CASE Commit(r) \/ CommitPartly(r)
  <2>1. Goal(GoOn(run[r].docs))
    BY <1>0, <1>5, GoOnGood DEF Commit, CommitPartly
  <2> QED BY <2>1
<1>6. CASE CommitUnanswered(r) \/ RunDies(r)
  <2>1. Goal(Idle)
    BY <1>6, IdleGood DEF CommitUnanswered, RunDies
  <2> QED BY <2>1
<1> QED BY <1>1, <1>2, <1>3, <1>4, <1>5, <1>6 DEF Step

-----------------------------------------------------------------------------
(* Types, and what is recorded was published.                              *)

\* A text that a run is about to record is in the stream.
CommitsPublished ==
  \A r \in Runners : run[r].at = "commit" => run[r].text \in Published(run[r].law)

FeedInv == TypeOK /\ NoneSwallowed /\ CommitsPublished

\* The jobs of a law in a stream.
Jobs(s, l) == {s[l][i] : i \in DOMAIN s[l]}

LEMMA PublishedJobs ==
  \A l \in Laws : Published(l) = Jobs(stream, l) /\ Published(l)' = Jobs(stream', l)
BY DEF Published, Jobs

LEMMA FeedInitial == Init => FeedInv
<1> SUFFICES ASSUME Init PROVE FeedInv
  OBVIOUS
<1>1. TypeOK
  <2>1. run \in [Runners -> RunOf] /\ \A r \in Runners : run[r].at = "idle"
    <3>1. Idle \in RunOf /\ Idle.at = "idle"
      BY IdleGood DEF GoodRun
    <3>2. run = [r \in Runners |-> Idle]
      BY DEF Init
    <3> QED BY <3>1, <3>2
  <2>2. isolates \in BOOLEAN /\ broken \in SUBSET Laws /\ overlapped \in BOOLEAN
    BY Zenon DEF Init
  <2>6. faults \in 0 .. MaxFaults
    BY DEF Init
  <2>3. site \in [Laws -> Texts] /\ changes \in [Laws -> Nat]
    BY DEF Init
  <2>4. map \in [Laws -> Texts \cup {NoText}]
    BY DEF Init
  <2>5. stream \in [Laws -> Seq(Texts)]
    BY DEF Init
  <2> QED BY <2>1, <2>2, <2>3, <2>4, <2>5, <2>6 DEF TypeOK
<1>2. NoneSwallowed /\ CommitsPublished
  BY IdleGood DEF Init, NoneSwallowed, CommitsPublished
<1> QED BY <1>1, <1>2 DEF FeedInv

\* XADD adds a job of the run's text to those of its law.
LEMMA AppendedJob ==
  ASSUME TypeOK, NEW r \in Runners, run[r].at = "send", Appended(r)
  PROVE  /\ stream' \in [Laws -> Seq(Texts)]
         /\ \A l \in Laws : Jobs(stream, l) \subseteq Jobs(stream', l)
         /\ run[r].text \in Jobs(stream', run[r].law)
         /\ \A l \in Laws : Len(stream'[l]) = Len(stream[l]) + (IF l = run[r].law THEN 1 ELSE 0)
<1>1. PICK law \in Laws, text \in Texts : law = run[r].law /\ text = run[r].text
  BY DEF TypeOK
<1>2. /\ stream' = [stream EXCEPT ![law] = Append(stream[law], text)]
      /\ stream \in [Laws -> Seq(Texts)]
  BY <1>1 DEF Appended, TypeOK
<1>3. \A l \in Laws : stream'[l] = IF l = law THEN Append(stream[l], text) ELSE stream[l]
  BY <1>2
<1>4. stream' \in [Laws -> Seq(Texts)]
  <2>1. Append(stream[law], text) \in Seq(Texts)
    <3>1. PICK s \in Seq(Texts) : s = stream[law]
      BY <1>2
    <3> QED BY <3>1
  <2> QED BY <1>2, <2>1
<1>5. \A l \in Laws : Jobs(stream, l) \subseteq Jobs(stream', l)
  <2> SUFFICES ASSUME NEW l \in Laws, NEW i \in DOMAIN stream[l]
               PROVE  i \in DOMAIN stream'[l] /\ stream'[l][i] = stream[l][i]
    BY DEF Jobs
  <2>1. PICK s \in Seq(Texts) : s = stream[l]
    BY <1>2
  <2>2. i \in DOMAIN Append(s, text) /\ Append(s, text)[i] = s[i]
    BY <2>1
  <2> QED BY <1>3, <2>1, <2>2
<1>6. text \in Jobs(stream', law)
  <2>1. PICK s \in Seq(Texts) : s = stream[law]
    BY <1>2
  <2>2. stream'[law] = Append(s, text)
    BY <1>3, <2>1
  <2>3. Len(s) + 1 \in DOMAIN Append(s, text) /\ Append(s, text)[Len(s) + 1] = text
    BY <2>1
  <2> QED BY <2>2, <2>3 DEF Jobs
<1>7. \A l \in Laws : Len(stream'[l]) = Len(stream[l]) + (IF l = law THEN 1 ELSE 0)
  <2> SUFFICES ASSUME NEW l \in Laws
               PROVE  Len(stream'[l]) = Len(stream[l]) + (IF l = law THEN 1 ELSE 0)
    OBVIOUS
  <2>1. PICK s \in Seq(Texts) : s = stream[l]
    BY <1>2
  <2>2. Len(Append(s, text)) = Len(s) + 1 /\ Len(s) \in Nat
    BY <2>1
  <2>3. CASE l = law
    BY <1>3, <2>1, <2>2, <2>3
  <2>4. CASE l # law
    BY <1>3, <2>1, <2>2, <2>4
  <2> QED BY <2>3, <2>4
<1> QED BY <1>1, <1>4, <1>5, <1>6, <1>7

LEMMA StepTyped ==
  ASSUME TypeOK, NEW r \in Runners, Step(r)
  PROVE  TypeOK'
<1>1. PICK m : GoodRun(m) /\ run' = [run EXCEPT ![r] = m]
  BY RunAfter
<1>2. /\ run' \in [Runners -> RunOf]
      /\ \A q \in Runners : run'[q].at \in {"send", "commit"} =>
           run'[q].law \in Laws /\ run'[q].text \in Texts
  BY <1>1 DEF TypeOK, GoodRun
<1>3. stream' \in [Laws -> Seq(Texts)]
  BY AppendedJob DEF Step, Fetch, FetchEach, FetchAll, FetchWithFailure, Fetched,
     Inspect, Send, SendFails, Commit, CommitPartly, CommitUnanswered, RunDies, TypeOK
<1>4. map' \in [Laws -> Texts \cup {NoText}]
  BY DEF Step, Fetch, FetchEach, FetchAll, FetchWithFailure, Fetched, Inspect, Send,
     SendFails, Commit, CommitPartly, CommitUnanswered, Recorded, RunDies, TypeOK
<1>5. UNCHANGED source /\ overlapped' \in BOOLEAN
  BY DEF Step, Fetch, FetchEach, FetchAll, FetchWithFailure, Fetched, Inspect, Send,
     SendFails, Commit, CommitPartly, CommitUnanswered, RunDies, source, TypeOK
<1>6. faults' \in 0 .. MaxFaults
  <2>1. faults' = faults \/ Fault
    BY DEF Step, Fetch, FetchEach, FetchAll, FetchWithFailure, Inspect, Send,
       SendFails, Commit, CommitPartly, CommitUnanswered, RunDies
  <2> QED BY <2>1 DEF Fault, TypeOK
<1> QED BY <1>2, <1>3, <1>4, <1>5, <1>6 DEF TypeOK, source

LEMMA StepPublishes ==
  ASSUME FeedInv, NEW r \in Runners, Step(r)
  PROVE  NoneSwallowed' /\ CommitsPublished'
<1>0. TypeOK
  BY DEF FeedInv
<1>1. PICK m : /\ GoodRun(m) /\ run' = [run EXCEPT ![r] = m]
               /\ m.at = "commit" => Send(r) /\ m.law = run[r].law /\ m.text = run[r].text
  BY <1>0, RunAfter
<1>2. \A q \in Runners : run'[q] = IF q = r THEN m ELSE run[q]
  BY <1>0, <1>1 DEF TypeOK
<1>3. \A l \in Laws : Jobs(stream, l) \subseteq Jobs(stream', l)
  <2>1. stream' = stream \/ (run[r].at = "send" /\ Appended(r))
    BY DEF Step, Fetch, FetchEach, FetchAll, FetchWithFailure, Fetched, Inspect, Send,
       SendFails, Commit, CommitPartly, CommitUnanswered, RunDies
  <2> QED BY <1>0, <2>1, AppendedJob
<1>4. CommitsPublished'
  <2> SUFFICES ASSUME NEW q \in Runners, run'[q].at = "commit"
               PROVE  run'[q].text \in Jobs(stream', run'[q].law)
    BY DEF CommitsPublished, Published, Jobs
  <2>1. CASE q = r
    <3>1. Send(r) /\ run'[q].law = run[r].law /\ run'[q].text = run[r].text
      BY <1>1, <1>2, <2>1
    <3>2. run[r].text \in Jobs(stream', run[r].law)
      BY <1>0, <3>1, AppendedJob DEF Send
    <3> QED BY <3>1, <3>2
  <2>2. CASE q # r
    <3>1. run'[q] = run[q]
      BY <1>2, <2>2
    <3>2. run[q].law \in Laws
      BY <1>0, <3>1 DEF TypeOK
    <3>3. run[q].text \in Jobs(stream, run[q].law)
      BY <3>1, <3>2, PublishedJobs DEF FeedInv, CommitsPublished
    <3> QED BY <1>3, <3>1, <3>2, <3>3
  <2> QED BY <2>1, <2>2
<1>5. NoneSwallowed'
  <2>1. map' = map \/ (run[r].at = "commit" /\ map' = Recorded(run[r]))
    BY DEF Step, Fetch, FetchEach, FetchAll, FetchWithFailure, Fetched, Inspect, Send,
       SendFails, Commit, CommitPartly, CommitUnanswered, RunDies
  <2> SUFFICES ASSUME NEW l \in Laws, map'[l] # NoText PROVE map'[l] \in Jobs(stream, l)
    BY <1>3, PublishedJobs DEF NoneSwallowed
  <2>2. CASE map'[l] = map[l]
    BY <2>2, PublishedJobs DEF FeedInv, NoneSwallowed
  <2>3. CASE map'[l] # map[l]
    <3>1. map' = [map EXCEPT ![run[r].law] = run[r].text] /\ run[r].at = "commit"
      BY <2>1, <2>3 DEF Recorded
    <3>2. l = run[r].law /\ map'[l] = run[r].text
      BY <1>0, <2>3, <3>1 DEF TypeOK
    <3>3. run[r].text \in Published(run[r].law)
      BY <3>1 DEF FeedInv, CommitsPublished
    <3> QED BY <3>2, <3>3, PublishedJobs
  <2> QED BY <2>2, <2>3
<1> QED BY <1>4, <1>5

LEMMA FeedSound ==
  ASSUME FeedInv, [Next]_vars
  PROVE  FeedInv'
<1>1. CASE UNCHANGED vars
  BY <1>1 DEF vars, source, FeedInv, TypeOK, NoneSwallowed, CommitsPublished, Published
<1>2. CASE Expire
  <2>1. TypeOK'
    BY <1>2 DEF Expire, Fault, FeedInv, TypeOK, source
  <2>2. NoneSwallowed' /\ CommitsPublished'
    BY <1>2 DEF Expire, FeedInv, NoneSwallowed, CommitsPublished, Published, TypeOK
  <2> QED BY <2>1, <2>2 DEF FeedInv
<1>3. ASSUME NEW l \in Laws, Amend(l)
      PROVE  FeedInv'
  <2>0. site \in [Laws -> Texts] /\ changes \in [Laws -> Nat]
    BY DEF FeedInv, TypeOK
  <2>1. site' \in [Laws -> Texts] /\ changes' \in [Laws -> Nat]
    <3>1. PICK t \in Texts : site' = [site EXCEPT ![l] = t]
      BY <1>3 DEF Amend
    <3>2. changes' = [changes EXCEPT ![l] = changes[l] + 1]
      BY <1>3 DEF Amend
    <3> QED BY <2>0, <3>1, <3>2
  <2>2. UNCHANGED <<isolates, broken, map, stream, run, overlapped, faults>>
    BY <1>3 DEF Amend
  <2> QED BY <2>1, <2>2 DEF FeedInv, TypeOK, NoneSwallowed, CommitsPublished, Published
<1>4. ASSUME NEW r \in Runners, Step(r)
      PROVE  FeedInv'
  BY <1>4, StepTyped, StepPublishes DEF FeedInv
<1> QED BY <1>1, <1>2, <1>3, <1>4, NextCases

LEMMA FeedAlways == Spec => []FeedInv
BY FeedInitial, FeedSound, PTL DEF Spec

\* Type correctness; a run that sends or commits has a text.
THEOREM TypeCorrect == Spec => []TypeOK
<1>1. FeedInv => TypeOK
  BY DEF FeedInv
<1> QED BY <1>1, FeedAlways, PTL

\* A digest is recorded only after its text was published, whichever step of a
\* run fails or is repeated and however runs overlap (Publisher.pm:49,
\* Dedup.pm:45).
THEOREM RecordedWasPublished == Spec => []NoneSwallowed
<1>1. FeedInv => NoneSwallowed
  BY DEF FeedInv
<1> QED BY <1>1, FeedAlways, PTL

-----------------------------------------------------------------------------
(* One job per text, unless runs overlap.                                  *)

\* Whether a job more is due for b when a was published last.
Diff(a, b) == IF a = b THEN 0 ELSE 1

\* What a law has cost and may still cost run m, within budget b: n jobs, digest
\* s, text w at the source.  A document m has fetched is published if its digest
\* is another, and the next run publishes what has changed since.
Account(l, m, n, s, w, b) ==
  /\ (m.at \in {"send", "commit"} /\ m.law = l) \/ n + Diff(s, w) <= b
  /\ \A t \in Texts : <<l, t>> \in m.docs => n + Diff(s, t) + Diff(t, w) <= b
  /\ m.at = "send" /\ m.law = l => n + 1 + Diff(m.text, w) <= b
  /\ m.at = "commit" /\ m.law = l => n + Diff(m.text, w) <= b

\* The list of a run has each law once, and not the one that is in hand.
RunDocs(m) ==
  /\ m.docs \subseteq Laws \X Texts
  /\ \A d, e \in m.docs : d[1] = e[1] => d = e
  /\ m.at \in {"send", "commit"} => \A d \in m.docs : d[1] # m.law
  /\ m.at = "idle" => m.docs = {}

Budget(l) == 1 + changes[l] + faults

Balanced(l, m) == Account(l, m, Len(stream[l]), map[l], site[l], Budget(l))

Alone(r) == \A q \in Runners \ {r} : run[q].at = "idle"

CountInv ==
  /\ \A r \in Runners : RunDocs(run[r])
  /\ ~ overlapped =>
       /\ \A r \in Runners : run[r].at # "idle" => Alone(r)
       /\ \A r \in Runners : Alone(r) => \A l \in Laws : Balanced(l, run[r])
  /\ OneJobPerText

LEMMA DiffIs == \A a, b, c : /\ Diff(a, b) \in {0, 1} /\ Diff(a, a) = 0
                             /\ Diff(a, c) <= Diff(a, b) + Diff(b, c)
                             /\ a # b => Diff(a, b) = 1
BY DEF Diff

\* The numbers of a law.
LEMMA Numbers ==
  ASSUME TypeOK, NEW l \in Laws
  PROVE  Len(stream[l]) \in Nat /\ Budget(l) \in Nat
<1>1. stream[l] \in Seq(Texts) /\ changes[l] \in Nat /\ faults \in Nat
  BY DEF TypeOK
<1> QED BY <1>1 DEF Budget

\* A larger budget, another text at the source, a digest that is lost.
LEMMA AccountGrows ==
  ASSUME NEW l, NEW m, NEW n \in Nat, NEW s, NEW w, NEW b \in Nat, NEW c \in Nat, b <= c,
         Account(l, m, n, s, w, b)
  PROVE  Account(l, m, n, s, w, c)
<1>1. \A x, y : Diff(x, y) \in Nat
  BY DEF Diff
<1> QED BY <1>1 DEF Account

LEMMA AccountAmended ==
  ASSUME NEW l, NEW m, NEW n \in Nat, NEW s, NEW w, NEW b \in Nat, NEW v,
         Account(l, m, n, s, w, b)
  PROVE  Account(l, m, n, s, v, b + 1)
<1>1. \A x, y : Diff(x, y) \in Nat
  BY DEF Diff
<1>2. \A x : Diff(x, v) <= Diff(x, w) + 1
  BY DEF Diff
<1> QED BY <1>1, <1>2 DEF Account

LEMMA AccountExpired ==
  ASSUME NEW l, NEW m, NEW n \in Nat, NEW s, NEW w, NEW b \in Nat, NEW v,
         Account(l, m, n, s, w, b)
  PROVE  Account(l, m, n, v, w, b + 1)
<1>1. \A x, y : Diff(x, y) \in Nat
  BY DEF Diff
<1>2. \A x : Diff(v, x) <= Diff(s, x) + 1
  BY DEF Diff
<1> QED BY <1>1, <1>2 DEF Account

\* The run goes on without what it had in hand, or is over.
LEMMA AccountDropped ==
  ASSUME NEW l, NEW m, NEW n \in Nat, NEW s, NEW w, NEW b \in Nat,
         Account(l, m, n, s, w, b),
         NEW k, k.at \in {"idle", "inspect"}, k.docs \subseteq m.docs
  PROVE  Account(l, k, n, s, w, b + 1)
<1>1. \A x, y : Diff(x, y) \in {0, 1}
  BY DEF Diff
<1>2. n + Diff(s, w) <= b + 1
  <2>1. CASE m.at \in {"send", "commit"} /\ m.law = l
    <3>1. n <= b
      BY <1>1, <2>1 DEF Account
    <3> QED BY <1>1, <3>1
  <2>2. CASE ~ (m.at \in {"send", "commit"} /\ m.law = l)
    BY <1>1, <2>2 DEF Account
  <2> QED BY <2>1, <2>2
<1>3. \A t \in Texts : <<l, t>> \in k.docs => n + Diff(s, t) + Diff(t, w) <= b + 1
  BY <1>1 DEF Account
<1> QED BY <1>2, <1>3 DEF Account

LEMMA GoOnDocs ==
  ASSUME NEW docs \in SUBSET (Laws \X Texts), \A d, e \in docs : d[1] = e[1] => d = e
  PROVE  RunDocs(GoOn(docs)) /\ GoOn(docs).docs = docs /\ GoOn(docs).at \in {"idle", "inspect"}
BY GoOnGood DEF RunDocs

LEMMA IdleDocs == RunDocs(Idle) /\ Idle.at = "idle" /\ Idle.docs = {}
BY IdleGood DEF RunDocs

LEMMA FailedSendDocs ==
  ASSUME NEW m, GoodRun(m), RunDocs(m), m.at = "send"
  PROVE  RunDocs(AfterFailedSend(m))
<1>1. CASE m.attempt < Attempts
  <2>1. PICK c : AfterFailedSend(m) = [m EXCEPT !.attempt = c]
    BY <1>1 DEF AfterFailedSend
  <2>2. AfterFailedSend(m).at = "send"
    BY <2>1 DEF GoodRun, RunOf
  <2>3. AfterFailedSend(m).docs = m.docs /\ AfterFailedSend(m).law = m.law
    BY <2>2, AfterFailedSendGood
  <2> QED BY <2>2, <2>3 DEF RunDocs
<1>2. CASE ~ (m.attempt < Attempts)
  BY <1>2, IdleDocs DEF AfterFailedSend
<1> QED BY <1>1, <1>2

\* The documents a run fetches.
LEMMA DocsOfSite ==
  ASSUME TypeOK, NEW S \in SUBSET Laws
  PROVE  /\ {<<i, site[i]>> : i \in S} \in SUBSET (Laws \X Texts)
         /\ \A d, e \in {<<i, site[i]>> : i \in S} : d[1] = e[1] => d = e
<1>1. \A i \in S : site[i] \in Texts
  BY DEF TypeOK
<1>2. {<<i, site[i]>> : i \in S} \in SUBSET (Laws \X Texts)
  BY <1>1
<1>3. ASSUME NEW d \in {<<i, site[i]>> : i \in S}, NEW e \in {<<i, site[i]>> : i \in S},
             d[1] = e[1]
      PROVE  d = e
  <2>1. PICK i \in S : d = <<i, site[i]>>
    OBVIOUS
  <2>2. PICK j \in S : e = <<j, site[j]>>
    OBVIOUS
  <2>3. i = j
    BY <1>3, <2>1, <2>2
  <2> QED BY <2>1, <2>2, <2>3
<1> QED BY <1>2, <1>3

LEMMA StepDocs ==
  ASSUME TypeOK, NEW r \in Runners, RunDocs(run[r]), Step(r)
  PROVE  \E m : run' = [run EXCEPT ![r] = m] /\ RunDocs(m)
<1> PICK m : m = run[r]
  OBVIOUS
<1>0. RunDocs(m) /\ m.docs \subseteq Laws \X Texts /\ GoodRun(m)
  BY DEF TypeOK, RunDocs, GoodRun
<1> DEFINE Goal(k) == run' = [run EXCEPT ![r] = k] /\ RunDocs(k)
<1>1. CASE Fetch(r) \/ FetchWithFailure(r)
  <2>1. PICK S \in SUBSET Laws : Fetched(r, S)
    BY <1>1 DEF Fetch, FetchEach, FetchAll, FetchWithFailure, Readable
  <2>2. Goal(GoOn({<<i, site[i]>> : i \in S}))
    BY <2>1, DocsOfSite, GoOnDocs DEF Fetched
  <2> QED BY <2>2
<1>2. CASE Inspect(r)
  <2>1. PICK d \in m.docs :
          run' = [run EXCEPT ![r] =
            IF UnchangedText(d[1], d[2]) THEN GoOn(m.docs \ {d})
            ELSE [at |-> "send", docs |-> m.docs \ {d}, law |-> d[1],
                  text |-> d[2], attempt |-> 1]]
    BY <1>2 DEF Inspect
  <2>2. /\ m.docs \ {d} \in SUBSET (Laws \X Texts)
        /\ \A e, f \in m.docs \ {d} : e[1] = f[1] => e = f
        /\ \A e \in m.docs \ {d} : e[1] # d[1]
    BY <1>0 DEF RunDocs
  <2>3. CASE UnchangedText(d[1], d[2])
    <3>1. Goal(GoOn(m.docs \ {d}))
      BY <2>1, <2>2, <2>3, GoOnDocs
    <3> QED BY <3>1
  <2>4. CASE ~ UnchangedText(d[1], d[2])
    <3>1. PICK k : k = [at |-> "send", docs |-> m.docs \ {d}, law |-> d[1],
                        text |-> d[2], attempt |-> 1]
      OBVIOUS
    <3>2. /\ k.at = "send" /\ k.docs = m.docs \ {d} /\ k.law = d[1]
          /\ run' = [run EXCEPT ![r] = k]
      BY <2>1, <2>4, <3>1
    <3>3. Goal(k)
      BY <2>2, <3>2 DEF RunDocs
    <3> QED BY <3>3
  <2> QED BY <2>3, <2>4
<1>3. CASE Send(r)
  <2>1. PICK k : k = [m EXCEPT !.at = "commit"]
    OBVIOUS
  <2>2. k.at = "commit" /\ k.law = m.law /\ k.docs = m.docs
    BY <1>0, <2>1 DEF GoodRun, RunOf
  <2>3. run' = [run EXCEPT ![r] = k] /\ m.at = "send"
    BY <1>3, <2>1 DEF Send, TypeOK
  <2>4. Goal(k)
    BY <1>0, <2>2, <2>3 DEF RunDocs
  <2> QED BY <2>4
<1>4. CASE SendFails(r)
  <2>1. m.at = "send" /\ run' = [run EXCEPT ![r] = AfterFailedSend(m)]
    BY <1>4 DEF SendFails
  <2>2. RunDocs(AfterFailedSend(m))
    BY <1>0, <2>1, FailedSendDocs
  <2>3. Goal(AfterFailedSend(m))
    BY <2>1, <2>2
  <2> QED BY <2>3
<1>5. CASE Commit(r) \/ CommitPartly(r)
  <2>1. run' = [run EXCEPT ![r] = GoOn(m.docs)]
    BY <1>5 DEF Commit, CommitPartly
  <2>2. Goal(GoOn(m.docs))
    BY <1>0, <2>1, GoOnDocs DEF RunDocs
  <2> QED BY <2>2
<1>6. CASE CommitUnanswered(r) \/ RunDies(r)
  <2>1. Goal(Idle)
    BY <1>6, IdleDocs DEF CommitUnanswered, RunDies
  <2> QED BY <2>1
<1> QED BY <1>1, <1>2, <1>3, <1>4, <1>5, <1>6 DEF Step

\* A step of a run that is the only one keeps the account.
LEMMA StepBalanced ==
  ASSUME TypeOK, NEW r \in Runners, RunDocs(run[r]), Step(r),
         NEW l \in Laws, Balanced(l, run[r])
  PROVE  \E m : /\ run' = [run EXCEPT ![r] = m] /\ RunDocs(m)
                /\ Account(l, m, Len(stream'[l]), map'[l], site'[l], Budget(l)')
<1> PICK n, s, w, b : n = Len(stream[l]) /\ s = map[l] /\ w = site[l] /\ b = Budget(l)
  OBVIOUS
<1> PICK m : m = run[r]
  OBVIOUS
<1>0. /\ n \in Nat /\ b \in Nat /\ Account(l, m, n, s, w, b) /\ RunDocs(m)
      /\ m.docs \subseteq Laws \X Texts /\ GoodRun(m) /\ changes[l] \in Nat /\ faults \in Nat
  BY Numbers DEF Balanced, TypeOK, RunDocs, GoodRun
<1>d. \A x, y : Diff(x, y) \in {0, 1}
  BY DEF Diff
<1> DEFINE Goal(k) == /\ run' = [run EXCEPT ![r] = k] /\ RunDocs(k)
                      /\ Account(l, k, Len(stream'[l]), map'[l], site'[l], Budget(l)')
<1>b. ASSUME UNCHANGED source
      PROVE  /\ site'[l] = w /\ (UNCHANGED faults => Budget(l)' = b)
             /\ (Fault => Budget(l)' = b + 1)
  <2>1. site'[l] = w /\ changes'[l] = changes[l]
    BY <1>b DEF source
  <2>2. Budget(l)' = 1 + changes[l] + faults'
    BY <2>1 DEF Budget
  <2>3. b = 1 + changes[l] + faults
    BY DEF Budget
  <2>4. Fault => faults' = faults + 1
    BY DEF Fault
  <2>5. UNCHANGED faults => Budget(l)' = b
    BY <2>2, <2>3
  <2>6. Fault => Budget(l)' = b + 1
    <3>1. PICK c \in Nat, f \in Nat : c = changes[l] /\ f = faults
      BY <1>0
    <3>2. Fault => Budget(l)' = 1 + c + (f + 1)
      BY <2>2, <2>4, <3>1
    <3>3. b = 1 + c + f /\ (1 + c) + (f + 1) = b + 1
      BY <2>3, <3>1
    <3> QED BY <3>2, <3>3
  <2> QED BY <2>1, <2>5, <2>6
<1>1. CASE Fetch(r) \/ FetchWithFailure(r)
  <2>1. PICK S \in SUBSET Laws : Fetched(r, S)
    BY <1>1 DEF Fetch, FetchEach, FetchAll, FetchWithFailure, Readable
  <2> DEFINE docs == {<<i, site[i]>> : i \in S}
  <2>2. docs \in SUBSET (Laws \X Texts) /\ \A d, e \in docs : d[1] = e[1] => d = e
    BY DocsOfSite
  <2>3. /\ m.at = "idle" /\ run' = [run EXCEPT ![r] = GoOn(docs)]
        /\ UNCHANGED <<source, map, stream>>
    BY <2>1 DEF Fetched
  <2>4. Budget(l)' \in {b, b + 1} /\ site'[l] = w
    BY <1>1, <1>b, <2>3 DEF Fetch, FetchEach, FetchAll, FetchWithFailure
  <2>5. \A t : <<l, t>> \in docs => t = w
    OBVIOUS
  <2>6. n + Diff(s, w) <= b
    BY <1>0, <2>3 DEF Account
  <2>7. PICK k : k = GoOn(docs)
    OBVIOUS
  <2>8. RunDocs(k) /\ k.docs = docs /\ k.at \in {"idle", "inspect"}
    BY <2>2, <2>7, GoOnDocs
  <2> HIDE DEF docs
  <2>9. Account(l, k, n, s, w, b)
    <3>1. \A t \in Texts : <<l, t>> \in k.docs => n + Diff(s, t) + Diff(t, w) <= b
      BY <1>0, <1>d, <2>5, <2>6, <2>8, DiffIs
    <3> QED BY <2>6, <2>8, <3>1 DEF Account
  <2>10. Account(l, k, n, s, w, Budget(l)')
    BY <1>0, <2>4, <2>9, AccountGrows
  <2>11. Goal(k)
    BY <2>3, <2>4, <2>7, <2>8, <2>10
  <2> QED BY <2>11
<1>2. CASE Inspect(r)
  <2>1. PICK d \in m.docs :
          run' = [run EXCEPT ![r] =
            IF UnchangedText(d[1], d[2]) THEN GoOn(m.docs \ {d})
            ELSE [at |-> "send", docs |-> m.docs \ {d}, law |-> d[1],
                  text |-> d[2], attempt |-> 1]]
    BY <1>2 DEF Inspect
  <2>2. m.at = "inspect" /\ UNCHANGED <<source, map, stream, faults>>
    BY <1>2 DEF Inspect
  <2>3. site'[l] = w /\ Budget(l)' = b /\ map'[l] = s /\ Len(stream'[l]) = n
    BY <1>b, <2>2
  <2>4. PICK i \in Laws, t \in Texts : d = <<i, t>>
    BY <1>0
  <2>5. /\ m.docs \ {d} \in SUBSET (Laws \X Texts)
        /\ \A e, f \in m.docs \ {d} : e[1] = f[1] => e = f
        /\ \A e \in m.docs \ {d} : e[1] # i
    BY <1>0, <2>4 DEF RunDocs
  <2>6. CASE UnchangedText(d[1], d[2])
    <3>1. PICK k : k = GoOn(m.docs \ {d})
      OBVIOUS
    <3>2. RunDocs(k) /\ k.docs = m.docs \ {d} /\ k.at \in {"idle", "inspect"}
      BY <2>5, <3>1, GoOnDocs
    <3>3. Account(l, k, n, s, w, b)
      BY <1>0, <2>2, <3>2 DEF Account
    <3>4. Goal(k)
      BY <2>1, <2>3, <2>6, <3>1, <3>2, <3>3
    <3> QED BY <3>4
  <2>7. CASE ~ UnchangedText(d[1], d[2])
    <3>1. PICK k : k = [at |-> "send", docs |-> m.docs \ {d}, law |-> i, text |-> t,
                        attempt |-> 1]
      OBVIOUS
    <3>2. /\ k.at = "send" /\ k.docs = m.docs \ {d} /\ k.law = i /\ k.text = t
          /\ run' = [run EXCEPT ![r] = k]
      BY <2>1, <2>4, <2>7, <3>1
    <3>3. RunDocs(k)
      BY <2>5, <3>2 DEF RunDocs
    <3>4. map[i] # t
      BY <2>4, <2>7 DEF UnchangedText
    <3>5. i = l => n + 1 + Diff(t, w) <= b
      <4> SUFFICES ASSUME i = l PROVE n + 1 + Diff(t, w) <= b
        OBVIOUS
      <4>1. <<l, t>> \in m.docs /\ Diff(s, t) = 1
        BY <2>4, <3>4, DiffIs
      <4>2. n + Diff(s, t) + Diff(t, w) <= b
        BY <1>0, <4>1 DEF Account
      <4> QED BY <4>1, <4>2
    <3>6. i # l => n + Diff(s, w) <= b
      BY <1>0, <2>2 DEF Account
    <3>7. Account(l, k, n, s, w, b)
      <4>1. \A x \in Texts : <<l, x>> \in k.docs => n + Diff(s, x) + Diff(x, w) <= b
        BY <1>0, <3>2 DEF Account
      <4> QED BY <3>2, <3>5, <3>6, <4>1 DEF Account
    <3>8. Goal(k)
      BY <2>3, <3>2, <3>3, <3>7
    <3> QED BY <3>8
  <2> QED BY <2>6, <2>7
<1>3. CASE Send(r)
  <2>1. /\ m.at = "send" /\ Appended(r) /\ UNCHANGED <<source, map, faults>>
        /\ run' = [run EXCEPT ![r].at = "commit"]
    BY <1>3 DEF Send
  <2>2. Len(stream'[l]) = n + (IF l = m.law THEN 1 ELSE 0)
    BY <2>1, AppendedJob
  <2>3. PICK k : k = [m EXCEPT !.at = "commit"]
    OBVIOUS
  <2>4. k.at = "commit" /\ k.law = m.law /\ k.text = m.text /\ k.docs = m.docs
    BY <1>0, <2>3 DEF GoodRun, RunOf
  <2>5. run' = [run EXCEPT ![r] = k]
    BY <2>1, <2>3 DEF TypeOK
  <2>6. RunDocs(k)
    BY <1>0, <2>1, <2>4 DEF RunDocs
  <2>7. CASE l = m.law
    <3>1. Account(l, k, n + 1, s, w, b)
      <4>1. \A t \in Texts : <<l, t>> \notin k.docs
        BY <2>4, <2>6, <2>7 DEF RunDocs
      <4>2. n + 1 + Diff(k.text, w) <= b
        BY <1>0, <2>1, <2>4, <2>7 DEF Account
      <4> QED BY <2>4, <2>7, <4>1, <4>2 DEF Account
    <3>2. Goal(k)
      BY <1>b, <2>1, <2>2, <2>5, <2>6, <2>7, <3>1
    <3> QED BY <3>2
  <2>8. CASE l # m.law
    <3>1. Account(l, k, n, s, w, b)
      BY <1>0, <2>1, <2>4, <2>8 DEF Account
    <3>2. Len(stream'[l]) = n
      BY <1>0, <2>2, <2>8
    <3>3. Goal(k)
      BY <1>b, <2>1, <2>5, <2>6, <3>1, <3>2
    <3> QED BY <3>3
  <2> QED BY <2>7, <2>8
<1>4. CASE SendFails(r)
  <2>1. /\ m.at = "send" /\ Fault /\ (Appended(r) \/ UNCHANGED stream)
        /\ UNCHANGED <<source, map>> /\ run' = [run EXCEPT ![r] = AfterFailedSend(m)]
    BY <1>4 DEF SendFails
  <2>2. PICK j \in {0, 1} : Len(stream'[l]) = n + j /\ (l # m.law => j = 0)
    <3>1. CASE Appended(r)
      <4>1. Len(stream'[l]) = n + (IF l = m.law THEN 1 ELSE 0)
        BY <2>1, <3>1, AppendedJob
      <4> QED BY <4>1
    <3>2. CASE UNCHANGED stream
      <4>1. Len(stream'[l]) = n + 0
        BY <1>0, <3>2
      <4> QED BY <4>1
    <3> QED BY <2>1, <3>1, <3>2
  <2>3. PICK k : k = AfterFailedSend(m)
    OBVIOUS
  <2>4. /\ k.at \in {"send", "idle"} /\ k.docs \subseteq m.docs
        /\ k.at = "send" => k.docs = m.docs /\ k.law = m.law /\ k.text = m.text
    BY <1>0, <2>1, <2>3, AfterFailedSendGood
  <2>5. RunDocs(k)
    BY <1>0, <2>1, <2>3, FailedSendDocs
  <2>6. Account(l, k, n + j, s, w, b + 1)
    <3>1. CASE l = m.law
      <4>1. \A t \in Texts : <<l, t>> \notin k.docs
        BY <1>0, <2>1, <2>4, <3>1 DEF RunDocs
      <4>2. n + 1 + Diff(m.text, w) <= b
        BY <1>0, <2>1, <3>1 DEF Account
      <4>3. /\ n + j + Diff(s, w) <= b + 1
            /\ n + j + 1 + Diff(m.text, w) <= b + 1
        <5>1. Diff(s, w) \in {0, 1} /\ Diff(m.text, w) \in {0, 1}
          BY <1>d
        <5> HIDE DEF Goal
        <5> QED BY <1>0, <4>2, <5>1
      <4> QED BY <2>4, <4>1, <4>3 DEF Account
    <3>2. CASE l # m.law
      <4>1. j = 0 /\ n + j = n
        BY <1>0, <2>2, <3>2
      <4>2. n + Diff(s, w) <= b + 1
        BY <1>0, <1>d, <3>2 DEF Account
      <4>3. \A t \in Texts : <<l, t>> \in k.docs => n + Diff(s, t) + Diff(t, w) <= b + 1
        BY <1>0, <1>d, <2>4 DEF Account
      <4> QED BY <2>4, <3>2, <4>1, <4>2, <4>3 DEF Account
    <3> QED BY <3>1, <3>2
  <2>7. Goal(k)
    BY <1>b, <2>1, <2>2, <2>3, <2>5, <2>6
  <2> QED BY <2>7
<1>5. CASE Commit(r)
  <2>1. /\ m.at = "commit" /\ map' = [map EXCEPT ![m.law] = m.text]
        /\ run' = [run EXCEPT ![r] = GoOn(m.docs)] /\ UNCHANGED <<source, stream, faults>>
    BY <1>5 DEF Commit, Recorded
  <2>2. PICK k : k = GoOn(m.docs)
    OBVIOUS
  <2>3. RunDocs(k) /\ k.docs = m.docs /\ k.at \in {"idle", "inspect"}
    BY <1>0, <2>2, GoOnDocs DEF RunDocs
  <2>4. Account(l, k, n, map'[l], w, b)
    <3>1. CASE l = m.law
      <4>1. map'[l] = m.text
        BY <2>1, <3>1 DEF TypeOK
      <4>2. n + Diff(m.text, w) <= b
        BY <1>0, <2>1, <3>1 DEF Account
      <4>3. \A t \in Texts : <<l, t>> \notin k.docs
        BY <1>0, <2>1, <2>3, <3>1 DEF RunDocs
      <4> QED BY <2>3, <4>1, <4>2, <4>3 DEF Account
    <3>2. CASE l # m.law
      <4>1. map'[l] = s
        BY <2>1, <3>2 DEF TypeOK
      <4> QED BY <1>0, <2>3, <3>2, <4>1 DEF Account
    <3> QED BY <3>1, <3>2
  <2>5. Goal(k)
    BY <1>b, <2>1, <2>2, <2>3, <2>4
  <2> QED BY <2>5
<1>6. CASE CommitPartly(r)
  <2>1. /\ Fault /\ run' = [run EXCEPT ![r] = GoOn(m.docs)] /\ UNCHANGED <<source, map, stream>>
    BY <1>6 DEF CommitPartly
  <2>2. PICK k : k = GoOn(m.docs)
    OBVIOUS
  <2>3. RunDocs(k) /\ k.docs = m.docs /\ k.at \in {"idle", "inspect"}
    BY <1>0, <2>2, GoOnDocs DEF RunDocs
  <2>4. Account(l, k, n, s, w, b + 1)
    BY <1>0, <2>3, AccountDropped
  <2>5. Goal(k)
    BY <1>b, <2>1, <2>2, <2>3, <2>4
  <2> QED BY <2>5
<1>7. CASE CommitUnanswered(r)
  <2>1. /\ m.at = "commit" /\ Fault /\ map' = [map EXCEPT ![m.law] = m.text]
        /\ run' = [run EXCEPT ![r] = Idle] /\ UNCHANGED <<source, stream>>
    BY <1>7 DEF CommitUnanswered, Recorded
  <2>2. Account(l, Idle, n, map'[l], w, b)
    <3>1. CASE l = m.law
      <4>1. map'[l] = m.text
        BY <2>1, <3>1 DEF TypeOK
      <4>2. n + Diff(m.text, w) <= b
        BY <1>0, <2>1, <3>1 DEF Account
      <4> QED BY <4>1, <4>2, IdleDocs DEF Account
    <3>2. CASE l # m.law
      <4>1. map'[l] = s
        BY <2>1, <3>2 DEF TypeOK
      <4>2. n + Diff(s, w) <= b
        BY <1>0, <3>2 DEF Account
      <4> QED BY <4>1, <4>2, IdleDocs DEF Account
    <3> QED BY <3>1, <3>2
  <2>3. Account(l, Idle, n, map'[l], w, b + 1)
    BY <1>0, <2>2, AccountGrows
  <2>4. Goal(Idle)
    BY <1>b, <2>1, <2>3, IdleDocs
  <2> QED BY <2>4
<1>8. CASE RunDies(r)
  <2>1. /\ Fault /\ run' = [run EXCEPT ![r] = Idle] /\ UNCHANGED <<source, map, stream>>
    BY <1>8 DEF RunDies
  <2>2. Account(l, Idle, n, s, w, b + 1)
    BY <1>0, AccountDropped, IdleDocs
  <2>3. Goal(Idle)
    BY <1>b, <2>1, <2>2, IdleDocs
  <2> QED BY <2>3
<1> QED BY <1>1, <1>2, <1>3, <1>4, <1>5, <1>6, <1>7, <1>8 DEF Step

\* A law has at most the jobs of the budget.
LEMMA WithinBudget ==
  ASSUME NEW l, NEW m, NEW n \in Nat, NEW s, NEW w, NEW b \in Nat, Account(l, m, n, s, w, b)
  PROVE  n <= b
<1>1. \A x, y : Diff(x, y) \in Nat
  BY DEF Diff
<1> QED BY <1>1 DEF Account

\* What the account of an idle run says is what that of any idle run says.
LEMMA IdleAccount ==
  ASSUME NEW l, NEW m, NEW n \in Nat, NEW s, NEW w, NEW b \in Nat, NEW k,
         Account(l, m, n, s, w, b), m.at = "idle", k.at = "idle", k.docs = {}
  PROVE  Account(l, k, n, s, w, b)
BY DEF Account

LEMMA CountInitial == Init => CountInv
<1> SUFFICES ASSUME Init PROVE CountInv
  OBVIOUS
<1>1. \A r \in Runners : RunDocs(run[r]) /\ run[r].at = "idle" /\ run[r].docs = {}
  BY IdleDocs DEF Init
<1>2. ASSUME NEW l \in Laws
      PROVE  Len(stream[l]) = 0 /\ Budget(l) = 1
  BY DEF Init, Budget
<1>3. ASSUME NEW r \in Runners, NEW l \in Laws
      PROVE  Balanced(l, run[r])
  <2>1. Diff(map[l], site[l]) \in {0, 1}
    BY DEF Diff
  <2> QED BY <1>1, <1>2, <2>1 DEF Balanced, Account
<1>4. OneJobPerText
  BY <1>2 DEF OneJobPerText, Budget
<1>5. \A r \in Runners : Alone(r)
  BY <1>1 DEF Alone
<1> QED BY <1>1, <1>3, <1>4, <1>5 DEF CountInv

\* A run that takes a step without overlapping another is the only one.
LEMMA StepAlone ==
  ASSUME CountInv, NEW r \in Runners, Step(r), ~ overlapped'
  PROVE  ~ overlapped /\ Alone(r)
<1>1. CASE Fetch(r) \/ FetchWithFailure(r)
  <2>1. overlapped' = (overlapped \/ \E q \in Runners : run[q].at # "idle")
    BY <1>1 DEF Fetch, FetchEach, FetchAll, FetchWithFailure, Fetched
  <2> QED BY <2>1 DEF Alone
<1>2. CASE ~ (Fetch(r) \/ FetchWithFailure(r))
  <2>1. run[r].at # "idle" /\ overlapped' = overlapped
    BY <1>2 DEF Step, Inspect, Send, SendFails, Commit, CommitPartly, CommitUnanswered,
       RunDies
  <2> QED BY <2>1 DEF CountInv
<1> QED BY <1>1, <1>2

LEMMA CountStep ==
  ASSUME TypeOK, TypeOK', CountInv, NEW r \in Runners, Step(r)
  PROVE  CountInv'
<1>1. PICK m : run' = [run EXCEPT ![r] = m] /\ RunDocs(m)
  BY StepDocs DEF CountInv
<1>2. /\ run'[r] = m
      /\ \A q \in Runners : q # r => run'[q] = run[q]
  BY <1>1 DEF TypeOK
<1>3. \A q \in Runners : RunDocs(run'[q])
  BY <1>1, <1>2 DEF CountInv
<1>4. ASSUME ~ overlapped'
      PROVE  /\ Alone(r) /\ \A q \in Runners \ {r} : run'[q].at = "idle"
             /\ \A l \in Laws : Account(l, m, Len(stream'[l]), map'[l], site'[l], Budget(l)')
  <2>1. ~ overlapped /\ Alone(r)
    BY <1>4, StepAlone
  <2>2. \A q \in Runners \ {r} : run'[q].at = "idle"
    BY <1>2, <2>1 DEF Alone
  <2>3. ASSUME NEW l \in Laws
        PROVE  Account(l, m, Len(stream'[l]), map'[l], site'[l], Budget(l)')
    <3>1. Balanced(l, run[r]) /\ RunDocs(run[r])
      BY <2>1 DEF CountInv
    <3>2. PICK k : /\ run' = [run EXCEPT ![r] = k]
                   /\ Account(l, k, Len(stream'[l]), map'[l], site'[l], Budget(l)')
      BY <3>1, StepBalanced
    <3>3. k = m
      BY <1>2, <3>2 DEF TypeOK
    <3> QED BY <3>2, <3>3
  <2> QED BY <2>1, <2>2, <2>3
<1>n. \A l \in Laws : Len(stream'[l]) \in Nat /\ Budget(l)' \in Nat
  <2>1. /\ stream' \in [Laws -> Seq(Texts)] /\ changes' \in [Laws -> Nat]
        /\ faults' \in Nat
    BY DEF TypeOK
  <2> QED BY <2>1 DEF Budget
<1>5. ASSUME ~ overlapped', NEW q \in Runners, \A p \in Runners \ {q} : run'[p].at = "idle",
             NEW l \in Laws
      PROVE  Account(l, run'[q], Len(stream'[l]), map'[l], site'[l], Budget(l)')
  <2>1. CASE q = r
    BY <1>2, <1>4, <1>5, <2>1
  <2>2. CASE q # r
    <3>1. m.at = "idle" /\ run'[q].at = "idle" /\ run'[q].docs = {}
      BY <1>2, <1>3, <1>4, <1>5, <2>2 DEF RunDocs
    <3> QED BY <1>4, <1>5, <1>n, <3>1, IdleAccount
  <2> QED BY <2>1, <2>2
<1>6. OneJobPerText'
  <2>1. ASSUME ~ overlapped', NEW l \in Laws
        PROVE  Len(stream'[l]) <= Budget(l)'
    BY <1>4, <1>n, <2>1, WithinBudget
  <2> QED BY <2>1 DEF OneJobPerText, Budget
<1>7. ~ overlapped' => \A q \in Runners : run'[q].at # "idle" =>
        \A p \in Runners \ {q} : run'[p].at = "idle"
  BY <1>4
<1> QED BY <1>3, <1>5, <1>6, <1>7 DEF CountInv, Alone, Balanced

\* The source changes, or the digests expire: no run moves, and the budget pays.
LEMMA CountElsewhere ==
  ASSUME TypeOK, CountInv, Expire \/ \E l \in Laws : Amend(l)
  PROVE  CountInv'
<1>1. UNCHANGED <<run, stream, overlapped>>
  BY DEF Expire, Amend
<1>2. ASSUME NEW l \in Laws
      PROVE  /\ Budget(l)' \in Nat /\ Budget(l) <= Budget(l)'
             /\ \A m : Balanced(l, m) =>
                  Account(l, m, Len(stream[l]), map'[l], site'[l], Budget(l)')
  <2>0. changes[l] \in Nat /\ faults \in Nat /\ Len(stream[l]) \in Nat /\ Budget(l) \in Nat
    BY Numbers DEF TypeOK
  <2>1. CASE Expire
    <3>1. Budget(l)' = Budget(l) + 1 /\ site'[l] = site[l]
      BY <2>0, <2>1 DEF Expire, Fault, Budget, source
    <3> QED BY <2>0, <3>1, AccountExpired DEF Balanced
  <2>2. ASSUME NEW i \in Laws, Amend(i)
        PROVE  /\ Budget(l)' \in Nat /\ Budget(l) <= Budget(l)'
               /\ \A m : Balanced(l, m) =>
                    Account(l, m, Len(stream[l]), map'[l], site'[l], Budget(l)')
    <3>1. PICK t \in Texts : site' = [site EXCEPT ![i] = t]
      BY <2>2 DEF Amend
    <3>2. UNCHANGED <<map, faults>> /\ changes' = [changes EXCEPT ![i] = changes[i] + 1]
      BY <2>2 DEF Amend
    <3>3. CASE l = i
      <4>1. Budget(l)' = Budget(l) + 1 /\ map'[l] = map[l]
        BY <2>0, <3>2, <3>3 DEF Budget, TypeOK
      <4> QED BY <2>0, <4>1, AccountAmended DEF Balanced
    <3>4. CASE l # i
      <4>1. Budget(l)' = Budget(l) /\ map'[l] = map[l] /\ site'[l] = site[l]
        BY <3>1, <3>2, <3>4 DEF Budget, TypeOK
      <4> QED BY <2>0, <4>1 DEF Balanced
    <3> QED BY <3>3, <3>4
  <2> QED BY <2>1, <2>2
<1>3. OneJobPerText'
  <2>1. ASSUME ~ overlapped, NEW l \in Laws
        PROVE  Len(stream[l]) <= Budget(l)'
    <3>1. Len(stream[l]) <= Budget(l)
      BY <2>1 DEF CountInv, OneJobPerText, Budget
    <3> QED BY <1>2, <3>1, Numbers
  <2> QED BY <1>1, <2>1 DEF OneJobPerText, Budget
<1>4. ASSUME NEW r \in Runners, NEW l \in Laws, Balanced(l, run[r])
      PROVE  Account(l, run'[r], Len(stream'[l]), map'[l], site'[l], Budget(l)')
  BY <1>1, <1>2, <1>4
<1> QED BY <1>1, <1>3, <1>4 DEF CountInv, Alone, Balanced

\* Unless runs overlap, a law has one job for its first text and one for each
\* change, and each fault costs it at most one more
\* (docs/scraper-devspec.md:253-254).
THEOREM OneJobForEachText == Spec => []OneJobPerText
<1>1. Init => FeedInv /\ CountInv
  BY FeedInitial, CountInitial
<1>2. ASSUME FeedInv, CountInv, [Next]_vars
      PROVE  FeedInv' /\ CountInv'
  <2>1. FeedInv'
    BY <1>2, FeedSound
  <2>2. TypeOK /\ TypeOK'
    BY <1>2, <2>1 DEF FeedInv
  <2>3. CASE UNCHANGED vars
    BY <1>2, <2>1, <2>3 DEF vars, source, CountInv, OneJobPerText, Alone, Balanced, Budget
  <2>4. CASE Expire \/ \E l \in Laws : Amend(l)
    BY <1>2, <2>1, <2>2, <2>4, CountElsewhere
  <2>5. CASE \E r \in Runners : Step(r)
    BY <1>2, <2>1, <2>2, <2>5, CountStep
  <2> QED BY <1>2, <2>1, <2>3, <2>4, <2>5, NextCases
<1>3. CountInv => OneJobPerText
  BY DEF CountInv
<1> QED BY <1>1, <1>2, <1>3, PTL DEF Spec
=============================================================================
