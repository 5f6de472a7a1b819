----------------------- MODULE InteractiveSearchProofs -----------------------
(***************************************************************************)
(* Proofs about InteractiveSearch, for any titles, releases, indexers,     *)
(* searches, requests and settings.                                        *)
(*                                                                         *)
(* SubmissionsAccounted is inductive together with four facts: the rows    *)
(* and requests are records of the right shape, one request at a time has  *)
(* a row, that row is offered, and an indexer that has not answered has no *)
(* rows yet.  What a row's score is plays no part, so neither do edits.    *)
(*                                                                         *)
(* ScoresTruthful is inductive together with two facts about the settings: *)
(* a format or profile that does not exist is given no score and assigned  *)
(* to nobody, and a reading that no edit overtook is current.  An          *)
(* evaluation is a fold over the formats; that it is a number, and the     *)
(* same where every format brings the same, is proved by the least size of *)
(* a set of formats that would be an exception.                            *)
(***************************************************************************)
EXTENDS InteractiveSearch, FiniteSetTheorems, TLAPS

SearchFields == {"at", "job", "title", "added", "chosen", "pending", "policy"}
ResultFields == {"state", "fresh", "allowed", "score", "profile", "entity", "client"}

Shape ==
  /\ DOMAIN search = Searches /\ \A j \in Searches : DOMAIN search[j] = SearchFields
  /\ DOMAIN result = Rows /\ \A w \in Rows : DOMAIN result[w] = ResultFields
  /\ request \in [Requests -> Request]
  /\ sent \in [Rows -> Nat] /\ lost \in [Rows -> Nat]
  /\ title \in [Titles -> {"absent", "found", "acquired"}]

Holds(q) == q.at \in {"ready", "submitted"}

\* One request at a time has a row.
Exclusive ==
  \A d, e \in Requests : Holds(request[d]) /\ Holds(request[e]) /\ request[d].row = request[e].row => d = e

\* The row a request has is offered.
HeldOffered ==
  \A d \in Requests : Holds(request[d]) =>
    request[d].row \in Rows /\ result[request[d].row].state = "offered"

\* A row comes with the answer of its indexer.
NoAnswerNoRow ==
  \A j \in Searches, r \in Releases :
    \/ search[j].at \in {"free", "scheduled"}
    \/ search[j].at = "asking" /\ IndexerOf[r] \in search[j].pending
    => result[<<j, r>>].state = "none"

IInv == Shape /\ Exclusive /\ HeldOffered /\ NoAnswerNoRow /\ SubmissionsAccounted

-----------------------------------------------------------------------------

LEMMA InitIInv == Init => IInv
<1> SUFFICES ASSUME Init PROVE IInv
  OBVIOUS
<1>1. Shape
  BY DEF Init, Shape, NoSearch, NoResult, NoRequest, SearchFields, ResultFields, Request
<1>2. Exclusive /\ HeldOffered
  BY DEF Init, Exclusive, HeldOffered, Holds, NoRequest
<1>3. NoAnswerNoRow
  BY DEF Init, NoAnswerNoRow, NoResult, Rows
<1>4. SubmissionsAccounted
  BY DEF Init, SubmissionsAccounted, NoResult, NoRequest
<1> QED BY <1>1, <1>2, <1>3, <1>4 DEF IInv

\* What a clean-up or an answer does to the rows keeps every one that is held or selected.
RowsKept ==
  /\ DOMAIN result' = Rows /\ \A w \in Rows : DOMAIN result'[w] = ResultFields
  /\ \A w \in Rows : w \in Locked => (result[w].state = "offered" => result'[w].state = "offered")
  /\ \A w \in Rows : result'[w].state = "selected" <=> result[w].state = "selected"

LEMMA CleanedKeeps ==
  ASSUME Shape, CanCleanUp, result' = Cleaned
  PROVE  RowsKept /\ \A w \in Rows : result'[w] = result[w] \/ (result'[w].state = "none" /\ result[w].state = "offered")
  BY DEF Shape, CanCleanUp, Cleaned, Expired, RowsKept, NoResult, ResultFields

LEMMA SearchKeeps ==
  ASSUME IInv, RowsKept, Shape', NoAnswerNoRow', UNCHANGED <<request, sent, lost>>
  PROVE  IInv'
<1>1. Exclusive'
  BY DEF IInv, Exclusive
<1>2. HeldOffered'
  BY DEF IInv, HeldOffered, Holds, RowsKept, Locked
<1>3. SubmissionsAccounted'
  BY DEF IInv, SubmissionsAccounted, RowsKept
<1> QED BY <1>1, <1>2, <1>3 DEF IInv

-----------------------------------------------------------------------------
(* The search                                                              *)

LEMMA StartKeeps ==
  ASSUME IInv, NEW j \in Searches, NEW t \in Titles, NEW p \in Profiles \cup {None}, Start(j, t, p)
  PROVE  IInv'
<1>1. RowsKept /\ \A w \in Rows : result'[w] = result[w] \/ result'[w].state = "none"
  BY CleanedKeeps DEF IInv, Start
<1>2. Shape'
  BY <1>1 DEF IInv, Shape, RowsKept, Start, Becomes, NoSearch, SearchFields
<1>3. NoAnswerNoRow'
  <2> SUFFICES ASSUME NEW i \in Searches, NEW r \in Releases,
                      \/ search'[i].at \in {"free", "scheduled"}
                      \/ search'[i].at = "asking" /\ IndexerOf[r] \in search'[i].pending
               PROVE  result'[<<i, r>>].state = "none"
    BY DEF NoAnswerNoRow
  <2>1. \/ search[i].at = search'[i].at /\ search[i].pending = search'[i].pending
        \/ search[i].at = "free"
    BY DEF IInv, Shape, Start, Becomes
  <2>2. result[<<i, r>>].state = "none" /\ <<i, r>> \in Rows
    BY <2>1 DEF IInv, NoAnswerNoRow, Rows
  <2> QED BY <2>2, <1>1
<1> QED BY <1>1, <1>2, <1>3, SearchKeeps DEF Start

LEMMA SetUpKeeps ==
  ASSUME IInv, NEW j \in Searches, SetUp(j)
  PROVE  IInv'
<1>1. RowsKept /\ \A w \in Rows : result'[w] = result[w] \/ result'[w].state = "none"
  <2>1. CASE UNCHANGED result
    BY <2>1 DEF IInv, Shape, RowsKept
  <2>2. CASE CanCleanUp /\ result' = Cleaned
    BY <2>2, CleanedKeeps DEF IInv
  <2> QED BY <2>1, <2>2 DEF SetUp
<1>2. Shape'
  BY <1>1 DEF IInv, Shape, RowsKept, SetUp, Becomes, Job, SearchFields
<1>3. NoAnswerNoRow'
  <2> SUFFICES ASSUME NEW i \in Searches, NEW r \in Releases,
                      \/ search'[i].at \in {"free", "scheduled"}
                      \/ search'[i].at = "asking" /\ IndexerOf[r] \in search'[i].pending
               PROVE  result'[<<i, r>>].state = "none"
    BY DEF NoAnswerNoRow
  <2>1. (search[i].at = search'[i].at /\ search[i].pending = search'[i].pending) \/ search[i].at = "scheduled"
    BY DEF IInv, Shape, SetUp, Becomes, Job, SearchFields
  <2>2. result[<<i, r>>].state = "none" /\ <<i, r>> \in Rows
    BY <2>1 DEF IInv, NoAnswerNoRow, Rows
  <2> QED BY <2>2, <1>1
<1> QED BY <1>1, <1>2, <1>3, SearchKeeps DEF SetUp

\* Ending, failing or cancelling a search touches no row.
LEMMA NoRowKeeps ==
  ASSUME IInv, UNCHANGED <<title, result, request, sent, lost>>, NEW j \in Searches, NEW s,
         Becomes(j, s), DOMAIN s = SearchFields,
         \/ s.at \in {"done", "lost"}
         \/ s.at = search[j].at /\ s.pending = search[j].pending
  PROVE  IInv'
<1>1. RowsKept
  BY DEF IInv, Shape, RowsKept
<1>2. Shape'
  BY DEF IInv, Shape, Becomes
<1>3. NoAnswerNoRow'
  BY DEF IInv, Shape, NoAnswerNoRow, Becomes
<1> QED BY <1>1, <1>2, <1>3, SearchKeeps

LEMMA EndsKeep ==
  ASSUME IInv, NEW j \in Searches, SearchFails(j) \/ Finish(j) \/ Cancel(j)
  PROVE  IInv'
<1> DEFINE Ended(status) == [search[j] EXCEPT !.job = status, !.at = "done", !.pending = {}]
<1>1. DOMAIN search[j] = SearchFields
  BY DEF IInv, Shape
<1>2. \A status : DOMAIN Ended(status) = SearchFields /\ Ended(status).at = "done"
  BY <1>1 DEF SearchFields
<1>3. ASSUME NEW status, Job(j, status), UNCHANGED <<title, result, request, sent, lost>>
      PROVE  IInv'
  BY <1>2, <1>3, NoRowKeeps DEF Job
<1>4. CASE SearchFails(j)
  <2> DEFINE s == [search[j] EXCEPT !.at = "lost"]
  <2>1. DOMAIN s = SearchFields /\ s.at = "lost"
    BY <1>1 DEF SearchFields
  <2>2. UNCHANGED <<title, result, request, sent, lost>>
    BY <1>4 DEF SearchFails
  <2>3. CASE Becomes(j, s)
    BY <2>1, <2>2, <2>3, NoRowKeeps
  <2> QED BY <1>3, <1>4, <2>2, <2>3 DEF SearchFails
<1>5. CASE Finish(j)
  BY <1>3, <1>5 DEF Finish
<1>6. CASE Cancel(j)
  <2> DEFINE s == [search[j] EXCEPT !.job = "cancelled"]
  <2>1. DOMAIN s = SearchFields /\ s.at = search[j].at /\ s.pending = search[j].pending
    BY <1>1 DEF SearchFields
  <2> QED BY <1>6, <2>1, NoRowKeeps DEF Cancel
<1> QED BY <1>4, <1>5, <1>6

\* The rows an answer brings were not there: what is stored replaces nothing.
LEMMA AnswerStores ==
  ASSUME IInv, NEW j \in Searches, NEW x \in Indexers, NEW found \in SUBSET Releases, Answer(j, x, found)
  PROVE  /\ RowsKept
         /\ \A w \in Rows : \/ result'[w] = result[w]
                            \/ /\ result[w].state = "none" /\ w[1] = j /\ w[2] \in Offers(x, search[j].title)
                               /\ search[j].at = "asking" /\ search'[j].pending = search[j].pending \ {x}
                               /\ result'[w] = Judged(search[j], w[2])
<1>1. CASE UNCHANGED result
  BY <1>1 DEF IInv, Shape, RowsKept
<1>2. CASE result' = Stored(j, found) /\ Becomes(j, [search[j] EXCEPT !.pending = @ \ {x}])
  <2>1. \A r \in found : result[<<j, r>>].state = "none"
    BY DEF Answer, IInv, NoAnswerNoRow, Offers
  <2>2. \A w \in Rows : w = <<w[1], w[2]>> /\ w[1] \in Searches /\ w[2] \in Releases
    BY DEF Rows
  <2>3. \A w \in Rows : result'[w] = IF w[1] = j /\ w[2] \in found THEN Judged(search[j], w[2]) ELSE result[w]
    BY <1>2 DEF Stored
  <2>4. \A r : Judged(search[j], r).state = "offered" /\ DOMAIN Judged(search[j], r) = ResultFields
    BY DEF Judged, ResultFields
  <2>5. \A w \in Rows : result'[w] = result[w] \/ (result[w].state = "none" /\ w[1] = j /\ w[2] \in found
                                                 /\ result'[w] = Judged(search[j], w[2]))
    BY <2>1, <2>2, <2>3
  <2>6. DOMAIN result' = Rows
    BY <1>2 DEF Stored
  <2>7. \A w \in Rows : DOMAIN result'[w] = ResultFields
    BY <2>3, <2>4 DEF IInv, Shape
  <2>8. \A w \in Rows : result'[w].state = result[w].state \/ (result[w].state = "none" /\ result'[w].state = "offered")
    BY <2>2, <2>1, <2>3, <2>4
  <2>9. RowsKept
    BY <2>6, <2>7, <2>8 DEF RowsKept
  <2>10. search'[j].pending = search[j].pending \ {x}
    BY <1>2 DEF IInv, Shape, Becomes, SearchFields
  <2> QED BY <2>5, <2>9, <2>10 DEF Answer
<1> QED BY <1>1, <1>2 DEF Answer

LEMMA AnswerKeeps ==
  ASSUME IInv, NEW j \in Searches, NEW x \in Indexers, NEW found \in SUBSET Releases, Answer(j, x, found)
  PROVE  IInv'
<1> DEFINE Less == [search[j] EXCEPT !.pending = @ \ {x}]
           Ended(status) == [search[j] EXCEPT !.job = status, !.at = "done", !.pending = {}]
<1>3. DOMAIN search[j] = SearchFields
  BY DEF IInv, Shape
<1>4. /\ DOMAIN Less = SearchFields /\ Less.at = search[j].at /\ Less.pending = search[j].pending \ {x}
      /\ \A status : DOMAIN Ended(status) = SearchFields /\ Ended(status).at = "done"
  BY <1>3 DEF SearchFields
<1>5. Becomes(j, Less) \/ \E status : Becomes(j, Ended(status))
  BY DEF Answer, Job
<1>6. PICK s : /\ Becomes(j, s) /\ DOMAIN s = SearchFields
               /\ s.at = "done" \/ (s.at = search[j].at /\ s.pending = search[j].pending \ {x})
  BY <1>4, <1>5
<1> HIDE DEF Less, Ended
<1>1. Shape'
  <2>1. DOMAIN search' = Searches /\ \A i \in Searches : DOMAIN search'[i] = SearchFields
    BY <1>6 DEF IInv, Shape, Becomes
  <2> QED BY <2>1, AnswerStores DEF IInv, Shape, RowsKept, Answer
<1>2. NoAnswerNoRow'
  <2> SUFFICES ASSUME NEW i \in Searches, NEW r \in Releases,
                      \/ search'[i].at \in {"free", "scheduled"}
                      \/ search'[i].at = "asking" /\ IndexerOf[r] \in search'[i].pending
               PROVE  result'[<<i, r>>].state = "none"
    BY DEF NoAnswerNoRow
  <2>1. /\ search'[i].at = search[i].at
        /\ search'[i].pending \subseteq search[i].pending
    BY <1>6 DEF IInv, Shape, Becomes
  <2>2. result[<<i, r>>].state = "none" /\ <<i, r>> \in Rows
    BY <2>1 DEF IInv, NoAnswerNoRow, Rows
  <2>3. CASE result'[<<i, r>>] = result[<<i, r>>]
    BY <2>2, <2>3
  <2>4. CASE /\ i = j /\ r \in Offers(x, search[j].title)
             /\ search[j].at = "asking" /\ search'[j].pending = search[j].pending \ {x}
    BY <2>1, <2>4 DEF Offers
  <2> QED BY <2>2, <2>3, <2>4, AnswerStores
<1> QED BY <1>1, <1>2, AnswerStores, SearchKeeps DEF Answer

-----------------------------------------------------------------------------
(* The download                                                            *)

\* A request that does not have its row any more, and a row that keeps its state or is selected now.
LEMMA RequestEnds ==
  ASSUME IInv, NEW d \in Requests, Goto(d, Done), UNCHANGED search, Shape',
         \A w \in Rows : result'[w] = result[w] \/ (w = request[d].row /\ Holds(request[d]) /\ result'[w].state = "selected")
  PROVE  Exclusive' /\ HeldOffered' /\ NoAnswerNoRow'
<1>1. ~Holds(Done)
  BY DEF Done, NoRequest, Holds
<1>2. \A e \in Requests : request'[e] = IF e = d THEN Done ELSE request[e]
  BY DEF Goto, IInv, Shape
<1>3. Exclusive'
  BY <1>1, <1>2 DEF IInv, Exclusive
<1>4. HeldOffered'
  <2> SUFFICES ASSUME NEW e \in Requests, Holds(request'[e])
               PROVE  request'[e].row \in Rows /\ result'[request'[e].row].state = "offered"
    BY DEF HeldOffered
  <2>1. e # d /\ request'[e] = request[e]
    BY <1>1, <1>2
  <2>2. request[e].row \in Rows /\ result[request[e].row].state = "offered"
    BY <2>1 DEF IInv, HeldOffered
  <2>3. Holds(request[d]) => request[d].row # request[e].row
    BY <2>1 DEF IInv, Exclusive
  <2> QED BY <2>1, <2>2, <2>3
<1>5. NoAnswerNoRow'
  <2>1. Holds(request[d]) => result[request[d].row].state = "offered"
    BY DEF IInv, HeldOffered
  <2> QED BY <2>1 DEF IInv, NoAnswerNoRow, Rows
<1> QED BY <1>3, <1>4, <1>5

LEMMA PrepareKeeps ==
  ASSUME IInv, NEW d \in Requests, NEW w \in Rows, NEW c \in Clients, Prepare(d, w, c)
  PROVE  IInv'
<1>1. PICK q \in Request : q.at = "ready" /\ q.row = w /\ Goto(d, q)
  <2> DEFINE show == Adds(w) /\ TitleOfRow(w) \notin Movies
             q == [at |-> "ready", row |-> w, client |-> c, staged |-> show /\ TitleOfRow(w) \notin Known,
                   assigns |-> Adds(w) /\ (show => assignment[TitleOfRow(w)] = None)]
  <2>1. q \in Request
    BY DEF Request
  <2>2. q.at = "ready" /\ q.row = w /\ Goto(d, q)
    BY DEF Prepare
  <2> HIDE DEF q
  <2> QED BY <2>1, <2>2
<1>2. \A e \in Requests : request'[e] = IF e = d THEN q ELSE request[e]
  BY <1>1 DEF Goto, IInv, Shape
<1>3. \A e \in Requests : Holds(request[e]) => request[e].row # w
  BY DEF Prepare, Locked, Holds
<1>4. UNCHANGED <<title, search, result, sent, lost>> /\ result[w].state = "offered" /\ request[d].at = "free"
  BY DEF Prepare
<1>5. Shape'
  BY <1>1, <1>4 DEF IInv, Shape, Goto
<1>6. Exclusive'
  BY <1>1, <1>2, <1>3 DEF IInv, Exclusive
<1>7. HeldOffered'
  BY <1>1, <1>2, <1>4 DEF IInv, HeldOffered
<1>8. NoAnswerNoRow'
  BY <1>4 DEF IInv, NoAnswerNoRow
<1>9. SubmissionsAccounted'
  BY <1>1, <1>2, <1>4 DEF IInv, SubmissionsAccounted
<1> QED BY <1>5, <1>6, <1>7, <1>8, <1>9 DEF IInv

LEMMA SubmitKeeps ==
  ASSUME IInv, NEW d \in Requests, Submit(d)
  PROVE  IInv'
<1> DEFINE w == request[d].row
           q == [request[d] EXCEPT !.at = "submitted"]
<1>1. w \in Rows /\ result[w].state = "offered" /\ Holds(request[d])
  BY DEF IInv, HeldOffered, Holds, Submit
<1>2. q \in Request /\ q.at = "submitted" /\ q.row = w
  BY DEF IInv, Shape, Request
<1>3. UNCHANGED <<title, search, result, lost>> /\ Goto(d, q) /\ sent' = [sent EXCEPT ![w] = @ + 1]
  BY DEF Submit
<1>4. \A e \in Requests : e # d /\ Holds(request[e]) => request[e].row # w
  BY <1>1 DEF IInv, Exclusive
<1>10. request[d].at = "ready"
  BY DEF Submit
<1> HIDE DEF w, q
<1>5. \A e \in Requests : request'[e] = IF e = d THEN q ELSE request[e]
  BY <1>3 DEF Goto, IInv, Shape
<1>6. Shape'
  BY <1>1, <1>2, <1>3 DEF IInv, Shape, Goto
<1>7. Exclusive' /\ HeldOffered'
  BY <1>1, <1>2, <1>3, <1>4, <1>5 DEF IInv, Exclusive, HeldOffered, Holds
<1>8. NoAnswerNoRow'
  BY <1>3 DEF IInv, NoAnswerNoRow
<1>9. SubmissionsAccounted'
  <2> SUFFICES ASSUME NEW v \in Rows
               PROVE  sent'[v] = lost'[v] + IF \/ result'[v].state = "selected"
                                               \/ \E e \in Requests : request'[e].at = "submitted" /\ request'[e].row = v
                                            THEN 1 ELSE 0
    BY DEF SubmissionsAccounted
  <2>1. sent[v] = lost[v] + IF \/ result[v].state = "selected"
                               \/ \E e \in Requests : request[e].at = "submitted" /\ request[e].row = v
                            THEN 1 ELSE 0
    BY DEF IInv, SubmissionsAccounted
  <2>2. sent[v] \in Nat /\ lost[v] \in Nat
    BY DEF IInv, Shape
  <2>3. CASE v = w
    <3>1. ~\E e \in Requests : request[e].at = "submitted" /\ request[e].row = w
      BY <1>4, <1>10 DEF Holds
    <3>2. sent'[w] = sent[w] + 1
      BY <1>1, <1>3 DEF IInv, Shape
    <3> QED BY <1>1, <1>2, <1>3, <1>5, <2>1, <2>2, <2>3, <3>1, <3>2
  <2>4. CASE v # w
    <3>1. sent'[v] = sent[v]
      BY <1>3, <2>4 DEF IInv, Shape
    <3>2. (\E e \in Requests : request'[e].at = "submitted" /\ request'[e].row = v)
          <=> \E e \in Requests : request[e].at = "submitted" /\ request[e].row = v
      BY <1>2, <1>5, <1>10, <2>4 DEF w
    <3> QED BY <1>3, <2>1, <3>1, <3>2
  <2> QED BY <2>3, <2>4
<1> QED BY <1>6, <1>7, <1>8, <1>9 DEF IInv

\* A request that ends takes its torrent out of flight and no other.
LEMMA FlightEnds ==
  ASSUME IInv, NEW d \in Requests, Goto(d, Done), NEW v \in Rows
  PROVE  (\E e \in Requests : request'[e].at = "submitted" /\ request'[e].row = v)
         <=> /\ \E e \in Requests : request[e].at = "submitted" /\ request[e].row = v
             /\ ~(request[d].at = "submitted" /\ request[d].row = v)
<1>1. \A e \in Requests : request'[e] = IF e = d THEN Done ELSE request[e]
  BY DEF Goto, IInv, Shape
<1>2. Done.at = "done"
  BY DEF Done, NoRequest
<1>3. \A e, f \in Requests : request[e].at = "submitted" /\ request[f].at = "submitted" /\ request[e].row = request[f].row => e = f
  BY DEF IInv, Exclusive, Holds
<1> QED BY <1>1, <1>2, <1>3

LEMMA DoneIsRequest == Done \in Request
  BY DEF Done, NoRequest, Request

LEMMA SubmitFailsKeeps ==
  ASSUME IInv, NEW d \in Requests, SubmitFails(d)
  PROVE  IInv'
<1> DEFINE w == request[d].row
<1>1. w \in Rows
  BY DEF IInv, HeldOffered, Holds, SubmitFails
<1>2. PICK n \in {0, 1} : sent' = [sent EXCEPT ![w] = @ + n] /\ lost' = [lost EXCEPT ![w] = @ + n]
  BY DEF SubmitFails
<1>3. UNCHANGED <<title, search, result>> /\ Goto(d, Done) /\ request[d].at = "ready"
  BY DEF SubmitFails
<1> HIDE DEF w
<1>4. Shape'
  BY <1>1, <1>2, <1>3, DoneIsRequest DEF IInv, Shape, Goto
<1>5. Exclusive' /\ HeldOffered' /\ NoAnswerNoRow'
  BY <1>3, <1>4, RequestEnds
<1>6. \A v \in Rows : sent[v] \in Nat /\ lost[v] \in Nat
  BY DEF IInv, Shape
<1>7. \A v \in Rows : sent'[v] - lost'[v] = sent[v] - lost[v] /\ sent'[v] \in Nat /\ lost'[v] \in Nat
  BY <1>1, <1>2, <1>6 DEF IInv, Shape
<1>8. \A v \in Rows : (\E e \in Requests : request'[e].at = "submitted" /\ request'[e].row = v)
                      <=> \E e \in Requests : request[e].at = "submitted" /\ request[e].row = v
  BY <1>3, FlightEnds
<1>9. SubmissionsAccounted'
  BY <1>3, <1>6, <1>7, <1>8 DEF IInv, SubmissionsAccounted
<1> QED BY <1>4, <1>5, <1>9 DEF IInv

LEMMA SelectFailsKeeps ==
  ASSUME IInv, NEW d \in Requests, SelectFails(d)
  PROVE  IInv'
<1> DEFINE w == request[d].row
<1>1. w \in Rows /\ result[w].state = "offered"
  BY DEF IInv, HeldOffered, Holds, SelectFails
<1>2. lost' = [lost EXCEPT ![w] = @ + 1]
  BY DEF SelectFails
<1>3. UNCHANGED <<title, search, result, sent>> /\ Goto(d, Done) /\ request[d].at = "submitted"
  BY DEF SelectFails
<1>10. request[d].row = w
  OBVIOUS
<1> HIDE DEF w
<1>4. Shape'
  BY <1>1, <1>2, <1>3, DoneIsRequest DEF IInv, Shape, Goto
<1>5. Exclusive' /\ HeldOffered' /\ NoAnswerNoRow'
  BY <1>3, <1>4, RequestEnds
<1>6. \A v \in Rows : sent[v] \in Nat /\ lost[v] \in Nat /\ lost'[v] = IF v = w THEN lost[v] + 1 ELSE lost[v]
  BY <1>1, <1>2 DEF IInv, Shape
<1>8. \A v \in Rows : (\E e \in Requests : request'[e].at = "submitted" /\ request'[e].row = v)
                      <=> v # w /\ \E e \in Requests : request[e].at = "submitted" /\ request[e].row = v
  BY <1>3, <1>10, FlightEnds
<1>9. SubmissionsAccounted'
  BY <1>1, <1>3, <1>6, <1>8, <1>10 DEF IInv, SubmissionsAccounted
<1> QED BY <1>4, <1>5, <1>9 DEF IInv

\* Only the row of the request changes, and becomes selected.
LEMMA SelectEffect ==
  ASSUME IInv, NEW d \in Requests, Select(d)
  PROVE  /\ request[d].row \in Rows /\ request[d].at = "submitted" /\ Goto(d, Done)
         /\ result[request[d].row].state = "offered"
         /\ DOMAIN result' = Rows /\ \A v \in Rows : DOMAIN result'[v] = ResultFields
         /\ \A v \in Rows : v # request[d].row => result'[v] = result[v]
         /\ result'[request[d].row].state = "selected"
         /\ \A f \in {"score", "allowed", "profile"} : result'[request[d].row][f] = result[request[d].row][f]
<1> DEFINE w == request[d].row
           new == [result[w] EXCEPT !.state = "selected", !.entity = TRUE, !.client = request[d].client]
<1>1. w \in Rows /\ result[w].state = "offered"
  BY DEF IInv, HeldOffered, Holds, Select
<1>2. DOMAIN result[w] = ResultFields
  BY <1>1 DEF IInv, Shape
<1>3. /\ DOMAIN new = ResultFields /\ new.state = "selected"
      /\ \A f \in {"score", "allowed", "profile"} : new[f] = result[w][f]
  BY <1>2 DEF ResultFields
<1>4. result' = [result EXCEPT ![w] = new]
  BY DEF Select
<1>5. Goto(d, Done) /\ request[d].at = "submitted"
  BY DEF Select
<1> HIDE DEF new
<1> QED BY <1>1, <1>3, <1>4, <1>5 DEF IInv, Shape

LEMMA SelectKeeps ==
  ASSUME IInv, NEW d \in Requests, Select(d)
  PROVE  IInv'
<1> DEFINE w == request[d].row
<1>1. /\ w \in Rows /\ request[d].at = "submitted" /\ Goto(d, Done) /\ result[w].state = "offered"
      /\ DOMAIN result' = Rows /\ \A v \in Rows : DOMAIN result'[v] = ResultFields
      /\ \A v \in Rows : v # w => result'[v] = result[v]
      /\ result'[w].state = "selected"
  BY SelectEffect
<1>2. UNCHANGED <<search, sent, lost>>
  BY DEF Select
<1>3. title' \in [Titles -> {"absent", "found", "acquired"}]
  BY DEF Select, IInv, Shape
<1>10. request[d].row = w
  OBVIOUS
<1> HIDE DEF w
<1>4. Shape'
  BY <1>1, <1>2, <1>3, DoneIsRequest DEF IInv, Shape, Goto
<1>5. Exclusive' /\ HeldOffered' /\ NoAnswerNoRow'
  BY <1>1, <1>2, <1>4, <1>10, RequestEnds DEF Holds
<1>8. \A v \in Rows : (\E e \in Requests : request'[e].at = "submitted" /\ request'[e].row = v)
                      <=> v # w /\ \E e \in Requests : request[e].at = "submitted" /\ request[e].row = v
  BY <1>1, <1>10, FlightEnds
<1>9. SubmissionsAccounted'
  BY <1>1, <1>2, <1>8, <1>10 DEF IInv, SubmissionsAccounted
<1> QED BY <1>4, <1>5, <1>9 DEF IInv

-----------------------------------------------------------------------------
(* Settings, the clock and restarts                                        *)

LEMMA AgeEffect ==
  ASSUME Shape, NEW w \in Rows, TimePasses(w)
  PROVE  /\ DOMAIN result' = Rows /\ \A v \in Rows : DOMAIN result'[v] = ResultFields
         /\ \A v \in Rows, f \in ResultFields : f # "fresh" => result'[v][f] = result[v][f]
<1> DEFINE new == [result[w] EXCEPT !.fresh = FALSE]
<1>1. DOMAIN new = ResultFields /\ \A f \in ResultFields : f # "fresh" => new[f] = result[w][f]
  BY DEF Shape, ResultFields
<1>2. result' = [result EXCEPT ![w] = new]
  BY DEF TimePasses
<1> HIDE DEF new
<1> QED BY <1>1, <1>2 DEF Shape

LEMMA TimePassesKeeps ==
  ASSUME IInv, NEW w \in Rows, TimePasses(w)
  PROVE  IInv'
<1>1. UNCHANGED <<title, search, request, sent, lost>>
  BY DEF TimePasses
<1>2. Shape /\ \A v \in Rows : result'[v].state = result[v].state
  BY AgeEffect DEF IInv, ResultFields
<1>3. RowsKept /\ Shape'
  BY <1>1, <1>2, AgeEffect DEF Shape, RowsKept
<1>4. NoAnswerNoRow'
  BY <1>1, <1>2 DEF IInv, NoAnswerNoRow, Rows
<1> QED BY <1>1, <1>3, <1>4, SearchKeeps

LEMMA RestartKeeps ==
  ASSUME IInv, Restart
  PROVE  IInv'
<1> DEFINE Flying(v) == \E e \in Requests : request[e].at = "submitted" /\ request[e].row = v
<1>1. UNCHANGED <<title, result, sent>>
  BY DEF Restart
<1>2. request' \in [Requests -> Request] /\ \A e \in Requests : request'[e].at \in {"free", "done"}
  BY DoneIsRequest DEF Restart, Request, NoRequest, Done
<1>3. \A j \in Searches : /\ DOMAIN search'[j] = SearchFields
                          /\ search'[j].at = "free" => search[j].at = "free"
                          /\ search'[j].at \notin {"scheduled", "asking"}
  <2> SUFFICES ASSUME NEW j \in Searches
               PROVE  LET i == Interrupted(search[j]) IN
                      DOMAIN i = SearchFields /\ (i.at = "free" => search[j].at = "free") /\ i.at \notin {"scheduled", "asking"}
    BY DEF Restart
  <2>1. DOMAIN search[j] = SearchFields
    BY DEF IInv, Shape
  <2> QED BY <2>1 DEF Interrupted, SearchFields
<1>4. \A v \in Rows : sent[v] \in Nat /\ lost[v] \in Nat /\ lost'[v] = lost[v] + IF Flying(v) THEN 1 ELSE 0
  BY DEF Restart, IInv, Shape
<1>5. Shape'
  <2>1. DOMAIN search' = Searches
    BY DEF Restart
  <2>2. lost' \in [Rows -> Nat]
    BY <1>4 DEF Restart
  <2> QED BY <1>1, <1>2, <1>3, <2>1, <2>2 DEF IInv, Shape
<1>6. Exclusive' /\ HeldOffered'
  BY <1>2 DEF Exclusive, HeldOffered, Holds
<1>7. NoAnswerNoRow'
  BY <1>1, <1>3 DEF IInv, NoAnswerNoRow
<1>8. \A v \in Rows : Flying(v) => result[v].state # "selected"
  BY DEF IInv, HeldOffered, Holds
<1>9. SubmissionsAccounted'
  BY <1>1, <1>2, <1>4, <1>8 DEF IInv, SubmissionsAccounted
<1> QED BY <1>5, <1>6, <1>7, <1>9 DEF IInv

\* What no row, request or search has a part in
LEMMA BesideKeeps ==
  ASSUME IInv, UNCHANGED <<search, result, request, sent, lost>>,
         title' \in [Titles -> {"absent", "found", "acquired"}]
  PROVE  IInv'
<1>1. Shape'
  BY DEF IInv, Shape
<1>2. Exclusive' /\ HeldOffered' /\ NoAnswerNoRow' /\ SubmissionsAccounted'
  BY DEF IInv, Exclusive, HeldOffered, NoAnswerNoRow, SubmissionsAccounted
<1> QED BY <1>1, <1>2 DEF IInv

Beside ==
  \/ ChangeSettings
  \/ \E r \in Releases : Register(r) \/ Incoming(r)
  \/ \E t \in Titles : Discover(t)
  \/ \E x \in Indexers : DeleteIndexer(x)
  \/ UNCHANGED vars

LEMMA BesideEffect ==
  ASSUME Shape, Beside
  PROVE  /\ UNCHANGED <<search, result, request, sent, lost>>
         /\ title' \in [Titles -> {"absent", "found", "acquired"}]
         /\ \A t \in Titles : title'[t] = "acquired" => title[t] = "acquired"
<1>1. CASE ChangeSettings \/ \E r \in Releases : Register(r) \/ Incoming(r)
  BY <1>1 DEF ChangeSettings, Register, Incoming, Shape
<1>2. CASE \E t \in Titles : Discover(t)
  BY <1>2 DEF Discover, Shape
<1>3. CASE (\E x \in Indexers : DeleteIndexer(x)) \/ UNCHANGED vars
  BY <1>3 DEF DeleteIndexer, vars, Shape
<1> QED BY <1>1, <1>2, <1>3 DEF Beside

\* The parts of the next-state relation, by what they do to rows and requests
LEMMA StepCases ==
  ASSUME [Next]_vars
  PROVE  \/ \E j \in Searches, t \in Titles, p \in Profiles \cup {None} : Start(j, t, p)
         \/ \E j \in Searches : SetUp(j)
         \/ \E j \in Searches, x \in Indexers, found \in SUBSET Releases : Answer(j, x, found)
         \/ \E j \in Searches : SearchFails(j) \/ Finish(j) \/ Cancel(j)
         \/ \E d \in Requests, w \in Rows, c \in Clients : Prepare(d, w, c)
         \/ \E d \in Requests : Submit(d)
         \/ \E d \in Requests : SubmitFails(d)
         \/ \E d \in Requests : Select(d)
         \/ \E d \in Requests : SelectFails(d)
         \/ \E w \in Rows : TimePasses(w)
         \/ Restart
         \/ Beside
  BY Zenon DEF Next, SearchStep, Beside

LEMMA NextKeeps == IInv /\ [Next]_vars => IInv'
<1> SUFFICES ASSUME IInv, [Next]_vars PROVE IInv'
  OBVIOUS
<1>1. CASE Beside
  BY <1>1, BesideEffect, BesideKeeps DEF IInv
<1> QED BY <1>1, StepCases, StartKeeps, SetUpKeeps, AnswerKeeps, EndsKeep, PrepareKeeps, SubmitKeeps,
           SubmitFailsKeeps, SelectKeeps, SelectFailsKeeps, TimePassesKeeps, RestartKeeps

THEOREM IInvHolds == Spec => []IInv
  BY InitIInv, NextKeeps, PTL DEF Spec

\* No row is submitted twice unless a commit or an answer was lost in between, whatever searches,
\* requests, edits and restarts come together: the row lock and its release with the transaction.
THEOREM EverySubmissionAccounted == Spec => []SubmissionsAccounted
<1>1. IInv => SubmissionsAccounted
  BY DEF IInv
<1> QED BY <1>1, IInvHolds, PTL

-----------------------------------------------------------------------------
(* What is selected                                                        *)

Evidence(w) == \A f \in {"score", "allowed", "profile"} : result'[w][f] = result[w][f]

\* What a step does to a row: nothing, removal or arrival, ageing, or its selection
LEMMA RowEffect ==
  ASSUME IInv, [Next]_vars, NEW w \in Rows
  PROVE  \/ result'[w] = result[w]
         \/ result[w].state = "offered" /\ result'[w].state = "none"
         \/ result[w].state = "none" /\ search[w[1]].at = "asking" /\ result'[w] = Judged(search[w[1]], w[2])
         \/ result'[w].state = result[w].state /\ result'[w].client = result[w].client /\ Evidence(w)
         \/ result[w].state = "offered" /\ Evidence(w) /\ \E d \in Requests : Select(d) /\ request[d].row = w
<1> DEFINE Cleans == CanCleanUp /\ result' = Cleaned
<1>1. CASE Cleans
  BY <1>1, CleanedKeeps DEF IInv
<1>2. CASE UNCHANGED result
  BY <1>2
<1>3. ASSUME NEW j \in Searches, NEW x \in Indexers, NEW found \in SUBSET Releases, Answer(j, x, found)
      PROVE  result'[w] = result[w] \/ (result[w].state = "none" /\ search[w[1]].at = "asking"
                                        /\ result'[w] = Judged(search[w[1]], w[2]))
  BY <1>3, AnswerStores
<1>4. ASSUME NEW v \in Rows, TimePasses(v)
      PROVE  result'[w].state = result[w].state /\ result'[w].client = result[w].client /\ Evidence(w)
  BY <1>4, AgeEffect DEF IInv, ResultFields, Evidence
<1>5. ASSUME NEW d \in Requests, Select(d)
      PROVE  result'[w] = result[w] \/ (result[w].state = "offered" /\ Evidence(w) /\ request[d].row = w)
  BY <1>5, SelectEffect DEF Evidence
<1>6. ASSUME NEW j \in Searches, SetUp(j)
      PROVE  Cleans \/ UNCHANGED result
  BY <1>6 DEF SetUp
<1>7. CASE Beside
  BY <1>2, <1>7, BesideEffect DEF IInv
<1> HIDE DEF Cleans
<1>8. ASSUME NEW j \in Searches, NEW t \in Titles, NEW p \in Profiles \cup {None}, Start(j, t, p)
      PROVE  Cleans
  BY <1>8 DEF Start, Cleans
<1>9. ASSUME NEW j \in Searches, SearchFails(j) \/ Finish(j) \/ Cancel(j)
      PROVE  UNCHANGED result
  BY <1>9 DEF SearchFails, Finish, Cancel
<1>10. ASSUME NEW d \in Requests,
              (\E v \in Rows, c \in Clients : Prepare(d, v, c)) \/ Submit(d) \/ SubmitFails(d) \/ SelectFails(d)
       PROVE  UNCHANGED result
  BY <1>10 DEF Prepare, Submit, SubmitFails, SelectFails
<1>11. CASE Restart
  BY <1>2, <1>11 DEF Restart
<1> QED BY <1>1, <1>2, <1>3, <1>4, <1>5, <1>6, <1>7, <1>8, <1>9, <1>10, <1>11, StepCases

\* A selected result and the evidence of a judged one stay as they are.
THEOREM SelectedResultsStay == Spec => SelectedStays
<1>1. IInv /\ [Next]_vars =>
        [\A w \in Rows :
           /\ result[w].state = "selected" => result'[w].state = "selected" /\ result'[w].client = result[w].client
           /\ result[w].state # "none" /\ result'[w].state # "none" =>
                /\ result'[w].score = result[w].score /\ result'[w].allowed = result[w].allowed
                /\ result'[w].profile = result[w].profile]_vars
  <2> SUFFICES ASSUME IInv, [Next]_vars, NEW w \in Rows
               PROVE  /\ result[w].state = "selected" => result'[w].state = "selected" /\ result'[w].client = result[w].client
                      /\ result[w].state # "none" /\ result'[w].state # "none" =>
                           /\ result'[w].score = result[w].score /\ result'[w].allowed = result[w].allowed
                           /\ result'[w].profile = result[w].profile
    OBVIOUS
  <2> QED BY RowEffect DEF Evidence
<1> QED BY <1>1, IInvHolds, PTL DEF Spec, SelectedStays

-----------------------------------------------------------------------------
(* The search of a row                                                     *)

\* A search that has begun keeps its title and its settings.
LEMMA SearchStays ==
  ASSUME IInv, [Next]_vars, NEW j \in Searches, search[j].at \notin {"free", "scheduled"}
  PROVE  search'[j].title = search[j].title /\ search'[j].policy = search[j].policy
<1> DEFINE Stays == search'[j].title = search[j].title /\ search'[j].policy = search[j].policy
<1> SUFFICES Stays
  OBVIOUS
<1>1. DOMAIN search = Searches /\ \A i \in Searches : DOMAIN search[i] = SearchFields
  BY DEF IInv, Shape
<1>2. CASE UNCHANGED search
  BY <1>2
<1>3. ASSUME NEW i \in Searches,
             SetUp(i) \/ \E t \in Titles, p \in Profiles \cup {None} : Start(i, t, p)
      PROVE  Stays
  <2>1. search[i].at \in {"free", "scheduled"}
    BY <1>3 DEF SetUp, Start
  <2>2. \E new : Becomes(i, new)
    BY <1>3 DEF SetUp, Start, Job
  <2> QED BY <2>1, <2>2 DEF Becomes
<1>4. ASSUME NEW i \in Searches, NEW s, Becomes(i, s), s.title = search[i].title, s.policy = search[i].policy
      PROVE  Stays
  BY <1>1, <1>4 DEF Becomes
<1>5. ASSUME NEW i \in Searches, NEW status, Job(i, status)
      PROVE  Stays
  <2> DEFINE s == [search[i] EXCEPT !.job = status, !.at = "done", !.pending = {}]
  <2>1. s.title = search[i].title /\ s.policy = search[i].policy
    BY <1>1 DEF SearchFields
  <2> QED BY <1>4, <1>5, <2>1 DEF Job
<1>6. ASSUME NEW i \in Searches, NEW x \in Indexers, NEW found \in SUBSET Releases, Answer(i, x, found)
      PROVE  Stays
  <2> DEFINE a == [search[i] EXCEPT !.pending = @ \ {x}]
  <2>1. a.title = search[i].title /\ a.policy = search[i].policy
    BY <1>1 DEF SearchFields
  <2>2. (\E status : Job(i, status)) \/ Becomes(i, a)
    BY <1>6 DEF Answer
  <2> HIDE DEF a, Stays
  <2> QED BY <1>4, <1>5, <2>1, <2>2
<1>7. ASSUME NEW i \in Searches, SearchFails(i) \/ Finish(i) \/ Cancel(i)
      PROVE  Stays
  <2> DEFINE a == [search[i] EXCEPT !.at = "lost"]
             b == [search[i] EXCEPT !.job = "cancelled"]
  <2>1. a.title = search[i].title /\ b.title = search[i].title /\ a.policy = search[i].policy /\ b.policy = search[i].policy
    BY <1>1 DEF SearchFields
  <2>2. (\E status : Job(i, status)) \/ Becomes(i, a) \/ Becomes(i, b)
    BY <1>7 DEF SearchFails, Finish, Cancel
  <2> HIDE DEF a, b, Stays
  <2> QED BY <1>4, <1>5, <2>1, <2>2
<1>8. CASE Restart
  <2>1. search'[j] = Interrupted(search[j])
    BY <1>8 DEF Restart
  <2> QED BY <1>1, <2>1 DEF Interrupted, SearchFields
<1>9. ASSUME NEW d \in Requests,
             \/ \E v \in Rows, c \in Clients : Prepare(d, v, c)
             \/ Submit(d) \/ SubmitFails(d) \/ Select(d) \/ SelectFails(d)
      PROVE  UNCHANGED search
  BY <1>9 DEF Prepare, Submit, SubmitFails, Select, SelectFails
<1>10. ASSUME NEW v \in Rows, TimePasses(v)
       PROVE  UNCHANGED search
  BY <1>10 DEF TimePasses
<1>11. CASE Beside
  BY <1>2, <1>11, BesideEffect DEF IInv
<1> HIDE DEF Stays
<1> QED BY <1>2, <1>3, <1>6, <1>7, <1>8, <1>9, <1>10, <1>11, StepCases

LEMMA SearchOfRowBegan ==
  ASSUME IInv, NEW w \in Rows, result[w].state # "none"
  PROVE  w[1] \in Searches /\ search[w[1]].at \notin {"free", "scheduled"}
<1>1. w[1] \in Searches /\ w[2] \in Releases /\ w = <<w[1], w[2]>>
  BY DEF Rows
<1> QED BY <1>1 DEF IInv, NoAnswerNoRow

\* Every result of a search is judged by the settings the search began with, whatever was edited since.
THEOREM OnePolicyHolds == Spec => []OnePolicy
<1>1. Init => OnePolicy
  BY DEF Init, OnePolicy, NoResult
<1>2. IInv /\ OnePolicy /\ [Next]_vars => OnePolicy'
  <2> SUFFICES ASSUME IInv, OnePolicy, [Next]_vars, NEW w \in Rows, result'[w].state # "none"
               PROVE  /\ result'[w].score = search'[w[1]].policy.score[w[2]]
                      /\ result'[w].allowed = (w[2] \in search'[w[1]].policy.allowed)
                      /\ result'[w].profile = search'[w[1]].policy.profile
    BY DEF OnePolicy
  <2> DEFINE policy == search[w[1]].policy
  <2>1. CASE result[w].state = "none"
    <3>1. w[1] \in Searches
      BY DEF Rows
    <3>2. search[w[1]].at = "asking" /\ result'[w] = Judged(search[w[1]], w[2])
      BY <2>1, RowEffect
    <3>3. search'[w[1]].policy = policy
      BY <3>1, <3>2, SearchStays
    <3>4. /\ Judged(search[w[1]], w[2]).score = policy.score[w[2]]
          /\ Judged(search[w[1]], w[2]).allowed = (w[2] \in policy.allowed)
          /\ Judged(search[w[1]], w[2]).profile = policy.profile
      BY DEF Judged
    <3> QED BY <3>2, <3>3, <3>4
  <2>2. CASE result[w].state # "none"
    <3>1. search'[w[1]].policy = policy
      BY <2>2, SearchOfRowBegan, SearchStays
    <3>2. result'[w] = result[w] \/ Evidence(w)
      BY <2>2, RowEffect
    <3>3. /\ result[w].score = policy.score[w[2]]
          /\ result[w].allowed = (w[2] \in policy.allowed)
          /\ result[w].profile = policy.profile
      BY <2>2 DEF OnePolicy
    <3> QED BY <3>1, <3>2, <3>3 DEF Evidence
  <2> QED BY <2>1, <2>2
<1> QED BY <1>1, <1>2, IInvHolds, PTL DEF Spec

-----------------------------------------------------------------------------
(* What a download brought in                                              *)

AcquiredHasSelection ==
  \A t \in Titles : title[t] = "acquired" =>
    \E w \in Rows : result[w].state = "selected" /\ search[w[1]].title = t

LEMMA TitleEffect ==
  ASSUME IInv, [Next]_vars, NEW t \in Titles, title'[t] = "acquired"
  PROVE  title[t] = "acquired" \/ \E d \in Requests : Select(d) /\ search[request[d].row[1]].title = t
<1>1. CASE UNCHANGED title
  BY <1>1
<1>2. CASE Beside
  BY <1>2, BesideEffect DEF IInv
<1>3. ASSUME NEW d \in Requests, Select(d)
      PROVE  title[t] = "acquired" \/ search[request[d].row[1]].title = t
  BY <1>3 DEF Select, TitleOfRow, IInv, Shape
<1>4. ASSUME NEW j \in Searches,
             \/ \E u \in Titles, p \in Profiles \cup {None} : Start(j, u, p)
             \/ SetUp(j) \/ SearchFails(j) \/ Finish(j) \/ Cancel(j)
             \/ \E x \in Indexers, found \in SUBSET Releases : Answer(j, x, found)
      PROVE  UNCHANGED title
  BY <1>4 DEF Start, SetUp, SearchFails, Finish, Cancel, Answer
<1>5. ASSUME NEW d \in Requests,
             (\E v \in Rows, c \in Clients : Prepare(d, v, c)) \/ Submit(d) \/ SubmitFails(d) \/ SelectFails(d)
      PROVE  UNCHANGED title
  BY <1>5 DEF Prepare, Submit, SubmitFails, SelectFails
<1>6. CASE Restart \/ \E v \in Rows : TimePasses(v)
  BY <1>6 DEF Restart, TimePasses
<1> QED BY <1>1, <1>2, <1>3, <1>4, <1>5, <1>6, StepCases

LEMMA AcquiredKeeps == IInv /\ AcquiredHasSelection /\ [Next]_vars => AcquiredHasSelection'
<1> SUFFICES ASSUME IInv, AcquiredHasSelection, [Next]_vars, NEW t \in Titles, title'[t] = "acquired"
             PROVE  \E w \in Rows : result'[w].state = "selected" /\ search'[w[1]].title = t
  BY DEF AcquiredHasSelection
<1>1. CASE title[t] = "acquired"
  <2>1. PICK w \in Rows : result[w].state = "selected" /\ search[w[1]].title = t
    BY <1>1 DEF AcquiredHasSelection
  <2>2. result'[w].state = "selected"
    BY <2>1, RowEffect
  <2> QED BY <2>1, <2>2, SearchOfRowBegan, SearchStays
<1>2. CASE \E d \in Requests : Select(d) /\ search[request[d].row[1]].title = t
  <2>1. PICK d \in Requests : Select(d) /\ search[request[d].row[1]].title = t
    BY <1>2
  <2>2. request[d].row \in Rows /\ result'[request[d].row].state = "selected"
    BY <2>1, SelectEffect
  <2>3. UNCHANGED search
    BY <2>1 DEF Select
  <2> QED BY <2>1, <2>2, <2>3
<1> QED BY <1>1, <1>2, TitleEffect

\* A title that a download brought into the library has a selected result whose torrent is out:
\* nothing that fails on the way leaves the title behind.
THEOREM AcquiredTitlesHaveTorrents == Spec => []AcquiredHasTorrent
<1>1. Init => AcquiredHasSelection
  BY DEF Init, AcquiredHasSelection
<1>2. IInv /\ AcquiredHasSelection => AcquiredHasTorrent
  <2> SUFFICES ASSUME IInv, AcquiredHasSelection, NEW t \in Titles, title[t] = "acquired"
               PROVE  \E w \in Rows : result[w].state = "selected" /\ TitleOfRow(w) = t /\ sent[w] > lost[w]
    BY DEF AcquiredHasTorrent
  <2>1. PICK w \in Rows : result[w].state = "selected" /\ search[w[1]].title = t
    BY DEF AcquiredHasSelection
  <2>2. sent[w] = lost[w] + 1 /\ lost[w] \in Nat
    BY <2>1 DEF IInv, SubmissionsAccounted, Shape
  <2> QED BY <2>1, <2>2 DEF TitleOfRow
<1> QED BY <1>1, <1>2, AcquiredKeeps, IInvHolds, PTL DEF Spec

-----------------------------------------------------------------------------
(* Scores: an evaluation adds what each format brings, whatever the order  *)

\* The least element of a set of numbers, by which facts about finite sets are proved below
LEMMA LeastNatural ==
  ASSUME NEW T \in SUBSET Nat, T # {}
  PROVE  \E n \in T : \A m \in T : n <= m
<1> DEFINE R == {p \in Nat \X Nat : p[1] < p[2]}
<1>1. IsWellFoundedOn(R, Nat)
  BY NatLessThanWellFounded DEF OpToRel
<1> HIDE DEF R
<1>2. PICK n \in T : \A m \in T : ~(<<m, n>> \in R)
  BY <1>1, WFMin
<1>3. \A m \in T : ~(m < n)
  BY <1>2 DEF R
<1> QED BY <1>3

LEMMA MaxOfFinite ==
  ASSUME NEW S \in SUBSET Int, IsFiniteSet(S), S # {}
  PROVE  Max(S) \in S /\ \A x \in S : x <= Max(S)
<1> DEFINE HasMax(U) == \E x \in U : \A y \in U : x >= y
           T == {n \in Nat : \E U \in SUBSET S : U # {} /\ Cardinality(U) = n /\ ~HasMax(U)}
<1>1. T = {}
  <2> SUFFICES ASSUME T # {} PROVE FALSE
    OBVIOUS
  <2>1. PICK n \in T : \A m \in T : n <= m
    <3> HIDE DEF T
    <3>1. T \subseteq Nat
      BY DEF T
    <3> QED BY <3>1, LeastNatural
  <2>2. PICK U \in SUBSET S : U # {} /\ Cardinality(U) = n /\ ~HasMax(U)
    BY <2>1
  <2>3. PICK x \in U : TRUE
    BY <2>2
  <2>4. Cardinality(U \ {x}) = n - 1 /\ n - 1 \in Nat
    <3>1. IsFiniteSet(U) /\ IsFiniteSet(U \ {x})
      BY FS_Subset
    <3>2. Cardinality(U) \in Nat /\ Cardinality(U \ {x}) \in Nat
      BY <3>1, FS_CardinalityType
    <3>3. Cardinality(U \ {x}) = Cardinality(U) - 1
      BY <2>3, <3>1, FS_RemoveElement
    <3> QED BY <2>2, <3>2, <3>3
  <2>5. n - 1 \notin T
    BY <2>1, <2>4
  <2>6. CASE U \ {x} = {}
    BY <2>2, <2>6
  <2>7. CASE U \ {x} # {}
    <3>1. HasMax(U \ {x})
      BY <2>4, <2>5, <2>7
    <3>2. PICK z \in U \ {x} : \A y \in U \ {x} : z >= y
      BY <3>1
    <3>3. IF x >= z THEN \A y \in U : x >= y ELSE \A y \in U : z >= y
      BY <3>2
    <3> QED BY <2>2, <3>2, <3>3
  <2> QED BY <2>6, <2>7
<1>2. HasMax(S)
  BY <1>1, FS_CardinalityType
<1>3. PICK x \in S : \A y \in S : x >= y
  BY <1>2
<1> HIDE DEF HasMax, T
<1> QED BY <1>3 DEF Max

LEMMA OffsetIsNumber ==
  ASSUME NEW d \in Definitions, NEW r
  PROVE  Offset(d, r) \in Int
<1> DEFINE cards == {c \in d.cards : r \in c.on /\ ~c.negate}
           offsets == {card.offset : card \in cards}
           f == [card \in cards |-> card.offset]
<1>1. IsFiniteSet(cards) /\ offsets \in SUBSET Int
  BY ReleaseScoresAssumption, FS_Subset
<1>2. f \in Surjection(cards, offsets)
  BY DEF Surjection
<1> HIDE DEF cards, f
<1>3. IsFiniteSet(offsets)
  BY <1>1, <1>2, FS_Surjection
<1> HIDE DEF offsets
<1>4. offsets # {} => Max(offsets) \in Int
  BY <1>1, <1>3, MaxOfFinite
<1> QED BY <1>4 DEF Offset, offsets, cards

LEMMA ContributionIsNumber ==
  ASSUME NEW d \in Definitions \cup {None}, NEW score \in Int, NEW r
  PROVE  Contribution(d, score, r) \in Int
  BY OffsetIsNumber DEF Contribution

\* The sum that Evaluate stands for: what a set of formats brings to release r
Pick(U) == CHOOSE f \in U : TRUE

Sums(definitions, score, r, n, sum) ==
  sum = [U \in {V \in SUBSET Formats : Cardinality(V) <= n} |->
           IF U = {} THEN 0
           ELSE Contribution(definitions[Pick(U)], score[Pick(U)], r) + sum[U \ {Pick(U)}]]

LEMMA FormatSets ==
  /\ Cardinality(Formats) \in Nat
  /\ \A U \in SUBSET Formats :
       /\ Cardinality(U) \in Nat /\ Cardinality(U) <= Cardinality(Formats)
       /\ Cardinality(U) = 0 => U = {}
  /\ \A U \in SUBSET Formats :
       U # {} => Pick(U) \in Formats /\ Cardinality(U \ {Pick(U)}) = Cardinality(U) - 1
<1>1. IsFiniteSet(Formats)
  BY ReleaseScoresAssumption
<1>2. \A U \in SUBSET Formats : IsFiniteSet(U)
  BY <1>1, FS_Subset
<1>3. \A U \in SUBSET Formats : U # {} => Pick(U) \in U
  BY DEF Pick
<1>4. \A U \in SUBSET Formats : Cardinality(U) \in Nat /\ Cardinality(U) <= Cardinality(Formats)
  BY <1>1, <1>2, FS_Subset, FS_CardinalityType
<1>5. \A U \in SUBSET Formats : U # {} => Cardinality(U \ {Pick(U)}) = Cardinality(U) - 1
  BY <1>2, <1>3, FS_RemoveElement
<1>6. \A U \in SUBSET Formats : Cardinality(U) = 0 => U = {}
  BY <1>2, FS_EmptySet
<1> QED BY <1>3, <1>4, <1>5, <1>6

LEMMA SumsExist ==
  ASSUME NEW definitions, NEW score, NEW r
  PROVE  \E sum : Sums(definitions, score, r, Cardinality(Formats), sum)
<1> DEFINE T == {n \in Nat : ~\E sum : Sums(definitions, score, r, n, sum)}
<1>1. T = {}
  <2> SUFFICES ASSUME T # {} PROVE FALSE
    OBVIOUS
  <2>1. PICK n \in T : \A m \in T : n <= m
    <3>1. T \subseteq Nat
      OBVIOUS
    <3> HIDE DEF T
    <3> QED BY <3>1, LeastNatural
  <2> DEFINE Small(m) == {V \in SUBSET Formats : Cardinality(V) <= m}
  <2>2. n # 0
    <3> DEFINE none == [U \in Small(0) |-> 0]
    <3>1. \A U \in Small(0) : U = {}
      BY FormatSets
    <3>2. Sums(definitions, score, r, 0, none)
      BY <3>1 DEF Sums
    <3> QED BY <3>2, <2>1
  <2>3. n \in Nat /\ n - 1 \in Nat /\ n - 1 \notin T
    <3>1. n \in Nat
      BY <2>1
    <3> HIDE DEF T
    <3> QED BY <3>1, <2>1, <2>2
  <2>4. PICK sum : Sums(definitions, score, r, n - 1, sum)
    BY <2>3
  <2> DEFINE all == [U \in Small(n) |->
                       IF U = {} THEN 0
                       ELSE Contribution(definitions[Pick(U)], score[Pick(U)], r) + sum[U \ {Pick(U)}]]
  <2>5. \A U \in Small(n) : U # {} => U \ {Pick(U)} \in Small(n - 1)
    BY <2>3, FormatSets
  <2>6. \A U \in Small(n - 1) : U \in Small(n)
    BY <2>3, FormatSets
  <2>7. \A U \in Small(n - 1) : all[U] = sum[U]
    BY <2>4, <2>6 DEF Sums
  <2>8. Sums(definitions, score, r, n, all)
    BY <2>5, <2>7 DEF Sums
  <2> QED BY <2>8, <2>1
<1> QED BY <1>1, FormatSets

\* sum is the table of the sums of all sets of formats.
AddsUp(definitions, score, r, sum) ==
  /\ sum[{}] = 0
  /\ \A U \in SUBSET Formats : U # {} =>
       sum[U] = Contribution(definitions[Pick(U)], score[Pick(U)], r) + sum[U \ {Pick(U)}]

LEMMA EvaluateSums ==
  ASSUME NEW definitions, NEW score, NEW r
  PROVE  \E sum : Evaluate(definitions, score, r) = sum[Formats] /\ AddsUp(definitions, score, r, sum)
<1> DEFINE Sum(sum) == sum = [U \in SUBSET Formats |->
                         IF U = {} THEN 0
                         ELSE Contribution(definitions[Pick(U)], score[Pick(U)], r) + sum[U \ {Pick(U)}]]
           total == CHOOSE sum : Sum(sum)
<1>1. Evaluate(definitions, score, r) = total[Formats]
  BY DEF Evaluate, MapThenSumSet, MapThenFoldSet, Pick
<1>2. {V \in SUBSET Formats : Cardinality(V) <= Cardinality(Formats)} = SUBSET Formats
  BY FormatSets
<1>3. PICK sum : Sums(definitions, score, r, Cardinality(Formats), sum)
  BY SumsExist
<1>4. Sum(sum)
  BY <1>2, <1>3 DEF Sums
<1>5. Sum(total)
  BY <1>4
<1> HIDE DEF total
<1>6. AddsUp(definitions, score, r, total)
  BY <1>5 DEF AddsUp
<1> QED BY <1>1, <1>6

LEMMA EvaluateIsNumber ==
  ASSUME NEW definitions \in [Formats -> Definitions \cup {None}], NEW score \in [Formats -> Int], NEW r
  PROVE  Evaluate(definitions, score, r) \in Int
<1>1. PICK sum : Evaluate(definitions, score, r) = sum[Formats] /\ AddsUp(definitions, score, r, sum)
  BY EvaluateSums
<1> DEFINE T == {n \in Nat : \E U \in SUBSET Formats : Cardinality(U) = n /\ sum[U] \notin Int}
<1>2. T = {}
  <2> SUFFICES ASSUME T # {} PROVE FALSE
    OBVIOUS
  <2>1. PICK n \in T : \A m \in T : n <= m
    <3>1. T \subseteq Nat
      OBVIOUS
    <3> HIDE DEF T
    <3> QED BY <3>1, LeastNatural
  <2>2. PICK U \in SUBSET Formats : Cardinality(U) = n /\ sum[U] \notin Int
    BY <2>1
  <2>3. U # {}
    <3>1. sum[{}] \in Int
      BY <1>1 DEF AddsUp
    <3> QED BY <2>2, <3>1
  <2>4. Pick(U) \in Formats /\ Cardinality(U \ {Pick(U)}) = n - 1 /\ n - 1 \in Nat
    BY <2>2, <2>3, FormatSets
  <2>5. sum[U \ {Pick(U)}] \in Int
    BY <2>1, <2>4
  <2>6. Contribution(definitions[Pick(U)], score[Pick(U)], r) \in Int
    BY <2>4, ContributionIsNumber
  <2>7. sum[U] = Contribution(definitions[Pick(U)], score[Pick(U)], r) + sum[U \ {Pick(U)}]
    BY <1>1, <2>3 DEF AddsUp
  <2> QED BY <2>2, <2>5, <2>6, <2>7
<1>3. sum[Formats] \in Int
  BY <1>2, FormatSets
<1> QED BY <1>1, <1>3

\* Settings under which every format brings the same give the same score.
LEMMA SameContributions ==
  ASSUME NEW definitions, NEW score, NEW definitions2, NEW score2, NEW r,
         \A f \in Formats : Contribution(definitions[f], score[f], r) = Contribution(definitions2[f], score2[f], r)
  PROVE  Evaluate(definitions, score, r) = Evaluate(definitions2, score2, r)
<1>1. PICK sum : Evaluate(definitions, score, r) = sum[Formats] /\ AddsUp(definitions, score, r, sum)
  BY EvaluateSums
<1>2. PICK sum2 : Evaluate(definitions2, score2, r) = sum2[Formats] /\ AddsUp(definitions2, score2, r, sum2)
  BY EvaluateSums
<1> DEFINE T == {n \in Nat : \E U \in SUBSET Formats : Cardinality(U) = n /\ sum[U] # sum2[U]}
<1>3. T = {}
  <2> SUFFICES ASSUME T # {} PROVE FALSE
    OBVIOUS
  <2>1. PICK n \in T : \A m \in T : n <= m
    <3>1. T \subseteq Nat
      OBVIOUS
    <3> HIDE DEF T
    <3> QED BY <3>1, LeastNatural
  <2>2. PICK U \in SUBSET Formats : Cardinality(U) = n /\ sum[U] # sum2[U]
    BY <2>1
  <2>3. U # {}
    <3>1. sum[{}] = sum2[{}]
      BY <1>1, <1>2 DEF AddsUp
    <3> QED BY <2>2, <3>1
  <2>4. Pick(U) \in Formats /\ Cardinality(U \ {Pick(U)}) = n - 1 /\ n - 1 \in Nat
    BY <2>2, <2>3, FormatSets
  <2>5. sum[U \ {Pick(U)}] = sum2[U \ {Pick(U)}]
    BY <2>1, <2>4
  <2>6. /\ sum[U] = Contribution(definitions[Pick(U)], score[Pick(U)], r) + sum[U \ {Pick(U)}]
        /\ sum2[U] = Contribution(definitions2[Pick(U)], score2[Pick(U)], r) + sum2[U \ {Pick(U)}]
    BY <1>1, <1>2, <2>3 DEF AddsUp
  <2> QED BY <2>2, <2>4, <2>5, <2>6
<1>4. sum[Formats] = sum2[Formats]
  BY <1>3, FormatSets
<1> QED BY <1>1, <1>2, <1>4

-----------------------------------------------------------------------------
(* Scores: what an edit leaves behind                                      *)

\* What does not exist is given no score and assigned to nobody.
Given ==
  /\ \A p \in Profiles : profile[p] # None => Fits(profile[p].score)
  /\ \A t \in Titles : assignment[t] # None =>
       /\ Fits(assignment[t].override)
       /\ assignment[t].profile # None => profile[assignment[t].profile] # None

\* What no edit has overtaken is what the settings give now.
FreshReadings ==
  \A r \in Releases : reading[r] # None /\ ~reading[r].late =>
    reading[r].score = Current(format, profile, assignment, r)

SInv == STypeOK /\ Given /\ FreshReadings /\ ScoresTruthful

LEMMA EffectiveIsNumber ==
  ASSUME NEW profiles \in [Profiles -> Profile \cup {None}], NEW a \in Assignment \cup {None}
  PROVE  EffectiveScore(profiles, a) \in [Formats -> Int]
<1>1. Scores \subseteq Int /\ 0 \in Int
  BY ReleaseScoresAssumption
<1>2. BaseScore(None) \in [Formats -> Int]
  BY DEF BaseScore
<1>3. CASE a = None
  BY <1>2, <1>3 DEF EffectiveScore
<1>4. CASE a # None
  <2> DEFINE p == IF a.profile = None THEN None ELSE profiles[a.profile]
  <2>1. p \in Profile \cup {None} /\ a \in Assignment
    BY <1>4 DEF Assignment
  <2>2. \A f \in Formats : a.override[f] # None => a.override[f] \in Int
    BY <1>1, <2>1 DEF Assignment
  <2>3. BaseScore(p) \in [Formats -> Int]
    BY <1>1, <2>1 DEF BaseScore, Profile
  <2>4. EffectiveScore(profiles, a) = [f \in Formats |-> IF a.override[f] # None THEN a.override[f] ELSE BaseScore(p)[f]]
    BY <1>4 DEF EffectiveScore
  <2> HIDE DEF p
  <2> QED BY <2>2, <2>3, <2>4
<1> QED BY <1>3, <1>4

LEMMA CurrentIsNumber ==
  ASSUME NEW definitions \in [Formats -> Definitions \cup {None}],
         NEW profiles \in [Profiles -> Profile \cup {None}],
         NEW assignments \in [Titles -> Assignment \cup {None}], NEW r \in Releases
  PROVE  Current(definitions, profiles, assignments, r) \in Int
<1>1. assignments[TitleOf[r]] \in Assignment \cup {None}
  BY ReleaseScoresAssumption
<1> QED BY <1>1, EffectiveIsNumber, EvaluateIsNumber DEF Current

\* A refresh leaves the current score on the releases of its titles and the others as they were.
LEMMA RefreshLeaves ==
  ASSUME NEW titles, Refresh(titles), STypeOK,
         format' \in [Formats -> Definitions \cup {None}],
         profile' \in [Profiles -> Profile \cup {None}],
         assignment' \in [Titles -> Assignment \cup {None}],
         \A r \in Releases : TitleOf[r] \notin titles /\ assignment'[TitleOf[r]] # None =>
           /\ assignment[TitleOf[r]] # None
           /\ Current(format', profile', assignment', r) = Current(format, profile, assignment, r),
         ScoresTruthful, changes' \in 0 .. MaxChanges
  PROVE  STypeOK' /\ FreshReadings' /\ ScoresTruthful'
<1> DEFINE known == {r \in Releases : release[r] # None /\ TitleOf[r] \in titles}
<1>1. /\ release' = [r \in Releases |-> IF r \in known THEN Current(format', profile', assignment', r) ELSE release[r]]
      /\ suspect' = suspect \ known /\ reading' = Late
  BY DEF Refresh
<1>2. reading' \in [Releases -> Reading \cup {None}] /\ \A r \in Releases : reading'[r] = None \/ reading'[r].late
  BY <1>1 DEF Late, STypeOK, Reading
<1>3. release' \in [Releases -> Int \cup {None, Unscored}]
  BY <1>1, CurrentIsNumber DEF STypeOK
<1>4. STypeOK'
  BY <1>1, <1>2, <1>3 DEF STypeOK
<1>5. FreshReadings'
  BY <1>2 DEF FreshReadings
<1>6. ScoresTruthful'
  <2> SUFFICES ASSUME NEW r \in Releases, r \notin suspect', release'[r] \notin {None, Unscored}, assignment'[TitleOf[r]] # None
               PROVE  release'[r] = Current(format', profile', assignment', r)
    BY DEF ScoresTruthful
  <2>1. CASE r \in known
    BY <1>1, <2>1
  <2>2. CASE r \notin known
    <3>1. release'[r] = release[r] /\ release[r] # None /\ r \notin suspect
      BY <1>1, <2>2
    <3>2. TitleOf[r] \notin titles
      BY <2>2, <3>1
    <3> QED BY <3>1, <3>2 DEF ScoresTruthful
  <2> QED BY <2>1, <2>2
<1> QED BY <1>4, <1>5, <1>6

LEMMA ChangeCounts ==
  ASSUME STypeOK, Change
  PROVE  changes' \in 0 .. MaxChanges
  BY ReleaseScoresAssumption DEF STypeOK, Change

\* A new format brings nothing by a score, which nobody gave it: only its own offset counts.
LEMMA CreateFormatKeeps ==
  ASSUME SInv, NEW f \in Formats, NEW d \in Definitions, CreateFormat(f, d)
  PROVE  SInv'
<1>1. /\ Change /\ format[f] = None /\ format' = [format EXCEPT ![f] = d] /\ reading' = Late
      /\ suspect' = suspect \cup {r \in Releases : release[r] # None /\ Contribution(d, 0, r) # 0}
      /\ UNCHANGED <<profile, assignment, release>>
  BY DEF CreateFormat
<1>2. reading' \in [Releases -> Reading \cup {None}] /\ \A r \in Releases : reading'[r] = None \/ reading'[r].late
  BY <1>1 DEF Late, SInv, STypeOK, Reading
<1>3. STypeOK'
  BY <1>1, <1>2, ChangeCounts DEF SInv, STypeOK
<1>4. d # None
  BY ReleaseScoresAssumption
<1>5. \A g \in Formats : format'[g] = None => format[g] = None
  BY <1>1, <1>4 DEF SInv, STypeOK
<1>6. Given'
  BY <1>1, <1>5 DEF SInv, Given, Fits
<1>7. FreshReadings'
  BY <1>2 DEF FreshReadings
<1>8. ScoresTruthful'
  <2> SUFFICES ASSUME NEW r \in Releases, r \notin suspect', release'[r] \notin {None, Unscored}, assignment'[TitleOf[r]] # None
               PROVE  release'[r] = Current(format', profile', assignment', r)
    BY DEF ScoresTruthful
  <2> DEFINE a == assignment[TitleOf[r]]
             score == EffectiveScore(profile, a)
  <2>1. release[r] = Current(format, profile, assignment, r)
    BY <1>1 DEF SInv, ScoresTruthful
  <2>2. a \in Assignment /\ a # None /\ TitleOf[r] \in Titles
    BY <1>1, ReleaseScoresAssumption DEF SInv, STypeOK
  <2>3. score[f] = 0
    <3>1. a.override[f] \in {0, None}
      BY <1>1, <2>2 DEF SInv, Given, Fits
    <3>2. a.profile # None => a.profile \in Profiles /\ profile[a.profile] # None
      BY <2>2 DEF SInv, Given, Assignment
    <3>3. a.profile # None => profile[a.profile].score[f] = 0
      <4> SUFFICES ASSUME a.profile # None PROVE profile[a.profile].score[f] = 0
        OBVIOUS
      <4>1. profile[a.profile].score[f] \in {0, None}
        BY <1>1, <3>2 DEF SInv, Given, Fits
      <4>2. profile[a.profile].score[f] \in Scores
        BY <3>2 DEF SInv, STypeOK, Profile
      <4>3. None \notin Scores
        BY ReleaseScoresAssumption
      <4> QED BY <4>1, <4>2, <4>3
    <3> QED BY <2>2, <3>1, <3>3 DEF EffectiveScore, BaseScore
  <2>4. Contribution(format[f], score[f], r) = 0
    BY <1>1 DEF Contribution
  <2>5. Contribution(format'[f], score[f], r) = 0
    BY <1>1, <2>3 DEF SInv, STypeOK
  <2>6. \A g \in Formats : Contribution(format[g], score[g], r) = Contribution(format'[g], score[g], r)
    BY <1>1, <2>4, <2>5 DEF SInv, STypeOK
  <2> HIDE DEF score
  <2>7. Evaluate(format, score, r) = Evaluate(format', score, r)
    BY <2>6, SameContributions
  <2> QED BY <1>1, <2>1, <2>7 DEF Current, score
<1> QED BY <1>3, <1>6, <1>7, <1>8 DEF SInv

\* Settings of titles without any are not in question, so a refresh of the titles with some is enough.
LEMMA UpdateFormatKeeps ==
  ASSUME SInv, NEW f \in Formats, NEW d \in Definitions, UpdateFormat(f, d)
  PROVE  SInv'
<1>1. /\ Change /\ format[f] # None /\ format' = [format EXCEPT ![f] = d] /\ UNCHANGED <<profile, assignment>>
      /\ Refresh(Assigned(assignment'))
  BY DEF UpdateFormat
<1>2. d # None
  BY ReleaseScoresAssumption
<1>3. format' \in [Formats -> Definitions \cup {None}] /\ \A g \in Formats : format'[g] = None => format[g] = None
  BY <1>1, <1>2 DEF SInv, STypeOK
<1>4. Given'
  BY <1>1, <1>3 DEF SInv, Given, Fits
<1>5. \A r \in Releases : TitleOf[r] \notin Assigned(assignment') => assignment'[TitleOf[r]] = None
  BY ReleaseScoresAssumption DEF Assigned
<1>6. STypeOK' /\ FreshReadings' /\ ScoresTruthful'
  BY <1>1, <1>3, <1>5, ChangeCounts, RefreshLeaves DEF SInv, STypeOK
<1> QED BY <1>4, <1>6 DEF SInv

\* What a format that goes takes along
LEMMA UnscoresLeaves ==
  ASSUME SInv, NEW gone, Unscores(gone)
  PROVE  /\ profile' \in [Profiles -> Profile \cup {None}] /\ assignment' \in [Titles -> Assignment \cup {None}]
         /\ \A p \in Profiles : IF profile[p] = None THEN profile'[p] = None ELSE
              /\ profile'[p] # None
              /\ \A g \in Formats : profile'[p].score[g] = IF g \in gone THEN 0 ELSE profile[p].score[g]
         /\ \A t \in Titles : IF assignment[t] = None THEN assignment'[t] = None ELSE
              /\ assignment'[t].profile = assignment[t].profile
              /\ \A g \in Formats : assignment'[t].override[g] = IF g \in gone THEN None ELSE assignment[t].override[g]
<1>1. /\ DOMAIN profile' = Profiles /\ profile' = [p \in Profiles |-> profile'[p]]
      /\ DOMAIN assignment' = Titles /\ assignment' = [t \in Titles |-> assignment'[t]]
      /\ \A p \in Profiles : profile[p] = None => profile'[p] = None
      /\ \A t \in Titles : assignment[t] = None => assignment'[t] = None
  BY DEF Unscores
<1>2. ASSUME NEW p \in Profiles, profile[p] # None
      PROVE  /\ profile'[p] \in Profile
             /\ \A g \in Formats : profile'[p].score[g] = IF g \in gone THEN 0 ELSE profile[p].score[g]
  <2> DEFINE score == [g \in Formats |-> IF g \in gone THEN 0 ELSE profile[p].score[g]]
  <2>1. profile[p] \in Profile
    BY <1>2 DEF SInv, STypeOK
  <2>2. profile'[p] = [profile[p] EXCEPT !.score = score]
    BY <1>2 DEF Unscores
  <2>3. score \in [Formats -> Scores]
    BY <2>1, ReleaseScoresAssumption DEF Profile
  <2>4. \A g \in Formats : score[g] = IF g \in gone THEN 0 ELSE profile[p].score[g]
    OBVIOUS
  <2> HIDE DEF score
  <2> QED BY <2>1, <2>2, <2>3, <2>4 DEF Profile
<1>3. ASSUME NEW t \in Titles, assignment[t] # None
      PROVE  /\ assignment'[t] \in Assignment /\ assignment'[t].profile = assignment[t].profile
             /\ \A g \in Formats : assignment'[t].override[g] = IF g \in gone THEN None ELSE assignment[t].override[g]
  <2> DEFINE override == [g \in Formats |-> IF g \in gone THEN None ELSE assignment[t].override[g]]
  <2>1. assignment[t] \in Assignment
    BY <1>3 DEF SInv, STypeOK
  <2>2. assignment'[t] = [assignment[t] EXCEPT !.override = override]
    BY <1>3 DEF Unscores
  <2>3. override \in [Formats -> Scores \cup {None}]
    BY <2>1 DEF Assignment
  <2>4. \A g \in Formats : override[g] = IF g \in gone THEN None ELSE assignment[t].override[g]
    OBVIOUS
  <2> HIDE DEF override
  <2> QED BY <2>1, <2>2, <2>3, <2>4 DEF Assignment
<1>4. \A p \in Profiles : profile'[p] \in Profile \cup {None}
  BY <1>1, <1>2
<1>5. \A t \in Titles : assignment'[t] \in Assignment \cup {None}
  BY <1>1, <1>3
<1>6. None \notin Profile
  BY ReleaseScoresAssumption
<1> QED BY <1>1, <1>2, <1>3, <1>4, <1>5, <1>6

LEMMA UnscoresGiven ==
  ASSUME SInv, NEW gone, Unscores(gone),
         \A g \in Formats : format'[g] = None => format[g] = None \/ g \in gone
  PROVE  Given'
<1>1. \A p \in Profiles, g \in Formats : profile'[p] # None /\ format'[g] = None => profile'[p].score[g] \in {0, None}
  BY UnscoresLeaves DEF SInv, Given, Fits
<1>2. \A t \in Titles, g \in Formats : assignment'[t] # None /\ format'[g] = None => assignment'[t].override[g] \in {0, None}
  BY UnscoresLeaves DEF SInv, Given, Fits
<1>3. ASSUME NEW t \in Titles, assignment'[t] # None, assignment'[t].profile # None
      PROVE  profile'[assignment'[t].profile] # None
  <2>1. assignment[t] # None /\ assignment[t] \in Assignment /\ assignment'[t].profile = assignment[t].profile
    BY <1>3, UnscoresLeaves DEF SInv, STypeOK
  <2>2. assignment[t].profile \in Profiles /\ profile[assignment[t].profile] # None
    BY <1>3, <2>1 DEF SInv, Given, Assignment
  <2> QED BY <2>1, <2>2, UnscoresLeaves
<1> QED BY <1>1, <1>2, <1>3 DEF Given, Fits

LEMMA DeleteFormatKeeps ==
  ASSUME SInv, NEW f \in Formats, DeleteFormat(f)
  PROVE  SInv'
<1>1. /\ Change /\ format' = [format EXCEPT ![f] = None]
      /\ Unscores({f}) /\ Refresh(Assigned(assignment'))
  BY DEF DeleteFormat
<1>2. format' \in [Formats -> Definitions \cup {None}]
  BY <1>1 DEF SInv, STypeOK
<1>3. \A g \in Formats : format'[g] = None => format[g] = None \/ g \in {f}
  BY <1>1 DEF SInv, STypeOK
<1>4. Given'
  BY <1>1, <1>3, UnscoresGiven
<1>5. profile' \in [Profiles -> Profile \cup {None}] /\ assignment' \in [Titles -> Assignment \cup {None}]
  BY <1>1, UnscoresLeaves
<1>6. \A r \in Releases : TitleOf[r] \notin Assigned(assignment') => assignment'[TitleOf[r]] = None
  BY ReleaseScoresAssumption DEF Assigned
<1>7. STypeOK' /\ FreshReadings' /\ ScoresTruthful'
  BY <1>1, <1>2, <1>5, <1>6, ChangeCounts, RefreshLeaves DEF SInv
<1> QED BY <1>4, <1>7 DEF SInv

\* A start of the program refreshes nothing: what it changes for a release makes it suspect.
LEMMA ResyncKeeps ==
  ASSUME SInv, NEW now \in Shipped, Resync(now), Change, release' = release,
         reading' = [r \in Releases |-> None]
  PROVE  SInv'
<1> DEFINE gone == {f \in Builtin : now[f] = None}
<1>1. /\ format' = [f \in Formats |-> IF f \in Builtin THEN now[f] ELSE format[f]]
      /\ Unscores(gone)
      /\ suspect' = suspect \cup {r \in Releases : release[r] # None /\
                       Current(format', profile', assignment', r) # Current(format, profile, assignment, r)}
  BY DEF Resync
<1>2. now \in [Builtin -> Definitions \cup {None}] /\ Builtin \subseteq Formats
  BY ReleaseScoresAssumption DEF Shipped
<1>3. format' \in [Formats -> Definitions \cup {None}]
  BY <1>1, <1>2 DEF SInv, STypeOK
<1>4. \A g \in Formats : format'[g] = None => format[g] = None \/ g \in gone
  BY <1>1
<1> HIDE DEF gone
<1>5. Given'
  BY <1>1, <1>4, UnscoresGiven
<1>6. /\ profile' \in [Profiles -> Profile \cup {None}] /\ assignment' \in [Titles -> Assignment \cup {None}]
      /\ \A t \in Titles : assignment'[t] # None => assignment[t] # None
  BY <1>1, UnscoresLeaves
<1>7. STypeOK'
  BY <1>1, <1>3, <1>6, ChangeCounts DEF SInv, STypeOK
<1>8. FreshReadings'
  BY DEF FreshReadings
<1>9. ScoresTruthful'
  <2> SUFFICES ASSUME NEW r \in Releases, r \notin suspect', release'[r] \notin {None, Unscored}, assignment'[TitleOf[r]] # None
               PROVE  release'[r] = Current(format', profile', assignment', r)
    BY DEF ScoresTruthful
  <2>1. r \notin suspect /\ Current(format', profile', assignment', r) = Current(format, profile, assignment, r)
    BY <1>1
  <2>2. assignment[TitleOf[r]] # None
    BY <1>6, ReleaseScoresAssumption
  <2> QED BY <2>1, <2>2 DEF SInv, ScoresTruthful
<1> QED BY <1>5, <1>7, <1>8, <1>9 DEF SInv

LEMMA CreateProfileKeeps ==
  ASSUME SInv, NEW p \in Profiles, NEW new \in Policies, CreateProfile(p, new)
  PROVE  SInv'
<1>1. /\ Change /\ profile[p] = None /\ Fits(new.score) /\ profile' = [profile EXCEPT ![p] = new]
      /\ UNCHANGED <<format, assignment, release, suspect>> /\ reading' = Late
  BY DEF CreateProfile
<1>2. new \in Profile /\ new # None
  BY ReleaseScoresAssumption
<1>3. reading' \in [Releases -> Reading \cup {None}] /\ \A r \in Releases : reading'[r] = None \/ reading'[r].late
  BY <1>1 DEF Late, SInv, STypeOK, Reading
<1>4. STypeOK'
  BY <1>1, <1>2, <1>3, ChangeCounts DEF SInv, STypeOK
<1>5. Given'
  BY <1>1, <1>2 DEF SInv, STypeOK, Given, Fits
<1>6. FreshReadings'
  BY <1>3 DEF FreshReadings
<1>7. ScoresTruthful'
  <2> SUFFICES ASSUME NEW r \in Releases, r \notin suspect', release'[r] \notin {None, Unscored}, assignment'[TitleOf[r]] # None
               PROVE  release'[r] = Current(format', profile', assignment', r)
    BY DEF ScoresTruthful
  <2> DEFINE a == assignment[TitleOf[r]]
  <2>1. release[r] = Current(format, profile, assignment, r)
    BY <1>1 DEF SInv, ScoresTruthful
  <2>2. a \in Assignment /\ TitleOf[r] \in Titles /\ a # None
    BY <1>1, ReleaseScoresAssumption DEF SInv, STypeOK
  <2>3. a.profile # None => a.profile # p /\ a.profile \in Profiles
    BY <1>1, <2>2 DEF SInv, Given, Assignment
  <2>4. a.profile # None => profile'[a.profile] = profile[a.profile]
    BY <1>1, <2>3 DEF SInv, STypeOK
  <2>5. EffectiveScore(profile', a) = EffectiveScore(profile, a)
    BY <2>4 DEF EffectiveScore
  <2> QED BY <1>1, <2>1, <2>5 DEF Current
<1> QED BY <1>4, <1>5, <1>6, <1>7 DEF SInv

LEMMA UpdateProfileKeeps ==
  ASSUME SInv, NEW p \in Profiles, NEW new \in Policies, UpdateProfile(p, new)
  PROVE  SInv'
<1>1. /\ Change /\ Fits(new.score) /\ profile' = [profile EXCEPT ![p] = new] /\ UNCHANGED <<format, assignment>>
      /\ Refresh(AssignedTo(p))
  BY DEF UpdateProfile
<1>2. new \in Profile /\ new # None
  BY ReleaseScoresAssumption
<1>3. profile' \in [Profiles -> Profile \cup {None}]
  BY <1>1, <1>2 DEF SInv, STypeOK
<1>4. Given'
  BY <1>1, <1>2 DEF SInv, STypeOK, Given, Fits
<1>5. \A r \in Releases : TitleOf[r] \notin AssignedTo(p) /\ assignment'[TitleOf[r]] # None =>
        /\ assignment[TitleOf[r]] # None
        /\ Current(format', profile', assignment', r) = Current(format, profile, assignment, r)
  <2> SUFFICES ASSUME NEW r \in Releases, TitleOf[r] \notin AssignedTo(p), assignment[TitleOf[r]] # None
               PROVE  Current(format', profile', assignment', r) = Current(format, profile, assignment, r)
    BY <1>1
  <2> DEFINE a == assignment[TitleOf[r]]
  <2>1. a.profile # p
    BY ReleaseScoresAssumption DEF AssignedTo
  <2>2. a.profile # None => profile'[a.profile] = profile[a.profile]
    BY <1>1, <2>1 DEF SInv, STypeOK
  <2>3. EffectiveScore(profile', a) = EffectiveScore(profile, a)
    BY <2>2 DEF EffectiveScore
  <2> QED BY <1>1, <2>3 DEF Current
<1>6. /\ format' \in [Formats -> Definitions \cup {None}]
      /\ assignment' \in [Titles -> Assignment \cup {None}]
  BY <1>1 DEF SInv, STypeOK
<1>7. STypeOK' /\ FreshReadings' /\ ScoresTruthful'
  BY <1>1, <1>3, <1>5, <1>6, ChangeCounts, RefreshLeaves DEF SInv
<1> QED BY <1>4, <1>7 DEF SInv

LEMMA DeleteProfileKeeps ==
  ASSUME SInv, NEW p \in Profiles, DeleteProfile(p)
  PROVE  SInv'
<1>1. /\ Change /\ profile' = [profile EXCEPT ![p] = None] /\ UNCHANGED format
      /\ assignment' = [t \in Titles |-> IF t \in AssignedTo(p) THEN [assignment[t] EXCEPT !.profile = None]
                                         ELSE assignment[t]]
      /\ Refresh(AssignedTo(p))
  BY DEF DeleteProfile
<1>2. profile' \in [Profiles -> Profile \cup {None}] /\ format' \in [Formats -> Definitions \cup {None}]
  BY <1>1 DEF SInv, STypeOK
<1>3. \A t \in AssignedTo(p) : /\ assignment'[t] \in Assignment /\ assignment'[t].profile = None
                               /\ assignment'[t].override = assignment[t].override
  BY <1>1 DEF SInv, STypeOK, Assignment, AssignedTo
<1>4. \A t \in Titles \ AssignedTo(p) : assignment'[t] = assignment[t]
  BY <1>1
<1>5. assignment' \in [Titles -> Assignment \cup {None}]
  <2>1. assignment' = [t \in Titles |-> assignment'[t]]
    BY <1>1
  <2>2. \A t \in Titles : assignment'[t] \in Assignment \cup {None}
    BY <1>3, <1>4 DEF SInv, STypeOK
  <2> QED BY <2>1, <2>2
<1>6. Given'
  <2>1. \A q \in Profiles : profile'[q] # None => profile'[q] = profile[q]
    BY <1>1 DEF SInv, STypeOK
  <2>2. \A t \in Titles : assignment'[t] # None => assignment[t] # None /\ assignment'[t].override = assignment[t].override
    BY <1>3, <1>4 DEF AssignedTo
  <2>3. \A t \in Titles : assignment'[t] # None /\ assignment'[t].profile # None => profile'[assignment'[t].profile] # None
    <3> SUFFICES ASSUME NEW t \in Titles, assignment'[t] # None, assignment'[t].profile # None
                 PROVE  profile'[assignment'[t].profile] # None
      OBVIOUS
    <3>1. assignment'[t] = assignment[t] /\ assignment[t].profile # p
      BY <1>3, <1>4 DEF AssignedTo
    <3>2. assignment[t].profile \in Profiles /\ profile[assignment[t].profile] # None
      BY <3>1 DEF SInv, STypeOK, Given, Assignment
    <3> QED BY <1>1, <3>1, <3>2 DEF SInv, STypeOK
  <2> QED BY <1>1, <2>1, <2>2, <2>3 DEF SInv, Given, Fits
<1>7. \A r \in Releases : TitleOf[r] \notin AssignedTo(p) /\ assignment'[TitleOf[r]] # None =>
        /\ assignment[TitleOf[r]] # None
        /\ Current(format', profile', assignment', r) = Current(format, profile, assignment, r)
  <2> SUFFICES ASSUME NEW r \in Releases, TitleOf[r] \notin AssignedTo(p), assignment'[TitleOf[r]] # None
               PROVE  /\ assignment[TitleOf[r]] # None
                      /\ Current(format', profile', assignment', r) = Current(format, profile, assignment, r)
    OBVIOUS
  <2> DEFINE a == assignment[TitleOf[r]]
  <2>1. TitleOf[r] \in Titles /\ assignment'[TitleOf[r]] = a /\ a # None
    BY <1>4, ReleaseScoresAssumption
  <2>2. a.profile # p
    BY <2>1 DEF AssignedTo
  <2>3. a.profile # None => profile'[a.profile] = profile[a.profile]
    BY <1>1, <2>2 DEF SInv, STypeOK
  <2>4. EffectiveScore(profile', a) = EffectiveScore(profile, a)
    BY <2>3 DEF EffectiveScore
  <2> QED BY <1>1, <2>1, <2>4 DEF Current
<1>8. STypeOK' /\ FreshReadings' /\ ScoresTruthful'
  BY <1>1, <1>2, <1>5, <1>7, ChangeCounts, RefreshLeaves DEF SInv
<1> QED BY <1>6, <1>8 DEF SInv

LEMMA SaveSettingsKeeps ==
  ASSUME SInv, NEW t \in Titles, NEW new \in Assignment, SaveSettings(t, new)
  PROVE  SInv'
<1>1. /\ Change /\ (new.profile # None => profile[new.profile] # None)
      /\ Fits(new.override) /\ assignment' = [assignment EXCEPT ![t] = new]
      /\ UNCHANGED <<format, profile>> /\ Refresh({t})
  BY DEF SaveSettings
<1>2. /\ assignment' \in [Titles -> Assignment \cup {None}]
      /\ assignment'[t] = new /\ \A u \in Titles \ {t} : assignment'[u] = assignment[u]
  BY <1>1 DEF SInv, STypeOK
<1>3. Given'
  BY <1>1, <1>2 DEF SInv, Given, Fits
<1>4. \A r \in Releases : TitleOf[r] \notin {t} /\ assignment'[TitleOf[r]] # None =>
        /\ assignment[TitleOf[r]] # None
        /\ Current(format', profile', assignment', r) = Current(format, profile, assignment, r)
  BY <1>1, <1>2, ReleaseScoresAssumption DEF Current
<1>5. format' \in [Formats -> Definitions \cup {None}] /\ profile' \in [Profiles -> Profile \cup {None}]
  BY <1>1 DEF SInv, STypeOK
<1>6. STypeOK' /\ FreshReadings' /\ ScoresTruthful'
  BY <1>1, <1>2, <1>4, <1>5, ChangeCounts, RefreshLeaves DEF SInv
<1> QED BY <1>3, <1>6 DEF SInv

LEMMA EditKeeps ==
  ASSUME SInv, NEW known \in SUBSET Titles, EditStep(known)
  PROVE  SInv'
<1>1. CASE \E f \in Formats : \/ \E d \in Definitions : CreateFormat(f, d) \/ UpdateFormat(f, d)
                              \/ DeleteFormat(f)
  BY <1>1, CreateFormatKeeps, UpdateFormatKeeps, DeleteFormatKeeps
<1>2. CASE \E p \in Profiles : \/ \E new \in Policies : CreateProfile(p, new) \/ UpdateProfile(p, new)
                               \/ DeleteProfile(p)
  BY <1>2, CreateProfileKeeps, UpdateProfileKeeps, DeleteProfileKeeps
<1>3. CASE \E t \in known, p \in Profiles \cup {None}, override \in Overrides :
             SaveSettings(t, [profile |-> p, override |-> override])
  <2>1. PICK t \in known, p \in Profiles \cup {None}, override \in Overrides :
             SaveSettings(t, [profile |-> p, override |-> override])
    BY <1>3
  <2>2. [profile |-> p, override |-> override] \in Assignment /\ t \in Titles
    BY ReleaseScoresAssumption DEF Assignment
  <2> QED BY <2>1, <2>2, SaveSettingsKeeps
<1> QED BY <1>1, <1>2, <1>3 DEF EditStep

LEMMA EvaluatesKeeps ==
  ASSUME SInv, NEW r \in Releases, Evaluates(r)
  PROVE  SInv'
<1> DEFINE new == [score |-> Current(format, profile, assignment, r), loaded |-> release[r], late |-> FALSE]
<1>1. /\ Change /\ reading' = [reading EXCEPT ![r] = new]
      /\ UNCHANGED <<format, profile, assignment, release, suspect>>
  BY DEF Evaluates
<1>2. new \in Reading
  BY CurrentIsNumber DEF SInv, STypeOK, Reading
<1>3. new.score = Current(format, profile, assignment, r)
  OBVIOUS
<1> HIDE DEF new
<1>4. STypeOK'
  BY <1>1, <1>2, ChangeCounts DEF SInv, STypeOK
<1>5. FreshReadings'
  BY <1>1, <1>3 DEF SInv, STypeOK, FreshReadings
<1> QED BY <1>1, <1>4, <1>5 DEF SInv, Given, Fits, ScoresTruthful

\* What is stored is current, or its release is suspect.
LEMMA StoresKeeps ==
  ASSUME SInv, NEW r \in Releases, Stores(r)
  PROVE  SInv'
<1>1. /\ reading[r] # None /\ reading' = [reading EXCEPT ![r] = None]
      /\ UNCHANGED <<format, profile, assignment, changes>>
  BY DEF Stores
<1>2. reading[r] \in Reading
  BY <1>1 DEF SInv, STypeOK
<1>3. CASE UNCHANGED <<release, suspect>>
  <2>1. STypeOK'
    BY <1>1, <1>3 DEF SInv, STypeOK
  <2>2. FreshReadings'
    BY <1>1 DEF SInv, STypeOK, FreshReadings
  <2> QED BY <1>1, <1>3, <2>1, <2>2 DEF SInv, Given, Fits, ScoresTruthful
<1>4. CASE /\ release' = [release EXCEPT ![r] = reading[r].score]
           /\ suspect' = IF reading[r].late THEN suspect \cup {r} ELSE suspect \ {r}
  <2>1. STypeOK'
    BY <1>1, <1>2, <1>4 DEF SInv, STypeOK, Reading
  <2>2. FreshReadings'
    BY <1>1 DEF SInv, STypeOK, FreshReadings
  <2>3. ~reading[r].late => reading[r].score = Current(format, profile, assignment, r)
    BY <1>1 DEF SInv, FreshReadings
  <2>4. ScoresTruthful'
    <3> SUFFICES ASSUME NEW q \in Releases, q \notin suspect', release'[q] \notin {None, Unscored}, assignment[TitleOf[q]] # None
                 PROVE  release'[q] = Current(format, profile, assignment, q)
      BY <1>1 DEF ScoresTruthful
    <3>1. CASE q = r
      BY <1>4, <2>3, <3>1 DEF SInv, STypeOK
    <3>2. CASE q # r
      BY <1>4, <3>2 DEF SInv, STypeOK, ScoresTruthful
    <3> QED BY <3>1, <3>2
  <2> QED BY <1>1, <2>1, <2>2, <2>4 DEF SInv, Given, Fits
<1> QED BY <1>3, <1>4 DEF Stores

\* A download brings a release without a score.
LEMMA ArrivesKeeps ==
  ASSUME SInv, NEW r \in Releases, Arrives(r)
  PROVE  SInv'
<1>1. /\ Change /\ release' = [release EXCEPT ![r] = Unscored]
      /\ UNCHANGED <<format, profile, assignment, reading, suspect>>
  BY DEF Arrives
<1>2. STypeOK'
  BY <1>1, ChangeCounts DEF SInv, STypeOK
<1>3. ScoresTruthful'
  BY <1>1 DEF SInv, STypeOK, ScoresTruthful
<1> QED BY <1>1, <1>2, <1>3 DEF SInv, Given, Fits, FreshReadings

-----------------------------------------------------------------------------
(* Types, and the scores of the whole                                      *)

\* A search that began has a title, and what it froze while it asks.
Framed ==
  \A j \in Searches :
    /\ search[j].at # "free" => search[j].title # None
    /\ search[j].at \in {"asking", "nobody"} => search[j].policy \in Policy

TInv == IInv /\ TypeOK /\ Framed /\ SInv

LEMMA InitTInv == Init => TInv
<1> SUFFICES ASSUME Init PROVE TInv
  OBVIOUS
<1>1. 0 \in Int /\ 0 \in 0 .. MaxChanges /\ Policies \subseteq Profile
  BY ReleaseScoresAssumption
<1>2. STypeOK
  BY <1>1 DEF Init, SInit, STypeOK
<1>3. Given /\ FreshReadings /\ ScoresTruthful
  BY DEF Init, SInit, Given, FreshReadings, ScoresTruthful
<1>4. NoSearch \in Search /\ NoResult \in Result
  BY DEF NoSearch, Search, NoResult, Result
<1>5. Framed
  BY DEF Init, Framed, NoSearch
<1>6. IInv
  BY InitIInv
<1>7. TypeOK
  BY <1>2, <1>4, <1>6 DEF Init, TypeOK, IInv, Shape
<1> QED BY <1>2, <1>3, <1>5, <1>6, <1>7 DEF TInv, SInv

LEMMA PolicyIsPolicy ==
  ASSUME TInv, NEW t \in Titles, NEW p \in Profiles \cup {None}, p # None => profile[p] # None
  PROVE  PolicyNow(t, p) \in Policy
<1> DEFINE used  == IF p # None THEN p ELSE IF assignment[t] = None THEN None ELSE assignment[t].profile
           score == IF p # None THEN BaseScore(profile[p]) ELSE EffectiveScore(profile, assignment[t])
           order == Allowed(IF used = None THEN None ELSE profile[used])
<1>1. used \in Profiles \cup {None}
  BY DEF TInv, TypeOK, STypeOK, Assignment
<1>2. score \in [Formats -> Int]
  <2>1. CASE p # None
    <3>1. profile[p] \in Profile
      BY <2>1 DEF TInv, TypeOK, STypeOK
    <3> QED BY <2>1, <3>1, ReleaseScoresAssumption DEF BaseScore, Profile
  <2>2. CASE p = None
    <3>1. profile \in [Profiles -> Profile \cup {None}] /\ assignment[t] \in Assignment \cup {None}
      BY DEF TInv, TypeOK, STypeOK
    <3> QED BY <2>2, <3>1, EffectiveIsNumber
  <2> QED BY <2>1, <2>2
<1>3. PolicyNow(t, p) = [score |-> [r \in Releases |-> Evaluate(format, score, r)],
                         allowed |-> {r \in Releases : QualityOf[r] \in order}, profile |-> used]
  BY DEF PolicyNow
<1> HIDE DEF used, score, order
<1>4. format \in [Formats -> Definitions \cup {None}]
  BY DEF TInv, TypeOK, STypeOK
<1>5. \A r \in Releases : Evaluate(format, score, r) \in Int
  BY <1>2, <1>4, EvaluateIsNumber
<1> QED BY <1>1, <1>3, <1>5 DEF Policy

LEMMA BecomesTyped ==
  ASSUME TInv, NEW j \in Searches, NEW s \in Search, Becomes(j, s),
         s.at # "free" => s.title # None, s.at \in {"asking", "nobody"} => s.policy \in Policy
  PROVE  search' \in [Searches -> Search] /\ Framed'
  BY DEF TInv, TypeOK, Framed, Becomes

LEMMA JobTyped ==
  ASSUME TInv, NEW j \in Searches, NEW status, Job(j, status),
         search[j].at # "free",
         status \in {"none", "queued", "running", "completed", "failed", "cancelled", "interrupted"}
  PROVE  search' \in [Searches -> Search] /\ Framed'
<1> DEFINE s == [search[j] EXCEPT !.job = status, !.at = "done", !.pending = {}]
<1>1. search[j] \in Search /\ search[j].title # None
  BY DEF TInv, TypeOK, Framed
<1>2. s \in Search /\ s.at = "done" /\ s.title = search[j].title
  BY <1>1 DEF Search
<1>3. Becomes(j, s)
  BY DEF Job
<1> HIDE DEF s
<1> QED BY <1>1, <1>2, <1>3, BecomesTyped

LEMMA SearchTyped ==
  ASSUME TInv, [Next]_vars
  PROVE  search' \in [Searches -> Search] /\ Framed'
<1>0. \A j \in Searches : search[j] \in Search
  BY DEF TInv, TypeOK
<1>1. CASE UNCHANGED search
  BY <1>1 DEF TInv, TypeOK, Framed
<1>2. ASSUME NEW j \in Searches, NEW t \in Titles, NEW p \in Profiles \cup {None}, Start(j, t, p)
      PROVE  search' \in [Searches -> Search] /\ Framed'
  <2> DEFINE s == [NoSearch EXCEPT !.at = "scheduled", !.job = "queued", !.title = t, !.added = p = None, !.chosen = p]
  <2>1. s \in Search /\ s.at = "scheduled" /\ s.title = t
    BY DEF NoSearch, Search
  <2>2. t # None
    BY ReleaseScoresAssumption
  <2>3. Becomes(j, s)
    BY <1>2 DEF Start
  <2> HIDE DEF s
  <2> QED BY <2>1, <2>2, <2>3, BecomesTyped
<1>3. ASSUME NEW j \in Searches, SetUp(j)
      PROVE  search' \in [Searches -> Search] /\ Framed'
  <2>1. search[j].at = "scheduled" /\ search[j].title \in Titles /\ search[j].title # None
    BY <1>0, <1>3 DEF SetUp, TInv, Framed, Search
  <2>2. CASE Job(j, search[j].job)
    BY <1>0, <2>1, <2>2, JobTyped DEF Search
  <2>3. CASE Becomes(j, [search[j] EXCEPT !.at = "lost"])
    <3> DEFINE s == [search[j] EXCEPT !.at = "lost"]
    <3>1. s \in Search /\ s.at = "lost" /\ s.title = search[j].title
      BY <1>0 DEF Search
    <3> HIDE DEF s
    <3>2. Becomes(j, s)
      BY <2>3 DEF s
    <3> QED BY <2>1, <3>1, <3>2, BecomesTyped
  <2>4. CASE /\ ~(search[j].chosen # None /\ profile[search[j].chosen] = None)
             /\ Becomes(j, [search[j] EXCEPT !.at = IF configured = {} THEN "nobody" ELSE "asking", !.job = "running",
                                             !.pending = configured, !.policy = PolicyNow(search[j].title, search[j].chosen)])
    <3> DEFINE policy == PolicyNow(search[j].title, search[j].chosen)
               at == IF configured = {} THEN "nobody" ELSE "asking"
               s == [search[j] EXCEPT !.at = at, !.job = "running", !.pending = configured, !.policy = policy]
    <3>1. policy \in Policy
      BY <1>0, <2>1, <2>4, PolicyIsPolicy DEF Search
    <3>2. configured \subseteq Indexers
      BY DEF TInv, TypeOK
    <3>3. at \in {"nobody", "asking"}
      OBVIOUS
    <3>5. Becomes(j, s)
      BY <2>4
    <3> HIDE DEF policy, at
    <3>6. s \in Search /\ s.policy = policy /\ s.title = search[j].title
      BY <1>0, <3>1, <3>2, <3>3 DEF Search
    <3> HIDE DEF s
    <3> QED BY <2>1, <3>1, <3>5, <3>6, BecomesTyped
  <2> QED BY <1>3, <2>2, <2>3, <2>4 DEF SetUp
<1>4. ASSUME NEW j \in Searches, NEW x \in Indexers, NEW found \in SUBSET Releases, Answer(j, x, found)
      PROVE  search' \in [Searches -> Search] /\ Framed'
  <2>1. search[j].at = "asking"
    BY <1>4 DEF Answer
  <2>2. CASE Job(j, "cancelled") \/ Job(j, "failed")
    BY <2>1, <2>2, JobTyped
  <2>3. CASE Becomes(j, [search[j] EXCEPT !.pending = @ \ {x}])
    <3> DEFINE s == [search[j] EXCEPT !.pending = @ \ {x}]
    <3>1. s \in Search /\ s.at = search[j].at /\ s.title = search[j].title /\ s.policy = search[j].policy
      BY <1>0 DEF Search
    <3> HIDE DEF s
    <3>2. Becomes(j, s)
      BY <2>3 DEF s
    <3> QED BY <3>1, <3>2, BecomesTyped DEF TInv, Framed
  <2> QED BY <1>4, <2>2, <2>3 DEF Answer
<1>5. ASSUME NEW j \in Searches, SearchFails(j) \/ Finish(j)
      PROVE  search' \in [Searches -> Search] /\ Framed'
  <2>1. search[j].at # "free" /\ search[j].title # None
    BY <1>5 DEF SearchFails, Finish, TInv, Framed
  <2>2. CASE \E status \in {"completed", "failed", "cancelled"} : Job(j, status)
    BY <2>1, <2>2, JobTyped
  <2>3. CASE Becomes(j, [search[j] EXCEPT !.at = "lost"])
    <3> DEFINE s == [search[j] EXCEPT !.at = "lost"]
    <3>1. s \in Search /\ s.at = "lost" /\ s.title = search[j].title
      BY <1>0 DEF Search
    <3> HIDE DEF s
    <3>2. Becomes(j, s)
      BY <2>3 DEF s
    <3> QED BY <2>1, <3>1, <3>2, BecomesTyped
  <2> QED BY <1>5, <2>2, <2>3 DEF SearchFails, Finish
<1>6. ASSUME NEW j \in Searches, Cancel(j)
      PROVE  search' \in [Searches -> Search] /\ Framed'
  <2> DEFINE s == [search[j] EXCEPT !.job = "cancelled"]
  <2>1. s \in Search /\ s.at = search[j].at /\ s.title = search[j].title /\ s.policy = search[j].policy
    BY <1>0 DEF Search
  <2>2. Becomes(j, s)
    BY <1>6 DEF Cancel
  <2> HIDE DEF s
  <2> QED BY <2>1, <2>2, BecomesTyped DEF TInv, Framed
<1>7. CASE Restart
  <2>1. search' = [j \in Searches |-> Interrupted(search[j])]
    BY <1>7 DEF Restart
  <2>2. \A j \in Searches : /\ Interrupted(search[j]) \in Search
                            /\ Interrupted(search[j]).at \in {"free", "done", "stopped"}
                            /\ Interrupted(search[j]).at = "free" <=> search[j].at = "free"
                            /\ Interrupted(search[j]).title = search[j].title
    <3> SUFFICES ASSUME NEW j \in Searches
                 PROVE  LET i == Interrupted(search[j]) IN
                        /\ i \in Search /\ i.at \in {"free", "done", "stopped"}
                        /\ i.at = "free" <=> search[j].at = "free"
                        /\ i.title = search[j].title
      OBVIOUS
    <3>1. search[j] \in Search
      BY <1>0
    <3> QED BY <3>1 DEF Interrupted, Search
  <2> QED BY <2>1, <2>2 DEF TInv, Framed
<1>8. \/ UNCHANGED search
      \/ \E j \in Searches, t \in Titles, p \in Profiles \cup {None} : Start(j, t, p)
      \/ \E j \in Searches : SetUp(j) \/ SearchFails(j) \/ Finish(j) \/ Cancel(j)
      \/ \E j \in Searches, x \in Indexers, found \in SUBSET Releases : Answer(j, x, found)
      \/ Restart
  <2>1. CASE Beside
    BY <2>1, BesideEffect DEF TInv, IInv
  <2> QED BY <2>1, StepCases DEF Prepare, Submit, SubmitFails, Select, SelectFails, TimePasses
<1> QED BY <1>1, <1>2, <1>3, <1>4, <1>5, <1>6, <1>7, <1>8

LEMMA ResultTyped ==
  ASSUME TInv, [Next]_vars
  PROVE  result' \in [Rows -> Result]
<1>0. result \in [Rows -> Result]
  BY DEF TInv, TypeOK
<1>1. NoResult \in Result
  BY DEF NoResult, Result
<1>2. CASE UNCHANGED result
  BY <1>0, <1>2
<1>3. CASE result' = Cleaned
  BY <1>0, <1>1, <1>3 DEF Cleaned
<1>4. ASSUME NEW j \in Searches, NEW x \in Indexers, NEW found \in SUBSET Releases, Answer(j, x, found)
      PROVE  result' \in [Rows -> Result]
  <2>1. CASE UNCHANGED result
    BY <1>0, <2>1
  <2>2. CASE result' = Stored(j, found)
    <3>1. search[j].policy \in Policy /\ search[j].added \in BOOLEAN
      BY <1>4 DEF Answer, TInv, TypeOK, Framed, Search
    <3>2. \A r \in Releases : Judged(search[j], r) \in Result
      BY <3>1 DEF Judged, Result, Policy
    <3>3. \A w \in Rows : w[2] \in Releases
      BY DEF Rows
    <3>4. \A w \in Rows : (IF w[1] = j /\ w[2] \in found THEN Judged(search[j], w[2]) ELSE result[w]) \in Result
      BY <1>0, <3>2, <3>3
    <3> QED BY <2>2, <3>4 DEF Stored
  <2> QED BY <1>4, <2>1, <2>2 DEF Answer
<1>5. ASSUME NEW d \in Requests, Select(d)
      PROVE  result' \in [Rows -> Result]
  <2> DEFINE w == request[d].row
             new == [result[w] EXCEPT !.state = "selected", !.entity = TRUE, !.client = request[d].client]
  <2>1. w \in Rows
    BY <1>5, SelectEffect DEF TInv
  <2>2. result[w] \in Result /\ request[d].client \in Clients \cup {None}
    BY <1>0, <2>1 DEF TInv, TypeOK, Request
  <2>3. new \in Result
    BY <2>2 DEF Result
  <2>4. result' = [result EXCEPT ![w] = new]
    BY <1>5 DEF Select
  <2> HIDE DEF new
  <2> QED BY <1>0, <2>3, <2>4
<1>6. ASSUME NEW w \in Rows, TimePasses(w)
      PROVE  result' \in [Rows -> Result]
  <2>1. result' = [result EXCEPT ![w] = [result[w] EXCEPT !.fresh = FALSE]]
    BY <1>6 DEF TimePasses
  <2>2. [result[w] EXCEPT !.fresh = FALSE] \in Result
    BY <1>0 DEF Result
  <2> QED BY <1>0, <2>1, <2>2
<1>7. \/ UNCHANGED result \/ result' = Cleaned
      \/ \E j \in Searches, x \in Indexers, found \in SUBSET Releases : Answer(j, x, found)
      \/ \E d \in Requests : Select(d)
      \/ \E w \in Rows : TimePasses(w)
  <2>1. CASE Beside
    BY <2>1, BesideEffect DEF TInv, IInv
  <2> QED BY <2>1, StepCases
          DEF Start, SetUp, SearchFails, Finish, Cancel, Prepare, Submit, SubmitFails, SelectFails, Restart
<1> QED BY <1>2, <1>3, <1>4, <1>5, <1>6, <1>7

\* What is not an edit, a registration or a selection leaves the settings and the scores alone.
LEMMA SettingsStand ==
  ASSUME SInv, UNCHANGED Settings, changes' \in 0 .. MaxChanges
  PROVE  SInv'
<1>1. STypeOK'
  BY DEF SInv, STypeOK, Settings
<1>2. Given' /\ FreshReadings' /\ ScoresTruthful'
  BY DEF SInv, Settings, Given, Fits, FreshReadings, ScoresTruthful
<1> QED BY <1>1, <1>2 DEF SInv

\* The title that a selection assigns a profile had no settings, so none of its scores was in question;
\* now its releases are suspect.
LEMMA SelectScores ==
  ASSUME TInv, NEW d \in Requests, Select(d)
  PROVE  SInv'
<1> DEFINE q == request[d]
           p == result[q.row].profile
           t == TitleOfRow(q.row)
           new == [profile |-> p, override |-> NoOverride]
<1>1. q.row \in Rows
  BY SelectEffect DEF TInv
<1>2. UNCHANGED <<format, profile, release, changes>>
  BY DEF Select
<1>3. CASE ~q.assigns
  <2>1. UNCHANGED <<assignment, suspect, reading>>
    BY <1>3 DEF Select
  <2> QED BY <1>2, <2>1, SettingsStand DEF TInv, SInv, STypeOK, Settings
<1>4. CASE q.assigns
  <2>1. assignment[t] = None /\ profile[p] # None
    BY <1>4 DEF Select, Conflict
  <2>2. p \in Profiles \cup {None}
    BY <1>1 DEF TInv, TypeOK, Result
  <2>3. new \in Assignment /\ new.profile = p /\ new.override = NoOverride
    BY <2>2 DEF Assignment, NoOverride
  <2>4. /\ assignment' = [assignment EXCEPT ![t] = new]
        /\ suspect' = suspect \cup {r \in Releases : TitleOf[r] = t /\ release[r] # None}
        /\ reading' = Late
    BY <1>4 DEF Select
  <2> HIDE DEF t, new, p, q
  <2>5. /\ reading' \in [Releases -> Reading \cup {None}]
        /\ \A r \in Releases : reading'[r] = None \/ reading'[r].late
    BY <2>4 DEF Late, TInv, SInv, STypeOK, Reading
  <2>6. /\ assignment' \in [Titles -> Assignment \cup {None}]
        /\ \A u \in Titles : assignment'[u] = IF u = t THEN new ELSE assignment[u]
    BY <2>3, <2>4 DEF TInv, SInv, STypeOK
  <2>7. STypeOK'
    BY <1>2, <2>4, <2>5, <2>6 DEF TInv, SInv, STypeOK
  <2>8. Given'
    BY <1>2, <2>1, <2>3, <2>6 DEF TInv, SInv, Given, Fits, NoOverride
  <2>9. FreshReadings'
    BY <2>5 DEF FreshReadings
  <2>10. ScoresTruthful'
    <3> SUFFICES ASSUME NEW r \in Releases, r \notin suspect', release'[r] \notin {None, Unscored}, assignment'[TitleOf[r]] # None
                 PROVE  release'[r] = Current(format', profile', assignment', r)
      BY DEF ScoresTruthful
    <3>1. TitleOf[r] \in Titles /\ TitleOf[r] # t /\ r \notin suspect
      BY <1>2, <2>4, ReleaseScoresAssumption
    <3>2. assignment'[TitleOf[r]] = assignment[TitleOf[r]]
      BY <2>6, <3>1
    <3> QED BY <1>2, <3>1, <3>2 DEF TInv, SInv, ScoresTruthful, Current
  <2> QED BY <2>7, <2>8, <2>9, <2>10 DEF SInv
<1> QED BY <1>3, <1>4

LEMMA RestartScores ==
  ASSUME SInv, Restart
  PROVE  SInv'
<1>1. Change /\ release' = release /\ reading' = [r \in Releases |-> None] /\ \E now \in Shipped : Resync(now)
  BY DEF Restart
<1> QED BY <1>1, ResyncKeeps

LEMMA ScoresKeep ==
  ASSUME TInv, [Next]_vars
  PROVE  SInv'
<1>0. SInv /\ changes \in 0 .. MaxChanges
  BY DEF TInv, SInv, STypeOK
<1>1. CASE UNCHANGED Settings /\ (Change \/ UNCHANGED changes)
  BY <1>0, <1>1, ChangeCounts, SettingsStand DEF SInv
<1>2. CASE ChangeSettings
  BY <1>0, <1>2, EditKeeps DEF ChangeSettings, Known
<1>3. CASE \E r \in Releases : Register(r) \/ Incoming(r)
  BY <1>0, <1>3, EvaluatesKeeps, StoresKeeps, ArrivesKeeps DEF Register, Incoming
<1>4. CASE Restart
  BY <1>0, <1>4, RestartScores
<1>5. CASE \E d \in Requests : Select(d)
  BY <1>5, SelectScores
<1>6. \/ UNCHANGED Settings /\ (Change \/ UNCHANGED changes)
      \/ ChangeSettings \/ Restart
      \/ \E r \in Releases : Register(r) \/ Incoming(r)
      \/ \E d \in Requests : Select(d)
  <2>1. CASE Beside
    <3>1. UNCHANGED vars => UNCHANGED Settings /\ UNCHANGED changes
      BY DEF vars, svars, Settings
    <3> QED BY <2>1, <3>1 DEF Beside, Discover, DeleteIndexer
  <2> QED BY <2>1, StepCases
          DEF Start, SetUp, Answer, SearchFails, Finish, Cancel, Prepare, Submit, SubmitFails, SelectFails, TimePasses
<1> QED BY <1>1, <1>2, <1>3, <1>4, <1>5, <1>6

LEMMA TInvStep == TInv /\ [Next]_vars => TInv'
<1> SUFFICES ASSUME TInv, [Next]_vars PROVE TInv'
  OBVIOUS
<1>1. IInv' /\ SInv' /\ Framed' /\ search' \in [Searches -> Search] /\ result' \in [Rows -> Result]
  BY NextKeeps, ScoresKeep, SearchTyped, ResultTyped DEF TInv
<1>2. configured' \subseteq Indexers
  <2>1. UNCHANGED configured \/ \E x \in Indexers : DeleteIndexer(x)
    <3>1. CASE Beside
      BY <3>1 DEF Beside, ChangeSettings, Register, Incoming, Discover, vars
    <3> QED BY <3>1, StepCases
            DEF Start, SetUp, Answer, SearchFails, Finish, Cancel, Prepare, Submit, SubmitFails, Select,
                SelectFails, TimePasses, Restart
  <2> QED BY <2>1 DEF DeleteIndexer, TInv, TypeOK
<1>3. TypeOK'
  BY <1>1, <1>2 DEF TypeOK, IInv, Shape, SInv
<1> QED BY <1>1, <1>3 DEF TInv

THEOREM TInvHolds == Spec => []TInv
  BY InitTInv, TInvStep, PTL DEF Spec

\* Settings, scores, searches, rows and requests stay what they are said to be, the scores numbers.
THEOREM TypeCorrect == Spec => []TypeOK
<1>1. TInv => TypeOK
  BY DEF TInv
<1> QED BY <1>1, TInvHolds, PTL

\* The score of each release of a title with settings is what its settings give now, unless it is one
\* of the suspects: each edit refreshes all the releases it can change, for any formats and profiles.
THEOREM ScoresAreTruthful == Spec => []ScoresTruthful
<1>1. TInv => ScoresTruthful
  BY DEF TInv, SInv
<1> QED BY <1>1, TInvHolds, PTL

=============================================================================
