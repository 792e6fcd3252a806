------------------------------- MODULE Search -------------------------------
(***************************************************************************)
(* search of app/retrieval.py, beside worker jobs that spend the same      *)
(* allowance and while documents are indexed, superseded and deleted.      *)
(*                                                                         *)
(* Each SELECT, provider call and vector query of a request is a step.     *)
(* How a channel ranks is not modelled: a channel returns any ranking of   *)
(* the chunks it can see.  Qdrant's marks may lag (Vectors), so it may     *)
(* return a chunk of any version that was ever embedded.  The filters by   *)
(* source, media type and path work like the one by history.  The chunks   *)
(* of a version are not replaced here.                                     *)
(***************************************************************************)
EXTENDS Budget, Sequences, SequencesExt

CONSTANTS
    Requests, Workers,
    Documents, Versions, None, NChunks,
    Limits,      \* values of the parameter limit
    Candidates,  \* candidates of a channel, min(100, max(20, limit * 5)) in the code
    Fusion,      \* candidates left after the fusion, at most, 50
    Reranked,    \* smallest number of reranked results, 12
    PerDocument, \* results of one document in the first half, 3
    MaxChanges   \* bound on changes of the catalogue, the settings and the month together

ASSUME SearchAssumption ==
    /\ Callers = Requests \cup Workers /\ Requests \cap Workers = {}
    /\ Limits \subseteq Nat \ {0}
    /\ None \notin Versions
    /\ {NChunks, Candidates, Fusion, Reranked, PerDocument} \subseteq Nat \ {0}
    /\ MaxChanges \in Nat

Chunks == [doc : Documents, version : Versions, n : 1..NChunks]
Channels == {"text", "visual"}

VARIABLES
    extracted, \* versions whose chunks are in SQLite, for a document
    current,   \* documents.current_version_id, or None
    deleted,   \* documents with deleted_at
    ready,     \* versions marked text_indexed_at or visual_indexed_at, with their document
    embedded,  \* versions whose vectors are in Qdrant
    request,
    changes,
    fresh,     \* history: the versions to be found at some moment of a request,
    steady     \* and those to be found from its beginning on

catalogue == <<extracted, current, deleted, ready, embedded, changes>>
watched == <<fresh, steady>>
searchVars == <<catalogue, request, watched>>
vars == <<budgetVars, searchVars>>

RequestRecord ==
    [at : {"no", "text", "text call", "visual", "visual call", "load", "rerank", "answered", "failed"},
     limit : Limits \cup {0}, history : BOOLEAN, lexical : Seq(Chunks), text : Seq(Chunks),
     visual : Seq(Chunks), ranked : Seq(Chunks), results : Seq(Chunks)]

NoRequest == [at |-> "no", limit |-> 0, history |-> FALSE, lexical |-> <<>>, text |-> <<>>,
              visual |-> <<>>, ranked |-> <<>>, results |-> <<>>]

QInit ==
    /\ BInit
    /\ deleted \in SUBSET Documents
    /\ extracted \in [Documents -> SUBSET Versions]
    /\ current \in [Documents -> Versions \cup {None}]
    /\ \A d \in Documents :
          IF d \in deleted THEN extracted[d] = {} ELSE current[d] \in extracted[d] \cup {None}
    /\ \E done \in {{}, {p \in Documents \X Versions : p[2] \in extracted[p[1]]}} :
          /\ done # {} => key
          /\ ready = [ch \in Channels |-> done]
    /\ embedded = ready
    /\ request = [r \in Requests |-> NoRequest]
    /\ changes = 0
    /\ fresh = [r \in Requests |-> {}] /\ steady = fresh

-----------------------------------------------------------------------------
(* The catalogue and the worker                                            *)

\* What a request with or without history may show of the present catalogue.
Findable(history) ==
    {p \in Documents \X Versions :
        /\ p[1] \notin deleted
        /\ p[2] \in extracted[p[1]]
        /\ history \/ p[2] = current[p[1]]}

Running(r) == request[r].at \notin {"no", "answered", "failed"}

Watch ==
    LET now(r) == Findable(request[r].history)'
    IN  /\ fresh' = [r \in Requests |-> fresh[r] \cup IF Running(r) THEN now(r) ELSE {}]
        /\ steady' = [r \in Requests |-> IF Running(r) THEN steady[r] \cap now(r) ELSE steady[r]]

\* process_extract writes the chunks of a version; as obsolete they go again.
Extract(d, v) ==
    /\ d \notin deleted /\ v \notin extracted[d]
    /\ extracted' = [extracted EXCEPT ![d] = @ \cup {v}]
    /\ UNCHANGED <<current, deleted, ready, embedded>>
Discard(d, v) ==
    /\ v \in extracted[d] \ {current[d]}
    /\ extracted' = [extracted EXCEPT ![d] = @ \ {v}]
    /\ UNCHANGED <<current, deleted, ready, embedded>>

\* Its last transaction, or an upload of a version that is indexed, makes it current.
Publish(d, v) ==
    /\ v \in extracted[d] \ {current[d]}
    /\ current' = [current EXCEPT ![d] = v]
    /\ UNCHANGED <<extracted, deleted, ready, embedded>>

\* Reconciliation deletes a document and its versions, a job later their vectors; an
\* upload brings the document back.
Delete(d) ==
    /\ d \notin deleted
    /\ deleted' = deleted \cup {d}
    /\ extracted' = [extracted EXCEPT ![d] = {}]
    /\ ready' = [ch \in Channels |-> {p \in ready[ch] : p[1] # d}]
    /\ UNCHANGED <<current, embedded>>
Restore(d) ==
    /\ d \in deleted
    /\ deleted' = deleted \ {d}
    /\ UNCHANGED <<extracted, current, ready, embedded>>

\* An embedding job, which had a key, writes the vectors of a version and marks it.
Embed(d) ==
    /\ key
    /\ \E v \in extracted[d], ch \in Channels :
          /\ <<d, v>> \notin ready[ch]
          /\ ready' = [ready EXCEPT ![ch] = @ \cup {<<d, v>>}]
          /\ embedded' = [embedded EXCEPT ![ch] = @ \cup {<<d, v>>}]
    /\ UNCHANGED <<extracted, current, deleted>>

Change ==
    /\ changes' = changes + 1
    /\ \E d \in Documents :
          \/ \E v \in Versions : Extract(d, v) \/ Discard(d, v) \/ Publish(d, v)
          \/ Delete(d) \/ Restore(d) \/ Embed(d)
    /\ UNCHANGED <<request, budgetVars>>
    /\ Watch

\* The paid call of an embedding job; its death and its result are the same to a search.
WorkerStep(w) ==
    /\ \/ CallStep(w) /\ call'[w].op = "text"
       \/ call[w].step # "idle" /\ Return(w)
    /\ UNCHANGED searchVars

-----------------------------------------------------------------------------
(* A request                                                               *)

Rankings(S) == UNION {Injection(1..n, S) : n \in 0..Candidates}

ChunksOf(found) == {c \in Chunks : <<c.doc, c.version>> \in found}

\* _lexical, which joins the documents
Begin(r) ==
    /\ request[r].at = "no"
    /\ \E limit \in Limits, history \in BOOLEAN :
       \E ranking \in Rankings(ChunksOf(Findable(history))) :
          request' = [request EXCEPT ![r] = [NoRequest EXCEPT
              !.at = "text", !.limit = limit, !.history = history, !.lexical = ranking]]
    /\ fresh' = [fresh EXCEPT ![r] = Findable(request'[r].history)]
    /\ steady' = [steady EXCEPT ![r] = fresh'[r]]
    /\ UNCHANGED <<budgetVars, catalogue>>

MutantReady(ch) == TRUE
Ready(ch) == \E p \in ready[ch] : p[1] \notin deleted /\ current[p[1]] = p[2]

After(ch) == IF ch = "text" THEN "visual" ELSE "load"
Calling(ch) == IF ch = "text" THEN "text call" ELSE "visual call"

\* _dense and _visual before their try: no coverage, Qdrant fails and with it the
\* request, the collection is missing, or the query is to be embedded.
Look(r) ==
    /\ request[r].at \in Channels
    /\ LET ch == request[r].at
       IN  \E next \in IF Ready(ch) THEN {"failed", After(ch), Calling(ch)} ELSE {After(ch)} :
               request' = [request EXCEPT ![r].at = next]
    /\ UNCHANGED <<budgetVars, catalogue, watched>>

\* The rest of them: the vector query, or an empty list and a warning.
Query(r, ch) ==
    /\ request[r].at = Calling(ch)
    /\ \E ranking \in IF call[r].step = "returned"
                      THEN Rankings(ChunksOf(embedded[ch])) ELSE {<<>>} :
          request' = [request EXCEPT ![r].at = After(ch), ![r][ch] = ranking]
    /\ call[r].step \in {"returned", "failed"} /\ Return(r)
    /\ UNCHANGED <<catalogue, watched>>

\* Reciprocal-rank fusion, in millionths; ties keep the order of the channels.
Place(seq, c) == SelectInSeq(seq, LAMBDA e : e = c)
One == 1000000
Share(seq, c) == IF Place(seq, c) = 0 THEN 0 ELSE One \div (60 + Place(seq, c))
Score(q, c) == Share(q.lexical, c) + Share(q.text, c) + Share(q.visual, c)

Found(q) == q.lexical \o q.text \o q.visual
Before(q, a, b) ==
    \/ Score(q, a) > Score(q, b)
    \/ Score(q, a) = Score(q, b) /\ Place(Found(q), a) < Place(Found(q), b)
Fused(q) ==
    {c \in ToSet(Found(q)) : Cardinality({b \in ToSet(Found(q)) : Before(q, b, c)})
                               < Min({2 * Candidates, Fusion})}

\* _load_chunks: the candidates are checked against SQLite.
MutantShown(q, c) == c.doc \notin deleted
Shown(q, c) == <<c.doc, c.version>> \in Findable(q.history)

\* Selection, diversified by document.
Of(d, results, n) == Cardinality({i \in 1..n : results[i].doc = d})
MutantTaken(limit, chosen, c) == Len(chosen) < limit
Taken(limit, chosen, c) ==
    /\ Len(chosen) < limit
    /\ Of(c.doc, chosen, Len(chosen)) < PerDocument \/ Len(chosen) >= limit \div 2
Select(limit, ranked) ==
    LET chosen[n \in 0..Len(ranked)] ==
          IF n = 0 THEN <<>>
          ELSE IF Taken(limit, chosen[n - 1], ranked[n]) THEN Append(chosen[n - 1], ranked[n])
          ELSE chosen[n - 1]
    IN  chosen[Len(ranked)]

Answer(r, ranked) ==
    request' = [request EXCEPT
        ![r].at = "answered", ![r].text = <<>>, ![r].visual = <<>>,
        ![r].ranked = ranked, ![r].results = Select(request[r].limit, ranked)]

Load(r) ==
    /\ request[r].at = "load"
    /\ LET q == request[r]
           kept == {c \in Fused(q) : Shown(q, c)}
       IN  \E ranked \in Bijection(1..Cardinality(kept), kept) :
              /\ \A i, j \in DOMAIN ranked : i < j => Before(q, ranked[i], ranked[j])
              /\ \/ Len(ranked) <= 1 /\ Answer(r, ranked)
                 \/ /\ Len(ranked) > 1
                    /\ request' = [request EXCEPT ![r].at = "rerank", ![r].text = <<>>,
                                                 ![r].visual = <<>>, ![r].ranked = ranked]
    /\ UNCHANGED <<budgetVars, catalogue, watched>>

\* The reranker orders the candidates anew and keeps the best; without it, or when it
\* names candidates there are not, they stay as they are.
Rerank(r) ==
    /\ request[r].at = "rerank"
    /\ LET q == request[r]
           top == Min({Len(q.ranked), Max({q.limit * 3, Reranked})})
       IN  \/ call[r].step \in {"failed", "returned"} /\ Answer(r, q.ranked)
           \/ /\ call[r].step = "returned"
              /\ \E s \in Injection(1..top, ToSet(q.ranked)) : Answer(r, s)
    /\ Return(r)
    /\ UNCHANGED <<catalogue, watched>>

\* A step of the paid call of a channel or of the reranking
Call(r) ==
    /\ CallStep(r)
    /\ request[r].at = CASE call'[r].op = "rerank" -> "rerank" [] OTHER -> Calling(call'[r].op)
    /\ UNCHANGED searchVars

\* The API process dies: the request is gone, its row in the ledger stays.
Die(r) ==
    /\ call[r].step # "idle"
    /\ request' = [request EXCEPT ![r] = NoRequest]
    /\ fresh' = [fresh EXCEPT ![r] = {}] /\ steady' = [steady EXCEPT ![r] = {}]
    /\ Return(r)
    /\ UNCHANGED catalogue

RequestStep(r) ==
    \/ Begin(r) \/ Look(r) \/ Load(r) \/ Rerank(r) \/ Call(r) \/ Die(r)
    \/ \E ch \in Channels : Query(r, ch)

\* Bound: nothing is explored after the last request has ended.
Going == \E r \in Requests : request[r].at \notin {"answered", "failed"}

QNext ==
    \/ \E r \in Requests : RequestStep(r)
    \/ \E w \in Workers : Going /\ WorkerStep(w)
    \/ /\ Going /\ changes + events < MaxChanges
       /\ \/ Change
          \/ (Set \/ TurnMonth) /\ UNCHANGED searchVars

QSpec == QInit /\ [][QNext]_vars

-----------------------------------------------------------------------------
\* The variables keep their types; no ranking of a request names a chunk twice, and no two
\* callers settle the same row of the ledger, whatever calls they repeat.
QTypeOK ==
    /\ BTypeOK
    /\ extracted \in [Documents -> SUBSET Versions] /\ deleted \subseteq Documents
    /\ current \in [Documents -> Versions \cup {None}]
    /\ {ready, embedded} \subseteq [Channels -> SUBSET (Documents \X Versions)]
    /\ changes \in 0..MaxChanges
    /\ {fresh, steady} \subseteq [Requests -> SUBSET (Documents \X Versions)]
    /\ request \in [Requests -> RequestRecord]
    /\ \A r \in Requests : LET q == request[r] IN
          \A seq \in {q.lexical, q.text, q.visual, q.ranked, q.results} : IsInjective(seq)

\* Whatever was indexed, superseded or deleted between a channel's ranking and the answer,
\* and whatever Qdrant still marks as current: a result belongs to a version that could be
\* found while the request ran.  ("Ordinary search returns current revisions only ... are
\* checked again against SQLite before results leave the service", ARCHITECTURE.md)
AnswerIsFresh ==
    \A r \in Requests : \A c \in ToSet(request[r].results) : <<c.doc, c.version>> \in fresh[r]

\* Without a provider key a search is answered, and from every lexical match that stayed
\* findable and that the fusion has room for; the state of Qdrant does not matter to it.
\* ("Keep lexical search fully functional with no key", DECISIONS.md)
LexicalStays ==
    ~key => \A r \in Requests :
        /\ request[r].at # "failed"
        /\ request[r].at = "answered" =>
              \A i \in 1..Min({Fusion, Len(request[r].lexical)}) :
                  LET c == request[r].lexical[i]
                  IN  <<c.doc, c.version>> \in steady[r] => c \in ToSet(request[r].ranked)

\* In the first half of an answer no document has more than its share, and a candidate is
\* left out only for the limit or for such a document.  ("results are diversified by
\* document", ARCHITECTURE.md)
Diverse ==
    \A r \in Requests : request[r].at = "answered" =>
        LET q == request[r]
        IN  /\ \A d \in Documents, n \in 1..Min({Len(q.results), q.limit \div 2}) :
                  Of(d, q.results, n) <= PerDocument
            /\ \A c \in ToSet(q.ranked) \ ToSet(q.results) :
                  Len(q.results) = q.limit \/ Of(c.doc, q.results, Len(q.results)) >= PerDocument
=============================================================================
