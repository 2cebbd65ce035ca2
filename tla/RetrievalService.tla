-------------------------- MODULE RetrievalService --------------------------
(***************************************************************************)
(* The deal search: the retrieval service (retrieval_service/main.py) over *)
(* its table and its in-memory corpus, the scripts that change the table   *)
(* while it runs (pg_seed.py, pg_embed.py), and the DealRetriever of the   *)
(* control plane, which asks the service and falls back to a local match   *)
(* over a catalog of its own.                                              *)
(*                                                                         *)
(* The table, the corpus and the catalog are three copies of one file and  *)
(* are refreshed by different steps.  Requests share nothing they write,   *)
(* so one at a time shows what the scripts can do to it.                   *)
(*                                                                         *)
(* A deal is a record of what the filters and channels read; the district  *)
(* is filtered as the city is and left out.  What texts a query matches is *)
(* part of the query; the scores inside a channel are left open, so a      *)
(* channel ranks its hits in any order.  Item ids order the documents.     *)
(***************************************************************************)
EXTENDS DealFilter, Rankings, SequencesExt

CONSTANTS Ids,        \* item ids, numbers
          Files,      \* contents deals.json may have: deals by item id
          Queries,    \* arguments of deal_retriever calls
          TopK,       \* top_k
          PoolFactor, \* candidates of a channel: the larger of top_k times
          VecPool,    \*   this factor and VEC_POOL
          RrfK,       \* RRF_K
          MaxEdits    \* changes of the file

QueryFields == {"city", "category", "hits", "blank", "minPrice", "maxPrice", "people"}

ASSUME SearchAssumption ==
  /\ Ids \subseteq Nat /\ IsFiniteSet(Ids)
  /\ \A f \in Files : DOMAIN f \subseteq Ids /\ f = [i \in DOMAIN f |-> f[i]]
  /\ \A f \in Files : \A i \in DOMAIN f : f[i].text # None /\ f[i].rating \in Int
  /\ \A q \in Queries : DOMAIN q = QueryFields /\ q.maxPrice \in Int
  /\ {TopK, PoolFactor, VecPool, RrfK} \subseteq Nat \ {0} /\ MaxEdits \in Nat

VARIABLES file,      \* data/deals.json
          rows,      \* groupbuy_items: the deal and the text that was embedded, by id
          pgUp,      \* PostgreSQL can be reached
          job,       \* a run of pg_embed.py between its read and its commit
          edits,
          backend,   \* "down", "starting", "postgres" or "json"
          vectorOn,  \* VECTOR_ON
          corpus,    \* DEAL_CORPUS
          catalog    \* deals_ of the control plane's DealCatalog

VARIABLES pc,        \* where the request is
          query,     \* its arguments
          category,  \* effective_category
          level,     \* relaxed_level
          found,     \* ids that passed the filter
          bm25, vec, \* what the two channels found, best first
          answer,    \* the deals the tool returns
          inSync,    \* history: whenever it read the table, the corpus was equal to it
          step       \* history: how far the procedure of a data change has come

data == <<file, rows, job, edits>>
service == <<backend, vectorOn, corpus>>
request == <<pc, query, category, level, found, bm25, vec, answer, inSync>>
vars == <<data, pgUp, service, catalog, request, step>>

NoLimit == 1000000000
DealsIn(table) == [i \in DOMAIN table |-> table[i].deal]
AllDeals == UNION {{f[i] : i \in DOMAIN f} : f \in Files}
Idle == [on |-> FALSE, fresh |-> FALSE, texts |-> <<>>]

Init ==
  /\ file \in Files
  /\ rows = [i \in DOMAIN file |-> [deal |-> file[i], embedded |-> file[i].text]]
  /\ pgUp \in BOOLEAN
  /\ job = Idle /\ edits = 0
  /\ backend = "down" /\ vectorOn = FALSE /\ corpus = <<>>
  /\ catalog = file
  /\ pc = "idle" /\ query \in Queries /\ category = None /\ level = 0 /\ found = {}
  /\ bm25 = <<>> /\ vec = <<>> /\ answer = <<>> /\ inSync = TRUE
  /\ step = 2
-----------------------------------------------------------------------------
(* A change of the data: the generators rewrite the file, pg_seed makes    *)
(* the table match it, pg_embed fills the embeddings that are NULL, the    *)
(* service is restarted.  step counts what was done since the last change. *)

EditFile ==
  /\ edits < MaxEdits
  /\ file' \in Files \ {file}
  /\ edits' = edits + 1
  /\ step' = 0
  /\ job' = [job EXCEPT !.fresh = FALSE]
  /\ UNCHANGED <<rows, pgUp, service, catalog, request>>

(* Mutant: rows that are no longer in the file stay.                       *)
Upserted ==
  [i \in DOMAIN file \cup DOMAIN rows |->
     [deal |-> IF i \in DOMAIN file THEN file[i] ELSE rows[i].deal,
      embedded |-> IF i \in DOMAIN rows THEN rows[i].embedded ELSE None]]

(* Stale rows are deleted, the others inserted or updated; the update does *)
(* not touch the embedding.                                                *)
Synced ==
  [i \in DOMAIN file |->
     [deal |-> file[i], embedded |-> IF i \in DOMAIN rows THEN rows[i].embedded ELSE None]]

Seed ==
  /\ pgUp
  /\ rows' = Synced
  /\ step' = 1
  /\ job' = [job EXCEPT !.fresh = FALSE]
  /\ UNCHANGED <<file, edits, pgUp, service, catalog, request>>

(* The rows to embed: those without embedding, or all with --force.        *)
EmbedReads ==
  /\ pgUp /\ ~job.on
  /\ \E force \in BOOLEAN :
       LET todo == {i \in DOMAIN rows : force \/ rows[i].embedded = None}
       IN  /\ todo # {}
           /\ job' = [on |-> TRUE, fresh |-> TRUE, texts |-> [i \in todo |-> rows[i].deal.text]]
  /\ UNCHANGED <<file, rows, edits, pgUp, service, catalog, request, step>>

EmbedCommits ==
  /\ pgUp /\ job.on
  /\ rows' = [i \in DOMAIN rows |->
                IF i \in DOMAIN job.texts THEN [rows[i] EXCEPT !.embedded = job.texts[i]] ELSE rows[i]]
  /\ job' = Idle
  /\ step' = IF job.fresh /\ step = 1 THEN 2 ELSE step
  /\ UNCHANGED <<file, edits, pgUp, service, catalog, request>>

EmbedAborts == job.on /\ ~pgUp /\ job' = Idle
               /\ UNCHANGED <<file, rows, edits, pgUp, service, catalog, request, step>>

(* Nothing to embed: the script has nothing to do.                         *)
EmbedSkips ==
  /\ pgUp /\ step = 1 /\ \A i \in DOMAIN rows : rows[i].embedded # None
  /\ step' = 2
  /\ UNCHANGED <<data, pgUp, service, catalog, request>>

PostgresToggles == pgUp' = ~pgUp /\ UNCHANGED <<data, service, catalog, request, step>>
-----------------------------------------------------------------------------
(* The service loads its corpus from the table, or from the file if it is  *)
(* configured so or the table cannot be read.                              *)
ServiceLoads ==
  /\ backend = "down"
  /\ \/ pgUp /\ backend' = "starting" /\ corpus' = DealsIn(rows)
     \/ backend' = "json" /\ corpus' = file
  /\ step' = IF step = 2 THEN 3 ELSE step
  /\ UNCHANGED <<data, pgUp, vectorOn, catalog, request>>

(* _init_vector: the channel is on if a model loads and a row has an       *)
(* embedding; any failure leaves it off.                                   *)
ProbeVectors ==
  /\ backend = "starting" /\ backend' = "postgres"
  /\ vectorOn' \in {FALSE, pgUp /\ \E i \in DOMAIN rows : rows[i].embedded # None}
  /\ UNCHANGED <<data, pgUp, corpus, catalog, request, step>>

Forget == /\ category' = None /\ level' = 0 /\ found' = {}
          /\ bm25' = <<>> /\ vec' = <<>> /\ answer' = <<>> /\ inSync' = TRUE

(* A request that is at the service is lost; the control plane then        *)
(* searches by itself.                                                     *)
AtService == {"exact", "alias", "dropped", "search", "vector", "fuse"}

LoseRequest == pc \in AtService /\ pc' = "local" /\ Forget /\ UNCHANGED query

ServiceStops ==
  /\ backend # "down"
  /\ backend' = "down" /\ vectorOn' = FALSE /\ corpus' = <<>>
  /\ LoseRequest \/ (pc \notin AtService /\ UNCHANGED request)
  /\ UNCHANGED <<data, pgUp, catalog, step>>

(* The control plane restarts and loads its catalog: the table unless it   *)
(* is out of reach or empty or the build has no libpq, else the file.      *)
CatalogLoads ==
  /\ pc \in {"idle", "served", "matched"}
  /\ catalog' \in {file} \cup (IF pgUp /\ rows # <<>> THEN {DealsIn(rows)} ELSE {})
  /\ UNCHANGED <<data, pgUp, service, request, step>>
-----------------------------------------------------------------------------
Orders(S) == SetToSeqs(S)

(* Mutant: the ceiling is sent as the planner wrote it.                    *)
AsPlanned(q) == q

(* A ceiling of zero is the planner's "no limit".                          *)
Body(q) == [q EXCEPT !.maxPrice = IF q.maxPrice <= 0 THEN NoLimit ELSE q.maxPrice]

(* Each SQL statement sees the table of its moment.                        *)
ReadsTable == backend = "postgres" /\ inSync' = (inSync /\ corpus = DealsIn(rows))
ReadsCorpus == backend = "json" /\ UNCHANGED inSync

(* candidate_deals: the table decides, the corpus says what the service    *)
(* knows.                                                                  *)
CandidateDeals(cat) ==
  IF backend = "postgres" THEN Fitting(DealsIn(rows), query, cat) \cap DOMAIN corpus
                          ELSE Fitting(corpus, query, cat)

(* DealRetriever asks the service unless its circuit forbids it.           *)
Ask ==
  /\ pc \in {"idle", "served", "matched"}
  /\ \E q \in Queries : query' = Body(q)
  /\ Forget
  /\ pc' \in {"local"} \cup (IF backend \in {"postgres", "json"} THEN {"exact"} ELSE {})
  /\ UNCHANGED <<data, pgUp, service, catalog, step>>

(* One filter of relaxed_candidates and what follows if it finds nothing.  *)
FilterBy(stage, cat, lv, next) ==
  LET survivors == CandidateDeals(cat)
  IN  /\ pc = stage
      /\ \/ ReadsTable /\ pgUp
         \/ ReadsCorpus
      /\ IF survivors # {} \/ next = "search"
         THEN pc' = "search" /\ found' = survivors /\ category' = cat /\ level' = lv
         ELSE pc' = next /\ UNCHANGED <<found, category, level>>
      /\ UNCHANGED <<data, pgUp, service, catalog, query, bm25, vec, answer, step>>

(* Mutant: the alias is the last resort.                                   *)
LastResort == "search"

AfterAlias == "dropped"

FilterExact ==
  FilterBy("exact", query.category, 0,
           IF query.category = None THEN "search"
           ELSE IF query.category \in DOMAIN Alias THEN "alias" ELSE "dropped")
FilterAlias == FilterBy("alias", Alias[query.category], 1, AfterAlias)
FilterDropped == FilterBy("dropped", None, 2, "search")

PoolN == IF TopK * PoolFactor < VecPool THEN VecPool ELSE TopK * PoolFactor

(* The text channel: hits among the survivors, in the corpus's own text.   *)
(* The vector channel, if it is on, is asked next.                         *)
SearchText ==
  /\ pc = "search" /\ backend \in {"postgres", "json"}
  /\ \E s \in Orders({i \in found : corpus[i].text \in query.hits}) :
       bm25' = IF query.blank THEN <<>> ELSE FirstN(s, IF vectorOn THEN PoolN ELSE TopK)
  /\ pc' = IF vectorOn /\ ~query.blank THEN "vector" ELSE "fuse"
  /\ UNCHANGED <<data, pgUp, service, catalog, query, category, level, found, vec, answer, inSync, step>>

(* Mutant: the vector channel is not filtered.                             *)
AnyEmbedded == {i \in DOMAIN rows : rows[i].embedded # None}

(* The nearest rows that pass the same filter.  The index is approximate   *)
(* and may miss some; a failed query counts as no answer.                  *)
Neighbours == {i \in Fitting(DealsIn(rows), query, category) : rows[i].embedded # None}

SearchVectors ==
  /\ pc = "vector" /\ pc' = "fuse"
  /\ \/ /\ ReadsTable /\ pgUp
        /\ \E s \in SetToAllKPermutations(Neighbours) : vec' = FirstN(s, PoolN)
     \/ backend = "postgres" /\ vec' = <<>> /\ UNCHANGED inSync
  /\ UNCHANGED <<data, pgUp, service, catalog, query, category, level, found, bm25, answer, step>>
-----------------------------------------------------------------------------
Rank(s, x) == IF Contains(s, x) THEN CHOOSE i \in DOMAIN s : s[i] = x ELSE 0

(* Mutant: the score of the channel in which the deal comes last.          *)
AboveByWorst(x, y) ==
  LET Worst(z) == IF Rank(bm25, z) > Rank(vec, z) THEN Rank(bm25, z) ELSE Rank(vec, z)
  IN  Worst(x) < Worst(y) \/ (Worst(x) = Worst(y) /\ x < y)

(* Reciprocal rank fusion over exact fractions.                            *)
Part(r) == IF r = 0 THEN [num |-> 0, den |-> 1] ELSE [num |-> 1, den |-> RrfK + r]
Score(x) == LET a == Part(Rank(bm25, x))
                b == Part(Rank(vec, x))
            IN  [num |-> a.num * b.den + b.num * a.den, den |-> a.den * b.den]
Above(x, y) ==
  LET a == Score(x)
      b == Score(y)
      left == a.num * b.den
      right == b.num * a.den
  IN  left > right \/ (left = right /\ x < y)

Known == (ToSet(bm25) \cup ToSet(vec)) \cap DOMAIN corpus
Fused == Ranked(Known, {p \in Known \X Known : Above(p[1], p[2])})

BetterRated(x, y) ==
  corpus[x].rating > corpus[y].rating \/ (corpus[x].rating = corpus[y].rating /\ x < y)

Rated == Ranked(found, {p \in found \X found : BetterRated(p[1], p[2])})

(* Fused if the vector channel answered; else the text channel, whatever   *)
(* pool it was searched with; else all candidates by rating.               *)
Items ==
  IF vec # <<>> THEN FirstN(Fused, TopK)
  ELSE IF bm25 # <<>> THEN bm25
  ELSE FirstN(Rated, TopK)

Serve(deals, ids) == [k \in DOMAIN ids |-> [id |-> ids[k], deal |-> deals[ids[k]]]]

Fuse ==
  /\ pc = "fuse" /\ backend \in {"postgres", "json"}
  /\ pc' = "served"
  /\ answer' = Serve(corpus, Items)
  /\ UNCHANGED <<data, pgUp, service, catalog, query, category, level, found, bm25, vec, inSync, step>>

(* No answer: the filter's query failed, or the client's timeout ran out.  *)
GiveUp == LoseRequest /\ UNCHANGED <<data, pgUp, service, catalog, step>>

(* The local matcher filters the control plane's catalog and does not      *)
(* relax.                                                                  *)
MatchLocally ==
  /\ pc = "local" /\ pc' = "matched"
  /\ category' = query.category
  /\ \E s \in Orders(Fitting(catalog, query, query.category)) : answer' = Serve(catalog, FirstN(s, TopK))
  /\ UNCHANGED <<data, pgUp, service, catalog, query, level, found, bm25, vec, inSync, step>>
-----------------------------------------------------------------------------
Procedure == EditFile \/ Seed \/ EmbedReads \/ EmbedCommits \/ EmbedAborts \/ EmbedSkips
Processes == ServiceLoads \/ ProbeVectors \/ ServiceStops \/ CatalogLoads \/ PostgresToggles
Search == \/ Ask \/ FilterExact \/ FilterAlias \/ FilterDropped \/ SearchText \/ SearchVectors
          \/ Fuse \/ GiveUp \/ MatchLocally

Next == Procedure \/ Processes \/ Search
Spec == Init /\ [][Next]_vars
-----------------------------------------------------------------------------
DataTypeOK ==
  /\ file \in Files
  /\ DOMAIN rows \subseteq Ids /\ \A i \in DOMAIN rows : rows[i].deal \in AllDeals
  /\ DOMAIN corpus \subseteq Ids /\ \A i \in DOMAIN corpus : corpus[i] \in AllDeals
  /\ DOMAIN catalog \subseteq Ids /\ \A i \in DOMAIN catalog : catalog[i] \in AllDeals
  /\ pgUp \in BOOLEAN /\ vectorOn \in BOOLEAN
  /\ job.on \in BOOLEAN /\ DOMAIN job.texts \subseteq Ids
  /\ edits \in 0..MaxEdits
  /\ backend \in {"down", "starting", "postgres", "json"}
  /\ step \in 0..3

RequestTypeOK ==
  /\ pc \in AtService \cup {"idle", "local", "served", "matched"}
  /\ pc # "idle" => query.maxPrice > 0
  /\ level \in 0..2 /\ found \subseteq Ids
  /\ bm25 \in Seq(found) /\ vec \in Seq(Ids)
  /\ \A k \in DOMAIN answer : answer[k].id \in Ids /\ answer[k].deal \in AllDeals
  /\ inSync \in BOOLEAN

TypeOK == DataTypeOK /\ RequestTypeOK

Served == pc = "fuse" /\ pc' = "served"

(* Whatever the user is offered fits the city, the prices, the party and   *)
(* the category the answer reports, in the record he is shown: always if   *)
(* the control plane matched it, and if the service did, unless the table  *)
(* had moved away from the corpus when the service read it.                *)
AnswersFit ==
  pc = "matched" \/ (pc = "served" /\ inSync) =>
    \A k \in DOMAIN answer : Fits(query, category, answer[k].deal)

(* The category is given up step by step, and no further than needed: an   *)
(* alias is used only if the category finds nothing, everything only if    *)
(* the alias finds nothing either, and an empty answer means that nothing  *)
(* in any category fits the rest.  The runs check it as a part of          *)
(* ImplementsDealSearch.                                                   *)
NothingFits(cat) == Fitting(corpus, query, cat) = {}
Relaxes ==
  /\ level > 0 => NothingFits(query.category)
  /\ level = 2 /\ query.category \in DOMAIN Alias => NothingFits(Alias[query.category])
  /\ answer' = <<>> => NothingFits(None)
RelaxesNoFurther == [][Served /\ inSync => Relaxes]_vars

(* The fusion respects agreement: a deal that is ahead of another in every *)
(* channel that found the other is ahead of it in the answer, even if one  *)
(* channel ranked rows that the corpus does not know.                      *)
Ahead(s, x, y) == Contains(s, y) => Contains(s, x) /\ Rank(s, x) < Rank(s, y)
Dominates(x, y) == x \in DOMAIN corpus /\ Ahead(bm25, x, y) /\ Ahead(vec, x, y)
FusionKeepsOrder ==
  [][Served => \A y \in ToSet(bm25) \cup ToSet(vec), x \in Ids : Dominates(x, y) =>
       \A k \in DOMAIN answer' : answer'[k].id = y => \E j \in 1..(k - 1) : answer'[j].id = x]_vars

(* To its caller the search is atomic: the statements and channels of a    *)
(* request, the moves of the table between them and a service that is lost *)
(* on the way add up to one look at one copy of the deals.                 *)
Status == IF pc = "idle" THEN "idle" ELSE IF pc \in AtService THEN "service"
          ELSE IF pc = "local" THEN "own" ELSE "answered"
Reported == IF pc \in {"served", "matched"} THEN category ELSE None
Promise ==
  INSTANCE DealSearch WITH status <- Status, reported <- Reported, offers <- answer, drifted <- ~inSync
ImplementsDealSearch == Promise!SearchSpec

(* After the file was changed, the table seeded, the missing embeddings    *)
(* made and the service restarted, in this order, table and corpus are the *)
(* file and no row lacks an embedding, whatever else ran in between.       *)
ProcedureRefreshes ==
  step = 3 /\ backend \in {"starting", "postgres", "json"} =>
    /\ corpus = file
    /\ DealsIn(rows) = file
    /\ \A i \in DOMAIN rows : rows[i].embedded # None

(* The interview notes on deal_text: the text embedded and the text of the *)
(* corpus are always of one source, or fusing the channels means nothing.  *)
(* The seed updates a row and keeps the embedding of its old text, and the *)
(* embedding job only looks for rows without one.                          *)
EmbeddingsCurrent ==
  step = 3 /\ backend = "postgres" => \A i \in DOMAIN corpus : rows[i].embedded = corpus[i].text
=============================================================================
