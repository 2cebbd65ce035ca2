----------------------------- MODULE DealSearch -----------------------------
(***************************************************************************)
(* What a deal search is to the tool loop that calls it: a question that   *)
(* is answered at once, from one copy of the deals.  The service answers   *)
(* from its corpus and may give up the category; without it, the control   *)
(* plane answers from its own catalog and does not.  The copies stand      *)
(* still while somebody waits for an answer from them.  If the table has   *)
(* drifted away from the corpus when the service read it, the answer still *)
(* lists deals of the corpus, each once, and promises no more.             *)
(***************************************************************************)
EXTENDS DealFilter, Sequences

CONSTANT TopK   \* deals of an answer of the control plane's own

VARIABLES status,    \* "idle", "service", "own" or "answered"
          query,     \* what was asked
          reported,  \* the category the answer is said to be of
          offers,    \* the deals of the answer
          drifted,   \* the service has read a table that is not its corpus
          corpus, catalog

question == <<status, query, reported, offers, drifted>>
searchVars == <<question, corpus, catalog>>

SearchInit == status = "idle" /\ reported = None /\ offers = <<>> /\ ~drifted

(* A question, any question, replaces the last answer.                     *)
Question ==
  /\ status \in {"idle", "answered"} /\ status' \in {"service", "own"}
  /\ reported' = None /\ offers' = <<>> /\ drifted' = FALSE
  /\ UNCHANGED <<corpus, catalog>>

Drift ==
  /\ status = "service" /\ drifted' = TRUE
  /\ UNCHANGED <<status, query, reported, offers, corpus, catalog>>

(* The service is lost, perhaps with its corpus.                           *)
Lose ==
  /\ status = "service" /\ status' = "own" /\ drifted' = FALSE
  /\ UNCHANGED <<query, reported, offers, catalog>>

Refresh ==
  /\ status = "service" => UNCHANGED corpus
  /\ status \in {"service", "own"} => UNCHANGED catalog
  /\ UNCHANGED question

Offers(copy) ==
  /\ \A k \in DOMAIN offers' : offers'[k].id \in DOMAIN copy /\ offers'[k].deal = copy[offers'[k].id]
  /\ \A j, k \in DOMAIN offers' : j # k => offers'[j].id # offers'[k].id

Settles(copy, cat) ==
  /\ reported' = cat
  /\ \A k \in DOMAIN offers' : Fits(query, cat, offers'[k].deal)
  /\ offers' = <<>> => Fitting(copy, query, cat) = {}

(* The category asked for if anything fits it, else its alias if it has    *)
(* one that anything fits, else none.                                      *)
Relaxed(copy, cat) ==
  LET finds(c) == Fitting(copy, query, c) # {}
      aliased == query.category \in DOMAIN Alias
  IN  \/ cat = query.category /\ finds(cat)
      \/ /\ ~finds(query.category)
         /\ \/ aliased /\ cat = Alias[query.category] /\ finds(cat)
            \/ cat = None /\ ~(aliased /\ finds(Alias[query.category]))

AnswerOfService ==
  /\ status = "service" /\ status' = "answered"
  /\ Offers(corpus)
  /\ drifted \/ (Relaxed(corpus, reported') /\ Settles(corpus, reported'))
  /\ UNCHANGED <<query, drifted, corpus, catalog>>

AnswerOfItsOwn ==
  /\ status = "own" /\ status' = "answered"
  /\ Offers(catalog) /\ Len(offers') <= TopK
  /\ Settles(catalog, query.category)
  /\ UNCHANGED <<query, drifted, corpus, catalog>>

SearchNext == Question \/ Drift \/ Lose \/ Refresh \/ AnswerOfService \/ AnswerOfItsOwn
SearchSpec == SearchInit /\ [][SearchNext]_searchVars
=============================================================================
