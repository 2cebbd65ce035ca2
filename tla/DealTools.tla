------------------------------ MODULE DealTools ------------------------------
(***************************************************************************)
(* The tool calls of one request: the loop of AgentOrchestrator that chains *)
(* them, DealRetriever, DealRanker with the ranking service and the A/B    *)
(* experiment, and KnowledgeRetriever.  The plan comes from an LLM, so the *)
(* calls, their order and their arguments are arbitrary, at most MaxCalls. *)
(*                                                                         *)
(* A deal is a model value; what the tools read of it is given by the      *)
(* constants: its rule score, whether its text mentions what the user      *)
(* rules out, and which of its two nullable columns is NULL (reading a     *)
(* null field throws).  Which deals a query matches and how the retriever  *)
(* orders them is left open.                                               *)
(***************************************************************************)
EXTENDS Rankings, SequencesExt

CONSTANTS Catalog,      \* deals of the database
          Invented,     \* deals an LLM may write into the ranker's arguments
          RuleScore,    \* RuleScore of each deal
          RuledOut,     \* deals whose text contains a taboo word
          PriceNull,    \* deals without original_price
          PlaceNull,    \* deals without district
          CoarseTopK,   \* kCoarseTopK
          TopN,         \* top_n of a ranker call
          MaxCalls      \* tool calls in a plan

Deals == Catalog \cup Invented

ASSUME DealAssumption ==
  /\ IsFiniteSet(Deals)
  /\ RuleScore \in [Deals -> Int]
  /\ RuledOut \cup PriceNull \cup PlaceNull \subseteq Deals
  /\ CoarseTopK \in Nat \ {0} /\ TopN \in Nat \ {0} /\ MaxCalls \in Nat

VARIABLES experiment,  \* mode of the experiment and group of the user
          phase,       \* where the request is
          calls,       \* tool calls made
          items,       \* accumulated_items
          grounded,    \* grounding_passages is not empty
          audit,       \* rank_audit: mode of the last ranking and its audited order
          taboo,       \* taboo argument of the last ranker call
          coarse,      \* the candidates of that call in coarse order
          producer     \* history: which tool last changed items

toolVars == <<experiment, phase, calls, items, grounded, audit, taboo, coarse, producer>>

Taboos == {"none", "words", "chinese"}  \* chinese: several words between '，', '、' or '；'
RankModes == {"none", "rule", "rule_fallback", "model"}

ToolTypeOK ==
  /\ experiment \in {"off", "shadow", "control", "treatment"}
  /\ phase \in {"loop", "rank", "done", "error"}
  /\ calls \in 0..MaxCalls
  /\ items \in Seq(Deals)
  /\ grounded \in BOOLEAN
  /\ audit \in [mode : RankModes, order : Seq(Deals)]
  /\ taboo \in Taboos
  /\ coarse \in Seq(Deals) /\ Len(coarse) <= CoarseTopK
  /\ producer \in {"nobody", "retriever", "ranker"}

ToolInit ==
  /\ experiment \in {"off", "shadow", "control", "treatment"}
  /\ phase = "loop" /\ calls = 0
  /\ items = <<>> /\ grounded = FALSE
  /\ audit = [mode |-> "none", order |-> <<>>]
  /\ taboo = "none" /\ coarse = <<>>
  /\ producer = "nobody"

Lists(S) == SetToAllKPermutations(S)
Mentions(s, S) == \E i \in DOMAIN s : s[i] \in S

NextCall ==
  /\ phase = "loop" /\ calls < MaxCalls
  /\ calls' = calls + 1
-----------------------------------------------------------------------------
(* An unknown tool, or one that fails, leaves everything as it was.        *)
ToolFails ==
  /\ NextCall
  /\ UNCHANGED <<experiment, phase, items, grounded, audit, taboo, coarse, producer>>

(* kb_search has no local fallback.                                        *)
KbSearch ==
  /\ NextCall
  /\ grounded' \in {grounded, TRUE}
  /\ UNCHANGED <<experiment, phase, items, audit, taboo, coarse, producer>>

(* deal_retriever adds what it found, in any order.  The service's answer  *)
(* and the local matcher both compute with the original price of what they *)
(* return, and the local one reads the district when it filters by it: one *)
(* null in the wrong place and the whole call is one that fails.           *)
DealRetriever ==
  /\ NextCall
  /\ \E hits \in Lists(Catalog \ PriceNull) : items' = items \o hits
  /\ producer' = "retriever"
  /\ UNCHANGED <<experiment, phase, grounded, audit, taboo, coarse>>
-----------------------------------------------------------------------------
(* Mutant: the taboo is not looked at.                                     *)
DropsNothing(t) == {}

(* Tokenize compares single bytes, so the Chinese separators, three bytes  *)
(* each, do not separate: words between them are one token, which no deal  *)
(* contains.                                                               *)
Drops(t) == IF t = "words" THEN RuledOut ELSE {}

(* The candidates of a ranker call: what the LLM wrote if it is a list,    *)
(* nothing if it is something else, the accumulated items if it is missing *)
(* or empty.                                                               *)
Candidates == {items, <<>>} \cup Lists(Deals)

(* What the taboo leaves of the candidates, and its rule scores.           *)
Kept(candidates, t) == {i \in DOMAIN candidates : candidates[i] \notin Drops(t)}
Scores(candidates) == [i \in DOMAIN candidates |-> RuleScore[candidates[i]]]

(* Mutant: the coarse ranking is not cut.                                  *)
Uncut(candidates, t) == Arranged(candidates, Kept(candidates, t), Scores(candidates))

(* Taboo filter, rule scores, coarse ranking.                              *)
CoarseRanking(candidates, t) ==
  FirstN(Arranged(candidates, Kept(candidates, t), Scores(candidates)), CoarseTopK)

(* The rule score needs the original price of every candidate that is left.*)
CoarseRank ==
  /\ NextCall
  /\ \E candidates \in Candidates, t \in Taboos :
       /\ \A i \in Kept(candidates, t) : candidates[i] \notin PriceNull
       /\ coarse' = CoarseRanking(candidates, t)
       /\ taboo' = t
  /\ phase' = "rank"
  /\ UNCHANGED <<experiment, items, grounded, audit, producer>>

(* Mutant: what a ranker returns is added like what a retriever returns.   *)
ServeMore(order, mode) ==
  /\ phase = "rank" /\ phase' = "loop"
  /\ items' = items \o FirstN(order, TopN)
  /\ audit' = [mode |-> mode, order |-> order]
  /\ producer' = "ranker"
  /\ UNCHANGED <<experiment, calls, grounded, taboo, coarse>>

(* What a ranker returns replaces the items; the audit lists all it ranked.*)
ServeRanking(order, mode) ==
  /\ phase = "rank" /\ phase' = "loop"
  /\ items' = FirstN(order, TopN)
  /\ audit' = [mode |-> mode, order |-> order]
  /\ producer' = "ranker"
  /\ UNCHANGED <<experiment, calls, grounded, taboo, coarse>>

UsesModel == experiment = "treatment" /\ coarse # <<>>

(* Off, or shadow: the shadow request goes out on a detached thread and    *)
(* its answer is not waited for.                                           *)
ServeRules == ~UsesModel /\ ServeRanking(coarse, "rule")

(* The ranking service is down, has no model or answers with no items.     *)
ServeFallback == UsesModel /\ ServeRanking(coarse, "rule_fallback")

(* Mutant: the answer of the service is taken as the list to serve.        *)
AnswerAsList(score) ==
  LET list == SetToSeq(DOMAIN score)
  IN  Arranged(list, DOMAIN list, [i \in DOMAIN list |-> score[list[i]]])

(* Its scores are merged by id: deals it did not score come last, scores   *)
(* of deals it was not asked about are ignored.                            *)
Unscored == -1
FineRanking(score) ==
  Arranged(coarse, DOMAIN coarse,
           [i \in DOMAIN coarse |-> IF coarse[i] \in DOMAIN score THEN score[coarse[i]] ELSE Unscored])

ServeModel ==
  /\ UsesModel
  /\ \E scored \in SUBSET Deals \ {{}} : \E score \in [scored -> 0..1] :
       ServeRanking(FineRanking(score), "model")
-----------------------------------------------------------------------------
(* The plan is done: the items are mapped to the output model, which reads *)
(* both nullable columns.                                                  *)
MapItems ==
  /\ phase = "loop"
  /\ phase' = IF Mentions(items, PriceNull \cup PlaceNull) THEN "error" ELSE "done"
  /\ UNCHANGED <<experiment, calls, items, grounded, audit, taboo, coarse, producer>>

ToolNext ==
  \/ ToolFails \/ KbSearch \/ DealRetriever
  \/ CoarseRank \/ ServeRules \/ ServeFallback \/ ServeModel
  \/ MapItems

ToolSpec == ToolInit /\ [][ToolNext]_toolVars
-----------------------------------------------------------------------------
Copies(s, d) == Cardinality({i \in DOMAIN s : s[i] = d})
IsReordering(s, t) == Len(s) = Len(t) /\ \A d \in Deals : Copies(s, d) = Copies(t, d)

(* The model can only reorder the survivors of the rules: whatever the     *)
(* ranking service answers it revives none, repeats none and loses none,   *)
(* and without a model the rules rank as if there was no experiment.       *)
ModelOnlyReorders ==
  producer = "ranker" /\ phase # "rank" =>
    /\ IsReordering(audit.order, coarse)
    /\ audit.mode # "model" => audit.order = coarse

(* The log row of a request explains its reply: the items begin with the   *)
(* head of the ranking that the audit lists, whatever was called after the *)
(* ranker and whether it failed.                                           *)
AuditExplainsItems ==
  audit.mode # "none" => IsPrefix(FirstN(audit.order, TopN), items)

(* Nothing the user ruled out in words the tokenizer splits is ranked, by  *)
(* the rules or by the model, or listed in the audit.                      *)
RuledOutStaysOut ==
  producer = "ranker" /\ taboo = "words" /\ phase # "rank" => ~Mentions(audit.order, RuledOut)

(* Why: between the two rankings the taboo has already been obeyed.        *)
CoarseObeys == phase = "rank" /\ taboo = "words" => ~Mentions(coarse, RuledOut)

ToolInv == ToolTypeOK /\ ModelOnlyReorders /\ AuditExplainsItems /\ RuledOutStaysOut /\ CoarseObeys
=============================================================================
