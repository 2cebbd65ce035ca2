---------------------------- MODULE UserProfile ----------------------------
(***************************************************************************)
(* From the votes of a user to what the planner is told of him: the        *)
(* feedback table, the row in user_profiles that ResolveUserProfile keeps  *)
(* for five minutes, and PreferenceExtractor, which fills it.  Requests of *)
(* the user resolve the profile concurrently; each call of the profile     *)
(* store holds its mutex, nothing spans two of them.                       *)
(*                                                                         *)
(* One user.  A card is a deal with its category and its city, in the      *)
(* catalog or no longer there.  Budgets and taboo terms, which only have   *)
(* to be there, are wishes: a profile's wishes are the terms in            *)
(* dietary_tags and the budgets avg_budget is the mean of.  Keys are       *)
(* numbered in the order their names compare in.                           *)
(*                                                                         *)
(* Times are ages.  A row's age is what the local clock shows, which may   *)
(* be set back (the end of summer time); a vote's age is the real one.     *)
(***************************************************************************)
EXTENDS Integers, Sequences, FiniteSets

CONSTANTS Cards,      \* cards the user can vote on
          Catalog,    \* the cards whose deal is in the server's catalog
          Keys,       \* names of categories and cities, as numbers
          KeyOf,      \* the key of a card, for each kind
          TopN,       \* keys of a kind a profile holds at most (3)
          Wishes,     \* budgets and taboo terms
          Requests,   \* requests that may run at once
          Ttl,        \* age up to which a row is fresh (5 minutes)
          MaxLag,     \* time from reading the votes to stamping the row
          MaxVotes,   \* bound: rows of the feedback table
          MaxBack,    \* bound: how far the local clock is set back in all
          MaxMishaps  \* bound: that, and the statements that fail

Kinds == {"category", "city"}

ASSUME ProfileAssumption ==
  /\ Keys \subseteq Nat /\ KeyOf \in [Kinds -> [Cards -> Keys]]
  /\ TopN \in Nat /\ Ttl \in Nat /\ MaxLag \in Nat
  /\ MaxVotes \in Nat /\ MaxBack \in Nat /\ MaxMishaps \in Nat

VARIABLES votes,    \* the feedback table, oldest row first
          age,      \* the real age of each of its rows
          row,      \* the user's row of user_profiles
          back,     \* how far the local clock has been set back
          faults,   \* statements that have failed
          pc,       \* where each request is
          lag,      \* time since the request read the votes
          old,      \* whether prof is a stale profile with signals
          given     \* what its extraction rests on, then what the planner is given

clock == <<age, back>>
vars == <<votes, row, clock, faults, pc, lag, old, given>>

Types == {"like", "dislike"}
Profile == [preferred : [Kinds -> SUBSET Keys], wishes : SUBSET Wishes]
NoProfile == [preferred |-> [k \in Kinds |-> {}], wishes |-> {}]

\* How many votes an extraction read, whether a failure left out some that were
\* there, and whether a stale profile is kept in use in spite of it
Grounds == [basis : 0..MaxVotes, broken : BOOLEAN, kept : BOOLEAN]
Nothing == [basis |-> 0, broken |-> FALSE, kept |-> FALSE]
Unknown == [basis |-> 0, broken |-> TRUE, kept |-> FALSE]

Overdue == Ttl + MaxLag + MaxBack + 1   \* cap of the ages of votes
Expired == Ttl + MaxBack + 1            \* cap of the age of the row

TypeOK ==
  /\ votes \in Seq([card : Cards, type : Types]) /\ Len(votes) <= MaxVotes
  /\ age \in Seq(0..Overdue) /\ Len(age) = Len(votes)
  /\ row \in [exists : BOOLEAN, profile : Profile, from : Grounds, age : (0 - back)..Expired]
  /\ back \in 0..MaxBack /\ faults \in Nat /\ faults + back <= MaxMishaps
  /\ pc \in [Requests -> {"idle", "votes", "upsert", "plan"}]
  /\ lag \in [Requests -> 0..MaxLag]
  /\ old \in [Requests -> BOOLEAN]
  /\ given \in [Requests -> Grounds]

Init ==
  /\ votes = <<>> /\ age = <<>>
  /\ row = [exists |-> FALSE, profile |-> NoProfile, from |-> Nothing, age |-> 0]
  /\ back = 0 /\ faults = 0
  /\ pc = [r \in Requests |-> "idle"]
  /\ lag = [r \in Requests |-> 0]
  /\ old = [r \in Requests |-> FALSE]
  /\ given = [r \in Requests |-> Nothing]

Fault == faults + back < MaxMishaps /\ faults' = faults + 1
Goto(r, from, to) == pc[r] = from /\ pc' = [pc EXCEPT ![r] = to]
Votes == 1..Len(votes)
-----------------------------------------------------------------------------
AppendFeedback(c, t) ==
  /\ Len(votes) < MaxVotes
  /\ votes' = Append(votes, [card |-> c, type |-> t])
  /\ age' = Append(age, 0)
  /\ UNCHANGED <<row, back, faults, pc, lag, old, given>>

Score(kind, key, n) ==
  LET Of(t) == {i \in 1..n : /\ votes[i].type = t
                             /\ votes[i].card \in Catalog
                             /\ KeyOf[kind][votes[i].card] = key}
  IN  Cardinality(Of("like")) - Cardinality(Of("dislike"))

TopKeys(kind, n) ==
  LET score == [k \in Keys |-> Score(kind, k, n)]
      Before(j, k) == score[j] > score[k] \/ (score[j] = score[k] /\ j < k)
  IN  {k \in Keys : score[k] > 0 /\ Cardinality({j \in Keys : Before(j, k)}) < TopN}

(* The profile the first n votes and the wishes w make.                    *)
Extract(n, w) == [preferred |-> [kind \in Kinds |-> TopKeys(kind, n)], wishes |-> w]

(* Mutant: a profile without signals is cached too.                        *)
AnySignals(p) == TRUE

HasSignals(p) == p.wishes # {} \/ \E kind \in Kinds : p.preferred[kind] # {}

Fresh == row.exists /\ row.age <= Ttl

(* Get.  A fresh row is used as it is; one that is stale, missing or       *)
(* cannot be read is extracted anew.                                       *)
Begin(r) ==
  /\ \/ /\ Fresh /\ Goto(r, "idle", "plan")
        /\ given' = [given EXCEPT ![r] = row.from]
        /\ UNCHANGED <<faults, old>>
     \/ /\ ~Fresh /\ Goto(r, "idle", "votes")
        /\ old' = [old EXCEPT ![r] = HasSignals(row.profile)]
        /\ UNCHANGED <<faults, given>>
     \/ Fault /\ Goto(r, "idle", "votes") /\ UNCHANGED <<old, given>>
  /\ UNCHANGED <<votes, row, clock, lag>>

(* A statement that fails half-way returns the rows it has read.           *)
LoadFeedbackSignals(r) ==
  /\ Goto(r, "votes", "upsert")
  /\ \E n \in 0..Len(votes) :
       /\ given' = [given EXCEPT ![r] = [basis |-> n, broken |-> n < Len(votes), kept |-> FALSE]]
       /\ IF n = Len(votes) THEN UNCHANGED faults ELSE Fault
  /\ UNCHANGED <<votes, row, clock, lag, old>>

(* Mutant: a stamp in another time zone than the one it is compared in.    *)
StampAhead == 0 - MaxBack - 1

Stamp == 0

(* Mutant: a row that is there stays (INSERT OR IGNORE).                   *)
KeepRow(p, g) ==
  row' = IF row.exists THEN row
         ELSE [exists |-> TRUE, profile |-> p, from |-> g, age |-> Stamp]

WriteRow(p, g) == row' = [exists |-> TRUE, profile |-> p, from |-> g, age |-> Stamp]

(* A row that cannot be written: the planner is given the profile that was *)
(* read first, stale as it is, or none.                                    *)
LoseExtraction(r) == given' = [given EXCEPT ![r] = Unknown]

(* Votes and wishes that make nothing: a stale profile stays in use.       *)
KeepOld(r) == given' = [given EXCEPT ![r].kept = TRUE]

(* What the user's sessions say of his wishes, before the votes are read   *)
(* or after: anything.                                                     *)
LoadSlotHistory == SUBSET Wishes

(* Only a profile with signals is written.                                 *)
Upsert(r) ==
  /\ Goto(r, "upsert", "plan")
  /\ \E w \in LoadSlotHistory :
       LET p == Extract(given[r].basis, w) IN
       \/ HasSignals(p) /\ WriteRow(p, given[r]) /\ UNCHANGED <<given, faults>>
       \/ HasSignals(p) /\ Fault /\ LoseExtraction(r) /\ UNCHANGED row
       \/ ~HasSignals(p) /\ old[r] /\ KeepOld(r) /\ UNCHANGED <<row, faults>>
       \/ ~HasSignals(p) /\ ~old[r] /\ UNCHANGED <<row, given, faults>>
  /\ old' = [old EXCEPT ![r] = FALSE]
  /\ lag' = [lag EXCEPT ![r] = 0]
  /\ UNCHANGED <<votes, clock>>

Plan(r) ==
  /\ Goto(r, "plan", "idle")
  /\ given' = [given EXCEPT ![r] = Nothing]
  /\ UNCHANGED <<votes, row, clock, faults, lag, old>>
-----------------------------------------------------------------------------
Older(a, cap) == IF a < cap THEN a + 1 ELSE a
Reading(r) == pc[r] = "upsert"

Tick ==
  /\ \A r \in Requests : Reading(r) => lag[r] < MaxLag
  /\ lag' = [r \in Requests |-> IF Reading(r) THEN lag[r] + 1 ELSE lag[r]]
  /\ age' = [i \in Votes |-> Older(age[i], Overdue)]
  /\ row' = [row EXCEPT !.age = IF row.exists THEN Older(@, Expired) ELSE @]
  /\ UNCHANGED <<votes, back, faults, pc, old, given>>

SetBack ==
  /\ back < MaxBack /\ faults + back < MaxMishaps
  /\ back' = back + 1
  /\ row' = [row EXCEPT !.age = IF row.exists THEN @ - 1 ELSE @]
  /\ UNCHANGED <<votes, age, faults, pc, lag, old, given>>
-----------------------------------------------------------------------------
Resolve(r) == LoadFeedbackSignals(r) \/ Upsert(r) \/ Plan(r)

Next ==
  \/ \E c \in Cards, t \in Types : AppendFeedback(c, t)
  \/ \E r \in Requests : Begin(r) \/ Resolve(r)
  \/ Tick \/ SetBack

Spec == Init /\ [][Next]_vars

(* Time passes, and a request that has begun goes on.                      *)
FairSpec == Spec /\ WF_vars(Tick) /\ \A r \in Requests : WF_vars(Resolve(r))
-----------------------------------------------------------------------------
(* What the planner is told misses no vote that is older than the time to  *)
(* live, the time an extraction takes and what the clock was set back by,  *)
(* even when an older extraction overwrites a newer one and is stamped     *)
(* fresh; and a user without a profile does not wait at all: only a vote   *)
(* cast during the extraction is missed.  There are two ways round it.  A  *)
(* statement that fails, reading the votes or writing the row, may hide    *)
(* any of them.  And nothing may be said of the votes at all: a profile    *)
(* that is stale is kept in use, for as long as it takes, but only if the  *)
(* votes, none of them missed, prefer nothing any more.                    *)
Handed(r) == pc[r] # "plan" /\ pc'[r] = "plan"
Patience(r) == IF pc[r] = "idle" /\ row.profile # NoProfile THEN Ttl + MaxLag + back
               ELSE MaxLag
PreferNothing(n) == \A kind \in Kinds : TopKeys(kind, n) = {}

OldVotesReflected ==
  [][\A r \in Requests : Handed(r) /\ ~given'[r].broken =>
       /\ \A i \in Votes : i > given'[r].basis => age[i] <= Patience(r)
       /\ given'[r].kept => PreferNothing(given'[r].basis)]_vars

Liked == [kind \in Kinds |-> TopKeys(kind, Len(votes))]

(* When votes, clock and store have come to rest and the user goes on      *)
(* asking, his row becomes what his votes make of him and stays so, unless *)
(* they make nothing of him.                                               *)
AtRest == <>[][UNCHANGED <<votes, back, faults>>]_vars
GoesOnAsking == []<><<\E r \in Requests : Begin(r)>>_vars
RowFollows ==
  AtRest /\ GoesOnAsking /\ <>[](\E kind \in Kinds : Liked[kind] # {})
    => <>[](row.profile.preferred = Liked)
=============================================================================
