------------------------- MODULE UserProfileProofs -------------------------
(***************************************************************************)
(* What the planner is told of the user's votes is as recent as the cache  *)
(* allows, for any number of cards, requests, votes and faults and any     *)
(* times.  The invariant keeps how much each extraction misses: an         *)
(* unfinished one no more than what was cast since it read the votes, the  *)
(* row no more than its age and the two things its age does not show: the  *)
(* time between reading and stamping, and what the clock was set back by.  *)
(* Grounds under which a stale profile was kept never reach the row: they  *)
(* are those of one request's answer.                                      *)
(***************************************************************************)
EXTENDS UserProfile, TLAPS

Misses(g, limit) == ~g.broken => \A i \in Votes : i > g.basis => age[i] <= limit

RowMisses == row.exists => Misses(row.from, row.age + MaxLag + back)
RequestsMiss == \A r \in Requests : pc[r] = "upsert" => Misses(given[r], lag[r])
RowSays == row.exists => row.profile # NoProfile
NotKept ==
  /\ row.exists => ~row.from.kept
  /\ \A r \in Requests : pc[r] = "upsert" => ~given[r].kept

IInv == TypeOK /\ RowMisses /\ RequestsMiss /\ RowSays /\ NotKept

LEMMA CapsAreNatural ==
  /\ Overdue \in Nat /\ Expired \in Nat
  /\ Overdue = Expired + MaxLag /\ Expired > Ttl + MaxBack
BY ProfileAssumption DEF ProfileAssumption, Overdue, Expired

LEMMA ExtractType == ASSUME NEW n, NEW w \in SUBSET Wishes PROVE Extract(n, w) \in Profile
BY DEF Extract, Profile, TopKeys

LEMMA SignalsShow == ASSUME NEW p, HasSignals(p) PROVE p # NoProfile
BY DEF HasSignals, NoProfile

LEMMA TypeFacts ==
  ASSUME TypeOK
  PROVE  /\ \A i \in Votes : age[i] \in 0..Overdue
         /\ row.age \in Int /\ row.age + back >= 0 /\ row.age <= Expired
         /\ back \in Nat /\ Len(votes) \in Nat
         /\ \A r \in Requests : lag[r] \in 0..MaxLag /\ given[r].basis \in Nat
<1> USE CapsAreNatural, ProfileAssumption DEF ProfileAssumption
<1>1. \A i \in Votes : age[i] \in 0..Overdue
  BY DEF TypeOK, Votes
<1>2. row.age \in (0 - back)..Expired /\ back \in 0..MaxBack
  BY DEF TypeOK
<1>3. Len(votes) \in Nat
  BY DEF TypeOK
<1>4. \A r \in Requests : lag[r] \in 0..MaxLag /\ given[r].basis \in Nat
  BY DEF TypeOK, Grounds
<1> QED BY <1>1, <1>2, <1>3, <1>4

LEMMA InitInv == Init => IInv
<1> SUFFICES ASSUME Init PROVE IInv
  OBVIOUS
<1> USE CapsAreNatural, ProfileAssumption DEF ProfileAssumption, Init
<1>1. row \in [exists : BOOLEAN, profile : Profile, from : Grounds, age : (0 - back)..Expired]
  BY DEF Profile, NoProfile, Grounds, Nothing
<1>2. TypeOK
  BY <1>1 DEF TypeOK, Grounds, Nothing
<1>3. RowMisses /\ RequestsMiss /\ RowSays /\ NotKept
  BY DEF RowMisses, RequestsMiss, RowSays, NotKept
<1> QED BY <1>2, <1>3 DEF IInv

LEMMA AppendInv ==
  ASSUME IInv, NEW c \in Cards, NEW t \in Types, AppendFeedback(c, t)
  PROVE  IInv'
<1> USE CapsAreNatural, ProfileAssumption DEF ProfileAssumption, IInv, AppendFeedback
<1>1. /\ Len(age') = Len(age) + 1 /\ Len(votes') = Len(votes) + 1
      /\ \A i \in Votes' : age'[i] \in 0..Overdue /\ (age'[i] = 0 \/ (i \in Votes /\ age'[i] = age[i]))
  <2>1. votes' = Append(votes, [card |-> c, type |-> t]) /\ age' = Append(age, 0)
    OBVIOUS
  <2>2. /\ votes \in Seq([card : Cards, type : Types]) /\ [card |-> c, type |-> t] \in [card : Cards, type : Types]
        /\ age \in Seq(0..Overdue) /\ 0 \in 0..Overdue /\ Len(age) = Len(votes)
    BY DEF TypeOK
  <2> QED BY <2>1, <2>2 DEF Votes
<1>2. TypeOK'
  <2>1. votes' \in Seq([card : Cards, type : Types]) /\ age' \in Seq(0..Overdue)
    BY DEF TypeOK
  <2> QED BY <1>1, <2>1 DEF TypeOK
<1>3. RowMisses'
  <2>1. row.age + MaxLag + back >= 0
    BY TypeFacts
  <2> QED BY <1>1, <2>1 DEF RowMisses, Misses
<1>4. RequestsMiss'
  <2>1. \A r \in Requests : lag[r] >= 0
    BY TypeFacts
  <2> QED BY <1>1, <2>1 DEF RequestsMiss, Misses
<1>5. RowSays' /\ NotKept'
  BY DEF RowSays, NotKept
<1> QED BY <1>2, <1>3, <1>4, <1>5

LEMMA RowType ==
  ASSUME NEW p \in Profile, NEW g \in Grounds, NEW S, NEW a \in S
  PROVE  [exists |-> TRUE, profile |-> p, from |-> g, age |-> a]
           \in [exists : BOOLEAN, profile : Profile, from : Grounds, age : S]
OBVIOUS

LEMMA AllRead ==
  ASSUME NEW m \in Nat, NEW n \in Nat, NEW g,
         g = [basis |-> m, broken |-> m < n, kept |-> FALSE], ~g.broken
  PROVE  g.basis >= n
<1>1. g.basis = m /\ g.broken = (m < n)
  OBVIOUS
<1>2. ~(m < n)
  BY <1>1
<1> QED BY <1>1, <1>2

LEMMA FlagType ==
  ASSUME NEW f \in [Requests -> BOOLEAN], NEW r \in Requests, NEW b \in BOOLEAN
  PROVE  [f EXCEPT ![r] = b] \in [Requests -> BOOLEAN]
OBVIOUS

LEMMA FaultType ==
  ASSUME TypeOK, Fault \/ UNCHANGED faults, UNCHANGED back
  PROVE  faults' \in Nat /\ faults' + back' <= MaxMishaps
<1>1. faults \in Nat /\ back \in Nat /\ faults + back <= MaxMishaps /\ MaxMishaps \in Nat
  BY ProfileAssumption DEF ProfileAssumption, TypeOK
<1> QED BY <1>1 DEF Fault

LEMMA BeginInv == ASSUME IInv, NEW r \in Requests, Begin(r) PROVE IInv'
<1> USE ProfileAssumption DEF ProfileAssumption, IInv, Begin, clock, Fault, Goto
<1>1. TypeOK'
  <2>1. pc' \in [Requests -> {"idle", "votes", "upsert", "plan"}]
    BY DEF TypeOK
  <2>2. old' \in [Requests -> BOOLEAN]
    <3>1. old' = old \/ old' = [old EXCEPT ![r] = HasSignals(row.profile)]
      OBVIOUS
    <3>2. HasSignals(row.profile) \in BOOLEAN
      BY DEF HasSignals
    <3> QED BY <3>1, <3>2, FlagType DEF TypeOK
  <2>3. given' \in [Requests -> Grounds]
    <3>1. row.from \in Grounds /\ given \in [Requests -> Grounds]
      BY DEF TypeOK
    <3> QED BY <3>1
  <2>4. faults' \in Nat /\ faults' + back' <= MaxMishaps
    <3>1. (Fault \/ UNCHANGED faults) /\ UNCHANGED back
      OBVIOUS
    <3> QED BY <3>1, FaultType
  <2> QED BY <2>1, <2>2, <2>3, <2>4 DEF TypeOK
<1>2. RowMisses' /\ RowSays'
  BY DEF RowMisses, RowSays, Misses, Votes
<1>3. RequestsMiss'
  <2>1. \A q \in Requests : pc'[q] = "upsert" => pc[q] = "upsert" /\ given'[q] = given[q]
    BY DEF TypeOK
  <2> QED BY <2>1 DEF RequestsMiss, Misses, Votes
<1>4. NotKept'
  <2>1. \A q \in Requests : pc'[q] = "upsert" => pc[q] = "upsert" /\ given'[q] = given[q]
    BY DEF TypeOK
  <2> QED BY <2>1 DEF NotKept
<1> QED BY <1>1, <1>2, <1>3, <1>4

LEMMA LoadFeedbackSignalsInv ==
  ASSUME IInv, NEW r \in Requests, LoadFeedbackSignals(r) PROVE IInv'
<1> USE ProfileAssumption DEF ProfileAssumption, IInv, clock
<1>1. PICK n \in 0..Len(votes) :
        /\ given' = [given EXCEPT ![r] = [basis |-> n, broken |-> n < Len(votes), kept |-> FALSE]]
        /\ IF n = Len(votes) THEN UNCHANGED faults ELSE Fault
  BY DEF LoadFeedbackSignals
<1> USE DEF LoadFeedbackSignals, Goto, Fault
<1>2. TypeOK'
  <2>1. [basis |-> n, broken |-> n < Len(votes), kept |-> FALSE] \in Grounds
    BY DEF TypeOK, Grounds
  <2>2. /\ pc' \in [Requests -> {"idle", "votes", "upsert", "plan"}]
        /\ given' \in [Requests -> Grounds]
    BY <1>1, <2>1 DEF TypeOK
  <2>3. faults' \in Nat /\ faults' + back' <= MaxMishaps
    BY <1>1, FaultType
  <2> QED BY <2>2, <2>3 DEF TypeOK
<1>3. RowMisses' /\ RowSays'
  BY DEF RowMisses, RowSays, Misses, Votes
<1>4. RequestsMiss'
  <2>1. \A q \in Requests \ {r} : given'[q] = given[q] /\ (pc'[q] = "upsert" => pc[q] = "upsert")
    BY <1>1 DEF TypeOK
  <2>2. given'[r] = [basis |-> n, broken |-> n < Len(votes), kept |-> FALSE]
    BY <1>1 DEF TypeOK
  <2>3. Misses(given[r], lag[r])'
    <3>1. n \in Nat /\ Len(votes) \in Nat /\ votes' = votes /\ n <= Len(votes)
      BY TypeFacts
    <3>2. ~given'[r].broken => given'[r].basis >= Len(votes)
      BY <2>2, <3>1, AllRead
    <3>3. given'[r].basis \in Nat
      BY <2>2, <3>1
    <3> QED BY <3>1, <3>2, <3>3 DEF Misses, Votes
  <2>4. \A q \in Requests \ {r} : pc'[q] = "upsert" => Misses(given[q], lag[q])'
    BY <2>1 DEF RequestsMiss, Misses, Votes
  <2> QED BY <2>3, <2>4 DEF RequestsMiss
<1>5. NotKept'
  <2>1. \A q \in Requests \ {r} : given'[q] = given[q] /\ (pc'[q] = "upsert" => pc[q] = "upsert")
    BY <1>1 DEF TypeOK
  <2>2. given'[r] = [basis |-> n, broken |-> n < Len(votes), kept |-> FALSE]
    BY <1>1 DEF TypeOK
  <2> QED BY <2>1, <2>2 DEF NotKept
<1> QED BY <1>2, <1>3, <1>4, <1>5

LEMMA UpsertInv == ASSUME IInv, NEW r \in Requests, Upsert(r) PROVE IInv'
<1> USE CapsAreNatural, ProfileAssumption DEF ProfileAssumption, IInv, clock
<1>1. PICK w \in LoadSlotHistory :
        LET p == Extract(given[r].basis, w) IN
        \/ HasSignals(p) /\ WriteRow(p, given[r]) /\ UNCHANGED <<given, faults>>
        \/ HasSignals(p) /\ Fault /\ LoseExtraction(r) /\ UNCHANGED row
        \/ ~HasSignals(p) /\ old[r] /\ KeepOld(r) /\ UNCHANGED <<row, faults>>
        \/ ~HasSignals(p) /\ ~old[r] /\ UNCHANGED <<row, given, faults>>
  BY DEF Upsert
<1> DEFINE p == Extract(given[r].basis, w)
<1>2. p \in Profile
  BY ExtractType DEF LoadSlotHistory
<1>3. /\ pc[r] = "upsert" /\ pc' = [pc EXCEPT ![r] = "plan"]
      /\ old' = [old EXCEPT ![r] = FALSE] /\ lag' = [lag EXCEPT ![r] = 0]
      /\ UNCHANGED <<votes, age, back>>
  BY DEF Upsert, Goto
<1>4. \/ HasSignals(p) /\ row' = [exists |-> TRUE, profile |-> p, from |-> given[r], age |-> 0]
      \/ UNCHANGED row
  BY <1>1 DEF WriteRow, Stamp
<1>5. \/ given' = given
      \/ given' = [given EXCEPT ![r] = Unknown]
      \/ given' = [given EXCEPT ![r].kept = TRUE]
  BY <1>1 DEF LoseExtraction, KeepOld
<1>6. TypeOK'
  <2>1. row' \in [exists : BOOLEAN, profile : Profile, from : Grounds, age : (0 - back)..Expired]
    <3>1. given[r] \in Grounds
      BY DEF TypeOK
    <3>2. 0 \in (0 - back)..Expired
      BY TypeFacts
    <3>3. row \in [exists : BOOLEAN, profile : Profile, from : Grounds, age : (0 - back)..Expired]
      BY DEF TypeOK
    <3>4. back' = back
      BY <1>3
    <3> HIDE DEF p
    <3>5. [exists |-> TRUE, profile |-> p, from |-> given[r], age |-> 0]
            \in [exists : BOOLEAN, profile : Profile, from : Grounds, age : (0 - back)..Expired]
      BY <1>2, <3>1, <3>2, RowType
    <3> QED BY <1>4, <3>3, <3>4, <3>5
  <2>2. given' \in [Requests -> Grounds]
    <3>1. Unknown \in Grounds
      BY DEF Unknown, Grounds
    <3>2. given \in [Requests -> Grounds]
      BY DEF TypeOK
    <3>3. [given EXCEPT ![r].kept = TRUE] \in [Requests -> Grounds]
      BY <3>2 DEF Grounds
    <3> QED BY <1>5, <3>1, <3>2, <3>3
  <2>3. old' \in [Requests -> BOOLEAN]
    BY <1>3, FlagType DEF TypeOK
  <2>4. /\ pc' \in [Requests -> {"idle", "votes", "upsert", "plan"}]
        /\ lag' \in [Requests -> 0..MaxLag]
    BY <1>3 DEF TypeOK
  <2>5. faults' \in Nat /\ faults' + back' <= MaxMishaps
    BY <1>1, <1>3, FaultType
  <2> QED BY <1>3, <2>1, <2>2, <2>3, <2>4, <2>5 DEF TypeOK
<1>7. RowMisses'
  <2>1. CASE UNCHANGED row
    BY <1>3, <2>1 DEF RowMisses, Misses, Votes
  <2>2. CASE row'.from = given[r] /\ row'.age = 0
    <3>1. Misses(given[r], lag[r]) /\ lag[r] <= MaxLag /\ lag[r] \in Int /\ back \in Nat
      BY <1>3, TypeFacts DEF RequestsMiss
    <3>2. \A i \in Votes : age[i] \in Int
      BY TypeFacts
    <3> QED BY <1>3, <2>2, <3>1, <3>2 DEF RowMisses, Misses, Votes
  <2> QED BY <1>4, <2>1, <2>2
<1>8. RowSays'
  <2> HIDE DEF p
  <2> QED BY <1>4, SignalsShow DEF RowSays
<1>9. RequestsMiss'
  <2>1. \A q \in Requests : pc'[q] = "upsert" =>
          pc[q] = "upsert" /\ given'[q] = given[q] /\ lag'[q] = lag[q]
    BY <1>3, <1>5 DEF TypeOK
  <2> QED BY <1>3, <2>1 DEF RequestsMiss, Misses, Votes
<1>10. NotKept'
  <2>1. row' = row \/ row'.from = given[r]
    BY <1>4
  <2>2. \A q \in Requests : pc'[q] = "upsert" => pc[q] = "upsert" /\ given'[q] = given[q]
    BY <1>3, <1>5 DEF TypeOK
  <2> QED BY <1>3, <2>1, <2>2 DEF NotKept
<1> QED BY <1>6, <1>7, <1>8, <1>9, <1>10

LEMMA PlanInv == ASSUME IInv, NEW r \in Requests, Plan(r) PROVE IInv'
<1> USE DEF IInv, Plan, Goto, clock
<1>1. TypeOK'
  <2>1. Nothing \in Grounds
    BY ProfileAssumption DEF ProfileAssumption, Nothing, Grounds
  <2> QED BY <2>1 DEF TypeOK
<1>2. RowMisses' /\ RowSays'
  BY DEF RowMisses, RowSays, Misses, Votes
<1>3. RequestsMiss'
  <2>1. \A q \in Requests : pc'[q] = "upsert" => pc[q] = "upsert" /\ given'[q] = given[q]
    BY DEF TypeOK
  <2> QED BY <2>1 DEF RequestsMiss, Misses, Votes
<1>4. NotKept'
  <2>1. \A q \in Requests : pc'[q] = "upsert" => pc[q] = "upsert" /\ given'[q] = given[q]
    BY DEF TypeOK
  <2> QED BY <2>1 DEF NotKept
<1> QED BY <1>1, <1>2, <1>3, <1>4

LEMMA OlderBounds ==
  ASSUME NEW a \in Int, NEW cap \in Int, a <= cap
  PROVE  /\ Older(a, cap) \in Int /\ Older(a, cap) <= cap /\ Older(a, cap) >= a
         /\ Older(a, cap) <= a + 1 /\ (a < cap => Older(a, cap) = a + 1)
BY DEF Older

LEMMA TickInv == ASSUME IInv, Tick PROVE IInv'
<1> USE CapsAreNatural, ProfileAssumption DEF ProfileAssumption, IInv
<1>1. /\ \A r \in Requests : Reading(r) => lag[r] < MaxLag
      /\ lag' = [r \in Requests |-> IF Reading(r) THEN lag[r] + 1 ELSE lag[r]]
      /\ age' = [i \in Votes |-> Older(age[i], Overdue)]
      /\ row' = [row EXCEPT !.age = IF row.exists THEN Older(@, Expired) ELSE @]
      /\ UNCHANGED <<votes, back, faults, pc, old, given>>
  BY DEF Tick
<1>2. \A i \in Votes : age[i] \in Int /\ age[i] <= Overdue /\ age[i] >= 0
  BY TypeFacts
<1>3. \A i \in Votes : /\ age'[i] = Older(age[i], Overdue) /\ age'[i] \in 0..Overdue
                       /\ age'[i] <= age[i] + 1
  BY <1>1, <1>2, OlderBounds
<1>4. /\ row.age \in Int /\ row.age <= Expired /\ row.age + back >= 0
      /\ back \in Nat /\ row'.age \in Int
      /\ row'.age = IF row.exists THEN Older(row.age, Expired) ELSE row.age
      /\ row'.from = row.from /\ row'.exists = row.exists /\ row'.profile = row.profile
  <2>1. row \in [exists : BOOLEAN, profile : Profile, from : Grounds, age : (0 - back)..Expired]
    BY DEF TypeOK
  <2>2. row.age \in Int /\ row.age <= Expired /\ row.age + back >= 0 /\ back \in Nat
    BY TypeFacts
  <2>3. row' = [row EXCEPT !.age = IF row.exists THEN Older(row.age, Expired) ELSE row.age]
    BY <1>1
  <2>4. (IF row.exists THEN Older(row.age, Expired) ELSE row.age) \in Int
    BY <2>2 DEF Older
  <2> QED BY <2>1, <2>2, <2>3, <2>4
<1>5. TypeOK'
  <2>1. lag' \in [Requests -> 0..MaxLag]
    <3>1. \A r \in Requests : lag[r] \in 0..MaxLag
      BY TypeFacts
    <3> QED BY <1>1, <3>1
  <2>2. age' \in Seq(0..Overdue) /\ Len(age') = Len(votes')
    <3>1. age' \in [1..Len(votes) -> 0..Overdue] /\ Len(votes) \in Nat
      BY <1>1, <1>3, TypeFacts DEF Votes
    <3> QED BY <1>1, <3>1
  <2>3. row' \in [exists : BOOLEAN, profile : Profile, from : Grounds, age : (0 - back')..Expired]
    <3>1. row'.age \in (0 - back)..Expired
      BY <1>1, <1>4 DEF Older
    <3>2. row \in [exists : BOOLEAN, profile : Profile, from : Grounds, age : (0 - back)..Expired]
      BY DEF TypeOK
    <3>3. row' = [row EXCEPT !.age = row'.age]
      BY <1>1, <1>4, <3>2
    <3> QED BY <1>1, <3>1, <3>2, <3>3
  <2> QED BY <1>1, <2>1, <2>2, <2>3 DEF TypeOK
<1>6. RowMisses'
  <2> SUFFICES ASSUME row.exists, ~row.from.broken, NEW i \in Votes, i > row.from.basis
               PROVE  age'[i] <= row'.age + MaxLag + back
    BY <1>1, <1>4 DEF RowMisses, Misses, Votes
  <2>1. age[i] <= row.age + MaxLag + back
    BY DEF RowMisses, Misses
  <2>2. CASE row.age < Expired
    <3>1. row'.age = row.age + 1
      BY <1>4, <2>2 DEF Older
    <3>2. age'[i] <= age[i] + 1 /\ age'[i] \in Int /\ age[i] \in Int
      BY <1>2, <1>3
    <3> QED BY <1>4, <2>1, <3>1, <3>2
  <2>3. CASE row.age = Expired
    <3>1. row'.age >= Expired
      BY <1>4, <2>3, OlderBounds
    <3>2. age'[i] <= Expired + MaxLag /\ age'[i] \in Int
      BY <1>3
    <3> QED BY <1>4, <3>1, <3>2
  <2>4. row.age < Expired \/ row.age = Expired
    <3>1. row.age \in Int /\ Expired \in Int /\ row.age <= Expired
      BY <1>4
    <3> QED BY ONLY <3>1
  <2> QED BY <2>2, <2>3, <2>4
<1>7. RequestsMiss'
  <2> SUFFICES ASSUME NEW r \in Requests, pc[r] = "upsert", ~given[r].broken,
                      NEW i \in Votes, i > given[r].basis
               PROVE  age'[i] <= lag'[r]
    BY <1>1 DEF RequestsMiss, Misses, Votes
  <2>1. age[i] <= lag[r] /\ lag[r] \in Int
    BY TypeFacts DEF RequestsMiss, Misses
  <2>2. lag'[r] = lag[r] + 1
    BY <1>1 DEF Reading
  <2> QED BY <1>2, <1>3, <2>1, <2>2
<1>8. RowSays' /\ NotKept'
  BY <1>1, <1>4 DEF RowSays, NotKept
<1> QED BY <1>5, <1>6, <1>7, <1>8

LEMMA SetBackInv == ASSUME IInv, SetBack PROVE IInv'
<1> USE CapsAreNatural, ProfileAssumption DEF ProfileAssumption, IInv
<1>1. /\ back < MaxBack /\ faults + back < MaxMishaps /\ back' = back + 1
      /\ row' = [row EXCEPT !.age = IF row.exists THEN row.age - 1 ELSE row.age]
      /\ UNCHANGED <<votes, age, faults, pc, lag, old, given>>
  BY DEF SetBack
<1>2. row \in [exists : BOOLEAN, profile : Profile, from : Grounds, age : (0 - back)..Expired]
  BY DEF TypeOK
<1>3. row.age \in Int /\ row.age <= Expired /\ row.age + back >= 0 /\ back \in Nat
  BY TypeFacts
<1>4. /\ row'.age = IF row.exists THEN row.age - 1 ELSE row.age
      /\ row'.from = row.from /\ row'.exists = row.exists /\ row'.profile = row.profile
  BY <1>1, <1>2
<1>5. TypeOK'
  <2>1. row'.age \in (0 - back')..Expired
    BY <1>1, <1>3, <1>4
  <2>2. row' = [row EXCEPT !.age = row'.age]
    BY <1>1, <1>2, <1>4
  <2>3. row' \in [exists : BOOLEAN, profile : Profile, from : Grounds, age : (0 - back')..Expired]
    BY <1>2, <2>1, <2>2
  <2>4. back' \in 0..MaxBack /\ faults' \in Nat /\ faults' + back' <= MaxMishaps
    <3>1. faults \in Nat /\ MaxBack \in Nat /\ MaxMishaps \in Nat
      BY DEF TypeOK
    <3> QED BY <1>1, <1>3, <3>1
  <2> QED BY <1>1, <2>3, <2>4 DEF TypeOK
<1>6. RowMisses'
  <2> SUFFICES ASSUME row.exists, ~row.from.broken, NEW i \in Votes, i > row.from.basis
               PROVE  age[i] <= row'.age + MaxLag + back'
    BY <1>1, <1>4 DEF RowMisses, Misses, Votes
  <2>1. age[i] <= row.age + MaxLag + back /\ age[i] \in Int
    BY TypeFacts DEF RowMisses, Misses
  <2> QED BY <1>1, <1>3, <1>4, <2>1
<1>7. RequestsMiss' /\ RowSays' /\ NotKept'
  BY <1>1, <1>4 DEF RequestsMiss, Misses, Votes, RowSays, NotKept
<1> QED BY <1>5, <1>6, <1>7
-----------------------------------------------------------------------------
LEMMA StutterInv == ASSUME IInv, UNCHANGED vars PROVE IInv'
BY DEF IInv, TypeOK, RowMisses, RequestsMiss, RowSays, NotKept, Misses, Votes, vars, clock

LEMMA NextInv == ASSUME IInv, [Next]_vars PROVE IInv'
<1>1. CASE \E c \in Cards, t \in Types : AppendFeedback(c, t)
  BY <1>1, AppendInv
<1>2. CASE \E r \in Requests : Begin(r)
  BY <1>2, BeginInv
<1>3. CASE \E r \in Requests : Resolve(r)
  BY <1>3, LoadFeedbackSignalsInv, UpsertInv, PlanInv DEF Resolve
<1>4. CASE Tick
  BY <1>4, TickInv
<1>5. CASE SetBack
  BY <1>5, SetBackInv
<1>6. CASE UNCHANGED vars
  BY <1>6, StutterInv
<1> QED BY <1>1, <1>2, <1>3, <1>4, <1>5, <1>6 DEF Next

(* Ages, lags, the faults and what is known of each extraction stay within *)
(* the bounds TypeOK states: the row's age falls below zero by no more     *)
(* than the clock was set back.                                            *)
THEOREM TypeCorrect == Spec => []TypeOK
<1>1. IInv => TypeOK
  BY DEF IInv
<1> QED BY InitInv, NextInv, <1>1, PTL DEF Spec

(* A step that hands a request its profile hands it one that misses no     *)
(* vote older than the request must bear: a cached row because RowMisses   *)
(* bounds what it misses by its age, a new one because it missed nothing   *)
(* when the votes were read.  The same holds of the votes read before a    *)
(* stale profile is kept, and those prefer nothing.                        *)
LEMMA HandedReflects ==
  ASSUME IInv, [Next]_vars, NEW r \in Requests, Handed(r), ~given'[r].broken
  PROVE  /\ \A i \in Votes : i > given'[r].basis => age[i] <= Patience(r)
         /\ given'[r].kept => PreferNothing(given'[r].basis)
<1> USE ProfileAssumption DEF ProfileAssumption, IInv
<1>1. CASE Begin(r)
  <2>1. Fresh /\ given'[r] = row.from /\ pc[r] = "idle"
    BY <1>1 DEF Begin, Goto, Handed, TypeOK
  <2>2. row.exists /\ row.age <= Ttl /\ row.profile # NoProfile
    BY <2>1 DEF Fresh, RowSays
  <2>3. ~given'[r].kept
    BY <2>1, <2>2 DEF NotKept
  <2>4. ASSUME NEW i \in Votes, i > given'[r].basis
        PROVE  age[i] <= Ttl + MaxLag + back
    <3>1. age[i] <= row.age + MaxLag + back
      BY <2>1, <2>2, <2>4 DEF RowMisses, Misses
    <3> QED BY <2>2, <2>4, <3>1, TypeFacts
  <2> QED BY <2>1, <2>2, <2>3, <2>4 DEF Patience
<1>2. CASE Upsert(r)
  <2>1. pc[r] = "upsert"
    BY <1>2 DEF Upsert, Goto
  <2>2. PICK w : \/ given' = given
                 \/ given' = [given EXCEPT ![r] = Unknown]
                 \/ /\ given' = [given EXCEPT ![r].kept = TRUE]
                    /\ ~HasSignals(Extract(given[r].basis, w))
    BY <1>2 DEF Upsert, LoseExtraction, KeepOld
  <2>3. \/ given'[r] = given[r]
        \/ /\ given'[r] = [given[r] EXCEPT !.kept = TRUE]
           /\ ~HasSignals(Extract(given[r].basis, w))
    <3>1. Unknown.broken
      BY DEF Unknown
    <3> QED BY <2>2, <3>1 DEF TypeOK
  <2>4. given'[r].basis = given[r].basis /\ given'[r].broken = given[r].broken
    BY <2>3 DEF TypeOK, Grounds
  <2>5. ASSUME NEW i \in Votes, i > given'[r].basis
        PROVE  age[i] <= MaxLag
    <3>1. age[i] <= lag[r]
      BY <2>1, <2>4, <2>5 DEF RequestsMiss, Misses
    <3> QED BY <2>5, <3>1, TypeFacts
  <2>6. given'[r].kept => PreferNothing(given'[r].basis)
    <3>1. ~given[r].kept
      BY <2>1 DEF NotKept
    <3>2. ASSUME ~HasSignals(Extract(given[r].basis, w))
          PROVE  PreferNothing(given[r].basis)
      BY <3>2 DEF HasSignals, Extract, PreferNothing
    <3> QED BY <2>3, <2>4, <3>1, <3>2
  <2> QED BY <2>1, <2>5, <2>6 DEF Patience
<1>3. CASE pc'[r] = pc[r] \/ pc'[r] # "plan"
  BY <1>3 DEF Handed
<1>4. Begin(r) \/ Upsert(r) \/ pc'[r] = pc[r] \/ pc'[r] # "plan"
  <2>1. pc \in [Requests -> {"idle", "votes", "upsert", "plan"}]
    BY DEF TypeOK
  <2>2. CASE \E q \in Requests : Begin(q) \/ Resolve(q)
    BY <2>1, <2>2 DEF Resolve, Begin, LoadFeedbackSignals, Upsert, Plan, Goto
  <2>3. CASE pc' = pc
    BY <2>3
  <2>4. (\E q \in Requests : Begin(q) \/ Resolve(q)) \/ pc' = pc
    BY DEF Next, AppendFeedback, Tick, SetBack, vars
  <2> QED BY <2>2, <2>3, <2>4
<1> QED BY <1>1, <1>2, <1>3, <1>4

(* However requests of the user interleave, whichever extraction writes    *)
(* last and however far the clock is set back, the planner is told of      *)
(* every vote old enough (ResolveUserProfile), but for the two ways round  *)
(* it: a statement that failed, of which the theorem says nothing, and a   *)
(* stale profile that is kept, though only when every vote old enough has  *)
(* been read and they prefer nothing.                                      *)
THEOREM OldVotesAreReflected == Spec => OldVotesReflected
<1> DEFINE Reflected == \A r \in Requests : Handed(r) /\ ~given'[r].broken =>
             /\ \A i \in Votes : i > given'[r].basis => age[i] <= Patience(r)
             /\ given'[r].kept => PreferNothing(given'[r].basis)
<1>1. IInv /\ [Next]_vars => [Reflected]_vars
  BY HandedReflects
<1> QED BY InitInv, NextInv, <1>1, PTL DEF Spec, OldVotesReflected
=============================================================================
