--------------------------- MODULE ChatTurnProofs ---------------------------
(***************************************************************************)
(* Type correctness of ChatTurn; that a request plans with the context its *)
(* session had when earlier requests ended (ContextInv); and what becomes  *)
(* of answers (AnswerInv): shown ones are stored, stored ones have their   *)
(* context, earlier ones are read.  For any number of requests, faults and *)
(* crashes.                                                                *)
(***************************************************************************)
EXTENDS ChatTurn, TLAPS

LEMMA GotoType ==
  ASSUME NEW r \in Requests, NEW from \in Labels, NEW to \in Labels,
         pc \in [Requests -> Labels], Goto(r, from, to)
  PROVE  /\ pc' \in [Requests -> Labels]
         /\ pc[r] = from /\ pc'[r] = to
         /\ \A q \in Requests : q # r => pc'[q] = pc[q]
  BY DEF Goto

LEMMA InitType == Init => TypeOK
<1> SUFFICES ASSUME Init PROVE TypeOK
  OBVIOUS
<1>1. /\ stored \subseteq Requests /\ faults \subseteq Operations \X Requests
      /\ crashes \in 0..MaxCrashes
  BY TurnAssumption DEF Init
<1>2. turns \in [Requests -> Seq(Turn)] /\ writes \in [Requests -> Seq(Requests)]
  BY DEF Init
<1>3. context \in [Requests -> [state : States, slots : SUBSET Requests]]
  BY DEF Init, States
<1>4. pc \in [Requests -> Labels]
  BY DEF Init, Labels
<1>5. session \in [Requests -> Requests] /\ slots \in [Requests -> SUBSET Requests]
  BY DEF Init
<1>6. plan \in [Requests -> Plans] /\ ended \in [Requests -> {"none", "final", "error"}]
  BY DEF Init, Plans
<1>7. unaudited \in [Requests -> 0..2] /\ read \in [Requests -> Nat]
  BY DEF Init
<1>8. before \in [Requests -> SUBSET Requests] /\ seen \in [Requests -> SUBSET Turn]
  BY DEF Init
<1> QED BY <1>1, <1>2, <1>3, <1>4, <1>5, <1>6, <1>7, <1>8 DEF TypeOK
-----------------------------------------------------------------------------
LEMMA ResumeType ==
  ASSUME TypeOK, NEW r \in Requests, NEW s \in Requests, Resume(r, s) PROVE TypeOK'
<1>1. pc' \in [Requests -> Labels]
  BY GotoType DEF Resume, TypeOK, Labels
<1>2. session' \in [Requests -> Requests]
  BY DEF Resume, TypeOK
<1>3. slots' \in [Requests -> SUBSET Requests]
  BY DEF Resume, TypeOK
<1>4. read' \in [Requests -> Nat]
  BY DEF Resume, TypeOK
<1>5. before' \in [Requests -> SUBSET Requests]
  BY DEF Resume, TypeOK
<1> QED BY <1>1, <1>2, <1>3, <1>4, <1>5 DEF Resume, TypeOK, store

LEMMA CreateType == ASSUME TypeOK, NEW r \in Requests, Create(r) PROVE TypeOK'
<1>1. pc' \in [Requests -> Labels]
  BY GotoType DEF Create, TypeOK, Labels
<1>2. stored' \subseteq Requests /\ faults' \subseteq Operations \X Requests
  BY DEF Create, Fault, TypeOK, Operations
<1>3. session' \in [Requests -> Requests]
  BY DEF Create, TypeOK
<1>4. before' \in [Requests -> SUBSET Requests]
  BY DEF Create, TypeOK
<1> QED BY <1>1, <1>2, <1>3, <1>4 DEF Create, TypeOK

LEMMA AppendTurnType ==
  ASSUME TypeOK, NEW r \in Requests, NEW op \in Operations, NEW turn \in Turn,
         AppendTurn(r, op, turn)
  PROVE  turns' \in [Requests -> Seq(Turn)] /\ faults' \subseteq Operations \X Requests
<1>1. CASE Fault(op, r) /\ UNCHANGED turns
  BY <1>1 DEF Fault, TypeOK
<1>2. CASE UNCHANGED faults /\ UNCHANGED turns
  BY <1>2 DEF TypeOK
<1>3. CASE UNCHANGED faults /\ turns' = [turns EXCEPT ![session[r]] = Append(@, turn)]
  <2>1. session[r] \in Requests /\ turns[session[r]] \in Seq(Turn)
    BY DEF TypeOK
  <2>2. Append(turns[session[r]], turn) \in Seq(Turn)
    BY <2>1
  <2> QED BY <1>3, <2>1, <2>2 DEF TypeOK
<1> QED BY <1>1, <1>2, <1>3 DEF AppendTurn

LEMMA AppendUserTurnType ==
  ASSUME TypeOK, NEW r \in Requests, AppendUserTurn(r) PROVE TypeOK'
<1>1. turns' \in [Requests -> Seq(Turn)] /\ faults' \subseteq Operations \X Requests
  BY AppendTurnType DEF AppendUserTurn, Turn, User, Operations
<1>2. pc' \in [Requests -> Labels] /\ plan' \in [Requests -> Plans]
  <2> PICK p \in {"none", "blocked"} :
        /\ Goto(r, "user", IF p = "blocked" THEN "reply" ELSE "history")
        /\ plan' = [plan EXCEPT ![r] = p]
    BY DEF AppendUserTurn
  <2> QED BY GotoType DEF TypeOK, Labels, Plans
<1> QED BY <1>1, <1>2 DEF AppendUserTurn, TypeOK

LEMMA GetRecentTurnsType ==
  ASSUME TypeOK, NEW r \in Requests, GetRecentTurns(r) PROVE TypeOK'
<1>1. pc' \in [Requests -> Labels]
  BY GotoType DEF GetRecentTurns, TypeOK, Labels
<1>2. LastTurns(session[r]) \subseteq Turn
  <2> SUFFICES ASSUME NEW i \in 1..Len(turns[session[r]]) PROVE turns[session[r]][i] \in Turn
    BY DEF LastTurns
  <2>1. turns[session[r]] \in Seq(Turn)
    BY DEF TypeOK
  <2>2. i \in 1..Len(turns[session[r]])
    OBVIOUS
  <2>3. \A q \in Seq(Turn) : \A j \in 1..Len(q) : q[j] \in Turn
    OBVIOUS
  <2> QED BY <2>1, <2>2, <2>3
<1>3. seen' \in [Requests -> SUBSET Turn]
  <2>1. PICK h \in SUBSET Turn : seen' = [seen EXCEPT ![r] = h] \/ seen' = seen
    BY <1>2 DEF GetRecentTurns
  <2> QED BY <2>1 DEF TypeOK
<1>4. faults' \subseteq Operations \X Requests
  BY DEF GetRecentTurns, Fault, TypeOK, Operations
<1> QED BY <1>1, <1>3, <1>4 DEF GetRecentTurns, TypeOK, store

LEMMA PlannedType ==
  ASSUME TypeOK, NEW r \in Requests, NEW p \in {"clarify", "respond", "work"},
         NEW filled \in SUBSET Requests, Planned(r, p, filled)
  PROVE  /\ pc' \in [Requests -> Labels] /\ plan' \in [Requests -> Plans]
         /\ slots' \in [Requests -> SUBSET Requests] /\ unaudited' \in [Requests -> 0..2]
  BY GotoType DEF Planned, TypeOK, Labels, Plans

(* The planner asks twice at most.                                         *)
AttemptInv ==
  \A r \in Requests : /\ pc[r] \in {"idle", "user", "history"} => unaudited[r] = 0
                      /\ pc[r] = "plan" => unaudited[r] <= 1

LEMMA PlanNextStepType ==
  ASSUME TypeOK, AttemptInv, NEW r \in Requests, PlanNextStep(r) PROVE TypeOK'
<1>1. /\ pc' \in [Requests -> Labels] /\ plan' \in [Requests -> Plans]
      /\ slots' \in [Requests -> SUBSET Requests] /\ unaudited' \in [Requests -> 0..2]
  <2>1. CASE PlanParses(r)
    <3> PICK p \in {"clarify", "respond", "work"}, filled \in {slots[r] \cup {r}, {}} :
          Planned(r, p, filled)
      BY <2>1 DEF PlanParses
    <3>1. filled \in SUBSET Requests
      BY DEF TypeOK
    <3> QED BY <3>1, PlannedType
  <2>2. CASE PlanUnreadable(r)
    <3>1. CASE Planned(r, "work", {})
      BY <3>1, PlannedType
    <3>2. CASE Goto(r, "plan", "plan") /\ unaudited' = [unaudited EXCEPT ![r] = 1] /\ UNCHANGED <<plan, slots>>
      BY <3>2, GotoType DEF TypeOK, Labels
    <3> QED BY <2>2, <3>1, <3>2 DEF PlanUnreadable
  <2>3. CASE PlanMistyped(r)
    <3>1. pc' \in [Requests -> Labels] /\ pc[r] = "plan"
      BY <2>3, GotoType DEF PlanMistyped, TypeOK, Labels
    <3>2. unaudited[r] \in 0..1
      BY <3>1 DEF AttemptInv, TypeOK
    <3>3. unaudited' \in [Requests -> 0..2]
      BY <2>3, <3>2 DEF PlanMistyped, TypeOK
    <3> QED BY <2>3, <3>1, <3>3 DEF PlanMistyped, TypeOK
  <2> QED BY <2>1, <2>2, <2>3 DEF PlanNextStep
<1> QED BY <1>1 DEF PlanNextStep, TypeOK, store

LEMMA RunToolsAndComposeType ==
  ASSUME TypeOK, NEW r \in Requests, RunToolsAndCompose(r) PROVE TypeOK'
<1>1. pc' \in [Requests -> Labels]
  BY GotoType DEF RunToolsAndCompose, TypeOK, Labels
<1> QED BY <1>1 DEF RunToolsAndCompose, TypeOK, store, local

LEMMA UpdateContextType ==
  ASSUME TypeOK, NEW r \in Requests, UpdateContext(r) PROVE TypeOK'
<1>1. pc' \in [Requests -> Labels]
  BY GotoType DEF UpdateContext, TypeOK, Labels
<1>2. faults' \subseteq Operations \X Requests
  BY DEF UpdateContext, Fault, TypeOK, Operations
<1>3. /\ context' \in [Requests -> [state : States, slots : SUBSET Requests]]
      /\ writes' \in [Requests -> Seq(Requests)]
  <2>1. CASE UNCHANGED <<context, writes>>
    BY <2>1 DEF TypeOK
  <2>2. CASE /\ context' = [context EXCEPT ![session[r]] = [state |-> StateAfter(plan[r]), slots |-> slots[r]]]
             /\ writes' = [writes EXCEPT ![session[r]] = Append(@, r)]
    <3>1. [state |-> StateAfter(plan[r]), slots |-> slots[r]] \in [state : States, slots : SUBSET Requests]
      BY DEF TypeOK, States, StateAfter
    <3>2. session[r] \in Requests /\ writes[session[r]] \in Seq(Requests)
      BY DEF TypeOK
    <3>3. Append(writes[session[r]], r) \in Seq(Requests)
      BY <3>2
    <3> QED BY <2>2, <3>1, <3>2, <3>3 DEF TypeOK
  <2> QED BY <2>1, <2>2 DEF UpdateContext
<1> QED BY <1>1, <1>2, <1>3 DEF UpdateContext, TypeOK, local

LEMMA AppendReplyTurnType ==
  ASSUME TypeOK, NEW r \in Requests, AppendReplyTurn(r) PROVE TypeOK'
<1>1. turns' \in [Requests -> Seq(Turn)] /\ faults' \subseteq Operations \X Requests
  BY AppendTurnType DEF AppendReplyTurn, Turn, Reply, Operations
<1>2. pc' \in [Requests -> Labels]
  BY GotoType DEF AppendReplyTurn, TypeOK, Labels
<1> QED BY <1>1, <1>2 DEF AppendReplyTurn, TypeOK, local

LEMMA EndType ==
  ASSUME TypeOK, NEW r \in Requests, NEW from \in Labels, NEW event \in {"final", "error"},
         End(r, from, event)
  PROVE  TypeOK'
<1>1. pc' \in [Requests -> Labels]
  BY GotoType DEF End, TypeOK, Labels
<1>2. ended' \in [Requests -> {"none", "final", "error"}]
  BY DEF End, TypeOK
<1> QED BY <1>1, <1>2 DEF End, TypeOK, store

LEMMA CrashType == ASSUME TypeOK, Crash PROVE TypeOK'
<1>1. pc' \in [Requests -> Labels]
  BY DEF Crash, TypeOK, Labels
<1>2. crashes' \in 0..MaxCrashes
  BY TurnAssumption DEF Crash, TypeOK
<1> QED BY <1>1, <1>2 DEF Crash, TypeOK, store, local

LEMMA NextType == ASSUME TypeOK, AttemptInv, [Next]_vars PROVE TypeOK'
<1>1. CASE UNCHANGED vars
  BY <1>1 DEF vars, store, local, TypeOK
<1>2. ASSUME NEW r \in Requests, Begin(r) PROVE TypeOK'
  BY <1>2, CreateType, ResumeType DEF Begin
<1>3. ASSUME NEW r \in Requests, Continue(r) PROVE TypeOK'
  <2>1. ASSUME Finish(r) PROVE TypeOK'
    BY <2>1, EndType DEF Finish, Labels
  <2>2. ASSUME Error(r) PROVE TypeOK'
    BY <2>2, EndType DEF Error, Labels
  <2> QED BY <1>3, <2>1, <2>2, AppendUserTurnType, GetRecentTurnsType, PlanNextStepType,
             RunToolsAndComposeType, UpdateContextType, AppendReplyTurnType DEF Continue
<1>4. CASE Crash
  BY <1>4, CrashType
<1> QED BY <1>1, <1>2, <1>3, <1>4 DEF Next
-----------------------------------------------------------------------------
(* How an action moves: only its request, and never back to idle.          *)
LEMMA ContinueMoves ==
  ASSUME TypeOK, NEW r \in Requests, Continue(r)
  PROVE  /\ \A q \in Requests : q # r => pc'[q] = pc[q] /\ unaudited'[q] = unaudited[q]
         /\ pc[r] \notin Resting /\ pc'[r] \notin {"idle", "user"}
<1>1. CASE AppendUserTurn(r)
  BY <1>1 DEF AppendUserTurn, Goto, TypeOK, Resting, Labels
<1>2. CASE GetRecentTurns(r)
  BY <1>2 DEF GetRecentTurns, Goto, TypeOK, Resting, Labels
<1>3. CASE PlanNextStep(r)
  <2>1. pc[r] = "plan" /\ \E to \in {"work", "context", "plan", "error"} : pc' = [pc EXCEPT ![r] = to]
    BY <1>3 DEF PlanNextStep, PlanParses, PlanUnreadable, PlanMistyped, Planned, Goto
  <2>2. \E n \in 0..3 : unaudited' = [unaudited EXCEPT ![r] = n]
    BY <1>3 DEF PlanNextStep, PlanParses, PlanUnreadable, PlanMistyped, Planned, TypeOK
  <2> QED BY <2>1, <2>2 DEF TypeOK, Resting
<1>4. CASE RunToolsAndCompose(r)
  BY <1>4 DEF RunToolsAndCompose, local, Goto, TypeOK, Resting, Labels
<1>5. CASE UpdateContext(r)
  BY <1>5 DEF UpdateContext, local, Goto, TypeOK, Resting, Labels
<1>6. CASE AppendReplyTurn(r)
  BY <1>6 DEF AppendReplyTurn, local, Goto, TypeOK, Resting, Labels
<1>7. CASE Finish(r)
  BY <1>7 DEF Finish, End, Goto, TypeOK, Resting, Labels
<1>8. CASE Error(r)
  BY <1>8 DEF Error, End, Goto, TypeOK, Resting, Labels
<1> QED BY <1>1, <1>2, <1>3, <1>4, <1>5, <1>6, <1>7, <1>8 DEF Continue

LEMMA BeginMoves ==
  ASSUME TypeOK, NEW r \in Requests, Begin(r)
  PROVE  /\ \A q \in Requests : q # r => pc'[q] = pc[q]
         /\ pc[r] = "idle" /\ pc'[r] = "user"
         /\ UNCHANGED <<unaudited, ended, writes>>
  BY DEF Begin, Create, Resume, Goto, TypeOK, store

LEMMA AttemptStep == ASSUME TypeOK, AttemptInv, [Next]_vars PROVE AttemptInv'
<1>1. CASE UNCHANGED vars
  BY <1>1 DEF vars, local, AttemptInv
<1>2. ASSUME NEW r \in Requests, Begin(r) PROVE AttemptInv'
  BY <1>2, BeginMoves DEF AttemptInv
<1>3. ASSUME NEW r \in Requests, Continue(r) PROVE AttemptInv'
  <2>1. pc'[r] = "plan" => unaudited'[r] <= 1
    <3>1. CASE PlanNextStep(r)
      BY <3>1 DEF PlanNextStep, PlanParses, PlanUnreadable, PlanMistyped, Planned, Goto, TypeOK
    <3>2. CASE GetRecentTurns(r)
      BY <3>2 DEF GetRecentTurns, Goto, AttemptInv
    <3> QED BY <1>3, <3>1, <3>2 DEF Continue, AppendUserTurn, RunToolsAndCompose, UpdateContext,
              AppendReplyTurn, Finish, Error, End, Goto, TypeOK
  <2>2. pc'[r] = "history" => unaudited'[r] = 0
    BY <1>3 DEF Continue, AppendUserTurn, GetRecentTurns, PlanNextStep, PlanParses, PlanUnreadable,
         PlanMistyped, Planned, RunToolsAndCompose, UpdateContext, AppendReplyTurn, Finish, Error,
         End, Goto, TypeOK, AttemptInv
  <2> QED BY <1>3, <2>1, <2>2, ContinueMoves DEF AttemptInv
<1>4. CASE Crash
  BY <1>4 DEF Crash, local, Resting, TypeOK, AttemptInv
<1> QED BY <1>1, <1>2, <1>3, <1>4 DEF Next

(* The variables of the orchestrator and of the store keep their types.    *)
THEOREM TypeCorrect == Spec => []TypeOK
<1>1. Init => TypeOK /\ AttemptInv
  BY InitType DEF Init, AttemptInv
<1>2. TypeOK /\ AttemptInv /\ [Next]_vars => TypeOK' /\ AttemptInv'
  BY NextType, AttemptStep
<1> QED BY <1>1, <1>2, PTL DEF Spec
-----------------------------------------------------------------------------
(* Why ReadsEarlierContexts holds: a request that ended is done and writes *)
(* no more, and only ended requests count as earlier ones; a session that  *)
(* is about to be created has no writes.                                   *)
ContextInv ==
  /\ \A q \in Requests : ended[q] # "none" => pc[q] = "done"
  /\ \A r \in Requests : \A q \in before[r] : ended[q] # "none"
  /\ \A s \in Requests : writes[s] # <<>> => s \in stored
  /\ \A s \in stored : pc[s] # "idle"
  /\ ReadsEarlierContexts

(* A step that neither begins nor ends a request nor writes a context.     *)
LEMMA QuietStep ==
  ASSUME TypeOK, ContextInv, UNCHANGED <<writes, session, read, before, ended, stored>>,
         \A q \in Requests : pc'[q] = "idle" <=> pc[q] = "idle",
         \A q \in Requests : pc[q] = "done" => pc'[q] = "done"
  PROVE  ContextInv'
  BY DEF TypeOK, ContextInv, ReadsEarlierContexts

LEMMA BeginContext ==
  ASSUME TypeOK, ContextInv, NEW r \in Requests, Begin(r) PROVE ContextInv'
<1>1. /\ \A q \in Requests : q # r => pc'[q] = pc[q]
      /\ pc[r] = "idle" /\ pc'[r] = "user" /\ UNCHANGED <<ended, writes>>
  BY BeginMoves
<1>2. /\ before'[r] = {q \in Requests : ended[q] # "none"}
      /\ \A q \in Requests : q # r => before'[q] = before[q] /\ session'[q] = session[q] /\ read'[q] = read[q]
  BY DEF Begin, Create, Resume, TypeOK
<1>3. \/ session'[r] = r /\ writes[r] = <<>>
      \/ session'[r] \in Requests /\ read'[r] = Len(writes[session'[r]])
  <2>1. CASE Create(r)
    BY <2>1 DEF Create, Goto, TypeOK, ContextInv
  <2>2. CASE \E s \in Requests : Resume(r, s)
    BY <2>2 DEF Resume, TypeOK
  <2> QED BY <2>1, <2>2 DEF Begin
<1>4. \A q \in before'[r] : \A i \in 1..Len(writes'[session'[r]]) :
        writes'[session'[r]][i] = q => i <= read'[r]
  <2>1. CASE session'[r] = r /\ writes[r] = <<>>
    BY <1>1, <2>1
  <2>2. CASE session'[r] \in Requests /\ read'[r] = Len(writes[session'[r]])
    BY <1>1, <2>2
  <2> QED BY <1>3, <2>1, <2>2
<1>5. ReadsEarlierContexts'
  <2> SUFFICES ASSUME NEW q \in Requests, pc'[q] # "idle", NEW p \in before'[q],
                      NEW i \in 1..Len(writes'[session'[q]]), writes'[session'[q]][i] = p
               PROVE  i <= read'[q]
    BY DEF ReadsEarlierContexts
  <2>1. CASE q = r
    BY <1>4, <2>1
  <2>2. CASE q # r
    <3>1. pc[q] # "idle" /\ p \in before[q] /\ i \in 1..Len(writes[session[q]])
          /\ writes[session[q]][i] = p /\ read'[q] = read[q]
      BY <1>1, <1>2, <2>2
    <3> QED BY <3>1 DEF ContextInv, ReadsEarlierContexts
  <2> QED BY <2>1, <2>2
<1>6. stored \subseteq stored' /\ stored' \subseteq stored \cup {r}
  BY DEF Begin, Create, Resume, store
<1>7. \A q \in Requests : ended'[q] # "none" => pc'[q] = "done"
  BY <1>1 DEF ContextInv
<1>8. \A q \in Requests : \A p \in before'[q] : ended'[p] # "none"
  BY <1>1, <1>2 DEF ContextInv
<1>9. \A s \in stored' : pc'[s] # "idle"
  BY <1>1, <1>6 DEF ContextInv, TypeOK
<1>10. \A s \in Requests : writes'[s] # <<>> => s \in stored'
  BY <1>1, <1>6 DEF ContextInv
<1> QED BY <1>5, <1>7, <1>8, <1>9, <1>10 DEF ContextInv

(* The one that writes is still running, so nobody counts it as earlier.   *)
LEMMA WriteContext ==
  ASSUME TypeOK, ContextInv, NEW r \in Requests, UpdateContext(r) PROVE ContextInv'
<1>1. /\ pc[r] = "context" /\ pc'[r] = "reply" /\ \A q \in Requests : q # r => pc'[q] = pc[q]
      /\ UNCHANGED <<session, read, before, ended, stored>>
  BY DEF UpdateContext, Goto, TypeOK, local
<1>2. CASE UNCHANGED writes
  BY <1>1, <1>2, QuietStep
<1>3. CASE session[r] \in stored /\ writes' = [writes EXCEPT ![session[r]] = Append(@, r)]
  <2>1. \A q \in Requests : r \notin before[q]
    BY <1>1 DEF ContextInv
  <2>2. ASSUME NEW s \in Requests, NEW i \in 1..Len(writes'[s]), writes'[s][i] # r
        PROVE  i \in 1..Len(writes[s]) /\ writes'[s][i] = writes[s][i]
    <3>1. writes[s] \in Seq(Requests) /\ session[r] \in Requests
      BY DEF TypeOK
    <3>2. CASE s # session[r]
      BY <1>3, <3>1, <3>2, <2>2 DEF TypeOK
    <3>3. CASE s = session[r]
      <4>1. writes'[s] = Append(writes[s], r)
        BY <1>3, <3>1, <3>3 DEF TypeOK
      <4> QED BY <3>1, <4>1, <2>2
    <3> QED BY <3>2, <3>3
  <2>3. ReadsEarlierContexts'
    <3> SUFFICES ASSUME NEW q \in Requests, pc'[q] # "idle", NEW p \in before'[q],
                        NEW i \in 1..Len(writes'[session'[q]]), writes'[session'[q]][i] = p
                 PROVE  i <= read'[q]
      BY DEF ReadsEarlierContexts
    <3>1. p # r /\ session[q] \in Requests /\ pc[q] # "idle"
      BY <1>1, <2>1 DEF TypeOK
    <3> QED BY <1>1, <2>2, <3>1 DEF ContextInv, ReadsEarlierContexts
  <2>4. \A s \in Requests : writes'[s] # <<>> => s \in stored'
    BY <1>1, <1>3 DEF ContextInv, TypeOK
  <2> QED BY <1>1, <2>3, <2>4 DEF ContextInv, TypeOK
<1> QED BY <1>2, <1>3 DEF UpdateContext

LEMMA EndContext ==
  ASSUME TypeOK, ContextInv, NEW r \in Requests, Finish(r) \/ Error(r) PROVE ContextInv'
<1>1. /\ pc[r] \in {"finish", "error"} /\ pc'[r] = "done" /\ ended'[r] # "none"
      /\ \A q \in Requests : q # r => pc'[q] = pc[q] /\ ended'[q] = ended[q]
      /\ UNCHANGED <<writes, session, read, before, stored>>
  BY DEF Finish, Error, End, Goto, TypeOK, store
<1> QED BY <1>1 DEF ContextInv, ReadsEarlierContexts, TypeOK

LEMMA ContextStep == ASSUME TypeOK, ContextInv, [Next]_vars PROVE ContextInv'
<1>1. CASE UNCHANGED vars
  BY <1>1, QuietStep DEF vars, store, local
<1>2. ASSUME NEW r \in Requests, Begin(r) PROVE ContextInv'
  BY <1>2, BeginContext
<1>3. ASSUME NEW r \in Requests, Continue(r) PROVE ContextInv'
  <2>1. CASE UpdateContext(r)
    BY <2>1, WriteContext
  <2>2. CASE Finish(r) \/ Error(r)
    BY <2>2, EndContext
  <2>3. CASE \/ AppendUserTurn(r) \/ GetRecentTurns(r) \/ PlanNextStep(r) \/ RunToolsAndCompose(r)
             \/ AppendReplyTurn(r)
    <3>1. UNCHANGED <<writes, session, read, before, ended, stored>>
      BY <2>3 DEF AppendUserTurn, GetRecentTurns, PlanNextStep, RunToolsAndCompose, AppendReplyTurn,
           store, local
    <3>2. /\ \A q \in Requests : q # r => pc'[q] = pc[q]
          /\ pc[r] \notin Resting /\ pc'[r] \notin {"idle", "user"}
      BY <1>3, ContinueMoves
    <3> QED BY <3>1, <3>2, QuietStep DEF Resting
  <2> QED BY <1>3, <2>1, <2>2, <2>3 DEF Continue
<1>4. CASE Crash
  BY <1>4, QuietStep DEF Crash, store, local, Resting, TypeOK
<1> QED BY <1>1, <1>2, <1>3, <1>4 DEF Next

(* Read-your-writes across the requests of a session.                      *)
THEOREM EarlierContextsAreRead == Spec => []ReadsEarlierContexts
<1>1. Init => TypeOK /\ AttemptInv /\ ContextInv
  <2>1. Init => ContextInv
    BY DEF Init, ContextInv, ReadsEarlierContexts
  <2> QED BY <2>1, InitType DEF Init, AttemptInv
<1>2. TypeOK /\ AttemptInv /\ ContextInv /\ [Next]_vars => TypeOK' /\ AttemptInv' /\ ContextInv'
  BY NextType, AttemptStep, ContextStep
<1>3. ContextInv => ReadsEarlierContexts
  BY DEF ContextInv
<1> QED BY <1>1, <1>2, <1>3, PTL DEF Spec
-----------------------------------------------------------------------------
(* What becomes of answers, request by request.  A reply is only in a      *)
(* transcript when its request is past AppendReplyTurn, and by then the    *)
(* context was written; a session that has no row never gets one later.    *)
Told == {"finish", "done", "lost"}
Wrote(s, r) == (\E i \in 1..Len(writes[s]) : writes[s][i] = r) \/ <<"context", r>> \in faults
ReplyStored(r) ==
  \/ <<"reply", r>> \in faults \/ session[r] \notin stored
  \/ \E i \in 1..Len(turns[session[r]]) :
       /\ turns[session[r]][i] = Reply(r)
       /\ \A j \in 1..Len(turns[session[r]]) :
            /\ turns[session[r]][j] = Reply(r) => j = i
            /\ turns[session[r]][j] = User(r) => j < i

Home(r) == pc[r] # "idle" => session[r] = r \/ session[r] \in stored
Unblocked(r) == pc[r] \in {"history", "plan"} => plan[r] # "blocked"
Backed(r) == pc[r] = "reply" /\ plan[r] # "blocked" /\ session[r] \in stored => Wrote(session[r], r)
Told1st(r) ==
  \A s \in Requests : InTranscript(Reply(r), s) =>
    pc[r] \in Told /\ (plan[r] # "blocked" => Wrote(s, r))
Kept(r) == pc[r] = "finish" \/ ended[r] = "final" => ReplyStored(r)
Shown(r) ==
  pc[r] \in Labels \ {"idle", "user", "history", "lost"} /\ plan[r] # "blocked" =>
    \A q \in before[r] : \A i \in 1..Len(turns[session[r]]) :
      turns[session[r]][i] = Reply(q) =>
        Reply(q) \in seen[r] \/ Follows(i, session[r]) >= Window \/ <<"history", r>> \in faults

Answer(r) == Home(r) /\ Unblocked(r) /\ Backed(r) /\ Told1st(r) /\ Kept(r) /\ Shown(r)
AnswerInv == \A r \in Requests : Answer(r)

LEMMA TurnsOf ==
  ASSUME NEW r, NEW q
  PROVE  /\ Reply(r).of = r /\ User(r).of = r /\ User(r) # Reply(q)
         /\ Reply(r) = Reply(q) => r = q
<1>1. Reply(r).role = "assistant" /\ User(r).role = "user" /\ Reply(q).role = "assistant"
      /\ Reply(r).of = r /\ Reply(q).of = q /\ User(r).of = r
  BY DEF Reply, User
<1> QED BY <1>1

(* A transcript grows at its end.                                          *)
GrownBy(t, s) ==
  turns'[s] = turns[s] \/ (s \in stored /\ turns'[s] = Append(turns[s], t))

LEMMA GrownTurns ==
  ASSUME TypeOK, NEW s \in Requests, NEW t \in Turn, GrownBy(t, s)
  PROVE  /\ turns[s] \in Seq(Turn) /\ Len(turns[s]) \in Nat
         /\ Len(turns'[s]) \in Nat /\ Len(turns'[s]) >= Len(turns[s])
         /\ \A i \in 1..Len(turns[s]) : i \in 1..Len(turns'[s]) /\ turns'[s][i] = turns[s][i]
         /\ \A i \in 1..Len(turns'[s]) : turns'[s][i] # t =>
              i \in 1..Len(turns[s]) /\ turns'[s][i] = turns[s][i]
<1>1. turns[s] \in Seq(Turn)
  BY DEF TypeOK
<1>2. CASE turns'[s] = turns[s]
  BY <1>1, <1>2
<1>3. CASE turns'[s] = Append(turns[s], t)
  BY <1>1, <1>3
<1> QED BY <1>1, <1>2, <1>3 DEF GrownBy

(* A step that adds turns of others only, as Q sees it.                    *)
OnlyOthers(Q) == \A s \in Requests :
  /\ Len(turns[s]) \in Nat /\ Len(turns'[s]) \in Nat /\ Len(turns[s]) <= Len(turns'[s])
  /\ \A i \in 1..Len(turns[s]) : i \in 1..Len(turns'[s]) /\ turns'[s][i] = turns[s][i]
  /\ \A i \in 1..Len(turns'[s]) : turns'[s][i].of \in Q =>
       i \in 1..Len(turns[s]) /\ turns'[s][i] = turns[s][i]

LEMMA OthersTurn ==
  ASSUME TypeOK, NEW t \in Turn, \A s \in Requests : GrownBy(t, s), NEW Q, t.of \notin Q
  PROVE  OnlyOthers(Q)
<1> SUFFICES ASSUME NEW s \in Requests
             PROVE  /\ Len(turns[s]) \in Nat /\ Len(turns'[s]) \in Nat /\ Len(turns[s]) <= Len(turns'[s])
                    /\ \A i \in 1..Len(turns[s]) : i \in 1..Len(turns'[s]) /\ turns'[s][i] = turns[s][i]
                    /\ \A i \in 1..Len(turns'[s]) : turns'[s][i].of \in Q =>
                         i \in 1..Len(turns[s]) /\ turns'[s][i] = turns[s][i]
  BY DEF OnlyOthers
<1>1. /\ Len(turns[s]) \in Nat /\ Len(turns'[s]) \in Nat /\ Len(turns'[s]) >= Len(turns[s])
      /\ \A i \in 1..Len(turns[s]) : i \in 1..Len(turns'[s]) /\ turns'[s][i] = turns[s][i]
      /\ \A i \in 1..Len(turns'[s]) : turns'[s][i] # t =>
           i \in 1..Len(turns[s]) /\ turns'[s][i] = turns[s][i]
  BY GrownTurns
<1>2. \A i \in 1..Len(turns'[s]) : turns'[s][i].of \in Q => turns'[s][i] # t
  OBVIOUS
<1> QED BY <1>1, <1>2

LEMMA NoTurn == ASSUME TypeOK, UNCHANGED turns, NEW Q PROVE OnlyOthers(Q)
<1>1. \A s \in Requests : turns[s] \in Seq(Turn) /\ turns'[s] = turns[s]
  BY DEF TypeOK
<1>2. \A s \in Requests : Len(turns[s]) \in Nat
  BY <1>1
<1> QED BY <1>1, <1>2 DEF OnlyOthers

LEMMA AppendTurnGrows ==
  ASSUME TypeOK, NEW r \in Requests, NEW op, NEW t \in Turn, AppendTurn(r, op, t)
  PROVE  /\ \A s \in Requests : GrownBy(t, s) /\ (s # session[r] => turns'[s] = turns[s])
         /\ faults \subseteq faults'
         /\ \/ <<op, r>> \in faults' \/ session[r] \notin stored
            \/ turns'[session[r]] = Append(turns[session[r]], t)
<1>1. session[r] \in Requests
  BY DEF TypeOK
<1>2. CASE Fault(op, r) /\ UNCHANGED turns
  BY <1>2 DEF Fault, GrownBy
<1>3. CASE UNCHANGED faults /\ session[r] \notin stored /\ UNCHANGED turns
  BY <1>3 DEF GrownBy
<1>4. CASE /\ UNCHANGED faults /\ session[r] \in stored
           /\ turns' = [turns EXCEPT ![session[r]] = Append(@, t)]
  BY <1>1, <1>4 DEF GrownBy, TypeOK
<1> QED BY <1>2, <1>3, <1>4 DEF AppendTurn

(* What has been written stays written.                                    *)
LEMMA WroteStays ==
  ASSUME TypeOK, NEW s \in Requests, NEW q \in Requests, Wrote(s, q), faults \subseteq faults',
         writes'[s] = writes[s] \/ \E x \in Requests : writes'[s] = Append(writes[s], x)
  PROVE  Wrote(s, q)'
<1>1. writes[s] \in Seq(Requests)
  BY DEF TypeOK
<1>2. CASE <<"context", q>> \in faults
  BY <1>2 DEF Wrote
<1>3. CASE \E i \in 1..Len(writes[s]) : writes[s][i] = q
  <2>1. PICK i \in 1..Len(writes[s]) : writes[s][i] = q
    BY <1>3
  <2>2. i \in 1..Len(writes'[s]) /\ writes'[s][i] = q
    BY <1>1, <2>1
  <2> QED BY <2>2 DEF Wrote
<1> QED BY <1>2, <1>3 DEF Wrote

(* The store keeps what it has.                                            *)
StoreGrows ==
  /\ faults \subseteq faults'
  /\ \A s \in Requests : writes'[s] = writes[s] \/ \E x \in Requests : writes'[s] = Append(writes[s], x)

Planning == Labels \ {"idle", "user", "history", "lost"}

LEMMA ShownStays ==
  ASSUME TypeOK, NEW q \in Requests, OnlyOthers(before[q]), faults \subseteq faults',
         session'[q] = session[q], before'[q] = before[q], seen'[q] = seen[q], Shown(q),
         pc'[q] \in Planning /\ plan'[q] # "blocked" => pc[q] \in Planning /\ plan[q] # "blocked"
  PROVE  Shown(q)'
<1> SUFFICES ASSUME pc'[q] \in Planning, plan'[q] # "blocked", NEW p \in before[q],
                    NEW i \in 1..Len(turns'[session[q]]), turns'[session[q]][i] = Reply(p)
             PROVE  \/ Reply(p) \in seen[q] \/ Len(turns'[session[q]]) - i >= Window
                    \/ <<"history", q>> \in faults'
  BY DEF Shown, Planning, Follows, Reply
<1>1. session[q] \in Requests
  BY DEF TypeOK
<1>2. Reply(p).of = p
  BY TurnsOf
<1>3. i \in 1..Len(turns[session[q]]) /\ turns[session[q]][i] = Reply(p)
  BY <1>1, <1>2 DEF OnlyOthers
<1>4. \/ Reply(p) \in seen[q] \/ Len(turns[session[q]]) - i >= Window
      \/ <<"history", q>> \in faults
  BY <1>3 DEF Shown, Planning, Follows
<1>5. /\ Len(turns[session[q]]) \in Nat /\ Len(turns'[session[q]]) \in Nat
      /\ Len(turns[session[q]]) <= Len(turns'[session[q]])
  BY <1>1 DEF OnlyOthers
<1>6. Len(turns[session[q]]) - i >= Window => Len(turns'[session[q]]) - i >= Window
  BY <1>5, TurnAssumption
<1> QED BY <1>4, <1>6

LEMMA StoredStays ==
  ASSUME TypeOK, NEW q \in Requests, OnlyOthers({q}), faults \subseteq faults',
         session'[q] = session[q], session[q] \in stored' => session[q] \in stored,
         ReplyStored(q)
  PROVE  ReplyStored(q)'
<1>1. CASE <<"reply", q>> \in faults \/ session[q] \notin stored
  BY <1>1 DEF ReplyStored
<1>2. CASE \E i \in 1..Len(turns[session[q]]) :
             /\ turns[session[q]][i] = Reply(q)
             /\ \A j \in 1..Len(turns[session[q]]) :
                  /\ turns[session[q]][j] = Reply(q) => j = i
                  /\ turns[session[q]][j] = User(q) => j < i
  <2>1. PICK i \in 1..Len(turns[session[q]]) :
             /\ turns[session[q]][i] = Reply(q)
             /\ \A j \in 1..Len(turns[session[q]]) :
                  /\ turns[session[q]][j] = Reply(q) => j = i
                  /\ turns[session[q]][j] = User(q) => j < i
    BY <1>2
  <2>2. session[q] \in Requests /\ Reply(q).of = q /\ User(q).of = q
    BY TurnsOf DEF TypeOK
  <2>3. i \in 1..Len(turns'[session[q]]) /\ turns'[session[q]][i] = Reply(q)
    BY <2>1, <2>2 DEF OnlyOthers
  <2>4. ASSUME NEW j \in 1..Len(turns'[session[q]]),
               turns'[session[q]][j] = Reply(q) \/ turns'[session[q]][j] = User(q)
        PROVE  j \in 1..Len(turns[session[q]]) /\ turns[session[q]][j] = turns'[session[q]][j]
    <3>1. turns'[session[q]][j].of = q
      BY <2>2, <2>4
    <3> QED BY <2>2, <3>1 DEF OnlyOthers
  <2>5. \A j \in 1..Len(turns'[session[q]]) :
          /\ turns'[session[q]][j] = Reply(q) => j = i
          /\ turns'[session[q]][j] = User(q) => j < i
    BY <2>1, <2>4
  <2> QED BY <2>3, <2>5 DEF ReplyStored, Reply, User
<1> QED BY <1>1, <1>2 DEF ReplyStored

LEMMA ToldStays ==
  ASSUME TypeOK, NEW q \in Requests, OnlyOthers({q}), StoreGrows, Told1st(q),
         pc[q] \in Told => pc'[q] \in Told /\ plan'[q] = plan[q]
  PROVE  Told1st(q)'
<1> SUFFICES ASSUME NEW s \in Requests, NEW i \in 1..Len(turns'[s]), turns'[s][i] = Reply(q)
             PROVE  pc'[q] \in Told /\ (plan'[q] # "blocked" => Wrote(s, q)')
  BY DEF Told1st, InTranscript, Reply
<1>1. Reply(q).of = q
  BY TurnsOf
<1>2. i \in 1..Len(turns[s]) /\ turns[s][i] = Reply(q)
  BY <1>1 DEF OnlyOthers
<1>3. pc[q] \in Told /\ (plan[q] # "blocked" => Wrote(s, q))
  BY <1>2 DEF Told1st, InTranscript
<1>4. Wrote(s, q) => Wrote(s, q)'
  BY WroteStays DEF StoreGrows
<1> QED BY <1>3, <1>4

(* Where a request has had its session, no row of it turns up.             *)
LEMMA BackedStays ==
  ASSUME TypeOK, NEW q \in Requests, StoreGrows, session'[q] = session[q],
         session[q] \in stored' => session[q] \in stored, Backed(q),
         pc'[q] = "reply" /\ plan'[q] # "blocked" => pc[q] = "reply" /\ plan[q] # "blocked"
  PROVE  Backed(q)'
<1>1. session[q] \in Requests
  BY DEF TypeOK
<1>2. Wrote(session[q], q) => Wrote(session[q], q)'
  BY <1>1, WroteStays DEF StoreGrows
<1> SUFFICES ASSUME pc'[q] = "reply", plan'[q] # "blocked", session'[q] \in stored'
             PROVE  Wrote(session[q], q)'
  BY DEF Backed, Wrote
<1> QED BY <1>2 DEF Backed

(* What a step of somebody else, or a crash, leaves of q's answer.         *)
LEMMA OthersStay ==
  ASSUME TypeOK, ContextInv, NEW q \in Requests, Answer(q), StoreGrows,
         OnlyOthers({q} \cup before[q]), stored \subseteq stored',
         pc[q] # "idle" /\ session[q] \in stored' => session[q] \in stored,
         pc'[q] = pc[q] \/ (pc[q] \notin Resting /\ pc'[q] = "lost"),
         session'[q] = session[q], before'[q] = before[q], seen'[q] = seen[q],
         plan'[q] = plan[q], ended'[q] = ended[q]
  PROVE  Answer(q)'
<1>1. OnlyOthers({q}) /\ OnlyOthers(before[q])
  BY DEF OnlyOthers
<1>2. pc'[q] = pc[q] \/ pc'[q] = "lost"
  OBVIOUS
<1>3. pc[q] = "idle" <=> pc'[q] = "idle"
  BY DEF Resting
<1>4. Home(q)'
  BY <1>3 DEF Home, Answer
<1>5. Unblocked(q)'
  BY <1>2 DEF Unblocked, Answer
<1>6. Backed(q)'
  <2>1. CASE pc'[q] = "reply"
    BY <1>2, <2>1, BackedStays DEF Answer
  <2>2. CASE pc'[q] # "reply"
    BY <2>2 DEF Backed
  <2> QED BY <2>1, <2>2
<1>7. Told1st(q)'
  BY <1>1, <1>2, ToldStays DEF Answer, Told
<1>8. Kept(q)'
  <2> SUFFICES ASSUME pc'[q] = "finish" \/ ended'[q] = "final" PROVE ReplyStored(q)'
    BY DEF Kept
  <2>1. pc[q] # "idle" /\ (pc[q] = "finish" \/ ended[q] = "final")
    BY <1>2 DEF ContextInv
  <2>2. ReplyStored(q)
    BY <2>1 DEF Answer, Kept
  <2> QED BY <1>1, <2>1, <2>2, StoredStays DEF StoreGrows
<1>9. Shown(q)'
  BY <1>1, <1>2, ShownStays DEF Answer, Planning, StoreGrows
<1> QED BY <1>4, <1>5, <1>6, <1>7, <1>8, <1>9 DEF Answer

LEMMA BeginAnswer ==
  ASSUME TypeOK, ContextInv, AnswerInv, NEW r \in Requests, Begin(r) PROVE AnswerInv'
<1>1. /\ \A q \in Requests : q # r => pc'[q] = pc[q]
      /\ pc[r] = "idle" /\ pc'[r] = "user" /\ UNCHANGED <<ended, writes, turns, plan, seen>>
      /\ stored \subseteq stored' /\ stored' \subseteq stored \cup {r} /\ faults \subseteq faults'
  BY BeginMoves DEF Begin, Create, Resume, Fault, store
<1>2. \A q \in Requests : q # r => before'[q] = before[q] /\ session'[q] = session[q]
  BY DEF Begin, Create, Resume, TypeOK
<1>3. session'[r] = r \/ session'[r] \in stored
  BY DEF Begin, Create, Resume, TypeOK
<1>4. StoreGrows /\ OnlyOthers(Requests)
  BY <1>1, NoTurn DEF StoreGrows
<1>5. ASSUME NEW q \in Requests, q # r PROVE Answer(q)'
  <2>1. Answer(q) /\ before[q] \subseteq Requests
    BY DEF AnswerInv, TypeOK
  <2>2. pc[q] # "idle" /\ session[q] \in stored' => session[q] \in stored
    BY <1>1, <1>5, <2>1 DEF Answer, Home
  <2>3. OnlyOthers({q} \cup before[q])
    BY <1>1, NoTurn
  <2> QED BY <1>1, <1>2, <1>4, <1>5, <2>1, <2>2, <2>3, OthersStay
<1>6. Answer(r)'
  <2>1. Home(r)' /\ Unblocked(r)' /\ Backed(r)' /\ Shown(r)'
    BY <1>1, <1>3 DEF Home, Unblocked, Backed, Shown
  <2>2. Answer(r) /\ OnlyOthers({r})
    BY <1>1, NoTurn DEF AnswerInv
  <2>3. Told1st(r)'
    BY <1>1, <1>4, <2>2, ToldStays DEF Answer, Told
  <2>4. Kept(r)'
    BY <1>1 DEF Kept, ContextInv
  <2> QED BY <2>1, <2>3, <2>4 DEF Answer
<1> QED BY <1>5, <1>6 DEF AnswerInv

LEMMA CrashAnswer == ASSUME TypeOK, ContextInv, AnswerInv, Crash PROVE AnswerInv'
<1> SUFFICES ASSUME NEW q \in Requests PROVE Answer(q)'
  BY DEF AnswerInv
<1>1. StoreGrows /\ UNCHANGED <<stored, turns, local>>
  BY DEF Crash, store, StoreGrows
<1>2. OnlyOthers({q} \cup before[q])
  BY <1>1, NoTurn
<1>3. pc'[q] = pc[q] \/ (pc[q] \notin Resting /\ pc'[q] = "lost")
  BY DEF Crash, TypeOK
<1> QED BY <1>1, <1>2, <1>3, OthersStay DEF AnswerInv, local

(* What every step of a running request leaves alone.                      *)
LEMMA ContinueFrame ==
  ASSUME TypeOK, NEW r \in Requests, Continue(r)
  PROVE  /\ StoreGrows /\ UNCHANGED <<stored, session, before>>
         /\ \A q \in Requests : q # r =>
              pc'[q] = pc[q] /\ plan'[q] = plan[q] /\ seen'[q] = seen[q] /\ ended'[q] = ended[q]
         /\ \E t \in Turn : t.of = r /\ \A s \in Requests : GrownBy(t, s)
<1>1. UNCHANGED <<stored, session, before>>
  BY DEF Continue, AppendUserTurn, GetRecentTurns, PlanNextStep, RunToolsAndCompose, UpdateContext,
     AppendReplyTurn, Finish, Error, End, store, local
<1>2. \A q \in Requests : q # r => pc'[q] = pc[q]
  BY ContinueMoves
<1>3. \A q \in Requests : q # r => plan'[q] = plan[q]
  BY DEF Continue, AppendUserTurn, GetRecentTurns, PlanNextStep, PlanParses, PlanUnreadable, PlanMistyped,
     Planned, RunToolsAndCompose, UpdateContext, AppendReplyTurn, Finish, Error, End, local, TypeOK
<1>4. \A q \in Requests : q # r => seen'[q] = seen[q]
  BY DEF Continue, AppendUserTurn, GetRecentTurns, PlanNextStep, RunToolsAndCompose, UpdateContext,
     AppendReplyTurn, Finish, Error, End, local, TypeOK
<1>5. \A q \in Requests : q # r => ended'[q] = ended[q]
  BY DEF Continue, AppendUserTurn, GetRecentTurns, PlanNextStep, RunToolsAndCompose, UpdateContext,
     AppendReplyTurn, Finish, Error, End, local, TypeOK
<1>6. faults \subseteq faults'
  BY DEF Continue, AppendUserTurn, GetRecentTurns, PlanNextStep, RunToolsAndCompose, UpdateContext,
     AppendReplyTurn, AppendTurn, Finish, Error, End, Fault
<1>7. \A s \in Requests : writes'[s] = writes[s] \/ \E x \in Requests : writes'[s] = Append(writes[s], x)
  <2>1. CASE UpdateContext(r)
    BY <2>1 DEF UpdateContext, TypeOK
  <2>2. CASE UNCHANGED writes
    BY <2>2
  <2> QED BY <2>1, <2>2 DEF Continue, AppendUserTurn, GetRecentTurns, PlanNextStep, RunToolsAndCompose,
            AppendReplyTurn, Finish, Error, End, store
<1>8. /\ User(r) \in Turn /\ Reply(r) \in Turn /\ User(r).of = r /\ Reply(r).of = r
  BY TurnsOf DEF User, Reply, Turn
<1>9. \E t \in Turn : t.of = r /\ \A s \in Requests : GrownBy(t, s)
  <2>1. CASE AppendUserTurn(r)
    BY <1>8, <2>1, AppendTurnGrows DEF AppendUserTurn
  <2>2. CASE AppendReplyTurn(r)
    BY <1>8, <2>2, AppendTurnGrows DEF AppendReplyTurn
  <2>3. CASE UNCHANGED turns
    BY <1>8, <2>3 DEF GrownBy
  <2> QED BY <2>1, <2>2, <2>3 DEF Continue, GetRecentTurns, PlanNextStep, RunToolsAndCompose, UpdateContext,
            Finish, Error, End, store
<1> QED BY <1>1, <1>2, <1>3, <1>4, <1>5, <1>6, <1>7, <1>9 DEF StoreGrows

(* Only AppendReplyTurn puts a request's reply in a transcript ...         *)
LEMMA OwnTranscript ==
  ASSUME TypeOK, NEW r \in Requests, Answer(r), Continue(r), ~AppendReplyTurn(r),
         pc[r] = "finish" => pc'[r] \in Told /\ plan'[r] = plan[r]
  PROVE  Told1st(r)'
<1>1. pc[r] \notin Resting /\ StoreGrows
  BY ContinueMoves, ContinueFrame
<1>2. ASSUME NEW s \in Requests, InTranscript(Reply(r), s)' PROVE InTranscript(Reply(r), s)
  <2>1. CASE AppendUserTurn(r)
    <3>1. User(r) \in Turn /\ User(r) # Reply(r)
      BY TurnsOf DEF User, Turn
    <3>2. GrownBy(User(r), s)
      BY <2>1, <3>1, AppendTurnGrows DEF AppendUserTurn
    <3>3. PICK i \in 1..Len(turns'[s]) : turns'[s][i] = Reply(r)
      BY <1>2 DEF InTranscript, Reply
    <3>4. i \in 1..Len(turns[s]) /\ turns[s][i] = Reply(r)
      BY <3>1, <3>2, <3>3, GrownTurns
    <3> QED BY <3>4 DEF InTranscript
  <2>2. CASE UNCHANGED turns
    BY <1>2, <2>2 DEF InTranscript, Reply
  <2> QED BY <2>1, <2>2 DEF Continue, GetRecentTurns, PlanNextStep, RunToolsAndCompose, UpdateContext,
            Finish, Error, End, store
<1> SUFFICES ASSUME NEW s \in Requests, InTranscript(Reply(r), s)'
             PROVE  pc'[r] \in Told /\ (plan'[r] # "blocked" => Wrote(s, r)')
  BY DEF Told1st, Reply
<1>3. pc[r] \in Told /\ (plan[r] # "blocked" => Wrote(s, r))
  BY <1>2 DEF Answer, Told1st
<1>4. pc'[r] \in Told /\ plan'[r] = plan[r]
  BY <1>1, <1>3 DEF Told, Resting
<1>5. Wrote(s, r) => Wrote(s, r)'
  BY <1>1, WroteStays DEF StoreGrows
<1> QED BY <1>3, <1>4, <1>5

(* ... where it is then the only one, at the end.                          *)
LEMMA ReplyTranscript ==
  ASSUME TypeOK, NEW r \in Requests, Answer(r), AppendReplyTurn(r)
  PROVE  Told1st(r)' /\ ReplyStored(r)'
<1>1. /\ pc[r] = "reply" /\ pc'[r] = "finish"
      /\ UNCHANGED <<stored, context, writes, local>> /\ faults \subseteq faults'
  BY AppendTurnGrows DEF AppendReplyTurn, Goto, TypeOK, Reply, Turn
<1>2. /\ \A s \in Requests : GrownBy(Reply(r), s) /\ (s # session[r] => turns'[s] = turns[s])
      /\ \/ <<"reply", r>> \in faults' \/ session[r] \notin stored
         \/ turns'[session[r]] = Append(turns[session[r]], Reply(r))
  BY AppendTurnGrows DEF AppendReplyTurn, Reply, Turn
<1>3. \A s \in Requests : ~InTranscript(Reply(r), s)
  BY <1>1 DEF Answer, Told1st, Told
<1>4. ASSUME NEW s \in Requests, InTranscript(Reply(r), s)'
      PROVE  s = session[r] /\ session[r] \in stored
  <2>1. InTranscript(Reply(r), s)' => turns'[s] # turns[s]
    BY <1>3 DEF InTranscript, Reply
  <2> QED BY <1>2, <1>4, <2>1 DEF GrownBy
<1>5. Told1st(r)'
  <2> SUFFICES ASSUME NEW s \in Requests, InTranscript(Reply(r), s)', plan[r] # "blocked"
               PROVE  Wrote(s, r)'
    BY <1>1 DEF Told1st, Told, Reply, local
  <2>1. Wrote(session[r], r) /\ s = session[r]
    BY <1>1, <1>4 DEF Answer, Backed
  <2> QED BY <1>1, <2>1, WroteStays
<1>6. ReplyStored(r)'
  <2>1. CASE <<"reply", r>> \in faults' \/ session[r] \notin stored
    BY <1>1, <2>1 DEF ReplyStored, local
  <2>2. CASE turns'[session[r]] = Append(turns[session[r]], Reply(r))
    <3>1. session[r] \in Requests /\ turns[session[r]] \in Seq(Turn) /\ Reply(r) \in Turn
      BY DEF TypeOK, Reply, Turn
    <3>2. /\ Len(turns[session[r]]) \in Nat /\ Len(turns'[session[r]]) = Len(turns[session[r]]) + 1
          /\ turns'[session[r]][Len(turns[session[r]]) + 1] = Reply(r)
          /\ \A j \in 1..Len(turns[session[r]]) : turns'[session[r]][j] = turns[session[r]][j]
      BY <2>2, <3>1
    <3>3. \A j \in 1..Len(turns[session[r]]) : turns'[session[r]][j] # Reply(r)
      BY <1>3, <3>1, <3>2 DEF InTranscript
    <3>4. User(r) # Reply(r)
      BY TurnsOf
    <3>5. \A j \in 1..Len(turns'[session[r]]) :
            /\ turns'[session[r]][j] = Reply(r) => j = Len(turns[session[r]]) + 1
            /\ turns'[session[r]][j] = User(r) => j < Len(turns[session[r]]) + 1
      BY <3>2, <3>3, <3>4
    <3>6. Len(turns[session[r]]) + 1 \in 1..Len(turns'[session[r]]) /\ session'[r] = session[r]
      BY <1>1, <3>2 DEF local
    <3> QED BY <3>2, <3>5, <3>6 DEF ReplyStored, User, Reply
  <2> QED BY <1>2, <2>1, <2>2
<1> QED BY <1>5, <1>6

LEMMA OwnHome == ASSUME TypeOK, NEW r \in Requests, Answer(r), Continue(r) PROVE Home(r)'
  BY ContinueMoves, ContinueFrame DEF Answer, Home, Resting

LEMMA OwnStays ==
  ASSUME TypeOK, ContextInv, NEW r \in Requests, Continue(r)
  PROVE  /\ StoreGrows /\ UNCHANGED <<stored, session, before>> /\ OnlyOthers(before[r])
         /\ ended[r] = "none" /\ r \notin before[r]
<1>1. ended[r] = "none" /\ r \notin before[r]
  BY ContinueMoves DEF ContextInv, Resting
<1> QED BY <1>1, ContinueFrame, OthersTurn

LEMMA UserTurnAnswer ==
  ASSUME TypeOK, ContextInv, NEW r \in Requests, Answer(r), AppendUserTurn(r) PROVE Answer(r)'
<1> USE DEF Continue
<1>1. /\ pc[r] = "user" /\ pc'[r] \in {"history", "reply"} /\ UNCHANGED ended
      /\ plan'[r] = "blocked" <=> pc'[r] = "reply"
  BY DEF AppendUserTurn, Goto, TypeOK
<1>2. Home(r)' /\ ended[r] = "none"
  BY OwnHome, OwnStays
<1>3. Unblocked(r)' /\ Backed(r)' /\ Shown(r)'
  BY <1>1 DEF Unblocked, Backed, Shown
<1>4. Kept(r)'
  BY <1>1, <1>2 DEF Kept
<1>5. Told1st(r)'
  <2>1. ~AppendReplyTurn(r)
    BY <1>1 DEF AppendReplyTurn, Goto
  <2> QED BY <1>1, <2>1, OwnTranscript
<1> QED BY <1>2, <1>3, <1>4, <1>5 DEF Answer

LEMMA HistoryAnswer ==
  ASSUME TypeOK, ContextInv, NEW r \in Requests, Answer(r), GetRecentTurns(r) PROVE Answer(r)'
<1> USE DEF Continue
<1>1. /\ pc[r] = "history" /\ pc'[r] = "plan" /\ UNCHANGED <<turns, session, before, plan, ended>>
  BY DEF GetRecentTurns, Goto, TypeOK, store
<1>2. Home(r)' /\ ended[r] = "none"
  BY OwnHome, OwnStays
<1>3. Unblocked(r)' /\ Backed(r)' /\ Kept(r)'
  BY <1>1, <1>2 DEF Answer, Unblocked, Backed, Kept
<1>4. Told1st(r)'
  <2>1. ~AppendReplyTurn(r)
    BY <1>1 DEF AppendReplyTurn, Goto
  <2> QED BY <1>1, <2>1, OwnTranscript
<1>5. Shown(r)'
  <2>1. CASE seen' = [seen EXCEPT ![r] = LastTurns(session[r])]
    <3> SUFFICES ASSUME NEW p \in before[r], NEW i \in 1..Len(turns[session[r]]),
                        turns[session[r]][i] = Reply(p)
                 PROVE  Reply(p) \in LastTurns(session[r]) \/ Len(turns[session[r]]) - i >= Window
      BY <1>1, <2>1 DEF Shown, Follows, Reply, TypeOK
    <3>1. session[r] \in Requests /\ turns[session[r]] \in Seq(Turn)
      BY DEF TypeOK
    <3>2. Len(turns[session[r]]) \in Nat
      BY <3>1
    <3>3. i + Window > Len(turns[session[r]]) \/ Len(turns[session[r]]) - i >= Window
      BY <3>2, TurnAssumption
    <3> QED BY <3>3 DEF LastTurns
  <2>2. CASE Fault("history", r)
    BY <2>2 DEF Fault, Shown
  <2> QED BY <2>1, <2>2 DEF GetRecentTurns
<1> QED BY <1>2, <1>3, <1>4, <1>5 DEF Answer

(* PlanNextStep and RunToolsAndCompose.                                    *)
LEMMA WorkAnswer ==
  ASSUME TypeOK, ContextInv, NEW r \in Requests, Answer(r), PlanNextStep(r) \/ RunToolsAndCompose(r)
  PROVE  Answer(r)'
<1> USE DEF Continue
<1>1. /\ pc[r] \in {"plan", "work"} /\ pc'[r] \in {"plan", "work", "context", "error"}
      /\ UNCHANGED <<turns, session, before, seen, ended>>
      /\ pc[r] = "work" => pc'[r] # "plan" /\ UNCHANGED plan
      /\ plan'[r] = plan[r] \/ plan'[r] \in {"clarify", "respond", "work"}
  <2>1. CASE PlanNextStep(r)
    <3>1. pc[r] = "plan" /\ \E to \in {"plan", "work", "context", "error"} : pc' = [pc EXCEPT ![r] = to]
      BY <2>1 DEF PlanNextStep, PlanParses, PlanUnreadable, PlanMistyped, Planned, Goto
    <3>2. plan'[r] = plan[r] \/ plan'[r] \in {"clarify", "respond", "work"}
      BY <2>1 DEF PlanNextStep, PlanParses, PlanUnreadable, PlanMistyped, Planned, TypeOK
    <3> QED BY <2>1, <3>1, <3>2 DEF PlanNextStep, store, TypeOK
  <2>2. CASE RunToolsAndCompose(r)
    BY <2>2 DEF RunToolsAndCompose, Goto, store, local, TypeOK
  <2> QED BY <2>1, <2>2
<1>2. /\ Home(r)' /\ ended[r] = "none" /\ faults \subseteq faults' /\ OnlyOthers(before[r])
  BY OwnHome, OwnStays DEF StoreGrows
<1>3. Unblocked(r)'
  BY <1>1 DEF Answer, Unblocked
<1>4. Backed(r)' /\ Kept(r)'
  BY <1>1, <1>2 DEF Backed, Kept
<1>5. Told1st(r)'
  <2>1. ~AppendReplyTurn(r)
    BY <1>1 DEF AppendReplyTurn, Goto
  <2> QED BY <1>1, <2>1, OwnTranscript
<1>6. Shown(r)'
  <2>1. pc[r] \in Planning
    BY <1>1 DEF Planning, Labels
  <2>2. pc'[r] \in Planning /\ plan'[r] # "blocked" => plan[r] # "blocked"
    BY <1>1 DEF Answer, Unblocked
  <2> QED BY <1>1, <1>2, <2>1, <2>2, ShownStays DEF Answer
<1> QED BY <1>2, <1>3, <1>4, <1>5, <1>6 DEF Answer

LEMMA UpdateAnswer ==
  ASSUME TypeOK, ContextInv, NEW r \in Requests, Answer(r), UpdateContext(r) PROVE Answer(r)'
<1> USE DEF Continue
<1>1. /\ pc[r] = "context" /\ pc'[r] = "reply" /\ UNCHANGED <<stored, turns, local>>
  BY DEF UpdateContext, Goto, TypeOK
<1>2. Home(r)' /\ ended[r] = "none" /\ faults \subseteq faults' /\ OnlyOthers(before[r])
  BY OwnHome, OwnStays DEF StoreGrows
<1>3. Unblocked(r)' /\ Kept(r)'
  BY <1>1, <1>2 DEF Unblocked, Kept, local
<1>4. Backed(r)'
  <2>1. CASE session[r] \in stored /\ writes' = [writes EXCEPT ![session[r]] = Append(@, r)]
    <3>1. session[r] \in Requests /\ writes[session[r]] \in Seq(Requests)
      BY DEF TypeOK
    <3>2. writes'[session[r]] = Append(writes[session[r]], r)
      BY <2>1, <3>1 DEF TypeOK
    <3>3. /\ Len(writes[session[r]]) + 1 \in 1..Len(writes'[session[r]])
          /\ writes'[session[r]][Len(writes[session[r]]) + 1] = r
      BY <3>1, <3>2
    <3> QED BY <1>1, <3>3 DEF Backed, Wrote, local
  <2>2. CASE session[r] \notin stored
    BY <1>1, <2>2 DEF Backed, local
  <2>3. CASE Fault("context", r)
    BY <2>3 DEF Fault, Backed, Wrote
  <2> QED BY <2>1, <2>2, <2>3 DEF UpdateContext
<1>5. Told1st(r)'
  <2>1. ~AppendReplyTurn(r)
    BY <1>1 DEF AppendReplyTurn, Goto
  <2> QED BY <1>1, <2>1, OwnTranscript
<1>6. Shown(r)'
  <2>1. pc[r] \in Planning
    BY <1>1 DEF Planning, Labels
  <2> QED BY <1>1, <1>2, <2>1, ShownStays DEF Answer, local
<1> QED BY <1>2, <1>3, <1>4, <1>5, <1>6 DEF Answer

LEMMA ReplyAnswer ==
  ASSUME TypeOK, ContextInv, NEW r \in Requests, Answer(r), AppendReplyTurn(r) PROVE Answer(r)'
<1> USE DEF Continue
<1>1. pc[r] = "reply" /\ pc'[r] = "finish" /\ UNCHANGED local
  BY DEF AppendReplyTurn, Goto, TypeOK
<1>2. Home(r)' /\ faults \subseteq faults' /\ OnlyOthers(before[r])
  BY OwnHome, OwnStays DEF StoreGrows
<1>3. Unblocked(r)' /\ Backed(r)'
  BY <1>1 DEF Unblocked, Backed
<1>4. Told1st(r)' /\ Kept(r)'
  BY ReplyTranscript DEF Kept
<1>5. Shown(r)'
  <2>1. pc[r] \in Planning
    BY <1>1 DEF Planning, Labels
  <2> QED BY <1>1, <1>2, <2>1, ShownStays DEF Answer, local
<1> QED BY <1>2, <1>3, <1>4, <1>5 DEF Answer

LEMMA EndAnswer ==
  ASSUME TypeOK, ContextInv, NEW r \in Requests, Answer(r), Finish(r) \/ Error(r) PROVE Answer(r)'
<1> USE DEF Continue
<1>1. /\ pc'[r] = "done" /\ UNCHANGED <<store, faults, session, before, seen, plan>>
      /\ \/ pc[r] = "finish" /\ ended'[r] = "final"
         \/ pc[r] = "error" /\ ended'[r] = "error"
  BY DEF Finish, Error, End, Goto, TypeOK
<1>2. Home(r)' /\ OnlyOthers(before[r])
  BY OwnHome, OwnStays
<1>3. Unblocked(r)' /\ Backed(r)'
  BY <1>1 DEF Unblocked, Backed
<1>4. Told1st(r)'
  <2>1. ~AppendReplyTurn(r)
    BY <1>1 DEF AppendReplyTurn, Goto
  <2> QED BY <1>1, <2>1, OwnTranscript DEF Told
<1>5. Kept(r)'
  <2>1. ReplyStored(r) => ReplyStored(r)'
    BY <1>1 DEF ReplyStored, store, Reply, User
  <2> QED BY <1>1, <2>1 DEF Answer, Kept
<1>6. Shown(r)'
  <2>1. pc[r] \in Planning
    BY <1>1 DEF Planning, Labels
  <2> QED BY <1>1, <1>2, <2>1, ShownStays DEF Answer
<1> QED BY <1>2, <1>3, <1>4, <1>5, <1>6 DEF Answer

LEMMA AnswerStep == ASSUME TypeOK, ContextInv, AnswerInv, [Next]_vars PROVE AnswerInv'
<1>1. CASE UNCHANGED vars
  <2> SUFFICES ASSUME NEW q \in Requests PROVE Answer(q)'
    BY DEF AnswerInv
  <2>1. OnlyOthers({q} \cup before[q]) /\ StoreGrows
    BY <1>1, NoTurn DEF vars, store, StoreGrows
  <2> QED BY <1>1, <2>1, OthersStay DEF vars, store, local, AnswerInv
<1>2. ASSUME NEW r \in Requests, Begin(r) PROVE AnswerInv'
  BY <1>2, BeginAnswer
<1>3. ASSUME NEW r \in Requests, Continue(r) PROVE AnswerInv'
  <2>1. ASSUME NEW q \in Requests, q # r PROVE Answer(q)'
    <3>1. /\ StoreGrows /\ UNCHANGED <<stored, session, before>>
          /\ pc'[q] = pc[q] /\ plan'[q] = plan[q] /\ seen'[q] = seen[q] /\ ended'[q] = ended[q]
      BY <1>3, <2>1, ContinueFrame
    <3>2. r \notin before[q]
      BY <1>3, ContinueMoves DEF ContextInv, Resting
    <3>3. OnlyOthers({q} \cup before[q])
      BY <1>3, <2>1, <3>2, ContinueFrame, OthersTurn
    <3> QED BY <3>1, <3>3, OthersStay DEF AnswerInv
  <2>2. Answer(r)'
    BY <1>3, UserTurnAnswer, HistoryAnswer, WorkAnswer, UpdateAnswer, ReplyAnswer, EndAnswer
       DEF AnswerInv, Continue
  <2> QED BY <2>1, <2>2 DEF AnswerInv
<1>4. CASE Crash
  BY <1>4, CrashAnswer
<1> QED BY <1>1, <1>2, <1>3, <1>4 DEF Next

LEMMA AnswersKept == Spec => [](TypeOK /\ ContextInv /\ AnswerInv)
<1>1. Init => TypeOK /\ AttemptInv /\ ContextInv /\ AnswerInv
  <2>1. Init => ContextInv
    BY DEF Init, ContextInv, ReadsEarlierContexts
  <2>2. Init => AnswerInv
    BY DEF Init, AnswerInv, Answer, Home, Unblocked, Backed, Told1st, Kept, Shown, InTranscript
  <2> QED BY <2>1, <2>2, InitType DEF Init, AttemptInv
<1>2. TypeOK /\ AttemptInv /\ ContextInv /\ AnswerInv /\ [Next]_vars
        => TypeOK' /\ AttemptInv' /\ ContextInv' /\ AnswerInv'
  BY NextType, AttemptStep, ContextStep, AnswerStep
<1> QED BY <1>1, <1>2, PTL DEF Spec

(* A reply the user was shown is in the transcript, once and after its     *)
(* question, through crashes and the turns of concurrent requests, unless  *)
(* the store refused it.                                                   *)
THEOREM AnswersAreStored == Spec => []ShownIsStored
<1>1. AnswerInv => ShownIsStored
  BY DEF AnswerInv, Answer, Kept, ReplyStored, ShownIsStored
<1> QED BY <1>1, AnswersKept, PTL

(* Every answer in a transcript has had its context written before it,     *)
(* unless UpdateContext failed: the order of the two store calls of        *)
(* ChatStream.                                                             *)
THEOREM AnswersHaveContext == Spec => []AnswerHasContext
<1>1. AnswerInv => AnswerHasContext
  BY DEF AnswerInv, Answer, Told1st, Wrote, AnswerHasContext
<1> QED BY <1>1, AnswersKept, PTL

(* A planner is shown the answers of the requests that had ended when its  *)
(* request began, or Window newer turns, or its history could not be read. *)
THEOREM EarlierAnswersAreRead == Spec => []ReadsEarlierAnswers
<1>1. AnswerInv => ReadsEarlierAnswers
  BY DEF AnswerInv, Answer, Shown, ReadsEarlierAnswers
<1> QED BY <1>1, AnswersKept, PTL
=============================================================================
