------------------------------ MODULE ChatTurn ------------------------------
(***************************************************************************)
(* AgentOrchestrator::ChatStream and the session store it works on.        *)
(* Requests run concurrently, each on a thread of its own; the store       *)
(* serialises single operations (one mutex) and nothing else, so the steps *)
(* of two requests on one session interleave between any two operations.   *)
(*                                                                         *)
(* A session is named by the request that creates it.  A turn is a record  *)
(* of its role and its request.  The slots of a session are abstracted to  *)
(* the requests whose wishes they hold: a planner that follows its prompt  *)
(* returns the slots it was given merged with the message, any other plan  *)
(* (FALLBACK, small talk) returns none.                                    *)
(*                                                                         *)
(* Any operation of the SQLite store may fail (SQLITE_BUSY: the profile    *)
(* store writes the same file through a connection of its own).  The       *)
(* orchestrator drops the Status of AppendTurn and UpdateContext.  faults  *)
(* records what failed, at most MaxFaults times.  The process may be       *)
(* killed, at most MaxCrashes times: the requests that ran are lost, what  *)
(* was stored stays.                                                       *)
(***************************************************************************)
EXTENDS Naturals, Sequences, FiniteSets

CONSTANTS Requests,    \* calls of /v1/chat and /v1/chat/stream
          Window,      \* turns GetRecentTurns returns at most (10)
          MaxFaults,   \* store operations that fail
          MaxCrashes   \* times the process is killed

ASSUME TurnAssumption == Window \in Nat \ {0} /\ MaxFaults \in Nat /\ MaxCrashes \in Nat

VARIABLES stored,     \* sessions that have a row
          turns,      \* the turns of each session, oldest first
          context,    \* state and slots of each session
          faults,     \* operations that failed, as <<operation, request>>
          crashes,    \* times the process was killed
          pc,         \* where each request is
          session,    \* session.session_id
          slots,      \* session.context, then plan.slots
          plan,       \* plan.next_state, or that the input guard blocked the message
          ended,      \* the event that ended the request: none, final or error
          unaudited,  \* LLM calls made that have not joined the request's audit
          before,     \* history: the requests that had ended when this one began
          read,       \* history: the context writes this request had seen
          seen,       \* history: the turns GetRecentTurns returned
          writes      \* history: who wrote the context of each session, in order

store == <<stored, turns, context, writes>>
local == <<session, slots, plan, ended, unaudited, before, read, seen>>
vars == <<store, faults, crashes, pc, local>>

Turn == [role : {"user", "assistant"}, of : Requests]
User(r) == [role |-> "user", of |-> r]
Reply(r) == [role |-> "assistant", of |-> r]

Plans == {"none", "blocked", "clarify", "respond", "work"}
States == {"SLOT_FILL", "RESPOND"}
Operations == {"session", "user", "history", "context", "reply"}
Labels == {"idle", "user", "history", "plan", "work", "context", "reply", "finish",
           "error", "done", "lost"}
Resting == {"idle", "done", "lost"}

TypeOK ==
  /\ stored \subseteq Requests
  /\ turns \in [Requests -> Seq(Turn)]
  /\ context \in [Requests -> [state : States, slots : SUBSET Requests]]
  /\ faults \subseteq Operations \X Requests
  /\ crashes \in 0..MaxCrashes
  /\ pc \in [Requests -> Labels]
  /\ session \in [Requests -> Requests]
  /\ slots \in [Requests -> SUBSET Requests]
  /\ plan \in [Requests -> Plans]
  /\ ended \in [Requests -> {"none", "final", "error"}]
  /\ unaudited \in [Requests -> 0..2]
  /\ before \in [Requests -> SUBSET Requests]
  /\ read \in [Requests -> Nat]
  /\ seen \in [Requests -> SUBSET Turn]
  /\ writes \in [Requests -> Seq(Requests)]

Init ==
  /\ stored = {}
  /\ turns = [s \in Requests |-> <<>>]
  /\ context = [s \in Requests |-> [state |-> "SLOT_FILL", slots |-> {}]]
  /\ faults = {} /\ crashes = 0
  /\ pc = [r \in Requests |-> "idle"]
  /\ session = [r \in Requests |-> r]
  /\ slots = [r \in Requests |-> {}]
  /\ plan = [r \in Requests |-> "none"]
  /\ ended = [r \in Requests |-> "none"]
  /\ unaudited = [r \in Requests |-> 0]
  /\ before = [r \in Requests |-> {}]
  /\ read = [r \in Requests |-> 0]
  /\ seen = [r \in Requests |-> {}]
  /\ writes = [s \in Requests |-> <<>>]

Goto(r, from, to) == pc[r] = from /\ pc' = [pc EXCEPT ![r] = to]

Fault(op, r) ==
  /\ Cardinality(faults) < MaxFaults
  /\ faults' = faults \cup {<<op, r>>}
-----------------------------------------------------------------------------
(* GetOrCreateSession finds the row of the id the client sent ...          *)
Resume(r, s) ==
  /\ Goto(r, "idle", "user")
  /\ s \in stored
  /\ session' = [session EXCEPT ![r] = s]
  /\ slots' = [slots EXCEPT ![r] = context[s].slots]
  /\ read' = [read EXCEPT ![r] = Len(writes[s])]
  /\ before' = [before EXCEPT ![r] = {q \in Requests : ended[q] # "none"}]
  /\ UNCHANGED <<store, faults, crashes, plan, ended, unaudited, seen>>

(* ... and otherwise (no id, an unknown id, a failed SELECT) makes a new   *)
(* session, which it returns even if the row could not be inserted.        *)
Create(r) ==
  /\ Goto(r, "idle", "user")
  /\ \/ stored' = stored \cup {r} /\ UNCHANGED faults
     \/ Fault("session", r) /\ UNCHANGED stored
  /\ session' = [session EXCEPT ![r] = r]
  /\ before' = [before EXCEPT ![r] = {q \in Requests : ended[q] # "none"}]
  /\ UNCHANGED <<turns, context, writes, crashes, slots, plan, ended, unaudited, read, seen>>

(* AppendTurn: without a session row the foreign key rejects the turn.     *)
AppendTurn(r, op, turn) ==
  \/ /\ turns' = IF session[r] \in stored
                 THEN [turns EXCEPT ![session[r]] = Append(@, turn)]
                 ELSE turns
     /\ UNCHANGED faults
  \/ Fault(op, r) /\ UNCHANGED turns

(* Mutant: the refusal is not recorded.                                    *)
RefuseUnrecorded(r) ==
  /\ \E p \in {"none", "blocked"} :
       /\ Goto(r, "user", IF p = "blocked" THEN "finish" ELSE "history")
       /\ plan' = [plan EXCEPT ![r] = p]
  /\ AppendTurn(r, "user", User(r))
  /\ UNCHANGED <<stored, context, writes, crashes, session, slots, ended, unaudited, before, read, seen>>

(* The input guard and the user turn.  A blocked message is recorded too,  *)
(* then answered with the refusal.                                         *)
AppendUserTurn(r) ==
  /\ \E p \in {"none", "blocked"} :
       /\ Goto(r, "user", IF p = "blocked" THEN "reply" ELSE "history")
       /\ plan' = [plan EXCEPT ![r] = p]
  /\ AppendTurn(r, "user", User(r))
  /\ UNCHANGED <<stored, context, writes, crashes, session, slots, ended, unaudited, before, read, seen>>

(* Mutant: the window is one turn short.                                   *)
OneTurnShort(s) ==
  {turns[s][i] : i \in {j \in 1..Len(turns[s]) : j + Window > Len(turns[s]) + 1}}

LastTurns(s) ==
  {turns[s][i] : i \in {j \in 1..Len(turns[s]) : j + Window > Len(turns[s])}}

GetRecentTurns(r) ==
  /\ Goto(r, "history", "plan")
  /\ \/ seen' = [seen EXCEPT ![r] = LastTurns(session[r])] /\ UNCHANGED faults
     \/ Fault("history", r) /\ UNCHANGED seen
  /\ UNCHANGED <<store, crashes, session, slots, plan, ended, unaudited, before, read>>
-----------------------------------------------------------------------------
(* Mutant: a clarifying question does not save the slots it has so far.    *)
ClarifyUnsaved(r, p, filled) ==
  /\ Goto(r, "plan", IF p = "work" THEN "work" ELSE IF p = "clarify" THEN "reply" ELSE "context")
  /\ plan' = [plan EXCEPT ![r] = p]
  /\ slots' = [slots EXCEPT ![r] = filled]
  /\ unaudited' = [unaudited EXCEPT ![r] = 0]

(* PlanNextStep, one LLM call per step: a plan that does not parse is      *)
(* asked for once more, then replaced by FALLBACK, which takes the work    *)
(* path with no tool calls.  The calls join the audit when the plan        *)
(* returns.                                                                *)
Planned(r, p, filled) ==
  /\ Goto(r, "plan", IF p = "work" THEN "work" ELSE "context")
  /\ plan' = [plan EXCEPT ![r] = p]
  /\ slots' = [slots EXCEPT ![r] = filled]
  /\ unaudited' = [unaudited EXCEPT ![r] = 0]

PlanParses(r) ==
  \E p \in {"clarify", "respond", "work"}, filled \in {slots[r] \cup {r}, {}} :
    Planned(r, p, filled)

(* Mutant: one attempt too many.                                           *)
ThirdAttempt(r) ==
  \/ /\ unaudited[r] <= 1
     /\ Goto(r, "plan", "plan")
     /\ unaudited' = [unaudited EXCEPT ![r] = @ + 1]
     /\ UNCHANGED <<plan, slots>>
  \/ /\ unaudited[r] = 2
     /\ Planned(r, "work", {})

PlanUnreadable(r) ==
  \/ /\ unaudited[r] = 0
     /\ Goto(r, "plan", "plan")
     /\ unaudited' = [unaudited EXCEPT ![r] = 1]
     /\ UNCHANGED <<plan, slots>>
  \/ /\ unaudited[r] = 1
     /\ Planned(r, "work", {})

(* A plan whose fields have the wrong type makes ApplyPlanJson throw.      *)
PlanMistyped(r) ==
  /\ Goto(r, "plan", "error")
  /\ unaudited' = [unaudited EXCEPT ![r] = @ + 1]
  /\ UNCHANGED <<plan, slots>>

PlanNextStep(r) ==
  /\ PlanParses(r) \/ PlanUnreadable(r) \/ PlanMistyped(r)
  /\ UNCHANGED <<store, faults, crashes, session, ended, before, read, seen>>

(* The tool calls, the mapping of their items, which throws when a field   *)
(* has the wrong type, and the composer, which catches what it meets and   *)
(* has its LLM call audited.                                               *)
RunToolsAndCompose(r) ==
  /\ Goto(r, "work", "context") \/ Goto(r, "work", "error")
  /\ UNCHANGED <<store, faults, crashes, local>>

StateAfter(p) == IF p = "clarify" THEN "SLOT_FILL" ELSE "RESPOND"

(* Mutant: waits for the session to have a row.                            *)
UpdateExistingOnly(r) ==
  /\ Goto(r, "context", "reply")
  /\ \/ /\ session[r] \in stored
        /\ context' = [context EXCEPT ![session[r]] = [state |-> StateAfter(plan[r]), slots |-> slots[r]]]
        /\ writes' = [writes EXCEPT ![session[r]] = Append(@, r)]
        /\ UNCHANGED faults
     \/ Fault("context", r) /\ UNCHANGED <<context, writes>>
  /\ UNCHANGED <<stored, turns, crashes, local>>

UpdateContext(r) ==
  /\ Goto(r, "context", "reply")
  /\ \/ /\ session[r] \in stored
        /\ context' = [context EXCEPT ![session[r]] = [state |-> StateAfter(plan[r]), slots |-> slots[r]]]
        /\ writes' = [writes EXCEPT ![session[r]] = Append(@, r)]
        /\ UNCHANGED faults
     \/ session[r] \notin stored /\ UNCHANGED <<context, writes, faults>>
     \/ Fault("context", r) /\ UNCHANGED <<context, writes>>
  /\ UNCHANGED <<stored, turns, crashes, local>>

AppendReplyTurn(r) ==
  /\ Goto(r, "reply", "finish")
  /\ AppendTurn(r, "reply", Reply(r))
  /\ UNCHANGED <<stored, context, writes, crashes, local>>

(* The event that ends the stream, or the JSON response.  The rows of the  *)
(* observability store, a database of its own, follow.                     *)
End(r, from, event) ==
  /\ Goto(r, from, "done")
  /\ ended' = [ended EXCEPT ![r] = event]
  /\ UNCHANGED <<store, faults, crashes, session, slots, plan, unaudited, before, read, seen>>

(* Mutant: the final event goes out before the turn is saved.              *)
FinishBeforeSaving(r) ==
  \/ End(r, "finish", "final")
  \/ /\ pc[r] = "context" /\ ended[r] = "none"
     /\ ended' = [ended EXCEPT ![r] = "final"]
     /\ UNCHANGED <<store, faults, crashes, pc, session, slots, plan, unaudited, before, read, seen>>

Finish(r) == End(r, "finish", "final")
Error(r) == End(r, "error", "error")

Crash ==
  /\ crashes < MaxCrashes
  /\ crashes' = crashes + 1
  /\ pc' = [r \in Requests |-> IF pc[r] \in Resting THEN pc[r] ELSE "lost"]
  /\ UNCHANGED <<store, faults, local>>
-----------------------------------------------------------------------------
Begin(r) == Create(r) \/ \E s \in Requests : Resume(r, s)

Continue(r) ==
  \/ AppendUserTurn(r) \/ GetRecentTurns(r) \/ PlanNextStep(r) \/ RunToolsAndCompose(r)
  \/ UpdateContext(r) \/ AppendReplyTurn(r) \/ Finish(r) \/ Error(r)

Next == (\E r \in Requests : Begin(r) \/ Continue(r)) \/ Crash

Spec == Init /\ [][Next]_vars

(* Every call a request makes returns: the LLM, the services and SQLite    *)
(* are called with timeouts or fail at once.                               *)
FairSpec == Spec /\ \A r \in Requests : WF_vars(Continue(r))
-----------------------------------------------------------------------------
InTranscript(turn, s) == \E i \in 1..Len(turns[s]) : turns[s][i] = turn
Follows(i, s) == Len(turns[s]) - i     \* turns of s after its i-th

(* What a client has been answered is there when it goes on: a request     *)
(* that begins after another one of its session ended plans with the       *)
(* context that one wrote, or a later one.                                 *)
ReadsEarlierContexts ==
  \A r \in Requests : pc[r] # "idle" =>
    \A q \in before[r] : \A i \in 1..Len(writes[session[r]]) :
      writes[session[r]][i] = q => i <= read[r]

(* ... and its planner is shown the other's answer, unless the history     *)
(* could not be read or Window newer turns crowd it out.                   *)
ReadsEarlierAnswers ==
  \A r \in Requests : pc[r] \in Labels \ {"idle", "user", "history", "lost"} /\ plan[r] # "blocked" =>
    \A q \in before[r] : \A i \in 1..Len(turns[session[r]]) :
      turns[session[r]][i] = Reply(q) =>
        Reply(q) \in seen[r] \/ Follows(i, session[r]) >= Window \/ <<"history", r>> \in faults

(* A reply that was shown to the user is in the transcript, once and after *)
(* its question, whatever happened to the process since, unless the store  *)
(* refused it.                                                             *)
ShownIsStored ==
  \A r \in Requests : ended[r] = "final" =>
    \/ <<"reply", r>> \in faults \/ session[r] \notin stored
    \/ \E i \in 1..Len(turns[session[r]]) :
         /\ turns[session[r]][i] = Reply(r)
         /\ \A j \in 1..Len(turns[session[r]]) :
              /\ turns[session[r]][j] = Reply(r) => j = i
              /\ turns[session[r]][j] = User(r) => j < i

(* A crash between UpdateContext and AppendTurn loses the answer, never    *)
(* the slots it was given for: the context of every answer in a transcript *)
(* was written.                                                            *)
AnswerHasContext ==
  \A s, r \in Requests : InTranscript(Reply(r), s) /\ plan[r] # "blocked" =>
    (\E i \in 1..Len(writes[s]) : writes[s][i] = r) \/ <<"context", r>> \in faults

(* Every request that begins is answered, or dies with the process.        *)
Terminates == \A r \in Requests : pc[r] = "user" ~> pc[r] \in {"done", "lost"}
=============================================================================
