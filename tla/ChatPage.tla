------------------------------ MODULE ChatPage ------------------------------
(***************************************************************************)
(* The page (web/app.js), the three POST handlers it calls and the threads *)
(* that serve them: what becomes of a message when its stream breaks, is   *)
(* stopped or is refused, and of a vote when its answer is lost.           *)
(*                                                                         *)
(* One page, which starts without a session: one that restores a session   *)
(* from an earlier visit is a page whose first message was answered and    *)
(* whose bubble is gone.  A message is asked by a stream request and, if   *)
(* that fails, once more by a single request.  A session is named by the   *)
(* request that created it and is always stored; what happens to a request *)
(* inside the orchestrator is module ChatTurn, what text a stream carries  *)
(* module ReplyStream.  The server's answer is chunked: a stream that ends *)
(* without its last chunk is an error to the reader.                       *)
(***************************************************************************)
EXTENDS Naturals, FiniteSets

CONSTANTS Pool,         \* threads that serve connections (4)
          NoRequest,    \* no request, no session, no trace
          MaxMessages,  \* bound: messages the user sends
          MaxPresses,   \* bound: times he presses the buttons of one reply
          MaxBreaks     \* bound: connections that break

Messages == 1..MaxMessages
Requests == Messages \X {"stream", "once"}

ASSUME PageAssumption ==
  /\ Pool \in Nat \ {0} /\ MaxMessages \in Nat /\ MaxPresses \in Nat /\ MaxBreaks \in Nat
  /\ NoRequest \notin Requests

VARIABLES at,         \* where each request is, on the server
          session,    \* the session_id it was sent with, then the one it works in
          held,       \* requests that hold a thread of the pool
          mode,       \* what the page is doing: streaming is mode # "ready"
          sent,       \* messages sent
          sessionId,  \* state.sessionId
          lastTrace,  \* state.lastTraceId
          events,     \* what has been read of the current stream: its last event
          final,      \* ctx.final
          error,      \* ctx.error is set
          shown,      \* the reply whose cards and buttons a message's bubble shows
          button,     \* those buttons: disabled while the vote is under way
          vote,       \* the vote that is under way
          pending,    \* votes the server has not handled
          rows,       \* the feedback table
          stopped,    \* history: messages the user stopped
          broken      \* history: messages one of whose connections broke; votes too

server == <<at, session, held>>
chat == <<mode, sent, sessionId, lastTrace, events, final, error, shown, stopped>>
feedback == <<vote, pending, rows>>
vars == <<server, chat, button, feedback, broken>>

Vote == [of : Messages, nth : 1..MaxPresses, session : Requests,
         trace : Requests \cup {NoRequest}]
Started == {"begun", "asked", "final", "error"}
Ended == {"final", "error"}

TypeOK ==
  /\ at \in [Requests -> {"none", "waiting", "refused"} \cup Started]
  /\ session \in [Requests -> Requests \cup {NoRequest}]
  /\ held \subseteq Requests /\ Cardinality(held) <= Pool
  /\ mode \in {"ready", "streaming", "falling back"}
  /\ sent \in 0..MaxMessages
  /\ sessionId \in Requests \cup {NoRequest} /\ lastTrace \in Requests \cup {NoRequest}
  /\ events \in {"none", "started", "last"}
  /\ final \in Requests \cup {NoRequest} /\ error \in BOOLEAN
  /\ shown \in [Messages -> Requests \cup {NoRequest}]
  /\ button \in [Messages -> {"none", "enabled", "disabled", "done"}]
  /\ vote \in [Messages -> 0..MaxPresses]
  /\ pending \subseteq Vote /\ rows \subseteq Vote
  /\ stopped \subseteq Messages
  /\ broken \subseteq Messages \X {"chat", "vote"} /\ Cardinality(broken) <= MaxBreaks

Init ==
  /\ at = [r \in Requests |-> "none"]
  /\ session = [r \in Requests |-> NoRequest]
  /\ held = {} /\ mode = "ready" /\ sent = 0
  /\ sessionId = NoRequest /\ lastTrace = NoRequest
  /\ events = "none" /\ final = NoRequest /\ error = FALSE
  /\ shown = [m \in Messages |-> NoRequest]
  /\ button = [m \in Messages |-> "none"]
  /\ vote = [m \in Messages |-> 0]
  /\ pending = {} /\ rows = {} /\ stopped = {} /\ broken = {}

Stream == <<sent, "stream">>   \* the requests of the message that was sent last
Once == <<sent, "once">>
Break(what) == Cardinality(broken) < MaxBreaks /\ broken' = broken \cup {<<sent, what>>}
-----------------------------------------------------------------------------
(* sendMessage.                                                            *)

Ask(r) ==
  /\ at' = [at EXCEPT ![r] = "waiting"]
  /\ session' = [session EXCEPT ![r] = sessionId]
  /\ UNCHANGED held

(* Mutant: the input is not locked while a reply is under way.             *)
SendAnyTime ==
  /\ sent < MaxMessages
  /\ sent' = sent + 1
  /\ mode' = "streaming"
  /\ Ask(<<sent + 1, "stream">>)
  /\ events' = "none" /\ final' = NoRequest /\ error' = FALSE
  /\ UNCHANGED <<sessionId, lastTrace, shown, stopped, button, feedback, broken>>

Send ==
  /\ mode = "ready" /\ sent < MaxMessages
  /\ sent' = sent + 1
  /\ mode' = "streaming"
  /\ Ask(<<sent + 1, "stream">>)
  /\ events' = "none" /\ final' = NoRequest /\ error' = FALSE
  /\ UNCHANGED <<sessionId, lastTrace, shown, stopped, button, feedback, broken>>

(* dispatchEvent.  Only the first event and the last matter here.          *)
ReadStarted ==
  /\ mode = "streaming" /\ events = "none" /\ at[Stream] \in Started
  /\ sessionId' = session[Stream]
  /\ events' = "started"
  /\ UNCHANGED <<server, mode, sent, lastTrace, final, error, shown, stopped, button,
                 feedback, broken>>

ReadLast ==
  /\ mode = "streaming" /\ events = "started" /\ at[Stream] \in Ended
  /\ events' = "last"
  /\ final' = IF at[Stream] = "final" THEN Stream ELSE final
  /\ error' = (at[Stream] = "error")
  /\ UNCHANGED <<server, mode, sent, sessionId, lastTrace, shown, stopped, button,
                 feedback, broken>>

(* finish: an error hides the cards of a reply that has arrived as well.   *)
Finish(f, e) ==
  /\ mode' = "ready"
  /\ \/ /\ ~e /\ lastTrace' = f
        /\ shown' = [shown EXCEPT ![sent] = f]
        /\ button' = [button EXCEPT ![sent] = "enabled"]
     \/ e /\ UNCHANGED <<lastTrace, shown, button>>
  /\ events' = "none" /\ final' = NoRequest /\ error' = FALSE
  /\ UNCHANGED <<sent, stopped, feedback>>

StreamEnds ==
  /\ mode = "streaming" /\ events = "last"
  /\ Finish(final, error)
  /\ UNCHANGED <<server, sessionId, broken>>

(* A stream that is refused or breaks, after its last event even, is       *)
(* followed by a request for the same message.                             *)
FallBack ==
  /\ mode = "streaming"
  /\ \/ at[Stream] = "refused" /\ UNCHANGED broken
     \/ Break("chat")
  /\ mode' = "falling back"
  /\ Ask(Once)
  /\ UNCHANGED <<sent, sessionId, lastTrace, events, final, error, shown, stopped, button,
                 feedback>>

(* Mutant: the session of the answer is not kept.                          *)
AnswerWithoutSession ==
  /\ mode = "falling back" /\ at[Once] \in Ended
  /\ Finish(Once, error)
  /\ UNCHANGED <<server, sessionId, broken>>

(* /v1/chat answers an error of the orchestrator with an apology and 200.  *)
(* ctx.error, if the stream had set it, is still set.                      *)
FallbackAnswer ==
  /\ mode = "falling back" /\ at[Once] \in Ended
  /\ sessionId' = session[Once]
  /\ Finish(Once, error)
  /\ UNCHANGED <<server, broken>>

FallbackFails ==
  /\ mode = "falling back"
  /\ \/ at[Once] = "refused" /\ UNCHANGED broken
     \/ Break("chat")
  /\ Finish(NoRequest, TRUE)
  /\ UNCHANGED <<server, sessionId>>

(* Mutant: an aborted stream counts as one that broke.                     *)
StopFallsBack ==
  /\ mode = "streaming"
  /\ mode' = "falling back"
  /\ stopped' = stopped \cup {sent}
  /\ Ask(Once)
  /\ UNCHANGED <<sent, sessionId, lastTrace, events, final, error, shown, button, feedback,
                 broken>>

(* The stop button: AbortError, which is not followed by another request.  *)
(* While the page falls back the button is there but aborts nothing.       *)
Stop ==
  /\ mode = "streaming"
  /\ mode' = "ready"
  /\ stopped' = stopped \cup {sent}
  /\ events' = "none" /\ final' = NoRequest /\ error' = FALSE
  /\ UNCHANGED <<server, sent, sessionId, lastTrace, shown, button, feedback, broken>>
-----------------------------------------------------------------------------
(* The server.  What waits gets a thread when one is free.                 *)

(* Mutant: a thread for every connection.                                 *)
AlwaysFree == TRUE

ThreadFree == Cardinality(held) < Pool

(* require_auth, require_quota.                                            *)
Refuse(r) ==
  /\ at[r] = "waiting" /\ ThreadFree
  /\ at' = [at EXCEPT ![r] = "refused"]
  /\ UNCHANGED <<session, held, chat, button, feedback, broken>>

(* GetOrCreateSession; "started" is sent.                                  *)
Begin(r) ==
  /\ at[r] = "waiting" /\ ThreadFree
  /\ at' = [at EXCEPT ![r] = "begun"]
  /\ session' = [session EXCEPT ![r] = IF @ = NoRequest THEN r ELSE @]
  /\ held' = held \cup {r}
  /\ UNCHANGED <<chat, button, feedback, broken>>

(* The user's turn is stored, then the reply's; the request may fail       *)
(* before each.                                                            *)
Advance(r) ==
  /\ \/ at[r] = "begun" /\ at' = [at EXCEPT ![r] = "asked"]
     \/ at[r] = "asked" /\ at' = [at EXCEPT ![r] = "final"]
     \/ at[r] \in {"begun", "asked"} /\ at' = [at EXCEPT ![r] = "error"]
  /\ UNCHANGED <<session, held, chat, button, feedback, broken>>

(* Mutant: a stream keeps its thread until somebody has read its end.      *)
ReleaseRead(r) ==
  /\ r \in held /\ at[r] \in Ended
  /\ mode = "streaming" /\ r = Stream
  /\ held' = held \ {r}
  /\ UNCHANGED <<at, session, chat, button, feedback, broken>>

(* The writer keeps its thread until the request has ended or a write      *)
(* fails because nobody listens any more.                                  *)
Release(r) ==
  /\ r \in held
  /\ \/ at[r] \in Ended
     \/ at[r] = "asked" /\ r[2] = "stream" /\ (mode # "streaming" \/ r # Stream)
  /\ held' = held \ {r}
  /\ UNCHANGED <<at, session, chat, button, feedback, broken>>

Serve(r) == Refuse(r) \/ Begin(r) \/ Advance(r) \/ Release(r)
-----------------------------------------------------------------------------
(* The buttons under a reply (sendFeedback).                               *)

Current(v) == v.nth = vote[v.of]

(* The session and the trace are those the page has at that time.          *)
Press(m) ==
  /\ button[m] = "enabled" /\ sessionId # NoRequest /\ vote[m] < MaxPresses
  /\ button' = [button EXCEPT ![m] = "disabled"]
  /\ vote' = [vote EXCEPT ![m] = @ + 1]
  /\ pending' = pending \cup
       {[of |-> m, nth |-> vote[m] + 1, session |-> sessionId, trace |-> lastTrace]}
  /\ UNCHANGED <<server, chat, rows, broken>>

(* POST /v1/feedback: refused, or stored.                                  *)
HandleVote(v) ==
  /\ v \in pending /\ ThreadFree
  /\ pending' = pending \ {v}
  /\ rows' = rows \cup {v} \/ UNCHANGED rows
  /\ UNCHANGED <<server, chat, button, vote, broken>>

(* Mutant: what the server answered is not looked at.                      *)
ThankAnyhow(m) ==
  /\ button[m] = "disabled"
  /\ ~\E v \in pending : v.of = m /\ Current(v)
  /\ button' = [button EXCEPT ![m] = "done"]
  /\ UNCHANGED <<server, chat, feedback, broken>>

VoteAnswered(m) ==
  /\ button[m] = "disabled"
  /\ ~\E v \in pending : v.of = m /\ Current(v)
  /\ button' = [button EXCEPT ![m] =
       IF \E v \in rows : v.of = m /\ Current(v) THEN "done" ELSE "enabled"]
  /\ UNCHANGED <<server, chat, feedback, broken>>

(* The connection breaks before the server has the vote, while it has it,  *)
(* or on the way back.                                                     *)
VoteFails(m) ==
  /\ button[m] = "disabled"
  /\ Cardinality(broken) < MaxBreaks /\ broken' = broken \cup {<<m, "vote">>}
  /\ button' = [button EXCEPT ![m] = "enabled"]
  /\ pending' = {v \in pending : ~(v.of = m /\ Current(v))} \/ UNCHANGED pending
  /\ UNCHANGED <<server, chat, vote, rows>>
-----------------------------------------------------------------------------
Read == ReadStarted \/ ReadLast \/ StreamEnds \/ FallbackAnswer

Next ==
  \/ Send \/ Stop \/ Read \/ FallBack \/ FallbackFails
  \/ \E r \in Requests : Serve(r)
  \/ \E m \in Messages : Press(m) \/ VoteAnswered(m) \/ VoteFails(m)
  \/ \E v \in pending : HandleVote(v)

Spec == Init /\ [][Next]_vars

(* The server goes on with what it has: every call of a request returns,   *)
(* and a free thread takes up what waits.  The page goes on reading, and   *)
(* turns to the fallback, or gives up, when it is refused.                 *)
FairSpec ==
  /\ Spec
  /\ \A r \in Requests : WF_vars(Serve(r))
  /\ WF_vars(Read)
  /\ WF_vars(FallBack /\ at[Stream] = "refused")
  /\ WF_vars(FallbackFails /\ at[Once] = "refused")
  /\ WF_vars(\E v \in pending : HandleVote(v))
  /\ \A m \in Messages : WF_vars(VoteAnswered(m))
-----------------------------------------------------------------------------
Asked(r) == at[r] \in {"asked", "final"}   \* stored, if it has not failed since

(* Every reply that is shown with its cards belongs to the session that    *)
(* the next message goes on with, whichever of the two requests it came    *)
(* from.                                                                   *)
ReplyInConversation ==
  \A m \in Messages : shown[m] # NoRequest => session[shown[m]] = sessionId

(* When a message has been asked, no request for an earlier one still      *)
(* works on the session, unless that was stopped or its connection broke.  *)
AskedInTurn ==
  \A r, q \in Requests :
    Asked(q) /\ r[1] < q[1] /\ at[r] \in {"waiting", "begun", "asked"} =>
      r[1] \in stopped \/ <<r[1], "chat">> \in broken

(* A message stands in the conversation twice only if a connection broke:  *)
(* neither the stop button nor a refusal asks it again.                    *)
AskedOnce ==
  \A m \in Messages :
    Asked(<<m, "stream">>) /\ Asked(<<m, "once">>) => <<m, "chat">> \in broken

(* A vote the user is thanked for is stored, and a reply has two only if   *)
(* an answer was lost and the user pressed again.                          *)
VotesCount ==
  \A m \in Messages :
    LET of == {v \in rows : v.of = m} IN
    /\ button[m] = "done" => of # {}
    /\ Cardinality(of) > 1 => <<m, "vote">> \in broken

(* The page can always be used again, whatever the user stopped and        *)
(* however few threads the server has.                                     *)
PageSettles ==
  /\ mode # "ready" ~> mode = "ready"
  /\ \A m \in Messages : button[m] = "disabled" ~> button[m] # "disabled"

(* docs/面试题库_全模块.md:367: a vote can be joined back to the            *)
(* recommendation it is about, by its trace_id.                            *)
VoteTracesItsReply == \A v \in rows : v.trace = shown[v.of]
=============================================================================
