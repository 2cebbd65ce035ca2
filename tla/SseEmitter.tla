----------------------------- MODULE SseEmitter -----------------------------
(***************************************************************************)
(* SseStreamEmitter: the queue between the detached thread that runs       *)
(* AgentOrchestrator::ChatStream (the producer) and the coroutine that     *)
(* writes the HTTP response (the writer).  Critical sections are atomic;   *)
(* what happens between two of them, the notification of the condition     *)
(* variable included, is a step of its own.                                *)
(***************************************************************************)
EXTENDS Sequences, Naturals

CONSTANTS Progress,   \* payloads of the events that are not terminal
          MaxEvents   \* progress events the producer emits at most

Terminal == {"final", "error"}
Events == Progress \cup Terminal

ASSUME EmitterAssumption == MaxEvents \in Nat /\ Progress \cap Terminal = {}

VARIABLES queue,     \* queue_
          closed,    \* closed_
          producer,  \* where the orchestrator thread is
          late,      \* the thread's catch block has called Error() after the request ended
          writer,    \* where the writer coroutine is
          batch,     \* events swapped out of the queue and not yet written
          wire,      \* events written to the connection
          accepted   \* history: events that entered the queue

vars == <<queue, closed, producer, late, writer, batch, wire, accepted>>

ProducerLabels == {"run", "notify", "notifyTerminal", "close", "notifyAll", "done"}
WriterLabels == {"check", "asleep", "write", "failed", "done", "cut"}

TypeOK ==
  /\ queue \in Seq(Events) /\ batch \in Seq(Events) /\ wire \in Seq(Events)
  /\ accepted \in Seq(Events)
  /\ closed \in BOOLEAN /\ late \in BOOLEAN
  /\ producer \in ProducerLabels
  /\ writer \in WriterLabels

Init ==
  /\ queue = <<>> /\ batch = <<>> /\ wire = <<>> /\ accepted = <<>>
  /\ closed = FALSE /\ late = FALSE
  /\ producer = "run"
  /\ writer = "check"
-----------------------------------------------------------------------------
(* Mutant: the closed flag is not looked at.                               *)
PushAfterClose(e, onAccept, onDrop) ==
  /\ queue' = Append(queue, e)
  /\ accepted' = Append(accepted, e)
  /\ producer' = onAccept

(* PushEvent drops the event once the stream is closed, and then does not  *)
(* notify either.                                                          *)
PushEvent(e, onAccept, onDrop) ==
  /\ queue' = IF closed THEN queue ELSE Append(queue, e)
  /\ accepted' = IF closed THEN accepted ELSE Append(accepted, e)
  /\ producer' = IF closed THEN onDrop ELSE onAccept

Emit(e) ==
  /\ producer = "run"
  /\ Len(accepted) < MaxEvents
  /\ PushEvent(e, "notify", "run")
  /\ UNCHANGED <<closed, late, writer, batch, wire>>

(* Finish and Error push their event, then close in a critical section of  *)
(* its own.                                                                *)
FinishOrError(e) ==
  /\ producer = "run"
  /\ PushEvent(e, "notifyTerminal", "close")
  /\ UNCHANGED <<closed, late, writer, batch, wire>>

(* ChatStream may still throw after Finish, while it logs; the thread's    *)
(* catch block then calls Error on the stream.                             *)
LateError ==
  /\ producer = "done" /\ ~late
  /\ PushEvent("error", "notifyTerminal", "close")
  /\ late' = TRUE
  /\ UNCHANGED <<closed, writer, batch, wire>>

Close ==
  /\ producer = "close"
  /\ closed' = TRUE
  /\ producer' = "notifyAll"
  /\ UNCHANGED <<queue, late, writer, batch, wire, accepted>>

NextAfterNotify ==
  CASE producer = "notify"         -> "run"
    [] producer = "notifyTerminal" -> "close"
    [] producer = "notifyAll"      -> "done"

(* Mutant: the notification is forgotten.                                  *)
NotifyNobody ==
  /\ producer \in {"notify", "notifyTerminal", "notifyAll"}
  /\ producer' = NextAfterNotify
  /\ UNCHANGED <<queue, closed, late, writer, batch, wire, accepted>>

Notify ==
  /\ producer \in {"notify", "notifyTerminal", "notifyAll"}
  /\ producer' = NextAfterNotify
  /\ writer' = IF writer = "asleep" THEN "check" ELSE writer
  /\ UNCHANGED <<queue, closed, late, batch, wire, accepted>>
-----------------------------------------------------------------------------
(* The writer holds the lock from the check of the wait predicate to the   *)
(* swap, or until the wait releases it.                                    *)
Sleep ==
  /\ writer = "check" /\ ~closed /\ queue = <<>>
  /\ writer' = "asleep"
  /\ UNCHANGED <<queue, closed, producer, late, batch, wire, accepted>>

SpuriousWake ==
  /\ writer = "asleep"
  /\ writer' = "check"
  /\ UNCHANGED <<queue, closed, producer, late, batch, wire, accepted>>

(* Mutant: the queue is put into the batch as one event.                   *)
DrainAsOneEvent ==
  /\ writer = "check" /\ queue # <<>>
  /\ batch' = Append(batch, queue)
  /\ queue' = <<>>
  /\ writer' = "write"
  /\ UNCHANGED <<closed, producer, late, wire, accepted>>

Drain ==
  /\ writer = "check" /\ queue # <<>>
  /\ batch' = queue
  /\ queue' = <<>>
  /\ writer' = "write"
  /\ UNCHANGED <<closed, producer, late, wire, accepted>>

Return ==
  /\ writer = "check" /\ queue = <<>> /\ closed
  /\ writer' = "done"
  /\ UNCHANGED <<queue, closed, producer, late, batch, wire, accepted>>

WriteEvent ==
  /\ writer = "write" /\ batch # <<>>
  /\ wire' = Append(wire, Head(batch))
  /\ batch' = Tail(batch)
  /\ UNCHANGED <<queue, closed, producer, late, writer, accepted>>

BatchWritten ==
  /\ writer = "write" /\ batch = <<>>
  /\ writer' = "check"
  /\ UNCHANGED <<queue, closed, producer, late, batch, wire, accepted>>

WriteFails ==
  /\ writer = "write" /\ batch # <<>>
  /\ writer' = "failed"
  /\ UNCHANGED <<queue, closed, producer, late, batch, wire, accepted>>

CloseOnFailure ==
  /\ writer = "failed"
  /\ closed' = TRUE
  /\ writer' = "cut"
  /\ UNCHANGED <<queue, producer, late, batch, wire, accepted>>
-----------------------------------------------------------------------------
Request == (\E e \in Progress : Emit(e)) \/ (\E e \in Terminal : FinishOrError(e)) \/ Notify \/ Close
Writer == Sleep \/ Drain \/ Return \/ WriteEvent \/ BatchWritten \/ WriteFails \/ CloseOnFailure

Next == Request \/ LateError \/ Writer \/ SpuriousWake

Spec == Init /\ [][Next]_vars

(* The orchestrator ends every request with Finish or Error, and both      *)
(* threads keep running.  Spurious wake-ups need not happen.               *)
FairSpec == Spec /\ WF_vars(Request) /\ WF_vars(Writer)
-----------------------------------------------------------------------------
Ended == CASE writer = "done" -> "complete"
           [] writer = "cut"  -> "broken"
           [] OTHER           -> "open"

Stream == INSTANCE EventStream WITH sent <- accepted, received <- wire, ended <- Ended

(* The emitter implements EventStream: events are neither lost, repeated   *)
(* nor reordered, none follows the terminal one, and the response is only  *)
(* completed once the terminal event is written.                           *)
ImplementsEventStream == Stream!StreamSpec

(* Every response ends: with all events of its request on the wire, the    *)
(* last of them terminal, unless a write failed.  In particular the writer *)
(* never sleeps through the close.                                         *)
DeliveredInFull ==
  <>(writer = "cut" \/ (writer = "done" /\ wire = accepted /\ Stream!Terminated))

(* The invariant behind the refinement: what was accepted is, in order, on *)
(* the wire, in the batch or in the queue; the producer closes the stream  *)
(* only after a terminal event, and only the last event is terminal.       *)
InOrder(w, b, q) == w \o b \o q
Pipeline == InOrder(wire, batch, queue)

EndInv ==
  /\ writer \in {"check", "asleep", "done"} => batch = <<>>
  /\ writer = "done" => queue = <<>> /\ closed
  /\ producer \in {"run", "notify"} => ~Stream!Terminated
  /\ producer \in {"notifyAll", "done"} => closed
  /\ producer = "notifyTerminal" => Stream!Terminated
  /\ producer = "close" => Stream!Terminated \/ closed
  /\ closed => Stream!Terminated \/ writer = "cut"
  /\ late \/ writer = "cut" => closed

EmitterInv == accepted = Pipeline /\ EndInv
=============================================================================
