-------------------------- MODULE SseEmitterProofs --------------------------
(***************************************************************************)
(* Proof that the emitter implements EventStream, for any set of progress  *)
(* events and any length of a stream.                                      *)
(***************************************************************************)
EXTENDS SseEmitter, SequenceTheorems, TLAPS

LEMMA PushType ==
  ASSUME TypeOK, NEW e \in Events, NEW p \in ProducerLabels, NEW q \in ProducerLabels, PushEvent(e, p, q)
  PROVE  queue' \in Seq(Events) /\ accepted' \in Seq(Events) /\ producer' \in ProducerLabels
BY DEF TypeOK, PushEvent

LEMMA TypeStep == TypeOK /\ [Next]_vars => TypeOK'
<1> SUFFICES ASSUME TypeOK, [Next]_vars PROVE TypeOK'
  OBVIOUS
<1> USE DEF TypeOK
<1>1. ASSUME NEW e \in Progress, Emit(e) PROVE TypeOK'
  BY <1>1, PushType DEF Emit, Events, ProducerLabels
<1>2. ASSUME NEW e \in Terminal, FinishOrError(e) PROVE TypeOK'
  BY <1>2, PushType DEF FinishOrError, Events, ProducerLabels
<1>3. CASE LateError
  BY <1>3, PushType DEF LateError, Events, Terminal, ProducerLabels
<1>4. CASE Notify
  <2>1. NextAfterNotify \in ProducerLabels
    BY <1>4 DEF Notify, NextAfterNotify, ProducerLabels
  <2>2. QED BY <1>4, <2>1 DEF Notify, WriterLabels
<1>5. CASE Close
  BY <1>5 DEF Close, ProducerLabels
<1>6. CASE Sleep \/ SpuriousWake \/ Return \/ BatchWritten \/ WriteFails
  BY <1>6 DEF Sleep, SpuriousWake, Return, BatchWritten, WriteFails, WriterLabels
<1>10. CASE Drain
  BY <1>10, EmptySeq DEF Drain, WriterLabels
<1>11. CASE CloseOnFailure
  BY <1>11 DEF CloseOnFailure, WriterLabels
<1>7. CASE WriteEvent
  <2>1. Head(batch) \in Events /\ Tail(batch) \in Seq(Events)
    BY <1>7, HeadTailProperties DEF WriteEvent
  <2>2. QED BY <1>7, <2>1, AppendProperties DEF WriteEvent
<1>8. CASE UNCHANGED vars
  BY <1>8 DEF vars
<1>9. QED
  BY <1>1, <1>2, <1>3, <1>4, <1>5, <1>6, <1>7, <1>8, <1>10, <1>11 DEF Next, Request, Writer

LEMMA InitType == Init => TypeOK
BY EmptySeq DEF Init, TypeOK, ProducerLabels, WriterLabels
-----------------------------------------------------------------------------
(* Lengthening, draining and writing out the pipeline.                     *)
LEMMA PipelinePush ==
  ASSUME NEW S, NEW w \in Seq(S), NEW b \in Seq(S), NEW q \in Seq(S), NEW e \in S
  PROVE  Append(InOrder(w, b, q), e) = InOrder(w, b, Append(q, e))
<1>1. w \o b \in Seq(S)
  BY ConcatProperties
<1>2. w \o b \o q \in Seq(S) /\ <<e>> \in Seq(S)
  BY <1>1, ConcatProperties
<1>3. Append(w \o b \o q, e) = (w \o b \o q) \o <<e>> /\ Append(q, e) = q \o <<e>>
  BY <1>2, AppendIsConcat
<1>4. QED
  BY <1>1, <1>2, <1>3, ConcatAssociative DEF InOrder

LEMMA PipelinePushed ==
  ASSUME queue \in Seq(Events), batch \in Seq(Events), wire \in Seq(Events), NEW e \in Events
  PROVE  Append(Pipeline, e) = InOrder(wire, batch, Append(queue, e))
BY PipelinePush DEF Pipeline

LEMMA PipelineDrain ==
  ASSUME NEW S, NEW w \in Seq(S), NEW q \in Seq(S)
  PROVE  InOrder(w, <<>>, q) = InOrder(w, q, <<>>)
<1>1. w \o <<>> = w /\ w \o q \in Seq(S)
  BY ConcatProperties, ConcatEmptySeq
<1>2. w \o q \o <<>> = w \o q
  BY <1>1, ConcatEmptySeq
<1>3. QED BY <1>1, <1>2 DEF InOrder

LEMMA PipelineWrite ==
  ASSUME NEW S, NEW w \in Seq(S), NEW b \in Seq(S), NEW q \in Seq(S), b # <<>>
  PROVE  /\ InOrder(Append(w, Head(b)), Tail(b), q) = InOrder(w, b, q)
         /\ Len(w) < Len(InOrder(w, b, q))
         /\ InOrder(w, b, q)[Len(w) + 1] = Head(b)
<1>1. Head(b) \in S /\ Tail(b) \in Seq(S) /\ <<Head(b)>> \in Seq(S) /\ Len(b) > 0
  BY HeadTailProperties, EmptySeq
<1>2. b = <<Head(b)>> \o Tail(b) /\ Head(b) = b[1]
  BY <1>1
<1>3. Append(w, Head(b)) \o Tail(b) = w \o b
  BY <1>1, <1>2, AppendIsConcat, ConcatAssociative
<1>4. w \o b \in Seq(S) /\ Len(w \o b) = Len(w) + Len(b) /\ (w \o b)[Len(w) + 1] = b[1]
  BY <1>1, ConcatProperties
<1>5. Len(w \o b \o q) = Len(w) + Len(b) + Len(q) /\ (w \o b \o q)[Len(w) + 1] = (w \o b)[Len(w) + 1]
  BY <1>1, <1>4, ConcatProperties
<1>6. QED BY <1>1, <1>2, <1>3, <1>4, <1>5, LenProperties DEF InOrder
-----------------------------------------------------------------------------
(* The invariant: each action keeps the pipeline and the bookkeeping of    *)
(* the stream's end.                                                       *)
LEMMA TerminatedAfterPush ==
  ASSUME TypeOK, NEW e \in Events, NEW p, NEW q, PushEvent(e, p, q), ~closed
  PROVE  /\ accepted' = Append(accepted, e) /\ queue' = Append(queue, e) /\ producer' = p
         /\ Stream!Terminated' <=> e \in Terminal
<1>1. accepted' = Append(accepted, e) /\ queue' = Append(queue, e) /\ producer' = p
  BY DEF PushEvent
<1>2. accepted' # <<>> /\ accepted'[Len(accepted')] = e
  BY <1>1, AppendProperties DEF TypeOK
<1>3. QED BY <1>1, <1>2 DEF Stream!Terminated, Stream!Terminal, Terminal

LEMMA PipelineStep == TypeOK /\ EmitterInv /\ [Next]_vars => (accepted = Pipeline)'
<1> SUFFICES ASSUME TypeOK, accepted = Pipeline, EndInv, [Next]_vars PROVE (accepted = Pipeline)'
  BY DEF EmitterInv
<1>0. queue \in Seq(Events) /\ batch \in Seq(Events) /\ wire \in Seq(Events)
  BY DEF TypeOK
<1>1. ASSUME NEW e \in Events, NEW p, NEW q, PushEvent(e, p, q), UNCHANGED <<wire, batch>>
      PROVE  (accepted = Pipeline)'
  <2>1. Append(Pipeline, e) = InOrder(wire, batch, Append(queue, e))
    BY <1>0, PipelinePushed
  <2>2. QED BY <1>1, <2>1 DEF PushEvent, Pipeline
<1>2. ASSUME NEW e \in Progress, Emit(e) PROVE (accepted = Pipeline)'
  BY <1>1, <1>2 DEF Emit, Events
<1>3. ASSUME NEW e \in Terminal, FinishOrError(e) PROVE (accepted = Pipeline)'
  BY <1>1, <1>3 DEF FinishOrError, Events
<1>4. CASE LateError
  BY <1>1, <1>4 DEF LateError, Events, Terminal
<1>5. CASE Drain
  <2>1. InOrder(wire, <<>>, queue) = InOrder(wire, queue, <<>>)
    BY <1>0, PipelineDrain
  <2>2. batch = <<>>
    BY <1>5 DEF Drain, EndInv
  <2>3. QED BY <1>5, <2>1, <2>2 DEF Drain, Pipeline
<1>6. CASE WriteEvent
  <2>1. InOrder(Append(wire, Head(batch)), Tail(batch), queue) = Pipeline
    <3>1. batch # <<>>
      BY <1>6 DEF WriteEvent
    <3>2. QED BY <1>0, <3>1, PipelineWrite DEF Pipeline
  <2>2. QED BY <1>6, <2>1 DEF WriteEvent, Pipeline
<1>7. CASE UNCHANGED <<accepted, wire, batch, queue>>
  BY <1>7 DEF Pipeline
<1>8. QED
  BY <1>2, <1>3, <1>4, <1>5, <1>6, <1>7
     DEF Next, Request, Writer, Notify, Close, Sleep, SpuriousWake, Return, BatchWritten, WriteFails,
         CloseOnFailure, vars

LEMMA EndStep == TypeOK /\ EmitterInv /\ [Next]_vars => EndInv'
<1> SUFFICES ASSUME TypeOK, EndInv, [Next]_vars PROVE EndInv'
  BY DEF EmitterInv
<1>0. UNCHANGED accepted => (Stream!Terminated' <=> Stream!Terminated)
  BY DEF Stream!Terminated
<1> USE <1>0 DEF EndInv
<1>1. ASSUME NEW e \in Progress, Emit(e) PROVE EndInv'
  <2>1. e \in Events /\ e \notin Terminal /\ PushEvent(e, "notify", "run")
    BY <1>1, EmitterAssumption DEF Emit, Events
  <2>2. CASE closed
    BY <1>1, <2>1, <2>2 DEF Emit, PushEvent
  <2>3. CASE ~closed
    BY <1>1, <2>1, <2>3, TerminatedAfterPush DEF Emit
  <2>4. QED BY <2>2, <2>3
<1>2. ASSUME NEW e \in Terminal, FinishOrError(e) PROVE EndInv'
  <2>1. e \in Events /\ PushEvent(e, "notifyTerminal", "close")
    BY <1>2 DEF FinishOrError, Events
  <2>2. CASE closed
    BY <1>2, <2>1, <2>2 DEF FinishOrError, PushEvent
  <2>3. CASE ~closed
    BY <1>2, <2>1, <2>3, TerminatedAfterPush DEF FinishOrError
  <2>4. QED BY <2>2, <2>3
<1>3. CASE LateError
  BY <1>3 DEF LateError, PushEvent
<1>4. CASE Notify
  BY <1>4 DEF Notify, NextAfterNotify
<1>5. CASE Close
  <2>1. Stream!Terminated \/ writer = "cut"
    BY <1>5 DEF Close
  <2>2. QED BY <1>5, <2>1 DEF Close
<1>6. CASE Sleep \/ SpuriousWake
  BY <1>6 DEF Sleep, SpuriousWake
<1>7. CASE Drain
  BY <1>7 DEF Drain
<1>8. CASE Return
  BY <1>8 DEF Return
<1>9. CASE WriteEvent
  BY <1>9 DEF WriteEvent
<1>10. CASE BatchWritten
  BY <1>10 DEF BatchWritten
<1>11. CASE WriteFails
  BY <1>11 DEF WriteFails
<1>12. CASE CloseOnFailure
  BY <1>12 DEF CloseOnFailure
<1>13. CASE UNCHANGED vars
  BY <1>13 DEF vars
<1>14. QED
  BY <1>1, <1>2, <1>3, <1>4, <1>5, <1>6, <1>7, <1>8, <1>9, <1>10, <1>11, <1>12, <1>13
     DEF Next, Request, Writer

LEMMA EmitterInvStep == TypeOK /\ EmitterInv /\ [Next]_vars => EmitterInv'
BY PipelineStep, EndStep DEF EmitterInv

LEMMA InitInv == Init => EmitterInv
BY ConcatEmptySeq, EmptySeq DEF Init, EmitterInv, EndInv, Pipeline, InOrder, Stream!Terminated

(* Every accepted event is on the wire, in the batch or in the queue, in   *)
(* order, and the stream is closed only behind a terminal event.           *)
THEOREM EmitterCorrect == Spec => [](TypeOK /\ EmitterInv)
<1>1. QED BY InitType, InitInv, TypeStep, EmitterInvStep, PTL DEF Spec
-----------------------------------------------------------------------------
(* Refinement: pushes are Sends, writes are Deliveries, the writer's two   *)
(* ways out are Complete and Break, and every other step stutters.         *)
LEMMA StepRefines ==
  TypeOK /\ EmitterInv /\ [Next]_vars => [Stream!StreamNext]_(Stream!streamVars)
<1> SUFFICES ASSUME TypeOK, EmitterInv, [Next]_vars
             PROVE  Stream!StreamNext \/ UNCHANGED Stream!streamVars
  OBVIOUS
<1> USE DEF Stream!streamVars, Ended
<1>1. ASSUME NEW e \in Events, NEW p, NEW q, PushEvent(e, p, q), ~closed => ~Stream!Terminated,
             UNCHANGED <<writer, wire>>
      PROVE  Stream!StreamNext \/ UNCHANGED Stream!streamVars
  <2>1. CASE closed
    BY <1>1, <2>1 DEF PushEvent
  <2>2. CASE ~closed
    <3>1. writer \notin {"done", "cut"}
      BY <2>2 DEF EmitterInv, EndInv
    <3>2. Stream!Send(e)
      BY <1>1, <2>2, <3>1 DEF PushEvent, Stream!Send
    <3>3. QED BY <3>2 DEF Stream!StreamNext, Stream!Events, Stream!Terminal, Events, Terminal
  <2>3. QED BY <2>1, <2>2
<1>2. ASSUME NEW e \in Progress, Emit(e) PROVE Stream!StreamNext \/ UNCHANGED Stream!streamVars
  BY <1>1, <1>2 DEF Emit, EmitterInv, EndInv, Events
<1>3. ASSUME NEW e \in Terminal, FinishOrError(e) PROVE Stream!StreamNext \/ UNCHANGED Stream!streamVars
  BY <1>1, <1>3 DEF FinishOrError, EmitterInv, EndInv, Events
<1>4. CASE LateError
  BY <1>4 DEF LateError, PushEvent, EmitterInv, EndInv
<1>5. CASE Notify \/ Close \/ Sleep \/ SpuriousWake \/ Drain \/ BatchWritten \/ WriteFails
  BY <1>5 DEF Notify, Close, Sleep, SpuriousWake, Drain, BatchWritten, WriteFails
<1>6. CASE Return
  <2>1. wire = accepted
    BY <1>6, ConcatEmptySeq, ConcatProperties DEF Return, EmitterInv, EndInv, Pipeline, InOrder, TypeOK
  <2>2. Stream!Terminated
    BY <1>6 DEF Return, EmitterInv, EndInv
  <2>3. Stream!Complete
    BY <1>6, <2>1, <2>2 DEF Return, Stream!Complete
  <2>4. QED BY <2>3 DEF Stream!StreamNext
<1>7. CASE WriteEvent
  <2>1. Len(wire) < Len(accepted) /\ accepted[Len(wire) + 1] = Head(batch)
    BY <1>7, PipelineWrite DEF WriteEvent, EmitterInv, EndInv, Pipeline, TypeOK
  <2>2. Stream!Deliver
    BY <1>7, <2>1 DEF WriteEvent, Stream!Deliver
  <2>3. QED BY <2>2 DEF Stream!StreamNext
<1>8. CASE CloseOnFailure
  BY <1>8 DEF CloseOnFailure, Stream!Break, Stream!StreamNext
<1>9. CASE UNCHANGED vars
  BY <1>9 DEF vars
<1>10. QED
  BY <1>2, <1>3, <1>4, <1>5, <1>6, <1>7, <1>8, <1>9 DEF Next, Request, Writer

(* The emitter implements the stream its clients are promised.             *)
THEOREM EmitterRefinesStream == Spec => ImplementsEventStream
<1>1. Init => Stream!StreamInit
  BY DEF Init, Ended, Stream!StreamInit
<1>2. QED
  BY <1>1, EmitterCorrect, StepRefines, PTL DEF Spec, ImplementsEventStream, Stream!StreamSpec
=============================================================================
