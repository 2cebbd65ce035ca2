----------------------------- MODULE EventStream -----------------------------
(***************************************************************************)
(* What a client of /v1/chat/stream is promised: it reads the events of    *)
(* its request in the order they were produced, one of them terminal       *)
(* ("final" or "error") and nothing after it, and the stream ends either   *)
(* complete or, if the connection breaks, cut short after a prefix.        *)
(***************************************************************************)
EXTENDS Naturals, Sequences

CONSTANT Progress   \* the events that are not terminal

Terminal == {"final", "error"}
Events == Progress \cup Terminal

VARIABLES sent,      \* events produced so far
          received,  \* events the client has read
          ended      \* "open", "complete" or "broken"

streamVars == <<sent, received, ended>>

Terminated == sent # <<>> /\ sent[Len(sent)] \in Terminal

StreamInit == sent = <<>> /\ received = <<>> /\ ended = "open"

Send(e) ==
  /\ ended = "open"
  /\ ~Terminated
  /\ sent' = Append(sent, e)
  /\ UNCHANGED <<received, ended>>

Deliver ==
  /\ ended = "open"
  /\ Len(received) < Len(sent)
  /\ received' = Append(received, sent[Len(received) + 1])
  /\ UNCHANGED <<sent, ended>>

Complete ==
  /\ ended = "open"
  /\ Terminated
  /\ received = sent
  /\ ended' = "complete"
  /\ UNCHANGED <<sent, received>>

Break ==
  /\ ended = "open"
  /\ ended' = "broken"
  /\ UNCHANGED <<sent, received>>

StreamNext == (\E e \in Events : Send(e)) \/ Deliver \/ Complete \/ Break

StreamSpec == StreamInit /\ [][StreamNext]_streamVars
=============================================================================
