---------------------------- MODULE ReplyStream ----------------------------
(***************************************************************************)
(* How one reply comes about: ResponseComposer::Compose, the LLM stream it *)
(* reads (HttpLlmClient::ChatStream), the output guard of the orchestrator *)
(* and the page of web/app.js that shows the result.  /v1/chat/stream      *)
(* shows each token as it arrives and checks the whole afterwards;         *)
(* /v1/chat checks first.                                                  *)
(*                                                                         *)
(* A text is a sequence of pieces: a "lie" is a price claim that matches   *)
(* no item, "pii" something the output guard masks.  The candidate items   *)
(* are abstracted to one text, called their reason, which stands for the   *)
(* title and the tags too: the rules' or, when the LLM wrote candidates    *)
(* into the ranker's arguments, any text.                                  *)
(***************************************************************************)
EXTENDS Sequences, SequencesExt, Naturals

CONSTANTS Addresses,   \* addresses the gateway's host name resolves to
          MaxPieces    \* pieces an LLM reply has at most

ASSUME ReplyAssumption == Addresses \in Nat /\ MaxPieces \in Nat

VARIABLES endpoint,   \* "stream" or "sync"
          pc,         \* where the request is
          left,       \* addresses not tried yet
          heard,      \* accumulated: what the LLM has streamed so far
          page,       \* handle.text: what the page shows
          reply,      \* result.response_text
          reason,     \* the text of result.items, to begin with that of items
          mode,       \* compose_mode
          action,     \* guard_action
          status      \* status of the llm_calls row, "none" without a row

vars == <<endpoint, pc, left, heard, page, reply, reason, mode, action, status>>

LlmPieces == {"fact", "lie", "pii"}
Pieces == LlmPieces \cup {"rule", "mask", "template", "sorry"}
Templates == {"template", "template_guard_fallback", "llm_stream_guard_fallback"}
Modes == {"none", "short_circuit", "llm_stream", "llm_stream_guard_fallback", "llm",
          "template_guard_fallback", "template"}

TypeOK ==
  /\ endpoint \in {"stream", "sync"}
  /\ pc \in {"compose", "connect", "read", "check", "chat", "template", "composed", "finish", "done"}
  /\ left \in 0..Addresses
  /\ heard \in Seq(LlmPieces) /\ Len(heard) <= MaxPieces
  /\ page \in Seq(Pieces) /\ reply \in Seq(Pieces)
  /\ reason \in Pieces
  /\ mode \in Modes
  /\ action \in {"none", "fact_violation", "sanitized"}
  /\ status \in {"none", "success", "guard_fallback", "stream_fallback", "template_fallback"}

Init ==
  /\ endpoint \in {"stream", "sync"}
  /\ pc = "compose"
  /\ left = Addresses
  /\ heard = <<>> /\ page = <<>> /\ reply = <<>>
  /\ reason \in LlmPieces \cup {"rule"}
  /\ mode = "none" /\ action = "none" /\ status = "none"

Goto(from, to) == pc = from /\ pc' = to

BuildTemplateReply(why) == <<"template", why>>
FactCheckReply(text) == ~Contains(text, "lie")
Sanitized(piece) == IF piece = "pii" THEN "mask" ELSE piece
SanitizeOutputText(text) == [i \in 1..Len(text) |-> Sanitized(text[i])]

(* Text that reaches a streaming client as deltas is appended to the page. *)
ShowDeltas(text) == page' = IF endpoint = "stream" THEN page \o text ELSE page

Composed(text, m) == reply' = text /\ mode' = m
-----------------------------------------------------------------------------
(* Nothing to write about: no items and no grounding.                      *)
ShortCircuit ==
  /\ Goto("compose", "composed")
  /\ Composed(<<"sorry">>, "short_circuit")
  /\ ShowDeltas(<<"sorry">>)
  /\ UNCHANGED <<endpoint, left, heard, reason, action, status>>

(* The LLM is asked when Healthy(); a stream may still not be opened (the  *)
(* circuit, no address), which leaves no address to try.                   *)
AskLlm ==
  /\ Goto("compose", IF endpoint = "stream" THEN "connect" ELSE "chat")
  /\ left' \in {left, 0}
  /\ UNCHANGED <<endpoint, heard, page, reply, reason, mode, action, status>>

LlmUnhealthy ==
  /\ Goto("compose", "template")
  /\ UNCHANGED <<endpoint, left, heard, page, reply, reason, mode, action, status>>

(* StreamHttpSse tries the addresses in turn, the next one also after a    *)
(* stream that broke half-way; accumulated is shared by all of them.       *)
Connect ==
  /\ Goto("connect", "read")
  /\ left > 0
  /\ UNCHANGED <<endpoint, left, heard, page, reply, reason, mode, action, status>>

ReadToken ==
  /\ pc = "read" /\ Len(heard) < MaxPieces
  /\ \E p \in LlmPieces : heard' = Append(heard, p) /\ ShowDeltas(<<p>>)
  /\ UNCHANGED <<endpoint, pc, left, reply, reason, mode, action, status>>

(* Mutant: the loop over the addresses does not end.                       *)
AddressBeyondLast ==
  /\ Goto("connect", "connect") \/ Goto("read", "connect")
  /\ left' = left - 1
  /\ UNCHANGED <<endpoint, heard, page, reply, reason, mode, action, status>>

(* Mutant: the same address is tried again.                                *)
AddressRetried ==
  /\ Goto("connect", "connect") \/ Goto("read", "connect")
  /\ left > 0
  /\ UNCHANGED <<endpoint, left, heard, page, reply, reason, mode, action, status>>

(* A refused connection, a status other than 200, a reset or a timeout.    *)
AddressFails ==
  /\ Goto("connect", "connect") \/ Goto("read", "connect")
  /\ left > 0
  /\ left' = left - 1
  /\ UNCHANGED <<endpoint, heard, page, reply, reason, mode, action, status>>

StreamEnds ==
  /\ Goto("read", "check")
  /\ UNCHANGED <<endpoint, left, heard, page, reply, reason, mode, action, status>>

(* streamed = false: the deterministic template follows as deltas.         *)
StreamFails ==
  /\ \/ Goto("connect", "template") /\ left = 0
     \/ Goto("check", "template") /\ heard = <<>>
  /\ status' = "stream_fallback"
  /\ UNCHANGED <<endpoint, left, heard, page, reply, reason, mode, action>>

(* Mutant: the streamed reply is not checked.                              *)
StreamUnchecked ==
  /\ Goto("check", "composed")
  /\ heard # <<>>
  /\ Composed(heard, "llm_stream")
  /\ status' = "success"
  /\ UNCHANGED <<endpoint, left, heard, page, reason, action>>

StreamPasses ==
  /\ Goto("check", "composed")
  /\ heard # <<>> /\ FactCheckReply(heard)
  /\ Composed(heard, "llm_stream")
  /\ status' = "success"
  /\ UNCHANGED <<endpoint, left, heard, page, reason, action>>

(* Mutant: no replace event.                                               *)
ViolationNotReplaced ==
  /\ Goto("check", "composed")
  /\ ~FactCheckReply(heard)
  /\ Composed(BuildTemplateReply(reason), "llm_stream_guard_fallback")
  /\ action' = "fact_violation" /\ status' = "guard_fallback"
  /\ UNCHANGED <<endpoint, left, heard, page, reason>>

(* The replace event corrects what was shown.                              *)
StreamViolates ==
  /\ Goto("check", "composed")
  /\ ~FactCheckReply(heard)
  /\ Composed(BuildTemplateReply(reason), "llm_stream_guard_fallback")
  /\ page' = BuildTemplateReply(reason)
  /\ action' = "fact_violation" /\ status' = "guard_fallback"
  /\ UNCHANGED <<endpoint, left, heard, reason>>

(* An exception (a request that does not serialise, a number in the text   *)
(* that does not convert) ends in the template too, and leaves no row.     *)
StreamThrows ==
  /\ \/ Goto("connect", "template") /\ heard = <<>>
     \/ Goto("check", "template") /\ heard # <<>>
  /\ UNCHANGED <<endpoint, left, heard, page, reply, reason, mode, action, status>>

UseTemplate ==
  /\ Goto("template", "composed")
  /\ Composed(BuildTemplateReply(reason), "template")
  /\ ShowDeltas(BuildTemplateReply(reason))
  /\ UNCHANGED <<endpoint, left, heard, reason, action, status>>
-----------------------------------------------------------------------------
ChatUnparseable ==
  /\ Goto("chat", "template")
  /\ status' = "template_fallback"
  /\ UNCHANGED <<endpoint, left, heard, page, reply, reason, mode, action>>

(* ApplyComposition takes over the LLM's reasons; then the reply is        *)
(* checked.  The template of a reply that fails is built from result.items *)
(* with the new reasons.                                                   *)
TakesReason == reason' \in LlmPieces \cup {reason}

ChatParses ==
  /\ Goto("chat", "composed")
  /\ TakesReason
  /\ \E text \in BoundedSeq(LlmPieces, MaxPieces) \ {<<>>} :
       IF FactCheckReply(text)
       THEN /\ Composed(text, "llm")
            /\ status' = "success" /\ UNCHANGED action
       ELSE /\ Composed(BuildTemplateReply(reason'), "template_guard_fallback")
            /\ status' = "guard_fallback" /\ action' = "fact_violation"
  /\ UNCHANGED <<endpoint, left, heard, page>>

(* An exception before or after the reasons were taken over: the template  *)
(* of items, which has the old ones, and no row.                           *)
ChatThrows ==
  /\ Goto("chat", "composed")
  /\ TakesReason
  /\ Composed(BuildTemplateReply(reason), "template")
  /\ UNCHANGED <<endpoint, left, heard, page, action, status>>

(* Mutant: the note of the output guard overwrites the composer's.         *)
SanitizeOverwrites ==
  /\ Goto("composed", "finish")
  /\ reply' = SanitizeOutputText(reply)
  /\ reason' = Sanitized(reason)
  /\ action' = IF reply' # reply THEN "sanitized" ELSE action
  /\ UNCHANGED <<endpoint, left, heard, page, mode, status>>

(* The orchestrator's output guard: reply and items, and its note unless   *)
(* the composer left a graver one.                                         *)
SanitizeOutput ==
  /\ Goto("composed", "finish")
  /\ reply' = SanitizeOutputText(reply)
  /\ reason' = Sanitized(reason)
  /\ action' = IF reply' # reply /\ action = "none" THEN "sanitized" ELSE action
  /\ UNCHANGED <<endpoint, left, heard, page, mode, status>>

(* Mutant: the final text is only shown on an empty page.                  *)
KeepDeltas ==
  /\ Goto("finish", "done")
  /\ page' = IF page = <<>> THEN reply ELSE page
  /\ UNCHANGED <<endpoint, left, heard, reply, reason, mode, action, status>>

(* The final event, or the JSON response: finalizeText.                    *)
ShowFinal ==
  /\ Goto("finish", "done")
  /\ page' = IF reply # <<>> THEN reply ELSE page
  /\ UNCHANGED <<endpoint, left, heard, reply, reason, mode, action, status>>
-----------------------------------------------------------------------------
Next ==
  \/ ShortCircuit \/ AskLlm \/ LlmUnhealthy
  \/ Connect \/ ReadToken \/ AddressFails \/ StreamEnds
  \/ StreamFails \/ StreamThrows \/ StreamPasses \/ StreamViolates
  \/ UseTemplate \/ ChatUnparseable \/ ChatParses \/ ChatThrows
  \/ SanitizeOutput \/ ShowFinal

Spec == Init /\ [][Next]_vars

(* One thread runs the request; every read has a timeout.                  *)
FairSpec == Spec /\ WF_vars(Next)
-----------------------------------------------------------------------------
Settled == pc \in {"composed", "finish", "done"}

(* No text the LLM wrote as the reply leaves the composer with a price     *)
(* claim that matches no item.  Not more is true: a template repeats the   *)
(* title and the reason of an item unchecked, and the LLM may have written *)
(* them, as candidates of the ranker or in the very answer that failed the *)
(* check.                                                                  *)
ClaimsChecked == Settled /\ Contains(reply, "lie") => mode \in Templates

(* A reply that is streamed to its end is exactly what the deltas showed,  *)
(* also when a second address had to continue.                             *)
StreamedReplyIsShown ==
  pc = "composed" /\ mode \in {"llm_stream", "llm_stream_guard_fallback"} => page = reply

(* The page settles on the reply the session keeps, whatever it showed     *)
(* before, with nothing left in the reply or on its cards that the guard   *)
(* masks.                                                                  *)
PageSettles == pc = "done" => page = reply /\ ~Contains(page, "pii") /\ reason # "pii"

(* Every intervention of a guard in the text of the reply is on record,    *)
(* the graver one first, and agrees with the audit row of the LLM call.    *)
(* What the output guard masks only on the cards, in an item's title, tags *)
(* or reason, leaves no record: the orchestrator compares response_text    *)
(* alone.                                                                  *)
InterventionsRecorded ==
  pc \in {"finish", "done"} =>
    /\ action = "fact_violation" <=> status = "guard_fallback"
    /\ Contains(reply, "mask") => action # "none"
    /\ action = "sanitized" => Contains(reply, "mask")

(* Every reply is shown in the end.                                        *)
Settles == <>(pc = "done")
=============================================================================
