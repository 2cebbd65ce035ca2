------------------------- MODULE ReplyStreamProofs -------------------------
(***************************************************************************)
(* What is shown, stored and recorded of a reply, for any number of        *)
(* addresses and pieces.  The invariant follows the composer: until there  *)
(* is a reply no guard has intervened; while a stream is read the page     *)
(* shows exactly what was heard; between composer and output guard nothing *)
(* is masked yet, and after it nothing is left to mask.                    *)
(***************************************************************************)
EXTENDS ReplyStream, TLAPS

Open == {"compose", "connect", "read", "check", "chat", "template"}
Masked == {"finish", "done"}
Written == LlmPieces \cup {"rule"}

Untouched == pc \in Open => reason \in Written /\ mode = "none" /\ action = "none"
                            /\ status # "guard_fallback"
ShownAsHeard == /\ pc = "compose" => heard = <<>> /\ page = <<>>
                /\ pc \in {"connect", "read", "check"} => endpoint = "stream" /\ page = heard
Whole == Settled => reply # <<>> /\ (action = "fact_violation" <=> status = "guard_fallback")
NotMasked == pc = "composed" => ~Contains(reply, "mask") /\ action # "sanitized"
NothingToMask == pc \in Masked => ~Contains(reply, "pii") /\ reason # "pii"

ReplyInv ==
  /\ TypeOK /\ Untouched /\ ShownAsHeard /\ Whole /\ NotMasked /\ NothingToMask
  /\ ClaimsChecked /\ StreamedReplyIsShown /\ PageSettles /\ InterventionsRecorded

USE DEF LlmPieces, Pieces, Written

LEMMA Pairs ==
  ASSUME NEW S, NEW a \in S, NEW b \in S, NEW x
  PROVE  /\ <<a, b>> \in Seq(S) /\ <<a, b>> # <<>>
         /\ Contains(<<a, b>>, x) <=> x = a \/ x = b
<1>1. Len(<<a, b>>) = 2 /\ <<a, b>>[1] = a /\ <<a, b>>[2] = b /\ <<a, b>> \in Seq(S)
  OBVIOUS
<1>2. \A i \in 1..2 : i = 1 \/ i = 2
  OBVIOUS
<1> QED BY <1>1, <1>2 DEF Contains

LEMMA Single ==
  ASSUME NEW S, NEW a \in S, NEW x
  PROVE  <<a>> \in Seq(S) /\ <<a>> # <<>> /\ (Contains(<<a>>, x) <=> x = a)
BY DEF Contains

LEMMA SpokenPieces ==
  ASSUME NEW text \in Seq(LlmPieces)
  PROVE  text \in Seq(Pieces) /\ ~Contains(text, "mask")
BY DEF Contains

LEMMA BoundedTexts ==
  ASSUME NEW text \in BoundedSeq(LlmPieces, MaxPieces)
  PROVE  text \in Seq(LlmPieces)
BY ReplyAssumption DEF ReplyAssumption, BoundedSeq, SeqOf

LEMMA Sanitizing ==
  ASSUME NEW text \in Seq(Pieces)
  PROVE  /\ SanitizeOutputText(text) \in Seq(Pieces)
         /\ Len(SanitizeOutputText(text)) = Len(text)
         /\ \A i \in 1..Len(text) : SanitizeOutputText(text)[i] = Sanitized(text[i])
BY DEF SanitizeOutputText, Sanitized

(* What the output guard does to a reply.                                  *)
LEMMA SanitizedReply ==
  ASSUME NEW text \in Seq(Pieces), ~Contains(text, "mask")
  PROVE  LET clean == SanitizeOutputText(text) IN
         /\ clean \in Seq(Pieces) /\ (text # <<>> => clean # <<>>)
         /\ ~Contains(clean, "pii")
         /\ Contains(clean, "lie") => Contains(text, "lie")
         /\ Contains(clean, "mask") <=> clean # text
<1> DEFINE clean == SanitizeOutputText(text)
<1>1. /\ clean \in Seq(Pieces) /\ Len(clean) = Len(text)
      /\ \A i \in 1..Len(text) : clean[i] = Sanitized(text[i])
  BY Sanitizing
<1> HIDE DEF clean
<1>2. ~Contains(clean, "pii") /\ (Contains(clean, "lie") => Contains(text, "lie"))
  BY <1>1 DEF Contains, Sanitized
<1>3. ASSUME Contains(clean, "mask") PROVE clean # text
  BY <1>3
<1>4. ASSUME clean # text PROVE Contains(clean, "mask")
  <2>1. PICK i \in 1..Len(text) : clean[i] # text[i]
    BY <1>1, <1>4
  <2>2. clean[i] = "mask"
    BY <1>1, <2>1 DEF Sanitized
  <2> QED BY <1>1, <2>2 DEF Contains
<1>5. text # <<>> => clean # <<>>
  BY <1>1
<1> QED BY <1>1, <1>2, <1>3, <1>4, <1>5 DEF clean

LEMMA InitInv == Init => ReplyInv
<1> SUFFICES ASSUME Init PROVE ReplyInv
  OBVIOUS
<1>1. TypeOK
  BY ReplyAssumption DEF ReplyAssumption, Init, TypeOK, Modes
<1>2. pc = "compose" /\ heard = <<>> /\ page = <<>>
  BY DEF Init
<1>3. Untouched
  BY DEF Init, Untouched
<1> QED BY <1>1, <1>2, <1>3
        DEF ReplyInv, ShownAsHeard, Whole, NotMasked, NothingToMask, Settled, Masked,
            ClaimsChecked, StreamedReplyIsShown, PageSettles, InterventionsRecorded
-----------------------------------------------------------------------------
LEMMA StillOpen ==
  ASSUME pc' \in Open, TypeOK', Untouched', ShownAsHeard'
  PROVE  ReplyInv'
BY DEF ReplyInv, Open, Masked, Settled, Whole, NotMasked, NothingToMask,
       ClaimsChecked, StreamedReplyIsShown, PageSettles, InterventionsRecorded

(* A step of the composer that neither composes nor shows anything.        *)
LEMMA WaitingInv ==
  ASSUME ReplyInv, AskLlm \/ LlmUnhealthy \/ Connect \/ AddressFails \/ StreamEnds
                   \/ StreamFails \/ StreamThrows \/ ChatUnparseable
  PROVE  ReplyInv'
<1>1. /\ pc \in Open /\ pc' \in Open
      /\ UNCHANGED <<endpoint, heard, page, reply, reason, mode, action>>
      /\ status' \in {status, "stream_fallback", "template_fallback"}
      /\ pc' # "compose"
  BY DEF AskLlm, LlmUnhealthy, Connect, AddressFails, StreamEnds, StreamFails, StreamThrows, ChatUnparseable,
         Goto, Open
<1>2. left' \in 0..Addresses
  <2>1. left \in 0..Addresses /\ Addresses \in Nat
    BY ReplyAssumption DEF ReplyAssumption, ReplyInv, TypeOK
  <2> QED BY <2>1 DEF AskLlm, LlmUnhealthy, Connect, AddressFails, StreamEnds, StreamFails,
                      StreamThrows, ChatUnparseable
<1>3. pc' \in {"connect", "read", "check"} =>
        \/ pc \in {"connect", "read", "check"}
        \/ pc = "compose" /\ endpoint = "stream"
  BY DEF AskLlm, LlmUnhealthy, Connect, AddressFails, StreamEnds, StreamFails, StreamThrows, ChatUnparseable,
         Goto
<1>4. TypeOK'
  BY <1>1, <1>2 DEF ReplyInv, TypeOK, Open
<1>5. Untouched' /\ ShownAsHeard'
  BY <1>1, <1>3 DEF ReplyInv, Untouched, ShownAsHeard
<1> QED BY <1>1, <1>4, <1>5, StillOpen

LEMMA ReadTokenInv == ASSUME ReplyInv, ReadToken PROVE ReplyInv'
<1>1. /\ pc = "read" /\ pc' = "read" /\ endpoint = "stream" /\ page = heard
      /\ UNCHANGED <<endpoint, left, reply, reason, mode, action, status>>
      /\ heard \in Seq(LlmPieces) /\ Len(heard) < MaxPieces /\ MaxPieces \in Nat
  BY ReplyAssumption DEF ReplyAssumption, ReplyInv, TypeOK, ShownAsHeard, ReadToken
<1>2. PICK p \in LlmPieces : heard' = Append(heard, p) /\ page' = page \o <<p>>
  BY <1>1 DEF ReadToken, ShowDeltas
<1>3. /\ heard' \in Seq(LlmPieces) /\ Len(heard') = Len(heard) + 1
      /\ page' = heard'
  BY <1>1, <1>2
<1>4. page' \in Seq(Pieces)
  BY <1>3, SpokenPieces
<1>5. TypeOK'
  BY <1>1, <1>3, <1>4 DEF ReplyInv, TypeOK
<1>6. Untouched' /\ ShownAsHeard'
  BY <1>1, <1>3 DEF ReplyInv, Untouched, ShownAsHeard, Open
<1> QED BY <1>1, <1>5, <1>6, StillOpen DEF Open
-----------------------------------------------------------------------------
(* What a composed reply has to be.                                        *)
LEMMA ComposedInv ==
  ASSUME ReplyInv, pc \in Open, pc' = "composed", UNCHANGED <<endpoint, left, heard>>,
         reply' \in Seq(Pieces), page' \in Seq(Pieces), reason' \in Pieces,
         mode' \in Modes,
         status' \in {"none", "success", "guard_fallback", "stream_fallback", "template_fallback"},
         reply' # <<>>, ~Contains(reply', "mask"),
         Contains(reply', "lie") => mode' \in Templates,
         mode' \in {"llm_stream", "llm_stream_guard_fallback"} => page' = reply',
         action' = IF status' = "guard_fallback" THEN "fact_violation" ELSE "none"
  PROVE  ReplyInv'
<1>1. TypeOK'
  BY DEF ReplyInv, TypeOK
<1>2. Untouched' /\ ShownAsHeard' /\ NothingToMask'
  BY DEF Untouched, ShownAsHeard, NothingToMask, Open, Masked
<1>3. Whole' /\ NotMasked'
  BY DEF Whole, NotMasked
<1>4. ClaimsChecked' /\ StreamedReplyIsShown' /\ PageSettles' /\ InterventionsRecorded'
  BY DEF ClaimsChecked, StreamedReplyIsShown, PageSettles, InterventionsRecorded
<1> QED BY <1>1, <1>2, <1>3, <1>4 DEF ReplyInv

LEMMA ShownPieces ==
  ASSUME TypeOK, NEW text \in Seq(Pieces), ShowDeltas(text)
  PROVE  page' \in Seq(Pieces)
<1>1. page \in Seq(Pieces)
  BY DEF TypeOK
<1>2. page \o text \in Seq(Pieces)
  BY <1>1
<1> QED BY <1>1, <1>2 DEF ShowDeltas

(* A template has nothing of its own to mask.                              *)
LEMMA TemplatePieces ==
  ASSUME NEW why \in Written
  PROVE  /\ BuildTemplateReply(why) \in Seq(Pieces) /\ BuildTemplateReply(why) # <<>>
         /\ ~Contains(BuildTemplateReply(why), "mask")
<1>1. "template" \in Pieces /\ why \in Pieces /\ why # "mask"
  OBVIOUS
<1> HIDE DEF Pieces
<1>2. /\ <<"template", why>> \in Seq(Pieces) /\ <<"template", why>> # <<>>
      /\ Contains(<<"template", why>>, "mask") => why = "mask"
  BY <1>1, Pairs
<1> QED BY <1>1, <1>2 DEF BuildTemplateReply

LEMMA ShortCircuitInv == ASSUME ReplyInv, ShortCircuit PROVE ReplyInv'
<1>1. <<"sorry">> \in Seq(Pieces) /\ <<"sorry">> # <<>>
      /\ ~Contains(<<"sorry">>, "mask") /\ ~Contains(<<"sorry">>, "lie")
  BY Single
<1>2. page' \in Seq(Pieces)
  BY <1>1, ShownPieces DEF ShortCircuit, ReplyInv
<1>3. /\ pc = "compose" /\ pc' = "composed" /\ reply' = <<"sorry">> /\ mode' = "short_circuit"
      /\ UNCHANGED <<endpoint, left, heard, reason, action, status>>
  BY DEF ShortCircuit, Goto, Composed
<1>4. reason' \in Pieces /\ action' = "none" /\ status' # "guard_fallback"
  BY <1>3 DEF ReplyInv, Untouched, Open
<1>5. status' \in {"none", "success", "guard_fallback", "stream_fallback", "template_fallback"}
  BY <1>3 DEF ReplyInv, TypeOK
<1> QED BY <1>1, <1>2, <1>3, <1>4, <1>5, ComposedInv DEF Open, Modes

LEMMA UseTemplateInv == ASSUME ReplyInv, UseTemplate PROVE ReplyInv'
<1>1. /\ pc = "template" /\ pc' = "composed" /\ reply' = BuildTemplateReply(reason)
      /\ mode' = "template" /\ UNCHANGED <<endpoint, left, heard, reason, action, status>>
  BY DEF UseTemplate, Goto, Composed
<1>2. reason \in Written /\ reason' \in Pieces /\ action' = "none" /\ status' # "guard_fallback"
  BY <1>1 DEF ReplyInv, Untouched, Open
<1>3. /\ BuildTemplateReply(reason) \in Seq(Pieces) /\ BuildTemplateReply(reason) # <<>>
      /\ ~Contains(BuildTemplateReply(reason), "mask")
  BY <1>2, TemplatePieces
<1>4. page' \in Seq(Pieces)
  BY <1>3, ShownPieces DEF UseTemplate, ReplyInv
<1>5. status' \in {"none", "success", "guard_fallback", "stream_fallback", "template_fallback"}
  BY <1>1 DEF ReplyInv, TypeOK
<1> QED BY <1>1, <1>2, <1>3, <1>4, <1>5, ComposedInv DEF Open, Modes, Templates

LEMMA StreamPassesInv == ASSUME ReplyInv, StreamPasses PROVE ReplyInv'
<1>1. /\ pc = "check" /\ pc' = "composed" /\ reply' = heard /\ mode' = "llm_stream"
      /\ heard # <<>> /\ ~Contains(heard, "lie") /\ status' = "success"
      /\ UNCHANGED <<endpoint, left, heard, page, reason, action>>
  BY DEF StreamPasses, Goto, Composed, FactCheckReply
<1>2. page = heard /\ heard \in Seq(LlmPieces)
  BY <1>1 DEF ReplyInv, ShownAsHeard, TypeOK
<1>3. heard \in Seq(Pieces) /\ ~Contains(heard, "mask")
  BY <1>2, SpokenPieces
<1>4. reason' \in Pieces /\ action' = "none"
  BY <1>1 DEF ReplyInv, Untouched, Open
<1> QED BY <1>1, <1>2, <1>3, <1>4, ComposedInv DEF Open, Modes

LEMMA StreamViolatesInv == ASSUME ReplyInv, StreamViolates PROVE ReplyInv'
<1>1. /\ pc = "check" /\ pc' = "composed" /\ reply' = BuildTemplateReply(reason)
      /\ page' = BuildTemplateReply(reason) /\ mode' = "llm_stream_guard_fallback"
      /\ action' = "fact_violation" /\ status' = "guard_fallback"
      /\ UNCHANGED <<endpoint, left, heard, reason>>
  BY DEF StreamViolates, Goto, Composed
<1>2. reason \in Written
  BY <1>1 DEF ReplyInv, Untouched, Open
<1>3. /\ BuildTemplateReply(reason) \in Seq(Pieces) /\ BuildTemplateReply(reason) # <<>>
      /\ ~Contains(BuildTemplateReply(reason), "mask") /\ reason' \in Pieces
  BY <1>1, <1>2, TemplatePieces
<1> QED BY <1>1, <1>3, ComposedInv DEF Open, Modes, Templates

LEMMA ChatParsesInv == ASSUME ReplyInv, ChatParses PROVE ReplyInv'
<1>1. /\ pc = "chat" /\ pc' = "composed" /\ UNCHANGED <<endpoint, left, heard, page>>
  BY DEF ChatParses, Goto
<1>2. reason \in Written /\ action = "none" /\ page \in Seq(Pieces)
  BY <1>1 DEF ReplyInv, Untouched, Open, TypeOK
<1>3. reason' \in Written /\ reason' \in Pieces
  BY <1>2 DEF ChatParses, TakesReason
<1>4. PICK text \in BoundedSeq(LlmPieces, MaxPieces) \ {<<>>} :
        IF FactCheckReply(text)
        THEN /\ Composed(text, "llm")
             /\ status' = "success" /\ UNCHANGED action
        ELSE /\ Composed(BuildTemplateReply(reason'), "template_guard_fallback")
             /\ status' = "guard_fallback" /\ action' = "fact_violation"
  BY DEF ChatParses
<1>5. CASE FactCheckReply(text)
  <2>1. reply' = text /\ mode' = "llm" /\ status' = "success" /\ action' = "none"
    BY <1>2, <1>4, <1>5 DEF Composed
  <2>2. text # <<>> /\ text \in Seq(Pieces) /\ ~Contains(text, "mask") /\ ~Contains(text, "lie")
    BY <1>5, BoundedTexts, SpokenPieces DEF FactCheckReply
  <2> QED BY <1>1, <1>2, <1>3, <2>1, <2>2, ComposedInv DEF Open, Modes
<1>6. CASE ~FactCheckReply(text)
  <2>1. /\ reply' = BuildTemplateReply(reason') /\ mode' = "template_guard_fallback"
        /\ status' = "guard_fallback" /\ action' = "fact_violation"
    BY <1>4, <1>6 DEF Composed
  <2>2. /\ BuildTemplateReply(reason') \in Seq(Pieces) /\ BuildTemplateReply(reason') # <<>>
        /\ ~Contains(BuildTemplateReply(reason'), "mask")
    BY <1>3, TemplatePieces
  <2> QED BY <1>1, <1>2, <1>3, <2>1, <2>2, ComposedInv DEF Open, Modes, Templates
<1> QED BY <1>5, <1>6

LEMMA ChatThrowsInv == ASSUME ReplyInv, ChatThrows PROVE ReplyInv'
<1>1. /\ pc = "chat" /\ pc' = "composed" /\ reply' = BuildTemplateReply(reason)
      /\ mode' = "template" /\ UNCHANGED <<endpoint, left, heard, page, action, status>>
  BY DEF ChatThrows, Goto, Composed
<1>2. /\ reason \in Written /\ action' = "none" /\ status' # "guard_fallback"
      /\ page' \in Seq(Pieces)
      /\ status' \in {"none", "success", "guard_fallback", "stream_fallback", "template_fallback"}
  BY <1>1 DEF ReplyInv, Untouched, Open, TypeOK
<1>3. reason' \in Pieces
  BY <1>2 DEF ChatThrows, TakesReason
<1>4. /\ BuildTemplateReply(reason) \in Seq(Pieces) /\ BuildTemplateReply(reason) # <<>>
      /\ ~Contains(BuildTemplateReply(reason), "mask")
  BY <1>2, TemplatePieces
<1> QED BY <1>1, <1>2, <1>3, <1>4, ComposedInv DEF Open, Modes, Templates
-----------------------------------------------------------------------------
LEMMA SanitizeOutputInv == ASSUME ReplyInv, SanitizeOutput PROVE ReplyInv'
<1>1. /\ pc = "composed" /\ pc' = "finish" /\ reply' = SanitizeOutputText(reply)
      /\ reason' = Sanitized(reason)
      /\ action' = IF reply' # reply /\ action = "none" THEN "sanitized" ELSE action
      /\ UNCHANGED <<endpoint, left, heard, page, mode, status>>
  BY DEF SanitizeOutput, Goto
<1>2. /\ reply \in Seq(Pieces) /\ reply # <<>> /\ ~Contains(reply, "mask")
      /\ action \in {"none", "fact_violation"}
      /\ action = "fact_violation" <=> status = "guard_fallback"
  BY <1>1 DEF ReplyInv, TypeOK, Whole, NotMasked, Settled
<1>3. /\ reply' \in Seq(Pieces) /\ reply' # <<>> /\ ~Contains(reply', "pii")
      /\ Contains(reply', "lie") => Contains(reply, "lie")
      /\ Contains(reply', "mask") <=> reply' # reply
  BY <1>1, <1>2, SanitizedReply
<1>4. reason' \in Pieces /\ reason' # "pii"
  BY <1>1 DEF ReplyInv, TypeOK, Sanitized
<1>5. TypeOK'
  BY <1>1, <1>2, <1>3, <1>4 DEF ReplyInv, TypeOK
<1>6. Untouched' /\ ShownAsHeard' /\ NotMasked' /\ StreamedReplyIsShown' /\ PageSettles'
  BY <1>1 DEF Untouched, ShownAsHeard, NotMasked, StreamedReplyIsShown, PageSettles, Open
<1>7. Whole' /\ NothingToMask'
  BY <1>1, <1>2, <1>3, <1>4 DEF Whole, NothingToMask
<1>8. ClaimsChecked'
  BY <1>1, <1>3 DEF ReplyInv, ClaimsChecked, Settled
<1>9. InterventionsRecorded'
  BY <1>1, <1>2, <1>3 DEF InterventionsRecorded
<1> QED BY <1>5, <1>6, <1>7, <1>8, <1>9 DEF ReplyInv

LEMMA ShowFinalInv == ASSUME ReplyInv, ShowFinal PROVE ReplyInv'
<1>1. /\ pc = "finish" /\ pc' = "done"
      /\ UNCHANGED <<endpoint, left, heard, reply, reason, mode, action, status>>
  BY DEF ShowFinal, Goto
<1>2. reply \in Seq(Pieces) /\ reply # <<>> /\ ~Contains(reply, "pii") /\ reason # "pii"
  BY <1>1 DEF ReplyInv, TypeOK, Whole, Settled, NothingToMask, Masked
<1>3. page' = reply
  BY <1>2 DEF ShowFinal
<1>4. TypeOK'
  BY <1>1, <1>2, <1>3 DEF ReplyInv, TypeOK
<1>5. Untouched' /\ ShownAsHeard' /\ NotMasked' /\ StreamedReplyIsShown'
  BY <1>1 DEF Untouched, ShownAsHeard, NotMasked, StreamedReplyIsShown, Open
<1>6. Whole' /\ NothingToMask' /\ ClaimsChecked' /\ InterventionsRecorded'
  BY <1>1 DEF ReplyInv, Whole, Settled, NothingToMask, Masked, ClaimsChecked, InterventionsRecorded
<1>7. PageSettles'
  BY <1>1, <1>2, <1>3 DEF PageSettles
<1> QED BY <1>4, <1>5, <1>6, <1>7 DEF ReplyInv

LEMMA NextInv == ASSUME ReplyInv, [Next]_vars PROVE ReplyInv'
<1>1. CASE AskLlm \/ LlmUnhealthy \/ Connect \/ AddressFails \/ StreamEnds
           \/ StreamFails \/ StreamThrows \/ ChatUnparseable
  BY <1>1, WaitingInv
<1>2. CASE ReadToken
  BY <1>2, ReadTokenInv
<1>3. CASE ShortCircuit
  BY <1>3, ShortCircuitInv
<1>4. CASE UseTemplate
  BY <1>4, UseTemplateInv
<1>5. CASE StreamPasses
  BY <1>5, StreamPassesInv
<1>6. CASE StreamViolates
  BY <1>6, StreamViolatesInv
<1>7. CASE ChatParses
  BY <1>7, ChatParsesInv
<1>8. CASE SanitizeOutput
  BY <1>8, SanitizeOutputInv
<1>9. CASE ShowFinal
  BY <1>9, ShowFinalInv
<1>10. CASE ChatThrows
  BY <1>10, ChatThrowsInv
<1>11. CASE UNCHANGED vars
  BY <1>11 DEF vars, ReplyInv, TypeOK, Untouched, ShownAsHeard, Whole, Settled, NotMasked,
               NothingToMask, ClaimsChecked, StreamedReplyIsShown, PageSettles,
               InterventionsRecorded
<1> QED BY <1>1, <1>2, <1>3, <1>4, <1>5, <1>6, <1>7, <1>8, <1>9, <1>10, <1>11 DEF Next

LEMMA Invariance == Spec => []ReplyInv
<1>1. Init => ReplyInv
  BY InitInv
<1>2. ReplyInv /\ [Next]_vars => ReplyInv'
  BY NextInv
<1> QED BY <1>1, <1>2, PTL DEF Spec

(* Texts, modes and records stay well typed.                               *)
THEOREM TypeCorrect == Spec => []TypeOK
<1>1. ReplyInv => TypeOK
  BY DEF ReplyInv
<1> QED BY <1>1, Invariance, PTL

(* No text the LLM wrote as the reply leaves the composer with a price     *)
(* claim that matches no item; only what a template repeats of the items   *)
(* is unchecked.                                                           *)
THEOREM ClaimsAreChecked == Spec => []ClaimsChecked
<1>1. ReplyInv => ClaimsChecked
  BY DEF ReplyInv
<1> QED BY <1>1, Invariance, PTL

(* A reply that is streamed to its end is exactly what the deltas showed.  *)
THEOREM DeltasAreTheReply == Spec => []StreamedReplyIsShown
<1>1. ReplyInv => StreamedReplyIsShown
  BY DEF ReplyInv
<1> QED BY <1>1, Invariance, PTL

(* The page settles on the reply the session keeps, masked like its cards. *)
THEOREM PageAgrees == Spec => []PageSettles
<1>1. ReplyInv => PageSettles
  BY DEF ReplyInv
<1> QED BY <1>1, Invariance, PTL

(* Every intervention of a guard in the text of the reply is on record;    *)
(* masks on the cards alone are not.                                       *)
THEOREM InterventionsAreRecorded == Spec => []InterventionsRecorded
<1>1. ReplyInv => InterventionsRecorded
  BY DEF ReplyInv
<1> QED BY <1>1, Invariance, PTL
=============================================================================
