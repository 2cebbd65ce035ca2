--------------------------- MODULE ChatPageProofs ---------------------------
(***************************************************************************)
(* Conversation and votes stay in order, for any number of messages,       *)
(* presses, broken connections and threads.  The invariant has four parts: *)
(* types; TurnInv, what each request of a message owes its being there to; *)
(* SessionInv, that the request the page waits for works in the page's     *)
(* session or the page has none; VoteInv, that a vote under way is the     *)
(* only one of its reply unless an answer was lost.                        *)
(***************************************************************************)
EXTENDS ChatPage, FiniteSetTheorems, TLAPS

LEMMA FinitePair == ASSUME NEW x, NEW y PROVE IsFiniteSet({x, y})
<1>1. IsFiniteSet({x} \cup {y})
  BY FS_Singleton, FS_AddElement
<1>2. {x, y} = {x} \cup {y}
  OBVIOUS
<1> QED BY <1>1, <1>2

LEMMA FiniteParts ==
  /\ IsFiniteSet(Requests) /\ IsFiniteSet(Messages \X {"chat", "vote"})
  /\ Messages \subseteq Nat
<1> USE PageAssumption DEF PageAssumption, Messages
<1>1. IsFiniteSet(Messages)
  BY FS_Interval
<1>2. IsFiniteSet({"stream", "once"}) /\ IsFiniteSet({"chat", "vote"})
  BY FinitePair
<1>3. IsFiniteSet(Requests) /\ IsFiniteSet(Messages \X {"chat", "vote"})
  BY <1>1, <1>2, FS_Product DEF Requests
<1> QED BY <1>3

LEMMA CardinalityOfPart ==
  ASSUME NEW S, NEW T, S \subseteq T, IsFiniteSet(T), NEW x
  PROVE  /\ Cardinality(S) \in Nat
         /\ Cardinality(S \cup {x}) <= Cardinality(S) + 1
         /\ Cardinality(S \ {x}) <= Cardinality(S)
<1>1. IsFiniteSet(S) /\ Cardinality(S) \in Nat
  BY FS_Subset, FS_CardinalityType
<1>2. Cardinality(S \cup {x}) = IF x \in S THEN Cardinality(S) ELSE Cardinality(S) + 1
  BY <1>1, FS_AddElement
<1>3. Cardinality(S \ {x}) = IF x \in S THEN Cardinality(S) - 1 ELSE Cardinality(S)
  BY <1>1, FS_RemoveElement
<1> QED BY <1>1, <1>2, <1>3

(* The types, by the part of the system that changes them.                 *)
ServerTypes ==
  /\ at \in [Requests -> {"none", "waiting", "refused"} \cup Started]
  /\ session \in [Requests -> Requests \cup {NoRequest}]
  /\ held \subseteq Requests /\ Cardinality(held) <= Pool
PageTypes ==
  /\ mode \in {"ready", "streaming", "falling back"}
  /\ sent \in 0..MaxMessages
  /\ sessionId \in Requests \cup {NoRequest} /\ lastTrace \in Requests \cup {NoRequest}
  /\ events \in {"none", "started", "last"}
  /\ final \in Requests \cup {NoRequest} /\ error \in BOOLEAN
  /\ shown \in [Messages -> Requests \cup {NoRequest}]
  /\ stopped \subseteq Messages
ButtonTypes == button \in [Messages -> {"none", "enabled", "disabled", "done"}]
VoteTypes ==
  /\ vote \in [Messages -> 0..MaxPresses]
  /\ pending \subseteq Vote /\ rows \subseteq Vote
BrokenTypes == broken \subseteq Messages \X {"chat", "vote"} /\ Cardinality(broken) <= MaxBreaks

LEMMA TypeParts ==
  TypeOK <=> ServerTypes /\ PageTypes /\ ButtonTypes /\ VoteTypes /\ BrokenTypes
BY DEF TypeOK, ServerTypes, PageTypes, ButtonTypes, VoteTypes, BrokenTypes

LEMMA TypePartsNext ==
  ServerTypes' /\ PageTypes' /\ ButtonTypes' /\ VoteTypes' /\ BrokenTypes' => TypeOK'
BY DEF TypeOK, ServerTypes, PageTypes, ButtonTypes, VoteTypes, BrokenTypes

LEMMA SentType == ASSUME TypeOK PROVE sent \in Nat
<1>1. sent \in 0..MaxMessages /\ MaxMessages \in Nat
  BY PageAssumption, TypeParts DEF PageAssumption, PageTypes
<1> QED BY <1>1

LEMMA FirstType == ASSUME NEW r \in Requests PROVE r[1] \in Messages /\ r[1] \in Nat
BY FiniteParts DEF Requests

LEMMA InitType == Init => TypeOK
<1> SUFFICES ASSUME Init PROVE TypeOK
  OBVIOUS
<1> USE PageAssumption DEF PageAssumption, Init
<1>0. Cardinality({}) = 0
  BY FS_EmptySet
<1>1. ServerTypes
  BY <1>0 DEF ServerTypes
<1>2. PageTypes
  <2>1. shown \in [Messages -> Requests \cup {NoRequest}] /\ stopped \subseteq Messages
    OBVIOUS
  <2>2. sent \in 0..MaxMessages
    OBVIOUS
  <2>3. error \in BOOLEAN
    OBVIOUS
  <2> QED BY <2>1, <2>2, <2>3 DEF PageTypes
<1>3. ButtonTypes
  BY DEF ButtonTypes
<1>4. VoteTypes
  BY DEF VoteTypes
<1>5. BrokenTypes
  BY <1>0 DEF BrokenTypes
<1> QED BY <1>1, <1>2, <1>3, <1>4, <1>5, TypeParts

LEMMA CurrentRequests ==
  ASSUME PageTypes, sent # 0
  PROVE  sent \in Messages /\ Stream \in Requests /\ Once \in Requests
<1>1. sent \in 0..MaxMessages /\ MaxMessages \in Nat
  BY PageAssumption DEF PageAssumption, PageTypes
<1>2. sent \in Messages
  BY <1>1 DEF Messages
<1> QED BY <1>2 DEF Stream, Once, Requests

LEMMA AskType ==
  ASSUME ServerTypes, PageTypes, NEW r \in Requests, Ask(r)
  PROVE  ServerTypes'
BY DEF ServerTypes, PageTypes, Ask

LEMMA BreakType ==
  ASSUME BrokenTypes, NEW m \in Messages, NEW what \in {"chat", "vote"},
         Cardinality(broken) < MaxBreaks, broken' = broken \cup {<<m, what>>}
  PROVE  BrokenTypes'
<1>1. broken \subseteq Messages \X {"chat", "vote"} /\ MaxBreaks \in Nat
  BY PageAssumption DEF PageAssumption, BrokenTypes
<1>2. /\ Cardinality(broken) \in Nat
      /\ Cardinality(broken \cup {<<m, what>>}) <= Cardinality(broken) + 1
  BY <1>1, FiniteParts, CardinalityOfPart
<1>3. broken' \subseteq Messages \X {"chat", "vote"}
  BY <1>1
<1>4. Cardinality(broken') \in Nat
  BY <1>3, FiniteParts, FS_Subset, FS_CardinalityType
<1> QED BY <1>1, <1>2, <1>3, <1>4 DEF BrokenTypes
-----------------------------------------------------------------------------
(* Whenever the page waits for a reply there is a message it waits for.    *)
UnderWay == mode # "ready" => sent # 0

LEMMA KeptTypes ==
  ASSUME TypeOK
  PROVE  /\ UNCHANGED server => ServerTypes'
         /\ UNCHANGED chat => PageTypes'
         /\ UNCHANGED button => ButtonTypes'
         /\ UNCHANGED feedback => VoteTypes'
         /\ UNCHANGED broken => BrokenTypes'
<1>1. UNCHANGED server => ServerTypes'
  BY TypeParts DEF ServerTypes, server
<1>2. UNCHANGED chat => PageTypes'
  BY TypeParts DEF PageTypes, chat
<1>3. UNCHANGED button => ButtonTypes'
  BY TypeParts DEF ButtonTypes
<1>4. UNCHANGED feedback => VoteTypes'
  BY TypeParts DEF VoteTypes, feedback
<1>5. UNCHANGED broken => BrokenTypes'
  BY TypeParts DEF BrokenTypes
<1> QED BY <1>1, <1>2, <1>3, <1>4, <1>5

LEMMA SendType == ASSUME TypeOK, Send PROVE TypeOK'
<1>1. sent \in 0..MaxMessages /\ MaxMessages \in Nat
  BY PageAssumption, TypeParts DEF PageAssumption, PageTypes
<1>2. sent < MaxMessages /\ sent' = sent + 1
  BY DEF Send
<1>3. sent + 1 \in Messages /\ sent' \in 0..MaxMessages
  BY <1>1, <1>2 DEF Messages
<1>4. ServerTypes'
  BY <1>3, AskType, TypeParts DEF Send, Requests
<1>5. PageTypes'
  BY <1>3, TypeParts DEF Send, PageTypes
<1> QED BY <1>4, <1>5, KeptTypes, TypePartsNext DEF Send

LEMMA ReadStartedType == ASSUME TypeOK, UnderWay, ReadStarted PROVE TypeOK'
<1>1. Stream \in Requests
  BY CurrentRequests, TypeParts DEF UnderWay, ReadStarted
<1>2. session[Stream] \in Requests \cup {NoRequest}
  BY <1>1, TypeParts DEF ServerTypes
<1>3. PageTypes'
  BY <1>2, TypeParts DEF ReadStarted, PageTypes
<1> QED BY <1>3, KeptTypes, TypePartsNext DEF ReadStarted

LEMMA ReadLastType == ASSUME TypeOK, UnderWay, ReadLast PROVE TypeOK'
<1>1. Stream \in Requests
  BY CurrentRequests, TypeParts DEF UnderWay, ReadLast
<1>2. error' \in BOOLEAN
  BY DEF ReadLast
<1>3. final' \in Requests \cup {NoRequest}
  BY <1>1, TypeParts DEF ReadLast, PageTypes
<1>4. events' \in {"none", "started", "last"}
  BY DEF ReadLast
<1>5. PageTypes'
  BY <1>2, <1>3, <1>4, TypeParts DEF ReadLast, PageTypes
<1> QED BY <1>5, KeptTypes, TypePartsNext DEF ReadLast

LEMMA FinishType ==
  ASSUME TypeOK, UnderWay, NEW f \in Requests \cup {NoRequest}, NEW e, Finish(f, e),
         sessionId' \in Requests \cup {NoRequest}
  PROVE  PageTypes' /\ ButtonTypes' /\ VoteTypes'
<1>1. /\ lastTrace' \in Requests \cup {NoRequest}
      /\ shown' \in [Messages -> Requests \cup {NoRequest}]
  BY TypeParts DEF Finish, PageTypes
<1>2. ButtonTypes'
  BY TypeParts DEF Finish, ButtonTypes
<1>3. error' \in BOOLEAN /\ events' \in {"none", "started", "last"}
      /\ final' \in Requests \cup {NoRequest}
  BY DEF Finish
<1>4. mode' \in {"ready", "streaming", "falling back"} /\ sent' = sent /\ stopped' = stopped
  BY DEF Finish
<1>5. PageTypes'
  BY <1>1, <1>3, <1>4, TypeParts DEF PageTypes
<1> QED BY <1>2, <1>5, KeptTypes DEF Finish

LEMMA StreamEndsType == ASSUME TypeOK, UnderWay, StreamEnds PROVE TypeOK'
<1>1. final \in Requests \cup {NoRequest} /\ sessionId' \in Requests \cup {NoRequest}
  BY TypeParts DEF StreamEnds, PageTypes
<1>2. PageTypes' /\ ButtonTypes' /\ VoteTypes'
  BY <1>1, FinishType DEF StreamEnds
<1> QED BY <1>2, KeptTypes, TypePartsNext DEF StreamEnds

LEMMA FallBackType == ASSUME TypeOK, UnderWay, FallBack PROVE TypeOK'
<1>1. sent \in Messages /\ Once \in Requests
  BY CurrentRequests, TypeParts DEF UnderWay, FallBack
<1>2. ServerTypes'
  BY <1>1, AskType, TypeParts DEF FallBack
<1>3. BrokenTypes'
  BY <1>1, BreakType, KeptTypes, TypeParts DEF FallBack, Break
<1>4. PageTypes'
  BY TypeParts DEF FallBack, PageTypes
<1> QED BY <1>2, <1>3, <1>4, KeptTypes, TypePartsNext DEF FallBack

LEMMA FallbackAnswerType == ASSUME TypeOK, UnderWay, FallbackAnswer PROVE TypeOK'
<1>1. Once \in Requests
  BY CurrentRequests, TypeParts DEF UnderWay, FallbackAnswer
<1>2. sessionId' \in Requests \cup {NoRequest}
  BY <1>1, TypeParts DEF FallbackAnswer, ServerTypes
<1>3. PageTypes' /\ ButtonTypes' /\ VoteTypes'
  BY <1>1, <1>2, FinishType DEF FallbackAnswer
<1> QED BY <1>3, KeptTypes, TypePartsNext DEF FallbackAnswer

LEMMA FallbackFailsType == ASSUME TypeOK, UnderWay, FallbackFails PROVE TypeOK'
<1>1. sent \in Messages
  BY CurrentRequests, TypeParts DEF UnderWay, FallbackFails
<1>2. BrokenTypes'
  BY <1>1, BreakType, KeptTypes, TypeParts DEF FallbackFails, Break
<1>3. sessionId' \in Requests \cup {NoRequest}
  BY TypeParts DEF FallbackFails, PageTypes
<1>4. PageTypes' /\ ButtonTypes' /\ VoteTypes'
  BY <1>3, FinishType DEF FallbackFails
<1> QED BY <1>2, <1>4, KeptTypes, TypePartsNext DEF FallbackFails

LEMMA StopType == ASSUME TypeOK, UnderWay, Stop PROVE TypeOK'
<1>1. sent \in Messages
  BY CurrentRequests, TypeParts DEF UnderWay, Stop
<1>2. error' \in BOOLEAN
  BY DEF Stop
<1>3. PageTypes'
  BY <1>1, <1>2, TypeParts DEF Stop, PageTypes
<1> QED BY <1>3, KeptTypes, TypePartsNext DEF Stop

LEMMA HeldType ==
  ASSUME ServerTypes, NEW r \in Requests
  PROVE  /\ Cardinality(held \ {r}) <= Pool
         /\ ThreadFree => Cardinality(held \cup {r}) <= Pool
<1>1. Pool \in Nat /\ held \subseteq Requests /\ Cardinality(held) <= Pool
  BY PageAssumption DEF PageAssumption, ServerTypes
<1>2. /\ Cardinality(held) \in Nat
      /\ Cardinality(held \cup {r}) <= Cardinality(held) + 1
      /\ Cardinality(held \ {r}) <= Cardinality(held)
  BY <1>1, FiniteParts, CardinalityOfPart
<1>3. Cardinality(held \cup {r}) \in Nat /\ Cardinality(held \ {r}) \in Nat
  BY <1>1, FiniteParts, FS_Subset, FS_CardinalityType
<1> QED BY <1>1, <1>2, <1>3 DEF ThreadFree

LEMMA ServeType == ASSUME TypeOK, NEW r \in Requests, Serve(r) PROVE TypeOK'
<1>1. /\ at \in [Requests -> {"none", "waiting", "refused"} \cup Started]
      /\ session \in [Requests -> Requests \cup {NoRequest}]
      /\ held \subseteq Requests
  BY TypeParts DEF ServerTypes
<1>2. ASSUME Refuse(r) \/ Advance(r) PROVE ServerTypes'
  BY <1>1, <1>2, TypeParts DEF Refuse, Advance, ServerTypes, Started
<1>3. ASSUME Begin(r) PROVE ServerTypes'
  <2>1. Cardinality(held') <= Pool
    BY <1>3, HeldType, TypeParts DEF Begin
  <2> QED BY <1>1, <1>3, <2>1 DEF Begin, ServerTypes, Started
<1>4. ASSUME Release(r) PROVE ServerTypes'
  <2>1. Cardinality(held') <= Pool
    BY <1>4, HeldType, TypeParts DEF Release
  <2> QED BY <1>1, <1>4, <2>1 DEF Release, ServerTypes
<1>5. UNCHANGED <<chat, button, feedback, broken>>
  BY DEF Serve, Refuse, Begin, Advance, Release
<1>6. ServerTypes'
  BY <1>2, <1>3, <1>4 DEF Serve
<1> QED BY <1>5, <1>6, KeptTypes, TypePartsNext

LEMMA PressType == ASSUME TypeOK, NEW m \in Messages, Press(m) PROVE TypeOK'
<1>1. vote[m] \in 0..MaxPresses /\ MaxPresses \in Nat /\ vote[m] < MaxPresses
  BY PageAssumption, TypeParts DEF PageAssumption, VoteTypes, Press
<1>2. vote[m] + 1 \in 1..MaxPresses /\ vote[m] + 1 \in 0..MaxPresses
  BY <1>1
<1>3. sessionId \in Requests /\ lastTrace \in Requests \cup {NoRequest}
  BY TypeParts DEF PageTypes, Press
<1>4. pending' \subseteq Vote
  BY <1>2, <1>3, TypeParts DEF Press, VoteTypes, Vote
<1>5. VoteTypes'
  BY <1>2, <1>4, TypeParts DEF Press, VoteTypes
<1>6. ButtonTypes'
  BY TypeParts DEF Press, ButtonTypes
<1> QED BY <1>5, <1>6, KeptTypes, TypePartsNext DEF Press

LEMMA HandleVoteType == ASSUME TypeOK, NEW v \in pending, HandleVote(v) PROVE TypeOK'
<1>1. VoteTypes'
  BY TypeParts DEF HandleVote, VoteTypes
<1> QED BY <1>1, KeptTypes, TypePartsNext DEF HandleVote

LEMMA VoteAnsweredType == ASSUME TypeOK, NEW m \in Messages, VoteAnswered(m) PROVE TypeOK'
<1>1. ButtonTypes'
  BY TypeParts DEF VoteAnswered, ButtonTypes
<1> QED BY <1>1, KeptTypes, TypePartsNext DEF VoteAnswered

LEMMA VoteFailsType == ASSUME TypeOK, NEW m \in Messages, VoteFails(m) PROVE TypeOK'
<1>5. BrokenTypes'
  BY BreakType, TypeParts DEF VoteFails
<1>6. ButtonTypes'
  BY TypeParts DEF VoteFails, ButtonTypes
<1>7. VoteTypes'
  BY TypeParts DEF VoteFails, VoteTypes
<1> QED BY <1>5, <1>6, <1>7, KeptTypes, TypePartsNext DEF VoteFails
-----------------------------------------------------------------------------
(* What keeps the turns in order.  The requests of a message that has not  *)
(* been sent are untouched; the second one exists only because the first   *)
(* was refused or broke; and what the page no longer waits for has ended,  *)
(* was stopped or broke.                                                   *)
Working == {"waiting", "begun", "asked"}
Excused(r) == r[1] \in stopped \/ <<r[1], "chat">> \in broken

Untouched == \A r \in Requests : r[1] > sent => at[r] = "none"
OnceSecond == /\ mode = "streaming" => at[Once] = "none"
              /\ mode = "falling back" => at[Once] # "none"
AskedAgain ==
  \A m \in Messages :
    at[<<m, "once">>] # "none" => at[<<m, "stream">>] = "refused" \/ <<m, "chat">> \in broken
LeftBehind ==
  \A r \in Requests :
    at[r] \in Working /\ (r[1] < sent \/ mode = "ready") => Excused(r)
ReadSoFar ==
  mode = "streaming" =>
    /\ events # "none" => at[Stream] \in Started
    /\ events = "last" => at[Stream] \in Ended
    /\ final # NoRequest => final = Stream /\ events = "last"

TurnInv == UnderWay /\ Untouched /\ OnceSecond /\ AskedAgain /\ LeftBehind /\ ReadSoFar

LEMMA TurnInit == Init => TurnInv
<1> SUFFICES ASSUME Init PROVE TurnInv
  OBVIOUS
<1>1. \A r \in Requests : at[r] = "none"
  BY DEF Init
<1>2. \A m \in Messages : <<m, "once">> \in Requests
  BY DEF Requests
<1> QED BY <1>1, <1>2
        DEF Init, TurnInv, UnderWay, Untouched, OnceSecond, AskedAgain, LeftBehind, ReadSoFar, Working

LEMMA SendTurn == ASSUME TypeOK, TurnInv, Send PROVE TurnInv'
<1> DEFINE new == <<sent + 1, "stream">>
<1>1. sent \in Nat /\ sent + 1 \in Messages /\ mode = "ready" /\ sent' = sent + 1
  <2>1. sent \in 0..MaxMessages /\ MaxMessages \in Nat /\ sent < MaxMessages
    BY PageAssumption, TypeParts DEF PageAssumption, PageTypes, Send
  <2> QED BY <2>1 DEF Messages, Send
<1>2. /\ new \in Requests /\ new[1] = sent + 1
      /\ \A r \in Requests : r[1] \in Nat
      /\ \A m \in Messages : <<m, "once">> \in Requests /\ <<m, "once">> # new
  BY <1>1, FiniteParts DEF Requests
<1>3. /\ at' = [at EXCEPT ![new] = "waiting"]
      /\ \A r \in Requests : r # new => at'[r] = at[r]
  BY <1>1, <1>2, TypeParts DEF Send, Ask, ServerTypes
<1>4. UNCHANGED <<stopped, broken>> /\ mode' = "streaming" /\ events' = "none" /\ final' = NoRequest
  BY DEF Send
<1>5. UnderWay' /\ ReadSoFar'
  BY <1>1, <1>4 DEF UnderWay, ReadSoFar
<1>6. Untouched'
  BY <1>1, <1>2, <1>3 DEF TurnInv, Untouched
<1>7. OnceSecond'
  BY <1>1, <1>2, <1>3, <1>4 DEF TurnInv, Untouched, OnceSecond, Once
<1>8. AskedAgain'
  <2> SUFFICES ASSUME NEW m \in Messages, at'[<<m, "once">>] # "none"
               PROVE  at'[<<m, "stream">>] = "refused" \/ <<m, "chat">> \in broken'
    BY DEF AskedAgain
  <2>1. at[<<m, "once">>] # "none"
    BY <1>2, <1>3
  <2>2. m # sent + 1
    BY <1>1, <1>2, <2>1 DEF TurnInv, Untouched
  <2>3. <<m, "stream">> \in Requests /\ <<m, "stream">> # new
    BY <2>2 DEF Requests
  <2> QED BY <1>3, <1>4, <2>1, <2>3 DEF TurnInv, AskedAgain
<1>9. LeftBehind'
  BY <1>1, <1>2, <1>3, <1>4 DEF TurnInv, LeftBehind, Untouched, Working, Excused
<1> QED BY <1>5, <1>6, <1>7, <1>8, <1>9 DEF TurnInv

(* Steps that neither ask nor serve anything.                              *)
LEMMA ReadTurn == ASSUME TypeOK, TurnInv, ReadStarted \/ ReadLast PROVE TurnInv'
<1>1. UNCHANGED <<at, session, mode, sent, stopped, broken>> /\ mode = "streaming"
  BY DEF ReadStarted, ReadLast, server
<1>2. UnderWay' /\ Untouched' /\ OnceSecond' /\ AskedAgain' /\ LeftBehind'
  BY <1>1 DEF TurnInv, UnderWay, Untouched, OnceSecond, Once, AskedAgain, LeftBehind, Excused
<1>3. ASSUME ReadStarted PROVE ReadSoFar'
  <2>1. at[Stream] \in Started /\ events = "none" /\ events' = "started" /\ UNCHANGED final
    BY <1>3 DEF ReadStarted
  <2> QED BY <1>1, <2>1 DEF TurnInv, ReadSoFar, Stream
<1>4. ASSUME ReadLast PROVE ReadSoFar'
  <2>1. at[Stream] \in Ended /\ events' = "last" /\ events = "started"
    BY <1>4 DEF ReadLast
  <2>2. final' = IF at[Stream] = "final" THEN Stream ELSE final
    BY <1>4 DEF ReadLast
  <2> QED BY <1>1, <2>1, <2>2 DEF TurnInv, ReadSoFar, Stream
<1> QED BY <1>2, <1>3, <1>4 DEF TurnInv

(* The page stops waiting: the one step after which no request of the      *)
(* message may be left working without an excuse.                          *)
LEMMA ReadyTurn ==
  ASSUME TypeOK, TurnInv, mode # "ready", mode' = "ready", UNCHANGED <<at, sent>>,
         stopped \subseteq stopped', broken \subseteq broken',
         \A r \in Requests : r[1] = sent /\ at[r] \in Working => Excused(r)'
  PROVE  TurnInv'
<1>1. sent \in Nat /\ \A r \in Requests : r[1] \in Nat
  BY SentType, FirstType
<1>2. UnderWay' /\ OnceSecond' /\ ReadSoFar'
  BY DEF UnderWay, OnceSecond, ReadSoFar
<1>3. Untouched' /\ AskedAgain'
  BY DEF TurnInv, Untouched, AskedAgain
<1>4. LeftBehind'
  <2> SUFFICES ASSUME NEW r \in Requests, at[r] \in Working PROVE Excused(r)'
    BY DEF LeftBehind
  <2>1. r[1] <= sent
    BY <1>1 DEF TurnInv, Untouched, Working
  <2>2. CASE r[1] < sent
    BY <2>2 DEF TurnInv, LeftBehind, Excused
  <2>3. CASE r[1] = sent
    BY <2>3
  <2> QED BY <1>1, <2>1, <2>2, <2>3
<1> QED BY <1>2, <1>3, <1>4 DEF TurnInv

LEMMA RequestsOf ==
  ASSUME NEW r \in Requests
  PROVE  r = <<r[1], "stream">> \/ r = <<r[1], "once">>
BY DEF Requests

LEMMA StreamEndsTurn == ASSUME TypeOK, TurnInv, StreamEnds PROVE TurnInv'
<1>1. /\ mode = "streaming" /\ mode' = "ready" /\ events = "last"
      /\ UNCHANGED <<at, sent, stopped, broken>>
  BY DEF StreamEnds, Finish, server
<1>2. at[Stream] \in Ended /\ at[Once] = "none"
  BY <1>1 DEF TurnInv, ReadSoFar, OnceSecond
<1>3. \A r \in Requests : r[1] = sent => at[r] \notin Working
  BY <1>2, RequestsOf DEF Stream, Once, Working, Ended
<1> QED BY <1>1, <1>3, ReadyTurn

LEMMA FallbackAnswerTurn == ASSUME TypeOK, TurnInv, FallbackAnswer PROVE TurnInv'
<1>1. /\ mode = "falling back" /\ mode' = "ready" /\ at[Once] \in Ended
      /\ UNCHANGED <<at, sent, stopped, broken>>
  BY DEF FallbackAnswer, Finish, server
<1>2. at[Stream] = "refused" \/ <<sent, "chat">> \in broken
  BY <1>1, CurrentRequests, TypeParts DEF TurnInv, UnderWay, AskedAgain, Stream, Once, Ended
<1>3. \A r \in Requests : r[1] = sent /\ at[r] \in Working => Excused(r)'
  BY <1>1, <1>2, RequestsOf DEF Stream, Once, Working, Ended, Excused
<1> QED BY <1>1, <1>3, ReadyTurn

LEMMA FallbackFailsTurn == ASSUME TypeOK, TurnInv, FallbackFails PROVE TurnInv'
<1>1. /\ mode = "falling back" /\ mode' = "ready" /\ UNCHANGED <<at, sent, stopped>>
      /\ broken \subseteq broken'
      /\ at[Once] = "refused" \/ <<sent, "chat">> \in broken'
  BY DEF FallbackFails, Finish, server, Break
<1>2. at[Stream] = "refused" \/ <<sent, "chat">> \in broken
  BY <1>1, CurrentRequests, TypeParts DEF TurnInv, UnderWay, AskedAgain, OnceSecond, Stream, Once
<1>3. \A r \in Requests : r[1] = sent /\ at[r] \in Working => Excused(r)'
  BY <1>1, <1>2, RequestsOf DEF Stream, Once, Working, Excused
<1> QED BY <1>1, <1>3, ReadyTurn

LEMMA StopTurn == ASSUME TypeOK, TurnInv, Stop PROVE TurnInv'
<1>1. /\ mode = "streaming" /\ mode' = "ready" /\ UNCHANGED <<at, sent, broken>>
      /\ stopped' = stopped \cup {sent}
  BY DEF Stop, server
<1>2. \A r \in Requests : r[1] = sent => Excused(r)'
  BY <1>1 DEF Excused
<1> QED BY <1>1, <1>2, ReadyTurn

LEMMA FallBackTurn == ASSUME TypeOK, TurnInv, FallBack PROVE TurnInv'
<1>1. /\ mode = "streaming" /\ mode' = "falling back" /\ UNCHANGED <<sent, stopped>>
      /\ broken \subseteq broken' /\ at' = [at EXCEPT ![Once] = "waiting"]
      /\ at[Stream] = "refused" \/ <<sent, "chat">> \in broken'
  BY DEF FallBack, Break, Ask
<1>2. sent \in Messages /\ Once \in Requests /\ sent \in Nat
  BY <1>1, CurrentRequests, SentType, TypeParts DEF TurnInv, UnderWay
<1>3. /\ at'[Once] = "waiting" /\ \A r \in Requests : r # Once => at'[r] = at[r]
      /\ Once[1] = sent
  BY <1>1, <1>2, TypeParts DEF ServerTypes, Once
<1>4. \A r \in Requests : r[1] > sent \/ r[1] < sent => at'[r] = at[r]
  BY <1>2, <1>3, FirstType
<1>5. UnderWay' /\ ReadSoFar'
  BY <1>1 DEF TurnInv, UnderWay, ReadSoFar
<1>6. Untouched'
  BY <1>1, <1>4 DEF TurnInv, Untouched
<1>7. OnceSecond'
  BY <1>1, <1>3 DEF OnceSecond, Once
<1>8. AskedAgain'
  <2> SUFFICES ASSUME NEW m \in Messages, at'[<<m, "once">>] # "none"
               PROVE  at'[<<m, "stream">>] = "refused" \/ <<m, "chat">> \in broken'
    BY DEF AskedAgain
  <2>1. <<m, "stream">> \in Requests /\ <<m, "once">> \in Requests /\ <<m, "stream">> # Once
    BY DEF Requests, Once
  <2>2. CASE m = sent
    BY <1>1, <1>3, <2>1, <2>2 DEF Stream
  <2>3. CASE m # sent
    BY <1>1, <1>3, <2>1, <2>3 DEF TurnInv, AskedAgain, Once
  <2> QED BY <2>2, <2>3
<1>9. LeftBehind'
  BY <1>1, <1>4 DEF TurnInv, LeftBehind, Excused
<1> QED BY <1>5, <1>6, <1>7, <1>8, <1>9 DEF TurnInv

(* A request goes on: out of "waiting" or within what it does, never back. *)
LEMMA ServeTurn == ASSUME TypeOK, TurnInv, NEW q \in Requests, Serve(q) PROVE TurnInv'
<1>1. UNCHANGED <<mode, sent, events, final, stopped, broken>>
  BY DEF Serve, Refuse, Begin, Advance, Release, chat
<1>2. /\ at[q] # "none" /\ (at'[q] = at[q] \/ (at[q] \in Working /\ at'[q] # "none"))
      /\ \A r \in Requests : r # q => at'[r] = at[r]
  <2>1. at \in [Requests -> {"none", "waiting", "refused"} \cup Started]
    BY TypeParts DEF ServerTypes
  <2>2. CASE Refuse(q)
    BY <2>1, <2>2 DEF Refuse, Working
  <2>3. CASE Begin(q)
    BY <2>1, <2>3 DEF Begin, Working
  <2>4. CASE Advance(q)
    BY <2>1, <2>4 DEF Advance, Working
  <2>5. CASE Release(q)
    BY <2>1, <2>5 DEF Release, Ended
  <2> QED BY <2>2, <2>3, <2>4, <2>5 DEF Serve
<1>3. /\ at[q] \in Started => at'[q] \in Started
      /\ at[q] \in Ended \cup {"refused"} => at'[q] = at[q]
  BY <1>2, TypeParts DEF Working, Ended, Started, Serve, Refuse, Begin, Advance, Release, ServerTypes
<1>4. UnderWay' /\ Untouched'
  BY <1>1, <1>2 DEF TurnInv, UnderWay, Untouched
<1>5. mode # "ready" => Stream \in Requests /\ Once \in Requests
  BY CurrentRequests, TypeParts DEF TurnInv, UnderWay
<1>6. OnceSecond'
  BY <1>1, <1>2, <1>5 DEF TurnInv, OnceSecond, Once
<1>7. AskedAgain'
  <2> SUFFICES ASSUME NEW m \in Messages, at'[<<m, "once">>] # "none"
               PROVE  at'[<<m, "stream">>] = "refused" \/ <<m, "chat">> \in broken'
    BY DEF AskedAgain
  <2>1. <<m, "stream">> \in Requests /\ <<m, "once">> \in Requests
    BY DEF Requests
  <2> QED BY <1>1, <1>2, <1>3, <2>1 DEF TurnInv, AskedAgain
<1>8. LeftBehind'
  BY <1>1, <1>2 DEF TurnInv, LeftBehind, Excused
<1>9. ReadSoFar'
  BY <1>1, <1>2, <1>3, <1>5 DEF TurnInv, ReadSoFar, Stream
<1> QED BY <1>4, <1>6, <1>7, <1>8, <1>9 DEF TurnInv

LEMMA KeptTurn ==
  ASSUME TypeOK, TurnInv, UNCHANGED <<at, mode, sent, events, final, stopped>>, broken \subseteq broken'
  PROVE  TurnInv'
BY DEF TurnInv, UnderWay, Untouched, OnceSecond, Once, AskedAgain, LeftBehind, Excused,
       ReadSoFar, Stream
-----------------------------------------------------------------------------
(* What keeps the replies in one conversation: the request the page waits  *)
(* for works in the page's session, or the page has none yet.              *)
HasSession == \A r \in Requests : at[r] \in Started => session[r] # NoRequest
SessionOf(r) == session[r] = sessionId \/ sessionId = NoRequest
Waited == /\ mode = "streaming" => SessionOf(Stream)
          /\ mode = "falling back" => SessionOf(Once)
          /\ mode = "streaming" /\ events # "none" => sessionId # NoRequest
ShownHere ==
  \A m \in Messages : shown[m] # NoRequest =>
    at[shown[m]] \in Ended /\ session[shown[m]] = sessionId /\ sessionId # NoRequest

SessionInv == HasSession /\ Waited /\ ShownHere

LEMMA SessionInit == Init => SessionInv
BY DEF Init, SessionInv, HasSession, Waited, ShownHere, Started

LEMMA ShownType ==
  ASSUME TypeOK, NEW m \in Messages, shown[m] # NoRequest
  PROVE  shown[m] \in Requests
BY TypeParts DEF PageTypes

(* Asking again gives a session to a request that nobody has seen.         *)
LEMMA AskSession ==
  ASSUME TypeOK, SessionInv, NEW r \in Requests, Ask(r), at[r] = "none",
         UNCHANGED <<sessionId, shown>>
  PROVE  HasSession' /\ ShownHere' /\ session'[r] = sessionId
<1>1. /\ at'[r] = "waiting" /\ session'[r] = sessionId
      /\ \A q \in Requests : q # r => at'[q] = at[q] /\ session'[q] = session[q]
  BY TypeParts DEF Ask, ServerTypes
<1>2. HasSession'
  BY <1>1 DEF SessionInv, HasSession, Started
<1>3. ShownHere'
  <2> SUFFICES ASSUME NEW m \in Messages, shown[m] # NoRequest
               PROVE  /\ at'[shown[m]] \in Ended /\ session'[shown[m]] = sessionId
                      /\ sessionId # NoRequest
    BY DEF ShownHere
  <2>1. shown[m] \in Requests /\ shown[m] # r
    BY ShownType DEF SessionInv, ShownHere, Ended
  <2> QED BY <1>1, <2>1 DEF SessionInv, ShownHere
<1> QED BY <1>1, <1>2, <1>3

LEMMA SendSession == ASSUME TypeOK, TurnInv, SessionInv, Send PROVE SessionInv'
<1> DEFINE new == <<sent + 1, "stream">>
<1>1. sent \in Nat /\ sent + 1 \in Messages
  <2>1. sent \in 0..MaxMessages /\ MaxMessages \in Nat /\ sent < MaxMessages
    BY PageAssumption, TypeParts DEF PageAssumption, PageTypes, Send
  <2> QED BY <2>1 DEF Messages
<1>2. new \in Requests /\ new[1] = sent + 1
  BY <1>1 DEF Requests
<1>3. at[new] = "none"
  BY <1>1, <1>2 DEF TurnInv, Untouched
<1>4. HasSession' /\ ShownHere' /\ session'[new] = sessionId
  BY <1>2, <1>3, AskSession DEF Send
<1>5. Waited'
  BY <1>4 DEF Send, Waited, SessionOf, Stream
<1> QED BY <1>4, <1>5 DEF SessionInv

LEMMA FallBackSession == ASSUME TypeOK, TurnInv, SessionInv, FallBack PROVE SessionInv'
<1>1. Once \in Requests /\ at[Once] = "none"
  BY CurrentRequests, TypeParts DEF TurnInv, UnderWay, OnceSecond, FallBack
<1>2. HasSession' /\ ShownHere' /\ session'[Once] = sessionId
  BY <1>1, AskSession DEF FallBack
<1>3. Waited'
  BY <1>2 DEF FallBack, Waited, SessionOf, Once
<1> QED BY <1>2, <1>3 DEF SessionInv

(* The page learns its session: from a request that works in it already.   *)
LEMMA LearnedSession ==
  ASSUME TypeOK, SessionInv, NEW r \in Requests, SessionOf(r), session[r] # NoRequest,
         sessionId' = session[r]
  PROVE  \A m \in Messages : shown[m] # NoRequest => sessionId' = sessionId
BY DEF SessionInv, ShownHere, SessionOf

LEMMA ReadStartedSession == ASSUME TypeOK, TurnInv, SessionInv, ReadStarted PROVE SessionInv'
<1>1. /\ mode = "streaming" /\ at[Stream] \in Started /\ sessionId' = session[Stream]
      /\ UNCHANGED <<at, session, mode, sent, shown>>
  BY DEF ReadStarted, server
<1>2. Stream \in Requests
  BY <1>1, CurrentRequests, TypeParts DEF TurnInv, UnderWay
<1>3. SessionOf(Stream) /\ session[Stream] # NoRequest
  BY <1>1, <1>2 DEF SessionInv, HasSession, Waited
<1>4. \A m \in Messages : shown[m] # NoRequest => sessionId' = sessionId
  BY <1>1, <1>2, <1>3, LearnedSession
<1>5. HasSession' /\ ShownHere'
  BY <1>1, <1>4 DEF SessionInv, HasSession, ShownHere
<1>6. Waited'
  BY <1>1, <1>3 DEF Waited, SessionOf, Stream
<1> QED BY <1>5, <1>6 DEF SessionInv

LEMMA ReadLastSession == ASSUME TypeOK, SessionInv, ReadLast PROVE SessionInv'
<1>1. UNCHANGED <<at, session, mode, sent, sessionId, shown>> /\ events = "started"
  BY DEF ReadLast, server
<1> QED BY <1>1 DEF SessionInv, HasSession, Waited, SessionOf, Stream, Once, ShownHere

(* A reply that is shown is one of the session the page is in.             *)
LEMMA FinishSession ==
  ASSUME TypeOK, TurnInv, SessionInv, NEW f \in Requests \cup {NoRequest}, NEW e, Finish(f, e),
         mode # "ready", UNCHANGED server,
         ~e /\ f # NoRequest => at[f] \in Ended /\ session[f] = sessionId' /\ sessionId' # NoRequest,
         \A m \in Messages : shown[m] # NoRequest => sessionId' = sessionId
  PROVE  SessionInv'
<1>1. UNCHANGED <<at, session>> /\ mode' = "ready"
  BY DEF Finish, server
<1>2. HasSession' /\ Waited'
  BY <1>1 DEF SessionInv, HasSession, Waited
<1>3. ShownHere'
  <2>1. CASE e /\ UNCHANGED shown
    BY <1>1, <2>1 DEF SessionInv, ShownHere
  <2>2. CASE ~e /\ shown' = [shown EXCEPT ![sent] = f]
    <3> SUFFICES ASSUME NEW m \in Messages, shown'[m] # NoRequest
                 PROVE  /\ at[shown'[m]] \in Ended /\ session[shown'[m]] = sessionId'
                        /\ sessionId' # NoRequest
      BY <1>1 DEF ShownHere
    <3>1. CASE m = sent
      BY <2>2, <3>1, TypeParts DEF PageTypes
    <3>2. CASE m # sent
      BY <2>2, <3>2, TypeParts DEF PageTypes, SessionInv, ShownHere
    <3> QED BY <3>1, <3>2
  <2> QED BY <2>1, <2>2 DEF Finish
<1> QED BY <1>2, <1>3 DEF SessionInv

LEMMA StreamEndsSession == ASSUME TypeOK, TurnInv, SessionInv, StreamEnds PROVE SessionInv'
<1>1. mode = "streaming" /\ events = "last" /\ Finish(final, error) /\ UNCHANGED <<server, sessionId>>
  BY DEF StreamEnds
<1>2. final \in Requests \cup {NoRequest}
  BY TypeParts DEF PageTypes
<1>3. final # NoRequest => at[final] \in Ended /\ session[final] = sessionId /\ sessionId # NoRequest
  BY <1>1 DEF TurnInv, ReadSoFar, SessionInv, Waited, SessionOf
<1> QED BY <1>1, <1>2, <1>3, FinishSession

LEMMA FallbackAnswerSession == ASSUME TypeOK, TurnInv, SessionInv, FallbackAnswer PROVE SessionInv'
<1>1. /\ mode = "falling back" /\ at[Once] \in Ended /\ sessionId' = session[Once]
      /\ Finish(Once, error) /\ UNCHANGED server
  BY DEF FallbackAnswer
<1>2. Once \in Requests
  BY <1>1, CurrentRequests, TypeParts DEF TurnInv, UnderWay
<1>3. SessionOf(Once) /\ session[Once] # NoRequest
  BY <1>1, <1>2 DEF SessionInv, HasSession, Waited, Started, Ended
<1>4. \A m \in Messages : shown[m] # NoRequest => sessionId' = sessionId
  BY <1>1, <1>2, <1>3, LearnedSession
<1> QED BY <1>1, <1>2, <1>3, <1>4, FinishSession

LEMMA FallbackFailsSession == ASSUME TypeOK, TurnInv, SessionInv, FallbackFails PROVE SessionInv'
BY FinishSession DEF FallbackFails

LEMMA StopSession == ASSUME TypeOK, SessionInv, Stop PROVE SessionInv'
<1>1. UNCHANGED <<at, session, sessionId, shown>> /\ mode' = "ready"
  BY DEF Stop, server
<1> QED BY <1>1 DEF SessionInv, HasSession, Waited, ShownHere

(* A request without a session creates one; nobody else's changes.         *)
LEMMA ServeSession ==
  ASSUME TypeOK, TurnInv, SessionInv, NEW q \in Requests, Serve(q)
  PROVE  SessionInv'
<1>1. UNCHANGED <<mode, sent, sessionId, events, shown>>
  BY DEF Serve, Refuse, Begin, Advance, Release, chat
<1>2. q # NoRequest
  BY PageAssumption DEF PageAssumption
<1>3. /\ \A r \in Requests : session[r] # NoRequest => session'[r] = session[r]
      /\ \A r \in Requests : at'[r] \in Started => at[r] \in Started \/ session'[r] # NoRequest
      /\ \A r \in Requests : at[r] \in Ended => at'[r] = at[r]
      /\ \A r \in Requests : session'[r] # session[r] => session[r] = NoRequest
  <2>1. /\ at \in [Requests -> {"none", "waiting", "refused"} \cup Started]
        /\ session \in [Requests -> Requests \cup {NoRequest}]
    BY TypeParts DEF ServerTypes
  <2>2. CASE Refuse(q)
    BY <2>1, <2>2 DEF Refuse, Started, Ended
  <2>3. CASE Begin(q)
    BY <1>2, <2>1, <2>3 DEF Begin, Started, Ended
  <2>4. CASE Advance(q)
    BY <2>1, <2>4 DEF Advance, Started, Ended
  <2>5. CASE Release(q)
    BY <2>1, <2>5 DEF Release
  <2> QED BY <2>2, <2>3, <2>4, <2>5 DEF Serve
<1>4. HasSession'
  BY <1>3 DEF SessionInv, HasSession
<1>5. ShownHere'
  BY <1>1, <1>3, ShownType DEF SessionInv, ShownHere
<1>6. mode # "ready" => Stream \in Requests /\ Once \in Requests
  BY CurrentRequests, TypeParts DEF TurnInv, UnderWay
<1>7. Waited'
  BY <1>1, <1>3, <1>6 DEF SessionInv, Waited, SessionOf, Stream, Once
<1> QED BY <1>4, <1>5, <1>7 DEF SessionInv

LEMMA KeptSession ==
  ASSUME SessionInv, UNCHANGED <<at, session, mode, sent, sessionId, events, shown>>
  PROVE  SessionInv'
BY DEF SessionInv, HasSession, Waited, SessionOf, Stream, Once, ShownHere
-----------------------------------------------------------------------------
(* What keeps the votes: they are numbered in the order of the presses,    *)
(* and unless an answer was lost, every vote of a message is the current   *)
(* one and the buttons are not enabled again once it is stored.            *)
Known == pending \cup rows
Votes(m) == {v \in rows : v.of = m}

NotYet == \A m \in Messages : m > sent \/ (m = sent /\ mode # "ready") => button[m] = "none"
Numbered == \A v \in Known : v.nth <= vote[v.of]
NoTwins == \A v, w \in Known : v.of = w.of /\ v.nth = w.nth => v = w
Unanswered(m) ==
  /\ button[m] \in {"none", "enabled"} => \A v \in Known : v.of # m
  /\ \A v \in Known : v.of = m => Current(v)
AnsweredOnce == \A m \in Messages : <<m, "vote">> \notin broken => Unanswered(m)
Thanked == \A m \in Messages : button[m] = "done" => \E v \in rows : v.of = m

VoteInv == NotYet /\ Numbered /\ NoTwins /\ AnsweredOnce /\ Thanked

LEMMA VoteInit == Init => VoteInv
<1> SUFFICES ASSUME Init PROVE VoteInv
  OBVIOUS
<1>1. Known = {} /\ \A m \in Messages : button[m] = "none"
  BY DEF Init, Known
<1> QED BY <1>1 DEF VoteInv, NotYet, Numbered, NoTwins, AnsweredOnce, Unanswered, Thanked

LEMMA KnownType ==
  ASSUME TypeOK, NEW v \in Known
  PROVE  v \in Vote /\ v.of \in Messages /\ v.nth \in Nat /\ vote[v.of] \in Nat
<1>1. v \in Vote
  BY TypeParts DEF VoteTypes, Known
<1>2. v.of \in Messages /\ v.nth \in 1..MaxPresses
  BY <1>1 DEF Vote
<1>3. vote[v.of] \in 0..MaxPresses
  BY <1>2, TypeParts DEF VoteTypes
<1> QED BY <1>1, <1>2, <1>3

(* Steps that leave the votes and the buttons alone.                       *)
LEMMA KeptVotes ==
  ASSUME VoteInv, UNCHANGED <<button, feedback>>, broken \subseteq broken', NotYet'
  PROVE  VoteInv'
BY DEF VoteInv, feedback, Known, Numbered, NoTwins, AnsweredOnce, Unanswered, Current, Thanked

LEMMA SendVotes == ASSUME TypeOK, VoteInv, Send PROVE VoteInv'
<1>1. sent \in Nat /\ sent' = sent + 1 /\ \A m \in Messages : m \in Nat
  BY SentType, FiniteParts DEF Send
<1>2. UNCHANGED button /\ \A m \in Messages : m >= sent + 1 => button[m] = "none"
  BY <1>1 DEF VoteInv, NotYet, Send
<1>3. NotYet'
  BY <1>1, <1>2 DEF NotYet
<1> QED BY <1>3, KeptVotes DEF Send

LEMMA FinishVotes ==
  ASSUME TypeOK, UnderWay, VoteInv, NEW f, NEW e, Finish(f, e), mode # "ready",
         broken \subseteq broken'
  PROVE  VoteInv'
<1>1. mode' = "ready" /\ UNCHANGED <<sent, vote, pending, rows>>
  BY DEF Finish, feedback
<1>2. sent \in Nat /\ \A m \in Messages : m \in Nat
  BY SentType, FiniteParts
<1>3. \A m \in Messages : button'[m] = button[m] \/ (m = sent /\ button'[m] = "enabled")
  BY TypeParts DEF Finish, ButtonTypes
<1>4. NotYet'
  BY <1>1, <1>2, <1>3 DEF VoteInv, NotYet
<1>5. Numbered' /\ NoTwins' /\ Thanked'
  BY <1>1, <1>3 DEF VoteInv, Numbered, NoTwins, Known, Thanked
<1>6. AnsweredOnce'
  <2> SUFFICES ASSUME NEW m \in Messages, <<m, "vote">> \notin broken' PROVE Unanswered(m)'
    BY DEF AnsweredOnce
  <2>1. Unanswered(m)
    BY DEF VoteInv, AnsweredOnce
  <2>2. CASE button'[m] = button[m]
    BY <1>1, <2>1, <2>2 DEF Unanswered, Known, Current
  <2>3. CASE m = sent /\ button'[m] = "enabled"
    <3>1. button[m] = "none"
      BY <2>3 DEF VoteInv, NotYet
    <3> QED BY <1>1, <2>1, <2>3, <3>1 DEF Unanswered, Known, Current
  <2> QED BY <1>3, <2>2, <2>3
<1> QED BY <1>4, <1>5, <1>6 DEF VoteInv

LEMMA WaitingVotes ==
  ASSUME VoteInv, UNCHANGED <<sent, button, feedback>>, broken \subseteq broken',
         mode = "ready" => mode' = "ready"
  PROVE  VoteInv'
<1>1. NotYet'
  BY DEF VoteInv, NotYet
<1> QED BY <1>1, KeptVotes

(* A press makes a vote with a number of its own, the current one.         *)
LEMMA PressVotes == ASSUME TypeOK, VoteInv, NEW m \in Messages, Press(m) PROVE VoteInv'
<1> DEFINE new == [of |-> m, nth |-> vote[m] + 1, session |-> sessionId, trace |-> lastTrace]
<1>1. /\ button[m] = "enabled" /\ UNCHANGED <<mode, sent, rows, broken>>
      /\ Known' = Known \cup {new}
  BY DEF Press, chat, Known
<1>2. /\ button'[m] = "disabled" /\ \A k \in Messages : k # m => button'[k] = button[k]
      /\ vote[m] \in Nat /\ vote'[m] = vote[m] + 1
      /\ \A k \in Messages : k # m => vote'[k] = vote[k]
  BY TypeParts DEF Press, ButtonTypes, VoteTypes
<1>3. new.of = m /\ new.nth = vote[m] + 1
  OBVIOUS
<1> HIDE DEF new
<1>4. \A v \in Known : v.of \in Messages /\ v.nth \in Nat /\ vote[v.of] \in Nat /\ v.nth <= vote[v.of]
  BY KnownType DEF VoteInv, Numbered
<1>5. NotYet'
  BY <1>1, <1>2 DEF VoteInv, NotYet
<1>6. Numbered'
  <2> SUFFICES ASSUME NEW v \in Known \cup {new} PROVE v.nth <= vote'[v.of]
    BY <1>1 DEF Numbered
  <2>1. CASE v \in Known
    BY <1>2, <1>4, <2>1
  <2>2. CASE v = new
    BY <1>2, <1>3, <2>2
  <2> QED BY <2>1, <2>2
<1>7. NoTwins'
  <2>1. \A v \in Known : ~(v.of = new.of /\ v.nth = new.nth)
    BY <1>2, <1>3, <1>4
  <2> QED BY <1>1, <2>1 DEF VoteInv, NoTwins
<1>8. AnsweredOnce'
  <2> SUFFICES ASSUME NEW k \in Messages, <<k, "vote">> \notin broken PROVE Unanswered(k)'
    BY <1>1 DEF AnsweredOnce
  <2>1. Unanswered(k)
    BY DEF VoteInv, AnsweredOnce
  <2>2. CASE k = m
    BY <1>1, <1>2, <1>3, <2>1, <2>2 DEF Unanswered, Current
  <2>3. CASE k # m
    BY <1>1, <1>2, <1>3, <2>1, <2>3 DEF Unanswered, Current
  <2> QED BY <2>2, <2>3
<1>9. Thanked'
  BY <1>1, <1>2 DEF VoteInv, Thanked
<1> QED BY <1>5, <1>6, <1>7, <1>8, <1>9 DEF VoteInv

LEMMA HandleVoteVotes == ASSUME VoteInv, NEW v \in pending, HandleVote(v) PROVE VoteInv'
<1>1. /\ Known' \subseteq Known /\ rows \subseteq rows'
      /\ UNCHANGED <<mode, sent, button, vote, broken>>
  BY DEF HandleVote, Known, chat
<1> QED BY <1>1 DEF VoteInv, NotYet, Numbered, NoTwins, AnsweredOnce, Unanswered, Current, Thanked

(* The buttons are enabled again only if nothing was stored.               *)
LEMMA VoteAnsweredVotes ==
  ASSUME TypeOK, VoteInv, NEW m \in Messages, VoteAnswered(m)
  PROVE  VoteInv'
<1>1. /\ button[m] = "disabled" /\ UNCHANGED <<mode, sent, vote, pending, rows, broken>>
      /\ ~\E v \in pending : v.of = m /\ Current(v)
  BY DEF VoteAnswered, chat, feedback
<1>2. \A k \in Messages : k # m => button'[k] = button[k]
  BY TypeParts DEF VoteAnswered, ButtonTypes
<1>3. \/ button'[m] = "done" /\ \E v \in rows : v.of = m
      \/ button'[m] = "enabled" /\ ~\E v \in rows : v.of = m /\ Current(v)
  BY TypeParts DEF VoteAnswered, ButtonTypes
<1>4. NotYet' /\ Numbered' /\ NoTwins' /\ Thanked'
  BY <1>1, <1>2, <1>3 DEF VoteInv, NotYet, Numbered, NoTwins, Known, Thanked
<1>5. AnsweredOnce'
  <2> SUFFICES ASSUME NEW k \in Messages, <<k, "vote">> \notin broken PROVE Unanswered(k)'
    BY <1>1 DEF AnsweredOnce
  <2>1. Unanswered(k)
    BY DEF VoteInv, AnsweredOnce
  <2>2. CASE k = m
    BY <1>1, <1>3, <2>1, <2>2 DEF Unanswered, Known, Current
  <2>3. CASE k # m
    BY <1>1, <1>2, <2>1, <2>3 DEF Unanswered, Known, Current
  <2> QED BY <2>2, <2>3
<1> QED BY <1>4, <1>5 DEF VoteInv

LEMMA VoteFailsVotes ==
  ASSUME TypeOK, VoteInv, NEW m \in Messages, VoteFails(m)
  PROVE  VoteInv'
<1>1. /\ button[m] = "disabled" /\ UNCHANGED <<mode, sent, vote, rows>>
      /\ Known' \subseteq Known /\ broken' = broken \cup {<<m, "vote">>}
  BY DEF VoteFails, chat, Known
<1>2. button'[m] = "enabled" /\ \A k \in Messages : k # m => button'[k] = button[k]
  BY TypeParts DEF VoteFails, ButtonTypes
<1>3. NotYet' /\ Numbered' /\ NoTwins' /\ Thanked'
  BY <1>1, <1>2 DEF VoteInv, NotYet, Numbered, NoTwins, Thanked
<1>4. AnsweredOnce'
  <2> SUFFICES ASSUME NEW k \in Messages, <<k, "vote">> \notin broken' PROVE Unanswered(k)'
    BY DEF AnsweredOnce
  <2>1. k # m /\ Unanswered(k)
    BY <1>1 DEF VoteInv, AnsweredOnce
  <2> QED BY <1>1, <1>2, <2>1 DEF Unanswered, Current
<1> QED BY <1>3, <1>4 DEF VoteInv
-----------------------------------------------------------------------------
PageInv == TypeOK /\ TurnInv /\ SessionInv /\ VoteInv

LEMMA InitInv == Init => PageInv
BY InitType, TurnInit, SessionInit, VoteInit DEF PageInv

LEMMA NextInv == ASSUME PageInv, [Next]_vars PROVE PageInv'
<1> USE DEF PageInv
<1>0. UnderWay
  BY DEF TurnInv
<1>1. CASE Send
  BY <1>1, SendType, SendTurn, SendSession, SendVotes
<1>2. CASE Stop
  <2>1. VoteInv'
    BY <1>2, WaitingVotes DEF Stop
  <2> QED BY <1>0, <1>2, <2>1, StopType, StopTurn, StopSession
<1>3. CASE ReadStarted \/ ReadLast
  <2>1. VoteInv'
    BY <1>3, WaitingVotes DEF ReadStarted, ReadLast
  <2> QED BY <1>0, <1>3, <2>1, ReadStartedType, ReadLastType, ReadTurn,
             ReadStartedSession, ReadLastSession
<1>4. CASE StreamEnds
  <2>1. VoteInv'
    BY <1>0, <1>4, FinishVotes DEF StreamEnds
  <2> QED BY <1>0, <1>4, <2>1, StreamEndsType, StreamEndsTurn, StreamEndsSession
<1>5. CASE FallbackAnswer
  <2>1. VoteInv'
    BY <1>0, <1>5, FinishVotes DEF FallbackAnswer
  <2> QED BY <1>0, <1>5, <2>1, FallbackAnswerType, FallbackAnswerTurn, FallbackAnswerSession
<1>6. CASE FallBack
  <2>1. VoteInv'
    BY <1>6, WaitingVotes DEF FallBack, Break
  <2> QED BY <1>0, <1>6, <2>1, FallBackType, FallBackTurn, FallBackSession
<1>7. CASE FallbackFails
  <2>1. VoteInv'
    BY <1>0, <1>7, FinishVotes DEF FallbackFails, Break
  <2> QED BY <1>0, <1>7, <2>1, FallbackFailsType, FallbackFailsTurn, FallbackFailsSession
<1>8. ASSUME NEW r \in Requests, Serve(r) PROVE PageInv'
  <2>1. VoteInv'
    BY <1>8, WaitingVotes DEF Serve, Refuse, Begin, Advance, Release, chat
  <2> QED BY <1>8, <2>1, ServeType, ServeTurn, ServeSession
<1>9. ASSUME NEW m \in Messages, Press(m) \/ VoteAnswered(m) \/ VoteFails(m) PROVE PageInv'
  <2>1. UNCHANGED <<server, chat>> /\ broken \subseteq broken'
    BY <1>9 DEF Press, VoteAnswered, VoteFails
  <2>2. TurnInv' /\ SessionInv'
    BY <2>1, KeptTurn, KeptSession DEF server, chat
  <2> QED BY <1>9, <2>2, PressType, VoteAnsweredType, VoteFailsType,
             PressVotes, VoteAnsweredVotes, VoteFailsVotes
<1>10. ASSUME NEW v \in pending, HandleVote(v) PROVE PageInv'
  <2>1. UNCHANGED <<server, chat, broken>>
    BY <1>10 DEF HandleVote
  <2>2. TurnInv' /\ SessionInv'
    BY <2>1, KeptTurn, KeptSession DEF server, chat
  <2> QED BY <1>10, <2>2, HandleVoteType, HandleVoteVotes
<1>11. CASE UNCHANGED vars
  <2>1. TypeOK'
    BY <1>11, KeptTypes, TypePartsNext DEF vars
  <2>2. TurnInv' /\ SessionInv'
    BY <1>11, KeptTurn, KeptSession DEF vars, server, chat
  <2>3. VoteInv'
    BY <1>11, WaitingVotes DEF vars, chat
  <2> QED BY <2>1, <2>2, <2>3
<1> QED BY <1>1, <1>2, <1>3, <1>4, <1>5, <1>6, <1>7, <1>8, <1>9, <1>10, <1>11 DEF Next, Read

LEMMA Invariance == Spec => []PageInv
<1>1. Init => PageInv
  BY InitInv
<1>2. PageInv /\ [Next]_vars => PageInv'
  BY NextInv
<1> QED BY <1>1, <1>2, PTL DEF Spec

(* Server, page and feedback stay well typed, for any number of threads,   *)
(* messages, presses and broken connections.                               *)
THEOREM TypeCorrect == Spec => []TypeOK
<1>1. PageInv => TypeOK
  BY DEF PageInv
<1> QED BY <1>1, Invariance, PTL

(* When a message has been asked, no request for an earlier one still      *)
(* works on the session, unless that was stopped or its connection broke.  *)
THEOREM TurnsAreInOrder == Spec => []AskedInTurn
<1>1. ASSUME PageInv PROVE AskedInTurn
  <2> SUFFICES ASSUME NEW r \in Requests, NEW q \in Requests, Asked(q), r[1] < q[1],
                      at[r] \in Working
               PROVE  Excused(r)
    BY DEF AskedInTurn, Working, Excused
  <2>1. sent \in Nat /\ r[1] \in Nat /\ q[1] \in Nat
    BY <1>1, SentType, FirstType DEF PageInv
  <2>2. q[1] <= sent
    BY <1>1, <2>1 DEF PageInv, TurnInv, Untouched, Asked
  <2> QED BY <1>1, <2>1, <2>2 DEF PageInv, TurnInv, LeftBehind
<1> QED BY <1>1, Invariance, PTL

(* A message stands in the conversation twice only if a connection broke.  *)
THEOREM MessagesAreAskedOnce == Spec => []AskedOnce
<1>1. PageInv => AskedOnce
  BY DEF PageInv, TurnInv, AskedAgain, AskedOnce, Asked
<1> QED BY <1>1, Invariance, PTL

(* Every reply that is shown with its cards belongs to the session that    *)
(* the next message goes on with.                                          *)
THEOREM RepliesAreInConversation == Spec => []ReplyInConversation
<1>1. PageInv => ReplyInConversation
  BY DEF PageInv, SessionInv, ShownHere, ReplyInConversation
<1> QED BY <1>1, Invariance, PTL

LEMMA AtMostOne ==
  ASSUME NEW S, \A v, w \in S : v = w
  PROVE  ~(Cardinality(S) > 1)
<1>1. CASE S = {}
  BY <1>1, FS_EmptySet
<1>2. CASE S # {}
  <2>1. PICK v \in S : TRUE
    BY <1>2
  <2>2. S = {v}
    BY <2>1
  <2>3. Cardinality(S) = 1
    BY <2>2, FS_Singleton
  <2> QED BY <2>3
<1> QED BY <1>1, <1>2

(* A vote the user is thanked for is stored, and a reply has two only if   *)
(* an answer was lost and the user pressed again.                          *)
THEOREM VotesAreCounted == Spec => []VotesCount
<1>1. ASSUME PageInv PROVE VotesCount
  <2> SUFFICES ASSUME NEW m \in Messages
               PROVE  /\ button[m] = "done" => Votes(m) # {}
                      /\ Cardinality(Votes(m)) > 1 => <<m, "vote">> \in broken
    BY DEF VotesCount, Votes
  <2>1. button[m] = "done" => Votes(m) # {}
    BY <1>1 DEF PageInv, VoteInv, Thanked, Votes
  <2>2. ASSUME <<m, "vote">> \notin broken PROVE \A v, w \in Votes(m) : v = w
    BY <1>1, <2>2 DEF PageInv, VoteInv, AnsweredOnce, Unanswered, Current, NoTwins, Known, Votes
  <2> QED BY <2>1, <2>2, AtMostOne
<1> QED BY <1>1, Invariance, PTL
=============================================================================
