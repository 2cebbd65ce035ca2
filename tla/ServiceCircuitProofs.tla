------------------------ MODULE ServiceCircuitProofs ------------------------
(***************************************************************************)
(* Proofs about the circuit: type correctness, and the bounds on what an   *)
(* outage costs a caller and all callers together, for any callers,        *)
(* threshold, cool-down and TTL.                                           *)
(***************************************************************************)
EXTENDS ServiceCircuitCost, FiniteSetTheorems, TLAPS

(* A caller that moves to a label stays within the labels.                 *)
LEMMA GotoType ==
  ASSUME NEW c \in Callers, NEW from, NEW to \in Labels,
         pc \in [Callers -> Labels], Goto(c, from, to)
  PROVE  pc' \in [Callers -> Labels]
BY DEF Goto

LEMMA TargetTypes ==
  /\ \A k \in AllKinds : AfterAllow(k) \in Labels /\ Answers(k) \subseteq Outcomes
  /\ \A ok \in BOOLEAN : ReportOf(ok) \in Labels
<1>1. \A k \in AllKinds : AfterAllow(k) \in Labels
  BY DEF AfterAllow, Labels
<1>2. \A k \in AllKinds : Answers(k) \subseteq Outcomes
  BY DEF Answers, Outcomes
<1>3. \A ok \in BOOLEAN : ReportOf(ok) \in Labels
  BY DEF ReportOf, Labels, Success, Failure
<1>4. QED BY <1>1, <1>2, <1>3

(* One step of a caller, the clock or the service keeps every variable in  *)
(* its range.                                                              *)
LEMMA TypeStep == TypeOK /\ [Next]_vars => TypeOK'
<1> SUFFICES ASSUME TypeOK, [Next]_vars PROVE TypeOK'
  OBVIOUS
<1> USE CircuitAssumption, GotoType, TargetTypes DEF TypeOK
<1>1. ASSUME NEW c \in Callers, NEW k \in Kinds, Begin(c, k) PROVE TypeOK'
  BY <1>1 DEF Begin
<1>2. ASSUME NEW c \in Callers, Denied(c) PROVE TypeOK'
  BY <1>2 DEF Denied, Labels
<1>3. ASSUME NEW c \in Callers, ReadStamp(c) PROVE TypeOK'
  BY <1>3 DEF ReadStamp, Labels
<1>4. ASSUME NEW c \in Callers, ReadOk(c) PROVE TypeOK'
  BY <1>4 DEF ReadOk, Outcomes, Labels
<1>5. ASSUME NEW c \in Callers, NoteCached(c) PROVE TypeOK'
  BY <1>5 DEF NoteCached, Labels
<1>6. ASSUME NEW c \in Callers, Exchange(c) PROVE TypeOK'
  BY <1>6 DEF Exchange, Labels
<1>7. ASSUME NEW c \in Callers, StoreHealthy(c) PROVE TypeOK'
  BY <1>7 DEF StoreHealthy, Labels
<1>8. ASSUME NEW c \in Callers, LoadHealthy(c) PROVE TypeOK'
  BY <1>8 DEF LoadHealthy
<1>9. ASSUME NEW c \in Callers, Report(c) PROVE TypeOK'
  <2> USE DEF Labels, Success, Failure
  <2>1. CASE ResetFailures(c)
    BY <2>1 DEF ResetFailures
  <2>2. CASE ClearOpen(c)
    BY <2>2 DEF ClearOpen
  <2>3. CASE SetOk(c)
    BY <2>3 DEF SetOk
  <2>4. CASE StampOk(c)
    BY <2>4 DEF StampOk
  <2>5. CASE Spoil(c)
    BY <2>5 DEF Spoil
  <2>6. CASE SetBad(c)
    BY <2>6 DEF SetBad
  <2>7. CASE StampBad(c)
    BY <2>7 DEF StampBad
  <2>8. CASE CountFailure(c)
    BY <2>8 DEF CountFailure
  <2>9. CASE Open(c)
    BY <2>9 DEF Open
  <2>10. QED
    BY <1>9, <2>1, <2>2, <2>3, <2>4, <2>5, <2>6, <2>7, <2>8, <2>9 DEF Report
<1>10. CASE Tick
  BY <1>10 DEF Tick, locals
<1>11. CASE ServiceChanges
  BY <1>11 DEF ServiceChanges, circuit, locals
<1>12. CASE UNCHANGED vars
  BY <1>12 DEF vars
<1>13. QED
  BY <1>1, <1>2, <1>3, <1>4, <1>5, <1>6, <1>7, <1>8, <1>9, <1>10, <1>11, <1>12 DEF Next, Continue

LEMMA InitType == Init => TypeOK
<1> SUFFICES ASSUME Init PROVE TypeOK
  OBVIOUS
<1>1. kind \in [Callers -> AllKinds]
  BY CircuitAssumption DEF Init
<1>2. pc \in [Callers -> Labels] /\ verdict \in [Callers -> Outcomes]
  BY DEF Init, Labels, Outcomes
<1>3. failures \in 0..Threshold /\ openLeft \in 0..Cooldown /\ healthAge \in 0..(Ttl + 1)
  BY CircuitAssumption DEF Init
<1>4. healthOk \in BOOLEAN /\ healthy \in BOOLEAN /\ service \in ServiceStates
  BY DEF Init
<1>5. QED
  BY <1>1, <1>2, <1>3, <1>4 DEF TypeOK

(* Every variable of the circuit and of its callers stays in its range.    *)
THEOREM TypeCorrect == Spec => []TypeOK
<1>1. QED
  BY InitType, TypeStep, PTL DEF Spec
-----------------------------------------------------------------------------
LEMMA CostStepIsStep == [CostNext]_costVars => [Next]_vars
BY DEF CostNext, Pay, Reset, CutShort, Believe, Free, CostTick, CountAnew, Next, Continue, Report, costVars

LEMMA CostTypeStep == CostTypeOK /\ [CostNext]_costVars => CostTypeOK'
<1> SUFFICES ASSUME CostTypeOK, [CostNext]_costVars PROVE CostTypeOK'
  OBVIOUS
<1>1. TypeOK'
  BY CostStepIsStep, TypeStep DEF CostTypeOK
<1> USE CostAssumption DEF CostTypeOK, spent, history, One
<1>2. ASSUME NEW c \in Callers, Pay(c) PROVE CostTypeOK'
  BY <1>1, <1>2 DEF Pay
<1>3. ASSUME NEW c \in Callers, Reset(c) PROVE CostTypeOK'
  BY <1>1, <1>3 DEF Reset
<1>4. ASSUME NEW c \in Callers, CutShort(c) PROVE CostTypeOK'
  BY <1>1, <1>4 DEF CutShort
<1>5. ASSUME NEW c \in Callers, Believe(c) PROVE CostTypeOK'
  BY <1>1, <1>5 DEF Believe
<1>6. CASE CostTick
  BY <1>1, <1>6 DEF CostTick
<1>7. CASE CountAnew
  BY <1>1, <1>7 DEF CountAnew
<1>8. CASE UNCHANGED history
  BY <1>1, <1>8
<1>9. QED
  BY <1>2, <1>3, <1>4, <1>5, <1>6, <1>7, <1>8 DEF CostNext, costVars

LEMMA CostNumbers ==
  ASSUME CostTypeOK
  PROVE  /\ failures \in Nat /\ failures <= Threshold /\ openLeft \in Nat
         /\ Threshold \in Nat /\ Threshold > 0 /\ Cooldown \in Nat /\ Cooldown > 0
         /\ total \in Nat /\ cycles \in Nat /\ resets \in Nat /\ clears \in Nat /\ confused \in Nat
         /\ \A c \in Callers : paid[c] \in Nat
  BY CircuitAssumption, CostAssumption DEF CostTypeOK, TypeOK

(* Only a change of the service begins or ends an outage.                  *)
LEMMA OutageGoesOn ==
  ASSUME [CostNext]_costVars
  PROVE  CountAnew \/ service' = service
BY DEF CostNext, Pay, Reset, CutShort, Believe, Free, CostTick, costVars, vars, Tick, Exchange, ResetFailures,
       ClearOpen, LoadHealthy, Denied, ReadStamp, ReadOk, NoteCached, StoreHealthy, SetOk, StampOk, Spoil,
       SetBad, StampBad, CountFailure, Open, Begin

(* Nothing is counted outside an outage.                                   *)
LEMMA BlankStep == CostTypeOK /\ BlankInv /\ [CostNext]_costVars => BlankInv'
<1> SUFFICES ASSUME CostTypeOK, BlankInv, [CostNext]_costVars, ~Outage'
             PROVE  paid' = [c \in Callers |-> 0] /\ total' = 0 /\ resets' = 0 /\ clears' = 0
  BY DEF BlankInv
<1>1. CASE CountAnew
  BY <1>1 DEF CountAnew
<1>2. CASE ~CountAnew
  <2>1. ~Outage
    BY <1>2, OutageGoesOn DEF Outage
  <2>2. paid = [c \in Callers |-> 0] /\ total = 0 /\ resets = 0 /\ clears = 0
    BY <2>1 DEF BlankInv
  <2>3. One(Outage) = 0 /\ One(Outage /\ CircuitOpen) = 0
    BY <2>1 DEF One
  <2>4. CASE \E c \in Callers : Pay(c)
    BY <2>2, <2>3, <2>4 DEF Pay
  <2>5. CASE \E c \in Callers : Reset(c)
    BY <2>2, <2>3, <2>5 DEF Reset, spent
  <2>6. CASE \E c \in Callers : CutShort(c)
    BY <2>2, <2>3, <2>6 DEF CutShort, spent
  <2>7. CASE (\E c \in Callers : Believe(c)) \/ CostTick \/ UNCHANGED history
    BY <2>2, <2>7 DEF Believe, CostTick, history, spent
  <2> QED
    BY <1>2, <2>4, <2>5, <2>6, <2>7 DEF CostNext, costVars
<1> QED BY <1>1, <1>2
-----------------------------------------------------------------------------
(* What a caller may lose beyond the first Threshold exchanges grows with  *)
(* every reset and every cool-down that ends.                              *)
LEMMA GrantedType == CostTypeOK => Granted \in Nat
<1> SUFFICES ASSUME CostTypeOK PROVE Granted \in Nat
  OBVIOUS
<1>1. PICK product \in Nat : product = Threshold * resets
  BY CostNumbers
<1> QED BY <1>1, CostNumbers DEF Granted

LEMMA GrantedStep ==
  ASSUME CostTypeOK
  PROVE  /\ UNCHANGED <<resets, cycles, clears>> => Granted' = Granted
         /\ resets' = resets + 1 /\ UNCHANGED <<cycles, clears>> => Granted' = Granted + Threshold
         /\ UNCHANGED <<resets, cycles>> /\ clears' = clears + 1 => Granted' = Granted + 1
         /\ UNCHANGED <<resets, clears>> /\ cycles' = cycles + 1 => Granted' = Granted + 1
<1>1. PICK product \in Nat : product = Threshold * resets
  BY CostNumbers
<1>2. Threshold * (resets + 1) = product + Threshold
  BY <1>1, CostNumbers
<1> QED BY <1>1, <1>2, CostNumbers DEF Granted

LEMMA UnpaidCovered == \A c \in Callers : CostTypeOK /\ paid[c] = 0 => Covered(c)
<1> SUFFICES ASSUME NEW c \in Callers, CostTypeOK, paid[c] = 0 PROVE Covered(c)
  OBVIOUS
<1>1. Granted \in Nat
  BY GrantedType
<1> QED BY <1>1, CostNumbers DEF Covered, One

(* The steps of an outage, one caller d watched.                           *)
LEMMA CoveredStep ==
  ASSUME CostTypeOK, CostInv, Outage, [CostNext]_costVars, ~CountAnew, NEW d \in Callers
  PROVE  Covered(d)'
<1>0. /\ TypeOK /\ Covered(d) /\ paid[d] \in Nat /\ failures \in Nat /\ failures <= Threshold
      /\ openLeft \in Nat /\ Threshold \in Nat /\ Threshold > 0 /\ Cooldown \in Nat /\ Cooldown > 0
      /\ Granted \in Nat /\ paid \in [Callers -> Nat]
  BY CostNumbers, GrantedType DEF CostTypeOK, CostInv
<1> USE <1>0 DEF Covered, CircuitOpen, Admitted, Unreported, One
<1>1. ASSUME NEW c \in Callers, Pay(c) PROVE Covered(d)'
  <2>1. Granted' = Granted
    BY <1>1, GrantedStep DEF Pay
  <2>2. paid' = [paid EXCEPT ![c] = @ + 1]
    BY <1>1 DEF Pay
  <2>3. CASE c = d
    BY <1>1, <2>1, <2>2, <2>3 DEF Pay, Exchange, Goto, TypeOK
  <2>4. CASE c # d
    BY <1>1, <2>1, <2>2, <2>4 DEF Pay, Exchange, Goto, TypeOK
  <2>5. QED BY <2>3, <2>4
<1>2. ASSUME NEW c \in Callers, Reset(c) PROVE Covered(d)'
  <2>1. Granted' = Granted + Threshold /\ paid' = paid
    BY <1>2, GrantedStep DEF Reset, spent
  <2> QED BY <1>2, <2>1 DEF Reset, ResetFailures, Goto, TypeOK
<1>3. ASSUME NEW c \in Callers, CutShort(c) PROVE Covered(d)'
  <2>1. paid' = paid /\ Granted' = IF openLeft > 0 THEN Granted + 1 ELSE Granted
    BY <1>3, GrantedStep, CostNumbers DEF CutShort, spent
  <2> QED BY <1>3, <2>1 DEF CutShort, ClearOpen, Goto, TypeOK
<1>4. ASSUME NEW c \in Callers, Believe(c) PROVE Covered(d)'
  <2>1. paid' = paid /\ Granted' = Granted
    BY <1>4, GrantedStep DEF Believe, spent
  <2> QED BY <1>4, <2>1 DEF Believe, LoadHealthy, ReportOf, Goto, TypeOK
<1>5. ASSUME NEW c \in Callers, Free(c), UNCHANGED history PROVE Covered(d)'
  <2>0. paid' = paid /\ Granted' = Granted
    BY <1>5, GrantedStep DEF history, spent
  <2> USE <2>0
  <2>1. ASSUME NEW k \in Kinds, Begin(c, k) PROVE Covered(d)'
    <3>1. AfterAllow(k) \in {"denied", "idle", "cache", "net"} /\ (CircuitOpen => AfterAllow(k) \in {"denied", "idle"})
      BY CircuitAssumption DEF AfterAllow, AllKinds
    <3>2. QED BY <2>1, <3>1 DEF Begin, Goto, TypeOK
  <2>2. CASE Denied(c)
    BY <2>2 DEF Denied, Goto, TypeOK
  <2>3. CASE ReadStamp(c)
    BY <2>3 DEF ReadStamp, Goto, TypeOK
  <2>4. CASE ReadOk(c)
    BY <2>4 DEF ReadOk, Goto, TypeOK
  <2>5. CASE NoteCached(c)
    BY <2>5 DEF NoteCached, Goto, TypeOK
  <2>6. CASE StoreHealthy(c)
    BY <2>6 DEF StoreHealthy, ReportOf, Goto, TypeOK
  <2>7. CASE SetOk(c)
    BY <2>7 DEF SetOk, Goto, TypeOK
  <2>8. CASE StampOk(c)
    BY <2>8 DEF StampOk, Goto, TypeOK
  <2>9. CASE Spoil(c)
    BY <2>9 DEF Spoil, Goto, TypeOK
  <2>10. CASE SetBad(c)
    BY <2>10 DEF SetBad, Goto, TypeOK
  <2>11. CASE StampBad(c)
    BY <2>11 DEF StampBad, Goto, TypeOK
  <2>12. CASE CountFailure(c)
    <3>1. CASE c = d
      BY <2>12, <3>1 DEF CountFailure, ReachesThreshold, Goto, TypeOK
    <3>2. CASE c # d
      BY <2>12, <3>2 DEF CountFailure, Goto, TypeOK
    <3>3. QED BY <3>1, <3>2
  <2>13. CASE Open(c)
    BY <2>13 DEF Open, Goto, TypeOK
  <2>14. QED
    BY <1>5, <2>1, <2>2, <2>3, <2>4, <2>5, <2>6, <2>7, <2>8, <2>9, <2>10, <2>11, <2>12, <2>13 DEF Free
<1>6. CASE CostTick
  <2>1. paid' = paid /\ Granted' = IF openLeft = 1 THEN Granted + 1 ELSE Granted
    BY <1>6, GrantedStep, CostNumbers DEF CostTick, CoolDownRunsOut, spent
  <2> QED BY <1>6, <2>1 DEF CostTick, Tick, locals
<1>7. CASE UNCHANGED costVars
  <2>1. paid' = paid /\ Granted' = Granted
    BY <1>7, GrantedStep DEF costVars, history, spent
  <2> QED BY <1>7, <2>1 DEF costVars, vars
<1>8. QED
  BY <1>1, <1>2, <1>3, <1>4, <1>5, <1>6, <1>7 DEF CostNext

LEMMA CostInvStep == CostTypeOK /\ CostTypeOK' /\ BlankInv' /\ CostInv /\ [CostNext]_costVars => CostInv'
<1> SUFFICES ASSUME CostTypeOK, CostTypeOK', BlankInv', CostInv, [CostNext]_costVars, NEW d \in Callers
             PROVE  Covered(d)'
  BY DEF CostInv
<1>1. (\A c \in Callers : CostTypeOK /\ paid[c] = 0 => Covered(c))'
  BY UnpaidCovered, PTL
<1>2. CASE CountAnew
  BY <1>1, <1>2 DEF CountAnew
<1>3. CASE ~CountAnew /\ ~Outage
  <2>1. ~Outage'
    BY <1>3, OutageGoesOn DEF Outage
  <2>2. paid' = [c \in Callers |-> 0]
    BY <2>1 DEF BlankInv
  <2> QED BY <1>1, <2>2
<1>4. CASE ~CountAnew /\ Outage
  BY <1>4, CoveredStep
<1> QED BY <1>2, <1>3, <1>4

LEMMA CostInitInv == CostInit => CostTypeOK /\ BlankInv /\ CostInv
<1> SUFFICES ASSUME CostInit PROVE CostTypeOK /\ BlankInv /\ CostInv
  OBVIOUS
<1>1. CostTypeOK
  BY InitType, CostAssumption DEF CostInit, CostTypeOK
<1>2. BlankInv
  BY DEF CostInit, BlankInv
<1>3. ASSUME NEW c \in Callers PROVE Covered(c)
  BY <1>1, UnpaidCovered DEF CostInit
<1>4. QED BY <1>1, <1>2, <1>3 DEF CostInv
-----------------------------------------------------------------------------
(* Where the success reports of an outage come from.                       *)
LEMMA SubsetCounts ==
  ASSUME NEW A, A \subseteq Callers
  PROVE  /\ IsFiniteSet(A) /\ Cardinality(A) \in Nat /\ Cardinality(Callers) \in Nat
         /\ Cardinality(A) <= Cardinality(Callers)
<1>1. IsFiniteSet(Callers)
  BY CostAssumption
<1>2. IsFiniteSet(A) /\ Cardinality(A) <= Cardinality(Callers)
  BY <1>1, FS_Subset
<1> QED BY <1>1, <1>2, FS_CardinalityType

LEMMA OneMore ==
  ASSUME NEW A, IsFiniteSet(A), NEW x
  PROVE  /\ IsFiniteSet(A \cup {x}) /\ Cardinality(A \cup {x}) \in Nat
         /\ Cardinality(A \cup {x}) <= Cardinality(A) + 1
<1>1. Cardinality(A) \in Nat
  BY FS_CardinalityType
<1>2. CASE x \in A
  <2>1. A \cup {x} = A
    BY <1>2
  <2> QED BY <1>1, <2>1
<1>3. CASE x \notin A
  BY <1>1, <1>3, FS_AddElement
<1> QED BY <1>2, <1>3

LEMMA SuccessSets == ToReset \subseteq Callers /\ ToClear \subseteq Callers
BY DEF ToReset, ToClear

LEMMA SuccessSetsNext == ToReset' \subseteq Callers /\ ToClear' \subseteq Callers
BY DEF ToReset, ToClear

LEMMA UnresetSuccess == CostTypeOK /\ resets = 0 /\ clears = 0 => SuccessInv
BY SuccessSets, SubsetCounts, CostNumbers DEF SuccessInv

(* No caller comes to report a success, and none has.                      *)
LEMMA NoNewSuccess ==
  ASSUME CostTypeOK, SuccessInv, UNCHANGED <<resets, clears, confused>>,
         ToReset' \subseteq ToReset, ToClear' \subseteq ToClear
  PROVE  SuccessInv'
<1>1. /\ IsFiniteSet(ToReset) /\ Cardinality(ToReset) \in Nat
      /\ IsFiniteSet(ToClear) /\ Cardinality(ToClear) \in Nat /\ Cardinality(Callers) \in Nat
  BY SuccessSets, SubsetCounts
<1>2. Cardinality(ToReset') \in Nat /\ Cardinality(ToClear') \in Nat
  BY SuccessSetsNext, SubsetCounts
<1>3. Cardinality(ToReset') <= Cardinality(ToReset) /\ Cardinality(ToClear') <= Cardinality(ToClear)
  BY <1>1, FS_Subset
<1> QED BY <1>1, <1>2, <1>3, CostNumbers DEF SuccessInv

LEMMA ResetSets ==
  ASSUME CostTypeOK, NEW c \in Callers, Reset(c)
  PROVE  c \in ToReset /\ ToReset' = ToReset \ {c} /\ ToClear' = ToClear
<1>1. pc[c] = "resetFailures" /\ pc' = [pc EXCEPT ![c] = "clearOpen"] /\ verdict' = verdict
  BY DEF Reset, ResetFailures, Goto
<1>2. \A d \in Callers : pc'[d] = IF d = c THEN "clearOpen" ELSE pc[d]
  BY <1>1 DEF CostTypeOK, TypeOK
<1> QED BY <1>1, <1>2 DEF ToReset, ToClear

LEMMA CutShortSets ==
  ASSUME CostTypeOK, NEW c \in Callers, CutShort(c)
  PROVE  c \in ToClear /\ ToReset' = ToReset /\ ToClear' = ToClear \ {c}
<1>1. pc[c] = "clearOpen" /\ pc' = [pc EXCEPT ![c] = "setOk"] /\ verdict' = verdict
  BY DEF CutShort, ClearOpen, Goto
<1>2. \A d \in Callers : pc'[d] = IF d = c THEN "setOk" ELSE pc[d]
  BY <1>1 DEF CostTypeOK, TypeOK
<1> QED BY <1>1, <1>2 DEF ToReset, ToClear

LEMMA BelieveSets ==
  ASSUME CostTypeOK, Outage, NEW c \in Callers, Believe(c)
  PROVE  /\ ToReset' \subseteq ToReset \cup {c} /\ ToClear' \subseteq ToClear \cup {c}
         /\ ~TakenForHealthy(c) => ToReset' \subseteq ToReset /\ ToClear' \subseteq ToClear
<1>1. /\ pc[c] = "load" /\ pc' = [pc EXCEPT ![c] = ReportOf(healthy)] /\ verdict' = verdict
  BY DEF Believe, LoadHealthy, Goto
<1>2. \A d \in Callers : pc'[d] = IF d = c THEN ReportOf(healthy) ELSE pc[d]
  BY <1>1 DEF CostTypeOK, TypeOK
<1>3. ReportOf(healthy) \in {"resetFailures", "setBad"} /\ (~healthy => ReportOf(healthy) = "setBad")
  BY DEF ReportOf
<1> QED BY <1>1, <1>2, <1>3 DEF ToReset, ToClear, TakenForHealthy

(* In an outage an exchange, and every step but a probe's last, leaves the *)
(* callers that report a success as they were, or fewer.                   *)
LEMMA DeadExchangeSets ==
  ASSUME CostTypeOK, Outage, NEW c \in Callers, Exchange(c)
  PROVE  ToReset' \subseteq ToReset /\ ToClear' \subseteq ToClear
<1>1. Answers(kind[c]) = {"bad"}
  BY DEF Answers, Outage
<1>2. pc' = [pc EXCEPT ![c] = "store"] /\ verdict' = [verdict EXCEPT ![c] = "bad"]
  BY <1>1 DEF Exchange, Goto
<1>3. \A d \in Callers : /\ pc'[d] = IF d = c THEN "store" ELSE pc[d]
                         /\ verdict'[d] = IF d = c THEN "bad" ELSE verdict[d]
  BY <1>2 DEF CostTypeOK, TypeOK
<1> QED BY <1>3 DEF ToReset, ToClear

LEMMA FreeSuccessSets ==
  ASSUME CostTypeOK, NEW c \in Callers, Free(c)
  PROVE  ToReset' \subseteq ToReset /\ ToClear' \subseteq ToClear
<1> SUFFICES ASSUME NEW d \in Callers
             PROVE  (d \in ToReset' => d \in ToReset) /\ (d \in ToClear' => d \in ToClear)
  BY SuccessSetsNext
<1> USE DEF ToReset, ToClear, CostTypeOK, TypeOK, Goto
<1>1. ASSUME NEW k \in Kinds, Begin(c, k)
      PROVE  (d \in ToReset' => d \in ToReset) /\ (d \in ToClear' => d \in ToClear)
  <2>1. AfterAllow(k) \in {"denied", "idle", "cache", "net"}
    BY CircuitAssumption DEF AfterAllow, AllKinds
  <2> QED BY <1>1, <2>1 DEF Begin
<1>2. CASE Denied(c)
  BY <1>2 DEF Denied
<1>3. CASE ReadStamp(c)
  BY <1>3 DEF ReadStamp
<1>4. CASE ReadOk(c)
  BY <1>4 DEF ReadOk
<1>5. CASE NoteCached(c)
  BY <1>5 DEF NoteCached
<1>6. CASE StoreHealthy(c)
  BY <1>6 DEF StoreHealthy, ReportOf
<1>7. CASE SetOk(c)
  BY <1>7 DEF SetOk
<1>8. CASE StampOk(c)
  BY <1>8 DEF StampOk
<1>9. CASE Spoil(c)
  BY <1>9 DEF Spoil
<1>10. CASE SetBad(c)
  BY <1>10 DEF SetBad
<1>11. CASE StampBad(c)
  BY <1>11 DEF StampBad
<1>12. CASE CountFailure(c)
  BY <1>12 DEF CountFailure
<1>13. CASE Open(c)
  BY <1>13 DEF Open
<1> QED
  BY <1>1, <1>2, <1>3, <1>4, <1>5, <1>6, <1>7, <1>8, <1>9, <1>10, <1>11, <1>12, <1>13 DEF Free

LEMMA SuccessStep ==
  CostTypeOK /\ CostTypeOK' /\ BlankInv' /\ SuccessInv /\ [CostNext]_costVars => SuccessInv'
<1> SUFFICES ASSUME CostTypeOK, CostTypeOK', BlankInv', SuccessInv, [CostNext]_costVars PROVE SuccessInv'
  OBVIOUS
<1>1. (CostTypeOK /\ resets = 0 /\ clears = 0 => SuccessInv)'
  BY UnresetSuccess, PTL
<1>2. CASE CountAnew
  BY <1>1, <1>2 DEF CountAnew
<1>3. CASE ~CountAnew /\ ~Outage
  <2>1. ~Outage'
    BY <1>3, OutageGoesOn DEF Outage
  <2> QED BY <1>1, <2>1 DEF BlankInv
<1>4. CASE ~CountAnew /\ Outage
  <2>0. /\ IsFiniteSet(ToReset) /\ Cardinality(ToReset) \in Nat
        /\ IsFiniteSet(ToClear) /\ Cardinality(ToClear) \in Nat /\ Cardinality(Callers) \in Nat
        /\ Cardinality(ToReset') \in Nat /\ Cardinality(ToClear') \in Nat
    BY SuccessSets, SuccessSetsNext, SubsetCounts
  <2>1. ASSUME NEW c \in Callers, Pay(c) PROVE SuccessInv'
    BY <1>4, <2>1, DeadExchangeSets, NoNewSuccess DEF Pay
  <2>2. ASSUME NEW c \in Callers, Reset(c) PROVE SuccessInv'
    <3>1. c \in ToReset /\ ToReset' = ToReset \ {c} /\ ToClear' = ToClear
      BY <2>2, ResetSets
    <3>2. Cardinality(ToReset') = Cardinality(ToReset) - 1
      BY <2>0, <3>1, FS_RemoveElement
    <3>3. resets' = resets + 1 /\ clears' = clears /\ confused' = confused
      BY <1>4, <2>2 DEF Reset, One
    <3> QED BY <2>0, <3>1, <3>2, <3>3, CostNumbers DEF SuccessInv
  <2>3. ASSUME NEW c \in Callers, CutShort(c) PROVE SuccessInv'
    <3>1. c \in ToClear /\ ToReset' = ToReset /\ ToClear' = ToClear \ {c}
      BY <2>3, CutShortSets
    <3>2. Cardinality(ToClear') = Cardinality(ToClear) - 1
      BY <2>0, <3>1, FS_RemoveElement
    <3>3. resets' = resets /\ clears' \in {clears, clears + 1} /\ confused' = confused
      BY <2>3, CostNumbers DEF CutShort, One
    <3> QED BY <2>0, <3>1, <3>2, <3>3, CostNumbers DEF SuccessInv
  <2>4. ASSUME NEW c \in Callers, Believe(c) PROVE SuccessInv'
    <3>1. UNCHANGED <<resets, clears>> /\ confused' = confused + One(TakenForHealthy(c))
      BY <2>4 DEF Believe
    <3>2. CASE ~TakenForHealthy(c)
      <4>1. confused' = confused
        BY <3>1, <3>2, CostNumbers DEF One
      <4> QED BY <1>4, <2>4, <3>1, <3>2, <4>1, BelieveSets, NoNewSuccess
    <3>3. CASE TakenForHealthy(c)
      <4>1. confused' = confused + 1
        BY <3>1, <3>3 DEF One
      <4>2. ToReset' \subseteq ToReset \cup {c} /\ ToClear' \subseteq ToClear \cup {c}
        BY <1>4, <2>4, BelieveSets
      <4>3. /\ IsFiniteSet(ToReset \cup {c}) /\ Cardinality(ToReset \cup {c}) \in Nat
            /\ Cardinality(ToReset \cup {c}) <= Cardinality(ToReset) + 1
            /\ IsFiniteSet(ToClear \cup {c}) /\ Cardinality(ToClear \cup {c}) \in Nat
            /\ Cardinality(ToClear \cup {c}) <= Cardinality(ToClear) + 1
        BY <2>0, OneMore
      <4>4. /\ Cardinality(ToReset') <= Cardinality(ToReset \cup {c})
            /\ Cardinality(ToClear') <= Cardinality(ToClear \cup {c})
        BY <4>2, <4>3, FS_Subset
      <4> QED BY <2>0, <3>1, <4>1, <4>3, <4>4, CostNumbers DEF SuccessInv
    <3> QED BY <3>2, <3>3
  <2>5. ASSUME NEW c \in Callers, Free(c), UNCHANGED history PROVE SuccessInv'
    BY <2>5, FreeSuccessSets, NoNewSuccess DEF history
  <2>6. CASE CostTick \/ UNCHANGED costVars
    <3>1. UNCHANGED <<pc, verdict, resets, clears, confused>>
      BY <2>6 DEF CostTick, Tick, locals, costVars, vars, history
    <3>2. ToReset' = ToReset /\ ToClear' = ToClear
      BY <3>1 DEF ToReset, ToClear
    <3> QED BY <3>1, <3>2, NoNewSuccess
  <2> QED BY <1>4, <2>1, <2>2, <2>3, <2>4, <2>5, <2>6 DEF CostNext
<1> QED BY <1>2, <1>3, <1>4

LEMMA SuccessInvExplains == CostTypeOK /\ SuccessInv => SuccessesExplained
BY SuccessSets, SubsetCounts, CostNumbers DEF SuccessInv, SuccessesExplained

(* Over a whole outage a caller loses Threshold exchanges, one more per    *)
(* cool-down that ends and Threshold more per reset of the counter; resets *)
(* are no more than late successes, one of each caller, and probes taken   *)
(* for healthy.                                                            *)
THEOREM OutageCost == CostSpec => []PaidFailuresBounded
<1>1. CostTypeOK /\ CostInv /\ SuccessInv => PaidFailuresBounded
  <2> SUFFICES ASSUME CostTypeOK, CostInv, SuccessInv, NEW c \in Callers
               PROVE  SuccessesExplained /\ paid[c] <= Threshold * (1 + resets) + cycles + clears
    BY SuccessInvExplains DEF PaidFailuresBounded
  <2>1. PICK product \in Nat : product = Threshold * resets
    BY CostNumbers
  <2>2. Threshold * (1 + resets) = Threshold + product
    BY <2>1, CostNumbers
  <2>3. paid[c] <= product + cycles + clears + Threshold
    BY <2>1 DEF CostInv, Covered, Granted
  <2> QED BY <2>1, <2>2, <2>3, SuccessInvExplains, CostNumbers
<1>2. CostInit => SuccessInv
  BY CostInitInv, UnresetSuccess DEF CostInit
<1>3. QED
  BY <1>1, <1>2, CostInitInv, CostTypeStep, BlankStep, CostInvStep, SuccessStep, PTL DEF CostSpec
-----------------------------------------------------------------------------
(* All callers together.  The two sets the invariant counts are sets of    *)
(* callers without a common member.                                        *)
LEMMA CountedSets ==
  MayPay \subseteq Callers /\ Reporting \subseteq Callers /\ MayPay \cap Reporting = {}
  BY DEF MayPay, Reporting, Admitted, Unreported

LEMMA CountedNext ==
  MayPay' \subseteq Callers /\ Reporting' \subseteq Callers /\ MayPay' \cap Reporting' = {}
  BY DEF MayPay, Reporting, Admitted, Unreported

LEMMA Counting ==
  ASSUME NEW A, NEW B, A \subseteq Callers, B \subseteq Callers, A \cap B = {}
  PROVE  /\ IsFiniteSet(A) /\ IsFiniteSet(B) /\ IsFiniteSet(Callers)
         /\ Cardinality(A) \in Nat /\ Cardinality(B) \in Nat /\ Cardinality(Callers) \in Nat
         /\ Cardinality(A) <= Cardinality(Callers) /\ Cardinality(B) <= Cardinality(Callers)
         /\ Cardinality(A) + Cardinality(B) <= Cardinality(Callers)
<1>1. IsFiniteSet(Callers)
  BY CostAssumption
<1>2. IsFiniteSet(A) /\ IsFiniteSet(B) /\ IsFiniteSet(A \cup B)
  BY <1>1, FS_Subset
<1>3. /\ Cardinality(A) <= Cardinality(Callers) /\ Cardinality(B) <= Cardinality(Callers)
      /\ Cardinality(A \cup B) <= Cardinality(Callers)
  BY <1>1, FS_Subset
<1>4. Cardinality(A \cap B) = 0
  BY FS_EmptySet
<1>5. Cardinality(A \cup B) = Cardinality(A) + Cardinality(B) - Cardinality(A \cap B)
  BY <1>2, FS_Union
<1>6. Cardinality(A) \in Nat /\ Cardinality(B) \in Nat /\ Cardinality(Callers) \in Nat
  BY <1>1, <1>2, FS_CardinalityType
<1> QED BY <1>1, <1>2, <1>3, <1>4, <1>5, <1>6

LEMMA PaidBeforeType == CostTypeOK => PaidBefore \in Nat
<1> SUFFICES ASSUME CostTypeOK PROVE PaidBefore \in Nat
  OBVIOUS
<1>1. PICK n \in Nat : n = Cardinality(Callers)
  BY CountedSets, Counting
<1>2. Threshold - 1 + n \in Nat /\ cycles + clears \in Nat
  BY CostNumbers
<1>3. (Threshold - 1 + n) * resets \in Nat /\ n * (cycles + clears) \in Nat
  BY <1>2, CostNumbers
<1> QED BY <1>1, <1>3 DEF PaidBefore

(* What a reset and the end of a cool-down add to the bound.               *)
LEMMA PaidBeforeStep ==
  ASSUME CostTypeOK
  PROVE  /\ UNCHANGED <<resets, cycles, clears>> => PaidBefore' = PaidBefore
         /\ resets' = resets + 1 /\ UNCHANGED <<cycles, clears>>
              => PaidBefore' = PaidBefore + (Threshold - 1 + Cardinality(Callers))
         /\ UNCHANGED <<resets, cycles>> /\ clears' = clears + 1 => PaidBefore' = PaidBefore + Cardinality(Callers)
         /\ UNCHANGED <<resets, clears>> /\ cycles' = cycles + 1 => PaidBefore' = PaidBefore + Cardinality(Callers)
<1>1. PICK n \in Nat : n = Cardinality(Callers)
  BY CountedSets, Counting
<1>2. PICK once \in Nat : once = Threshold - 1 + n
  BY CostNumbers
<1>3. PICK ends \in Nat : ends = cycles + clears
  BY CostNumbers
<1>4. PICK p \in Nat, q \in Nat : p = once * resets /\ q = n * ends
  BY <1>1, <1>2, <1>3, CostNumbers
<1>5. once * (resets + 1) = p + once /\ n * (ends + 1) = q + n
  BY <1>1, <1>2, <1>3, <1>4, CostNumbers
<1>6. PaidBefore = p + q /\ PaidBefore' = once * resets' + n * (cycles' + clears')
  BY <1>1, <1>2, <1>3, <1>4 DEF PaidBefore
<1>7. UNCHANGED <<resets, cycles, clears>> => PaidBefore' = PaidBefore
  BY DEF PaidBefore
<1>8. resets' = resets + 1 /\ UNCHANGED <<cycles, clears>> => PaidBefore' = p + once + q
  <2> SUFFICES ASSUME resets' = resets + 1, UNCHANGED <<cycles, clears>> PROVE PaidBefore' = p + once + q
    OBVIOUS
  <2>1. PaidBefore' = once * (resets + 1) + n * ends
    BY <1>3, <1>6
  <2> QED BY <1>4, <1>5, <2>1
<1>9. UNCHANGED resets /\ cycles' + clears' = ends + 1 => PaidBefore' = p + q + n
  <2> SUFFICES ASSUME UNCHANGED resets, cycles' + clears' = ends + 1 PROVE PaidBefore' = p + q + n
    OBVIOUS
  <2>1. PaidBefore' = once * resets + n * (ends + 1)
    BY <1>6
  <2> QED BY <1>1, <1>4, <1>5, <2>1
<1>10. /\ UNCHANGED cycles /\ clears' = clears + 1 => cycles' + clears' = ends + 1
       /\ UNCHANGED clears /\ cycles' = cycles + 1 => cycles' + clears' = ends + 1
  BY <1>3, CostNumbers
<1> QED BY <1>1, <1>2, <1>4, <1>6, <1>7, <1>8, <1>9, <1>10, CostNumbers

(* The invariant bounds the burst: whoever has not counted its failure yet *)
(* is one of the callers.                                                  *)
LEMMA BurstInvBounds == ASSUME CostTypeOK, BurstInv PROVE BurstBounded
<1>1. PICK n \in Nat : n = Cardinality(Callers)
  BY CountedSets, Counting
<1>2. /\ Cardinality(Reporting) \in Nat /\ Cardinality(Reporting) <= n /\ Cardinality(MayPay) \in Nat
  BY <1>1, CountedSets, Counting
<1>3. total <= PaidBefore + Threshold - 1 + n
  BY <1>1, <1>2, PaidBeforeType, CostNumbers DEF BurstInv
<1>4. PICK once \in Nat : once = Threshold - 1 + n
  BY <1>1, CostNumbers
<1>5. PICK p \in Nat, q \in Nat : p = once * resets /\ q = n * (cycles + clears)
  <2>1. cycles + clears \in Nat
    BY CostNumbers
  <2> QED BY <1>1, <1>4, <2>1, CostNumbers
<1>6. once * (1 + resets) = once + p
  BY <1>4, <1>5, CostNumbers
<1>7. PaidBefore = p + q
  BY <1>1, <1>4, <1>5 DEF PaidBefore
<1>8. total <= once * (1 + resets) + q
  BY <1>1, <1>3, <1>4, <1>5, <1>6, <1>7, CostNumbers
<1> QED BY <1>1, <1>4, <1>5, <1>8 DEF BurstBounded

(* A state in which nothing was paid yet.                                  *)
LEMMA UnpaidBurst == CostTypeOK /\ total = 0 => BurstInv
<1> SUFFICES ASSUME CostTypeOK, total = 0 PROVE BurstInv
  OBVIOUS
<1>1. /\ Cardinality(Reporting) \in Nat /\ Cardinality(MayPay) \in Nat
      /\ Cardinality(Callers) \in Nat /\ Cardinality(MayPay) <= Cardinality(Callers)
  BY CountedSets, Counting
<1> QED BY <1>1, PaidBeforeType, CostNumbers DEF BurstInv

(* A step that counts and pays nothing, admits nobody and lets nobody off  *)
(* its report.                                                             *)
LEMMA QuietStep ==
  ASSUME CostTypeOK, CostTypeOK', BurstInv, UNCHANGED <<failures, total, cycles, resets, clears>>,
         MayPay' \subseteq MayPay, Reporting \subseteq Reporting'
  PROVE  BurstInv'
<1>1. /\ IsFiniteSet(MayPay) /\ Cardinality(MayPay) \in Nat /\ Cardinality(Reporting) \in Nat
      /\ Cardinality(Callers) \in Nat
  BY CountedSets, Counting
<1>2. IsFiniteSet(Reporting') /\ Cardinality(MayPay') \in Nat /\ Cardinality(Reporting') \in Nat
  BY CountedNext, Counting
<1>3. Cardinality(MayPay') <= Cardinality(MayPay) /\ Cardinality(Reporting) <= Cardinality(Reporting')
  BY <1>1, <1>2, FS_Subset
<1>4. PaidBefore \in Nat /\ PaidBefore' = PaidBefore
  BY PaidBeforeType, PaidBeforeStep
<1> QED BY <1>1, <1>2, <1>3, <1>4, CostNumbers DEF BurstInv

(* Where a step that neither exchanges, counts nor reports success leaves  *)
(* the two sets: only an opening changes the circuit, and it shuts out     *)
(* everybody who has not been admitted.                                    *)
LEMMA FreeSets ==
  ASSUME CostTypeOK, NEW c \in Callers, Free(c) \/ Believe(c), ~CountFailure(c)
  PROVE  MayPay' \subseteq MayPay /\ Reporting \subseteq Reporting'
<1> SUFFICES ASSUME NEW d \in Callers
             PROVE  (d \in MayPay' => d \in MayPay) /\ (d \in Reporting => d \in Reporting')
  BY CountedSets, CountedNext
<1>0. TypeOK /\ openLeft \in Nat /\ Cooldown \in Nat /\ Cooldown > 0
  BY CircuitAssumption, CostNumbers DEF CostTypeOK
<1> USE <1>0 DEF MayPay, Reporting, CircuitOpen, Admitted, Unreported
<1>1. ASSUME NEW k \in Kinds, Begin(c, k)
      PROVE  (d \in MayPay' => d \in MayPay) /\ (d \in Reporting => d \in Reporting')
  <2>1. AfterAllow(k) \in {"denied", "idle", "cache", "net"} /\ (CircuitOpen => AfterAllow(k) \in {"denied", "idle"})
    BY CircuitAssumption DEF AfterAllow, AllKinds
  <2> QED BY <1>1, <2>1 DEF Begin, Goto, TypeOK
<1>2. CASE Denied(c)
  BY <1>2 DEF Denied, Goto, TypeOK
<1>3. CASE ReadStamp(c)
  BY <1>3 DEF ReadStamp, Goto, TypeOK
<1>4. CASE ReadOk(c)
  BY <1>4 DEF ReadOk, Goto, TypeOK
<1>5. CASE NoteCached(c)
  BY <1>5 DEF NoteCached, Goto, TypeOK
<1>6. CASE StoreHealthy(c)
  BY <1>6 DEF StoreHealthy, ReportOf, Goto, TypeOK
<1>7. CASE Believe(c)
  BY <1>7 DEF Believe, LoadHealthy, ReportOf, Goto, TypeOK
<1>8. CASE SetOk(c)
  BY <1>8 DEF SetOk, Goto, TypeOK
<1>9. CASE StampOk(c)
  BY <1>9 DEF StampOk, Goto, TypeOK
<1>10. CASE Spoil(c)
  BY <1>10 DEF Spoil, Goto, TypeOK
<1>11. CASE SetBad(c)
  BY <1>11 DEF SetBad, Goto, TypeOK
<1>12. CASE StampBad(c)
  BY <1>12 DEF StampBad, Goto, TypeOK
<1>13. CASE Open(c)
  BY <1>13 DEF Open, Goto, TypeOK
<1> QED
  BY <1>1, <1>2, <1>3, <1>4, <1>5, <1>6, <1>7, <1>8, <1>9, <1>10, <1>11, <1>12, <1>13 DEF Free

(* An exchange moves its caller from one set to the other.                 *)
LEMMA PaySets ==
  ASSUME CostTypeOK, NEW c \in Callers, Exchange(c)
  PROVE  /\ c \in MayPay /\ MayPay' = MayPay \ {c}
         /\ c \notin Reporting /\ Reporting' = Reporting \cup {c}
<1>1. pc[c] = "net" /\ pc' = [pc EXCEPT ![c] = "store"] /\ openLeft' = openLeft
  BY DEF Exchange, Goto
<1>2. \A d \in Callers : pc'[d] = IF d = c THEN "store" ELSE pc[d]
  BY <1>1 DEF CostTypeOK, TypeOK
<1> QED BY <1>1, <1>2 DEF MayPay, Reporting, CircuitOpen, Admitted, Unreported

LEMMA PayBurst ==
  ASSUME CostTypeOK, CostTypeOK', BurstInv, NEW c \in Callers, Pay(c)
  PROVE  BurstInv'
<1>1. UNCHANGED <<failures, cycles, resets, clears>> /\ total' \in {total, total + 1}
  BY CostNumbers DEF Pay, Exchange, One
<1>2. /\ c \in MayPay /\ MayPay' = MayPay \ {c}
      /\ c \notin Reporting /\ Reporting' = Reporting \cup {c}
  BY PaySets DEF Pay
<1>3. /\ IsFiniteSet(MayPay) /\ Cardinality(MayPay) \in Nat
      /\ IsFiniteSet(Reporting) /\ Cardinality(Reporting) \in Nat /\ Cardinality(Callers) \in Nat
  BY CountedSets, Counting
<1>4. Cardinality(MayPay') = Cardinality(MayPay) - 1
  BY <1>2, <1>3, FS_RemoveElement
<1>5. Cardinality(Reporting') = Cardinality(Reporting) + 1
  BY <1>2, <1>3, FS_AddElement
<1>6. PaidBefore \in Nat /\ PaidBefore' = PaidBefore
  BY <1>1, PaidBeforeType, PaidBeforeStep
<1> QED BY <1>1, <1>3, <1>4, <1>5, <1>6, CostNumbers DEF BurstInv

(* The failure that reaches Threshold: from here on the callers that are   *)
(* still reporting pay no more in this cool-down.                          *)
LEMMA CountSets ==
  ASSUME CostTypeOK, NEW c \in Callers, CountFailure(c)
  PROVE  /\ c \in Reporting /\ Reporting' = Reporting \ {c}
         /\ failures + 1 >= Threshold => MayPay' = MayPay
<1>1. /\ pc[c] = "countFailure" /\ openLeft' = openLeft
      /\ pc' = [pc EXCEPT ![c] = IF failures + 1 >= Threshold THEN "open" ELSE "idle"]
  BY DEF CountFailure, ReachesThreshold, Goto
<1>2. \A d \in Callers :
        pc'[d] = IF d # c THEN pc[d] ELSE IF failures + 1 >= Threshold THEN "open" ELSE "idle"
  BY <1>1 DEF CostTypeOK, TypeOK
<1> QED BY <1>1, <1>2 DEF MayPay, Reporting, CircuitOpen, Admitted, Unreported

LEMMA CountBurst ==
  ASSUME CostTypeOK, CostTypeOK', BurstInv, NEW c \in Callers, CountFailure(c),
         UNCHANGED <<total, cycles, resets, clears>>
  PROVE  BurstInv'
<1>1. failures' = IF failures < Threshold THEN failures + 1 ELSE failures
  BY DEF CountFailure
<1>2. /\ IsFiniteSet(Reporting) /\ Cardinality(Reporting) \in Nat /\ Cardinality(MayPay) \in Nat
      /\ Cardinality(Callers) \in Nat /\ Cardinality(MayPay) + Cardinality(Reporting) <= Cardinality(Callers)
  BY CountedSets, Counting
<1>3. Cardinality(Reporting') = Cardinality(Reporting) - 1
  BY <1>2, CountSets, FS_RemoveElement
<1>4. failures + 1 >= Threshold => MayPay' = MayPay
  BY CountSets
<1>5. PaidBefore \in Nat /\ PaidBefore' = PaidBefore
  BY PaidBeforeType, PaidBeforeStep
<1>6. CASE failures + 1 < Threshold
  BY <1>1, <1>2, <1>3, <1>5, <1>6, CostNumbers DEF BurstInv
<1>7. CASE failures + 1 = Threshold
  BY <1>1, <1>2, <1>4, <1>5, <1>7, CostNumbers DEF BurstInv
<1>8. CASE failures = Threshold
  BY <1>1, <1>2, <1>4, <1>5, <1>8, CostNumbers DEF BurstInv
<1> QED BY <1>6, <1>7, <1>8, CostNumbers

(* A reset in an outage lets the callers fill the counter once more.       *)
LEMMA ResetBurst ==
  ASSUME CostTypeOK, CostTypeOK', BurstInv, Outage, NEW c \in Callers, Reset(c)
  PROVE  BurstInv'
<1>1. failures' = 0 /\ total' = total /\ resets' = resets + 1 /\ UNCHANGED <<cycles, clears>>
  BY DEF Reset, ResetFailures, One, spent
<1>2. /\ Cardinality(Reporting) \in Nat /\ Cardinality(Reporting') \in Nat /\ Cardinality(MayPay) \in Nat
      /\ Cardinality(Callers) \in Nat /\ Cardinality(Reporting) <= Cardinality(Callers)
  BY CountedSets, CountedNext, Counting
<1>3. PaidBefore \in Nat /\ PaidBefore' = PaidBefore + (Threshold - 1 + Cardinality(Callers))
  BY <1>1, PaidBeforeType, PaidBeforeStep
<1> QED BY <1>1, <1>2, <1>3, CostNumbers DEF BurstInv

(* The end of a cool-down, run out or cut short, admits everybody again.   *)
LEMMA AdmitAgain ==
  ASSUME CostTypeOK, CostTypeOK', BurstInv, UNCHANGED <<failures, total, resets>>, Reporting' = Reporting,
         \/ cycles' = cycles + 1 /\ clears' = clears
         \/ cycles' = cycles /\ clears' = clears + 1
  PROVE  BurstInv'
<1>1. /\ Cardinality(MayPay) \in Nat /\ Cardinality(MayPay') \in Nat /\ Cardinality(Callers) \in Nat
      /\ Cardinality(MayPay') <= Cardinality(Callers) /\ Cardinality(Reporting) \in Nat
  BY CountedSets, CountedNext, Counting
<1>2. PaidBefore \in Nat /\ PaidBefore' = PaidBefore + Cardinality(Callers)
  BY PaidBeforeType, PaidBeforeStep
<1> QED BY <1>1, <1>2, CostNumbers DEF BurstInv

LEMMA CutShortBurst ==
  ASSUME CostTypeOK, CostTypeOK', BurstInv, Outage, NEW c \in Callers, CutShort(c)
  PROVE  BurstInv'
<1>1. UNCHANGED <<failures, total, cycles, resets>> /\ openLeft' = 0
  BY DEF CutShort, ClearOpen, spent
<1>2. pc[c] = "clearOpen" /\ pc' = [pc EXCEPT ![c] = "setOk"]
  BY DEF CutShort, ClearOpen, Goto
<1>3. \A d \in Callers : pc'[d] = IF d = c THEN "setOk" ELSE pc[d]
  BY <1>2 DEF CostTypeOK, TypeOK
<1>4. Reporting' = Reporting
  BY <1>2, <1>3 DEF Reporting, Unreported
<1>5. CASE CircuitOpen
  <2>1. clears' = clears + 1
    BY <1>5 DEF CutShort, One
  <2> QED BY <1>1, <1>4, <2>1, AdmitAgain
<1>6. CASE ~CircuitOpen
  <2>1. clears' = clears
    BY <1>6, CostNumbers DEF CutShort, One
  <2>2. MayPay' = MayPay
    BY <1>1, <1>2, <1>3, <1>6, CostNumbers DEF MayPay, CircuitOpen, Admitted, Unreported
  <2> QED BY <1>1, <1>4, <2>1, <2>2, QuietStep
<1> QED BY <1>5, <1>6

LEMMA TickBurst ==
  ASSUME CostTypeOK, CostTypeOK', BurstInv, Outage, CostTick
  PROVE  BurstInv'
<1>1. /\ UNCHANGED <<failures, pc, total, resets, clears>>
      /\ openLeft' = (IF openLeft > 0 THEN openLeft - 1 ELSE 0)
  BY DEF CostTick, Tick, locals, spent
<1>2. Reporting' = Reporting
  BY <1>1 DEF Reporting
<1>3. CASE openLeft # 1
  <2>1. cycles' = cycles
    BY <1>3, CostNumbers DEF CostTick, CoolDownRunsOut, One
  <2>2. MayPay' = MayPay
    BY <1>1, <1>3, CostNumbers DEF MayPay, CircuitOpen
  <2> QED BY <1>1, <1>2, <2>1, <2>2, QuietStep
<1>4. CASE openLeft = 1
  <2>1. cycles' = cycles + 1
    BY <1>4 DEF CostTick, CoolDownRunsOut, One
  <2> QED BY <1>1, <1>2, <2>1, AdmitAgain
<1> QED BY <1>3, <1>4

LEMMA BurstStep ==
  CostTypeOK /\ CostTypeOK' /\ BlankInv' /\ BurstInv /\ [CostNext]_costVars => BurstInv'
<1> SUFFICES ASSUME CostTypeOK, CostTypeOK', BlankInv', BurstInv, [CostNext]_costVars PROVE BurstInv'
  OBVIOUS
<1>1. (CostTypeOK /\ total = 0 => BurstInv)'
  BY UnpaidBurst, PTL
<1>2. CASE CountAnew
  BY <1>1, <1>2 DEF CountAnew
<1>3. CASE ~CountAnew /\ ~Outage
  <2>1. ~Outage'
    BY <1>3, OutageGoesOn DEF Outage
  <2> QED BY <1>1, <2>1 DEF BlankInv
<1>4. CASE ~CountAnew /\ Outage
  <2>1. ASSUME NEW c \in Callers, Pay(c) PROVE BurstInv'
    BY <2>1, PayBurst
  <2>2. ASSUME NEW c \in Callers, Reset(c) PROVE BurstInv'
    BY <1>4, <2>2, ResetBurst
  <2>3. ASSUME NEW c \in Callers, CutShort(c) PROVE BurstInv'
    BY <1>4, <2>3, CutShortBurst
  <2>4. ASSUME NEW c \in Callers, Believe(c) PROVE BurstInv'
    <3>1. UNCHANGED <<failures, total, cycles, resets, clears>>
      BY <2>4 DEF Believe, LoadHealthy, spent
    <3>2. ~CountFailure(c)
      BY <2>4 DEF Believe, LoadHealthy, CountFailure, Goto
    <3> QED BY <2>4, <3>1, <3>2, FreeSets, QuietStep
  <2>5. ASSUME NEW c \in Callers, Free(c), UNCHANGED history PROVE BurstInv'
    <3>1. UNCHANGED <<total, cycles, resets, clears>>
      BY <2>5 DEF history, spent
    <3>2. CASE CountFailure(c)
      BY <3>1, <3>2, CountBurst
    <3>3. CASE ~CountFailure(c)
      <4>1. failures' = failures
        BY <2>5, <3>3 DEF Free, Denied, ReadStamp, ReadOk, NoteCached, StoreHealthy, SetOk, StampOk,
             Spoil, SetBad, StampBad, Open, Begin
      <4> QED BY <2>5, <3>1, <3>3, <4>1, FreeSets, QuietStep
    <3> QED BY <3>2, <3>3
  <2>6. CASE CostTick
    BY <1>4, <2>6, TickBurst
  <2>7. CASE UNCHANGED costVars
    <3>1. UNCHANGED <<failures, openLeft, pc, total, cycles, resets, clears>>
      BY <2>7 DEF costVars, vars, history, spent
    <3>2. MayPay' = MayPay /\ Reporting' = Reporting
      BY <3>1 DEF MayPay, Reporting, CircuitOpen
    <3> QED BY <3>1, <3>2, QuietStep
  <2> QED BY <1>4, <2>1, <2>2, <2>3, <2>4, <2>5, <2>6, <2>7 DEF CostNext
<1> QED BY <1>2, <1>3, <1>4

(* Over a whole outage all callers together lose the exchanges that open   *)
(* the circuit and those under way beside them, the same again per reset,  *)
(* and an exchange of each caller per cool-down that ends.                 *)
THEOREM BurstCost == CostSpec => []BurstBounded
<1>1. CostInit => BurstInv
  BY CostInitInv, UnpaidBurst DEF CostInit
<1>2. CostTypeOK /\ BurstInv => BurstBounded
  BY BurstInvBounds
<1> QED
  BY <1>1, <1>2, CostInitInv, CostTypeStep, BlankStep, BurstStep, PTL DEF CostSpec
=============================================================================
