-------------------------- MODULE RateLimiterProofs --------------------------
(***************************************************************************)
(* RateBounded and PromiseKept for any number of callers, any cost, burst  *)
(* and lag.                                                                *)
(***************************************************************************)
EXTENDS RateLimiter, TLAPS

Inv == TypeOK /\ LimiterInv

(* What Allow finds under the mutex: a level that is at most the burst,    *)
(* reached without the credit growing.                                     *)
LEMMA RefillLosesCredit ==
  ASSUME Inv, NEW c \in Callers, pc[c] = "waiting"
  PROVE  /\ Refilled(now[c]) \in Int
         /\ Refilled(now[c]) <= Burst
         /\ Refilled(now[c]) + (clock - now[c]) >= 0
         /\ now[c] \in Nat /\ now[c] <= clock /\ clock - now[c] <= MaxLag
         /\ last # Never => Refilled(now[c]) + (clock - now[c]) <= Credit \/ Refilled(now[c]) = Burst
         /\ last # Never /\ touched =>
              Refilled(now[c]) + (clock - now[c]) <= Credit
  BY LimiterAssumption DEF Inv, TypeOK, LimiterInv, Refilled, AtMost, Credit, Never

LEMMA InitInv == Init => Inv
<1> SUFFICES ASSUME Init PROVE Inv
  OBVIOUS
<1>1. /\ clock \in 0..MaxTime /\ tokens \in -MaxLag..Burst /\ mark \in 0..MaxTime /\ spent \in Nat
      /\ last \in 0..MaxTime \cup {Never} /\ promise \in Nat \cup {Never}
  BY LimiterAssumption DEF Init
<1>2. pc \in [Callers -> {"idle", "waiting"}] /\ now \in [Callers -> 0..MaxTime]
  BY LimiterAssumption DEF Init
<1>3. touched \in BOOLEAN
  BY DEF Init
<1>4. LimiterInv
  BY LimiterAssumption DEF Init, LimiterInv, Never, Credit
<1> QED BY <1>1, <1>2, <1>3, <1>4 DEF Inv, TypeOK

LEMMA ReadClockInv == ASSUME Inv, NEW c \in Callers, ReadClock(c) PROVE Inv'
  BY LimiterAssumption DEF ReadClock, Inv, TypeOK, LimiterInv, Never, Credit

LEMMA AdmitInv == ASSUME Inv, NEW c \in Callers, Admit(c) PROVE Inv'
<1>1. pc[c] = "waiting"
  BY DEF Admit, Enter
<1>2. TypeOK'
  BY <1>1, RefillLosesCredit, LimiterAssumption DEF Admit, Enter, Inv, TypeOK, Never
<1>3. LimiterInv'
  BY <1>1, RefillLosesCredit, LimiterAssumption DEF Admit, Enter, Inv, TypeOK, LimiterInv, Credit, Never
<1> QED BY <1>2, <1>3 DEF Inv

LEMMA RejectInv == ASSUME Inv, NEW c \in Callers, Reject(c) PROVE Inv'
<1>1. pc[c] = "waiting"
  BY DEF Reject, Enter
<1>2. TypeOK'
  BY <1>1, RefillLosesCredit, LimiterAssumption DEF Reject, Enter, RetryAfter, Inv, TypeOK, Never
<1>3. LimiterInv'
  BY <1>1, RefillLosesCredit, LimiterAssumption DEF Reject, Enter, Inv, TypeOK, LimiterInv, Credit, Never
<1> QED BY <1>2, <1>3 DEF Inv

LEMMA TickInv == ASSUME Inv, Tick PROVE Inv'
  BY LimiterAssumption DEF Tick, Inv, TypeOK, LimiterInv, Never, Credit

LEMMA StartWindowInv == ASSUME Inv, StartWindow PROVE Inv'
<1>1. TypeOK'
  BY DEF StartWindow, Inv, TypeOK
<1>2. LimiterInv'
  BY LimiterAssumption DEF StartWindow, Inv, TypeOK, LimiterInv, Never, Credit
<1> QED BY <1>1, <1>2 DEF Inv

LEMMA StepInv == ASSUME Inv, [Next]_vars PROVE Inv'
<1>1. CASE UNCHANGED vars
  BY <1>1 DEF vars, Inv, TypeOK, LimiterInv, Credit
<1>2. CASE Next
  BY <1>2, ReadClockInv, AdmitInv, RejectInv, TickInv, StartWindowInv DEF Next
<1> QED BY <1>1, <1>2

THEOREM LimiterCorrect == Spec => []Inv
<1>1. Init => Inv
  BY InitInv
<1>2. Inv /\ [Next]_vars => Inv'
  BY StepInv
<1> QED BY <1>1, <1>2, PTL DEF Spec

(* The bucket stays well typed; in particular its level never falls below  *)
(* what a stale time can take from it.                                     *)
THEOREM TypeCorrect == Spec => []TypeOK
<1>1. Inv => TypeOK
  BY DEF Inv
<1> QED BY <1>1, LimiterCorrect, PTL

(* No key gets more than its rate, in any window of time.                  *)
THEOREM RateIsBounded == Spec => []RateBounded
<1>1. Inv => RateBounded
  BY LimiterAssumption DEF Inv, TypeOK, LimiterInv, RateBounded, Credit, Never
<1> QED BY <1>1, LimiterCorrect, PTL
-----------------------------------------------------------------------------
(* Where the bucket will be at the promised time.                          *)
PromiseInv == promise # Never => last # Never /\ tokens + (promise - last) >= Cost

LEMMA PromiseStep ==
  ASSUME Burst >= Cost, Inv, PromiseInv, [Next]_vars
  PROVE  PromiseInv'
<1>1. ASSUME NEW c \in Callers, Reject(c) PROVE PromiseInv'
  <2>1. pc[c] = "waiting"
    BY <1>1 DEF Reject, Enter
  <2>2. /\ Refilled(now[c]) \in Int /\ Refilled(now[c]) < Cost
        /\ now[c] \in Nat /\ now[c] <= clock
        /\ tokens' = Refilled(now[c]) /\ last' = now[c]
    BY <1>1, <2>1, RefillLosesCredit DEF Reject, Enter
  <2>3. CASE promise = Never
    <3>1. promise' = clock + (Cost - tokens')
      BY <1>1, <2>3 DEF Reject, RetryAfter
    <3> QED BY <2>2, <3>1, LimiterAssumption DEF PromiseInv, Inv, TypeOK, Never
  <2>4. CASE promise # Never
    <3>1. promise' = promise /\ last # Never
      BY <1>1, <2>4 DEF Reject, PromiseInv
    <3>2. tokens' = tokens + (now[c] - last)
      BY <2>2, <3>1, LimiterAssumption DEF Refilled, AtMost, Inv, TypeOK
    <3> QED BY <2>2, <2>4, <3>1, <3>2, LimiterAssumption DEF PromiseInv, Inv, TypeOK, Never
  <2> QED BY <2>3, <2>4
<1>2. ASSUME NEW c \in Callers, Admit(c) PROVE PromiseInv'
  BY <1>2 DEF Admit, PromiseInv
<1>3. ASSUME NEW c \in Callers, ReadClock(c) PROVE PromiseInv'
  BY <1>3 DEF ReadClock, PromiseInv
<1>4. CASE Tick
  BY <1>4 DEF Tick, PromiseInv
<1>5. CASE StartWindow
  BY <1>5 DEF StartWindow, PromiseInv
<1>6. CASE UNCHANGED vars
  BY <1>6 DEF vars, PromiseInv
<1> QED BY <1>1, <1>2, <1>3, <1>4, <1>5, <1>6 DEF Next

(* With room for a token in the bucket, retry_after can be relied upon.    *)
THEOREM RetryAfterHolds == Burst >= Cost /\ Spec => PromiseKept
<1> SUFFICES ASSUME Burst >= Cost PROVE Spec => PromiseKept
  OBVIOUS
<1>1. Init => PromiseInv
  BY DEF Init, PromiseInv
<1>2. Inv /\ PromiseInv /\ [Next]_vars => PromiseInv'
  BY PromiseStep
<1>3. Inv /\ PromiseInv /\ [Next]_vars =>
        [\A c \in Callers : Reject(c) => promise = Never \/ now[c] < promise]_vars
  <2> SUFFICES ASSUME Inv, PromiseInv, NEW c \in Callers, Reject(c), promise # Never
               PROVE  now[c] < promise
    OBVIOUS
  <2>1. pc[c] = "waiting" /\ Refilled(now[c]) < Cost
    BY DEF Reject, Enter
  <2>2. now[c] \in Nat
    BY <2>1, RefillLosesCredit
  <2>3. last # Never /\ tokens + (promise - last) >= Cost
    BY DEF PromiseInv
  <2> QED BY <2>1, <2>2, <2>3, LimiterAssumption DEF Refilled, AtMost, Inv, TypeOK, Never
<1> QED BY <1>1, <1>2, <1>3, LimiterCorrect, PTL DEF Spec, PromiseKept
=============================================================================
