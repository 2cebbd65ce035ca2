------------------------- MODULE ServiceCircuitCost -------------------------
(***************************************************************************)
(* What an outage costs.  The circuit exists because every exchange with a *)
(* dead service costs seconds (the header of service_circuit.hpp).  An     *)
(* outage is the time from the service going down to its coming back; the  *)
(* history variables count, from its first moment to its last, what the    *)
(* callers paid and everything that made them pay again: cool-downs, and   *)
(* success reports that arrive in spite of the outage.                     *)
(***************************************************************************)
EXTENDS ServiceCircuit, FiniteSets

CONSTANTS MaxCycles,    \* bound: cool-downs that run out in one outage
          MaxConfused   \* bound: dead probes taken for healthy in one outage

ASSUME CostAssumption == MaxCycles \in Nat /\ MaxConfused \in Nat /\ IsFiniteSet(Callers)

VARIABLES paid,      \* exchanges each caller has lost to the outage
          total,     \* exchanges all of them have lost to it
          cycles,    \* cool-downs that ran out in it
          resets,    \* times a success report reset failures_ in it
          clears,    \* times a success report closed an open circuit in it
          confused   \* probes of it that failed and were taken for a success

spent == <<paid, total>>
history == <<spent, cycles, resets, clears, confused>>
costVars == <<vars, history>>

CostTypeOK ==
  /\ TypeOK
  /\ paid \in [Callers -> Nat] /\ total \in Nat /\ cycles \in 0..MaxCycles
  /\ resets \in Nat /\ clears \in Nat /\ confused \in 0..MaxConfused

CostInit ==
  /\ Init
  /\ paid = [c \in Callers |-> 0] /\ total = 0 /\ cycles = 0
  /\ resets = 0 /\ clears = 0 /\ confused = 0

Outage == service = "down"
One(happens) == IF happens THEN 1 ELSE 0

(* In an outage every exchange fails.                                      *)
Pay(c) ==
  /\ Exchange(c)
  /\ paid' = [paid EXCEPT ![c] = @ + One(Outage)]
  /\ total' = total + One(Outage)
  /\ UNCHANGED <<cycles, resets, clears, confused>>

(* The two stores of ReportSuccess that let callers in again.  In an       *)
(* outage they come from an exchange made before it, or from a probe that  *)
(* was taken for healthy.                                                  *)
Reset(c) ==
  /\ ResetFailures(c)
  /\ resets' = resets + One(Outage)
  /\ UNCHANGED <<spent, cycles, clears, confused>>

CutShort(c) ==
  /\ ClearOpen(c)
  /\ clears' = clears + One(Outage /\ CircuitOpen)
  /\ UNCHANGED <<spent, cycles, resets, confused>>

(* Healthy() stores its probe's outcome in healthy_ and branches on what   *)
(* it reads there: another caller's word for its own.                      *)
TakenForHealthy(c) == Outage /\ verdict[c] = "bad" /\ healthy

Believe(c) ==
  /\ LoadHealthy(c)
  /\ TakenForHealthy(c) => confused < MaxConfused
  /\ confused' = confused + One(TakenForHealthy(c))
  /\ UNCHANGED <<spent, cycles, resets, clears>>

CoolDownRunsOut == Outage /\ openLeft = 1

CostTick ==
  /\ Tick
  /\ CoolDownRunsOut => cycles < MaxCycles
  /\ cycles' = cycles + One(CoolDownRunsOut)
  /\ UNCHANGED <<spent, resets, clears, confused>>

(* The steps that cost nothing and give nothing back.                      *)
Free(c) ==
  \/ Denied(c) \/ ReadStamp(c) \/ ReadOk(c) \/ NoteCached(c) \/ StoreHealthy(c)
  \/ SetOk(c) \/ StampOk(c) \/ Spoil(c) \/ SetBad(c) \/ StampBad(c) \/ CountFailure(c) \/ Open(c)
  \/ \E k \in Kinds : Begin(c, k)

(* A change of the service ends its outage or begins one.                  *)
CountAnew ==
  /\ ServiceChanges
  /\ paid' = [c \in Callers |-> 0] /\ total' = 0 /\ cycles' = 0
  /\ resets' = 0 /\ clears' = 0 /\ confused' = 0

CostNext ==
  \/ \E c \in Callers :
       Pay(c) \/ Reset(c) \/ CutShort(c) \/ Believe(c) \/ (Free(c) /\ UNCHANGED history)
  \/ CostTick
  \/ CountAnew

CostSpec == CostInit /\ [][CostNext]_costVars
-----------------------------------------------------------------------------
(* A success is reported in an outage for an exchange made before it, one  *)
(* of each caller at most, or for a probe that was taken for healthy.      *)
SuccessesExplained ==
  /\ resets <= Cardinality(Callers) + confused
  /\ clears <= Cardinality(Callers) + confused

(* Over a whole outage, a caller that keeps calling loses Threshold        *)
(* exchanges, one more per cool-down that ran out or was cut short, and    *)
(* Threshold more for every success report that reset the counter, of      *)
(* which there are no more than late and mistaken successes.  So it is     *)
(* however the stores of the reports interleave: what a success report of  *)
(* another caller undoes is paid for again, once, and no failure is lost   *)
(* otherwise.                                                              *)
PaidFailuresBounded ==
  /\ SuccessesExplained
  /\ \A c \in Callers : paid[c] <= Threshold * (1 + resets) + cycles + clears

(* All callers together: before the circuit opens they lose Threshold - 1  *)
(* exchanges and the burst of those that are under way, one each; a reset  *)
(* costs that again at most, and every end of a cool-down the recovery     *)
(* burst the header announces, one exchange of each caller.                *)
BurstBounded ==
  total <= (Threshold - 1 + Cardinality(Callers)) * (1 + resets)
             + Cardinality(Callers) * (cycles + clears)

(* The strengthening of PaidFailuresBounded.  While the circuit is closed  *)
(* and the caller has nothing to store, or it has been admitted and waits  *)
(* for its exchange, it still has one failure to spend; before the counter *)
(* reaches Threshold it has counted all it paid for since the last reset.  *)
Admitted == {"cache", "readOk", "note", "net"}
Unreported == {"store", "load", "resetFailures", "setBad", "stampBad", "countFailure"}

Granted == Threshold * resets + cycles + clears

Covered(c) ==
  /\ paid[c] <= Granted + Threshold
  /\ pc[c] \in Admitted => paid[c] < Granted + Threshold
  /\ ~CircuitOpen /\ pc[c] \notin Unreported \cup {"open"} => paid[c] < Granted + Threshold
  /\ failures < Threshold => paid[c] <= Granted + failures + One(pc[c] \in Unreported)

CostInv == \A c \in Callers : Covered(c)

(* The callers that will reset the counter, or at least close the circuit, *)
(* and for another reason than a probe taken for healthy in this outage.   *)
ToReset == {c \in Callers : \/ pc[c] = "resetFailures"
                            \/ pc[c] \in {"store", "load"} /\ verdict[c] # "bad"}
ToClear == ToReset \cup {c \in Callers : pc[c] = "clearOpen"}

SuccessInv ==
  /\ resets + Cardinality(ToReset) <= Cardinality(Callers) + confused
  /\ clears + Cardinality(ToClear) <= Cardinality(Callers) + confused

(* Outside an outage the history is blank.                                 *)
BlankInv == ~Outage => paid = [c \in Callers |-> 0] /\ total = 0 /\ resets = 0 /\ clears = 0

(* The strengthening of BurstBounded.  MayPay are the callers that can     *)
(* still lose an exchange before the next cool-down ends, Reporting those  *)
(* that may have lost one and not yet counted it.  A caller that counts    *)
(* the failure that reaches Threshold can lose another only after a        *)
(* cool-down; nor can one that is still reporting, and its exchange has    *)
(* been paid for already.                                                  *)
MayPay == {c \in Callers : pc[c] \in Admitted \/ (~CircuitOpen /\ pc[c] \notin Unreported \cup {"open"})}
Reporting == {c \in Callers : pc[c] \in Unreported}

PaidBefore ==
  (Threshold - 1 + Cardinality(Callers)) * resets + Cardinality(Callers) * (cycles + clears)

BurstInv ==
  IF failures < Threshold
  THEN total <= PaidBefore + failures + Cardinality(Reporting)
  ELSE total + Cardinality(MayPay) <= PaidBefore + Threshold - 1 + Cardinality(Callers)
=============================================================================
