--------------------------- MODULE ServiceCircuit ---------------------------
(***************************************************************************)
(* The circuit breaker and health cache of include/agent/                  *)
(* service_circuit.hpp, driven by the calls of its three users:            *)
(* RetrievalClient and RankerClient (Healthy() is a "probe", Post() is a   *)
(* "post") and HttpLlmClient (Chat() is a "chat", ChatStream() a           *)
(* "stream").  One instance of the module is one client object, shared by  *)
(* the request threads Callers.                                            *)
(*                                                                         *)
(* The four atomics are only accessed with relaxed loads and stores and    *)
(* every store is a step of its own, so reports of different threads       *)
(* interleave; the stores of one thread stay in program order (they do on  *)
(* the x86 targets the project builds for).  Reading the clock and storing *)
(* the result is one step: the two instructions are adjacent, the unit of  *)
(* Tick is a whole cache or cool-down interval's fraction.                 *)
(*                                                                         *)
(* Time is relative.  openLeft is max(0, open_until_ms_ - now), healthAge  *)
(* is now - health_at_ms_ up to Ttl + 1, which also stands for "never";    *)
(* the code compares the timestamps with now and nothing else.  failures   *)
(* stops at Threshold: the code only asks whether it has been reached.     *)
(***************************************************************************)
EXTENDS Naturals

CONSTANTS Callers,    \* threads that share the client
          Kinds,      \* calls they make: a subset of AllKinds
          Threshold,  \* Config::breaker_threshold
          Cooldown,   \* Config::breaker_cooldown_ms, in ticks
          Ttl         \* Config::health_ttl_ms, in ticks

AllKinds == {"probe", "post", "chat", "stream"}

ASSUME CircuitAssumption ==
  /\ Threshold \in Nat \ {0}
  /\ Cooldown \in Nat \ {0}
  /\ Ttl \in Nat
  /\ Kinds \subseteq AllKinds

VARIABLES failures,   \* failures_
          openLeft,   \* open_until_ms_ - now, at least 0
          healthOk,   \* health_ok_
          healthAge,  \* now - health_at_ms_, at most Ttl + 1
          healthy,    \* healthy_ of the client object
          service,    \* the remote service: up, sick (only its health check works) or down
          pc,         \* where each caller is
          kind,       \* the call it is making
          verdict     \* what the call learned: a cached verdict or its exchange's outcome

circuit == <<failures, openLeft, healthOk, healthAge>>
locals == <<pc, kind, verdict>>
vars == <<failures, openLeft, healthOk, healthAge, healthy, service, pc, kind, verdict>>

ServiceStates == {"up", "sick", "down"}
Outcomes == {"ok", "garbled", "bad"}   \* garbled: status 200 and a body that does not parse
Success == {"resetFailures", "clearOpen", "setOk", "stampOk"}
Failure == {"setBad", "stampBad", "countFailure", "open"}
Labels == {"idle", "denied", "cache", "readOk", "note", "net", "store", "load", "spoil"}
            \cup Success \cup Failure

TypeOK ==
  /\ failures \in 0..Threshold
  /\ openLeft \in 0..Cooldown
  /\ healthOk \in BOOLEAN
  /\ healthAge \in 0..(Ttl + 1)
  /\ healthy \in BOOLEAN
  /\ service \in ServiceStates
  /\ pc \in [Callers -> Labels]
  /\ kind \in [Callers -> AllKinds]
  /\ verdict \in [Callers -> Outcomes]

Init ==
  /\ failures = 0
  /\ openLeft = 0
  /\ healthOk = FALSE
  /\ healthAge = Ttl + 1
  /\ healthy = TRUE
  /\ service \in ServiceStates
  /\ pc = [c \in Callers |-> "idle"]
  /\ kind \in [Callers -> Kinds]
  /\ verdict = [c \in Callers |-> "bad"]

(* Mutant: an open circuit waits for a success, not for its cool-down.     *)
OpenUntilSuccess == failures >= Threshold

Goto(c, from, to) == pc[c] = from /\ pc' = [pc EXCEPT ![c] = to]
CircuitOpen == openLeft > 0
-----------------------------------------------------------------------------
(* Mutant: a post is not refused by an open circuit.                       *)
PostIgnoresCircuit(k) ==
  CASE CircuitOpen /\ k \in {"probe", "chat"} -> "denied"
    [] CircuitOpen /\ k = "stream"             -> "idle"
    [] ~CircuitOpen /\ k = "probe"             -> "cache"
    [] OTHER                                   -> "net"

(* A call begins by asking AllowRequest.  Denied, every call but a stream  *)
(* clears healthy_ on its way out.                                         *)
AfterAllow(k) ==
  CASE CircuitOpen /\ k \in {"probe", "chat"} -> "denied"
    [] CircuitOpen /\ k \in {"post", "stream"} -> "idle"
    [] ~CircuitOpen /\ k = "probe"           -> "cache"
    [] OTHER                                 -> "net"

Begin(c, k) ==
  /\ Goto(c, "idle", AfterAllow(k))
  /\ kind' = [kind EXCEPT ![c] = k]
  /\ UNCHANGED <<failures, openLeft, healthOk, healthAge, healthy, service, verdict>>

Denied(c) ==
  /\ Goto(c, "denied", "idle")
  /\ healthy' = FALSE
  /\ UNCHANGED <<failures, openLeft, healthOk, healthAge, service, kind, verdict>>

(* CachedHealth: a load of health_at_ms_, then of health_ok_; Healthy()    *)
(* copies a cached verdict to healthy_.                                    *)
ReadStamp(c) ==
  /\ Goto(c, "cache", IF healthAge > Ttl THEN "net" ELSE "readOk")
  /\ UNCHANGED <<failures, openLeft, healthOk, healthAge, healthy, service, kind, verdict>>

ReadOk(c) ==
  /\ Goto(c, "readOk", "note")
  /\ verdict' = [verdict EXCEPT ![c] = IF healthOk THEN "ok" ELSE "bad"]
  /\ UNCHANGED <<failures, openLeft, healthOk, healthAge, healthy, service, kind>>

NoteCached(c) ==
  /\ Goto(c, "note", "idle")
  /\ healthy' = (verdict[c] # "bad")
  /\ UNCHANGED <<failures, openLeft, healthOk, healthAge, service, kind, verdict>>

(* The exchange with the service.  A sick service answers its health check *)
(* and fails requests; the body of a Post() that returns 200 may not       *)
(* parse.  Chat() parses before it reports: to it such a body is a failure.*)
Answers(k) ==
  CASE service = "up"                   -> {"ok"}
    [] service = "sick" /\ k = "probe" -> {"ok"}
    [] service = "sick" /\ k = "post"  -> {"garbled", "bad"}
    [] OTHER                            -> {"bad"}

Exchange(c) ==
  /\ Goto(c, "net", "store")
  /\ \E o \in Answers(kind[c]) : verdict' = [verdict EXCEPT ![c] = o]
  /\ UNCHANGED <<failures, openLeft, healthOk, healthAge, healthy, service, kind>>

ReportOf(ok) == IF ok THEN "resetFailures" ELSE "setBad"

(* healthy_ = outcome.  Post, Chat and ChatStream branch on the outcome;   *)
(* Healthy() branches on healthy_.load(), which another caller may have    *)
(* written in between.                                                     *)
StoreHealthy(c) ==
  /\ Goto(c, "store", IF kind[c] = "probe" THEN "load" ELSE ReportOf(verdict[c] # "bad"))
  /\ healthy' = (verdict[c] # "bad")
  /\ UNCHANGED <<failures, openLeft, healthOk, healthAge, service, kind, verdict>>

LoadHealthy(c) ==
  /\ Goto(c, "load", ReportOf(healthy))
  /\ UNCHANGED <<failures, openLeft, healthOk, healthAge, healthy, service, kind, verdict>>
-----------------------------------------------------------------------------
(* ReportSuccess                                                           *)
ResetFailures(c) ==
  /\ Goto(c, "resetFailures", "clearOpen")
  /\ failures' = 0
  /\ UNCHANGED <<openLeft, healthOk, healthAge, healthy, service, kind, verdict>>

ClearOpen(c) ==
  /\ Goto(c, "clearOpen", "setOk")
  /\ openLeft' = 0
  /\ UNCHANGED <<failures, healthOk, healthAge, healthy, service, kind, verdict>>

SetOk(c) ==
  /\ Goto(c, "setOk", "stampOk")
  /\ healthOk' = TRUE
  /\ UNCHANGED <<failures, openLeft, healthAge, healthy, service, kind, verdict>>

(* A post reports success before it parses the body; if that throws, the   *)
(* handler reports a failure after the success.                            *)
StampOk(c) ==
  /\ Goto(c, "stampOk", IF verdict[c] = "garbled" THEN "spoil" ELSE "idle")
  /\ healthAge' = 0
  /\ UNCHANGED <<failures, openLeft, healthOk, healthy, service, kind, verdict>>

Spoil(c) ==
  /\ Goto(c, "spoil", "setBad")
  /\ healthy' = FALSE
  /\ UNCHANGED <<failures, openLeft, healthOk, healthAge, service, kind, verdict>>

(* ReportFailure                                                           *)
SetBad(c) ==
  /\ Goto(c, "setBad", "stampBad")
  /\ healthOk' = FALSE
  /\ UNCHANGED <<failures, openLeft, healthAge, healthy, service, kind, verdict>>

StampBad(c) ==
  /\ Goto(c, "stampBad", "countFailure")
  /\ healthAge' = 0
  /\ UNCHANGED <<failures, openLeft, healthOk, healthy, service, kind, verdict>>

(* Mutant: the value before the increment is compared.                     *)
ThresholdTooLate == failures >= Threshold

(* failures_.fetch_add(1) + 1 >= breaker_threshold                         *)
ReachesThreshold == failures + 1 >= Threshold

(* failures_ itself goes on counting after Threshold; nothing depends on   *)
(* how far.                                                                *)
CountFailure(c) ==
  /\ Goto(c, "countFailure", IF ReachesThreshold THEN "open" ELSE "idle")
  /\ failures' = IF failures < Threshold THEN failures + 1 ELSE failures
  /\ UNCHANGED <<openLeft, healthOk, healthAge, healthy, service, kind, verdict>>

Open(c) ==
  /\ Goto(c, "open", "idle")
  /\ openLeft' = Cooldown
  /\ UNCHANGED <<failures, healthOk, healthAge, healthy, service, kind, verdict>>
-----------------------------------------------------------------------------
(* Mutant: the remaining cool-down passes zero.                            *)
TickBelowZero ==
  /\ openLeft' = openLeft - 1
  /\ healthAge' = IF healthAge > Ttl THEN healthAge ELSE healthAge + 1
  /\ UNCHANGED <<failures, healthOk, healthy, service, locals>>

Tick ==
  /\ openLeft' = IF openLeft > 0 THEN openLeft - 1 ELSE 0
  /\ healthAge' = IF healthAge > Ttl THEN healthAge ELSE healthAge + 1
  /\ UNCHANGED <<failures, healthOk, healthy, service, locals>>

ServiceChanges ==
  /\ service' \in ServiceStates \ {service}
  /\ UNCHANGED <<circuit, healthy, locals>>

Report(c) ==
  \/ ResetFailures(c) \/ ClearOpen(c) \/ SetOk(c) \/ StampOk(c) \/ Spoil(c)
  \/ SetBad(c) \/ StampBad(c) \/ CountFailure(c) \/ Open(c)

Continue(c) ==
  \/ Denied(c) \/ ReadStamp(c) \/ ReadOk(c) \/ NoteCached(c)
  \/ Exchange(c) \/ StoreHealthy(c) \/ LoadHealthy(c) \/ Report(c)

Next ==
  \/ \E c \in Callers : Continue(c) \/ \E k \in Kinds : Begin(c, k)
  \/ Tick
  \/ ServiceChanges

Spec == Init /\ [][Next]_vars

(* A call that has begun goes on (every network operation has a timeout)   *)
(* and time passes.  Nobody is obliged to call, the service to recover.    *)
FairSpec == Spec /\ WF_vars(Tick) /\ \A c \in Callers : WF_vars(Continue(c))
-----------------------------------------------------------------------------
(* service_circuit.hpp: the verdict of a trial re-closes (success) or      *)
(* re-opens (failure) the circuit.  So it does in a caller that reports a  *)
(* failure only after an exchange that failed.  Healthy() need not: it     *)
(* branches on healthy_, where another caller's failure, or its refusal by *)
(* the open circuit, may have replaced the success of its own probe.       *)
ReportsOwnVerdict ==
  \A c \in Callers :
    pc[c] \in {"setBad", "stampBad", "countFailure"} => verdict[c] # "ok"

(* Once the service stays up, the circuit closes for good: late failure    *)
(* reports of an outage may still open it, but only finitely often.  What  *)
(* can keep it open for ever are callers that go on confusing each other's *)
(* verdicts.                                                               *)
Recovers == <>[](service = "up" /\ ReportsOwnVerdict) => <>[](~CircuitOpen)
=============================================================================
