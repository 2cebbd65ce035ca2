----------------------------- MODULE RateLimiter -----------------------------
(***************************************************************************)
(* One bucket of an enabled RateLimiter, shared by the requests of one     *)
(* user (buckets do not interact).  Allow() reads the clock before it      *)
(* takes the mutex, so a thread that waits for the mutex refills the       *)
(* bucket with a stale time: elapsed is then negative and last_refill      *)
(* moves backwards.                                                        *)
(*                                                                         *)
(* Amounts are integers: a token is Cost grains and the unit of time is    *)
(* what refills one grain, so that rps is Cost grains per second.          *)
(***************************************************************************)
EXTENDS Integers

CONSTANTS Callers,   \* threads that call Allow
          Cost,      \* grains of one token
          Burst,     \* capacity of the bucket, in grains
          MaxLag,    \* how long a thread waits for the mutex at most
          MaxTime    \* when the clock of the instance stops

ASSUME LimiterAssumption ==
  /\ Cost \in Nat \ {0} /\ Burst \in Nat \ {0}
  /\ MaxLag \in Nat /\ MaxTime \in Nat

Never == -1

VARIABLES clock,      \* steady_clock
          tokens,     \* Bucket::tokens
          last,       \* Bucket::last_refill, Never before the first call
          pc,         \* each caller: idle, or waiting for the mutex
          now,        \* the time each caller read
          mark,       \* history: an instant that starts a window of time
          spent,      \* history: what was admitted since, in grains
          touched,    \* history: the bucket was refilled since
          promise     \* history: when a rejected caller was told to come back, Never
                      \* if a caller was admitted since

vars == <<clock, tokens, last, pc, now, mark, spent, touched, promise>>

TypeOK ==
  /\ clock \in 0..MaxTime
  /\ tokens \in -MaxLag..Burst
  /\ last \in 0..MaxTime \cup {Never}
  /\ pc \in [Callers -> {"idle", "waiting"}]
  /\ now \in [Callers -> 0..MaxTime]
  /\ mark \in 0..MaxTime
  /\ spent \in Nat
  /\ touched \in BOOLEAN
  /\ promise \in Nat \cup {Never}

Init ==
  /\ clock = 0
  /\ tokens = 0 /\ last = Never
  /\ pc = [c \in Callers |-> "idle"] /\ now = [c \in Callers |-> 0]
  /\ mark = 0 /\ spent = 0 /\ touched = FALSE
  /\ promise = Never
-----------------------------------------------------------------------------
ReadClock(c) ==
  /\ pc[c] = "idle"
  /\ pc' = [pc EXCEPT ![c] = "waiting"]
  /\ now' = [now EXCEPT ![c] = clock]
  /\ UNCHANGED <<clock, tokens, last, mark, spent, touched, promise>>

AtMost(a, b) == IF a <= b THEN a ELSE b

(* Mutant: the refill is not capped.                                       *)
Uncapped(t) == IF last = Never THEN Burst ELSE tokens + (t - last)

(* A new bucket is full; an old one is refilled up to time t.              *)
Refilled(t) == IF last = Never THEN Burst ELSE AtMost(Burst, tokens + (t - last))

(* Mutant: last_refill is only set when the bucket is made.                *)
LastNotMoved(c) ==
  /\ pc[c] = "waiting"
  /\ pc' = [pc EXCEPT ![c] = "idle"]
  /\ last' = IF last = Never THEN now[c] ELSE last
  /\ touched' = TRUE
  /\ UNCHANGED <<clock, now, mark>>

Enter(c) ==
  /\ pc[c] = "waiting"
  /\ pc' = [pc EXCEPT ![c] = "idle"]
  /\ last' = now[c]
  /\ touched' = TRUE
  /\ UNCHANGED <<clock, now, mark>>

Admit(c) ==
  /\ Enter(c)
  /\ Refilled(now[c]) >= Cost
  /\ tokens' = Refilled(now[c]) - Cost
  /\ spent' = spent + Cost
  /\ promise' = Never

(* Mutant: the time is rounded down.                                       *)
RetryTooEarly(level) == Cost - level - 1

RetryAfter(level) == Cost - level

Reject(c) ==
  /\ Enter(c)
  /\ Refilled(now[c]) < Cost
  /\ tokens' = Refilled(now[c])
  /\ promise' = IF promise = Never THEN clock + RetryAfter(tokens') ELSE promise
  /\ UNCHANGED spent

Tick ==
  /\ clock < MaxTime
  /\ \A c \in Callers : pc[c] = "waiting" => clock - now[c] < MaxLag
  /\ clock' = clock + 1
  /\ UNCHANGED <<tokens, last, pc, now, mark, spent, touched, promise>>

(* Any instant may start the window that RateBounded speaks of.            *)
StartWindow ==
  /\ mark' = clock /\ spent' = 0 /\ touched' = FALSE
  /\ UNCHANGED <<clock, tokens, last, pc, now, promise>>

Next == (\E c \in Callers : ReadClock(c) \/ Admit(c) \/ Reject(c)) \/ Tick \/ StartWindow

Spec == Init /\ [][Next]_vars
-----------------------------------------------------------------------------
(* RATE_LIMIT_RPS and RATE_LIMIT_BURST mean what they say: what a key is   *)
(* admitted in any window of time is at most the burst and what refills    *)
(* in the window, plus what refills while a thread waits for the mutex.    *)
RateBounded == spent <= Burst + (clock - mark) + MaxLag

(* retry_after is the time until a token is available (rate_limiter.hpp):  *)
(* a caller that comes back no sooner is not rejected again, unless        *)
(* somebody was admitted in the meantime.                                  *)
PromiseKept ==
  [][\A c \in Callers :
       Reject(c) => promise = Never \/ now[c] < promise]_vars

(* Why: what the bucket holds at any time, Credit, is not changed by a     *)
(* stale refill, which moves tokens and last_refill along one line.        *)
Credit == tokens + (clock - last)

LimiterInv ==
  /\ last # Never => last <= clock /\ Credit >= 0
  /\ last = Never => ~touched /\ promise = Never
  /\ mark <= clock
  /\ \A c \in Callers : pc[c] = "waiting" => now[c] <= clock /\ clock - now[c] <= MaxLag
  /\ ~touched => spent = 0
  /\ touched => spent + Credit <= Burst + (clock - mark) + MaxLag
=============================================================================
