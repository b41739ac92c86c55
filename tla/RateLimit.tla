------------------------------ MODULE RateLimit ------------------------------
(***************************************************************************)
(* The fixed window of a bucket: a Redis counter whose first caller gives  *)
(* it the TTL of the window, by a command of its own.  Allow counts, sets  *)
(* the TTL, reads it for the answer, and admits up to the limit.  Time is  *)
(* what is left of the TTL and the age of the calls admitted.              *)
(***************************************************************************)
EXTENDS Integers, FiniteSetsExt

CONSTANTS
  Callers,
  limit, window,
  MaxFaults   \* bound on the calls that end between two commands

\* What an instance must give the constants.
RateLimitAssumption ==
  limit \in Nat \ {0} /\ window \in Nat \ {0} /\ MaxFaults \in Nat

VARIABLES
  count,   \* the counter, 0 when the key is not there
  left,    \* its TTL, -1 when it has none
  caller,  \* where each call is, and the count it got
  recent,  \* history: the calls admitted, by the age of their count
  faults

vars == <<count, left, caller, recent, faults>>

\* Counts past the limit and the mutant's are alike.
Cap == limit + 2
Ages == 0..(window - 1)
Out == [pc |-> "out", count |-> 0]

RateLimitTypeOK ==
  /\ count \in 0..Cap /\ left \in -1..window /\ faults \in 0..MaxFaults
  /\ caller \in [Callers -> [pc : {"out", "expire", "ttl"}, count : 0..Cap]]
  /\ recent \in [Ages -> Nat]
  /\ count = 0 => left = -1

Init ==
  /\ count = 0 /\ left = -1 /\ faults = 0
  /\ caller = [c \in Callers |-> Out]
  /\ recent = [a \in Ages |-> 0]

-----------------------------------------------------------------------------
Allowed(n) == n <= limit

SetsTTL(n) == n = 1

\* INCR.  Whether the call is admitted is settled here.
Allow(c) ==
  /\ caller[c].pc = "out"
  /\ LET n == IF count < Cap THEN count + 1 ELSE Cap IN
     /\ count' = n
     /\ caller' = [caller EXCEPT ![c] = [pc |-> IF SetsTTL(n) THEN "expire" ELSE "ttl", count |-> n]]
     /\ recent' = IF Allowed(n) THEN [recent EXCEPT ![0] = @ + 1] ELSE recent
  /\ UNCHANGED <<left, faults>>

\* EXPIRE of a key that is there.
Expire(c) ==
  /\ caller[c].pc = "expire"
  /\ left' = IF count > 0 THEN window ELSE left
  /\ caller' = [caller EXCEPT ![c].pc = "ttl"]
  /\ UNCHANGED <<count, recent, faults>>

\* TTL, for the seconds the answer asks to wait: the window where there is none.
RetryAfter(c) ==
  /\ caller[c].pc = "ttl"
  /\ caller' = [caller EXCEPT ![c] = Out]
  /\ UNCHANGED <<count, left, recent, faults>>

\* The process ends or the command fails: what is counted stays.
Fails(c) ==
  /\ caller[c].pc # "out" /\ faults < MaxFaults
  /\ faults' = faults + 1
  /\ caller' = [caller EXCEPT ![c] = Out]
  /\ UNCHANGED <<count, left, recent>>

\* A second of the window passes.
Tick ==
  /\ left' = IF left <= 1 THEN -1 ELSE left - 1
  /\ count' = IF left = 1 THEN 0 ELSE count
  /\ recent' = [a \in Ages |-> IF a = 0 THEN 0 ELSE recent[a - 1]]
  /\ UNCHANGED <<caller, faults>>

Next == (\E c \in Callers : Allow(c) \/ Expire(c) \/ RetryAfter(c) \/ Fails(c)) \/ Tick

Spec == Init /\ [][Next]_vars

\* Time passes and commands are answered; callers keep calling.
FairSpec ==
  /\ Spec /\ WF_vars(Tick)
  /\ \A c \in Callers : WF_vars(Expire(c) \/ RetryAfter(c))

-----------------------------------------------------------------------------
\* Allow: in no span of a window's length more than two windows' calls are
\* admitted, wherever the span starts.
AtMostTwice == MapThenSumSet(LAMBDA a : recent[a], Ages) <= 2 * limit

\* Enforce: "try again in a while (n seconds)".  A bucket that turns callers
\* away admits them again.
WindowEnds == count > limit ~> count = 0
=============================================================================
