------------------------------ MODULE Sessions ------------------------------
(***************************************************************************)
(* The session of one login: a Redis key with a payload that names its     *)
(* end, and a TTL of its own.  A request reads the payload, reads the TTL, *)
(* writes both anew when little is left, and sends the cookie forward; a   *)
(* logout, beside requests or not, deletes the key and takes the cookie.   *)
(* The key and the cookie of the browser end by the clock.  A failing      *)
(* command of the slide or of the logout is ignored.                       *)
(***************************************************************************)
EXTENDS Integers

CONSTANTS
  Requests,         \* the requests of the browser, each with its cookie
  ttl, slideAfter,  \* hours of a session, and below which it slides
  MaxTime,          \* bound on the clock
  MaxFaults         \* bound on the slides and logouts that fail

\* What an instance must give the constants.
SessionAssumption ==
  /\ ttl \in Nat \ {0} /\ slideAfter \in 1..ttl
  /\ MaxTime \in Nat /\ MaxFaults \in Nat

VARIABLES
  now,
  key,      \* the key: whether it is there, ExpiresAt, and the end of its TTL
  cookie,   \* the end of the browser's cookie
  request,  \* where each request is, the ExpiresAt it holds, and its first read
  left,     \* history: whether the user has logged out, whether that met a
            \* request under way, and when it was
  faults

vars == <<now, key, cookie, request, left, faults>>

Out == [pc |-> "out", exp |-> 0, since |-> 0]
Here == [out |-> FALSE, met |-> FALSE, at |-> 0]
Gone == [there |-> FALSE, exp |-> 0, ends |-> 0]
Horizon == MaxTime + ttl

SessionTypeOK ==
  /\ now \in 0..MaxTime /\ cookie \in 0..Horizon /\ faults \in 0..MaxFaults
  /\ left \in [out : BOOLEAN, met : BOOLEAN, at : 0..MaxTime]
  /\ key \in [there : BOOLEAN, exp : 0..Horizon, ends : 0..Horizon]
  /\ ~key.there => key = Gone
  /\ request \in [Requests -> [pc : {"out", "ttl", "slide", "answer"}, exp : 0..Horizon, since : 0..MaxTime]]

\* Create: of a login.
Init ==
  /\ now = 0 /\ faults = 0 /\ left = Here
  /\ key = [there |-> TRUE, exp |-> ttl, ends |-> ttl]
  /\ cookie = ttl
  /\ request = [r \in Requests |-> Out]

-----------------------------------------------------------------------------
\* GET, by a request of a browser that still has its cookie.
Validate(r) ==
  /\ request[r].pc = "out" /\ key.there /\ cookie > now
  /\ request' = [request EXCEPT ![r] = [pc |-> "ttl", exp |-> key.exp, since |-> now]]
  /\ UNCHANGED <<now, key, cookie, left, faults>>

\* TTL of a key that is there, with little left.
Slides == key.there /\ key.ends - now < slideAfter

TTL(r) ==
  /\ request[r].pc = "ttl"
  /\ request' = [request EXCEPT ![r].pc = IF Slides THEN "slide" ELSE "answer"]
  /\ UNCHANGED <<now, key, cookie, left, faults>>

\* SET of the payload and the TTL, whether or not the key is still there.
Slide(r) ==
  /\ request[r].pc = "slide"
  /\ key' = [there |-> TRUE, exp |-> now + ttl, ends |-> now + ttl]
  /\ request' = [request EXCEPT ![r] = [@ EXCEPT !.pc = "answer", !.exp = now + ttl]]
  /\ UNCHANGED <<now, cookie, left, faults>>

\* Mutant of Held: the answer names the end that was meant.
HeldNew(r) == now + ttl

\* What a request answers whose slide has failed: the end it has read.
Held(r) == request[r].exp

SlideFails(r) ==
  /\ request[r].pc = "slide" /\ faults < MaxFaults
  /\ faults' = faults + 1
  /\ request' = [request EXCEPT ![r] = [@ EXCEPT !.pc = "answer", !.exp = Held(r)]]
  /\ UNCHANGED <<now, key, cookie, left>>

\* refreshSessionCookie: a full life from here.
Rolled(r) == now + ttl

\* A payload that has ended is destroyed, and answered as no session.  The answer
\* may reach the browser after that of a logout: it has its cookie again.
Answer(r) ==
  /\ request[r].pc = "answer"
  /\ IF request[r].exp <= now THEN key' = Gone /\ UNCHANGED cookie
     ELSE UNCHANGED key /\ cookie' = Rolled(r)
  /\ request' = [request EXCEPT ![r] = Out]
  /\ UNCHANGED <<now, left, faults>>

Destroyed == Gone

\* The history of a logout.
Leaves == left' = [out |-> TRUE, met |-> \E r \in Requests : request[r].pc # "out", at |-> now]

\* Destroy: the key and the cookie go.
Logout ==
  /\ ~left.out /\ Leaves
  /\ key' = Destroyed
  /\ cookie' = 0
  /\ UNCHANGED <<now, request, faults>>

\* The DEL fails: the key stays, the error is dropped, and the cookie goes.
LogoutFails ==
  /\ ~left.out /\ Leaves /\ faults < MaxFaults
  /\ faults' = faults + 1
  /\ cookie' = 0
  /\ UNCHANGED <<now, key, request>>

\* An hour passes; no request takes one.
Tick ==
  /\ now < MaxTime /\ \A r \in Requests : request[r].pc = "out"
  /\ now' = now + 1
  /\ key' = IF key.there /\ key.ends = now + 1 THEN Gone ELSE key
  /\ UNCHANGED <<cookie, request, left, faults>>

Next ==
  \/ \E r \in Requests : Validate(r) \/ TTL(r) \/ Slide(r) \/ SlideFails(r) \/ Answer(r)
  \/ Logout \/ LogoutFails \/ Tick

Spec == Init /\ [][Next]_vars

-----------------------------------------------------------------------------
\* Validate: a request that was answered leaves the session slideAfter to live,
\* unless a slide failed or the user left.
KeepsAlive ==
  \A r \in Requests :
    request[r].pc = "answer" /\ request'[r].pc = "out" /\ ~left.out /\ faults = 0
      => key'.there /\ key'.ends >= request[r].since + slideAfter

\* Validate: the ExpiresAt a request answers with is stored, it never promises
\* more than the key holds.
AnswerIsStored ==
  \A r \in Requests : request[r].pc = "answer" /\ ~left.out => key.there /\ request[r].exp <= key.ends

\* refreshSessionCookie: the cookie does not lapse while the session lives; after
\* a logout the session outlives it by no more than the life it had then.
CookieOutlives ==
  key.there /\ (\A r \in Requests : request[r].pc = "out")
    => cookie >= key.ends \/ (left.out /\ key.ends <= left.at + ttl)

\* Logout: a logout that meets no request under way ends the session; if its DEL
\* failed nobody keeps that alive, and it ends by itself.
LoggedOutStays ==
  left.out /\ ~left.met =>
    /\ faults = 0 => ~key.there
    /\ cookie = 0
    /\ key.there => key.ends <= left.at + ttl

\* Logout: the session is over.
LogoutEnds == left.out => ~key.there
=============================================================================
