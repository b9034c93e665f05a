---------------------------- MODULE LoginLimiter ----------------------------
(***************************************************************************)
(* The limiter of failed logins: counters in Redis, one for each client    *)
(* address and one for each user name, which the login handlers of all     *)
(* servers read before they look at a password and increment after a       *)
(* failure, each with commands of their own.                               *)
(*   src/backend/internal/httpapi/router.go, lines 152-191 and 957-1013    *)
(*   src/backend/internal/session/redis_store.go, lines 118-147            *)
(*                                                                         *)
(* One action is one Redis command, or the look at the password.  The time *)
(* of a window is not counted: a counter that has a TTL may expire at any  *)
(* moment.  A request that fails leaves its handler at the command that    *)
(* failed: also the client's going away cancels the context of the rest.   *)
(***************************************************************************)
EXTENDS Integers, FiniteSets

CONSTANTS Attempts,   \* slots for login requests
          Addresses,  \* client addresses
          Users,      \* user names, trimmed and in lower case
          Limit,      \* loginFailureLimit
          Faults      \* the calls that may fail in this instance

ASSUME LimitAssumption == Limit \in Nat \ {0}
ASSUME AttemptsAssumption == IsFiniteSet(Attempts)
ASSUME FaultsAssumption == Faults \subseteq {"check", "verify", "record", "expire", "clear", "session"}

\* A definition named MUTANT_D is D with a mistake the properties are to find.

VARIABLES count,   \* the counters in Redis; 0 where there is no key
          ttl,     \* the keys that have a TTL
          attempt  \* the handler in each request slot

vars == <<count, ttl, attempt>>

Keys == {"ip"} \X Addresses \cup {"username"} \X Users

\* loginFailureScopes: the address first.
Scopes(ip, user) == <<<<"ip", ip>>, <<"username", user>>>>

\* The handlers' local variables: the scopes and the one the loop is at, and
\* whether user and password are right.
Idle == [phase |-> "idle"]
Handler(ip, user, phase, i, right) ==
  [phase |-> phase, ip |-> ip, user |-> user, at |-> i, right |-> right]

Scope(h) == Scopes(h.ip, h.user)[h.at]

Init == /\ count = [k \in Keys |-> 0] /\ ttl = {}
        /\ attempt = [a \in Attempts |-> Idle]

-----------------------------------------------------------------------------
Goto(a, phase, i) == attempt' = [attempt EXCEPT ![a] = [@ EXCEPT !.phase = phase, !.at = i]]
Answer(a) == attempt' = [attempt EXCEPT ![a] = Idle]

Begin(a) ==
  /\ attempt[a] = Idle
  /\ \E ip \in Addresses, user \in Users, right \in BOOLEAN :
        attempt' = [attempt EXCEPT ![a] = Handler(ip, user, "check", 1, right)]
  /\ UNCHANGED <<count, ttl>>

\* loginRateLimited: GET the counter of one scope after the other, 429 where it
\* has reached the limit.
MUTANT_Check(a) ==
  /\ attempt[a].phase = "check"
  /\ \/ count[Scope(attempt[a])] > Limit /\ Answer(a)
     \/ count[Scope(attempt[a])] <= Limit /\ attempt[a].at = 1 /\ Goto(a, "check", 2)
     \/ count[Scope(attempt[a])] <= Limit /\ attempt[a].at = 2 /\ Goto(a, "verify", 1)
  /\ UNCHANGED <<count, ttl>>

Check(a) ==
  /\ attempt[a].phase = "check"
  /\ \/ count[Scope(attempt[a])] >= Limit /\ Answer(a)
     \/ count[Scope(attempt[a])] < Limit /\ attempt[a].at = 1 /\ Goto(a, "check", 2)
     \/ count[Scope(attempt[a])] < Limit /\ attempt[a].at = 2 /\ Goto(a, "verify", 1)
  /\ UNCHANGED <<count, ttl>>

\* The user's row is read and the password compared.  An error of the database
\* is taken for an unknown user.
Verify(a) ==
  /\ attempt[a].phase = "verify"
  /\ \/ attempt[a].right /\ Goto(a, "clear", 2)
     \/ (~attempt[a].right \/ "verify" \in Faults) /\ Goto(a, "record", 1)
  /\ UNCHANGED <<count, ttl>>

\* A scope is recorded: the next one, or 401.
Recorded(a) == IF attempt[a].at = 1 THEN Goto(a, "record", 2) ELSE Answer(a)

\* RecordLoginFailure: INCR, then EXPIRE by the handler that created the key.
MUTANT_Increment(a) ==
  LET k == Scope(attempt[a])
  IN  /\ attempt[a].phase = "record"
      /\ count' = [count EXCEPT ![k] = @ + 1]
      /\ IF count[k] = 0 /\ attempt[a].at = 1 THEN Goto(a, "expire", attempt[a].at) ELSE Recorded(a)
      /\ UNCHANGED ttl

Increment(a) ==
  LET k == Scope(attempt[a])
  IN  /\ attempt[a].phase = "record"
      /\ count' = [count EXCEPT ![k] = @ + 1]
      /\ IF count[k] = 0 THEN Goto(a, "expire", attempt[a].at) ELSE Recorded(a)
      /\ UNCHANGED ttl

\* EXPIRE does nothing to a key that is gone meanwhile.
SetExpiry(a) ==
  LET k == Scope(attempt[a])
  IN  /\ attempt[a].phase = "expire"
      /\ ttl' = IF count[k] > 0 THEN ttl \cup {k} ELSE ttl
      /\ Recorded(a)
      /\ UNCHANGED count

\* DEL removes a key with its TTL.
MUTANT_Remove(k) == count' = [count EXCEPT ![k] = 0] /\ UNCHANGED ttl
Remove(k) == count' = [count EXCEPT ![k] = 0] /\ ttl' = ttl \ {k}

\* clearLoginFailures: the counter of the user name only.
Clear(a) == /\ attempt[a].phase = "clear"
            /\ Remove(Scope(attempt[a]))
            /\ Goto(a, "session", 2)

\* The session is created, and its token answered.
CreateSession(a) == /\ attempt[a].phase = "session"
                    /\ Answer(a)
                    /\ UNCHANGED <<count, ttl>>

\* A command fails and the handler answers an error; the others are not sent.
\* An INCR whose reply is lost is an INCR and the failure of the next command.
Fails(a) == /\ attempt[a].phase \in Faults \ {"verify"}
            /\ Answer(a)
            /\ UNCHANGED <<count, ttl>>

\* The window of a counter, loginFailureWindow, is over.
Expires(k) == /\ k \in ttl
              /\ Remove(k)
              /\ UNCHANGED attempt

-----------------------------------------------------------------------------
Step(a) == \/ Check(a) \/ Verify(a) \/ Increment(a) \/ SetExpiry(a) \/ Clear(a)
           \/ CreateSession(a) \/ Fails(a)

Next == \/ \E a \in Attempts : Begin(a) \/ Step(a)
        \/ \E k \in Keys : Expires(k)

Spec == Init /\ [][Next]_vars

\* A handler that has begun goes on, and Redis removes a key whose TTL is over.
Fairness == /\ \A a \in Attempts : WF_vars(Step(a))
            /\ \A k \in Keys : WF_vars(Expires(k))

FairSpec == Spec /\ Fairness

-----------------------------------------------------------------------------
(* Properties.                                                              *)

HandlerType == [phase: {"check", "verify", "record", "expire", "clear", "session"},
                ip: Addresses, user: Users, at: {1, 2}, right: BOOLEAN]

\* Counters, TTLs and handlers have their types, only a key that exists has a
\* TTL, and clear acts on the user name.
TypeOK ==
  /\ count \in [Keys -> Nat]
  /\ ttl \subseteq Keys /\ \A k \in ttl : count[k] > 0
  /\ attempt \in [Attempts -> HandlerType \cup {Idle}]
  /\ \A a \in Attempts : attempt[a].phase = "clear" => attempt[a].at = 2

\* A counter that will not expire by itself is one whose TTL some handler is
\* about to set: no order of INCR, EXPIRE, DEL and expiry leaves a counter
\* behind for ever (redis_store.go:128-133).
CountersExpire ==
  \A k \in Keys : count[k] > 0 /\ k \notin ttl =>
    \E a \in Attempts : attempt[a].phase = "expire" /\ Scope(attempt[a]) = k

\* The handlers that have seen the counter of k below the limit and may still
\* increment it.
Passed(h, k) ==
  /\ h.phase \in {"check", "verify", "record", "expire"}
  /\ \/ k = <<"ip", h.ip>> /\ (\/ h.phase = "check" /\ h.at = 2
                               \/ h.phase = "verify"
                               \/ h.phase = "record" /\ h.at = 1)
     \/ k = <<"username", h.user>> /\ h.phase \in {"verify", "record", "expire"}
                                   /\ ~(h.phase = "expire" /\ h.at = 2)
Pending(k) == {a \in Attempts : Passed(attempt[a], k)}

\* Reading a counter and incrementing it are apart, so that handlers that read
\* it together all go on; but no counter is ever incremented past the limit by
\* more than the requests in flight (router.go:957-981).
OvershootBounded ==
  \A k \in Keys : count[k] + Cardinality(Pending(k)) < Limit + Cardinality(Attempts)

\* Whoever is refused is not refused for ever: within a window the counter is
\* gone, as Retry-After says (router.go:965).
LockoutEnds == \A k \in Keys : count[k] >= Limit ~> count[k] < Limit
=============================================================================
