---------------------------- MODULE LoginsProofs ----------------------------
(***************************************************************************)
(* Proofs about LoginLimiter, for any limit, any number of requests in     *)
(* flight, any addresses and user names, and about Accounts, for every     *)
(* number of servers, requests, users, sessions and changes.               *)
(***************************************************************************)
EXTENDS LoginLimiter, Accounts, FiniteSetTheorems, TLAPS

-----------------------------------------------------------------------------
(* Handlers and their scopes.                                               *)

\* A handler that runs is a handler, and the scope it is at is a key.
LEMMA Running ==
  ASSUME TypeOK, NEW a \in Attempts, attempt[a] # Idle
  PROVE  /\ attempt[a] \in HandlerType
         /\ Scope(attempt[a]) \in Keys
         /\ attempt[a].at = 1 => Scope(attempt[a]) = <<"ip", attempt[a].ip>>
         /\ attempt[a].at = 2 => Scope(attempt[a]) = <<"username", attempt[a].user>>
<1>1. attempt[a] \in HandlerType
  BY DEF TypeOK
<1> QED
  BY <1>1 DEF HandlerType, Scope, Scopes, Keys

\* The handler of a slot in a phase other than "idle" runs.
LEMMA NotIdle == ASSUME NEW a \in Attempts, attempt[a].phase # "idle" PROVE attempt[a] # Idle
BY DEF Idle

\* Where Goto leads: the same request in another phase.
LEMMA Gone ==
  ASSUME TypeOK, NEW a \in Attempts, attempt[a] # Idle,
         NEW phase \in {"check", "verify", "record", "expire", "clear", "session"},
         NEW i \in {1, 2}, Goto(a, phase, i)
  PROVE  /\ attempt'[a] \in HandlerType
         /\ attempt'[a].phase = phase /\ attempt'[a].at = i
         /\ attempt'[a].ip = attempt[a].ip /\ attempt'[a].user = attempt[a].user
         /\ \A b \in Attempts : b # a => attempt'[b] = attempt[b]
         /\ attempt' \in [Attempts -> HandlerType \cup {Idle}]
<1> DEFINE h == [attempt[a] EXCEPT !.phase = phase, !.at = i]
<1>1. /\ h \in HandlerType /\ h.phase = phase /\ h.at = i
      /\ h.ip = attempt[a].ip /\ h.user = attempt[a].user
  BY Running DEF HandlerType
<1>2. attempt' = [attempt EXCEPT ![a] = h]
  BY DEF Goto
<1> HIDE DEF h
<1> QED
  BY <1>1, <1>2 DEF TypeOK

\* An answer leaves the slot idle.
LEMMA Answered ==
  ASSUME TypeOK, NEW a \in Attempts, Answer(a)
  PROVE  /\ attempt'[a] = Idle /\ attempt'[a].phase = "idle"
         /\ \A b \in Attempts : b # a => attempt'[b] = attempt[b]
         /\ attempt' \in [Attempts -> HandlerType \cup {Idle}]
BY DEF Answer, TypeOK, Idle

\* A request begins at its first scope.
LEMMA Begun ==
  ASSUME TypeOK, NEW a \in Attempts, Begin(a)
  PROVE  /\ attempt[a] = Idle
         /\ attempt'[a].phase = "check" /\ attempt'[a].at = 1
         /\ \A b \in Attempts : b # a => attempt'[b] = attempt[b]
         /\ attempt' \in [Attempts -> HandlerType \cup {Idle}]
<1>1. PICK ip \in Addresses, user \in Users, right \in BOOLEAN :
        attempt' = [attempt EXCEPT ![a] = Handler(ip, user, "check", 1, right)]
  BY DEF Begin
<1>2. /\ Handler(ip, user, "check", 1, right) \in HandlerType
      /\ Handler(ip, user, "check", 1, right).phase = "check"
      /\ Handler(ip, user, "check", 1, right).at = 1
  BY DEF Handler, HandlerType
<1> QED
  BY <1>1, <1>2 DEF TypeOK, Begin

-----------------------------------------------------------------------------
(* Types.                                                                   *)

\* Every initial state has the types.
LEMMA TypeInit == Init => TypeOK
BY DEF Init, TypeOK, Idle

\* After a step of one handler that keeps the type of the others, the types
\* hold if its own is right and counters and TTLs have theirs.
LEMMA TypeMove ==
  ASSUME TypeOK, NEW a \in Attempts, attempt' \in [Attempts -> HandlerType \cup {Idle}],
         \A b \in Attempts : b # a => attempt'[b] = attempt[b],
         attempt'[a].phase = "clear" => attempt'[a].at = 2,
         count' \in [Keys -> Nat], ttl' \subseteq Keys, \A k \in ttl' : count'[k] > 0
  PROVE  TypeOK'
BY DEF TypeOK

\* Removing a key keeps counters and TTLs in their types.
LEMMA Removed ==
  ASSUME TypeOK, NEW k \in Keys, Remove(k)
  PROVE  /\ count' \in [Keys -> Nat] /\ ttl' \subseteq Keys /\ \A q \in ttl' : count'[q] > 0
         /\ count'[k] = 0 /\ ttl' = ttl \ {k} /\ \A q \in Keys : q # k => count'[q] = count[q]
BY DEF Remove, TypeOK

\* The types are kept by every step.
LEMMA TypeStep == TypeOK /\ [Next]_vars => TypeOK'
<1> SUFFICES ASSUME TypeOK, [Next]_vars PROVE TypeOK'
  OBVIOUS
<1>1. ASSUME NEW a \in Attempts, Begin(a) PROVE TypeOK'
  BY <1>1, Begun, TypeMove DEF Begin, TypeOK
<1>2. ASSUME NEW a \in Attempts, Check(a) PROVE TypeOK'
  <2>1. attempt[a] # Idle /\ UNCHANGED <<count, ttl>>
    BY <1>2, NotIdle DEF Check
  <2>2. Answer(a) \/ Goto(a, "check", 2) \/ Goto(a, "verify", 1)
    BY <1>2 DEF Check
  <2>3. CASE Answer(a)
    BY <2>1, <2>3, Answered, TypeMove DEF TypeOK
  <2>4. CASE Goto(a, "check", 2)
    BY <2>1, <2>4, Gone, TypeMove DEF TypeOK
  <2>5. CASE Goto(a, "verify", 1)
    BY <2>1, <2>5, Gone, TypeMove DEF TypeOK
  <2> QED
    BY <2>2, <2>3, <2>4, <2>5
<1>3. ASSUME NEW a \in Attempts, Verify(a) PROVE TypeOK'
  <2>1. attempt[a] # Idle /\ UNCHANGED <<count, ttl>>
    BY <1>3, NotIdle DEF Verify
  <2>2. CASE Goto(a, "clear", 2)
    BY <2>1, <2>2, Gone, TypeMove DEF TypeOK
  <2>3. CASE Goto(a, "record", 1)
    BY <2>1, <2>3, Gone, TypeMove DEF TypeOK
  <2> QED
    BY <1>3, <2>2, <2>3 DEF Verify
<1>4. ASSUME NEW a \in Attempts, Increment(a) \/ SetExpiry(a) PROVE TypeOK'
  <2>1. attempt[a] # Idle /\ attempt[a] \in HandlerType /\ Scope(attempt[a]) \in Keys
    BY <1>4, NotIdle, Running DEF Increment, SetExpiry
  <2>2. count' \in [Keys -> Nat] /\ ttl' \subseteq Keys /\ \A k \in ttl' : count'[k] > 0
    BY <1>4, <2>1 DEF Increment, SetExpiry, TypeOK
  <2>3. Answer(a) \/ \E p \in {"record", "expire"}, i \in {1, 2} : Goto(a, p, i)
    BY <1>4, <2>1 DEF Increment, SetExpiry, Recorded, HandlerType
  <2>4. CASE Answer(a)
    BY <2>2, <2>4, Answered, TypeMove
  <2>5. ASSUME NEW p \in {"record", "expire"}, NEW i \in {1, 2}, Goto(a, p, i) PROVE TypeOK'
    BY <2>1, <2>2, <2>5, Gone, TypeMove
  <2> QED
    BY <2>3, <2>4, <2>5
<1>5. ASSUME NEW a \in Attempts, Clear(a) PROVE TypeOK'
  <2>1. attempt[a] # Idle /\ Scope(attempt[a]) \in Keys
    BY <1>5, NotIdle, Running DEF Clear
  <2> QED
    BY <1>5, <2>1, Removed, Gone, TypeMove DEF Clear
<1>6. ASSUME NEW a \in Attempts, CreateSession(a) \/ Fails(a) PROVE TypeOK'
  BY <1>6, Answered, TypeMove DEF CreateSession, Fails, TypeOK
<1>7. ASSUME NEW k \in Keys, Expires(k) PROVE TypeOK'
  BY <1>7, Removed DEF Expires, TypeOK
<1>8. CASE UNCHANGED vars
  BY <1>8 DEF vars, TypeOK
<1> QED
  BY <1>1, <1>2, <1>3, <1>4, <1>5, <1>6, <1>7, <1>8 DEF Next, Step

\* Every variable always has its type.
THEOREM TypeCorrect == Spec => []TypeOK
<1> QED
  BY TypeInit, TypeStep, PTL DEF Spec

-----------------------------------------------------------------------------
(* Every counter will expire.                                               *)

\* A step that neither creates a counter without a TTL nor moves a handler out
\* of the phase that sets one.
LEMMA ExpireKept ==
  ASSUME CountersExpire,
         \A k \in Keys : count'[k] > 0 /\ k \notin ttl' => count[k] > 0 /\ k \notin ttl,
         \A b \in Attempts : attempt[b].phase = "expire" => attempt'[b] = attempt[b]
  PROVE  CountersExpire'
BY DEF CountersExpire, Scope, Scopes

\* As long as EXPIRE is sent after the INCR that created a key, no counter is
\* left behind without a TTL, whatever the other handlers do meanwhile.
THEOREM NothingLeftBehind ==
  ASSUME "expire" \notin Faults
  PROVE  Spec => []CountersExpire
<1>1. Init => CountersExpire
  BY DEF Init, CountersExpire
<1>2. TypeOK /\ CountersExpire /\ [Next]_vars => CountersExpire'
  <2> SUFFICES ASSUME TypeOK, CountersExpire, [Next]_vars PROVE CountersExpire'
    OBVIOUS
  <2>1. ASSUME NEW a \in Attempts, Begin(a) PROVE CountersExpire'
    <3>1. \A b \in Attempts : attempt[b].phase = "expire" => attempt'[b] = attempt[b]
      BY <2>1, Begun DEF Idle
    <3> QED
      BY <2>1, <3>1, ExpireKept DEF Begin
  <2>2. ASSUME NEW a \in Attempts, Check(a) \/ Verify(a) \/ CreateSession(a) \/ Fails(a)
        PROVE  CountersExpire'
    <3>1. attempt[a].phase # "expire"
      BY <2>2 DEF Check, Verify, CreateSession, Fails
    <3>2. \A b \in Attempts : b # a => attempt'[b] = attempt[b]
      BY <2>2 DEF Check, Verify, CreateSession, Fails, Answer, Goto, TypeOK
    <3> QED
      BY <2>2, <3>1, <3>2, ExpireKept DEF Check, Verify, CreateSession, Fails
  <2>3. ASSUME NEW a \in Attempts, Increment(a) PROVE CountersExpire'
    <3> DEFINE s == Scope(attempt[a])
    <3>1. attempt[a] # Idle /\ attempt[a] \in HandlerType /\ s \in Keys
      BY <2>3, NotIdle, Running DEF Increment
    <3>2. \A b \in Attempts : b # a => attempt'[b] = attempt[b]
      BY <2>3 DEF Increment, Recorded, Answer, Goto, TypeOK
    <3>3. attempt[a].phase = "record" /\ ttl' = ttl /\ \A k \in Keys : k # s => count'[k] = count[k]
      BY <2>3 DEF Increment, TypeOK
    <3>4. CASE count[s] = 0
      <4>1. attempt[a].at \in {1, 2} /\ Goto(a, "expire", attempt[a].at)
        BY <2>3, <3>1, <3>4 DEF Increment, HandlerType
      <4>2. attempt'[a].phase = "expire" /\ Scope(attempt'[a]) = s
        BY <3>1, <4>1, Gone DEF Scope, Scopes
      <4>3. ASSUME NEW k \in Keys, k # s, count[k] > 0, k \notin ttl
            PROVE  \E b \in Attempts : attempt'[b].phase = "expire" /\ Scope(attempt'[b]) = k
        <5>1. PICK b \in Attempts : attempt[b].phase = "expire" /\ Scope(attempt[b]) = k
          BY <4>3 DEF CountersExpire
        <5> QED
          BY <3>2, <3>3, <5>1
      <4> HIDE DEF s
      <4>4. \A k \in Keys : count'[k] > 0 /\ k \notin ttl' =>
              \E b \in Attempts : attempt'[b].phase = "expire" /\ Scope(attempt'[b]) = k
        BY <3>3, <4>2, <4>3
      <4> QED
        BY <4>4 DEF CountersExpire, Scope, Scopes
    <3>5. CASE count[s] # 0
      <4>1. count[s] > 0
        BY <3>1, <3>5 DEF TypeOK
      <4> HIDE DEF s
      <4> QED
        BY <3>2, <3>3, <4>1, ExpireKept
    <3> QED
      BY <3>4, <3>5
  <2>4. ASSUME NEW a \in Attempts, SetExpiry(a) PROVE CountersExpire'
    <3> DEFINE s == Scope(attempt[a])
    <3>1. \A b \in Attempts : b # a => attempt'[b] = attempt[b]
      BY <2>4 DEF SetExpiry, Recorded, Answer, Goto, TypeOK
    <3>2. count' = count /\ ttl' = IF count[s] > 0 THEN ttl \cup {s} ELSE ttl
      BY <2>4 DEF SetExpiry
    <3> HIDE DEF s
    <3>3. ASSUME NEW k \in Keys, count'[k] > 0, k \notin ttl'
          PROVE  \E b \in Attempts : attempt'[b].phase = "expire" /\ Scope(attempt'[b]) = k
      <4>1. count[k] > 0 /\ k \notin ttl /\ k # s
        BY <3>2, <3>3
      <4>2. PICK b \in Attempts : attempt[b].phase = "expire" /\ Scope(attempt[b]) = k
        BY <4>1 DEF CountersExpire
      <4>3. b # a
        BY <4>1, <4>2 DEF s
      <4> QED
        BY <3>1, <4>2, <4>3
    <3> QED
      BY <3>3 DEF CountersExpire, Scope, Scopes
  <2>5. ASSUME NEW a \in Attempts, Clear(a) PROVE CountersExpire'
    <3>1. attempt[a] # Idle /\ Scope(attempt[a]) \in Keys /\ attempt[a].phase = "clear"
      BY <2>5, NotIdle, Running DEF Clear
    <3>2. \A b \in Attempts : b # a => attempt'[b] = attempt[b]
      BY <2>5 DEF Clear, Goto, TypeOK
    <3>3. \A k \in Keys : count'[k] > 0 /\ k \notin ttl' => count[k] > 0 /\ k \notin ttl
      BY <2>5, <3>1, Removed DEF Clear
    <3> QED
      BY <3>1, <3>2, <3>3, ExpireKept
  <2>6. ASSUME NEW k \in Keys, Expires(k) PROVE CountersExpire'
    BY <2>6, Removed, ExpireKept DEF Expires
  <2>7. CASE UNCHANGED vars
    BY <2>7, ExpireKept DEF vars
  <2> QED
    BY <2>1, <2>2, <2>3, <2>4, <2>5, <2>6, <2>7 DEF Next, Step
<1> QED
  BY <1>1, <1>2, TypeCorrect, PTL DEF Spec

-----------------------------------------------------------------------------
(* How far a counter goes past the limit.                                   *)

\* At most every slot is pending.
LEMMA PendingBound ==
  ASSUME NEW k
  PROVE  /\ IsFiniteSet(Pending(k)) /\ Cardinality(Pending(k)) \in Nat
         /\ Cardinality(Pending(k)) <= Cardinality(Attempts) /\ Cardinality(Attempts) \in Nat
BY AttemptsAssumption, FS_Subset, FS_CardinalityType DEF Pending

\* The bound of one key is kept where its counter does not grow and no handler
\* comes to be pending.
LEMMA BoundKept ==
  ASSUME TypeOK, OvershootBounded, NEW k \in Keys, count'[k] \in Nat, count'[k] <= count[k],
         Pending(k)' \subseteq Pending(k)
  PROVE  count'[k] + Cardinality(Pending(k)') < Limit + Cardinality(Attempts)
<1>1. Cardinality(Pending(k)') <= Cardinality(Pending(k)) /\ Cardinality(Pending(k)') \in Nat
  BY PendingBound, FS_Subset, FS_CardinalityType
<1> QED
  BY <1>1, PendingBound, LimitAssumption DEF OvershootBounded, TypeOK

\* If one handler moves and is not pending that was not, no handler comes to be.
LEMMA PendingLess ==
  ASSUME NEW a \in Attempts, NEW k, \A b \in Attempts : b # a => attempt'[b] = attempt[b],
         Passed(attempt'[a], k) => Passed(attempt[a], k)
  PROVE  Pending(k)' \subseteq Pending(k)
BY DEF Pending, Passed

\* However many requests read a counter together, it passes the limit by less
\* than the requests that can be in flight.
THEOREM OvershootLimited == Spec => []OvershootBounded
<1>1. Init => OvershootBounded
  <2> SUFFICES ASSUME Init, NEW k \in Keys
               PROVE  count[k] + Cardinality(Pending(k)) < Limit + Cardinality(Attempts)
    BY DEF OvershootBounded
  <2> QED
    BY PendingBound, LimitAssumption DEF Init
<1>2. TypeOK /\ OvershootBounded /\ [Next]_vars => OvershootBounded'
  <2> SUFFICES ASSUME TypeOK, OvershootBounded, [Next]_vars, NEW k \in Keys
               PROVE  count'[k] + Cardinality(Pending(k)') < Limit + Cardinality(Attempts)
    BY DEF OvershootBounded, Pending, Passed
  <2>0. TypeOK'
    BY TypeStep
  <2>1. ASSUME NEW a \in Attempts, Begin(a) PROVE Pending(k)' \subseteq Pending(k) /\ count' = count
    <3>1. ~Passed(attempt'[a], k)
      BY <2>1, Begun DEF Passed
    <3> QED
      BY <2>1, <3>1, Begun, PendingLess DEF Begin
  <2>2. ASSUME NEW a \in Attempts, Check(a)
        PROVE  count' = count /\ (count[k] < Limit \/ Pending(k)' \subseteq Pending(k))
    <3>1. /\ attempt[a] # Idle /\ attempt[a] \in HandlerType /\ attempt[a].phase = "check"
          /\ \A b \in Attempts : b # a => attempt'[b] = attempt[b]
      BY <2>2, NotIdle, Running DEF Check, Answer, Goto, TypeOK
    <3>2. CASE Answer(a)
      <4>1. ~Passed(attempt'[a], k)
        BY <3>2, Answered DEF Passed
      <4> QED
        BY <2>2, <3>1, <4>1, PendingLess DEF Check
    <3>3. CASE attempt[a].at = 1 /\ Goto(a, "check", 2) /\ count[Scope(attempt[a])] < Limit
      <4>1. Scope(attempt[a]) = <<"ip", attempt[a].ip>>
        BY <3>1, <3>3, Running
      <4>2. attempt'[a].phase = "check" /\ attempt'[a].at = 2 /\ attempt'[a].ip = attempt[a].ip
        BY <3>1, <3>3, Gone
      <4>3. Passed(attempt'[a], k) => k = Scope(attempt[a])
        BY <4>1, <4>2 DEF Passed
      <4>4. CASE k = Scope(attempt[a])
        BY <2>2, <3>3, <4>4 DEF Check
      <4>5. CASE k # Scope(attempt[a])
        BY <2>2, <3>1, <4>3, <4>5, PendingLess DEF Check
      <4> QED
        BY <4>4, <4>5
    <3>4. CASE attempt[a].at = 2 /\ Goto(a, "verify", 1) /\ count[Scope(attempt[a])] < Limit
      <4>1. Scope(attempt[a]) = <<"username", attempt[a].user>>
        BY <3>1, <3>4, Running
      <4>2. /\ attempt'[a].phase = "verify"
            /\ attempt'[a].ip = attempt[a].ip /\ attempt'[a].user = attempt[a].user
        BY <3>1, <3>4, Gone
      <4>3. Passed(attempt'[a], k) => k = Scope(attempt[a]) \/ Passed(attempt[a], k)
        BY <3>1, <3>4, <4>1, <4>2 DEF Passed
      <4>4. CASE k = Scope(attempt[a])
        BY <2>2, <3>4, <4>4 DEF Check
      <4>5. CASE k # Scope(attempt[a])
        BY <2>2, <3>1, <4>3, <4>5, PendingLess DEF Check
      <4> QED
        BY <4>4, <4>5
    <3> QED
      BY <2>2, <3>2, <3>3, <3>4 DEF Check
  <2>3. ASSUME NEW a \in Attempts, Verify(a) PROVE Pending(k)' \subseteq Pending(k) /\ count' = count
    <3>1. /\ attempt[a] # Idle /\ attempt[a].phase = "verify"
          /\ \A b \in Attempts : b # a => attempt'[b] = attempt[b]
      BY <2>3, NotIdle DEF Verify, Goto, TypeOK
    <3>2. /\ attempt'[a].phase = "clear" \/ (attempt'[a].phase = "record" /\ attempt'[a].at = 1)
          /\ attempt'[a].ip = attempt[a].ip /\ attempt'[a].user = attempt[a].user
      <4>1. CASE Goto(a, "clear", 2)
        BY <3>1, <4>1, Gone
      <4>2. CASE Goto(a, "record", 1)
        BY <3>1, <4>2, Gone
      <4> QED
        BY <2>3, <4>1, <4>2 DEF Verify
    <3>3. Passed(attempt'[a], k) => Passed(attempt[a], k)
      BY <3>1, <3>2 DEF Passed
    <3> QED
      BY <2>3, <3>1, <3>3, PendingLess DEF Verify
  <2>4. ASSUME NEW a \in Attempts, Increment(a) \/ SetExpiry(a)
        PROVE  /\ Pending(k)' \subseteq Pending(k)
               /\ Increment(a) /\ k = Scope(attempt[a]) => a \in Pending(k) /\ a \notin Pending(k)'
    <3>1. /\ attempt[a] # Idle /\ attempt[a] \in HandlerType
          /\ attempt[a].phase \in {"record", "expire"} /\ (Increment(a) => attempt[a].phase = "record")
      BY <2>4, NotIdle, Running DEF Increment, SetExpiry
    <3>2. \A b \in Attempts : b # a => attempt'[b] = attempt[b]
      BY <2>4 DEF Increment, SetExpiry, Recorded, Answer, Goto, TypeOK
    <3>3. Passed(attempt'[a], k) => Passed(attempt[a], k)
      <4>1. CASE Answer(a)
        BY <4>1, Answered DEF Passed
      <4>2. CASE Goto(a, "expire", attempt[a].at) /\ attempt[a].phase = "record"
        <5>1. /\ attempt'[a].phase = "expire" /\ attempt'[a].at = attempt[a].at
              /\ attempt'[a].ip = attempt[a].ip /\ attempt'[a].user = attempt[a].user
          BY <3>1, <4>2, Gone DEF HandlerType
        <5> QED
          BY <4>2, <5>1 DEF Passed
      <4>3. CASE Goto(a, "record", 2) /\ attempt[a].at = 1
        <5>1. /\ attempt'[a].phase = "record" /\ attempt'[a].at = 2
              /\ attempt'[a].ip = attempt[a].ip /\ attempt'[a].user = attempt[a].user
          BY <3>1, <4>3, Gone
        <5> QED
          BY <3>1, <4>3, <5>1 DEF Passed
      <4> QED
        BY <2>4, <3>1, <4>1, <4>2, <4>3 DEF Increment, SetExpiry, Recorded
    <3>4. ASSUME Increment(a), k = Scope(attempt[a]) PROVE Passed(attempt[a], k) /\ ~Passed(attempt'[a], k)
      <4>1. CASE attempt[a].at = 1
        <5>1. k = <<"ip", attempt[a].ip>> /\ Passed(attempt[a], k)
          BY <3>1, <3>4, <4>1, Running DEF Passed
        <5>2. attempt'[a].phase = "expire" \/ (attempt'[a].phase = "record" /\ attempt'[a].at = 2)
          <6>1. CASE Goto(a, "expire", 1)
            BY <3>1, <6>1, Gone
          <6>2. CASE Goto(a, "record", 2)
            BY <3>1, <6>2, Gone
          <6> QED
            BY <3>4, <4>1, <6>1, <6>2 DEF Increment, Recorded
        <5> QED
          BY <5>1, <5>2 DEF Passed
      <4>2. CASE attempt[a].at = 2
        <5>1. k = <<"username", attempt[a].user>> /\ Passed(attempt[a], k)
          BY <3>1, <3>4, <4>2, Running DEF Passed
        <5>2. attempt'[a].phase = "idle" \/ (attempt'[a].phase = "expire" /\ attempt'[a].at = 2)
          <6>1. CASE Goto(a, "expire", 2)
            BY <3>1, <6>1, Gone
          <6>2. CASE Answer(a)
            BY <6>2, Answered
          <6> QED
            BY <3>4, <4>2, <6>1, <6>2 DEF Increment, Recorded
        <5> QED
          BY <5>1, <5>2 DEF Passed
      <4> QED
        BY <3>1, <4>1, <4>2 DEF HandlerType
    <3>5. Increment(a) /\ k = Scope(attempt[a]) => a \in Pending(k) /\ a \notin Pending(k)'
      BY <3>4 DEF Pending, Passed
    <3> QED
      BY <3>2, <3>3, <3>5, PendingLess
  <2>5. CASE \E a \in Attempts : Increment(a) /\ k = Scope(attempt[a])
    <3>1. PICK a \in Attempts : Increment(a) /\ k = Scope(attempt[a])
      BY <2>5
    <3>2. count'[k] = count[k] + 1
      BY <3>1 DEF Increment, TypeOK
    <3>3. Pending(k)' \subseteq Pending(k) \ {a} /\ a \in Pending(k)
      BY <2>4, <3>1
    <3>4. /\ IsFiniteSet(Pending(k) \ {a})
          /\ Cardinality(Pending(k) \ {a}) = Cardinality(Pending(k)) - 1
      BY <3>3, PendingBound, FS_RemoveElement
    <3>5. /\ Cardinality(Pending(k)') <= Cardinality(Pending(k) \ {a})
          /\ Cardinality(Pending(k)') \in Nat
      BY <3>3, <3>4, FS_Subset, FS_CardinalityType
    <3> QED
      BY <3>2, <3>4, <3>5, PendingBound, LimitAssumption DEF OvershootBounded, TypeOK
  <2>6. CASE count[k] < Limit /\ count' = count
    <3>1. /\ Cardinality(Pending(k)') \in Nat /\ Cardinality(Attempts) \in Nat
          /\ Cardinality(Pending(k)') <= Cardinality(Attempts)
      BY AttemptsAssumption, FS_Subset, FS_CardinalityType DEF Pending
    <3> QED
      BY <2>6, <3>1, LimitAssumption DEF TypeOK
  <2>7. ASSUME Pending(k)' \subseteq Pending(k), count'[k] <= count[k]
        PROVE  count'[k] + Cardinality(Pending(k)') < Limit + Cardinality(Attempts)
    BY <2>0, <2>7, BoundKept DEF TypeOK
  <2>8. ASSUME NEW a \in Attempts, Increment(a) \/ SetExpiry(a), ~(Increment(a) /\ k = Scope(attempt[a]))
        PROVE  Pending(k)' \subseteq Pending(k) /\ count'[k] = count[k]
    BY <2>4, <2>8 DEF Increment, SetExpiry, TypeOK
  <2>9. ASSUME NEW a \in Attempts, Clear(a) \/ CreateSession(a) \/ Fails(a)
        PROVE  Pending(k)' \subseteq Pending(k) /\ count'[k] <= count[k]
    <3>1. (attempt[a] # Idle /\ Scope(attempt[a]) \in Keys) \/ ~Clear(a)
      BY <2>9, NotIdle, Running DEF Clear
    <3>2. \A b \in Attempts : b # a => attempt'[b] = attempt[b]
      BY <2>9 DEF Clear, CreateSession, Fails, Goto, Answer, TypeOK
    <3>3. attempt'[a].phase \in {"idle", "session"}
      BY <2>9, <3>1, Gone, Answered DEF Clear, CreateSession, Fails
    <3>4. ~Passed(attempt'[a], k)
      BY <3>3 DEF Passed
    <3>5. count'[k] <= count[k]
      BY <2>9, <3>1, Removed DEF Clear, CreateSession, Fails, TypeOK
    <3> QED
      BY <3>2, <3>4, <3>5, PendingLess
  <2>10. ASSUME NEW q \in Keys, Expires(q)
         PROVE  Pending(k)' \subseteq Pending(k) /\ count'[k] <= count[k]
    BY <2>10, Removed DEF Expires, Pending, Passed, TypeOK
  <2>11. CASE UNCHANGED vars
    <3>1. Pending(k)' \subseteq Pending(k) /\ count'[k] <= count[k]
      BY <2>11 DEF vars, Pending, Passed, TypeOK
    <3> QED
      BY <2>7, <3>1
  <2>12. count[k] \in Nat
    BY DEF TypeOK
  <2> QED
    BY <2>1, <2>2, <2>3, <2>5, <2>6, <2>7, <2>8, <2>9, <2>10, <2>11, <2>12 DEF Next, Step
<1> QED
  BY <1>1, <1>2, TypeCorrect, PTL DEF Spec

-----------------------------------------------------------------------------
(* Accounts.                                                                *)

\* What a request knows: the user it logs in or works for exists, and no row has
\* fewer changes than when the request began.
ClientInv(c) ==
  LET h == client[c]
  IN  /\ h.phase \in {"login", "user", "handler"} => h.name \in DOMAIN users
      /\ h.phase = "token" => h.token \in Tokens
      /\ h.phase \in {"token", "user"} =>
           \A n \in DOMAIN h.begun : /\ n \in DOMAIN users /\ h.begun[n] \in Nat
                                     /\ users[n].changes >= h.begun[n]
      /\ h.phase = "handler" =>
           /\ h.row \in UserType /\ h.row.active
           /\ h.name \in DOMAIN h.begun => h.row.changes >= h.begun[h.name]

\* Nobody is created before the initial administrator.
InitialFirst == DOMAIN users # {} => InitialName \in DOMAIN users

AccountInv == AccountTypeOK /\ InitialFirst /\ \A c \in Clients : ClientInv(c)

\* A request that ends, or goes on with a state.
LEMMA BecomesFacts ==
  ASSUME DOMAIN client = Clients, NEW c \in Clients, NEW state, Becomes(c, state)
  PROVE  /\ DOMAIN client' = Clients /\ client'[c] = state
         /\ \A x \in Clients : x # c => client'[x] = client[x]
  BY DEF Becomes

LEMMA DoneFacts ==
  ASSUME DOMAIN client = Clients, NEW c \in Clients, Done(c)
  PROVE  /\ DOMAIN client' = Clients /\ client'[c].phase = "idle"
         /\ \A x \in Clients : x # c => client'[x] = client[x]
  BY DEF Done, ClientIdle

\* The users a statement leaves: no row goes, and no row gets fewer changes.
Grows == /\ DOMAIN users \subseteq DOMAIN users' /\ DOMAIN users' \subseteq Names
         /\ \A n \in DOMAIN users' : users'[n] \in UserType
         /\ \A n \in DOMAIN users : users'[n].changes >= users[n].changes

\* As the users only grow, a request that is not served meanwhile keeps what it
\* knows.
LEMMA ClientKept ==
  ASSUME AccountInv, Grows, NEW x \in Clients, client'[x] = client[x]
  PROVE  ClientInv(x)'
<1>1. ClientInv(x)
  BY DEF AccountInv
<1>2. \A n \in DOMAIN users : users[n].changes \in Nat /\ users'[n].changes \in Nat
  BY DEF AccountInv, AccountTypeOK, UserType, Grows
<1> QED
  BY <1>1, <1>2 DEF ClientInv, Grows

\* What is left to show of a step: the request it serves, and the sessions.
LEMMA InvFrame ==
  ASSUME AccountInv, Grows, DOMAIN client' = Clients,
         \A x \in Clients :
           \/ client'[x] = client[x]
           \/ ClientInv(x)' /\ client'[x].phase \in {"idle", "login", "token", "user", "handler"},
         InitialFirst', host' \in [Hosts -> {"down", "create", "up"}],
         DOMAIN sessions' \subseteq Tokens, \A t \in DOMAIN sessions' : sessions'[t] \in DOMAIN users
  PROVE  AccountInv'
<1>1. \A x \in Clients : ClientInv(x)'
  BY ClientKept
<1>2. AccountTypeOK'
  BY DEF Grows, AccountTypeOK, AccountInv
<1> QED
  BY <1>1, <1>2 DEF AccountInv

\* Servers start, create the initial administrator and stop.
LEMMA HostStep ==
  ASSUME AccountInv, NEW s \in Hosts, CountAdmins(s) \/ CreateInitialAdmin(s) \/ Stop(s)
  PROVE  AccountInv'
<1>1. UNCHANGED <<sessions, client>> /\ host' \in [Hosts -> {"down", "create", "up"}]
  BY DEF CountAdmins, CreateInitialAdmin, Stop, AccountInv, AccountTypeOK
<1>2. CASE UNCHANGED users
  <2>1. Grows
    BY <1>2 DEF Grows, AccountInv, AccountTypeOK, UserType
  <2> QED
    BY <1>1, <1>2, <2>1, InvFrame DEF AccountInv, AccountTypeOK, InitialFirst
<1>3. CASE users' = Put(users, InitialName, User("admin")) /\ InitialName \notin DOMAIN users
  <2>1. Grows /\ InitialFirst'
    BY <1>3, NamesAssumption DEF Put, User, Grows, InitialFirst, AccountInv, AccountTypeOK, UserType
  <2> QED
    BY <1>1, <2>1, InvFrame DEF AccountInv, AccountTypeOK
<1> QED
  BY <1>2, <1>3 DEF CountAdmins, CreateInitialAdmin, Stop

\* The steps of a request.
LEMMA ClientStep ==
  ASSUME AccountInv, NEW c \in Clients,
         \/ Login(c) \/ StartSession(c) \/ BeginRequest(c) \/ ReadSession(c) \/ ReadUser(c)
         \/ Logout(c) \/ OtherHandler(c) \/ CreateUser(c) \/ UpdateUser(c)
  PROVE  AccountInv'
<1> DEFINE h == client[c]
<1>0. /\ DOMAIN client = Clients /\ ClientInv(c) /\ AccountTypeOK /\ InitialFirst
      /\ host' = host
  BY DEF AccountInv, AccountTypeOK, Login, StartSession, BeginRequest, ReadSession, ReadUser,
     Logout, OtherHandler, CreateUser, UpdateUser
<1>1. UNCHANGED users => Grows /\ InitialFirst'
  BY <1>0 DEF Grows, AccountTypeOK, UserType, InitialFirst
<1>2. ASSUME Done(c), Grows, InitialFirst', DOMAIN sessions' \subseteq Tokens,
             \A t \in DOMAIN sessions' : sessions'[t] \in DOMAIN users
      PROVE  AccountInv'
  <2>1. /\ DOMAIN client' = Clients /\ client'[c].phase = "idle"
        /\ \A x \in Clients : x # c => client'[x] = client[x]
    BY <1>0, <1>2, DoneFacts
  <2>2. ClientInv(c)'
    BY <2>1 DEF ClientInv
  <2> QED
    BY <1>0, <1>2, <2>1, <2>2, InvFrame DEF AccountTypeOK
<1>3. ASSUME NEW state, Becomes(c, state), UNCHANGED <<users, sessions>>, ClientInv(c)',
             state.phase \in {"login", "token", "user", "handler"}
      PROVE  AccountInv'
  <2>1. /\ DOMAIN client' = Clients /\ client'[c] = state
        /\ \A x \in Clients : x # c => client'[x] = client[x]
    BY <1>0, <1>3, BecomesFacts
  <2> QED
    BY <1>0, <1>1, <1>3, <2>1, InvFrame DEF AccountTypeOK
<1>4. CASE Login(c)
  <2>1. PICK n \in DOMAIN users : Becomes(c, [phase |-> "login", name |-> n])
    BY <1>4 DEF Login
  <2>2. client'[c] = [phase |-> "login", name |-> n]
    BY <1>0, <2>1, BecomesFacts
  <2>3. ClientInv(c)'
    BY <1>4, <2>2 DEF ClientInv, Login
  <2> QED
    BY <1>3, <1>4, <2>1, <2>3 DEF Login
<1>5. CASE StartSession(c)
  <2>1. h.name \in DOMAIN users
    BY <1>0, <1>5 DEF StartSession, ClientInv
  <2> QED
    BY <1>0, <1>1, <1>2, <1>5, <2>1 DEF StartSession, Put, AccountTypeOK
<1>6. CASE BeginRequest(c)
  <2>1. PICK t \in Tokens :
          Becomes(c, [phase |-> "token", token |-> t, begun |-> [n \in DOMAIN users |-> users[n].changes]])
    BY <1>6 DEF BeginRequest
  <2>2. client'[c] = [phase |-> "token", token |-> t, begun |-> [n \in DOMAIN users |-> users[n].changes]]
    BY <1>0, <2>1, BecomesFacts
  <2>3. ClientInv(c)'
    BY <1>0, <1>6, <2>2 DEF ClientInv, BeginRequest, AccountTypeOK, UserType
  <2> QED
    BY <1>3, <1>6, <2>1, <2>3 DEF BeginRequest
<1>7. CASE ReadSession(c)
  <2>1. CASE Done(c)
    BY <1>0, <1>1, <1>2, <1>7, <2>1 DEF ReadSession, AccountTypeOK
  <2> DEFINE state == [phase |-> "user", token |-> h.token, begun |-> h.begun,
                       name |-> sessions[h.token]]
  <2>2. CASE Becomes(c, state) /\ h.token \in DOMAIN sessions
    <3>1. client'[c] = state
      BY <1>0, <2>2, BecomesFacts
    <3>2. ClientInv(c)'
      BY <1>0, <1>7, <2>2, <3>1 DEF ClientInv, ReadSession, AccountTypeOK
    <3> QED
      BY <1>3, <1>7, <2>2, <3>2 DEF ReadSession
  <2> QED
    BY <1>7, <2>1, <2>2 DEF ReadSession
<1>8. CASE ReadUser(c)
  <2>1. CASE Done(c)
    BY <1>0, <1>1, <1>2, <1>8, <2>1 DEF ReadUser, AccountTypeOK
  <2> DEFINE state == [phase |-> "handler", token |-> h.token, begun |-> h.begun,
                       name |-> h.name, row |-> users[h.name]]
  <2>2. CASE Becomes(c, state) /\ users[h.name].active
    <3>1. client'[c] = state
      BY <1>0, <2>2, BecomesFacts
    <3>2. ClientInv(c)'
      BY <1>0, <1>8, <2>2, <3>1 DEF ClientInv, ReadUser, AccountTypeOK
    <3> QED
      BY <1>3, <1>8, <2>2, <3>2 DEF ReadUser
  <2> QED
    BY <1>8, <2>1, <2>2 DEF ReadUser
<1>9. CASE Logout(c) \/ OtherHandler(c)
  <2>1. Done(c) /\ UNCHANGED users
    BY <1>9 DEF Logout, OtherHandler
  <2>2. DOMAIN sessions' \subseteq Tokens /\ \A t \in DOMAIN sessions' : sessions'[t] \in DOMAIN users
    BY <1>0, <1>9 DEF Logout, OtherHandler, Restrict, AccountTypeOK
  <2> QED
    BY <1>1, <1>2, <2>1, <2>2
<1>10. CASE CreateUser(c)
  <2>1. PICK n \in Names, role \in {"admin", "user"} :
          n \notin DOMAIN users /\ users' = Put(users, n, User(role))
    BY <1>10 DEF CreateUser
  <2>2. InitialName \in DOMAIN users
    BY <1>0, <1>10 DEF CreateUser, MayManage, ClientInv, InitialFirst
  <2>3. Grows /\ InitialFirst'
    BY <1>0, <2>1, <2>2 DEF Put, User, Grows, InitialFirst, AccountTypeOK, UserType
  <2> QED
    BY <1>0, <1>2, <1>10, <2>3 DEF CreateUser, AccountTypeOK
<1>11. CASE UpdateUser(c)
  <2>1. PICK n \in DOMAIN users, role \in {"admin", "user"}, active \in BOOLEAN :
          users' = [users EXCEPT ![n] = [role |-> role, active |-> active, changes |-> users[n].changes + 1]]
    BY <1>11 DEF UpdateUser
  <2>2. users[n].changes \in Nat /\ users[n].changes + 1 \in Nat /\ users[n].changes + 1 >= users[n].changes
    BY <1>0 DEF AccountTypeOK, UserType
  <2>3. [role |-> role, active |-> active, changes |-> users[n].changes + 1] \in UserType
    BY <2>2 DEF UserType
  <2>4. \A m \in DOMAIN users : users[m] \in UserType /\ users[m].changes \in Nat
    BY <1>0 DEF AccountTypeOK, UserType
  <2>5. Grows /\ InitialFirst'
    BY <1>0, <2>1, <2>2, <2>3, <2>4 DEF Grows, InitialFirst, AccountTypeOK
  <2> QED
    BY <1>0, <1>2, <1>11, <2>5 DEF UpdateUser, AccountTypeOK
<1> QED
  BY <1>4, <1>5, <1>6, <1>7, <1>8, <1>9, <1>10, <1>11

\* The inductive invariant.
LEMMA InitInv == AccountInit => AccountInv
<1> SUFFICES ASSUME AccountInit PROVE AccountInv
  OBVIOUS
<1>1. DOMAIN users = {} /\ DOMAIN sessions = {}
  BY DEF AccountInit
<1> QED
  BY <1>1 DEF AccountInit, AccountInv, AccountTypeOK, InitialFirst, ClientInv, ClientIdle

LEMMA InvStep == AccountInv /\ [AccountNext]_accountVars => AccountInv'
<1> SUFFICES ASSUME AccountInv, [AccountNext]_accountVars PROVE AccountInv'
  OBVIOUS
<1>1. ASSUME UNCHANGED <<users, host, client>>, DOMAIN sessions' \subseteq DOMAIN sessions,
             \A t \in DOMAIN sessions' : sessions'[t] = sessions[t]
      PROVE  AccountInv'
  <2>1. Grows
    BY <1>1 DEF Grows, AccountInv, AccountTypeOK, UserType
  <2> QED
    BY <1>1, <2>1, InvFrame DEF AccountInv, AccountTypeOK, InitialFirst
<1>2. ASSUME NEW t \in Tokens, SessionExpires(t) PROVE AccountInv'
  BY <1>1, <1>2 DEF SessionExpires, Restrict
<1>3. CASE UNCHANGED accountVars
  BY <1>1, <1>3 DEF accountVars
<1> QED
  BY <1>2, <1>3, HostStep, ClientStep DEF AccountNext

\* Every variable has its type: no session is of a user who does not exist.
THEOREM AccountsTypeCorrect == AccountSpec => []AccountTypeOK
<1>1. AccountInv => AccountTypeOK
  BY DEF AccountInv
<1> QED
  BY <1>1, InitInv, InvStep, PTL DEF AccountSpec

\* A handler works for a user who was active, and with a role they had, since the
\* request began, whatever administrators change and however old the session is
\* (router.go:163-183, 883-894).
THEOREM HandlersCurrent == AccountSpec => []HandlersActForCurrentUsers
<1>1. AccountInv => HandlersActForCurrentUsers
  BY DEF AccountInv, ClientInv, HandlersActForCurrentUsers
<1> QED
  BY <1>1, InitInv, InvStep, PTL DEF AccountSpec

\* The initial administrator is only created where there is no administrator, for
\* any number of servers that counted none: as nobody is created before them,
\* their name being free says that there is no user at all (main.go:83-101).
THEOREM InitialAdminOnce == AccountSpec => InitialAdminOnly
<1>1. AccountInv /\ [AccountNext]_accountVars
      => [\A s \in Hosts : host[s] = "create" /\ host'[s] = "up" =>
            ~AnyAdmin /\ InitialName \notin DOMAIN users]_accountVars
  <2> SUFFICES ASSUME AccountInv, AccountNext, NEW s \in Hosts, host[s] = "create", host'[s] = "up"
               PROVE  ~AnyAdmin /\ InitialName \notin DOMAIN users
    BY DEF accountVars
  <2>1. ASSUME NEW z \in Hosts, CountAdmins(z) \/ CreateInitialAdmin(z) \/ Stop(z)
        PROVE  InitialName \notin DOMAIN users
    BY <2>1 DEF CountAdmins, CreateInitialAdmin, Stop, AccountInv, AccountTypeOK
  <2>2. ASSUME host' = host PROVE InitialName \notin DOMAIN users
    BY <2>2
  <2>3. InitialName \notin DOMAIN users
    BY <2>1, <2>2 DEF AccountNext, Login, StartSession, BeginRequest, ReadSession, ReadUser,
       Logout, OtherHandler, CreateUser, UpdateUser, SessionExpires
  <2> QED
    BY <2>3 DEF AccountInv, InitialFirst, AnyAdmin
<1> QED
  BY <1>1, InitInv, InvStep, PTL DEF AccountSpec, InitialAdminOnly
=============================================================================
