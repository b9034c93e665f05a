----------------------- MODULE DirectoryAccessProofs -----------------------
(***************************************************************************)
(* Proofs about DirectoryAccess for every number of servers,               *)
(* administrators, request slots, paths and changes.                       *)
(***************************************************************************)
EXTENDS DirectoryAccess, TLAPS

Table == [RuleIds -> RuleRow \cup {NoRow}]

\* The SELECT of the enabled rules yields a version for every path.
LEMMA EnforcedType == \A table \in Table : Enforced(table) \in Rules
<1> SUFFICES ASSUME NEW table \in Table, NEW p \in Paths, EnabledRows(table, p) # {}
             PROVE  table[CHOOSE id \in EnabledRows(table, p) : TRUE].version \in Nat
  BY DEF Enforced, Rules
<1> DEFINE id == CHOOSE i \in EnabledRows(table, p) : TRUE
<1>1. id \in EnabledRows(table, p)
  OBVIOUS
<1>2. table[id] \in RuleRow
  BY <1>1 DEF EnabledRows, Table
<1> QED
  BY <1>2 DEF RuleRow

\* No rules are rules.
LEMMA NoRulesType == NoRules \in Rules
  BY DEF NoRules, Rules

\* A statement that changes the table keeps it and its history well typed.
LEMMA CommitType ==
  ASSUME TableType, NEW table \in Table, Commit(table)
  PROVE  /\ rows' \in Table /\ history' \in Seq(Rules) /\ history' # <<>>
         /\ Len(history') \in Nat /\ owners' \in [Paths -> SUBSET RuleIds]
<1>1. Enforced(table) \in Rules
  BY EnforcedType
<1>2. history \in Seq(Rules) /\ history' = Append(history, Enforced(table))
  BY DEF Commit, TableType
<1>3. history' \in Seq(Rules) /\ Len(history') = Len(history) + 1
  BY <1>1, <1>2
<1>4. history' # <<>>
  BY <1>2, <1>3
<1>5. owners' \in [Paths -> SUBSET RuleIds]
  BY DEF Commit, TableType
<1> QED
  BY <1>2, <1>3, <1>4, <1>5 DEF Commit

\* The table after a statement is the one that was committed.
LEMMA CommitTable == \A table : Commit(table) => rows' = table /\ Commit(rows')
  BY DEF Commit

\* A handler that does not run, and an empty index, are well typed.
LEMMA IdleTypes == AdminIdle \in AdminHandler /\ VisitorIdle \in VisitorHandler
                   /\ EmptyIndex \in Index
  BY NoRulesType DEF AdminIdle, VisitorIdle, AdminHandler, VisitorHandler, EmptyIndex, Index

\* The initial state is well typed.
LEMMA InitType == Init => TypeOK
<1> SUFFICES ASSUME Init PROVE TypeOK
  OBVIOUS
<1>1. TableType
  BY NoRulesType, BoundsAssumption DEF Init, TableType
<1>2. RedisType /\ IndexType
  BY IdleTypes DEF Init, RedisType, IndexType
<1>3. AdminType /\ VisitorType
  BY IdleTypes DEF Init, AdminType, VisitorType, AdminIdle, VisitorIdle
<1> QED
  BY <1>1, <1>2, <1>3 DEF Init, TypeOK

\* An administrator's handler whose statement is done.
LEMMA CommittedType ==
  ASSUME AdminType, NEW a \in Admins, NEW s \in Servers, NEW op \in Operations,
         NEW id \in RuleIds, Len(history') \in Nat, Committed(a, s, op, id)
  PROVE  AdminType'
  BY IdleTypes DEF AdminType, Committed, AdminHandler

\* The steps of administrators.
LEMMA AdminTypeStep ==
  ASSUME TypeOK, NEW a \in Admins
  PROVE  CreateRule(a) \/ ReadRule(a) \/ DeleteRule(a) \/ AdminStep(a) \/ Invalidate(a) => TypeOK'
<1> USE DEF TypeOK
<1>1. CASE CreateRule(a)
  <2>1. PICK s \in Servers, p \in Paths, secret \in Secrets :
           /\ Commit([rows EXCEPT ![nextId] = Row(p, secret, TRUE, 1)])
           /\ Committed(a, s, "create", nextId)
    BY <1>1 DEF CreateRule
  <2>2. Row(p, secret, TRUE, 1) \in RuleRow /\ nextId \in RuleIds /\ "create" \in Operations
    BY <1>1 DEF Row, RuleRow, CreateRule, Operations
  <2>3. [rows EXCEPT ![nextId] = Row(p, secret, TRUE, 1)] \in Table
    BY <2>2 DEF Table, TableType
  <2>4. /\ rows' \in Table /\ history' \in Seq(Rules) /\ history' # <<>> /\ Len(history') \in Nat
        /\ owners' \in [Paths -> SUBSET RuleIds]
    BY <2>1, <2>3, CommitType
  <2>5. AdminType'
    BY <2>1, <2>2, <2>4, CommittedType
  <2>6. nextId' \in 1 .. MaxRules + 1
    BY <1>1, BoundsAssumption DEF CreateRule, RuleIds, TableType
  <2> QED
    BY <1>1, <2>4, <2>5, <2>6
       DEF CreateRule, TableType, Table, RedisType, IndexType, VisitorType, redis, index
<1>2. CASE ReadRule(a)
  <2>1. PICK op \in {"update", "secret"}, s \in Servers, id \in RuleIds :
          /\ rows[id] # NoRow
          /\ admin' = [admin EXCEPT ![a] = [AdminIdle EXCEPT !.phase = "write", !.at = s,
                        !.op = op, !.id = id, !.version = rows[id].version]]
    BY <1>2 DEF ReadRule
  <2>2. rows[id].version \in Nat
    BY <2>1 DEF TableType, RuleRow
  <2>3. AdminType'
    BY <2>1, <2>2, IdleTypes DEF AdminType, AdminHandler, Operations
  <2> QED
    BY <1>2, <2>3 DEF ReadRule, TableType, RedisType, IndexType, VisitorType, db, redis, index
<1>3. CASE WriteRule(a)
  <2> DEFINE id == admin[a].id
             version == NextVersion(admin[a].version)
  <2>1. /\ id \in RuleIds /\ version \in Nat \ {0} /\ admin[a].op \in Operations
        /\ admin[a].at \in Servers
    BY <1>3 DEF WriteRule, AdminType, AdminHandler, NextVersion
  <2>2. ASSUME NEW secret \in Secrets, rows[id] # NoRow
        PROVE  [rows EXCEPT ![id].secret = secret, ![id].version = version] \in Table
    BY <2>1, <2>2 DEF TableType, Table, RuleRow
  <2>3. ASSUME NEW p \in Paths, NEW secret \in Secrets, NEW on \in BOOLEAN
        PROVE  [rows EXCEPT ![id] = Row(p, secret, on, version)] \in Table
    BY <2>1 DEF TableType, Table, RuleRow, Row
  <2>4. TableType' /\ Len(history') \in Nat
    <3>1. CASE UNCHANGED <<rows, history, owners>>
      BY <1>3, <3>1 DEF WriteRule, TableType
    <3>2. ASSUME NEW table \in Table, Commit(table) PROVE TableType' /\ Len(history') \in Nat
      BY <1>3, <3>2, CommitType DEF WriteRule, TableType, Table
    <3> QED
      BY <1>3, <2>2, <2>3, <3>1, <3>2 DEF WriteRule
  <2>5. AdminType'
    BY <1>3, <2>1, <2>4, CommittedType DEF WriteRule
  <2> QED
    BY <1>3, <2>4, <2>5 DEF WriteRule, RedisType, IndexType, VisitorType, redis, index
<1>4. CASE DeleteRule(a)
  <2>1. PICK s \in Servers, id \in RuleIds :
          /\ \/ UNCHANGED <<rows, history, owners>>
             \/ Commit([rows EXCEPT ![id] = NoRow])
          /\ Committed(a, s, "delete", id)
    BY <1>4 DEF DeleteRule
  <2>2. [rows EXCEPT ![id] = NoRow] \in Table /\ "delete" \in Operations
    BY <1>4 DEF TableType, Table, DeleteRule, Operations
  <2>3. TableType' /\ Len(history') \in Nat
    <3>1. CASE UNCHANGED <<rows, history, owners>>
      BY <1>4, <3>1 DEF DeleteRule, TableType
    <3>2. CASE Commit([rows EXCEPT ![id] = NoRow])
      BY <1>4, <2>2, <3>2, CommitType DEF DeleteRule, TableType, Table
    <3> QED
      BY <2>1, <3>1, <3>2
  <2>4. AdminType'
    BY <2>1, <2>2, <2>3, CommittedType
  <2> QED
    BY <1>4, <2>3, <2>4 DEF DeleteRule, RedisType, IndexType, VisitorType, redis, index
<1>5. CASE WriteFails(a)
  <2>1. AdminType'
    BY <1>5, IdleTypes DEF WriteFails, AdminType, AdminIdle
  <2> QED
    BY <1>5, <2>1 DEF WriteFails, TableType, RedisType, IndexType, VisitorType, db, redis, index
<1>6. CASE Invalidate(a)
  <2>1. AdminType'
    BY <1>6 DEF Invalidate, AdminType, AdminHandler
  <2>2. IndexType'
    <3>1. Len(history) \in Nat
      BY DEF TableType
    <3> QED
      BY <1>6, <3>1 DEF Invalidate, Drop, IndexType, Index
  <2> QED
    BY <1>6, <2>1, <2>2 DEF Invalidate, TableType, RedisType, VisitorType, db, redis
<1>7. CASE Bump(a) \/ BumpFails(a)
  <2>1. AdminType'
    BY <1>7, IdleTypes DEF Bump, BumpFails, AdminType, AdminHandler, AdminIdle
  <2>2. accessVersion' \in Nat /\ covers' \in Seq(Nat)
    <3>1. accessVersion \in Nat /\ covers \in Seq(Nat) /\ Len(history) \in Nat
      BY DEF RedisType, TableType
    <3>2. CASE Increment
      BY <3>1, <3>2 DEF Increment
    <3>3. CASE UNCHANGED redis
      BY <3>1, <3>3 DEF redis
    <3> QED
      BY <1>7, <3>2, <3>3 DEF Bump, BumpFails
  <2> QED
    BY <1>7, <2>1, <2>2
       DEF Bump, BumpFails, TableType, RedisType, IndexType, VisitorType, db, index
<1>8. CASE Reply(a)
  <2>1. AdminType'
    BY <1>8, IdleTypes DEF Reply, AdminType, AdminIdle
  <2>2. acked' \in Nat
    BY <1>8 DEF Reply, RedisType, AdminType, AdminHandler
  <2> QED
    BY <1>8, <2>1, <2>2 DEF Reply, TableType, RedisType, IndexType, VisitorType, db, redis, index
<1> QED
  BY <1>1, <1>2, <1>3, <1>4, <1>5, <1>6, <1>7, <1>8 DEF AdminStep

\* A slot whose handler gets new local variables.
LEMMA HandlerType ==
  ASSUME VisitorType, NEW r \in Visitors, NEW v \in VisitorHandler,
         v.phase # "idle" => v.at \in Servers,
         v.phase \notin {"idle", "mark"} => v.path \in Paths /\ v.token \in Tokens,
         v.phase = "mark" => v.pass \in Pass,
         visitor' = [visitor EXCEPT ![r] = v]
  PROVE  VisitorType'
  BY DEF VisitorType

\* The steps of visitors.
LEMMA VisitorTypeStep ==
  ASSUME TypeOK, NEW r \in Visitors
  PROVE  BeginCheck(r) \/ SubmitRead(r) \/ VisitorStep(r) \/ Locked(r) => TypeOK'
<1> USE DEF TypeOK
<1>1. CASE BeginCheck(r)
  <2>1. VisitorType'
    <3>1. PICK s \in Servers, t \in Tokens, p \in Paths :
             visitor' = [visitor EXCEPT ![r] = [VisitorIdle EXCEPT
               !.phase = "version", !.at = s, !.token = t, !.path = p,
               !.floor = acked, !.own = dropped[s]]]
      BY <1>1 DEF BeginCheck
    <3> DEFINE v == [VisitorIdle EXCEPT !.phase = "version", !.at = s, !.token = t,
                       !.path = p, !.floor = acked, !.own = dropped[s]]
    <3>2. v \in VisitorHandler
      BY IdleTypes DEF VisitorHandler, RedisType, IndexType
    <3>3. v.phase = "version" /\ v.at = s /\ v.path = p /\ v.token = t
      BY DEF VisitorIdle
    <3> QED
      BY <3>1, <3>2, <3>3, HandlerType
  <2> QED
    BY <1>1, <2>1 DEF BeginCheck, TableType, RedisType, IndexType, AdminType, db, redis, index
<1>2. CASE GetVersion(r)
  <2> DEFINE v == [visitor[r] EXCEPT !.phase = "snapshot", !.tag = accessVersion]
  <2>1. VisitorType'
    <3>1. v \in VisitorHandler /\ visitor' = [visitor EXCEPT ![r] = v]
      BY <1>2 DEF GetVersion, VisitorType, VisitorHandler, RedisType
    <3>2. v.at = visitor[r].at /\ v.path = visitor[r].path /\ v.token = visitor[r].token
      BY DEF VisitorType, VisitorHandler
    <3> QED
      BY <1>2, <3>1, <3>2, HandlerType DEF GetVersion, VisitorType
  <2> QED
    BY <1>2, <2>1 DEF GetVersion, TableType, RedisType, IndexType, AdminType, db, redis, index
<1>3. CASE GetVersionFails(r)
  <2> DEFINE v == [visitor[r] EXCEPT !.phase = "snapshot", !.tag = r]
  <2>1. VisitorType'
    <3>1. v \in VisitorHandler /\ visitor' = [visitor EXCEPT ![r] = v]
      BY <1>3, ZenonT(30) DEF GetVersionFails, VisitorType, VisitorHandler, RedisType
    <3>2. v.at = visitor[r].at /\ v.path = visitor[r].path /\ v.token = visitor[r].token
      BY DEF VisitorType, VisitorHandler
    <3> QED
      BY <1>3, <3>1, <3>2, HandlerType DEF GetVersionFails, VisitorType
  <2>2. Len(history) \in Nat
    BY DEF TableType
  <2>3. IndexType'
    BY <1>3, <2>2 DEF GetVersionFails, Drop, IndexType, Index
  <2> QED
    BY <1>3, <2>1, <2>3 DEF GetVersionFails, TableType, RedisType, AdminType, db, redis
<1>4. CASE Hit(r)
  <2>1. idx[visitor[r].at].rules \in Rules
    BY <1>4 DEF Hit, VisitorType, IndexType, Index
  <2> DEFINE v == [visitor[r] EXCEPT !.phase = "passes", !.rules = idx[visitor[r].at].rules]
  <2>2. VisitorType'
    <3>1. v \in VisitorHandler /\ visitor' = [visitor EXCEPT ![r] = v]
      <4>1. visitor[r] \in VisitorHandler
        BY DEF VisitorType
      <4>2. v \in VisitorHandler
        BY <4>1, <2>1 DEF VisitorHandler
      <4>3. visitor' = [visitor EXCEPT ![r] = v]
        BY <1>4 DEF Hit
      <4> QED
        BY <4>2, <4>3
    <3>2. v.at = visitor[r].at /\ v.path = visitor[r].path /\ v.token = visitor[r].token
      BY DEF VisitorType, VisitorHandler
    <3> QED
      BY <1>4, <3>1, <3>2, HandlerType DEF Hit, VisitorType
  <2> QED
    BY <1>4, <2>2 DEF Hit, TableType, RedisType, IndexType, AdminType, db, redis, index
<1>5. CASE Load(r)
  <2>1. Enforced(rows) \in Rules
    BY EnforcedType DEF TableType, Table
  <2> DEFINE v == [visitor[r] EXCEPT !.phase = "publish", !.rules = Enforced(rows)]
  <2>2. VisitorType'
    <3>1. v \in VisitorHandler /\ visitor' = [visitor EXCEPT ![r] = v]
      <4>1. visitor[r] \in VisitorHandler
        BY DEF VisitorType
      <4>2. v \in VisitorHandler
        BY <4>1, <2>1 DEF VisitorHandler
      <4>3. visitor' = [visitor EXCEPT ![r] = v]
        BY <1>5 DEF Load
      <4> QED
        BY <4>2, <4>3
    <3>2. v.at = visitor[r].at /\ v.path = visitor[r].path /\ v.token = visitor[r].token
      BY DEF VisitorType, VisitorHandler
    <3> QED
      BY <1>5, <3>1, <3>2, HandlerType DEF Load, VisitorType
  <2>3. IndexType'
    BY <1>5 DEF Load, IndexType
  <2> QED
    BY <1>5, <2>2, <2>3 DEF Load, TableType, RedisType, AdminType, db, redis
<1>6. CASE LoadFails(r)
  <2>1. VisitorType'
    BY <1>6, IdleTypes DEF LoadFails, Answer, VisitorType, VisitorIdle
  <2>2. IndexType'
    BY <1>6 DEF LoadFails, IndexType
  <2> QED
    BY <1>6, <2>1, <2>2 DEF LoadFails, TableType, RedisType, AdminType, db, redis
<1>7. CASE Publish(r)
  <2>1. VisitorType'
    BY <1>7 DEF Publish, VisitorType, VisitorHandler
  <2>2. [rules |-> visitor[r].rules, tag |-> visitor[r].tag, live |-> TRUE] \in Index
    BY DEF VisitorType, VisitorHandler, Index
  <2>3. IndexType'
    BY <1>7, <2>2 DEF Publish, IndexType
  <2> QED
    BY <1>7, <2>1, <2>3 DEF Publish, TableType, RedisType, AdminType, db, redis
<1>8. CASE CheckPasses(r)
  <2>1. PICK phase \in {"granted", "denied"} : visitor' = [visitor EXCEPT ![r].phase = phase]
    BY <1>8 DEF CheckPasses
  <2>2. VisitorType'
    BY <1>8, <2>1 DEF CheckPasses, VisitorType, VisitorHandler
  <2> QED
    BY <1>8, <2>2 DEF CheckPasses, TableType, RedisType, IndexType, AdminType, db, redis, index
<1>9. CASE CheckFails(r) \/ Finish(r) \/ MarkFails(r)
  <2>1. VisitorType'
    BY <1>9, IdleTypes DEF CheckFails, Finish, MarkFails, Answer, VisitorType, VisitorIdle
  <2> QED
    BY <1>9, <2>1 DEF CheckFails, Finish, MarkFails, TableType, RedisType, IndexType, AdminType,
                      db, redis, index
<1>10. CASE SubmitRead(r)
  <2>1. PICK s \in Servers, t \in Tokens, id \in RuleIds :
          /\ rows[id] # NoRow
          /\ visitor' = [visitor EXCEPT ![r] = [VisitorIdle EXCEPT
               !.phase = "mark", !.at = s,
               !.pass = [token |-> t, path |-> rows[id].path, version |-> rows[id].version,
                         secret |-> rows[id].secret]]]
    BY <1>10, ZenonT(30) DEF SubmitRead
  <2>2. [token |-> t, path |-> rows[id].path, version |-> rows[id].version,
         secret |-> rows[id].secret] \in Pass
    BY <2>1 DEF TableType, RuleRow, Pass
  <2>3. VisitorType'
    BY <2>1, <2>2, IdleTypes DEF VisitorType, VisitorHandler
  <2> QED
    BY <1>10, <2>3 DEF SubmitRead, TableType, RedisType, IndexType, AdminType, db, redis, index
<1>11. CASE MarkPassed(r)
  <2>1. passes' \subseteq Pass
    BY <1>11 DEF MarkPassed, RedisType, VisitorType
  <2>2. VisitorType'
    BY <1>11, IdleTypes DEF MarkPassed, Answer, VisitorType, VisitorIdle
  <2> QED
    BY <1>11, <2>1, <2>2 DEF MarkPassed, TableType, RedisType, IndexType, AdminType,
                             db, redis, index
<1> QED
  BY <1>1, <1>2, <1>3, <1>4, <1>5, <1>6, <1>7, <1>8, <1>9, <1>10, <1>11
     DEF VisitorStep, Locked

\* The steps of time, and of a server that stops.
LEMMA EnvironmentTypeStep ==
  ASSUME TypeOK, NEW s \in Servers
  PROVE  IndexExpires(s) \/ Crash(s) => TypeOK'
<1> USE DEF TypeOK
<1>1. CASE IndexExpires(s)
  <2>1. IndexType'
    BY <1>1 DEF IndexExpires, IndexType, Index
  <2> QED
    BY <1>1, <2>1 DEF IndexExpires, TableType, RedisType, AdminType, VisitorType, db, redis
<1>2. CASE Crash(s)
  <2>1. IndexType'
    BY <1>2, IdleTypes DEF Crash, IndexType
  <2>2. AdminType'
    BY <1>2, IdleTypes DEF Crash, AdminType, AdminIdle
  <2>3. VisitorType'
    BY <1>2, IdleTypes DEF Crash, VisitorType, VisitorIdle
  <2> QED
    BY <1>2, <2>1, <2>2, <2>3 DEF Crash, TableType, RedisType, db, redis
<1> QED
  BY <1>1, <1>2

\* The expiry of a pass, and no step at all.
LEMMA StillTypeStep == TypeOK /\ (PassExpires \/ UNCHANGED vars) => TypeOK'
<1>1. CASE PassExpires
  BY <1>1 DEF PassExpires, TypeOK, TableType, RedisType, IndexType, AdminType, VisitorType,
              db, redis, index
<1>2. CASE UNCHANGED vars
  BY <1>2 DEF vars, TypeOK, TableType, RedisType, IndexType, AdminType, VisitorType
<1> QED
  BY <1>1, <1>2

\* Every variable keeps its type in every behaviour.
THEOREM TypeCorrect == Spec => []TypeOK
<1>1. TypeOK /\ [Next]_vars => TypeOK'
  <2> SUFFICES ASSUME TypeOK, [Next]_vars PROVE TypeOK'
    OBVIOUS
  <2>1. CASE \E a \in Admins : CreateRule(a) \/ ReadRule(a) \/ DeleteRule(a)
                               \/ AdminStep(a) \/ Invalidate(a)
    BY <2>1, AdminTypeStep
  <2>2. CASE \E r \in Visitors : BeginCheck(r) \/ SubmitRead(r) \/ VisitorStep(r) \/ Locked(r)
    BY <2>2, VisitorTypeStep
  <2>3. CASE \E s \in Servers : IndexExpires(s) \/ Crash(s)
    BY <2>3, EnvironmentTypeStep
  <2>4. CASE PassExpires \/ UNCHANGED vars
    BY <2>4, StillTypeStep
  <2> QED
    BY <2>1, <2>2, <2>3, <2>4 DEF Next, SubmitRejected
<1> QED
  BY <1>1, InitType, PTL DEF Spec

-----------------------------------------------------------------------------
(* Freshness.                                                               *)

\* A content that occurs in a history since n occurs in it since any earlier
\* position.
LEMMA OccursEarlier ==
  ASSUME NEW rules, NEW h, NEW n \in Nat, NEW m \in Nat, m <= n, Occurs(rules, h, n),
         Len(h) \in Nat
  PROVE  Occurs(rules, h, m)
  BY DEF Occurs

\* It still does when the history has grown.
LEMMA OccursLater ==
  ASSUME NEW h \in Seq(Rules), NEW content \in Rules, NEW rules, NEW n \in Nat \ {0},
         Occurs(rules, h, n)
  PROVE  Occurs(rules, Append(h, content), n)
<1>1. PICK k \in n .. Len(h) : rules = h[k]
  BY DEF Occurs
<1>2. Append(h, content)[k] = h[k] /\ k \in n .. Len(Append(h, content))
  BY <1>1
<1> QED
  BY <1>1, <1>2 DEF Occurs

\* A content that has just been read from the table occurs since every position.
LEMMA OccursNow ==
  ASSUME TypeOK, HistoryInv, NEW n \in 1 .. Len(history)
  PROVE  Since(Enforced(rows), n)
<1>1. Len(history) \in n .. Len(history) /\ Enforced(rows) = history[Len(history)]
  BY DEF TypeOK, TableType, HistoryInv
<1> QED
  BY <1>1 DEF Since, Occurs

\* Positions the versions vouch for.
LEMMA CoverBound ==
  ASSUME TypeOK, CounterInv, NEW v \in 0 .. accessVersion
  PROVE  /\ Cover(v) \in 1 .. Len(history)
         /\ \A w \in v .. accessVersion : Cover(v) <= Cover(w)
<1>1. accessVersion \in Nat /\ Len(history) \in Nat \ {0} /\ covers \in Seq(Nat)
  BY DEF TypeOK, TableType, RedisType
<1>2. v = 0 \/ v \in 1 .. accessVersion
  BY <1>1
<1>3. \A w \in 1 .. accessVersion : covers[w] \in 1 .. Len(history)
  BY DEF CounterInv
<1>4. Cover(v) \in 1 .. Len(history)
  BY <1>1, <1>2, <1>3 DEF Cover
<1>5. ASSUME NEW w \in v .. accessVersion PROVE Cover(v) <= Cover(w)
  <2>1. w = 0 \/ w \in 1 .. accessVersion
    BY <1>1
  <2>2. CASE v = 0
    BY <1>1, <1>3, <2>1, <2>2 DEF Cover
  <2>3. CASE v # 0
    BY <1>1, <1>2, <2>1, <2>3 DEF Cover, CounterInv
  <2> QED
    BY <2>2, <2>3
<1> QED
  BY <1>4, <1>5

\* A step that at most appends to the history.
HistoryGrows == history' = history \/ \E content \in Rules : history' = Append(history, content)

\* What such a step keeps.
LEMMA Grown ==
  ASSUME TypeOK, HistoryGrows
  PROVE  /\ Len(history) \in Nat \ {0} /\ Len(history') \in Nat /\ Len(history) <= Len(history')
         /\ \A rules, n : n \in Nat \ {0} /\ Occurs(rules, history, n) => Occurs(rules, history', n)
<1>1. history \in Seq(Rules) /\ history # <<>>
  BY DEF TypeOK, TableType
<1>2. CASE history' = history
  BY <1>1, <1>2
<1>3. ASSUME NEW content \in Rules, history' = Append(history, content)
      PROVE  /\ Len(history) \in Nat \ {0} /\ Len(history') \in Nat
             /\ Len(history) <= Len(history')
             /\ \A rules, n : n \in Nat \ {0} /\ Occurs(rules, history, n) => Occurs(rules, history', n)
  <2>1. \A rules, n : n \in Nat \ {0} /\ Occurs(rules, history, n) => Occurs(rules, history', n)
    BY <1>1, <1>3, OccursLater
  <2> QED
    BY <1>1, <1>3, <2>1
<1> QED
  BY <1>2, <1>3 DEF HistoryGrows

\* A statement sent to the database disturbs neither the counter's promises nor
\* what the indexes and the requests hold.
LEMMA StatementFresh ==
  ASSUME TypeOK, FreshnessInv, HistoryGrows,
         UNCHANGED <<accessVersion, covers, idx, mu, dropped, visitor, acked>>
  PROVE  CounterInv' /\ IndexInv' /\ VisitorInv'
<1>1. accessVersion \in Nat /\ covers \in Seq(Nat)
  BY DEF TypeOK, RedisType
<1>2. CounterInv'
  BY <1>1, Grown DEF FreshnessInv, CounterInv, Cover
<1>3. \A v \in 0 .. accessVersion : Cover(v)' = Cover(v) /\ Cover(v) \in Nat \ {0}
  BY CoverBound DEF FreshnessInv, Cover
<1>4. ASSUME NEW s \in Servers PROVE IndexFresh(s)'
  <2>1. IndexFresh(s) /\ idx' = idx /\ dropped' = dropped /\ accessVersion' = accessVersion
    BY DEF FreshnessInv, IndexInv
  <2>2. dropped[s] \in 1 .. Len(history')
    BY <2>1, Grown DEF IndexFresh
  <2>3. idx[s].live => Occurs(idx[s].rules, history', dropped[s])
    BY <2>1, Grown DEF IndexFresh, Since
  <2>4. ASSUME idx[s].tag \in Nat
        PROVE  Cover(idx[s].tag)' = Cover(idx[s].tag)
               /\ Occurs(idx[s].rules, history', Cover(idx[s].tag))
    BY <2>1, <2>4, <1>1, <1>3, Grown DEF IndexFresh, Since
  <2> QED
    BY <2>1, <2>2, <2>3, <2>4 DEF IndexFresh, Since
<1>5. ASSUME NEW r \in Visitors PROVE RequestFresh(visitor[r], r)'
  <2> DEFINE v == visitor[r]
  <2>1. RequestFresh(v, r) /\ v' = v /\ idx' = idx /\ dropped' = dropped /\ mu' = mu
        /\ accessVersion' = accessVersion /\ acked' = acked /\ acked \in Nat
    BY DEF FreshnessInv, VisitorInv, TypeOK, RedisType
  <2>2. v.floor \in Nat \ {0} /\ v.own \in Nat \ {0}
    BY <2>1 DEF RequestFresh, TypeOK, VisitorType, VisitorHandler
  <2>3. v.phase = "publish" => v.at \in Servers /\ dropped[v.at] \in Nat \ {0}
    BY DEF TypeOK, VisitorType, FreshnessInv, IndexInv, IndexFresh
  <2>4. \A rules, n : n \in Nat \ {0} /\ Since(rules, n) => Occurs(rules, history', n)
    BY Grown DEF Since
  <2>5. v.phase = "publish" /\ v.tag \in Nat => v.tag \in 0 .. accessVersion
    BY <1>1, <2>1, NamesAssumption DEF RequestFresh
  <2>6. v.tag \in 0 .. accessVersion => Cover(v.tag)' = Cover(v.tag) /\ Cover(v.tag) \in Nat \ {0}
    BY <1>3, <2>1
  <2> QED
    BY <2>1, <2>2, <2>3, <2>4, <2>5, <2>6 DEF RequestFresh, Since, Current, Cover
<1> QED
  BY <1>2, <1>4, <1>5 DEF IndexInv, VisitorInv

\* A committed table is the last content of the grown history.
LEMMA CommitFresh ==
  ASSUME TypeOK, HistoryInv, NEW table \in Table, Commit(table)
  PROVE  HistoryGrows /\ HistoryInv'
<1>1. history \in Seq(Rules) /\ history # <<>> /\ Enforced(table) \in Rules
  BY EnforcedType DEF TypeOK, TableType
<1>2. history' = Append(history, Enforced(table)) /\ rows' = table
  BY DEF Commit
<1>3. history'[Len(history')] = Enforced(table) /\ history'[1] = history[1]
  BY <1>1, <1>2
<1>4. Enforced(rows)' = Enforced(table)
  BY <1>2 DEF Enforced, EnabledRows
<1> QED
  BY <1>1, <1>2, <1>3, <1>4 DEF HistoryGrows, HistoryInv, NoRules

\* The table as it was keeps HistoryInv.
LEMMA NoCommitFresh ==
  ASSUME HistoryInv, UNCHANGED <<rows, history>>
  PROVE  HistoryGrows /\ HistoryInv'
  BY DEF HistoryGrows, HistoryInv, Enforced, EnabledRows, NoRules

\* An administrator's statement is done, or the handler ends without one.
LEMMA AdminRecordFresh ==
  ASSUME TypeOK, TypeOK', AdminInv, HistoryGrows, NEW a \in Admins,
         UNCHANGED <<accessVersion, covers>>,
         NEW h \in AdminHandler, h.phase # "reply", h.change \in 1 .. Len(history'),
         admin' = [admin EXCEPT ![a] = h]
  PROVE  AdminInv'
<1>1. admin \in [Admins -> AdminHandler]
  BY DEF TypeOK, AdminType
<1>2. Cover(accessVersion)' = Cover(accessVersion)
  BY DEF Cover
<1> QED
  BY <1>1, <1>2, Grown DEF AdminInv, AdminHandler

\* The idle handler vouches for the first position only.
LEMMA AdminIdleFresh ==
  AdminIdle \in AdminHandler /\ AdminIdle.phase = "idle" /\ AdminIdle.change = 1
  BY IdleTypes DEF AdminIdle

\* Statements of administrators.
LEMMA AdminStatementStep ==
  ASSUME TypeOK, TypeOK', FreshnessInv, NEW a \in Admins
  PROVE  CreateRule(a) \/ ReadRule(a) \/ WriteRule(a) \/ DeleteRule(a) \/ WriteFails(a)
           \/ (BumpFails(a) /\ UNCHANGED redis) => FreshnessInv'
<1>1. ASSUME NEW table \in Table, Commit(table) \/ UNCHANGED <<rows, history>>
      PROVE  HistoryGrows /\ HistoryInv'
  BY <1>1, CommitFresh, NoCommitFresh DEF FreshnessInv
<1>2. ASSUME NEW s \in Servers, NEW op \in Operations, NEW id \in RuleIds, HistoryGrows,
             Committed(a, s, op, id), UNCHANGED <<accessVersion, covers>>
      PROVE  AdminInv'
  <2> DEFINE h == [AdminIdle EXCEPT !.phase = "invalidate", !.at = s, !.op = op, !.id = id,
                                    !.change = Len(history')]
  <2>1. h \in AdminHandler /\ h.phase # "reply" /\ h.change \in 1 .. Len(history')
    <3>1. Len(history') \in Nat \ {0}
      BY <1>2, Grown
    <3>2. h \in AdminHandler
      BY <3>1, AdminIdleFresh DEF AdminHandler
    <3>3. h.phase = "invalidate" /\ h.change = Len(history')
      BY DEF AdminIdle
    <3> QED
      BY <3>1, <3>2, <3>3
  <2>2. admin' = [admin EXCEPT ![a] = h]
    BY <1>2 DEF Committed
  <2> HIDE DEF h
  <2> QED
    BY <1>2, <2>1, <2>2, AdminRecordFresh DEF FreshnessInv
<1>3. CASE CreateRule(a)
  <2>1. PICK s \in Servers, p \in Paths, secret \in Secrets :
           /\ Commit([rows EXCEPT ![nextId] = Row(p, secret, TRUE, 1)])
           /\ Committed(a, s, "create", nextId)
    BY <1>3 DEF CreateRule
  <2>2. rows' \in Table /\ Commit(rows')
    BY <2>1 DEF Commit, TypeOK, TableType, Table
  <2>3. HistoryGrows /\ HistoryInv'
    BY <2>2, CommitFresh DEF FreshnessInv
  <2>4. AdminInv'
    BY <1>2, <1>3, <2>1, <2>3 DEF CreateRule, Operations, redis
  <2> QED
    BY <1>3, <2>3, <2>4, StatementFresh DEF CreateRule, FreshnessInv, redis, index
<1>4. CASE ReadRule(a)
  <2>1. UNCHANGED <<rows, history>>
    BY <1>4 DEF ReadRule, db
  <2>2. PICK op \in {"update", "secret"}, s \in Servers, id \in RuleIds :
          /\ rows[id] # NoRow
          /\ admin' = [admin EXCEPT ![a] = [AdminIdle EXCEPT !.phase = "write", !.at = s,
                        !.op = op, !.id = id, !.version = rows[id].version]]
    BY <1>4 DEF ReadRule
  <2> DEFINE h == [AdminIdle EXCEPT !.phase = "write", !.at = s, !.op = op, !.id = id,
                                    !.version = rows[id].version]
  <2>3. h.phase = "write" /\ h.change = 1
    BY DEF AdminIdle
  <2>4. h \in AdminHandler
    BY <2>2, AdminIdleFresh DEF AdminHandler, TypeOK, TableType, RuleRow, Operations
  <2>5. admin' = [admin EXCEPT ![a] = h]
    BY <2>2
  <2> HIDE DEF h
  <2>6. HistoryGrows /\ HistoryInv'
    BY <2>1, NoCommitFresh DEF FreshnessInv
  <2>7. AdminInv'
    <3>1. 1 \in 1 .. Len(history') /\ AdminInv /\ UNCHANGED <<accessVersion, covers>>
      BY <1>4, <2>6, Grown DEF ReadRule, FreshnessInv, redis
    <3> QED
      BY <2>3, <2>4, <2>5, <2>6, <3>1, AdminRecordFresh
  <2> QED
    BY <1>4, <2>6, <2>7, StatementFresh DEF ReadRule, FreshnessInv, redis, index
<1>5. CASE WriteRule(a)
  <2>1. Commit(rows') \/ UNCHANGED <<rows, history>>
    BY <1>5, CommitTable DEF WriteRule
  <2>2. HistoryGrows /\ HistoryInv'
    BY <1>1, <2>1 DEF TypeOK, TableType, Table
  <2>3. AdminInv'
    BY <1>2, <1>5, <2>2 DEF WriteRule, TypeOK, AdminType, redis
  <2> QED
    BY <1>5, <2>2, <2>3, StatementFresh DEF WriteRule, FreshnessInv, redis, index
<1>6. CASE DeleteRule(a)
  <2>1. PICK s \in Servers, id \in RuleIds :
          /\ IF rows[id] = NoRow THEN UNCHANGED <<rows, history>>
             ELSE Commit([rows EXCEPT ![id] = NoRow])
          /\ Committed(a, s, "delete", id)
    BY <1>6 DEF DeleteRule
  <2>2. Commit(rows') \/ UNCHANGED <<rows, history>>
    BY <2>1 DEF Commit
  <2>3. HistoryGrows /\ HistoryInv'
    BY <1>1, <2>2 DEF TypeOK, TableType, Table
  <2>4. AdminInv'
    BY <1>2, <1>6, <2>1, <2>3 DEF DeleteRule, Operations, redis
  <2> QED
    BY <1>6, <2>3, <2>4, StatementFresh DEF DeleteRule, FreshnessInv, redis, index
<1>7. CASE WriteFails(a) \/ (BumpFails(a) /\ UNCHANGED redis)
  <2>1. UNCHANGED <<rows, history>> /\ admin' = [admin EXCEPT ![a] = AdminIdle]
    BY <1>7 DEF WriteFails, BumpFails, db
  <2>2. HistoryGrows /\ HistoryInv'
    BY <2>1, NoCommitFresh DEF FreshnessInv
  <2>3. AdminInv'
    <3>1. 1 \in 1 .. Len(history') /\ AdminInv /\ UNCHANGED <<accessVersion, covers>>
      BY <1>7, <2>2, Grown DEF WriteFails, BumpFails, FreshnessInv, redis
    <3> QED
      BY <2>1, <2>2, <3>1, AdminIdleFresh, AdminRecordFresh
  <2> QED
    BY <1>7, <2>2, <2>3, StatementFresh DEF WriteFails, BumpFails, FreshnessInv, redis, index
<1> QED
  BY <1>3, <1>4, <1>5, <1>6, <1>7

\* An Invalidate leaves the table, the counter and the requests alone.
LEMMA DropFresh ==
  ASSUME TypeOK, FreshnessInv, NEW s \in Servers, Drop(s), UNCHANGED <<db, redis, acked>>
  PROVE  /\ HistoryInv' /\ CounterInv' /\ IndexInv'
         /\ \A r \in Visitors : /\ visitor'[r] = visitor[r] => RequestFresh(visitor[r], r)'
                                /\ ~Current(s, r)'
<1>1. Len(history) \in Nat \ {0} /\ mu' = mu /\ mu[s] = None
  BY DEF TypeOK, TableType, Drop
<1>2. /\ UNCHANGED <<rows, history, accessVersion, covers, acked>>
      /\ idx' = [idx EXCEPT ![s].live = FALSE] /\ idx \in [Servers -> Index]
      /\ dropped' = [dropped EXCEPT ![s] = Len(history)] /\ dropped \in [Servers -> Nat]
  BY DEF Drop, db, redis, TypeOK, IndexType
<1>3. HistoryInv' /\ CounterInv'
  BY <1>2 DEF FreshnessInv, HistoryInv, CounterInv, Cover, Enforced, EnabledRows
<1>4. \A t \in Servers : /\ idx'[t].tag = idx[t].tag /\ idx'[t].rules = idx[t].rules
                         /\ idx'[t].live => t # s /\ idx[t].live
                         /\ t # s => dropped'[t] = dropped[t]
  BY <1>2 DEF Index
<1>5. dropped'[s] = Len(history)
  BY <1>2
<1>6. ASSUME NEW t \in Servers PROVE IndexFresh(t)'
  <2>1. IndexFresh(t)
    BY DEF FreshnessInv, IndexInv
  <2> QED
    BY <1>1, <1>2, <1>4, <1>5, <2>1 DEF IndexFresh, Since, Cover
<1>7. ASSUME NEW r \in Visitors, visitor'[r] = visitor[r]
      PROVE  RequestFresh(visitor[r], r)'
  <2> DEFINE v == visitor[r]
  <2>1. /\ v' = v /\ r # None /\ (v.phase # "idle" => v.at \in Servers) /\ v.own \in Nat
        /\ RequestFresh(v, r)
    BY <1>7, NamesAssumption DEF TypeOK, VisitorType, VisitorHandler, FreshnessInv, VisitorInv
  <2>2. \A t \in Servers : dropped[t] <= dropped'[t]
    BY <1>1, <1>2, <1>4, <1>5 DEF FreshnessInv, IndexInv, IndexFresh
  <2>3. v.phase = "publish" => v.at # s /\ dropped'[v.at] = dropped[v.at]
    BY <1>1, <1>4, <1>7, <2>1 DEF RequestFresh
  <2>4. v.phase \in {"version", "snapshot", "publish"} => v.own <= dropped'[v.at]
    BY <1>2, <1>7, <2>1, <2>2 DEF RequestFresh
  <2>5. v.phase = "snapshot" => (Current(v.at, r)' => Current(v.at, r))
    BY <1>4, <2>1 DEF Current
  <2> QED
    BY <1>1, <1>2, <1>7, <2>1, <2>3, <2>4, <2>5 DEF RequestFresh, Since, Cover
<1>8. ASSUME NEW r \in Visitors PROVE ~Current(s, r)'
  BY <1>4 DEF Current
<1> QED
  BY <1>3, <1>6, <1>7, <1>8 DEF IndexInv

\* The local invalidation, the increment of the counter and the answer.
LEMMA AdminCounterStep ==
  ASSUME TypeOK, TypeOK', FreshnessInv, NEW a \in Admins
  PROVE  Invalidate(a) \/ Bump(a) \/ (BumpFails(a) /\ Increment) \/ Reply(a) => FreshnessInv'
<1>1. Len(history) \in Nat \ {0} /\ accessVersion \in Nat /\ covers \in Seq(Nat)
      /\ Len(covers) = accessVersion /\ acked \in Nat
  BY DEF TypeOK, TableType, RedisType, FreshnessInv, CounterInv
<1>2. CASE Invalidate(a)
  <2>1. /\ admin[a].at \in Servers /\ Drop(admin[a].at)
        /\ UNCHANGED <<db, redis, acked, visitor>>
        /\ admin' = [admin EXCEPT ![a].phase = "bump"]
    BY <1>2 DEF Invalidate, TypeOK, AdminType
  <2>2. HistoryInv' /\ CounterInv' /\ IndexInv' /\ VisitorInv'
    BY <2>1, DropFresh DEF FreshnessInv, VisitorInv
  <2>3. AdminInv'
    BY <2>1 DEF FreshnessInv, AdminInv, TypeOK, AdminType, AdminHandler, db, redis, Cover
  <2> QED
    BY <2>2, <2>3 DEF FreshnessInv
<1>3. CASE Bump(a) \/ (BumpFails(a) /\ Increment)
  <2>1. /\ accessVersion' = accessVersion + 1 /\ covers' = Append(covers, Len(history))
        /\ UNCHANGED <<rows, history, idx, mu, dropped, visitor, acked>>
        /\ \/ admin' = [admin EXCEPT ![a].phase = "reply"]
           \/ admin' = [admin EXCEPT ![a] = AdminIdle]
    BY <1>3 DEF Bump, BumpFails, Increment, db, index
  <2>2. /\ \A v \in 1 .. accessVersion : covers'[v] = covers[v]
        /\ covers'[accessVersion + 1] = Len(history) /\ Len(covers') = accessVersion + 1
    BY <1>1, <2>1
  <2>3. \A v \in 0 .. accessVersion : Cover(v)' = Cover(v)
    BY <1>1, <2>2 DEF Cover
  <2>4. Cover(accessVersion)' = Len(history)
    BY <1>1, <2>1, <2>2 DEF Cover
  <2>5. CounterInv'
    <3>1. \A v \in 1 .. accessVersion : covers[v] \in 1 .. Len(history)
      BY DEF FreshnessInv, CounterInv
    <3>2. \A v, w \in 1 .. accessVersion : v <= w => covers[v] <= covers[w]
      BY DEF FreshnessInv, CounterInv
    <3>3. \A v \in 1 .. accessVersion + 1 : v \in 1 .. accessVersion \/ v = accessVersion + 1
      BY <1>1
    <3>4. acked \in 1 .. Len(history)
      BY <1>1, CoverBound DEF FreshnessInv, CounterInv
    <3>5. \A v, w \in 1 .. accessVersion + 1 : v <= w => covers'[v] <= covers'[w]
      BY <1>1, <2>2, <3>1, <3>2, <3>3
    <3> QED
      BY <1>1, <2>1, <2>2, <2>4, <3>1, <3>3, <3>4, <3>5 DEF CounterInv
  <2>6. HistoryInv'
    BY <2>1 DEF FreshnessInv, HistoryInv, Enforced, EnabledRows
  <2>7. AdminInv'
    <3>0. /\ \A b \in Admins : admin[b].change \in 1 .. Len(history)
          /\ admin \in [Admins -> AdminHandler] /\ 1 \in 1 .. Len(history)
      BY <1>1 DEF TypeOK, AdminType, FreshnessInv, AdminInv
    <3>1. \A b \in Admins : admin'[b].change \in 1 .. Len(history)
      <4>1. CASE admin' = [admin EXCEPT ![a].phase = "reply"]
        BY <3>0, <4>1 DEF AdminHandler
      <4>2. CASE admin' = [admin EXCEPT ![a] = AdminIdle]
        BY <3>0, <4>2, AdminIdleFresh
      <4> QED
        BY <2>1, <4>1, <4>2
    <3> QED
      BY <1>1, <2>1, <2>4, <3>1 DEF AdminInv
  <2>8. IndexInv'
    BY <1>1, <2>1, <2>3 DEF FreshnessInv, IndexInv, IndexFresh, Since
  <2>9. ASSUME NEW r \in Visitors PROVE RequestFresh(visitor[r], r)'
    <3>1. RequestFresh(visitor[r], r) /\ visitor[r]' = visitor[r]
          /\ (visitor[r].tag = r => visitor[r].tag \notin Nat)
      BY <2>1, NamesAssumption DEF FreshnessInv, VisitorInv
    <3> QED
      BY <1>1, <2>1, <2>3, <3>1 DEF RequestFresh, Since, Current
  <2> QED
    BY <2>5, <2>6, <2>7, <2>8, <2>9 DEF FreshnessInv, VisitorInv
<1>4. CASE Reply(a)
  <2>1. /\ UNCHANGED <<rows, history, accessVersion, covers, idx, mu, dropped, visitor>>
        /\ admin' = [admin EXCEPT ![a] = AdminIdle]
        /\ acked' = acked \/ (acked' = admin[a].change /\ ~(admin[a].change < acked))
        /\ admin[a].phase = "reply"
    BY <1>4 DEF Reply, db, redis, index
  <2>2. admin[a].change \in 1 .. Cover(accessVersion) /\ Cover(accessVersion) \in Nat
    BY <1>1, <2>1, CoverBound DEF FreshnessInv, AdminInv
  <2>3. acked \in 1 .. acked' /\ acked' \in 1 .. Cover(accessVersion)
    BY <1>1, <2>1, <2>2, CoverBound DEF FreshnessInv, CounterInv
  <2>4. HistoryInv' /\ CounterInv' /\ IndexInv'
    BY <2>1, <2>3 DEF FreshnessInv, HistoryInv, CounterInv, IndexInv, IndexFresh, Since, Cover,
                      Enforced, EnabledRows
  <2>5. AdminInv'
    BY <1>1, <2>1, AdminIdleFresh DEF FreshnessInv, AdminInv, TypeOK, AdminType, Cover
  <2>6. ASSUME NEW r \in Visitors PROVE RequestFresh(visitor[r], r)'
    <3>1. RequestFresh(visitor[r], r) /\ visitor[r].floor \in Nat
      BY DEF FreshnessInv, VisitorInv, TypeOK, VisitorType, VisitorHandler
    <3>2. visitor[r].floor \in 1 .. acked'
      BY <1>1, <2>3, <3>1 DEF RequestFresh
    <3> QED
      BY <2>1, <3>1, <3>2 DEF RequestFresh, Since, Cover, Current
  <2> QED
    BY <2>4, <2>5, <2>6 DEF FreshnessInv, VisitorInv
<1> QED
  BY <1>2, <1>3, <1>4

\* A step that changes one slot, and nothing the others look at.
LEMMA SlotFresh ==
  ASSUME TypeOK, FreshnessInv, NEW r \in Visitors, NEW v,
         UNCHANGED <<rows, history, accessVersion, covers, idx, mu, dropped, admin, acked>>,
         visitor' = [visitor EXCEPT ![r] = v], RequestFresh(v, r)
  PROVE  FreshnessInv'
<1>1. HistoryInv' /\ CounterInv' /\ AdminInv' /\ IndexInv'
  BY DEF FreshnessInv, HistoryInv, CounterInv, AdminInv, IndexInv, IndexFresh, Since, Cover,
         Enforced, EnabledRows
<1>2. ASSUME NEW q \in Visitors PROVE RequestFresh(visitor[q], q)'
  <2>1. RequestFresh(visitor'[q], q)
    BY DEF TypeOK, VisitorType, FreshnessInv, VisitorInv
  <2> QED
    BY <2>1 DEF RequestFresh, Since, Cover, Current
<1> QED
  BY <1>1, <1>2 DEF FreshnessInv, VisitorInv

\* An idle slot knows nothing.
LEMMA IdleFresh ==
  ASSUME TypeOK, FreshnessInv, NEW r \in Visitors
  PROVE  RequestFresh(VisitorIdle, r)
<1>1. acked \in Nat \ {0}
  BY DEF TypeOK, RedisType, FreshnessInv, CounterInv
<1> QED
  BY <1>1 DEF RequestFresh, VisitorIdle

\* The steps of a visitor that neither take nor release a lock.
LEMMA VisitorQuietStep ==
  ASSUME TypeOK, FreshnessInv, NEW r \in Visitors
  PROVE  BeginCheck(r) \/ GetVersion(r) \/ Hit(r) \/ CheckPasses(r) \/ CheckFails(r) \/ Finish(r)
           \/ SubmitRead(r) \/ MarkPassed(r) \/ MarkFails(r) => FreshnessInv'
<1> DEFINE others == <<rows, history, accessVersion, covers, idx, mu, dropped, admin, acked>>
<1>1. visitor[r] \in VisitorHandler /\ RequestFresh(visitor[r], r)
      /\ (visitor[r].phase # "idle" => visitor[r].at \in Servers)
  BY DEF TypeOK, VisitorType, FreshnessInv, VisitorInv
<1>2. acked \in Nat \ {0} /\ accessVersion \in Nat /\ acked <= Cover(accessVersion)
  BY DEF TypeOK, RedisType, FreshnessInv, CounterInv
<1>3. CASE BeginCheck(r)
  <2>1. PICK s \in Servers, t \in Tokens, p \in Paths :
           visitor' = [visitor EXCEPT ![r] = [VisitorIdle EXCEPT
               !.phase = "version", !.at = s, !.token = t, !.path = p,
               !.floor = acked, !.own = dropped[s]]]
    BY <1>3 DEF BeginCheck
  <2> DEFINE v == [VisitorIdle EXCEPT !.phase = "version", !.at = s, !.token = t,
                       !.path = p, !.floor = acked, !.own = dropped[s]]
  <2>2. v.phase = "version" /\ v.floor = acked /\ v.own = dropped[s] /\ v.at = s
    BY DEF VisitorIdle
  <2>3. dropped[s] \in Nat \ {0}
    BY DEF TypeOK, TableType, FreshnessInv, IndexInv, IndexFresh
  <2> HIDE DEF v
  <2>4. RequestFresh(v, r)
    BY <1>2, <2>2, <2>3 DEF RequestFresh
  <2>5. UNCHANGED others
    BY <1>3 DEF BeginCheck, db, redis, index
  <2> QED
    BY <2>1, <2>4, <2>5, SlotFresh DEF v
<1>4. CASE GetVersion(r)
  <2> DEFINE v == [visitor[r] EXCEPT !.phase = "snapshot", !.tag = accessVersion]
  <2>1. visitor' = [visitor EXCEPT ![r] = v] /\ UNCHANGED others /\ visitor[r].phase = "version"
    BY <1>4 DEF GetVersion, db, redis, index
  <2>2. v.phase = "snapshot" /\ v.tag = accessVersion /\ v.at = visitor[r].at
        /\ v.floor = visitor[r].floor /\ v.own = visitor[r].own
    BY <1>1 DEF VisitorHandler
  <2>3. accessVersion # r /\ visitor[r].floor \in Nat /\ Cover(accessVersion) \in Nat
    BY <1>1, <1>2, NamesAssumption, CoverBound DEF VisitorHandler, FreshnessInv
  <2> HIDE DEF v
  <2>4. RequestFresh(v, r)
    BY <1>1, <1>2, <2>1, <2>2, <2>3 DEF RequestFresh
  <2> QED
    BY <2>1, <2>4, SlotFresh
<1>5. CASE Hit(r)
  <2> DEFINE s == visitor[r].at
             v == [visitor[r] EXCEPT !.phase = "passes", !.rules = idx[s].rules]
  <2>1. visitor' = [visitor EXCEPT ![r] = v] /\ UNCHANGED others
        /\ visitor[r].phase = "snapshot" /\ idx[s].live /\ idx[s].tag = visitor[r].tag
    BY <1>5 DEF Hit, Current, db, redis, index
  <2>2. v.phase = "passes" /\ v.rules = idx[s].rules
        /\ v.floor = visitor[r].floor /\ v.own = visitor[r].own
    BY <1>1 DEF VisitorHandler
  <2>3. s \in Servers /\ IndexFresh(s) /\ dropped[s] \in Nat /\ Len(history) \in Nat
        /\ v.floor \in Nat /\ v.own \in Nat
    BY <1>1, <2>1, <2>2 DEF FreshnessInv, IndexInv, TypeOK, TableType, IndexType, VisitorHandler
  <2>4. visitor[r].tag \in 0 .. accessVersion /\ v.floor <= Cover(visitor[r].tag)
    BY <1>1, <1>2, <2>1, <2>2 DEF RequestFresh, Current
  <2>5. Since(idx[s].rules, v.floor)
    <3>1. Since(idx[s].rules, Cover(visitor[r].tag)) /\ Cover(visitor[r].tag) \in Nat
      BY <2>1, <2>3, <2>4, CoverBound DEF IndexFresh, FreshnessInv
    <3> QED
      BY <2>3, <2>4, <3>1, OccursEarlier DEF Since
  <2>6. Since(idx[s].rules, v.own)
    <3>1. v.own <= dropped[s]
      BY <1>1, <2>1, <2>2 DEF RequestFresh
    <3> QED
      BY <2>1, <2>3, <3>1, OccursEarlier DEF Since, IndexFresh
  <2> HIDE DEF v
  <2>7. RequestFresh(v, r)
    BY <1>1, <2>2, <2>5, <2>6 DEF RequestFresh
  <2> QED
    BY <2>1, <2>7, SlotFresh
<1>6. CASE CheckPasses(r)
  <2>1. PICK phase \in {"granted", "denied"} : visitor' = [visitor EXCEPT ![r].phase = phase]
    BY <1>6 DEF CheckPasses
  <2> DEFINE v == [visitor[r] EXCEPT !.phase = phase]
  <2>2. visitor' = [visitor EXCEPT ![r] = v] /\ UNCHANGED others /\ visitor[r].phase = "passes"
    BY <1>6, <2>1 DEF CheckPasses, db, redis, index
  <2>3. v.phase \in {"granted", "denied"} /\ v.rules = visitor[r].rules
        /\ v.floor = visitor[r].floor /\ v.own = visitor[r].own
    BY <1>1 DEF VisitorHandler
  <2> HIDE DEF v
  <2>4. RequestFresh(v, r)
    BY <1>1, <2>2, <2>3 DEF RequestFresh
  <2> QED
    BY <2>2, <2>4, SlotFresh
<1>7. CASE CheckFails(r) \/ Finish(r) \/ MarkPassed(r) \/ MarkFails(r)
  <2>1. visitor' = [visitor EXCEPT ![r] = VisitorIdle] /\ UNCHANGED others
    BY <1>7 DEF CheckFails, Finish, MarkPassed, MarkFails, Answer, db, redis, index
  <2> QED
    BY <2>1, IdleFresh, SlotFresh
<1>8. CASE SubmitRead(r)
  <2>1. PICK s, pass : visitor' = [visitor EXCEPT ![r] = [VisitorIdle EXCEPT
               !.phase = "mark", !.at = s, !.pass = pass]]
    BY <1>8 DEF SubmitRead
  <2> DEFINE v == [VisitorIdle EXCEPT !.phase = "mark", !.at = s, !.pass = pass]
  <2>2. v.phase = "mark" /\ v.floor = 1 /\ v.own = 1
    BY DEF VisitorIdle
  <2> HIDE DEF v
  <2>3. RequestFresh(v, r)
    BY <1>2, <2>2 DEF RequestFresh
  <2>4. UNCHANGED others
    BY <1>8 DEF SubmitRead, db, redis, index
  <2> QED
    BY <2>1, <2>3, <2>4, SlotFresh DEF v
<1> QED
  BY <1>3, <1>4, <1>5, <1>6, <1>7, <1>8

\* The steps of a visitor that expire, load and fill an index.
LEMMA VisitorIndexStep ==
  ASSUME TypeOK, FreshnessInv, NEW r \in Visitors
  PROVE  GetVersionFails(r) \/ Load(r) \/ LoadFails(r) \/ Publish(r) => FreshnessInv'
<1> DEFINE s == visitor[r].at
           others == <<rows, history, accessVersion, covers, dropped, admin, acked>>
<1>1. visitor[r] \in VisitorHandler /\ RequestFresh(visitor[r], r) /\ r # None /\ r \notin Nat
      /\ (visitor[r].phase # "idle" => s \in Servers)
  BY NamesAssumption DEF TypeOK, VisitorType, FreshnessInv, VisitorInv
<1>2. visitor \in [Visitors -> VisitorHandler] /\ idx \in [Servers -> Index]
      /\ mu \in [Servers -> Visitors \cup {None}] /\ accessVersion \in Nat
  BY DEF TypeOK, VisitorType, IndexType, RedisType
<1>3. ASSUME NEW q \in Visitors
      PROVE  /\ RequestFresh(visitor[q], q) /\ q # None /\ q \notin Nat
             /\ (visitor[q].phase # "idle" => visitor[q].at \in Servers)
  BY NamesAssumption DEF TypeOK, VisitorType, FreshnessInv, VisitorInv
<1>4. ASSUME UNCHANGED others
      PROVE  HistoryInv' /\ CounterInv' /\ AdminInv'
  BY <1>4 DEF FreshnessInv, HistoryInv, CounterInv, AdminInv, Cover, Enforced, EnabledRows
<1>5. CASE GetVersionFails(r)
  <2> DEFINE v == [visitor[r] EXCEPT !.phase = "snapshot", !.tag = r]
  <2>1. /\ visitor' = [visitor EXCEPT ![r] = v] /\ visitor[r].phase = "version"
        /\ Drop(s) /\ s \in Servers /\ UNCHANGED <<db, redis, admin, acked>>
    BY <1>1, <1>5 DEF GetVersionFails
  <2>2. HistoryInv' /\ CounterInv' /\ IndexInv' /\ AdminInv'
    BY <2>1, DropFresh DEF FreshnessInv, AdminInv, Cover, db, redis
  <2>3. v.phase = "snapshot" /\ v.tag = r /\ v.at = s
        /\ v.floor = visitor[r].floor /\ v.own = visitor[r].own
    BY <1>1 DEF VisitorHandler
  <2>4. dropped[s] \in 1 .. Len(history) /\ dropped'[s] = Len(history) /\ Len(history) \in Nat
    BY <2>1 DEF FreshnessInv, IndexInv, IndexFresh, Drop, TypeOK, IndexType, TableType
  <2>5. ~Current(s, r)'
    BY <2>1, DropFresh
  <2>6. visitor[r].own \in Nat /\ acked' = acked
    BY <1>1, <2>1 DEF VisitorHandler
  <2>7. visitor'[r] = v
    BY <1>2, <2>1
  <2> HIDE DEF v
  <2>8. RequestFresh(visitor[r], r)'
    BY <1>1, <2>1, <2>3, <2>4, <2>5, <2>6, <2>7 DEF RequestFresh, Current
  <2>9. ASSUME NEW q \in Visitors, q # r PROVE RequestFresh(visitor[q], q)'
    BY <1>2, <2>1, <2>9, DropFresh
  <2> QED
    BY <2>2, <2>8, <2>9 DEF FreshnessInv, VisitorInv
<1>6. CASE Load(r)
  <2> DEFINE v == [visitor[r] EXCEPT !.phase = "publish", !.rules = Enforced(rows)]
  <2>1. /\ visitor' = [visitor EXCEPT ![r] = v] /\ visitor[r].phase = "snapshot"
        /\ mu[s] = None /\ mu' = [mu EXCEPT ![s] = r] /\ s \in Servers
        /\ UNCHANGED others /\ idx' = idx
    BY <1>1, <1>6 DEF Load, db, redis
  <2>2. HistoryInv' /\ CounterInv' /\ AdminInv' /\ IndexInv'
    BY <1>4, <2>1 DEF FreshnessInv, IndexInv, IndexFresh, Since, Cover
  <2>3. v.phase = "publish" /\ v.tag = visitor[r].tag /\ v.at = s /\ v.rules = Enforced(rows)
        /\ v.floor = visitor[r].floor /\ v.own = visitor[r].own
    BY <1>1 DEF VisitorHandler
  <2>4. v.floor \in 1 .. Len(history) /\ dropped[s] \in 1 .. Len(history)
    <3>1. Cover(accessVersion) \in 1 .. Len(history) /\ acked \in 1 .. Cover(accessVersion)
      BY <1>2, CoverBound DEF FreshnessInv, CounterInv
    <3>2. v.floor \in 1 .. acked /\ Len(history) \in Nat
      BY <1>1, <2>3 DEF RequestFresh, TypeOK, TableType
    <3> QED
      BY <2>1, <3>1, <3>2 DEF FreshnessInv, IndexInv, IndexFresh
  <2>5. v.tag \in Nat => v.tag \in 0 .. accessVersion /\ Cover(v.tag) \in 1 .. Len(history)
    BY <1>1, <1>2, <2>1, <2>3, CoverBound DEF RequestFresh, FreshnessInv
  <2>6. /\ Since(v.rules, v.floor) /\ Since(v.rules, dropped[s])
        /\ v.tag \in Nat => Since(v.rules, Cover(v.tag))
    BY <2>3, <2>4, <2>5, OccursNow DEF FreshnessInv
  <2>7. visitor'[r] = v /\ mu'[s] = r
    BY <1>2, <2>1
  <2> HIDE DEF v
  <2>8. RequestFresh(visitor[r], r)'
    BY <1>1, <2>1, <2>3, <2>6, <2>7 DEF RequestFresh, Since, Cover
  <2>9. ASSUME NEW q \in Visitors, q # r PROVE RequestFresh(visitor[q], q)'
    <3>1. visitor'[q] = visitor[q]
      BY <1>2, <2>1, <2>9
    <3>2. visitor[q].phase = "publish" => mu'[visitor[q].at] = q
      BY <1>2, <1>3, <2>1 DEF RequestFresh
    <3> QED
      BY <1>3, <2>1, <3>1, <3>2 DEF RequestFresh, Since, Cover, Current
  <2> QED
    BY <2>2, <2>8, <2>9 DEF FreshnessInv, VisitorInv
<1>7. ASSUME LoadFails(r) \/ Publish(r), NEW q \in Visitors, q # r, visitor[q].phase = "publish"
      PROVE  mu'[visitor[q].at] = q /\ visitor[q].at # s
  BY <1>1, <1>2, <1>3, <1>7 DEF LoadFails, Publish, RequestFresh
<1>8. CASE LoadFails(r)
  <2>1. visitor' = [visitor EXCEPT ![r] = VisitorIdle] /\ UNCHANGED others /\ idx' = idx
    BY <1>8 DEF LoadFails, Answer, db, redis
  <2>2. HistoryInv' /\ CounterInv' /\ AdminInv' /\ IndexInv'
    BY <1>4, <2>1 DEF FreshnessInv, IndexInv, IndexFresh, Since, Cover
  <2>3. RequestFresh(visitor[r], r)'
    <3>1. visitor'[r] = VisitorIdle /\ acked' = acked /\ acked \in Nat \ {0}
      BY <1>2, <2>1 DEF TypeOK, RedisType, FreshnessInv, CounterInv
    <3> QED
      BY <3>1 DEF RequestFresh, VisitorIdle
  <2>4. ASSUME NEW q \in Visitors, q # r PROVE RequestFresh(visitor[q], q)'
    <3>1. visitor'[q] = visitor[q]
      BY <1>2, <2>1, <2>4
    <3>2. visitor[q].phase = "publish" => mu'[visitor[q].at] = q
      BY <1>7, <1>8, <2>4
    <3> QED
      BY <1>3, <2>1, <3>1, <3>2 DEF RequestFresh, Since, Cover, Current
  <2> QED
    BY <2>2, <2>3, <2>4 DEF FreshnessInv, VisitorInv
<1>9. CASE Publish(r)
  <2> DEFINE v == [visitor[r] EXCEPT !.phase = "passes"]
             filled == [rules |-> visitor[r].rules, tag |-> visitor[r].tag, live |-> TRUE]
  <2>1. /\ visitor' = [visitor EXCEPT ![r] = v] /\ visitor[r].phase = "publish"
        /\ s \in Servers /\ idx' = [idx EXCEPT ![s] = filled] /\ UNCHANGED others
    BY <1>1, <1>9 DEF Publish, db, redis
  <2>2. idx'[s] = filled /\ \A t \in Servers : t # s => idx'[t] = idx[t]
    BY <1>2, <2>1
  <2>3. HistoryInv' /\ CounterInv' /\ AdminInv'
    BY <1>4, <2>1
  <2>4. ASSUME NEW t \in Servers PROVE IndexFresh(t)'
    <3>1. CASE t # s
      BY <2>1, <2>2, <3>1 DEF FreshnessInv, IndexInv, IndexFresh, Since, Cover
    <3>2. CASE t = s
      <4>1. visitor[r].tag \in Nat => visitor[r].tag <= accessVersion
        BY <1>1, <2>1 DEF RequestFresh
      <4>2. dropped[s] \in 1 .. Len(history)
        BY <2>1 DEF FreshnessInv, IndexInv, IndexFresh
      <4> QED
        BY <1>1, <2>1, <2>2, <3>2, <4>1, <4>2 DEF RequestFresh, IndexFresh, Since, Cover
    <3> QED
      BY <3>1, <3>2
  <2>5. v.phase = "passes" /\ v.rules = visitor[r].rules /\ v.floor = visitor[r].floor
        /\ v.own = visitor[r].own /\ v.floor \in Nat /\ v.own \in Nat
    BY <1>1 DEF VisitorHandler
  <2>6. Since(v.rules, v.floor) /\ Since(v.rules, v.own)
    <3>1. Since(v.rules, v.floor) /\ Since(v.rules, dropped[s]) /\ v.own <= dropped[s]
          /\ dropped[s] \in Nat /\ Len(history) \in Nat
      BY <1>1, <2>1, <2>5 DEF RequestFresh, TypeOK, TableType, IndexType
    <3> QED
      BY <2>5, <3>1, OccursEarlier DEF Since
  <2>7. visitor'[r] = v
    BY <1>2, <2>1
  <2> HIDE DEF v
  <2>8. RequestFresh(visitor[r], r)'
    BY <1>1, <2>1, <2>5, <2>6, <2>7 DEF RequestFresh, Since
  <2>9. ASSUME NEW q \in Visitors, q # r PROVE RequestFresh(visitor[q], q)'
    <3>1. visitor'[q] = visitor[q]
      BY <1>2, <2>1, <2>9
    <3>2. visitor[q].phase = "publish" => mu'[visitor[q].at] = q
      BY <1>7, <1>9, <2>9
    <3>3. visitor[q].phase = "snapshot" /\ visitor[q].tag = q => ~Current(visitor[q].at, q)'
      <4>1. filled.tag # q
        BY <1>1, <1>3, <2>1, <2>9 DEF RequestFresh
      <4>2. CASE visitor[q].at = s
        BY <2>2, <4>1, <4>2, <3>1 DEF Current
      <4>3. CASE visitor[q].at # s
        BY <1>3, <2>2, <4>3, <3>1 DEF Current, RequestFresh
      <4> QED
        BY <4>2, <4>3
    <3> QED
      BY <1>3, <2>1, <3>1, <3>2, <3>3 DEF RequestFresh, Since, Cover
  <2> QED
    BY <2>3, <2>4, <2>8, <2>9 DEF FreshnessInv, VisitorInv, IndexInv
<1> QED
  BY <1>5, <1>6, <1>8, <1>9

\* The expiry of an index, a stop of a server, the expiry of a pass.
LEMMA EnvironmentFreshStep ==
  ASSUME TypeOK, FreshnessInv
  PROVE  /\ \A s \in Servers : IndexExpires(s) \/ Crash(s) => FreshnessInv'
         /\ PassExpires \/ UNCHANGED vars => FreshnessInv'
<1>1. ASSUME NEW s \in Servers, IndexExpires(s) PROVE FreshnessInv'
  <2>1. /\ idx' = [idx EXCEPT ![s].live = FALSE] /\ idx \in [Servers -> Index]
        /\ UNCHANGED <<rows, history, accessVersion, covers, mu, dropped, admin, visitor, acked>>
    BY <1>1 DEF IndexExpires, TypeOK, IndexType, db, redis
  <2>2. \A t \in Servers : /\ idx'[t].tag = idx[t].tag /\ idx'[t].rules = idx[t].rules
                           /\ idx'[t].live => idx[t].live
    BY <2>1 DEF Index
  <2>3. HistoryInv' /\ CounterInv' /\ AdminInv'
    BY <2>1 DEF FreshnessInv, HistoryInv, CounterInv, AdminInv, Cover, Enforced, EnabledRows
  <2>4. IndexInv'
    BY <2>1, <2>2 DEF FreshnessInv, IndexInv, IndexFresh, Since, Cover
  <2>5. ASSUME NEW r \in Visitors PROVE RequestFresh(visitor[r], r)'
    <3>1. RequestFresh(visitor[r], r) /\ (visitor[r].phase # "idle" => visitor[r].at \in Servers)
      BY DEF FreshnessInv, VisitorInv, TypeOK, VisitorType
    <3> QED
      BY <2>1, <2>2, <3>1 DEF RequestFresh, Since, Cover, Current
  <2> QED
    BY <2>3, <2>4, <2>5 DEF FreshnessInv, VisitorInv
<1>2. ASSUME NEW s \in Servers, Crash(s) PROVE FreshnessInv'
  <2>1. /\ idx' = [idx EXCEPT ![s] = EmptyIndex] /\ idx \in [Servers -> Index]
        /\ mu' = [mu EXCEPT ![s] = None] /\ mu \in [Servers -> Visitors \cup {None}]
        /\ UNCHANGED <<rows, history, accessVersion, covers, dropped, acked>>
    BY <1>2 DEF Crash, TypeOK, IndexType, db, redis
  <2>2. /\ \A t \in Servers : t # s => idx'[t] = idx[t] /\ mu'[t] = mu[t]
        /\ idx'[s].tag = 0 /\ ~idx'[s].live /\ idx'[s].rules = NoRules
    BY <2>1 DEF EmptyIndex
  <2>3. /\ Len(history) \in Nat \ {0} /\ accessVersion \in Nat
        /\ acked \in Nat \ {0} /\ history[1] = NoRules
    BY DEF TypeOK, TableType, RedisType, FreshnessInv, CounterInv, HistoryInv
  <2>4. Since(NoRules, Cover(0))
    BY <2>3 DEF Since, Occurs, Cover
  <2>5. HistoryInv' /\ CounterInv'
    BY <2>1 DEF FreshnessInv, HistoryInv, CounterInv, Cover, Enforced, EnabledRows
  <2>6. AdminInv'
    BY <1>2, <2>1, <2>3, AdminIdleFresh DEF Crash, FreshnessInv, AdminInv, Cover
  <2>7. ASSUME NEW t \in Servers PROVE IndexFresh(t)'
    <3>1. CASE t # s
      BY <2>1, <2>2, <3>1 DEF FreshnessInv, IndexInv, IndexFresh, Since, Cover
    <3>2. CASE t = s
      BY <2>1, <2>2, <2>3, <2>4, <3>2 DEF FreshnessInv, IndexInv, IndexFresh, Since, Cover
    <3> QED
      BY <3>1, <3>2
  <2>8. ASSUME NEW r \in Visitors PROVE RequestFresh(visitor[r], r)'
    <3>1. CASE visitor'[r] = VisitorIdle
      BY <2>1, <2>3, <3>1 DEF RequestFresh, VisitorIdle
    <3>2. CASE visitor'[r] = visitor[r] /\ visitor[r].at # s
      <4>1. RequestFresh(visitor[r], r) /\ (visitor[r].phase # "idle" => visitor[r].at \in Servers)
        BY DEF FreshnessInv, VisitorInv, TypeOK, VisitorType
      <4> QED
        BY <2>1, <2>2, <3>2, <4>1 DEF RequestFresh, Since, Cover, Current
    <3> QED
      BY <1>2, <3>1, <3>2 DEF Crash
  <2> QED
    BY <2>5, <2>6, <2>7, <2>8 DEF FreshnessInv, IndexInv, VisitorInv
<1>3. ASSUME PassExpires \/ UNCHANGED vars PROVE FreshnessInv'
  <2>1. UNCHANGED <<rows, history, accessVersion, covers, idx, mu, dropped, admin, visitor, acked>>
    BY <1>3 DEF PassExpires, vars, db, redis, index
  <2> QED
    BY <2>1 DEF FreshnessInv, HistoryInv, CounterInv, AdminInv, IndexInv, IndexFresh, VisitorInv,
                RequestFresh, Since, Cover, Current, Enforced, EnabledRows
<1> QED
  BY <1>1, <1>2, <1>3

\* The initial state is fresh.
LEMMA InitFresh == Init => FreshnessInv
<1> SUFFICES ASSUME Init PROVE FreshnessInv
  OBVIOUS
<1>1. history = <<NoRules>> /\ Len(history) = 1 /\ history[1] = NoRules /\ accessVersion = 0
      /\ acked = 1 /\ covers = <<>>
  BY DEF Init
<1>2. Enforced(rows) = NoRules
  BY DEF Init, Enforced, EnabledRows, NoRules
<1>3. Since(NoRules, 1)
  BY <1>1 DEF Since, Occurs
<1>4. HistoryInv /\ CounterInv
  BY <1>1, <1>2 DEF HistoryInv, CounterInv, Cover
<1>5. AdminInv
  BY <1>1 DEF Init, AdminInv, AdminIdle
<1>6. IndexInv
  BY <1>1, <1>3 DEF Init, IndexInv, IndexFresh, EmptyIndex, Cover
<1>7. VisitorInv
  BY <1>1 DEF Init, VisitorInv, RequestFresh, VisitorIdle
<1> QED
  BY <1>4, <1>5, <1>6, <1>7 DEF FreshnessInv

\* FreshnessInv is inductive together with TypeOK: it holds in every reachable
\* state.
THEOREM Freshness == Spec => []FreshnessInv
<1>1. TypeOK /\ TypeOK' /\ FreshnessInv /\ [Next]_vars => FreshnessInv'
  <2> SUFFICES ASSUME TypeOK, TypeOK', FreshnessInv, [Next]_vars PROVE FreshnessInv'
    OBVIOUS
  <2>1. CASE \E a \in Admins : CreateRule(a) \/ ReadRule(a) \/ DeleteRule(a)
                               \/ AdminStep(a) \/ Invalidate(a)
    BY <2>1, AdminStatementStep, AdminCounterStep DEF AdminStep, BumpFails
  <2>2. CASE \E r \in Visitors : BeginCheck(r) \/ SubmitRead(r) \/ VisitorStep(r) \/ Locked(r)
    BY <2>2, VisitorQuietStep, VisitorIndexStep DEF VisitorStep, Locked
  <2>3. CASE (\E s \in Servers : IndexExpires(s) \/ Crash(s)) \/ PassExpires \/ UNCHANGED vars
    BY <2>3, EnvironmentFreshStep
  <2> QED
    BY <2>1, <2>2, <2>3 DEF Next, SubmitRejected
<1> QED
  BY <1>1, InitFresh, TypeCorrect, PTL DEF Spec

\* Every answer is given by rules that were enforced at some moment since the
\* last change acknowledged before the request began.
THEOREM AckedFreshness == Spec => []AckedChangesSeen
<1>1. FreshnessInv => AckedChangesSeen
  BY DEF FreshnessInv, VisitorInv, RequestFresh, AckedChangesSeen, Answered
<1> QED
  BY <1>1, Freshness, PTL

\* The same since the last change the server itself has dropped its index for,
\* incremented or not.
THEOREM OwnFreshness == Spec => []OwnChangesSeen
<1>1. FreshnessInv => OwnChangesSeen
  BY DEF FreshnessInv, VisitorInv, RequestFresh, OwnChangesSeen, Answered
<1> QED
  BY <1>1, Freshness, PTL

-----------------------------------------------------------------------------
(* Passes, for one administrator at a time.  Two may write the same version *)
(* of a rule with different secrets, which run access_lost_update shows.    *)

OneAdministrator == \A a, b \in Admins : a = b

\* Who has owned a path: the rule of it has, and no rule that is still to come.
OwnersInv ==
  /\ \A id \in RuleIds : rows[id] # NoRow => id \in owners[rows[id].path]
  /\ \A p \in Paths : \A id \in owners[p] : id < nextId

\* A pass is for a path that had a rule.  When no other rule ever had the path,
\* it was given for a version of that rule not later than the present one, and
\* for the present one with the present secret.
Entered(pass) ==
  /\ owners[pass.path] # {}
  /\ \A id \in RuleIds : owners[pass.path] = {id} /\ rows[id] # NoRow =>
       /\ pass.version <= rows[id].version
       /\ pass.version = rows[id].version => pass.secret = rows[id].secret

\* What an administrator has read is the present version.
PassInv ==
  /\ OwnersInv
  /\ \A pass \in passes : Entered(pass)
  /\ \A r \in Visitors : visitor[r].phase = "mark" => Entered(visitor[r].pass)
  /\ \A a \in Admins : admin[a].phase = "write" /\ rows[admin[a].id] # NoRow =>
       admin[a].version = rows[admin[a].id].version

\* A rule that is there was created.
LEMMA RulesCreated ==
  ASSUME TypeOK, OwnersInv, NEW id \in RuleIds, rows[id] # NoRow
  PROVE  id < nextId /\ rows[id].path \in Paths /\ id \in owners[rows[id].path]
<1>1. rows[id].path \in Paths
  BY DEF TypeOK, TableType, RuleRow
<1> QED
  BY <1>1 DEF OwnersInv

\* A pass remains what it is when a rule gets a later version, or is deleted, or
\* another is created.
LEMMA EnteredKeeps ==
  ASSUME TypeOK, OwnersInv, NEW pass \in Pass, Entered(pass),
         \A p \in Paths : owners[p] \subseteq owners'[p],
         \A id \in RuleIds : id < nextId /\ rows'[id] # NoRow =>
           \/ rows'[id] = rows[id]
           \/ rows[id] # NoRow /\ rows'[id].version \in Nat /\ rows'[id].version > rows[id].version
  PROVE  Entered(pass)'
<1>1. /\ pass.path \in Paths /\ pass.version \in Nat
      /\ \A id \in RuleIds : rows[id] # NoRow => rows[id].version \in Nat
  BY DEF TypeOK, TableType, Pass, RuleRow
<1>2. owners[pass.path] # {} /\ owners[pass.path] \subseteq owners'[pass.path]
  BY <1>1 DEF Entered
<1>3. ASSUME NEW id \in RuleIds, owners'[pass.path] = {id}, rows'[id] # NoRow
      PROVE  /\ pass.version <= rows'[id].version
             /\ pass.version = rows'[id].version => pass.secret = rows'[id].secret
  <2>1. owners[pass.path] = {id}
    BY <1>2, <1>3
  <2>2. id < nextId
    BY <1>1, <2>1 DEF OwnersInv
  <2> QED
    BY <1>1, <1>3, <2>1, <2>2 DEF Entered
<1> QED
  BY <1>2, <1>3 DEF Entered

\* Where the rules are as they were, it is enough to look at what is new.
LEMMA QuietPasses ==
  ASSUME TypeOK, PassInv, UNCHANGED <<rows, nextId, owners>>,
         \A pass \in passes' : pass \in passes \/ Entered(pass),
         \A r \in Visitors : visitor'[r].phase = "mark" =>
           visitor'[r] = visitor[r] \/ Entered(visitor'[r].pass),
         \A a \in Admins : admin'[a].phase = "write" =>
           admin'[a] = admin[a] \/ admin'[a].version = rows[admin'[a].id].version
  PROVE  PassInv'
<1>1. \A pass : Entered(pass) => Entered(pass)'
  BY DEF Entered
<1>2. \A pass \in passes' : Entered(pass)'
  BY <1>1 DEF PassInv
<1>3. ASSUME NEW r \in Visitors, visitor'[r].phase = "mark" PROVE Entered(visitor[r].pass)'
  <2> PICK pass : pass = visitor'[r].pass
    OBVIOUS
  <2>1. Entered(pass)
    BY <1>3 DEF PassInv
  <2> QED
    BY <2>1 DEF Entered
<1>4. \A a \in Admins : admin'[a].phase = "write" /\ rows'[admin'[a].id] # NoRow =>
        admin'[a].version = rows'[admin'[a].id].version
  BY DEF PassInv
<1>5. OwnersInv'
  BY DEF PassInv, OwnersInv
<1> QED
  BY <1>2, <1>3, <1>4, <1>5 DEF PassInv

\* A statement that leaves no administrator between reading and writing.
LEMMA ChangedPasses ==
  ASSUME TypeOK, TypeOK', PassInv, UNCHANGED <<passes, visitor>>, nextId <= nextId',
         Commit(rows') \/ UNCHANGED <<rows, owners>>,
         \A id \in RuleIds : rows'[id] # NoRow =>
           \/ rows'[id] = rows[id]
           \/ rows[id] # NoRow /\ rows'[id].version > rows[id].version
           \/ id = nextId /\ nextId' = nextId + 1,
         \A a \in Admins : admin'[a].phase # "write"
  PROVE  PassInv'
<1>1. /\ nextId \in Nat /\ nextId' \in Nat
      /\ \A id \in RuleIds : /\ id \in Nat
                             /\ rows'[id] # NoRow => /\ rows'[id].version \in Nat
                                                    /\ rows'[id].path \in Paths
  BY BoundsAssumption DEF TypeOK, TableType, RuleIds, RuleRow
<1>2. \A p \in Paths : /\ owners[p] \subseteq owners'[p]
                       /\ \A id \in owners'[p] : id \in owners[p] \/ rows'[id].path = p
  BY DEF Commit
<1>3. ASSUME NEW pass \in Pass, Entered(pass) PROVE Entered(pass)'
  BY <1>1, <1>2, <1>3, EnteredKeeps DEF PassInv
<1>4. \A pass \in passes' : Entered(pass)'
  BY <1>3 DEF PassInv, TypeOK, RedisType
<1>5. ASSUME NEW r \in Visitors, visitor'[r].phase = "mark" PROVE Entered(visitor[r].pass)'
  <2> PICK pass \in Pass : pass = visitor[r].pass /\ Entered(pass)
    BY <1>5 DEF PassInv, TypeOK, VisitorType
  <2>1. Entered(pass)' /\ pass = visitor'[r].pass
    BY <1>3
  <2> QED
    BY <2>1 DEF Entered
<1>6. ASSUME NEW id \in RuleIds, rows'[id] # NoRow PROVE id < nextId'
  <2>1. rows[id] # NoRow => id < nextId
    BY RulesCreated DEF PassInv
  <2> QED
    BY <1>1, <1>6, <2>1
<1>7. ASSUME NEW id \in RuleIds, rows'[id] # NoRow PROVE id \in owners'[rows'[id].path]
  <2>1. CASE Commit(rows')
    BY <1>1, <1>7, <2>1 DEF Commit
  <2>2. CASE UNCHANGED <<rows, owners>>
    BY <1>7, <2>2 DEF PassInv, OwnersInv
  <2> QED
    BY <2>1, <2>2
<1>8. ASSUME NEW p \in Paths, NEW id \in owners'[p] PROVE id < nextId'
  <2>1. id \in RuleIds
    BY DEF TypeOK, TableType
  <2>2. CASE id \in owners[p]
    BY <1>1, <2>1, <2>2 DEF PassInv, OwnersInv
  <2>3. CASE rows'[id].path = p
    BY <1>6, <2>1, <2>3, NamesAssumption DEF NoRow
  <2> QED
    BY <1>2, <2>2, <2>3
<1> QED
  BY <1>4, <1>5, <1>7, <1>8 DEF PassInv, OwnersInv

LEMMA AdminPasses ==
  ASSUME OneAdministrator, TypeOK, TypeOK', PassInv, NEW a \in Admins,
         CreateRule(a) \/ ReadRule(a) \/ DeleteRule(a) \/ AdminStep(a) \/ Invalidate(a)
  PROVE  PassInv'
<1>1. /\ admin \in [Admins -> AdminHandler] /\ rows \in [RuleIds -> RuleRow \cup {NoRow}]
      /\ nextId \in Nat /\ \A b \in Admins : b = a
  BY BoundsAssumption DEF TypeOK, TableType, AdminType, OneAdministrator
<1>2. AdminIdle \in AdminHandler /\ AdminIdle.phase = "idle"
  BY IdleTypes DEF AdminIdle
<1>3. ASSUME NEW s, NEW op, NEW id, Committed(a, s, op, id)
      PROVE  \A b \in Admins : admin'[b].phase # "write"
  BY <1>1, <1>2, <1>3 DEF Committed, AdminHandler
<1>4. CASE CreateRule(a)
  <2>1. PICK s \in Servers, p \in Paths, secret \in Secrets :
          /\ rows' = [rows EXCEPT ![nextId] = Row(p, secret, TRUE, 1)] /\ Commit(rows')
          /\ Committed(a, s, "create", nextId)
    BY <1>4, CommitTable DEF CreateRule
  <2>2. nextId' = nextId + 1 /\ UNCHANGED <<passes, visitor>>
        /\ \A id \in RuleIds : id = nextId \/ rows'[id] = rows[id]
    BY <1>1, <1>4, <2>1 DEF CreateRule
  <2>3. \A b \in Admins : admin'[b].phase # "write"
    BY <1>3, <2>1
  <2>4. nextId <= nextId'
    BY <1>1, <2>2
  <2> QED
    BY <2>1, <2>2, <2>3, <2>4, ChangedPasses
<1>5. CASE ReadRule(a)
  <2>1. PICK op \in {"update", "secret"}, s \in Servers, id \in RuleIds :
          /\ MayStart(a, op) /\ rows[id] # NoRow
          /\ admin' = [admin EXCEPT ![a] = [AdminIdle EXCEPT !.phase = "write", !.at = s,
                         !.op = op, !.id = id, !.version = rows[id].version]]
    BY <1>5 DEF ReadRule
  <2>2. /\ \A b \in Admins : admin'[b].version = rows[admin'[b].id].version
    BY <1>1, <2>1 DEF AdminIdle
  <2>3. UNCHANGED <<rows, nextId, owners, passes, visitor>>
    BY <1>5 DEF ReadRule, db
  <2> QED
    BY <2>2, <2>3, QuietPasses
<1>6. CASE DeleteRule(a)
  <2>1. PICK s \in Servers, id \in RuleIds :
          /\ \/ UNCHANGED <<rows, owners>>
             \/ rows' = [rows EXCEPT ![id] = NoRow] /\ Commit(rows')
          /\ Committed(a, s, "delete", id)
    BY <1>6, CommitTable DEF DeleteRule
  <2>2. UNCHANGED <<nextId, passes, visitor>>
        /\ \A i \in RuleIds : rows'[i] = rows[i] \/ rows'[i] = NoRow
    BY <1>1, <1>6, <2>1 DEF DeleteRule
  <2>3. \A b \in Admins : admin'[b].phase # "write"
    BY <1>3, <2>1
  <2> QED
    BY <1>1, <2>1, <2>2, <2>3, ChangedPasses
<1>7. CASE WriteRule(a)
  <2> DEFINE id == admin[a].id
             version == NextVersion(admin[a].version)
  <2>1. admin[a].phase = "write" /\ id \in RuleIds /\ admin[a].version \in Nat
    BY <1>1, <1>7 DEF WriteRule, TypeOK, AdminType, AdminHandler
  <2>2. rows[id] # NoRow => /\ rows[id].version = admin[a].version /\ rows[id] \in RuleRow
                            /\ version > rows[id].version
    BY <1>1, <2>1 DEF PassInv, NextVersion
  <2>3. UNCHANGED <<nextId, passes, visitor>> /\ Committed(a, admin[a].at, admin[a].op, id)
    BY <1>7 DEF WriteRule
  <2>4. \A b \in Admins : admin'[b].phase # "write"
    BY <1>3, <2>3
  <2>5. CASE rows[id] = NoRow /\ UNCHANGED <<rows, owners>>
    BY <1>1, <2>3, <2>4, <2>5, ChangedPasses
  <2>6. ASSUME NEW secret \in Secrets, rows[id] # NoRow, Commit(rows'),
               rows' = [rows EXCEPT ![id].secret = secret, ![id].version = version]
        PROVE  PassInv'
    <3>1. PICK row \in RuleRow : row = rows[id]
      BY <2>2, <2>6
    <3>2. [[row EXCEPT !.secret = secret] EXCEPT !.version = version].version = version
      BY DEF RuleRow
    <3> HIDE DEF version
    <3>3. rows'[id].version = version
      BY <1>1, <2>1, <2>6, <3>1, <3>2
    <3>4. \A i \in RuleIds : i = id \/ rows'[i] = rows[i]
      BY <1>1, <2>6
    <3> QED
      BY <1>1, <2>2, <2>3, <2>4, <2>6, <3>3, <3>4, ChangedPasses
  <2>7. ASSUME NEW p \in Paths, NEW secret \in Secrets, NEW on \in BOOLEAN, rows[id] # NoRow,
               Commit(rows'), rows' = [rows EXCEPT ![id] = Row(p, secret, on, version)]
        PROVE  PassInv'
    <3>1. Row(p, secret, on, version).version = version
      BY DEF Row
    <3> HIDE DEF version
    <3>2. rows'[id].version = version
      BY <1>1, <2>1, <2>7, <3>1
    <3>3. \A i \in RuleIds : i = id \/ rows'[i] = rows[i]
      BY <1>1, <2>7
    <3> QED
      BY <1>1, <2>2, <2>3, <2>4, <2>7, <3>2, <3>3, ChangedPasses
  <2>8. \/ rows[id] = NoRow /\ UNCHANGED <<rows, owners>>
        \/ /\ rows[id] # NoRow
           /\ \E secret \in Secrets :
                Commit([rows EXCEPT ![id].secret = secret, ![id].version = version])
        \/ /\ rows[id] # NoRow
           /\ \E p \in Paths, secret \in Secrets, on \in BOOLEAN :
                Commit([rows EXCEPT ![id] = Row(p, secret, on, version)])
    BY <1>7 DEF WriteRule
  <2> HIDE DEF id, version
  <2> QED
    BY <2>5, <2>6, <2>7, <2>8, CommitTable
<1>8. CASE WriteFails(a) \/ BumpFails(a) \/ Reply(a) \/ Bump(a) \/ Invalidate(a)
  <2>1. UNCHANGED <<rows, nextId, owners, passes, visitor>>
    BY <1>8 DEF WriteFails, BumpFails, Reply, Bump, Invalidate, db
  <2>2. \A b \in Admins : admin'[b].phase # "write"
    BY <1>1, <1>2, <1>8 DEF WriteFails, BumpFails, Reply, Bump, Invalidate, AdminHandler
  <2> QED
    BY <2>1, <2>2, QuietPasses
<1> QED
  BY <1>4, <1>5, <1>6, <1>7, <1>8 DEF AdminStep

LEMMA VisitorPasses ==
  ASSUME TypeOK, PassInv, NEW r \in Visitors,
         BeginCheck(r) \/ SubmitRead(r) \/ VisitorStep(r) \/ Locked(r)
  PROVE  PassInv'
<1>1. /\ visitor \in [Visitors -> VisitorHandler]
      /\ VisitorIdle \in VisitorHandler /\ VisitorIdle.phase = "idle"
  BY IdleTypes DEF TypeOK, VisitorType, VisitorIdle
<1>2. UNCHANGED <<rows, nextId, owners, admin>>
  BY DEF BeginCheck, SubmitRead, VisitorStep, Locked, GetVersion, GetVersionFails, Hit, Load,
         LoadFails, Publish, CheckPasses, CheckFails, Finish, MarkPassed, MarkFails, db
<1>3. CASE SubmitRead(r)
  <2>1. PICK s \in Servers, t \in Tokens, id \in RuleIds :
          /\ rows[id] # NoRow
          /\ visitor' = [visitor EXCEPT ![r] = [VisitorIdle EXCEPT
               !.phase = "mark", !.at = s,
               !.pass = [token |-> t, path |-> rows[id].path, version |-> rows[id].version,
                         secret |-> rows[id].secret]]]
    BY <1>3, ZenonT(30) DEF SubmitRead
  <2> DEFINE pass == [token |-> t, path |-> rows[id].path, version |-> rows[id].version,
                      secret |-> rows[id].secret]
  <2>2. id \in owners[rows[id].path] /\ rows[id].version \in Nat
    BY <2>1, RulesCreated DEF PassInv, TypeOK, TableType, RuleRow
  <2>3. Entered(pass)
    BY <2>2 DEF Entered
  <2> HIDE DEF pass
  <2>4. visitor' = [visitor EXCEPT ![r] = [VisitorIdle EXCEPT !.phase = "mark", !.at = s, !.pass = pass]]
    BY <2>1 DEF pass
  <2>5. visitor'[r].pass = pass /\ \A q \in Visitors \ {r} : visitor'[q] = visitor[q]
    BY <1>1, <2>4 DEF VisitorIdle
  <2>6. passes' = passes
    BY <1>3 DEF SubmitRead
  <2> QED
    BY <1>2, <2>3, <2>5, <2>6, QuietPasses
<1>4. CASE MarkPassed(r)
  <2>1. /\ visitor[r].phase = "mark" /\ visitor' = [visitor EXCEPT ![r] = VisitorIdle]
        /\ \A pass \in passes' : pass \in passes \/ pass = visitor[r].pass
    BY <1>4 DEF MarkPassed, Answer
  <2>2. Entered(visitor[r].pass)
    BY <2>1 DEF PassInv
  <2>3. \A q \in Visitors : visitor'[q].phase = "mark" => visitor'[q] = visitor[q]
    BY <1>1, <2>1
  <2> QED
    BY <1>2, <2>1, <2>2, <2>3, QuietPasses
<1>5. CASE \/ BeginCheck(r) \/ GetVersion(r) \/ GetVersionFails(r) \/ LoadFails(r) \/ Publish(r)
           \/ CheckPasses(r) \/ CheckFails(r) \/ Finish(r) \/ MarkFails(r) \/ Hit(r) \/ Load(r)
  <2>1. passes' = passes
    BY <1>5 DEF BeginCheck, GetVersion, GetVersionFails, Hit, Load, LoadFails, Publish,
                CheckPasses, CheckFails, Finish, MarkFails
  <2>2. /\ \A q \in Visitors \ {r} : visitor'[q] = visitor[q]
        /\ visitor'[r].phase # "mark"
    <3>1. CASE BeginCheck(r)
      <4>1. PICK s \in Servers, t \in Tokens, p \in Paths :
              visitor' = [visitor EXCEPT ![r] = [VisitorIdle EXCEPT
                !.phase = "version", !.at = s, !.token = t, !.path = p,
                !.floor = acked, !.own = dropped[s]]]
        BY <3>1 DEF BeginCheck
      <4> DEFINE w == [VisitorIdle EXCEPT !.phase = "version", !.at = s, !.token = t,
                         !.path = p, !.floor = acked, !.own = dropped[s]]
      <4>2. w.phase = "version"
        BY DEF VisitorIdle
      <4> HIDE DEF w
      <4>3. visitor' = [visitor EXCEPT ![r] = w]
        BY <4>1 DEF w
      <4> QED
        BY <1>1, <4>2, <4>3
    <3>2. CASE GetVersion(r) \/ GetVersionFails(r) \/ Hit(r) \/ Load(r) \/ Publish(r)
      <4>1. PICK v \in VisitorHandler : v = visitor[r]
        BY <1>1
      <4>2. \A tag, rules : /\ [v EXCEPT !.phase = "snapshot", !.tag = tag].phase = "snapshot"
                            /\ [v EXCEPT !.phase = "passes", !.rules = rules].phase = "passes"
                            /\ [v EXCEPT !.phase = "publish", !.rules = rules].phase = "publish"
                            /\ [v EXCEPT !.phase = "passes"].phase = "passes"
        BY DEF VisitorHandler
      <4>3. CASE GetVersion(r)
        BY <1>1, <4>1, <4>2, <4>3 DEF GetVersion
      <4>4. CASE GetVersionFails(r)
        BY <1>1, <4>1, <4>2, <4>4 DEF GetVersionFails
      <4>5. CASE Hit(r)
        BY <1>1, <4>1, <4>2, <4>5 DEF Hit
      <4>6. CASE Load(r)
        BY <1>1, <4>1, <4>2, <4>6 DEF Load
      <4>7. CASE Publish(r)
        BY <1>1, <4>1, <4>2, <4>7 DEF Publish
      <4> QED
        BY <3>2, <4>3, <4>4, <4>5, <4>6, <4>7
    <3>3. CASE CheckPasses(r)
      BY <1>1, <3>3 DEF CheckPasses, VisitorHandler
    <3>4. CASE LoadFails(r) \/ CheckFails(r) \/ Finish(r) \/ MarkFails(r)
      BY <1>1, <3>4 DEF LoadFails, CheckFails, Finish, MarkFails, Answer
    <3> QED
      BY <1>5, <3>1, <3>2, <3>3, <3>4
  <2> QED
    BY <1>2, <2>1, <2>2, QuietPasses
<1> QED
  BY <1>3, <1>4, <1>5 DEF VisitorStep, Locked

\* On a path that has had one rule only, a pass that opens the directory was
\* given for its present secret: for any number of servers, visitors and rules,
\* and one administrator at a time.  Every change of a rule, a move to another
\* path included, gives it a version no pass of the path has (router.go:787,
\* 845).  Of a path that had two rules nothing is said: runs access_recreated
\* and access_lost_update show why both conditions are needed.
THEOREM PassesMatch == ASSUME OneAdministrator PROVE Spec => []PassesMatchRules
<1>1. Init => PassInv
  <2> SUFFICES ASSUME Init PROVE PassInv
    OBVIOUS
  <2>1. \A id \in RuleIds : rows[id] = NoRow
    BY DEF Init
  <2>2. passes = {} /\ (\A r \in Visitors : visitor[r].phase = "idle")
        /\ \A a \in Admins : admin[a].phase = "idle"
    BY DEF Init, VisitorIdle, AdminIdle
  <2>3. OwnersInv
    BY <2>1 DEF Init, OwnersInv
  <2> QED
    BY <2>1, <2>2, <2>3 DEF PassInv
<1>2. TypeOK /\ TypeOK' /\ PassInv /\ [Next]_vars => PassInv'
  <2> SUFFICES ASSUME TypeOK, TypeOK', PassInv, [Next]_vars PROVE PassInv'
    OBVIOUS
  <2>1. CASE \E a \in Admins : CreateRule(a) \/ ReadRule(a) \/ DeleteRule(a)
                               \/ AdminStep(a) \/ Invalidate(a)
    BY <2>1, AdminPasses
  <2>2. CASE \E r \in Visitors : BeginCheck(r) \/ SubmitRead(r) \/ VisitorStep(r) \/ Locked(r)
    BY <2>2, VisitorPasses
  <2>3. ASSUME NEW s \in Servers, IndexExpires(s) \/ Crash(s)
        PROVE  PassInv'
    <3>1. UNCHANGED <<rows, nextId, owners, passes>>
      BY <2>3 DEF IndexExpires, Crash, db
    <3>2. /\ \A r \in Visitors : visitor'[r].phase = "mark" => visitor'[r] = visitor[r]
          /\ \A a \in Admins : admin'[a].phase = "write" => admin'[a] = admin[a]
      BY <2>3 DEF IndexExpires, Crash, VisitorIdle, AdminIdle
    <3> QED
      BY <3>1, <3>2, QuietPasses
  <2>4. CASE PassExpires
    BY <2>4, QuietPasses DEF PassExpires, db
  <2>5. CASE UNCHANGED vars
    BY <2>5, QuietPasses DEF vars
  <2> QED
    BY <2>1, <2>2, <2>3, <2>4, <2>5 DEF Next, SubmitRejected
<1>3. PassInv => PassesMatchRules
  BY DEF PassInv, Entered, PassesMatchRules, Opens
<1> QED
  BY <1>1, <1>2, <1>3, TypeCorrect, PTL DEF Spec
=============================================================================
