----------------------- MODULE DirectoryAccessRefines -----------------------
(***************************************************************************)
(* DirectoryAccess implements the register of FreshReads: every step of    *)
(* its handlers is a step of the register, or none that a caller can see.  *)
(***************************************************************************)
EXTENDS DirectoryAccessProofs

Readers == [r \in Visitors |-> AbstractReader(r)]

\* A slot whose phase and floor mean the same to a caller is the same reader.
LEMMA Unseen ==
  ASSUME visitor' = visitor, acked' = acked, history' = history
  PROVE  UNCHANGED Register!vars
  BY DEF Register!vars, AbstractReader

\* A step that changes slot r alone, seen from outside.
LEMMA SeenReader ==
  ASSUME TypeOK, NEW r \in Visitors, NEW v, visitor' = [visitor EXCEPT ![r] = v]
  PROVE  /\ \A q \in Visitors : q # r => AbstractReader(q)' = AbstractReader(q)
         /\ visitor'[r] = v
  BY DEF TypeOK, VisitorType, AbstractReader

\* A slot that becomes idle is a reader that ends.
LEMMA EndStep ==
  ASSUME NEW ended \in SUBSET Visitors, history' = history, acked' = acked,
         \A r \in Visitors : IF r \in ended THEN visitor'[r] = VisitorIdle
                             ELSE visitor'[r] = visitor[r]
  PROVE  Register!End
<1>1. \A r \in ended : AbstractReader(r)' = Register!Idle
  BY DEF AbstractReader, VisitorIdle, Register!Idle
<1>2. \A r \in Visitors \ ended : AbstractReader(r)' = AbstractReader(r)
  BY DEF AbstractReader
<1>3. Readers' = [r \in Visitors |-> IF r \in ended THEN Register!Idle ELSE Readers[r]]
  BY <1>1, <1>2 DEF Readers
<1> QED
  BY <1>3 DEF Register!End, Readers

\* Administrators change the table and acknowledge changes.
LEMMA AdminRefines ==
  ASSUME TypeOK, FreshnessInv, NEW a \in Admins,
         CreateRule(a) \/ ReadRule(a) \/ DeleteRule(a) \/ AdminStep(a) \/ Invalidate(a)
  PROVE  [Register!Next]_Register!vars
<1>1. visitor' = visitor
  BY DEF CreateRule, ReadRule, DeleteRule, AdminStep, Invalidate, WriteRule, WriteFails, Bump,
         BumpFails, Reply
<1>2. CASE Reply(a)
  <2>1. admin[a].change \in 1 .. Cover(accessVersion) /\ Cover(accessVersion) \in 1 .. Len(history)
        /\ acked \in 1 .. Cover(accessVersion) /\ Len(history) \in Nat
    BY <1>2, CoverBound DEF Reply, FreshnessInv, AdminInv, CounterInv, TypeOK, TableType, RedisType,
                            AdminType, AdminHandler
  <2>2. history' = history /\ acked' \in acked .. Len(history)
    BY <1>2, <2>1 DEF Reply, db
  <2>3. Readers' = Readers
    BY <1>1 DEF Readers, AbstractReader
  <2> QED
    BY <2>2, <2>3 DEF Register!Next, Register!Acknowledge, Readers
<1>3. CASE ~Reply(a)
  <2>1. acked' = acked /\ (history' = history \/ Commit(rows'))
    BY <1>3, CommitTable
       DEF CreateRule, ReadRule, DeleteRule, AdminStep, Invalidate, WriteRule, WriteFails, Bump,
           BumpFails, db
  <2>2. CASE history' = history
    BY <1>1, <2>1, <2>2, Unseen
  <2>3. CASE Commit(rows')
    <3>1. rows' \in Table
      BY <1>3, AdminTypeStep DEF TypeOK, TableType, Table
    <3>2. history \in Seq(Rules) /\ Enforced(rows') \in Rules /\ history' = Append(history, Enforced(rows'))
      BY <2>3, <3>1, EnforcedType DEF TypeOK, TableType, Commit
    <3>3. history'[Len(history')] = Enforced(rows')
      BY <3>2
    <3>4. Register!Change
      BY <1>1, <2>1, <3>2, <3>3 DEF Register!Change, Register!Newest, AbstractReader
    <3> QED
      BY <3>4 DEF Register!Next
  <2> QED
    BY <2>1, <2>2, <2>3
<1> QED
  BY <1>2, <1>3

\* An idle slot is an idle reader.
LEMMA IdlePhase == VisitorIdle.phase = "idle"
  BY DEF VisitorIdle

\* A handler that goes from one phase to another as the same reader.
LEMMA SameReader ==
  ASSUME TypeOK, NEW r \in Visitors, NEW v, visitor' = [visitor EXCEPT ![r] = v],
         history' = history, acked' = acked, AbstractReader(r)' = AbstractReader(r)
  PROVE  UNCHANGED Register!vars
<1>1. \A q \in Visitors : AbstractReader(q)' = AbstractReader(q)
  BY SeenReader
<1>2. Readers' = Readers
  BY <1>1 DEF Readers
<1> QED
  BY <1>2 DEF Register!vars, Readers

\* Visitors' requests arrive, decide and end.
LEMMA VisitorRefines ==
  ASSUME TypeOK, FreshnessInv, NEW r \in Visitors,
         BeginCheck(r) \/ SubmitRead(r) \/ VisitorStep(r) \/ Locked(r)
  PROVE  [Register!Next]_Register!vars
<1>1. history' = history /\ acked' = acked
  BY DEF BeginCheck, SubmitRead, VisitorStep, Locked, GetVersion, GetVersionFails, LoadFails,
         Publish, CheckPasses, CheckFails, Finish, MarkPassed, MarkFails, Hit, Load, db
<1>2. visitor \in [Visitors -> VisitorHandler]
  BY DEF TypeOK, VisitorType
<1>3. CASE BeginCheck(r)
  <2>1. PICK s \in Servers, t \in Tokens, p \in Paths :
           visitor' = [visitor EXCEPT ![r] = [VisitorIdle EXCEPT
               !.phase = "version", !.at = s, !.token = t, !.path = p,
               !.floor = acked, !.own = dropped[s]]]
    BY <1>3 DEF BeginCheck
  <2>2. visitor'[r].phase = "version" /\ visitor'[r].floor = acked
    BY <1>2, <2>1 DEF VisitorIdle
  <2>3. AbstractReader(r)' = Register!Open(acked)
    BY <2>2 DEF AbstractReader, Register!Open
  <2>4. AbstractReader(r) = Register!Idle
    BY <1>3, IdlePhase DEF BeginCheck, AbstractReader, Register!Idle
  <2>5. Readers' = [Readers EXCEPT ![r] = Register!Open(acked)]
    BY <2>1, <2>3, SeenReader DEF Readers
  <2> QED
    BY <1>1, <2>4, <2>5 DEF Register!Next, Register!Begin, Readers
<1>4. CASE CheckPasses(r)
  <2>1. PICK phase \in {"granted", "denied"} :
           visitor' = [visitor EXCEPT ![r] = [visitor[r] EXCEPT !.phase = phase]]
    BY <1>2, <1>4 DEF CheckPasses
  <2> DEFINE floor == visitor[r].floor
             rules == visitor[r].rules
  <2>2. visitor'[r].phase = phase /\ visitor'[r].floor = floor /\ visitor'[r].rules = rules
        /\ visitor[r].phase = "passes"
    BY <1>2, <1>4, <2>1 DEF CheckPasses, VisitorHandler
  <2>3. AbstractReader(r)' = Register!Decided(floor, rules) /\ AbstractReader(r) = Register!Open(floor)
    BY <2>2 DEF AbstractReader, Register!Open, Register!Decided
  <2>4. PICK n \in floor .. Len(history) : rules = history[n]
    BY <2>2 DEF FreshnessInv, VisitorInv, RequestFresh, Since, Occurs
  <2>5. Readers' = [Readers EXCEPT ![r] = Register!Decided(floor, history[n])]
    BY <2>1, <2>3, <2>4, SeenReader DEF Readers
  <2>6. Readers[r].phase = "open" /\ Readers[r].floor = floor
    BY <2>3 DEF Readers, Register!Open
  <2>7. Register!Decide(r)
    BY <1>1, <2>4, <2>5, <2>6 DEF Register!Decide, Readers
  <2> QED
    BY <2>7 DEF Register!Next
<1>5. CASE LoadFails(r) \/ CheckFails(r) \/ Finish(r) \/ MarkPassed(r) \/ MarkFails(r)
  <2>1. visitor' = [visitor EXCEPT ![r] = VisitorIdle]
    BY <1>5 DEF LoadFails, CheckFails, Finish, MarkPassed, MarkFails, Answer
  <2>2. \A q \in Visitors : IF q \in {r} THEN visitor'[q] = VisitorIdle
                            ELSE visitor'[q] = visitor[q]
    BY <1>2, <2>1
  <2>3. Register!End
    BY <1>1, <2>2, EndStep
  <2> QED
    BY <2>3 DEF Register!Next
<1>6. CASE SubmitRead(r)
  <2>1. PICK v : visitor' = [visitor EXCEPT ![r] = v] /\ v.phase = "mark" /\ visitor[r].phase = "idle"
    <3>1. PICK s, pass : visitor' = [visitor EXCEPT ![r] = [VisitorIdle EXCEPT
               !.phase = "mark", !.at = s, !.pass = pass]]
      BY <1>6 DEF SubmitRead
    <3> DEFINE w == [VisitorIdle EXCEPT !.phase = "mark", !.at = s, !.pass = pass]
    <3>2. w.phase = "mark"
      BY DEF VisitorIdle
    <3>3. visitor[r].phase = "idle"
      BY <1>6, IdlePhase DEF SubmitRead
    <3> QED
      BY <3>1, <3>2, <3>3
  <2>2. AbstractReader(r)' = AbstractReader(r)
    BY <2>1, SeenReader DEF AbstractReader
  <2> QED
    BY <1>1, <2>1, <2>2, SameReader
<1>7. CASE GetVersion(r) \/ GetVersionFails(r) \/ Locked(r) \/ Publish(r)
  <2>1. /\ visitor' = [visitor EXCEPT ![r] = visitor'[r]]
        /\ visitor[r].phase \in {"version", "snapshot", "publish"}
        /\ visitor'[r].phase \in {"snapshot", "publish", "passes"}
        /\ visitor'[r].floor = visitor[r].floor
    <3>1. CASE GetVersion(r)
      BY <1>2, <3>1 DEF GetVersion, VisitorHandler
    <3>2. CASE GetVersionFails(r)
      BY <1>2, <3>2 DEF GetVersionFails, VisitorHandler
    <3>3. CASE Hit(r)
      BY <1>2, <3>3 DEF Hit, VisitorHandler
    <3>4. CASE Load(r)
      BY <1>2, <3>4 DEF Load, VisitorHandler
    <3>5. CASE Publish(r)
      BY <1>2, <3>5 DEF Publish, VisitorHandler
    <3> QED
      BY <1>7, <3>1, <3>2, <3>3, <3>4, <3>5 DEF Locked
  <2>2. AbstractReader(r)' = AbstractReader(r)
    BY <2>1 DEF AbstractReader
  <2> QED
    BY <1>1, <2>1, <2>2, SameReader
<1> QED
  BY <1>3, <1>4, <1>5, <1>6, <1>7 DEF VisitorStep

\* Every step of the system is one of the register's.
LEMMA StepRefines ==
  TypeOK /\ FreshnessInv /\ [Next]_vars => [Register!Next]_Register!vars
<1> SUFFICES ASSUME TypeOK, FreshnessInv, [Next]_vars PROVE [Register!Next]_Register!vars
  OBVIOUS
<1>1. CASE \E a \in Admins : CreateRule(a) \/ ReadRule(a) \/ DeleteRule(a)
                             \/ AdminStep(a) \/ Invalidate(a)
  BY <1>1, AdminRefines
<1>2. CASE \E r \in Visitors : BeginCheck(r) \/ SubmitRead(r) \/ VisitorStep(r) \/ Locked(r)
  BY <1>2, VisitorRefines
<1>3. ASSUME NEW s \in Servers, Crash(s) PROVE Register!Next
  <2> DEFINE ended == {r \in Visitors : visitor[r].at = s}
  <2>1. \A r \in Visitors : IF r \in ended THEN visitor'[r] = VisitorIdle
                            ELSE visitor'[r] = visitor[r]
    BY <1>3 DEF Crash
  <2>2. history' = history /\ acked' = acked
    BY <1>3 DEF Crash, db
  <2> HIDE DEF ended
  <2>3. ended \in SUBSET Visitors
    BY DEF ended
  <2> QED
    BY <2>1, <2>2, <2>3, EndStep DEF Register!Next
<1>4. CASE UNCHANGED vars \/ PassExpires \/ (\E s \in Servers : IndexExpires(s))
  <2>1. UNCHANGED <<visitor, history, acked>>
    BY <1>4 DEF vars, PassExpires, IndexExpires, db
  <2> QED
    BY <2>1, Unseen
<1> QED
  BY <1>1, <1>2, <1>3, <1>4 DEF Next, SubmitRejected

\* The cache of rules behaves like the register: what visitors and
\* administrators can tell about the freshness of answers is what FreshReads
\* allows, for any number of servers, handlers, losses and stops.
THEOREM RegisterImplemented == Spec => ImplementsRegister
<1>1. Init => Register!Init
  BY DEF Init, Register!Init, AbstractReader, VisitorIdle, Register!Idle
<1>2. Spec => Register!Spec
  BY <1>1, StepRefines, TypeCorrect, Freshness, PTL DEF Spec, Register!Spec
<1> QED
  BY <1>2 DEF ImplementsRegister
=============================================================================
