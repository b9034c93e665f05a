------------------------ MODULE AnnouncementsProofs ------------------------
(***************************************************************************)
(* Proofs about Announcements for every number of administrators, request  *)
(* slots, rows and changes.                                                *)
(***************************************************************************)
EXTENDS Announcements, TLAPS

Table(t) == DOMAIN t \subseteq RowIds /\ \A i \in DOMAIN t : t[i] \in [text: Texts, enabled: BOOLEAN]

\* The SELECT of the enabled rows yields a list of announcements.
LEMMA EnabledType == ASSUME NEW t, Table(t) PROVE Enabled(t) \in Lists
<1> SUFFICES ASSUME NEW i \in DOMAIN t PROVE [id |-> i, text |-> t[i].text] \in [id: RowIds, text: Texts]
  BY DEF Enabled, Lists
<1>1. i \in RowIds /\ t[i] \in [text: Texts, enabled: BOOLEAN]
  BY DEF Table
<1> QED
  BY <1>1

\* The table is a table.
LEMMA RowsType == TableType => Table(rows)
  BY BoundsAssumption DEF TableType, Table, RowIds

\* A statement that changes the table keeps it and its history well typed.
LEMMA CommitType ==
  ASSUME TableType, NEW t, Table(t), Commit(t)
  PROVE  /\ rows' = t /\ history' \in Seq(Lists) /\ history' # <<>>
         /\ Len(history') = Len(history) + 1 /\ Len(history) \in Nat \ {0}
         /\ history'[Len(history')] = Enabled(t)
         /\ \A k \in 1 .. Len(history) : history'[k] = history[k]
<1>1. Enabled(t) \in Lists
  BY EnabledType
<1> QED
  BY <1>1 DEF Commit, TableType

\* Handlers that do not run are well typed.
LEMMA IdleTypes == AdminIdle \in Handler /\ RequestIdle \in Request /\ LoaderIdle \in Loader
  BY DEF AdminIdle, RequestIdle, LoaderIdle, Handler, Request, Loader, Lists

\* The initial state is well typed.
LEMMA InitType == Init => TypeOK
<1> SUFFICES ASSUME Init PROVE TypeOK
  OBVIOUS
<1>1. TableType
  BY BoundsAssumption DEF Init, TableType, Lists
<1>2. RedisType
  <2>1. DOMAIN lists = {} /\ covers = <<>>
    BY DEF Init
  <2>2. <<>> \in Seq(Nat \ {0})
    OBVIOUS
  <2> QED
    BY <2>1, <2>2 DEF Init, RedisType
<1>3. HandlerType
  BY IdleTypes DEF Init, HandlerType
<1> QED
  BY <1>1, <1>2, <1>3 DEF TypeOK

\* The handler of an administrator goes on with a type.
LEMMA AdminGoesType ==
  ASSUME HandlerType, NEW a \in Admins, NEW op \in {"create", "update", "delete", "refresh"},
         NEW id \in Nat, NEW phase \in {"write", "bump", "reread", "drop"},
         NEW change \in Nat \ {0}, AdminGoes(a, op, id, phase, change), UNCHANGED handlers
  PROVE  HandlerType'
  BY DEF HandlerType, AdminGoes, Handler, handlers

\* It ends.
LEMMA AdminEndsType ==
  ASSUME HandlerType, NEW a \in Admins, AdminEnds(a), UNCHANGED handlers
  PROVE  HandlerType'
  BY IdleTypes DEF HandlerType, AdminEnds, handlers

\* The steps of administrators.
LEMMA AdminTypeStep ==
  ASSUME TypeOK, FilingInv, NEW a \in Admins
  PROVE  \/ CreateAnnouncement(a) \/ FindAnnouncement(a) \/ DeleteAnnouncement(a)
         \/ RefreshAnnouncementCache(a) \/ AdminStep(a) \/ AdminCrashes(a)
         => TypeOK'
<1> USE DEF TypeOK
<1>0. Len(history) \in Nat \ {0} /\ Table(rows)
  BY RowsType DEF TableType
<1>1. ASSUME UNCHANGED handlers, Acknowledge(a), UNCHANGED <<rows, nextId, history>>
      PROVE  HandlerType' /\ TableType'
  <2>1. HandlerType'
    BY <1>1, AdminEndsType DEF Acknowledge
  <2>2. admin[a].change \in Nat \ {0}
    BY DEF HandlerType, Handler
  <2>3. ~lost => admin[a].change <= Len(history)
    BY DEF FilingInv, CounterInv
  <2>4. acked' \in 1 .. Len(history)
    BY <1>0, <1>1, <2>2, <2>3 DEF Acknowledge, TableType
  <2> QED
    BY <1>1, <2>1, <2>4 DEF TableType
<1>2. CASE CreateAnnouncement(a)
  <2>1. PICK text \in Texts :
           Commit([i \in DOMAIN rows \cup {nextId} |->
                     IF i = nextId THEN Row(text, TRUE) ELSE rows[i]])
    BY <1>2 DEF CreateAnnouncement
  <2> DEFINE t == [i \in DOMAIN rows \cup {nextId} |->
                     IF i = nextId THEN Row(text, TRUE) ELSE rows[i]]
  <2>2. nextId \in RowIds /\ nextId' = nextId + 1 /\ DOMAIN rows \subseteq 1 .. nextId - 1
    BY <1>2 DEF CreateAnnouncement, TableType
  <2>3. \A i \in DOMAIN t : t[i] \in [text: Texts, enabled: BOOLEAN]
    BY DEF TableType, Row
  <2>4. Table(t)
    BY <1>0, <2>2, <2>3 DEF Table
  <2> HIDE DEF t
  <2>5. /\ rows' = t /\ history' \in Seq(Lists) /\ history' # <<>>
        /\ Len(history') = Len(history) + 1
    BY <2>1, <2>4, CommitType DEF t
  <2>6. DOMAIN t = DOMAIN rows \cup {nextId}
    BY DEF t
  <2>7. TableType'
    BY <1>0, <1>2, <2>2, <2>3, <2>5, <2>6, BoundsAssumption DEF CreateAnnouncement, TableType, RowIds
  <2>8. HandlerType'
    BY <1>0, <1>2, <2>5, AdminGoesType DEF CreateAnnouncement
  <2> QED
    BY <1>2, <2>7, <2>8 DEF CreateAnnouncement, RedisType, redis
<1>3. CASE FindAnnouncement(a)
  <2>1. HandlerType'
    BY <1>0, <1>3, AdminGoesType DEF FindAnnouncement, Table, RowIds
  <2> QED
    BY <1>3, <2>1 DEF FindAnnouncement, TableType, RedisType, db, redis
<1>4. CASE UpdateAnnouncement(a)
  <2> DEFINE id == admin[a].id
  <2>1. TableType' /\ Len(history') \in Nat \ {0}
    <3>1. CASE UNCHANGED <<rows, history>>
      BY <1>0, <1>4, <3>1 DEF UpdateAnnouncement, TableType
    <3>2. CASE ~UNCHANGED <<rows, history>>
      <4>1. PICK text \in Texts, on \in BOOLEAN :
               id \in DOMAIN rows /\ Commit([rows EXCEPT ![id] = Row(text, on)])
        BY <1>4, <3>2 DEF UpdateAnnouncement
      <4> DEFINE t == [rows EXCEPT ![id] = Row(text, on)]
      <4>2. DOMAIN t = DOMAIN rows /\ \A i \in DOMAIN t : t[i] \in [text: Texts, enabled: BOOLEAN]
        BY <4>1 DEF TableType, Row
      <4>3. Table(t)
        BY <1>0, <4>2 DEF Table
      <4> HIDE DEF t
      <4>4. /\ rows' = t /\ history' \in Seq(Lists) /\ history' # <<>>
            /\ Len(history') = Len(history) + 1
        BY <4>1, <4>3, CommitType DEF t
      <4> QED
        BY <1>0, <1>4, <4>2, <4>4 DEF UpdateAnnouncement, TableType
    <3> QED
      BY <3>1, <3>2
  <2>2. HandlerType'
    BY <1>4, <2>1, AdminGoesType DEF UpdateAnnouncement, HandlerType, Handler
  <2> QED
    BY <1>4, <2>1, <2>2 DEF UpdateAnnouncement, RedisType, redis
<1>5. CASE DeleteAnnouncement(a)
  <2>1. PICK id \in RowIds : /\ Commit(Restrict(rows, DOMAIN rows \ {id}))
                             /\ AdminGoes(a, "delete", 0, "bump", Len(history'))
    BY <1>5 DEF DeleteAnnouncement
  <2> DEFINE t == Restrict(rows, DOMAIN rows \ {id})
  <2>2. DOMAIN t \subseteq DOMAIN rows /\ \A i \in DOMAIN t : t[i] \in [text: Texts, enabled: BOOLEAN]
    BY DEF Restrict, TableType
  <2>3. Table(t)
    BY <1>0, <2>2 DEF Table
  <2> HIDE DEF t
  <2>4. /\ rows' = t /\ history' \in Seq(Lists) /\ history' # <<>>
        /\ Len(history') = Len(history) + 1
    BY <2>1, <2>3, CommitType DEF t
  <2>5. TableType'
    BY <1>0, <1>5, <2>2, <2>4 DEF DeleteAnnouncement, TableType
  <2>6. HandlerType'
    BY <1>0, <1>5, <2>1, <2>4, AdminGoesType DEF DeleteAnnouncement
  <2> QED
    BY <1>5, <2>5, <2>6 DEF DeleteAnnouncement, RedisType, redis
<1>6. CASE RefreshAnnouncementCache(a)
  <2>1. HandlerType'
    BY <1>0, <1>6, AdminGoesType DEF RefreshAnnouncementCache
  <2> QED
    BY <1>6, <2>1 DEF RefreshAnnouncementCache, TableType, RedisType, db, redis
<1>7. CASE InvalidateAnnouncements(a)
  <2>1. UNCHANGED <<db, lists, lost, handlers>>
    BY <1>7 DEF InvalidateAnnouncements
  <2>2. RedisType'
    <3>1. Increment => version' \in Nat /\ covers' \in Seq(Nat \ {0})
      BY <1>0 DEF Increment, RedisType
    <3>2. version' \in Nat /\ covers' \in Seq(Nat \ {0})
      BY <1>7, <3>1 DEF InvalidateAnnouncements, RedisType
    <3> QED
      BY <2>1, <3>2 DEF RedisType
  <2>3. CASE Acknowledge(a)
    BY <1>1, <2>1, <2>2, <2>3 DEF db
  <2>4. CASE ~Acknowledge(a)
    <3>1. acked' = acked
      BY <1>7, <2>4 DEF InvalidateAnnouncements
    <3>2. TableType'
      BY <2>1, <3>1 DEF TableType, db
    <3>3. HandlerType'
      <4>1. \/ AdminEnds(a)
            \/ \E phase \in {"reread", "drop"} : admin' = [admin EXCEPT ![a].phase = phase]
        BY <1>7, <2>4 DEF InvalidateAnnouncements
      <4>2. CASE AdminEnds(a)
        BY <2>1, <4>2, AdminEndsType
      <4>3. ASSUME NEW phase \in {"reread", "drop"}, admin' = [admin EXCEPT ![a].phase = phase]
            PROVE  HandlerType'
        BY <2>1, <4>3 DEF HandlerType, Handler, handlers
      <4> QED
        BY <4>1, <4>2, <4>3
    <3> QED
      BY <2>2, <3>2, <3>3
  <2> QED
    BY <2>3, <2>4
<1>8. CASE RereadAnnouncement(a)
  <2>1. RedisType' /\ UNCHANGED <<rows, nextId, history, handlers>>
    BY <1>8 DEF RereadAnnouncement, RedisType, redis, db
  <2>2. CASE Acknowledge(a)
    BY <1>1, <2>1, <2>2
  <2>3. CASE AdminEnds(a) /\ UNCHANGED acked
    BY <2>1, <2>3, AdminEndsType DEF TableType
  <2> QED
    BY <1>8, <2>2, <2>3 DEF RereadAnnouncement
<1>9. CASE DropLists(a)
  <2>1. UNCHANGED <<db, version, covers, lost, handlers>>
    BY <1>9 DEF DropLists
  <2>2. DOMAIN lists' \subseteq Nat /\ \A n \in DOMAIN lists' : lists'[n] \in Lists
    <3>1. CASE lists' = <<>>
      BY <3>1
    <3>2. ASSUME NEW kept \in SUBSET DOMAIN lists, lists' = Restrict(lists, kept)
          PROVE  DOMAIN lists' \subseteq Nat /\ \A n \in DOMAIN lists' : lists'[n] \in Lists
      BY <3>2 DEF Restrict, RedisType
    <3> QED
      BY <1>9, <3>1, <3>2 DEF DropLists
  <2>3. RedisType'
    BY <2>1, <2>2 DEF RedisType
  <2>4. CASE Acknowledge(a)
    BY <1>1, <2>1, <2>3, <2>4 DEF db
  <2>5. CASE AdminEnds(a) /\ UNCHANGED acked
    BY <2>1, <2>3, <2>5, AdminEndsType DEF TableType, db
  <2> QED
    BY <1>9, <2>4, <2>5 DEF DropLists
<1>10. CASE AdminCrashes(a)
  BY <1>10, AdminEndsType DEF AdminCrashes, TableType, RedisType, db, redis
<1> QED
  BY <1>2, <1>3, <1>4, <1>5, <1>6, <1>7, <1>8, <1>9, <1>10 DEF AdminStep

\* The goroutine of a request goes on with a type, or ends.
LEMMA LoaderGoesType ==
  ASSUME HandlerType, NEW r \in Requests, NEW list \in Lists,
         NEW phase \in {"select", "store", "sent", "failed"},
         LoaderGoes(r, phase, list) \/ Send(r, phase, list), UNCHANGED <<admin, request>>
  PROVE  HandlerType'
<1>1. LoaderGoes(r, phase, list) \/ LoaderEnds(r)
  BY DEF Send
<1>2. LoaderEnds(r) => HandlerType'
  BY IdleTypes DEF HandlerType, LoaderEnds
<1>3. LoaderGoes(r, phase, list) => HandlerType'
  <2>1. PICK g \in Loader : g = loader[r]
    BY DEF HandlerType
  <2> DEFINE h == [g EXCEPT !.phase = phase, !.list = list]
  <2>2. h \in Loader
    BY DEF Loader
  <2> HIDE DEF h
  <2>3. LoaderGoes(r, phase, list) => loader' = [loader EXCEPT ![r] = h]
    BY <2>1 DEF LoaderGoes, h
  <2> QED
    BY <2>2, <2>3 DEF HandlerType
<1> QED
  BY <1>1, <1>2, <1>3

\* The steps of requests and their goroutines.
LEMMA RequestTypeStep ==
  ASSUME TypeOK, NEW r \in Requests
  PROVE  BeginRequest(r) \/ RequestStep(r) \/ LoaderStep(r) => TypeOK'
<1> USE DEF TypeOK
<1>0. /\ acked \in Nat \ {0} /\ Enabled(rows) \in Lists /\ {} \in Lists
      /\ loader[r] \in Loader /\ request[r] \in Request
  BY RowsType, EnabledType DEF TableType, HandlerType, Lists
<1>1. CASE BeginRequest(r)
  BY <1>0, <1>1, IdleTypes DEF BeginRequest, HandlerType, TableType, RedisType, db, redis,
     Request, Loader, RequestIdle, LoaderIdle
<1>2. CASE ReturnEarly(r) \/ Receive(r) \/ EndRequest(r)
  <2>1. UNCHANGED <<db, redis, admin, acked>>
    BY <1>2 DEF ReturnEarly, Receive, EndRequest
  <2>2. UNCHANGED loader \/ LoaderEnds(r)
    BY <1>2 DEF ReturnEarly, Receive, EndRequest
  <2>3. loader' \in [Requests -> Loader]
    BY <2>2, IdleTypes DEF LoaderEnds, HandlerType
  <2>4. request' \in [Requests -> Request]
    <3>1. RequestEnds(r) => request' \in [Requests -> Request]
      BY IdleTypes DEF RequestEnds, HandlerType
    <3>2. request' = [request EXCEPT ![r].phase = "answered", ![r].list = loader[r].list]
          => request' \in [Requests -> Request]
      <4>1. loader[r].list \in Lists
        BY <1>0 DEF Loader
      <4>2. [request[r] EXCEPT !.phase = "answered", !.list = loader[r].list] \in Request
        BY <1>0, <4>1 DEF Request
      <4> QED
        BY <4>2 DEF HandlerType
    <3> QED
      BY <1>2, <3>1, <3>2 DEF ReturnEarly, Receive, EndRequest
  <2> QED
    BY <2>1, <2>3, <2>4 DEF TableType, RedisType, HandlerType, db, redis
<1>3. CASE ReadVersion(r)
  <2>1. HandlerType'
    <3>1. CASE loader' = [loader EXCEPT ![r] =
                            [phase |-> "cache", version |-> version, cached |-> TRUE, list |-> {}]]
      BY <1>0, <1>3, <3>1 DEF ReadVersion, HandlerType, Loader, RedisType
    <3> QED
      BY <1>0, <1>3, <3>1, LoaderGoesType DEF ReadVersion
  <2> QED
    BY <1>3, <2>1 DEF ReadVersion, TableType, RedisType, db, redis
<1>4. CASE ReadList(r)
  <2>1. HandlerType'
    <3>1. CASE loader' = [loader EXCEPT ![r] = [LoaderIdle EXCEPT !.phase = "select"]]
      BY <1>0, <1>4, <3>1 DEF ReadList, HandlerType, Loader, LoaderIdle
    <3> QED
      BY <1>0, <1>4, <3>1, LoaderGoesType DEF ReadList, RedisType
  <2> QED
    BY <1>4, <2>1 DEF ReadList, TableType, RedisType, db, redis
<1>5. CASE SelectEnabled(r)
  <2>1. HandlerType'
    BY <1>0, <1>5, LoaderGoesType DEF SelectEnabled
  <2> QED
    BY <1>5, <2>1 DEF SelectEnabled, TableType, RedisType, db, redis
<1>6. CASE StoreList(r)
  <2>1. loader[r].list \in Lists /\ loader[r].version \in Nat
    BY <1>0 DEF Loader
  <2>2. HandlerType'
    BY <1>6, <2>1, LoaderGoesType DEF StoreList
  <2>3. DOMAIN lists' \subseteq Nat /\ \A n \in DOMAIN lists' : lists'[n] \in Lists
    BY <1>6, <2>1 DEF StoreList, RedisType, ListKey
  <2> QED
    BY <1>6, <2>2, <2>3 DEF StoreList, TableType, RedisType, db
<1> QED
  BY <1>1, <1>2, <1>3, <1>4, <1>5, <1>6 DEF RequestStep, LoaderStep

\* Every step keeps the types, given what is known of the positions in history.
LEMMA TypeStep == TypeOK /\ FilingInv /\ [Next]_vars => TypeOK'
<1> SUFFICES ASSUME TypeOK, FilingInv, [Next]_vars PROVE TypeOK'
  OBVIOUS
<1>1. ASSUME NEW n, ListExpires(n) PROVE TypeOK'
  BY <1>1 DEF ListExpires, Restrict, TypeOK, TableType, RedisType, HandlerType, db, handlers
<1>2. CASE RedisLosesData
  <2>1. DOMAIN lists' = {} /\ covers' \in Seq(Nat \ {0})
    BY <1>2 DEF RedisLosesData
  <2> QED
    BY <1>2, <2>1 DEF RedisLosesData, TypeOK, TableType, RedisType, HandlerType, db, handlers
<1>3. CASE UNCHANGED vars
  BY <1>3 DEF vars, TypeOK, TableType, RedisType, HandlerType
<1> QED
  BY <1>1, <1>2, <1>3, AdminTypeStep, RequestTypeStep DEF Next

-----------------------------------------------------------------------------
(* The lists in Redis.                                                      *)

\* Versions vouch for positions of history.
LEMMA CoverBound ==
  ASSUME TypeOK, CounterInv
  PROVE  /\ \A n \in 0 .. version : Cover(n) \in 1 .. Len(history)
         /\ \A n, m \in 0 .. version : n <= m => Cover(n) <= Cover(m)
  BY DEF TypeOK, TableType, RedisType, CounterInv, Cover

\* The history of the table before a step is the beginning of that after it.
HistoryKept == /\ Len(history) <= Len(history')
               /\ \A k \in 1 .. Len(history) : history'[k] = history[k]

\* A list that was the table's once stays one when the table changes.
LEMMA SinceStays ==
  ASSUME TypeOK, TypeOK', HistoryKept
  PROVE  \A list : \A n \in Nat \ {0} : Since(list, n) => Since(list, n)'
  BY DEF Since, HistoryKept, TypeOK, TableType

\* What was filed and what the goroutines of requests hold stays right when the
\* table changes, the counter is incremented and changes are acknowledged.
LEMMA FiledStays ==
  ASSUME TypeOK, TypeOK', CounterInv, ListsInv, \A r \in Requests : LoaderFresh(request[r], loader[r]),
         HistoryKept, version <= version', \A n \in 0 .. version : Cover(n)' = Cover(n),
         acked <= acked', UNCHANGED handlers,
         DOMAIN lists' \subseteq DOMAIN lists, \A n \in DOMAIN lists' : lists'[n] = lists[n]
  PROVE  ListsInv' /\ \A r \in Requests : LoaderFresh(request[r], loader[r])'
<1>0. /\ \A n \in 0 .. version : Cover(n) \in Nat \ {0}
      /\ DOMAIN lists \subseteq Nat /\ version \in Nat /\ version' \in Nat
      /\ acked \in Nat \ {0} /\ acked' \in Nat
  BY CoverBound DEF TypeOK, RedisType, TableType
<1>1. ListsInv'
  <2> SUFFICES ASSUME NEW n \in DOMAIN lists' PROVE (n <= version /\ Since(lists[n], Cover(n)))'
    BY DEF ListsInv
  <2>1. n \in 0 .. version /\ Since(lists[n], Cover(n))
    BY <1>0 DEF ListsInv
  <2>2. Since(lists[n], Cover(n))'
    <3>1. Cover(n)' = Cover(n) /\ lists'[n] = lists[n] /\ Cover(n) \in Nat \ {0}
      BY <1>0, <2>1
    <3> QED
      BY <2>1, <3>1, SinceStays, ZenonT(30) DEF Since
  <2> QED
    BY <1>0, <2>1, <2>2
<1>2. ASSUME NEW r \in Requests PROVE LoaderFresh(request[r], loader[r])'
  <2>1. PICK q \in Request, g \in Loader : /\ q = request[r] /\ q = request'[r]
                                           /\ g = loader[r] /\ g = loader'[r]
                                           /\ LoaderFresh(q, g)
    BY DEF handlers, TypeOK, HandlerType
  <2>2. g.version \in Nat /\ q.floor \in Nat \ {0}
    BY DEF Request, Loader
  <2>3. ASSUME g.phase \in {"cache", "select", "store"}, g.cached
        PROVE  /\ g.version \in 0 .. version /\ g.version <= version' /\ Cover(g.version)' = Cover(g.version)
               /\ q.phase # "idle" => q.floor <= Cover(g.version)'
    BY <1>0, <2>1, <2>2, <2>3 DEF LoaderFresh
  <2>4. ASSUME g.phase = "store" PROVE g.cached /\ Since(g.list, Cover(g.version))'
    <3>1. g.cached /\ Since(g.list, Cover(g.version))
      BY <2>1, <2>4 DEF LoaderFresh
    <3>2. Cover(g.version) \in Nat \ {0} /\ Cover(g.version)' = Cover(g.version)
      BY <1>0, <2>3, <2>4, <3>1
    <3> QED
      BY <3>1, <3>2, SinceStays, SMTT(30) DEF Since
  <2>5. ASSUME g.phase = "sent", q.phase # "idle" PROVE Since(g.list, q.floor)'
    BY <2>1, <2>2, <2>5, SinceStays DEF LoaderFresh, Since
  <2>6. LoaderFresh(q, g)'
    BY <1>0, <2>1, <2>2, <2>3, <2>4, <2>5 DEF LoaderFresh
  <2> QED
    BY <2>1, <2>6 DEF LoaderFresh, Since
<1> QED
  BY <1>1, <1>2

AdminAction(a) == \/ CreateAnnouncement(a) \/ FindAnnouncement(a) \/ DeleteAnnouncement(a)
                  \/ RefreshAnnouncementCache(a) \/ AdminStep(a) \/ AdminCrashes(a)

\* What an administrator's step may do to the table and to the counter.
LEMMA TableStep ==
  ASSUME TypeOK, TypeOK', CounterInv, NEW a \in Admins, AdminAction(a)
  PROVE  /\ HistoryKept /\ history'[Len(history')] = Enabled(rows')
         /\ \/ UNCHANGED <<version, covers>>
            \/ UNCHANGED history /\ Increment
         /\ UNCHANGED <<handlers, lost>>
         /\ DOMAIN lists' \subseteq DOMAIN lists /\ \A n \in DOMAIN lists' : lists'[n] = lists[n]
<1>1. UNCHANGED <<handlers, lost>>
  BY DEF AdminAction, CreateAnnouncement, FindAnnouncement, DeleteAnnouncement, RefreshAnnouncementCache,
         AdminStep, AdminCrashes, UpdateAnnouncement, InvalidateAnnouncements, RereadAnnouncement,
         DropLists, redis
<1>2. UNCHANGED <<rows, history>> \/ history' = Append(history, Enabled(rows'))
  BY DEF AdminAction, CreateAnnouncement, FindAnnouncement, DeleteAnnouncement, RefreshAnnouncementCache,
         AdminStep, AdminCrashes, UpdateAnnouncement, InvalidateAnnouncements, RereadAnnouncement,
         DropLists, db, Commit
<1>3. HistoryKept /\ history'[Len(history')] = Enabled(rows')
  <2>1. CASE UNCHANGED <<rows, history>>
    BY <2>1 DEF HistoryKept, CounterInv, Enabled, TypeOK, TableType
  <2>2. CASE history' = Append(history, Enabled(rows'))
    <3>1. Table(rows')
      BY BoundsAssumption DEF TypeOK, TableType, Table, RowIds
    <3>2. Enabled(rows') \in Lists
      BY <3>1, EnabledType
    <3> QED
      BY <2>2, <3>2 DEF HistoryKept, TypeOK, TableType
  <2> QED
    BY <1>2, <2>1, <2>2
<1>4. UNCHANGED <<version, covers>> \/ (UNCHANGED history /\ Increment)
  BY DEF AdminAction, CreateAnnouncement, FindAnnouncement, DeleteAnnouncement, RefreshAnnouncementCache,
         AdminStep, AdminCrashes, UpdateAnnouncement, InvalidateAnnouncements, RereadAnnouncement,
         DropLists, redis, db
<1>5. DOMAIN lists' \subseteq DOMAIN lists /\ \A n \in DOMAIN lists' : lists'[n] = lists[n]
  <2>1. CASE DropLists(a)
    <3>1. lists' = <<>> \/ \E kept \in SUBSET DOMAIN lists : lists' = Restrict(lists, kept)
      BY <2>1 DEF DropLists
    <3>2. CASE lists' = <<>>
      <4>1. DOMAIN lists' = {}
        BY <3>2
      <4> QED
        BY <4>1
    <3>3. ASSUME NEW kept \in SUBSET DOMAIN lists, lists' = Restrict(lists, kept)
          PROVE  DOMAIN lists' \subseteq DOMAIN lists /\ \A n \in DOMAIN lists' : lists'[n] = lists[n]
      BY <3>3 DEF Restrict
    <3> QED
      BY <3>1, <3>2, <3>3
  <2>2. CASE ~DropLists(a)
    <3>1. UNCHANGED lists
      BY <2>2 DEF AdminAction, CreateAnnouncement, FindAnnouncement, DeleteAnnouncement,
         RefreshAnnouncementCache, AdminStep, AdminCrashes, UpdateAnnouncement,
         InvalidateAnnouncements, RereadAnnouncement, redis
    <3> QED
      BY <3>1
  <2> QED
    BY <2>1, <2>2
<1> QED
  BY <1>1, <1>3, <1>4, <1>5

\* Versions keep what they vouch for, and a new one vouches for all there is.
LEMMA CoverStep ==
  ASSUME TypeOK, TypeOK', CounterInv, HistoryKept,
         UNCHANGED <<version, covers>> \/ (~lost /\ UNCHANGED history /\ Increment)
  PROVE  /\ version <= version' /\ \A n \in 0 .. version : Cover(n)' = Cover(n)
         /\ Len(covers') = version' /\ \A n \in 1 .. version' : covers'[n] \in 1 .. Len(history')
         /\ \A n, m \in 1 .. version' : n <= m => covers'[n] <= covers'[m]
         /\ Cover(version) <= Cover(version)'
         /\ version' # version => Cover(version)' = Len(history)
<1>0. /\ covers \in Seq(Nat \ {0}) /\ version \in Nat /\ Len(covers) = version
      /\ Len(history) \in Nat \ {0} /\ Len(history') \in Nat \ {0} /\ Len(history) <= Len(history')
      /\ \A n \in 1 .. version : covers[n] \in 1 .. Len(history)
      /\ \A n, m \in 1 .. version : n <= m => covers[n] <= covers[m]
  BY DEF TypeOK, RedisType, TableType, CounterInv, HistoryKept
<1>1. CASE UNCHANGED <<version, covers>>
  BY <1>0, <1>1 DEF Cover
<1>2. CASE ~lost /\ UNCHANGED history /\ Increment
  <2>1. /\ version' = version + 1 /\ Len(covers') = version'
        /\ \A n \in 1 .. version : covers'[n] = covers[n]
        /\ covers'[version'] = Len(history)
    BY <1>0, <1>2 DEF Increment
  <2>2. \A n \in 1 .. version' : n \in 1 .. version \/ n = version'
    BY <1>0, <2>1
  <2>3. /\ \A n \in 1 .. version' : covers'[n] \in 1 .. Len(history')
        /\ \A n, m \in 1 .. version' : n <= m => covers'[n] <= covers'[m]
    BY <1>0, <1>2, <2>1, <2>2
  <2>4. \A n \in 0 .. version : Cover(n)' = Cover(n)
    BY <1>0, <2>1 DEF Cover
  <2>5. Cover(version)' = Len(history) /\ Cover(version) <= Len(history)
    BY <1>0, <2>1 DEF Cover
  <2> QED
    BY <1>0, <2>1, <2>3, <2>4, <2>5
<1> QED
  BY <1>1, <1>2

\* The steps of administrators.
LEMMA AdminFilingStep ==
  ASSUME TypeOK, TypeOK', FilingInv, NEW a \in Admins, AdminAction(a)
  PROVE  FilingInv'
<1>0. UNCHANGED lost
  BY DEF AdminAction, CreateAnnouncement, FindAnnouncement, DeleteAnnouncement, RefreshAnnouncementCache,
         AdminStep, AdminCrashes, UpdateAnnouncement, InvalidateAnnouncements, RereadAnnouncement,
         DropLists, redis
<1> SUFFICES ASSUME ~lost PROVE FilingInv'
  BY <1>0 DEF FilingInv
<1>1. CounterInv /\ ListsInv /\ \A r \in Requests : LoaderFresh(request[r], loader[r])
  BY DEF FilingInv
<1>2. /\ HistoryKept /\ history'[Len(history')] = Enabled(rows')
      /\ UNCHANGED <<version, covers>> \/ (~lost /\ UNCHANGED history /\ Increment)
      /\ UNCHANGED handlers
      /\ DOMAIN lists' \subseteq DOMAIN lists /\ \A n \in DOMAIN lists' : lists'[n] = lists[n]
  BY <1>1, TableStep
<1>3. /\ version <= version' /\ \A n \in 0 .. version : Cover(n)' = Cover(n)
      /\ Len(covers') = version' /\ \A n \in 1 .. version' : covers'[n] \in 1 .. Len(history')
      /\ \A n, m \in 1 .. version' : n <= m => covers'[n] <= covers'[m]
      /\ Cover(version) <= Cover(version)'
      /\ version' # version => Cover(version)' = Len(history)
  BY <1>1, <1>2, CoverStep
<1>4. PICK c \in Nat, d \in Nat : c = Cover(version) /\ d = Cover(version)'
  <2>1. Cover(version) \in Nat
    BY <1>1, CoverBound DEF TypeOK, RedisType
  <2>2. Cover(version)' \in Nat
    BY <1>3 DEF Cover, TypeOK, RedisType
  <2> QED
    BY <2>1, <2>2
<1>5. /\ admin \in [Admins -> Handler] /\ admin' \in [Admins -> Handler]
      /\ Len(history) \in Nat \ {0} /\ Len(history') \in Nat /\ Len(history) <= Len(history')
      /\ acked \in Nat /\ acked <= c /\ c <= d
      /\ \A b \in Admins : /\ admin[b].change \in Nat /\ admin[b].change <= Len(history)
                           /\ admin[b].phase \in {"reread", "drop"} => admin[b].change <= c
  BY <1>1, <1>2, <1>3, <1>4, SMTT(30) DEF TypeOK, HandlerType, Handler, TableType, CounterInv, HistoryKept
<1>6. /\ acked <= acked' /\ acked' <= d
      /\ admin'[a].change <= Len(history')
      /\ admin'[a].phase \in {"reread", "drop"} => admin'[a].change <= d
      /\ \A b \in Admins \ {a} : admin'[b] = admin[b]
  <2> DEFINE Goal == /\ acked <= acked' /\ acked' <= d
                     /\ admin'[a].change <= Len(history')
                     /\ admin'[a].phase \in {"reread", "drop"} => admin'[a].change <= d
                     /\ \A b \in Admins \ {a} : admin'[b] = admin[b]
  <2>1. admin[a].change \in Nat
    BY <1>5
  <2>2. ASSUME AdminEnds(a), UNCHANGED acked PROVE Goal
    BY <1>5, <2>2 DEF AdminEnds, AdminIdle
  <2>3. ASSUME Acknowledge(a), admin[a].change <= d PROVE Goal
    BY <1>5, <2>1, <2>3 DEF Acknowledge, AdminEnds, AdminIdle
  <2>4. ASSUME NEW op, NEW id, NEW phase \in {"write", "bump"}, NEW change \in {1, Len(history), Len(history')},
               AdminGoes(a, op, id, phase, change), UNCHANGED acked
        PROVE  Goal
    BY <1>5, <2>4 DEF AdminGoes
  <2>5. CASE CreateAnnouncement(a) \/ FindAnnouncement(a) \/ DeleteAnnouncement(a)
             \/ RefreshAnnouncementCache(a) \/ UpdateAnnouncement(a)
    BY <2>4, <2>5 DEF CreateAnnouncement, FindAnnouncement, DeleteAnnouncement,
       RefreshAnnouncementCache, UpdateAnnouncement
  <2>6. CASE InvalidateAnnouncements(a)
    <3>1. UNCHANGED history
      BY <2>6 DEF InvalidateAnnouncements, db
    <3>2. CASE AdminEnds(a) /\ UNCHANGED acked
      BY <2>2, <3>2
    <3>3. CASE Increment /\ ~(AdminEnds(a) /\ UNCHANGED acked)
      <4>1. version' # version
        BY <3>3 DEF Increment, TypeOK, RedisType
      <4>2. d = Len(history)
        BY <1>3, <1>4, <4>1
      <4>3. CASE Acknowledge(a)
        BY <1>5, <2>3, <4>2, <4>3
      <4>4. CASE ~Acknowledge(a)
        <5>1. \E phase \in {"reread", "drop"} : admin' = [admin EXCEPT ![a].phase = phase]
              /\ UNCHANGED acked
          BY <2>6, <3>3, <4>4 DEF InvalidateAnnouncements
        <5> QED
          BY <1>5, <2>1, <3>1, <4>2, <5>1 DEF Handler
      <4> QED
        BY <4>3, <4>4
    <3> QED
      BY <2>6, <3>2, <3>3 DEF InvalidateAnnouncements
  <2>7. CASE RereadAnnouncement(a) \/ DropLists(a)
    <3>1. admin[a].change <= d
      BY <1>5, <2>1, <2>7 DEF RereadAnnouncement, DropLists
    <3> QED
      BY <2>2, <2>3, <2>7, <3>1 DEF RereadAnnouncement, DropLists
  <2>8. CASE AdminCrashes(a)
    BY <2>2, <2>8 DEF AdminCrashes
  <2> QED
    BY <2>5, <2>6, <2>7, <2>8 DEF AdminAction, AdminStep
<1>7. \A b \in Admins : /\ admin'[b].change <= Len(history')
                        /\ admin'[b].phase \in {"reread", "drop"} => admin'[b].change <= d
  <2> TAKE b \in Admins
  <2>1. CASE b = a
    BY <1>6, <2>1
  <2>2. CASE b # a
    BY <1>5, <1>6, <2>2
  <2> QED
    BY <2>1, <2>2
<1>8. CounterInv'
  BY <1>2, <1>3, <1>4, <1>6, <1>7 DEF CounterInv, Cover
<1>9. ListsInv' /\ \A r \in Requests : LoaderFresh(request[r], loader[r])'
  BY <1>1, <1>2, <1>3, <1>6, FiledStays
<1> QED
  BY <1>8, <1>9 DEF FilingInv

\* The steps of requests and their goroutines.
LEMMA RequestFilingStep ==
  ASSUME TypeOK, TypeOK', FilingInv, NEW r \in Requests,
         BeginRequest(r) \/ RequestStep(r) \/ LoaderStep(r)
  PROVE  FilingInv'
<1>0. UNCHANGED <<db, version, covers, lost, admin, acked>>
  BY DEF BeginRequest, RequestStep, LoaderStep, ReturnEarly, Receive, EndRequest, ReadVersion,
         ReadList, SelectEnabled, StoreList, redis
<1> SUFFICES ASSUME ~lost PROVE FilingInv'
  BY <1>0 DEF FilingInv
<1>1. CounterInv /\ ListsInv /\ \A q \in Requests : LoaderFresh(request[q], loader[q])
  BY DEF FilingInv
<1>2. CounterInv'
  BY <1>0, <1>1 DEF CounterInv, db, Cover, Enabled
<1>3. /\ \A n : Cover(n)' = Cover(n)
      /\ \A list, n : Since(list, n)' <=> Since(list, n)
  BY <1>0 DEF Cover, Since, db
<1>4. /\ \A n \in 0 .. version : Cover(n) \in Nat \ {0} /\ Cover(n) <= Len(history) /\ Cover(n) <= Cover(version)
      /\ version \in Nat /\ acked \in Nat /\ acked <= Cover(version) /\ acked <= Len(history)
      /\ Len(history) \in Nat \ {0} /\ Since(Enabled(rows), Len(history))
  <2>1. \A n \in 0 .. version : Cover(n) \in 1 .. Len(history) /\ Cover(n) <= Cover(version)
    <3>1. /\ \A n \in 0 .. version : Cover(n) \in 1 .. Len(history)
          /\ \A n, m \in 0 .. version : n <= m => Cover(n) <= Cover(m)
      BY <1>1, CoverBound, Zenon
    <3>2. version \in Nat /\ version \in 0 .. version /\ \A n \in 0 .. version : n <= version
      BY DEF TypeOK, RedisType
    <3> QED
      BY <3>1, <3>2, Zenon
  <2>2. Len(history) \in Nat \ {0} /\ version \in Nat /\ acked \in 1 .. Len(history)
    BY DEF TypeOK, TableType, RedisType
  <2>3. Since(Enabled(rows), Len(history))
    BY <1>1, <2>2 DEF CounterInv, Since
  <2> QED
    BY <1>1, <2>1, <2>2, <2>3 DEF CounterInv
<1>5. \A list : \A n, m \in Nat : n <= m /\ Since(list, m) => Since(list, n)
  BY DEF Since
<1>6. ListsInv'
  <2>1. CASE UNCHANGED lists
    BY <1>0, <1>1, <1>3, <2>1 DEF ListsInv
  <2>2. CASE ~UNCHANGED lists
    <3>1. /\ loader[r].phase = "store"
          /\ lists' = [n \in DOMAIN lists \cup {loader[r].version} |->
                         IF n = loader[r].version THEN loader[r].list ELSE lists[n]]
      BY <2>2 DEF BeginRequest, RequestStep, LoaderStep, ReturnEarly, Receive, EndRequest,
         ReadVersion, ReadList, SelectEnabled, StoreList, ListKey, redis
    <3>2. loader[r].version <= version /\ Since(loader[r].list, Cover(loader[r].version))
      BY <1>1, <3>1 DEF LoaderFresh
    <3> QED
      BY <1>0, <1>1, <1>3, <3>1, <3>2 DEF ListsInv
  <2> QED
    BY <2>1, <2>2
<1>7. PICK q \in Request, g \in Loader :
        q = request[r] /\ g = loader[r] /\ LoaderFresh(q, g) /\ q.floor \in Nat \ {0} /\ g.version \in Nat
  BY <1>1 DEF TypeOK, HandlerType, Request, Loader
<1>8. PICK p \in Request, h \in Loader :
        p = request'[r] /\ h = loader'[r] /\ p.floor \in Nat \ {0} /\ h.version \in Nat
  BY DEF TypeOK, HandlerType, Request, Loader
<1>9. request \in [Requests -> Request] /\ loader \in [Requests -> Loader]
  BY DEF TypeOK, HandlerType
<1>10. ASSUME p.phase = "idle" \/ p = q, h.phase = "idle" \/ h = g PROVE LoaderFresh(p, h)
  BY <1>7, <1>10 DEF LoaderFresh
<1>11. ASSUME NEW phase \in {"sent", "failed"}, NEW list,
              phase = "sent" /\ q.phase # "idle" => Since(list, q.floor),
              g.phase # "idle", p = q, Send(r, phase, list)
       PROVE  LoaderFresh(p, h)
  <2>1. CASE LoaderEnds(r)
    BY <1>7, <1>8, <1>9, <2>1 DEF LoaderEnds, LoaderIdle, LoaderFresh
  <2>2. CASE LoaderGoes(r, phase, list)
    <3>1. h.phase = phase /\ h.list = list
      BY <1>7, <1>8, <1>9, <2>2 DEF LoaderGoes, Loader
    <3> QED
      BY <1>7, <1>11, <3>1 DEF LoaderFresh
  <2> QED
    BY <1>11, <2>1, <2>2 DEF Send
<1>12. LoaderFresh(p, h)
  <2>1. CASE BeginRequest(r)
    <3>1. p.floor = acked /\ h.phase = "version" /\ ~h.cached
      BY <1>8, <1>9, <2>1 DEF BeginRequest, RequestIdle, LoaderIdle
    <3> QED
      BY <1>4, <3>1 DEF LoaderFresh
  <2>2. CASE ReturnEarly(r) \/ Receive(r) \/ EndRequest(r)
    <3>1. h = g \/ h.phase = "idle"
      BY <1>7, <1>8, <1>9, <2>2 DEF ReturnEarly, Receive, EndRequest, LoaderEnds, LoaderIdle
    <3>2. CASE p.phase = "idle" \/ p = q
      BY <1>10, <3>1, <3>2
    <3>3. CASE h.phase = "idle"
      BY <3>3 DEF LoaderFresh
    <3>4. p.phase = "idle" \/ h.phase = "idle"
      BY <1>7, <1>8, <1>9, <2>2
         DEF ReturnEarly, Receive, EndRequest, LoaderEnds, LoaderIdle, RequestEnds, RequestIdle
    <3> QED
      BY <3>2, <3>3, <3>4
  <2>3. CASE LoaderStep(r)
    <3>0. p = q /\ request' = request
      BY <1>7, <1>8, <2>3 DEF LoaderStep, ReadVersion, ReadList, SelectEnabled, StoreList
    <3>1. ASSUME NEW phase \in {"select", "store"}, NEW list, LoaderGoes(r, phase, list)
          PROVE  h.phase = phase /\ h.list = list /\ h.version = g.version /\ h.cached = g.cached
      BY <1>7, <1>8, <1>9, <3>1 DEF LoaderGoes, Loader
    <3>2. CASE ReadVersion(r)
      <4>1. g.phase = "version" /\ ~g.cached /\ (q.phase # "idle" => q.floor <= acked)
        BY <1>7, <3>2 DEF ReadVersion, LoaderFresh
      <4>2. CASE LoaderGoes(r, "select", {})
        BY <3>0, <3>1, <4>1, <4>2 DEF LoaderFresh
      <4>3. CASE ~LoaderGoes(r, "select", {})
        <5>1. h.phase = "cache" /\ h.cached /\ h.version = version
          BY <1>8, <1>9, <3>2, <4>3 DEF ReadVersion
        <5>2. q.phase # "idle" => q.floor <= Cover(version)
          <6>1. Cover(version) \in Nat
            BY <1>4
          <6> QED
            BY <1>4, <1>7, <4>1, <6>1
        <5> QED
          BY <1>4, <3>0, <4>1, <5>1, <5>2 DEF LoaderFresh
      <4> QED
        BY <4>2, <4>3
    <3>3. CASE ReadList(r)
      <4>1. /\ g.phase = "cache" /\ g.cached /\ g.version \in 0 .. version
            /\ q.phase # "idle" => q.floor <= acked /\ q.floor <= Cover(g.version)
        BY <1>4, <1>7, <3>3 DEF ReadList, LoaderFresh
      <4>2. CASE g.version \in DOMAIN lists /\ Send(r, "sent", lists[g.version])
        <5>1. Since(lists[g.version], Cover(g.version)) /\ Cover(g.version) \in Nat
          BY <1>1, <1>4, <4>1, <4>2 DEF ListsInv
        <5>2. q.phase # "idle" => Since(lists[g.version], q.floor)
          BY <1>5, <1>7, <4>1, <5>1
        <5> QED
          BY <1>11, <3>0, <4>1, <4>2, <5>2
      <4>3. CASE LoaderGoes(r, "select", {})
        BY <1>7, <3>0, <3>1, <4>1, <4>3 DEF LoaderFresh
      <4>4. CASE loader' = [loader EXCEPT ![r] = [LoaderIdle EXCEPT !.phase = "select"]]
        <5>1. h.phase = "select" /\ ~h.cached
          BY <1>8, <1>9, <4>4 DEF LoaderIdle
        <5> QED
          BY <3>0, <4>1, <5>1 DEF LoaderFresh
      <4> QED
        BY <1>7, <3>3, <4>2, <4>3, <4>4 DEF ReadList, ListKey
    <3>4. CASE SelectEnabled(r)
      <4>1. /\ g.phase = "select" /\ (q.phase # "idle" => q.floor <= acked)
            /\ g.cached => g.version \in 0 .. version /\ (q.phase # "idle" => q.floor <= Cover(g.version))
        BY <1>4, <1>7, <3>4 DEF SelectEnabled, LoaderFresh
      <4>2. CASE g.cached /\ LoaderGoes(r, "store", Enabled(rows))
        <5>1. Since(Enabled(rows), Cover(g.version))
          BY <1>4, <1>5, <4>1, <4>2
        <5>2. h.phase = "store" /\ h.list = Enabled(rows) /\ h.version = g.version /\ h.cached = g.cached
          BY <3>1, <4>2
        <5> QED
          BY <1>4, <3>0, <4>1, <4>2, <5>1, <5>2 DEF LoaderFresh
      <4>3. CASE Send(r, "sent", Enabled(rows))
        <5>1. q.phase # "idle" => Since(Enabled(rows), q.floor)
          BY <1>4, <1>5, <1>7, <4>1
        <5> QED
          BY <1>11, <3>0, <4>1, <4>3, <5>1
      <4>4. CASE Send(r, "failed", {})
        BY <1>11, <3>0, <4>1, <4>4
      <4> QED
        BY <1>7, <3>4, <4>2, <4>3, <4>4 DEF SelectEnabled
    <3>5. CASE StoreList(r)
      <4>1. /\ g.phase = "store" /\ Since(g.list, Cover(g.version)) /\ g.version \in 0 .. version
            /\ q.phase # "idle" => q.floor <= Cover(g.version)
        BY <1>4, <1>7, <3>5 DEF StoreList, LoaderFresh
      <4>2. q.phase # "idle" => Since(g.list, q.floor)
        BY <1>4, <1>5, <1>7, <4>1
      <4> QED
        BY <1>7, <1>11, <3>0, <3>5, <4>1, <4>2 DEF StoreList
    <3> QED
      BY <2>3, <3>2, <3>3, <3>4, <3>5 DEF LoaderStep
  <2> QED
    BY <2>1, <2>2, <2>3 DEF RequestStep
<1>13. ASSUME NEW t \in Requests PROVE LoaderFresh(request[t], loader[t])'
  <2>1. CASE t = r
    BY <1>0, <1>3, <1>8, <1>12, <2>1 DEF LoaderFresh
  <2>2. CASE t # r
    <3>1. request'[t] = request[t] /\ loader'[t] = loader[t]
      BY <1>9, <2>2 DEF BeginRequest, RequestStep, LoaderStep, ReturnEarly, Receive, EndRequest,
         ReadVersion, ReadList, SelectEnabled, StoreList, RequestEnds, LoaderEnds, LoaderGoes, Send
    <3> QED
      BY <1>0, <1>1, <1>3, <3>1 DEF LoaderFresh
  <2> QED
    BY <2>1, <2>2
<1> QED
  BY <1>0, <1>2, <1>6, <1>13 DEF FilingInv

\* Every step keeps the invariant.
LEMMA FilingStep == TypeOK /\ FilingInv /\ [Next]_vars => FilingInv'
<1> SUFFICES ASSUME TypeOK, FilingInv, [Next]_vars PROVE FilingInv'
  OBVIOUS
<1>1. TypeOK'
  BY TypeStep
<1>2. ASSUME NEW n, ListExpires(n) PROVE FilingInv'
  <2> SUFFICES ASSUME ~lost PROVE FilingInv'
    BY <1>2 DEF ListExpires, FilingInv
  <2>1. CounterInv /\ ListsInv /\ \A r \in Requests : LoaderFresh(request[r], loader[r])
    BY DEF FilingInv
  <2>2. UNCHANGED <<db, version, covers, lost, admin, handlers, acked>>
    BY <1>2 DEF ListExpires
  <2>3. CounterInv'
    BY <2>1, <2>2 DEF CounterInv, db, Cover, Enabled
  <2>4. HistoryKept /\ \A m \in 0 .. version : Cover(m)' = Cover(m)
    BY <2>2 DEF HistoryKept, db, Cover, TypeOK, TableType
  <2>5. DOMAIN lists' \subseteq DOMAIN lists /\ \A m \in DOMAIN lists' : lists'[m] = lists[m]
    BY <1>2 DEF ListExpires, Restrict
  <2>6. version <= version' /\ acked <= acked'
    BY <2>2 DEF TypeOK, RedisType, TableType
  <2>7. ListsInv' /\ \A r \in Requests : LoaderFresh(request[r], loader[r])'
    BY <1>1, <2>1, <2>2, <2>4, <2>5, <2>6, FiledStays
  <2> QED
    BY <2>3, <2>7 DEF FilingInv
<1>3. CASE RedisLosesData
  BY <1>3 DEF RedisLosesData, FilingInv
<1>4. CASE UNCHANGED vars
  BY <1>4 DEF vars, FilingInv, CounterInv, ListsInv, LoaderFresh, Since, Cover, Enabled
<1> QED
  BY <1>1, <1>2, <1>3, <1>4, AdminFilingStep, RequestFilingStep DEF Next, AdminAction

\* The initial state satisfies it.
LEMMA InitFiling == Init => FilingInv
<1> SUFFICES ASSUME Init PROVE FilingInv
  OBVIOUS
<1>1. Len(history) = 1 /\ history[1] = {} /\ Enabled(rows) = {} /\ Len(covers) = 0 /\ DOMAIN lists = {}
  BY DEF Init, Enabled
<1>2. CounterInv
  BY <1>1 DEF Init, CounterInv, Cover, AdminIdle
<1>3. ListsInv
  BY <1>1 DEF ListsInv
<1>4. \A r \in Requests : LoaderFresh(request[r], loader[r])
  BY DEF Init, LoaderFresh, LoaderIdle, RequestIdle
<1> QED
  BY <1>2, <1>3, <1>4 DEF FilingInv

\* The invariant and the types hold together: that an acknowledged position is
\* one of the history needs what is known of the handlers that acknowledge.
LEMMA Invariance == Spec => [](TypeOK /\ FilingInv)
<1>1. Init => TypeOK /\ FilingInv
  BY InitType, InitFiling
<1>2. TypeOK /\ FilingInv /\ [Next]_vars => (TypeOK /\ FilingInv)'
  BY TypeStep, FilingStep
<1> QED
  BY <1>1, <1>2, PTL DEF Spec

\* Every variable keeps its type, through every fault and loss of data.
THEOREM TypeCorrect == Spec => []TypeOK
  BY Invariance, PTL

\* As long as Redis keeps its data no list filed under a version is older than
\* the changes that version vouches for, whoever files it however late, for any
\* number of administrators and requests.
THEOREM ListsFiled == Spec => []FilingInv
  BY Invariance, PTL

-----------------------------------------------------------------------------
(* The lists are a FreshReads register until Redis loses its data.          *)

Readers == [r \in Requests |-> AbstractReader(r)]

\* Readers that end.
LEMMA EndStep ==
  ASSUME NEW ended \in SUBSET Requests, UNCHANGED <<history, acked>>,
         \A r \in Requests : AbstractReader(r)' = IF r \in ended THEN Register!Idle ELSE AbstractReader(r)
  PROVE  Register!End
<1>1. Readers' = [r \in Requests |-> IF r \in ended THEN Register!Idle ELSE Readers[r]]
  BY DEF Readers
<1> QED
  BY <1>1 DEF Register!End, Readers

\* Handlers that a caller sees no difference in.
LEMMA SameReaders ==
  ASSUME UNCHANGED <<request, lost>>
  PROVE  Readers' = Readers
  BY DEF Readers, AbstractReader

\* The steps of administrators change the table and acknowledge changes.
LEMMA AdminRefines ==
  ASSUME TypeOK, TypeOK', FilingInv, NEW a \in Admins, AdminAction(a)
  PROVE  [Register!Next]_Register!vars
<1>1. UNCHANGED <<request, lost>>
  BY DEF AdminAction, CreateAnnouncement, FindAnnouncement, DeleteAnnouncement, RefreshAnnouncementCache,
         AdminStep, AdminCrashes, UpdateAnnouncement, InvalidateAnnouncements, RereadAnnouncement,
         DropLists, redis, handlers
<1>2. Readers' = Readers
  BY <1>1, SameReaders
<1>3. /\ UNCHANGED history \/ history' = Append(history, Enabled(rows'))
      /\ UNCHANGED acked \/ (UNCHANGED history /\ Acknowledge(a))
  BY DEF AdminAction, CreateAnnouncement, FindAnnouncement, DeleteAnnouncement, RefreshAnnouncementCache,
         AdminStep, AdminCrashes, UpdateAnnouncement, InvalidateAnnouncements, RereadAnnouncement,
         DropLists, db, Commit
<1>4. CASE UNCHANGED <<history, acked>>
  BY <1>2, <1>4 DEF Register!vars, Readers
<1>5. CASE UNCHANGED history /\ Acknowledge(a)
  <2>1. acked' \in acked .. Len(history)
    BY <1>5 DEF Acknowledge, TypeOK, TableType, HandlerType, Handler
  <2> QED
    BY <1>2, <1>5, <2>1 DEF Register!Next, Register!Acknowledge, Readers
<1>6. CASE UNCHANGED acked /\ history' = Append(history, Enabled(rows'))
  <2>1. Table(rows')
    BY BoundsAssumption DEF TypeOK, TableType, Table, RowIds
  <2>2. Enabled(rows') \in Lists /\ history \in Seq(Lists)
    BY <2>1, EnabledType DEF TypeOK, TableType
  <2>3. history'[Len(history')] = Enabled(rows')
    BY <1>6, <2>2
  <2> QED
    BY <1>2, <1>6, <2>2, <2>3 DEF Register!Next, Register!Change, Register!Newest, Readers
<1> QED
  BY <1>3, <1>4, <1>5, <1>6

\* Requests arrive, decide and end.
LEMMA RequestRefines ==
  ASSUME TypeOK, FilingInv, NEW r \in Requests, BeginRequest(r) \/ RequestStep(r) \/ LoaderStep(r)
  PROVE  [Register!Next]_Register!vars
<1>1. UNCHANGED <<history, acked, lost>>
  BY DEF BeginRequest, RequestStep, LoaderStep, ReturnEarly, Receive, EndRequest, ReadVersion,
         ReadList, SelectEnabled, StoreList, redis, db
<1>2. request \in [Requests -> Request] /\ loader \in [Requests -> Loader]
  BY DEF TypeOK, HandlerType
<1>3. CASE lost \/ LoaderStep(r)
  <2>1. lost \/ UNCHANGED request
    BY <1>3 DEF LoaderStep, ReadVersion, ReadList, SelectEnabled, StoreList
  <2>2. Readers' = Readers
    BY <1>1, <2>1, SameReaders DEF Readers, AbstractReader
  <2> QED
    BY <1>1, <2>2 DEF Register!vars, Readers
<1>4. ASSUME ~lost, RequestEnds(r) PROVE Register!End
  <2>1. request'[r].phase = "idle" /\ \A q \in Requests \ {r} : request'[q] = request[q]
    BY <1>2, <1>4 DEF RequestEnds, RequestIdle
  <2>2. \A q \in Requests : AbstractReader(q)' = IF q \in {r} THEN Register!Idle ELSE AbstractReader(q)
    BY <1>1, <2>1 DEF AbstractReader, Register!Idle
  <2> QED
    BY <1>1, <2>2, EndStep
<1>5. CASE ~lost /\ BeginRequest(r)
  <2>1. /\ request[r].phase = "idle" /\ request'[r].phase = "open" /\ request'[r].floor = acked
        /\ \A q \in Requests \ {r} : request'[q] = request[q]
    BY <1>2, <1>5 DEF BeginRequest, RequestIdle
  <2>2. AbstractReader(r) = Register!Idle /\ AbstractReader(r)' = Register!Open(acked)
        /\ \A q \in Requests \ {r} : AbstractReader(q)' = AbstractReader(q)
    BY <1>1, <1>5, <2>1 DEF AbstractReader, Register!Idle, Register!Open
  <2>3. Readers[r] = Register!Idle /\ Readers' = [Readers EXCEPT ![r] = Register!Open(acked)]
    BY <2>2 DEF Readers
  <2> QED
    BY <1>1, <2>3 DEF Register!Next, Register!Begin, Readers
<1>6. CASE ~lost /\ Receive(r) /\ loader[r].phase = "sent"
  <2> DEFINE floor == request[r].floor
             list == loader[r].list
  <2>1. /\ request[r].phase = "open" /\ request'[r].phase = "answered"
        /\ request'[r].floor = floor /\ request'[r].list = list
        /\ \A q \in Requests \ {r} : request'[q] = request[q]
    BY <1>2, <1>6 DEF Receive, Request
  <2>2. PICK n \in floor .. Len(history) : list = history[n]
    BY <1>6, <2>1 DEF FilingInv, LoaderFresh, Since
  <2>3. AbstractReader(r) = Register!Open(floor) /\ AbstractReader(r)' = Register!Decided(floor, list)
        /\ \A q \in Requests \ {r} : AbstractReader(q)' = AbstractReader(q)
    BY <1>1, <1>6, <2>1 DEF AbstractReader, Register!Decided, Register!Open
  <2>4. Readers' = [Readers EXCEPT ![r] = Register!Decided(floor, history[n])]
    BY <2>2, <2>3 DEF Readers
  <2>5. Readers[r].phase = "open" /\ Readers[r].floor = floor
    BY <2>3 DEF Readers, Register!Open
  <2>6. Register!Decide(r)
    BY <1>1, <2>2, <2>4, <2>5 DEF Register!Decide, Readers
  <2> QED
    BY <2>6 DEF Register!Next
<1> QED
  BY <1>3, <1>4, <1>5, <1>6 DEF RequestStep, ReturnEarly, Receive, EndRequest, Register!Next

\* Every step is one of the register's, and the loss of Redis's data ends every
\* reader.
LEMMA StepRefines ==
  TypeOK /\ FilingInv /\ [Next]_vars => [Register!Next]_Register!vars
<1> SUFFICES ASSUME TypeOK, FilingInv, [Next]_vars PROVE [Register!Next]_Register!vars
  OBVIOUS
<1>1. TypeOK'
  BY TypeStep
<1>2. ASSUME NEW n, ListExpires(n) PROVE UNCHANGED Register!vars
  <2>1. UNCHANGED <<request, lost, history, acked>>
    BY <1>2 DEF ListExpires, db, handlers
  <2> QED
    BY <2>1, SameReaders DEF Register!vars, Readers
<1>3. CASE RedisLosesData
  <2>1. UNCHANGED <<history, acked>> /\ lost'
    BY <1>3 DEF RedisLosesData, db
  <2>2. \A r \in Requests : AbstractReader(r)' = IF r \in Requests THEN Register!Idle ELSE AbstractReader(r)
    BY <2>1 DEF AbstractReader, Register!Idle
  <2>3. Register!End
    BY <2>1, <2>2, EndStep
  <2> QED
    BY <2>3 DEF Register!Next
<1>4. CASE UNCHANGED vars
  BY <1>4, SameReaders DEF vars, Register!vars, Readers
<1> QED
  BY <1>1, <1>2, <1>3, <1>4, AdminRefines, RequestRefines DEF Next, AdminAction

\* Until Redis loses its data an administrator who was told that a change
\* succeeded finds it in every list asked for from then on.
THEOREM RegisterImplemented == Spec => ImplementsRegister
<1>1. Init => Register!Init
  BY DEF Init, Register!Init, AbstractReader, RequestIdle, Register!Idle
<1>2. Spec => Register!Spec
  BY <1>1, StepRefines, Invariance, PTL DEF Spec, Register!Spec
<1> QED
  BY <1>2 DEF ImplementsRegister
=============================================================================
