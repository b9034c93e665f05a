--------------------------- MODULE BackfillProofs ---------------------------
(***************************************************************************)
(* Proofs about Backfill: its types, its inductive invariant BackfillInv,  *)
(* what that says of a run that has ended, and that a run is a BatchJob.   *)
(***************************************************************************)
EXTENDS Backfill, FiniteSetTheorems, TLAPS

-----------------------------------------------------------------------------
(* Types.                                                                   *)

\* Every initial state has the types.
LEMMA TypeInit == Init => TypeOK
<1> SUFFICES ASSUME Init PROVE TypeOK
  OBVIOUS
<1> USE BoundsAssumption
<1>1. status \in StatusType
  BY DEF Init, FreshStatus, StatusType
<1>2. options \in OptionsType /\ ctxDone \in BOOLEAN /\ observed \in BOOLEAN
  <2>1. 0 \in 0 .. MaxDays /\ 0 \in 0 .. MaxWorkers
    OBVIOUS
  <2> QED
    BY <2>1 DEF Init, OptionsType
<1>3. worker \in [Workers -> WorkerType] /\ \A w \in Workers : worker[w].at = "off"
  BY DEF Init, At, WorkerType, Places, Outcomes
<1>4. next \in 1 .. MaxDays + 1 /\ table \subseteq Days /\ outcome \in [Days -> Outcomes \cup {"none"}]
  BY DEF Init, NoOutcome, Days
<1> QED
  BY <1>1, <1>2, <1>3, <1>4 DEF Init, TypeOK, InDay

\* Moving one worker keeps the type of the workers, and what TypeOK says of them.
LEMMA WorkerMoves ==
  ASSUME TypeOK, NEW w \in Workers, NEW v \in WorkerType,
         worker' = [worker EXCEPT ![w] = v],
         v.at \in InDay \cup {"begin"} => v.day \in Days,
         v.at = "record" => v.result \in Outcomes
  PROVE  /\ worker' \in [Workers -> WorkerType]
         /\ \A u \in Workers : /\ worker'[u].at \in InDay \cup {"begin"} => worker'[u].day \in Days
                               /\ worker'[u].at = "record" => worker'[u].result \in Outcomes
BY DEF TypeOK

\* The types are kept by every step.
LEMMA TypeStep == TypeOK /\ [Next]_vars => TypeOK'
<1> SUFFICES ASSUME TypeOK, [Next]_vars PROVE TypeOK'
  OBVIOUS
<1> USE BoundsAssumption
<1>1. ASSUME NEW o \in BuildOptions, Start(o) PROVE TypeOK'
  <2>1. status' \in StatusType
    BY <1>1 DEF Start, FreshStatus, StatusType
  <2>2. o \in OptionsType /\ NoOutcome \in [Days -> Outcomes \cup {"none"}]
    BY DEF BuildOptions, OptionsType, Days, Workers, NoOutcome
  <2>3. next' \in 1 .. MaxDays + 1 /\ main' = "spawn" /\ ctxDone' \in BOOLEAN /\ observed' \in BOOLEAN
    <3>1. 1 \in 1 .. MaxDays + 1
      OBVIOUS
    <3>2. ctxDone' = FALSE /\ observed' = FALSE
      BY <1>1 DEF Start
    <3> QED
      BY <1>1, <3>1, <3>2, Zenon DEF Start
  <2>4. options' \in OptionsType /\ outcome' \in [Days -> Outcomes \cup {"none"}] /\ runs' \in Nat
    BY <1>1, <2>2 DEF Start, TypeOK
  <2> QED
    BY <1>1, <2>1, <2>3, <2>4 DEF Start, TypeOK
<1>2. CASE Cancel
  BY <1>2 DEF Cancel, TypeOK, StatusType
<1>3. CASE IndexElsewhere
  BY <1>3 DEF IndexElsewhere, TypeOK
<1>4. CASE Spawn
  <2>1. At("recv") \in WorkerType /\ At("off") \in WorkerType /\ At("recv").at = "recv" /\ At("off").at = "off"
    BY DEF At, WorkerType, Places
  <2>2. worker' \in [Workers -> WorkerType] /\ \A w \in Workers : worker'[w].at \in {"recv", "off"}
    BY <1>4, <2>1 DEF Spawn
  <2> QED
    BY <1>4, <2>2 DEF Spawn, TypeOK, InDay
<1>5. ASSUME NEW w \in Workers, Send(w) PROVE TypeOK'
  <2> DEFINE v == [worker[w] EXCEPT !.at = "begin", !.day = next]
  <2>1. next \in Days /\ next' \in 1 .. MaxDays + 1
    BY <1>5 DEF Send, TypeOK, OptionsType, Days
  <2>2. worker[w] \in WorkerType /\ next \in 0 .. MaxDays
    BY <2>1 DEF TypeOK, Days
  <2>3. v \in WorkerType /\ v.at = "begin" /\ v.day \in Days
    BY <2>1, <2>2 DEF WorkerType, Places
  <2>4. worker' = [worker EXCEPT ![w] = v]
    BY <1>5 DEF Send
  <2> HIDE DEF v
  <2> QED
    BY <1>5, <2>1, <2>3, <2>4, WorkerMoves DEF Send, TypeOK
<1>6. CASE Close
  BY <1>6 DEF Close, TypeOK
<1>7. CASE ObserveEnd
  BY <1>7 DEF ObserveEnd, TypeOK
<1>8. CASE Finish
  BY <1>8 DEF Finish, TypeOK, StatusType
<1>9. ASSUME NEW w \in Workers, WorkerStops(w) \/ DropDay(w) \/ Leave(w) PROVE TypeOK'
  <2>1. PICK place \in {"off", "recv"} : worker' = [worker EXCEPT ![w] = At(place)]
    BY <1>9 DEF WorkerStops, DropDay, Leave
  <2>2. At(place) \in WorkerType /\ At(place).at = place
    BY DEF At, WorkerType, Places
  <2>3. status' \in StatusType
    BY <1>9 DEF WorkerStops, DropDay, Leave, TypeOK, StatusType
  <2> QED
    BY <1>9, <2>1, <2>2, <2>3, WorkerMoves DEF WorkerStops, DropDay, Leave, TypeOK, InDay
<1>10. ASSUME NEW w \in Workers, EnterDay(w) PROVE TypeOK'
  <2> DEFINE place == IF options.skip THEN "check" ELSE "refresh"
             v == [worker[w] EXCEPT !.at = place]
  <2>1. v \in WorkerType /\ v.at # "record" /\ v.day \in Days
    BY <1>10 DEF EnterDay, TypeOK, WorkerType, Places, InDay
  <2>2. worker' = [worker EXCEPT ![w] = v]
    BY <1>10 DEF EnterDay
  <2>3. status' \in StatusType
    BY <1>10 DEF EnterDay, TypeOK, StatusType
  <2> HIDE DEF v
  <2> QED
    BY <1>10, <2>1, <2>2, <2>3, WorkerMoves DEF EnterDay, TypeOK
<1>11. ASSUME NEW w \in Workers, Look(w) \/ Refresh(w) PROVE TypeOK'
  <2>1. worker[w].day \in Days
    BY <1>11 DEF Look, Refresh, TypeOK, InDay
  <2>2. ASSUME NEW result \in Outcomes, Resolve(w, result) PROVE TypeOK'
    <3> DEFINE v == [worker[w] EXCEPT !.at = "record", !.result = result]
    <3>1. v \in WorkerType /\ v.at = "record" /\ v.day \in Days /\ v.result = result
      BY <2>1 DEF TypeOK, WorkerType, Places
    <3>2. worker' = [worker EXCEPT ![w] = v]
      BY <2>2 DEF Resolve
    <3>3. table' \subseteq Days
      BY <1>11, <2>1 DEF Look, Refresh, TypeOK
    <3> HIDE DEF v
    <3> QED
      BY <1>11, <3>1, <3>2, <3>3, WorkerMoves DEF Look, Refresh, TypeOK
  <2>3. CASE Look(w) /\ worker' = [worker EXCEPT ![w] = [@ EXCEPT !.at = "refresh"]]
    <3> DEFINE v == [worker[w] EXCEPT !.at = "refresh"]
    <3>1. v \in WorkerType /\ v.at = "refresh" /\ v.day \in Days
      BY <2>1 DEF TypeOK, WorkerType, Places
    <3>2. worker' = [worker EXCEPT ![w] = v]
      BY <2>3
    <3> HIDE DEF v
    <3> QED
      BY <2>3, <3>1, <3>2, WorkerMoves DEF Look, TypeOK
  <2> QED
    BY <1>11, <2>2, <2>3 DEF Look, Refresh, Outcomes
<1>12. ASSUME NEW w \in Workers, Record(w) PROVE TypeOK'
  <2> DEFINE v == [worker[w] EXCEPT !.at = "leave"]
  <2>1. v \in WorkerType /\ v.at = "leave" /\ v.day \in Days
    BY <1>12 DEF Record, TypeOK, WorkerType, Places, InDay
  <2>2. worker' = [worker EXCEPT ![w] = v]
    BY <1>12 DEF Record
  <2>3. worker[w].result \in Outcomes /\ worker[w].day \in Days
    BY <1>12 DEF Record, TypeOK, InDay
  <2>4. status' \in StatusType /\ outcome' \in [Days -> Outcomes \cup {"none"}]
    <3> DEFINE c == [status.count EXCEPT ![worker[w].result] = @ + 1]
    <3>1. c \in [Outcomes -> Nat] /\ status.processed + 1 \in Nat
      BY <2>3 DEF TypeOK, StatusType
    <3>2. status' = [status EXCEPT !.processed = @ + 1, !.count = c]
      BY <1>12 DEF Record, TypeOK, StatusType
    <3>3. outcome' \in [Days -> Outcomes \cup {"none"}]
      BY <1>12, <2>3 DEF Record, TypeOK
    <3> HIDE DEF c
    <3> QED
      BY <3>1, <3>2, <3>3 DEF TypeOK, StatusType
  <2> HIDE DEF v
  <2> QED
    BY <1>12, <2>1, <2>2, <2>4, WorkerMoves DEF Record, TypeOK
<1>13. CASE UNCHANGED vars
  BY <1>13 DEF vars, TypeOK
<1> QED
  BY <1>1, <1>2, <1>3, <1>4, <1>5, <1>6, <1>7, <1>8, <1>9, <1>10, <1>11, <1>12, <1>13
  DEF Next, MainStep, WorkerStep

\* Every variable always has its type.
THEOREM TypeCorrect == Spec => []TypeOK
<1> QED
  BY TypeInit, TypeStep, PTL DEF Spec

-----------------------------------------------------------------------------
(* The inductive invariant, one of its parts at a time.                     *)

\* Workers run only while the goroutine of the run feeds them or waits for them.
LEMMA PhaseStep == TypeOK /\ PhaseInv /\ [Next]_vars => PhaseInv'
<1> SUFFICES ASSUME TypeOK, PhaseInv, [Next]_vars PROVE PhaseInv'
  OBVIOUS
<1> USE BoundsAssumption DEF PhaseInv
<1>1. ASSUME NEW o \in BuildOptions, Start(o) PROVE PhaseInv'
  <2>1. status'.running /\ o.days \in Days /\ 1 <= o.days + 1 /\ runs' > 0
    BY <1>1 DEF Start, FreshStatus, BuildOptions, Days, TypeOK
  <2> QED
    BY <1>1, <2>1 DEF Start
<1>2. CASE Cancel \/ IndexElsewhere \/ UNCHANGED vars
  BY <1>2 DEF Cancel, IndexElsewhere, vars, TypeOK, StatusType
<1>3. CASE Spawn \/ Close \/ ObserveEnd
  BY <1>3 DEF Spawn, Close, ObserveEnd, TypeOK, OptionsType
<1>4. CASE Finish
  <2>1. ~status'.running /\ ~status'.stop
    BY <1>4 DEF Finish, TypeOK, StatusType
  <2> QED
    BY <1>4, <2>1 DEF Finish
<1>5. ASSUME NEW w \in Workers, Send(w) PROVE PhaseInv'
  BY <1>5 DEF Send, TypeOK, OptionsType
<1>6. ASSUME NEW w \in Workers, WorkerStep(w) PROVE PhaseInv'
  <2>1. /\ main \in {"feed", "wait"} /\ main' = main /\ next' = next /\ options' = options
        /\ ctxDone' = ctxDone /\ runs' = runs
    BY <1>6 DEF WorkerStep, WorkerStops, DropDay, EnterDay, Look, Refresh, Record, Leave, TypeOK
  <2>2. status'.running = status.running /\ status'.stop = status.stop
    BY <1>6 DEF WorkerStep, WorkerStops, DropDay, EnterDay, Look, Refresh, Record, Leave, TypeOK, StatusType
  <2> QED
    BY <2>1, <2>2
<1> QED
  BY <1>1, <1>2, <1>3, <1>4, <1>5, <1>6 DEF Next, MainStep

\* A step of a worker moves that worker only.  If it still holds a date it held
\* it before, and if it no longer does it recorded it or the run is canceled.
LEMMA WorkerMove ==
  ASSUME TypeOK, NEW w \in Workers, WorkerStep(w)
  PROVE  /\ \A u \in Workers : u # w => worker'[u] = worker[u]
         /\ \A d \in Days : Holds(w, d)' => Holds(w, d)
         /\ \A d \in Days : Holds(w, d) => Holds(w, d)' \/ ctxDone \/ Record(w)
<1> USE DEF Holds
<1>1. CASE WorkerStops(w) \/ DropDay(w) \/ Leave(w)
  <2>1. PICK place \in {"off", "recv"} : worker' = [worker EXCEPT ![w] = At(place)]
    BY <1>1 DEF WorkerStops, DropDay, Leave
  <2>2. worker'[w].at \in {"off", "recv"}
    BY <2>1 DEF At, TypeOK
  <2> QED
    BY <1>1, <2>1, <2>2 DEF WorkerStops, DropDay, Leave, TypeOK
<1>2. CASE EnterDay(w)
  <2>1. PICK place \in {"check", "refresh"} :
          worker' = [worker EXCEPT ![w] = [@ EXCEPT !.at = place]]
    BY <1>2 DEF EnterDay
  <2>2. worker'[w].at = place /\ worker'[w].day = worker[w].day
    BY <2>1 DEF TypeOK, WorkerType
  <2>3. worker[w].at = "begin" /\ \A u \in Workers : u # w => worker'[u] = worker[u]
    BY <1>2, <2>1 DEF EnterDay, TypeOK
  <2> QED
    BY <2>2, <2>3
<1>3. CASE Record(w)
  <2>1. worker' = [worker EXCEPT ![w] = [@ EXCEPT !.at = "leave"]]
    BY <1>3 DEF Record
  <2>2. worker'[w].at = "leave" /\ \A u \in Workers : u # w => worker'[u] = worker[u]
    BY <2>1 DEF TypeOK, WorkerType
  <2> QED
    BY <1>3, <2>2
<1>4. CASE Look(w) \/ Refresh(w)
  <2>1. worker[w] \in WorkerType
    BY DEF TypeOK
  <2>2. worker'[w].at \in {"record", "refresh"} /\ worker'[w].day = worker[w].day
    <3>1. CASE worker' = [worker EXCEPT ![w] = [@ EXCEPT !.at = "refresh"]]
      BY <2>1, <3>1 DEF TypeOK, WorkerType
    <3>2. ASSUME NEW result \in Outcomes, Resolve(w, result)
          PROVE  worker'[w].at = "record" /\ worker'[w].day = worker[w].day
      BY <2>1, <3>2 DEF Resolve, TypeOK, WorkerType
    <3> QED
      BY <1>4, <3>1, <3>2 DEF Look, Refresh, Outcomes
  <2>3. worker[w].at \in {"check", "refresh"} /\ \A u \in Workers : u # w => worker'[u] = worker[u]
    BY <1>4 DEF Look, Refresh, Resolve, TypeOK
  <2> QED
    BY <2>2, <2>3
<1> QED
  BY <1>1, <1>2, <1>3, <1>4 DEF WorkerStep

\* No worker comes to hold a date by a step of a worker.
LEMMA HoldsLess ==
  ASSUME TypeOK, NEW w \in Workers, WorkerStep(w), NEW u \in Workers, NEW d \in Days, Holds(u, d)'
  PROVE  Holds(u, d)
BY WorkerMove DEF Holds

\* A date that is held stays held until it is recorded or the run is canceled.
LEMMA HoldsOn ==
  ASSUME TypeOK, NEW w \in Workers, WorkerStep(w), NEW u \in Workers, NEW d \in Days, Holds(u, d), ~ctxDone
  PROVE  Holds(u, d)' \/ outcome'[d] # "none"
<1>1. CASE u # w \/ Holds(w, d)'
  BY <1>1, WorkerMove DEF Holds
<1>2. CASE u = w /\ Record(w)
  <2>1. worker[w].result \in Outcomes /\ worker[w].day = d
    BY <1>2 DEF Record, TypeOK, Holds
  <2> QED
    BY <1>2, <2>1 DEF Record, TypeOK, Outcomes
<1> QED
  BY <1>1, <1>2, WorkerMove

\* Every date that was sent is recorded or held by one worker.
LEMMA DatesStep == TypeOK /\ PhaseInv /\ DatesInv /\ [Next]_vars => DatesInv'
<1> SUFFICES ASSUME TypeOK, PhaseInv, DatesInv, [Next]_vars PROVE DatesInv'
  OBVIOUS
<1> USE BoundsAssumption
<1>1. ASSUME NEW o \in BuildOptions, Start(o) PROVE DatesInv'
  <2>1. \A w \in Workers, d \in Days : ~Holds(w, d)'
    BY <1>1 DEF Start, PhaseInv, Holds, TypeOK, StatusType
  <2>2. next' = 1 /\ \A d \in Days : outcome'[d] = "none" /\ ~(d < 1)
    BY <1>1 DEF Start, NoOutcome, Days
  <2> QED
    BY <2>1, <2>2 DEF DatesInv
<1>2. CASE Cancel
  BY <1>2 DEF Cancel, DatesInv, Holds
<1>3. CASE IndexElsewhere \/ Close \/ ObserveEnd \/ Finish \/ UNCHANGED vars
  BY <1>3 DEF IndexElsewhere, Close, ObserveEnd, Finish, vars, DatesInv, Holds
<1>4. CASE Spawn
  <2>1. \A w \in Workers, d \in Days : ~Holds(w, d)' /\ ~Holds(w, d)
    BY <1>4 DEF Spawn, PhaseInv, Holds, At
  <2> QED
    BY <1>4, <2>1 DEF Spawn, DatesInv
<1>5. ASSUME NEW w \in Workers, Send(w) PROVE DatesInv'
  <2>1. worker'[w].at = "begin" /\ worker'[w].day = next /\ worker[w].at = "recv"
    BY <1>5 DEF Send, TypeOK, WorkerType
  <2>2. \A u \in Workers, d \in Days : Holds(u, d)' <=> Holds(u, d) \/ (u = w /\ d = next)
    BY <1>5, <2>1 DEF Send, Holds, TypeOK
  <2>3. outcome' = outcome /\ ctxDone' = ctxDone /\ next' = next + 1 /\ next \in Days
    BY <1>5 DEF Send, TypeOK, OptionsType, Days
  <2> QED
    BY <2>2, <2>3 DEF DatesInv, Days
<1>6. ASSUME NEW w \in Workers, WorkerStep(w) PROVE DatesInv'
  <2>1. next' = next /\ ctxDone' = ctxDone
    BY <1>6 DEF WorkerStep, WorkerStops, DropDay, EnterDay, Look, Refresh, Record, Leave
  <2>2. ASSUME NEW d \in Days, outcome'[d] # outcome[d]
        PROVE  Holds(w, d) /\ ~Holds(w, d)'
    <3>1. Record(w)
      BY <1>6, <2>2 DEF WorkerStep, WorkerStops, DropDay, EnterDay, Look, Refresh, Leave
    <3> QED
      BY <3>1, <2>2 DEF Record, Holds, TypeOK
  <2>3. \A d \in Days : d >= next => outcome'[d] = "none"
    BY <2>2 DEF DatesInv, Days, TypeOK
  <2>4. ASSUME NEW u \in Workers, NEW d \in Days, Holds(u, d)'
        PROVE  d < next /\ outcome'[d] = "none"
    <3>1. Holds(u, d)
      BY <1>6, <2>4, HoldsLess
    <3>2. outcome'[d] = outcome[d]
      BY <2>2, <2>4, <3>1 DEF DatesInv
    <3> QED
      BY <3>1, <3>2 DEF DatesInv
  <2>5. \A u, v \in Workers, d \in Days : Holds(u, d)' /\ Holds(v, d)' => u = v
    BY <1>6, HoldsLess DEF DatesInv
  <2>6. ASSUME NEW d \in Days, d < next, ~ctxDone
        PROVE  outcome'[d] # "none" \/ \E u \in Workers : Holds(u, d)'
    <3>1. CASE outcome[d] # "none"
      BY <2>2, <3>1 DEF DatesInv
    <3>2. ASSUME NEW u \in Workers, Holds(u, d) PROVE outcome'[d] # "none" \/ Holds(u, d)'
      BY <1>6, <2>6, <3>2, HoldsOn
    <3> QED
      BY <2>6, <3>1, <3>2 DEF DatesInv
  <2> QED
    BY <2>1, <2>3, <2>4, <2>5, <2>6 DEF DatesInv
<1> QED
  BY <1>1, <1>2, <1>3, <1>4, <1>5, <1>6 DEF Next, MainStep

\* A run that will not be reported as canceled has recorded all its dates.
LEMMA EndStep == TypeOK /\ PhaseInv /\ DatesInv /\ EndInv /\ [Next]_vars => EndInv'
<1> SUFFICES ASSUME TypeOK, PhaseInv, DatesInv, EndInv, [Next]_vars PROVE EndInv'
  OBVIOUS
<1> USE DEF EndInv
<1>1. ASSUME NEW o \in BuildOptions, Start(o) PROVE EndInv'
  BY <1>1 DEF Start
<1>2. CASE Cancel
  <2>1. status'.canceled = status.canceled /\ main # "none" /\ ctxDone'
    BY <1>2 DEF Cancel, PhaseInv, TypeOK, StatusType
  <2> QED
    BY <1>2, <2>1 DEF Cancel, Recorded, RunDays
<1>3. CASE IndexElsewhere \/ UNCHANGED vars
  BY <1>3 DEF IndexElsewhere, vars, Recorded, RunDays
<1>4. CASE Spawn \/ Close \/ \E w \in Workers : Send(w)
  <2>1. main' \in {"feed", "wait"} /\ observed' = observed /\ ctxDone' = ctxDone
    BY <1>4 DEF Spawn, Close, Send
  <2> QED
    BY <2>1
<1>5. CASE ObserveEnd
  <2>1. ASSUME ~ctxDone PROVE Recorded = RunDays
    <3>1. options.days \in Days /\ next = options.days + 1
      BY <1>5, <2>1 DEF ObserveEnd, PhaseInv
    <3>2. \A w \in Workers, d \in Days : ~Holds(w, d)
      BY <1>5 DEF ObserveEnd, Holds
    <3>3. \A d \in Days : outcome[d] # "none" <=> d < next
      BY <2>1, <3>1, <3>2 DEF DatesInv, Days
    <3> QED
      BY <3>1, <3>3, BoundsAssumption DEF Recorded, RunDays, Days
  <2> QED
    BY <1>5, <2>1 DEF ObserveEnd, Recorded, RunDays
<1>6. CASE Finish
  <2>1. status'.canceled = observed
    BY <1>6 DEF Finish, TypeOK, StatusType
  <2> QED
    BY <1>6, <2>1 DEF Finish, Recorded, RunDays, TypeOK
<1>7. ASSUME NEW w \in Workers, WorkerStep(w) PROVE EndInv'
  <2>1. main \in {"feed", "wait"} /\ main' = main /\ observed' = observed /\ ctxDone' = ctxDone
    BY <1>7 DEF PhaseInv, WorkerStep, WorkerStops, DropDay, EnterDay, Look, Refresh, Record, Leave, TypeOK
  <2> QED
    BY <2>1
<1> QED
  BY <1>1, <1>2, <1>3, <1>4, <1>5, <1>6, <1>7 DEF Next, MainStep

-----------------------------------------------------------------------------
(* Counting.                                                                *)

\* The sets that are counted are finite.
LEMMA Finite == /\ \A S : S \subseteq Days => IsFiniteSet(S)
                /\ \A S : S \subseteq Workers => IsFiniteSet(S)
<1>1. IsFiniteSet(Days) /\ IsFiniteSet(Workers)
  BY FS_Interval, BoundsAssumption DEF Days, Workers
<1> QED
  BY <1>1, FS_Subset

\* Recording a date counts it once, under its outcome.
LEMMA RecordCounts ==
  ASSUME TypeOK, DatesInv, CountsAgree, NEW w \in Workers, Record(w)
  PROVE  CountsAgree'
<1>1. PICK r \in Outcomes, d \in Days :
        worker[w].result = r /\ worker[w].day = d /\ outcome[d] = "none"
  BY DEF TypeOK, Record, InDay, DatesInv, Holds
<1>2. outcome' = [outcome EXCEPT ![d] = r] /\ outcome \in [Days -> Outcomes \cup {"none"}]
  BY <1>1 DEF Record, TypeOK
<1>3. /\ status'.processed = status.processed + 1 /\ status'.active = status.active
      /\ \A o \in Outcomes : status'.count[o] = IF o = r THEN status.count[o] + 1 ELSE status.count[o]
  BY <1>1 DEF Record, TypeOK, StatusType
<1>4. InRun' = InRun
  <2>1. worker'[w].at = "leave" /\ \A u \in Workers : u # w => worker'[u] = worker[u]
    BY DEF Record, TypeOK, WorkerType
  <2> QED
    BY <2>1 DEF Record, InRun, InDay
<1>5. Recorded' = Recorded \cup {d} /\ d \notin Recorded
  BY <1>1, <1>2 DEF Recorded, Outcomes
<1>6. With(r)' = With(r) \cup {d} /\ d \notin With(r)
  BY <1>1, <1>2 DEF With, Outcomes
<1>7. \A o \in Outcomes : o # r => With(o)' = With(o)
  BY <1>1, <1>2 DEF With, Outcomes
<1>8. IsFiniteSet(Recorded) /\ IsFiniteSet(With(r))
  BY Finite DEF Recorded, With
<1>9. Cardinality(Recorded') = Cardinality(Recorded) + 1 /\ Cardinality(With(r)') = Cardinality(With(r)) + 1
  BY <1>5, <1>6, <1>8, FS_AddElement
<1>10. \A o \in Outcomes : status'.count[o] = Cardinality(With(o)')
  BY <1>1, <1>3, <1>7, <1>9 DEF CountsAgree
<1> QED
  BY <1>3, <1>4, <1>9, <1>10 DEF CountsAgree

\* Steps that change neither outcomes nor the number of active workers.
LEMMA CountsKept ==
  ASSUME CountsAgree, outcome' = outcome, InRun' = InRun,
         status'.processed = status.processed, status'.count = status.count, status'.active = status.active
  PROVE  CountsAgree'
BY DEF CountsAgree, Recorded, With

\* The counters agree with what became of the dates.
LEMMA CountsStep == TypeOK /\ PhaseInv /\ DatesInv /\ CountsAgree /\ [Next]_vars => CountsAgree'
<1> SUFFICES ASSUME TypeOK, PhaseInv, DatesInv, CountsAgree, [Next]_vars PROVE CountsAgree'
  OBVIOUS
<1>1. ASSUME NEW o \in BuildOptions, Start(o) PROVE CountsAgree'
  <2>1. Recorded' = {} /\ InRun' = {} /\ \A r \in Outcomes : With(r)' = {}
    BY <1>1 DEF Start, Recorded, NoOutcome, With, Outcomes, PhaseInv, InRun, InDay, TypeOK
  <2>2. status'.processed = 0 /\ status'.active = 0 /\ \A r \in Outcomes : status'.count[r] = 0
    BY <1>1 DEF Start, FreshStatus
  <2> QED
    BY <2>1, <2>2, FS_EmptySet DEF CountsAgree
<1>2. CASE Cancel \/ IndexElsewhere \/ Close \/ ObserveEnd \/ Finish \/ UNCHANGED vars
  <2>1. outcome' = outcome /\ worker' = worker
    BY <1>2 DEF Cancel, IndexElsewhere, Close, ObserveEnd, Finish, vars
  <2>2. status'.processed = status.processed /\ status'.count = status.count /\ status'.active = status.active
    BY <1>2 DEF Cancel, IndexElsewhere, Close, ObserveEnd, Finish, vars, TypeOK, StatusType
  <2> QED
    BY <2>1, <2>2, CountsKept DEF InRun
<1>3. CASE Spawn
  <2>1. InRun' = InRun
    BY <1>3 DEF Spawn, InRun, InDay, PhaseInv, At
  <2> QED
    BY <1>3, <2>1, CountsKept DEF Spawn
<1>4. ASSUME NEW w \in Workers, Send(w) PROVE CountsAgree'
  <2>1. worker[w].at = "recv" /\ worker'[w].at = "begin" /\ \A u \in Workers : u # w => worker'[u] = worker[u]
    BY <1>4 DEF Send, TypeOK, WorkerType
  <2>2. InRun' = InRun
    BY <2>1 DEF InRun, InDay
  <2> QED
    BY <1>4, <2>2, CountsKept DEF Send
<1>5. ASSUME NEW w \in Workers, WorkerStops(w) \/ DropDay(w) \/ Look(w) \/ Refresh(w) PROVE CountsAgree'
  <2>1. \A u \in Workers : u # w => worker'[u] = worker[u]
    BY <1>5, WorkerMove DEF WorkerStep
  <2>2. worker'[w].at \in InDay <=> worker[w].at \in InDay
    <3>1. CASE WorkerStops(w) \/ DropDay(w)
      BY <3>1 DEF WorkerStops, DropDay, InDay, At, TypeOK
    <3>2. CASE Look(w) \/ Refresh(w)
      <4>1. worker[w] \in WorkerType /\ worker[w].at \in {"check", "refresh"}
        BY <3>2 DEF Look, Refresh, TypeOK
      <4>2. CASE worker' = [worker EXCEPT ![w] = [@ EXCEPT !.at = "refresh"]]
        BY <4>1, <4>2 DEF TypeOK, WorkerType, InDay
      <4>3. ASSUME NEW result \in Outcomes, Resolve(w, result)
            PROVE  worker'[w].at \in InDay /\ worker[w].at \in InDay
        BY <4>1, <4>3 DEF Resolve, TypeOK, WorkerType, InDay
      <4> QED
        BY <3>2, <4>1, <4>2, <4>3 DEF Look, Refresh, Outcomes
    <3> QED
      BY <1>5, <3>1, <3>2
  <2>3. InRun' = InRun
    BY <2>1, <2>2 DEF InRun
  <2>4. status' = status /\ outcome' = outcome
    BY <1>5 DEF WorkerStops, DropDay, Look, Refresh
  <2> QED
    BY <2>3, <2>4, CountsKept
<1>6. ASSUME NEW w \in Workers, EnterDay(w) PROVE CountsAgree'
  <2>1. worker[w].at = "begin" /\ worker'[w].at \in {"check", "refresh"}
    BY <1>6 DEF EnterDay, TypeOK, WorkerType
  <2>2. InRun' = InRun \cup {w} /\ w \notin InRun
    BY <1>6, <2>1, WorkerMove DEF InRun, InDay, WorkerStep
  <2>3. Cardinality(InRun') = Cardinality(InRun) + 1
    BY <2>2, Finite, FS_AddElement DEF InRun
  <2>4. /\ status'.active = status.active + 1 /\ outcome' = outcome
        /\ status'.processed = status.processed /\ status'.count = status.count
    BY <1>6 DEF EnterDay, TypeOK, StatusType
  <2> QED
    BY <2>3, <2>4 DEF CountsAgree, Recorded, With
<1>7. ASSUME NEW w \in Workers, Leave(w) PROVE CountsAgree'
  <2>1. worker[w].at = "leave" /\ worker'[w].at = "recv"
    BY <1>7 DEF Leave, At, TypeOK
  <2>2. InRun' = InRun \ {w} /\ w \in InRun
    BY <1>7, <2>1, WorkerMove DEF InRun, InDay, WorkerStep
  <2>3. Cardinality(InRun') = Cardinality(InRun) - 1 /\ Cardinality(InRun) # 0
    BY <2>2, Finite, FS_RemoveElement, FS_EmptySet DEF InRun
  <2>4. /\ status'.active = (IF status.active > 0 THEN status.active - 1 ELSE status.active)
        /\ outcome' = outcome /\ status'.processed = status.processed /\ status'.count = status.count
        /\ status.active \in Nat
    BY <1>7 DEF Leave, TypeOK, StatusType
  <2> QED
    BY <2>3, <2>4 DEF CountsAgree, Recorded, With
<1>8. ASSUME NEW w \in Workers, Record(w) PROVE CountsAgree'
  BY <1>8, RecordCounts
<1> QED
  BY <1>1, <1>2, <1>3, <1>4, <1>5, <1>6, <1>7, <1>8 DEF Next, MainStep, WorkerStep

-----------------------------------------------------------------------------
(* What follows for a run.                                                  *)

\* The invariant holds at first.
LEMMA InvInit == Init => BackfillInv
<1> SUFFICES ASSUME Init PROVE BackfillInv
  OBVIOUS
<1>1. ~status.running /\ ~status.stop /\ status.processed = 0 /\ status.active = 0
      /\ \A o \in Outcomes : status.count[o] = 0
  BY DEF Init, FreshStatus
<1>2. \A w \in Workers : worker[w].at = "off"
  BY DEF Init, At
<1>3. \A d \in Days : outcome[d] = "none" /\ d >= 1
  BY DEF Init, NoOutcome, Days
<1>4. Recorded = {} /\ InRun = {} /\ \A o \in Outcomes : With(o) = {}
  BY <1>2, <1>3 DEF Recorded, InRun, InDay, With, Outcomes
<1>5. PhaseInv
  BY <1>1, <1>2 DEF Init, PhaseInv
<1>6. DatesInv
  BY <1>2, <1>3 DEF Init, DatesInv, Holds, Days
<1>7. EndInv
  BY DEF Init, EndInv
<1>8. CountsAgree
  BY <1>1, <1>4, FS_EmptySet DEF CountsAgree
<1> QED
  BY <1>5, <1>6, <1>7, <1>8 DEF BackfillInv

\* Every date that was sent is accounted for, at every moment and whatever the
\* interleaving of the feeder, the workers and the administrator.
THEOREM Accounting == Spec => []BackfillInv
<1>1. TypeOK /\ BackfillInv /\ [Next]_vars => BackfillInv'
  BY PhaseStep, DatesStep, EndStep, CountsStep DEF BackfillInv
<1> QED
  BY <1>1, InvInit, TypeCorrect, PTL DEF Spec

\* The counters an administrator polls agree with what became of the dates.
THEOREM CountersAgree == Spec => []CountsAgree
<1>1. BackfillInv => CountsAgree
  BY DEF BackfillInv
<1> QED
  BY <1>1, Accounting, PTL

\* A run that ended and is not reported as canceled has handled every date.
THEOREM RunComplete == Spec => []FinishedRunComplete
<1>1. TypeOK /\ BackfillInv => FinishedRunComplete
  <2> SUFFICES ASSUME TypeOK, BackfillInv, ~status.running, runs > 0, ~status.canceled
               PROVE  Recorded = RunDays /\ status.processed = options.days
    BY DEF FinishedRunComplete
  <2>1. Recorded = RunDays /\ status.processed = Cardinality(Recorded)
    BY DEF BackfillInv, PhaseInv, EndInv, CountsAgree
  <2>2. options.days \in Nat
    BY BoundsAssumption DEF TypeOK, OptionsType
  <2>3. Cardinality(RunDays) = options.days
    BY <2>2, FS_Interval DEF RunDays
  <2> QED
    BY <2>1, <2>3
<1> QED
  BY <1>1, TypeCorrect, Accounting, PTL

\* When a run is reported as ended, none of its workers is left.
THEOREM NothingLeft == Spec => []NoWorkAfterFinish
<1>1. BackfillInv => NoWorkAfterFinish
  <2> SUFFICES ASSUME BackfillInv, ~status.running
               PROVE  (\A w \in Workers : worker[w].at = "off") /\ status.active = 0 /\ ~status.stop
    BY DEF NoWorkAfterFinish
  <2>1. \A w \in Workers : worker[w].at = "off"
    BY DEF BackfillInv, PhaseInv
  <2>2. InRun = {}
    BY <2>1 DEF InRun, InDay
  <2> QED
    BY <2>1, <2>2, FS_EmptySet DEF BackfillInv, PhaseInv, CountsAgree
<1> QED
  BY <1>1, Accounting, PTL

-----------------------------------------------------------------------------
(* A run is a BatchJob.                                                     *)

Left == RunDays \ Recorded

\* Steps that show nothing of the job.
LEMMA JobStutters ==
  ASSUME status'.running = status.running, status'.canceled = status.canceled,
         runs' = runs, options'.days = options.days, outcome' = outcome, ctxDone' = ctxDone
  PROVE  UNCHANGED Job!vars
BY DEF Job!vars, RunDays, Recorded

\* The initial state is one of the job.
LEMMA JobInit == Init => Job!Init
<1> SUFFICES ASSUME Init PROVE Job!Init
  OBVIOUS
<1>1. RunDays = {}
  BY DEF Init, RunDays
<1> QED
  BY <1>1 DEF Init, FreshStatus, Job!Init

\* Every step is one of the job, or shows nothing of it.
LEMMA JobStep == TypeOK /\ BackfillInv /\ [Next]_vars => [Job!Next]_(Job!vars)
<1> SUFFICES ASSUME TypeOK, BackfillInv, [Next]_vars PROVE Job!Next \/ UNCHANGED Job!vars
  OBVIOUS
<1> USE BoundsAssumption
<1>1. ASSUME NEW o \in BuildOptions, Start(o) PROVE Job!Begin
  <2>1. ~status.running /\ status'.running /\ ctxDone' = FALSE
    BY <1>1 DEF Start, FreshStatus
  <2>2. Recorded' = {}
    BY <1>1 DEF Start, Recorded, NoOutcome
  <2>3. RunDays' \in (SUBSET Days) \ {{}}
    <3>1. options'.days \in 1 .. MaxDays
      BY <1>1 DEF Start, BuildOptions, Days
    <3>2. RunDays' = 1 .. options'.days
      BY DEF RunDays
    <3>3. RunDays' \subseteq Days /\ 1 \in RunDays'
      BY <3>1, <3>2 DEF Days
    <3> QED
      BY <3>3
  <2> QED
    BY <2>1, <2>2, <2>3 DEF Job!Begin
<1>2. CASE Cancel
  <2>1. status.running /\ status'.running /\ ctxDone' = TRUE
    BY <1>2 DEF Cancel, TypeOK, StatusType
  <2>2. RunDays' = RunDays /\ Recorded' = Recorded
    BY <1>2 DEF Cancel, RunDays, Recorded
  <2> QED
    BY <2>1, <2>2 DEF Job!Next, Job!AskToStop
<1>3. CASE IndexElsewhere \/ Spawn \/ Close \/ ObserveEnd \/ (\E w \in Workers : Send(w)) \/ UNCHANGED vars
  BY <1>3, JobStutters DEF IndexElsewhere, Spawn, Close, ObserveEnd, Send, vars
<1>4. CASE Finish
  <2>1. status.running /\ ~status'.running /\ status'.canceled = observed /\ runs > 0 /\ runs' = runs
    BY <1>4 DEF Finish, BackfillInv, PhaseInv, TypeOK, StatusType
  <2>2. ctxDone' = ctxDone /\ RunDays' = RunDays /\ Recorded' = Recorded
    BY <1>4 DEF Finish, RunDays, Recorded
  <2>3. CASE observed
    <3>1. ctxDone
      BY <2>3 DEF BackfillInv, EndInv
    <3> QED
      BY <2>1, <2>2, <2>3, <3>1 DEF Job!Next, Job!Stop, TypeOK
  <2>4. CASE ~observed
    <3>1. Recorded = RunDays
      BY <1>4, <2>4 DEF Finish, BackfillInv, EndInv
    <3> QED
      BY <2>1, <2>2, <2>4, <3>1 DEF Job!Next, Job!Complete, TypeOK
  <2> QED
    BY <2>3, <2>4
<1>5. ASSUME NEW w \in Workers, Record(w) PROVE Job!Settle
  <2>1. PICK r \in Outcomes, d \in Days : worker[w].result = r /\ worker[w].day = d /\ Holds(w, d)
    BY <1>5 DEF TypeOK, Record, InDay, Holds
  <2>2. main \in {"feed", "wait"}
    BY <1>5 DEF Record, BackfillInv, PhaseInv, TypeOK
  <2>3. d \in RunDays
    BY <2>1, <2>2 DEF BackfillInv, DatesInv, PhaseInv, RunDays, Days, TypeOK
  <2>4. d \notin Recorded /\ Recorded' = Recorded \cup {d}
    BY <1>5, <2>1 DEF Record, BackfillInv, DatesInv, Recorded, TypeOK, Outcomes
  <2>5. status.running /\ status'.running /\ ctxDone' = ctxDone /\ RunDays' = RunDays
    BY <1>5, <2>2 DEF Record, BackfillInv, PhaseInv, RunDays, TypeOK, StatusType
  <2>6. d \in Left /\ (RunDays \ Recorded)' = Left \ {d}
    BY <2>3, <2>4, <2>5 DEF Left
  <2> QED
    BY <2>5, <2>6 DEF Job!Settle, Left
<1>6. ASSUME NEW w \in Workers,
             WorkerStops(w) \/ DropDay(w) \/ EnterDay(w) \/ Look(w) \/ Refresh(w) \/ Leave(w)
      PROVE  UNCHANGED Job!vars
  <2>1. status'.running = status.running /\ status'.canceled = status.canceled
    BY <1>6 DEF WorkerStops, DropDay, EnterDay, Look, Refresh, Leave, TypeOK, StatusType
  <2>2. runs' = runs /\ options' = options /\ outcome' = outcome /\ ctxDone' = ctxDone
    BY <1>6 DEF WorkerStops, DropDay, EnterDay, Look, Refresh, Leave
  <2> QED
    BY <2>1, <2>2, JobStutters
<1> QED
  BY <1>1, <1>2, <1>3, <1>4, <1>5, <1>6 DEF Next, MainStep, WorkerStep, Job!Next

\* The pool of workers settles each date once, and ends early only when asked.
THEOREM JobImplemented == Spec => ImplementsJob
<1> QED
  BY JobInit, JobStep, TypeCorrect, Accounting, PTL DEF Spec, ImplementsJob, Job!Spec
=============================================================================
