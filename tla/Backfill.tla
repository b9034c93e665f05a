------------------------------ MODULE Backfill ------------------------------
(***************************************************************************)
(* The backfill of the file index: an administrator starts a run over      *)
(* consecutive dates, a goroutine feeds them through an unbuffered channel *)
(* to a pool of workers, each refreshes the index of one date's directory  *)
(* at a time, and the administrator may cancel the run.                    *)
(*   src/backend/internal/httpapi/file_index_backfill.go                   *)
(*                                                                         *)
(* One action is one critical section of the runner's mutex, one call to   *)
(* the database or to R2, or one communication through the channel.  The   *)
(* reading of ctx.Err() at the start of a day is part of the critical      *)
(* section it precedes: a Cancel between them commutes with either.        *)
(*                                                                         *)
(* A date is its position in the run, from 1.  A run has at least one date *)
(* (buildIndexBackfillOptions rejects from > to), and the cancel function  *)
(* of the runner is set exactly while Running is.  A request to start a    *)
(* run while one is running, or to cancel when none is, changes nothing.   *)
(***************************************************************************)
EXTENDS Integers, FiniteSets

CONSTANTS MaxDays,     \* bound: dates of a run
          MaxWorkers,  \* indexBackfillMaxConcurrency
          MaxRuns,     \* bound: runs ever started
          Faults       \* the calls that may fail: "check" (PostgreSQL), "refresh" (R2 or PostgreSQL)

ASSUME BoundsAssumption == MaxDays \in Nat \ {0} /\ MaxWorkers \in Nat \ {0} /\ MaxRuns \in Nat
ASSUME FaultsAssumption == Faults \subseteq {"check", "refresh"}

\* A definition named MUTANT_D is D with a mistake the properties are to find.

VARIABLES
  status,   \* the fileIndexBackfillStatus of the runner
  options,  \* the fileIndexBackfillOptions of the run, also shown in its status
  ctxDone,  \* the run's context is canceled
  main,     \* where the goroutine of runIndexBackfill is
  next,     \* the date it sends next
  observed, \* the ctx.Err() its deferred function has read
  worker,   \* the workers of the run
  table,    \* the dates whose directories have a row in table file_index_dirs
  runs,     \* runs started
  outcome   \* history variable: what became of each date of the run

vars == <<status, options, ctxDone, main, next, observed, worker, table, runs, outcome>>

Days == 1 .. MaxDays
Workers == 1 .. MaxWorkers
Outcomes == {"indexed", "empty", "skipped", "failed"}

RunDays == 1 .. options.days
Recorded == {d \in Days : outcome[d] # "none"}
NoOutcome == [d \in Days |-> "none"]

FreshStatus == [running |-> TRUE, stop |-> FALSE, canceled |-> FALSE, active |-> 0,
                processed |-> 0, count |-> [o \in Outcomes |-> 0]]

\* A worker that has no date.
At(place) == [at |-> place, day |-> 0, result |-> "none"]

Init ==
  /\ status = [FreshStatus EXCEPT !.running = FALSE]
  /\ options = [days |-> 0, workers |-> 0, skip |-> TRUE]
  /\ ctxDone = FALSE /\ observed = FALSE
  /\ main = "none" /\ next = 1
  /\ worker = [w \in Workers |-> At("off")]
  /\ table \in SUBSET Days
  /\ runs = 0 /\ outcome = NoOutcome

-----------------------------------------------------------------------------
(* The administrator.                                                       *)

\* What buildIndexBackfillOptions accepts: at least one date, because from is
\* not after to, and a concurrency from 1 to indexBackfillMaxConcurrency.
BuildOptions == [days: Days, workers: Workers, skip: BOOLEAN]

Start(o) ==
  /\ ~status.running /\ runs < MaxRuns
  /\ status' = FreshStatus
  /\ options' = o
  /\ ctxDone' = FALSE /\ observed' = FALSE
  /\ main' = "spawn" /\ next' = 1
  /\ runs' = runs + 1 /\ outcome' = NoOutcome
  /\ UNCHANGED <<worker, table>>

Cancel ==
  /\ status.running
  /\ status' = [status EXCEPT !.stop = TRUE]
  /\ ctxDone' = TRUE
  /\ UNCHANGED <<options, main, next, observed, worker, table, runs, outcome>>

-----------------------------------------------------------------------------
(* The goroutine that feeds the workers: runIndexBackfill.                  *)

\* No more workers than dates.
Spawn ==
  /\ main = "spawn" /\ main' = "feed"
  /\ worker' = [w \in Workers |-> IF w <= options.workers /\ w <= options.days
                                  THEN At("recv") ELSE At("off")]
  /\ UNCHANGED <<status, options, ctxDone, next, observed, table, runs, outcome>>

\* An unbuffered channel hands a date over to a worker that is receiving.  The
\* select may choose this also when the context is canceled.
MUTANT_SendAgain(w) ==
  /\ main = "feed" /\ next <= options.days
  /\ worker[w].at = "recv"
  /\ worker' = [worker EXCEPT ![w] = [@ EXCEPT !.at = "begin", !.day = next]]
  /\ UNCHANGED <<status, options, ctxDone, main, next, observed, table, runs, outcome>>

MUTANT_SendBeyond(w) ==
  /\ main = "feed" /\ next <= options.days + 1
  /\ worker[w].at = "recv"
  /\ worker' = [worker EXCEPT ![w] = [@ EXCEPT !.at = "begin", !.day = next]]
  /\ next' = next + 1
  /\ UNCHANGED <<status, options, ctxDone, main, observed, table, runs, outcome>>

Send(w) ==
  /\ main = "feed" /\ next <= options.days
  /\ worker[w].at = "recv"
  /\ worker' = [worker EXCEPT ![w] = [@ EXCEPT !.at = "begin", !.day = next]]
  /\ next' = next + 1
  /\ UNCHANGED <<status, options, ctxDone, main, observed, table, runs, outcome>>

\* close(jobs), after the last date or when the context is canceled.
MUTANT_Close ==
  /\ main = "feed" /\ next > options.days
  /\ main' = "wait"
  /\ UNCHANGED <<status, options, ctxDone, next, observed, worker, table, runs, outcome>>

Close ==
  /\ main = "feed" /\ (next > options.days \/ ctxDone)
  /\ main' = "wait"
  /\ UNCHANGED <<status, options, ctxDone, next, observed, worker, table, runs, outcome>>

\* wg.Wait() returns, and the deferred function reads ctx.Err().
MUTANT_ObserveEnd ==
  /\ main = "wait"
  /\ main' = "finish" /\ observed' = ctxDone
  /\ UNCHANGED <<status, options, ctxDone, next, worker, table, runs, outcome>>

ObserveEnd ==
  /\ main = "wait" /\ \A w \in Workers : worker[w].at = "off"
  /\ main' = "finish" /\ observed' = ctxDone
  /\ UNCHANGED <<status, options, ctxDone, next, worker, table, runs, outcome>>

MUTANT_Finish ==
  /\ main = "finish" /\ main' = "none"
  /\ status' = [status EXCEPT !.running = FALSE, !.stop = FALSE]
  /\ UNCHANGED <<options, ctxDone, next, observed, worker, table, runs, outcome>>

\* A Cancel since ObserveEnd is not reported: canceled is what was read there.
Finish ==
  /\ main = "finish" /\ main' = "none"
  /\ status' = [status EXCEPT !.running = FALSE, !.stop = FALSE, !.canceled = observed]
  /\ UNCHANGED <<options, ctxDone, next, observed, worker, table, runs, outcome>>

-----------------------------------------------------------------------------
(* The workers: the goroutines of runIndexBackfill and runIndexBackfillDay. *)

\* The channel is closed or the context is canceled.
WorkerStops(w) ==
  /\ worker[w].at = "recv" /\ (main = "wait" \/ ctxDone)
  /\ worker' = [worker EXCEPT ![w] = At("off")]
  /\ UNCHANGED <<status, options, ctxDone, main, next, observed, table, runs, outcome>>

\* A date received after the context was canceled is given up, and not counted.
DropDay(w) ==
  /\ worker[w].at = "begin" /\ ctxDone
  /\ worker' = [worker EXCEPT ![w] = At("recv")]
  /\ UNCHANGED <<status, options, ctxDone, main, next, observed, table, runs, outcome>>

EnterDay(w) ==
  /\ worker[w].at = "begin" /\ ~ctxDone
  /\ worker' = [worker EXCEPT ![w] = [@ EXCEPT !.at = IF options.skip THEN "check" ELSE "refresh"]]
  /\ status' = [status EXCEPT !.active = @ + 1]
  /\ UNCHANGED <<options, ctxDone, main, next, observed, table, runs, outcome>>

\* A call may fail by itself, or because the context is canceled before it ends.
MayFail(call) == call \in Faults \/ ctxDone

Resolve(w, result) ==
  worker' = [worker EXCEPT ![w] = [@ EXCEPT !.at = "record", !.result = result]]

\* DirectoryIndexed.
Look(w) ==
  /\ worker[w].at = "check"
  /\ \/ MayFail("check") /\ Resolve(w, "failed")
     \/ worker[w].day \in table /\ Resolve(w, "skipped")
     \/ /\ worker[w].day \notin table
        /\ worker' = [worker EXCEPT ![w] = [@ EXCEPT !.at = "refresh"]]
  /\ UNCHANGED <<status, options, ctxDone, main, next, observed, table, runs, outcome>>

\* refreshDirectoryIndex: an empty listing adds no row and removes none.
Refresh(w) ==
  /\ worker[w].at = "refresh"
  /\ \/ MayFail("refresh") /\ Resolve(w, "failed") /\ UNCHANGED table
     \/ Resolve(w, "empty") /\ UNCHANGED table
     \/ Resolve(w, "indexed") /\ table' = table \cup {worker[w].day}
  /\ UNCHANGED <<status, options, ctxDone, main, next, observed, runs, outcome>>

MUTANT_Record(w) ==
  /\ worker[w].at = "record"
  /\ status' = [status EXCEPT !.count[worker[w].result] = @ + 1,
                  !.processed = IF worker[w].result = "skipped" THEN @ ELSE @ + 1]
  /\ outcome' = [outcome EXCEPT ![worker[w].day] = worker[w].result]
  /\ worker' = [worker EXCEPT ![w] = [@ EXCEPT !.at = "leave"]]
  /\ UNCHANGED <<options, ctxDone, main, next, observed, table, runs>>

Record(w) ==
  /\ worker[w].at = "record"
  /\ status' = [status EXCEPT !.processed = @ + 1, !.count[worker[w].result] = @ + 1]
  /\ outcome' = [outcome EXCEPT ![worker[w].day] = worker[w].result]
  /\ worker' = [worker EXCEPT ![w] = [@ EXCEPT !.at = "leave"]]
  /\ UNCHANGED <<options, ctxDone, main, next, observed, table, runs>>

\* The deferred update that ends a date, then the worker receives again.
Leave(w) ==
  /\ worker[w].at = "leave"
  /\ status' = [status EXCEPT !.active = IF @ > 0 THEN @ - 1 ELSE @]
  /\ worker' = [worker EXCEPT ![w] = At("recv")]
  /\ UNCHANGED <<options, ctxDone, main, next, observed, table, runs, outcome>>

\* The refresher of today's directory or a refresh request of an administrator
\* indexes the directory of a date meanwhile.
IndexElsewhere ==
  /\ \E d \in Days \ table : table' = table \cup {d}
  /\ UNCHANGED <<status, options, ctxDone, main, next, observed, worker, runs, outcome>>

-----------------------------------------------------------------------------
MainStep == Spawn \/ (\E w \in Workers : Send(w)) \/ Close \/ ObserveEnd \/ Finish
WorkerStep(w) == \/ WorkerStops(w) \/ DropDay(w) \/ EnterDay(w) \/ Look(w)
                 \/ Refresh(w) \/ Record(w) \/ Leave(w)

Next == \/ \E o \in BuildOptions : Start(o)
        \/ Cancel \/ IndexElsewhere \/ MainStep
        \/ \E w \in Workers : WorkerStep(w)

Spec == Init /\ [][Next]_vars

\* A goroutine that can run does run, and calls return.  Nobody has to cancel.
Fairness == WF_vars(MainStep) /\ \A w \in Workers : WF_vars(WorkerStep(w))

FairSpec == Spec /\ Fairness

-----------------------------------------------------------------------------
(* Properties.                                                              *)

\* A worker between the two updates of ActiveWorkers.
Places == {"off", "recv", "begin", "check", "refresh", "record", "leave"}
InDay == {"check", "refresh", "record", "leave"}
InRun == {w \in Workers : worker[w].at \in InDay}
With(o) == {d \in Days : outcome[d] = o}

StatusType == [running: BOOLEAN, stop: BOOLEAN, canceled: BOOLEAN, active: Nat,
               processed: Nat, count: [Outcomes -> Nat]]
OptionsType == [days: 0 .. MaxDays, workers: 0 .. MaxWorkers, skip: BOOLEAN]
WorkerType == [at: Places, day: 0 .. MaxDays, result: Outcomes \cup {"none"}]

\* Every variable has its type, and a result to be recorded is one.
TypeOK ==
  /\ status \in StatusType /\ options \in OptionsType
  /\ ctxDone \in BOOLEAN /\ observed \in BOOLEAN
  /\ main \in {"none", "spawn", "feed", "wait", "finish"} /\ next \in 1 .. MaxDays + 1
  /\ worker \in [Workers -> WorkerType]
  /\ table \subseteq Days /\ runs \in Nat
  /\ outcome \in [Days -> Outcomes \cup {"none"}]
  /\ \A w \in Workers : /\ worker[w].at \in InDay \cup {"begin"} => worker[w].day \in Days
                        /\ worker[w].at = "record" => worker[w].result \in Outcomes

\* The counters an administrator polls agree with each other and with what
\* became of the dates, at every moment: no date is counted twice, whatever
\* worker handled it (file_index_backfill.go:363-428).
CountsAgree ==
  /\ status.processed = Cardinality(Recorded)
  /\ \A o \in Outcomes : status.count[o] = Cardinality(With(o))
  /\ status.active = Cardinality(InRun)

\* A run that ended and is not reported as canceled has handled every date,
\* also when it was canceled too late to matter (file_index_backfill.go:289).
FinishedRunComplete ==
  ~status.running /\ runs > 0 /\ ~status.canceled =>
     Recorded = RunDays /\ status.processed = options.days

\* When a run is reported as ended no worker of it is left that could change
\* the status of the next run (file_index_backfill.go:340, 346).
NoWorkAfterFinish ==
  ~status.running => /\ \A w \in Workers : worker[w].at = "off"
                     /\ status.active = 0 /\ ~status.stop

\* A run ends, canceled or not: the feeder is never left waiting for workers
\* that have stopped (file_index_backfill.go:313-323, 337-343).
RunEnds == status.running ~> ~status.running

-----------------------------------------------------------------------------
(* Why they hold: an inductive invariant.                                   *)

Holds(w, d) == worker[w].at \in {"begin", "check", "refresh", "record"} /\ worker[w].day = d

\* Workers run only while the goroutine of the run feeds them or waits for them.
PhaseInv ==
  /\ status.running <=> main # "none"
  /\ main \in {"none", "spawn", "finish"} => \A w \in Workers : worker[w].at = "off"
  /\ main = "spawn" => next = 1
  /\ main # "none" => runs > 0 /\ options.days \in Days /\ next <= options.days + 1
  /\ main \in {"wait", "finish"} => next = options.days + 1 \/ ctxDone
  /\ ~status.running => ~status.stop

\* A date that was sent is recorded, or held by one worker that has not recorded
\* it, unless the run is canceled; no other date is recorded or held.
DatesInv ==
  /\ \A d \in Days : d >= next => outcome[d] = "none"
  /\ \A w \in Workers, d \in Days : Holds(w, d) => d < next /\ outcome[d] = "none"
  /\ \A v, w \in Workers, d \in Days : Holds(v, d) /\ Holds(w, d) => v = w
  /\ \A d \in Days : d < next /\ ~ctxDone => outcome[d] # "none" \/ \E w \in Workers : Holds(w, d)

\* What the run will report.
EndInv ==
  /\ main = "finish" /\ ~observed => Recorded = RunDays
  /\ observed => ctxDone
  /\ main = "none" /\ runs > 0 => (status.canceled <=> observed)
  /\ main = "none" /\ runs > 0 /\ ~status.canceled => Recorded = RunDays

BackfillInv == PhaseInv /\ DatesInv /\ EndInv /\ CountsAgree

-----------------------------------------------------------------------------
(* A run is a BatchJob over its dates.                                      *)

Job == INSTANCE BatchJob
  WITH Items <- Days,
       phase <- IF status.running THEN "running" ELSE IF runs = 0 THEN "idle"
                ELSE IF status.canceled THEN "stopped" ELSE "complete",
       left <- RunDays \ Recorded,
       asked <- ctxDone

\* The pool of workers settles each date once, and ends early only when asked.
ImplementsJob == Job!Spec
=============================================================================
