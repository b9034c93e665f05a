------------------------------ MODULE LogFile ------------------------------
(***************************************************************************)
(* The log file of a server: a line is appended to the active file, which  *)
(* is archived when the day or its size is over, and old archives are      *)
(* removed.                                                                *)
(*   src/backend/cmd/server/logging.go, lines 30-224                       *)
(*                                                                         *)
(* One action is one call of the file system, any of which may fail, and   *)
(* the process may stop between two of them and start again.  The mutex is *)
(* held throughout a Write, so that there is one at a time; what a line    *)
(* says is left out.                                                       *)
(***************************************************************************)
EXTENDS Integers, FiniteSets, Functions

CONSTANTS LineSizes,   \* sizes of lines in bytes
          MaxSize,     \* PANSHOW_LOG_MAX_SIZE_MB
          MaxBackups,  \* PANSHOW_LOG_MAX_BACKUPS, 0 for no limit
          MaxAge,      \* PANSHOW_LOG_MAX_AGE_DAYS, 0 for no limit
          DaySeconds,  \* seconds of a day
          CallsFail,   \* whether calls may fail in this instance
          MaxLines,    \* bound: writes to the active file
          MaxSeconds   \* bound: the last second

ASSUME PolicyAssumption == /\ MaxSize \in Nat \ {0} /\ LineSizes \subseteq Nat \ {0}
                           /\ MaxBackups \in Nat /\ MaxAge \in Nat
ASSUME TimeAssumption == /\ DaySeconds \in Nat \ {0} /\ MaxSeconds \in Nat
                         /\ MaxLines \in Nat /\ CallsFail \in BOOLEAN

\* A definition named MUTANT_D is D with a mistake the properties are to find.

VARIABLES second,    \* the clock
          active,    \* panshow.log
          archives,  \* the archives: name -> file, for those that exist
          writer,    \* rotatingLogWriter
          write,     \* the call of Write that holds the mutex
          stored     \* history: line -> when it was seen and stored, for those Write answered with n

logVars == <<second, active, archives, writer, write, stored>>

dayKey(t) == t \div DaySeconds

\* No file and an empty one are the same to the code.  A file knows the number of
\* the last write to it (or before it, if empty), its ModTime, and whether a write
\* went on over midnight.
Empty == [bytes |-> 0, lines |-> {}, last |-> 0, modTime |-> 0, late |-> FALSE]

WriteIdle == [phase |-> "idle", size |-> 0, now |-> 0, rotating |-> FALSE]

MUTANT_Opened ==
  [file |-> "open", size |-> active.bytes, openedDay |-> dayKey(second)]

Opened == [file |-> "open", size |-> active.bytes,
           openedDay |-> dayKey(IF active.bytes > 0 THEN active.modTime ELSE second)]

LogInit == /\ second = 0
           /\ active = Empty /\ archives = <<>>
           /\ writer = Opened /\ write = WriteIdle
           /\ stored = <<>>

Proceed(phase) == write' = [write EXCEPT !.phase = phase]
Answer == write' = WriteIdle

\* The line is lost to the file; it was also written to the standard output.
Fail == CallsFail /\ Answer

-----------------------------------------------------------------------------
(* Write.                                                                   *)

BeginWrite ==
  /\ write = WriteIdle /\ active.last < MaxLines
  /\ \E n \in LineSizes : write' = [WriteIdle EXCEPT
       !.phase = IF writer.file = "nil" THEN "open" ELSE "check", !.size = n]
  /\ UNCHANGED <<second, active, archives, writer, stored>>

\* open: the directories, the file and its FileInfo.
OpenFile ==
  /\ write.phase = "open"
  /\ \/ writer' = Opened /\ Proceed(IF write.rotating THEN "cleanup" ELSE "check")
     \/ Fail /\ UNCHANGED writer
  /\ UNCHANGED <<second, active, archives, stored>>

shouldRotate(now) ==
  /\ writer.size > 0
  /\ writer.openedDay # dayKey(now) \/ writer.size + write.size > MaxSize

Check ==
  /\ write.phase = "check"
  /\ write' = [write EXCEPT !.now = second, !.rotating = shouldRotate(second),
                            !.phase = IF shouldRotate(second) THEN "close" ELSE "append"]
  /\ UNCHANGED <<second, active, archives, writer, stored>>

\* A file whose Close failed is not forgotten, and never closes again.
CloseFile ==
  /\ write.phase = "close"
  /\ \/ writer.file = "open" /\ writer' = [writer EXCEPT !.file = "nil"] /\ Proceed("rename")
     \/ Fail /\ writer' = [writer EXCEPT !.file = "broken"]
     \/ writer.file = "broken" /\ Answer /\ UNCHANGED writer
  /\ UNCHANGED <<second, active, archives, stored>>

\* The second of an archive's name, and the number that is added where there is
\* one of that second.
MUTANT_archivePath(now) == <<now, 0>>

archivePath(now) ==
  CHOOSE name \in {now} \X (0 .. Cardinality(DOMAIN archives)) :
    /\ name \notin DOMAIN archives
    /\ \A i \in 0 .. name[2] - 1 : <<now, i>> \in DOMAIN archives

RenameFile ==
  /\ write.phase = "rename"
  /\ \/ /\ active.bytes > 0
        /\ LET name == archivePath(write.now)
           IN  archives' = [a \in DOMAIN archives \cup {name} |->
                              IF a = name THEN active ELSE archives[a]]
        /\ active' = [Empty EXCEPT !.last = active.last] /\ Proceed("open")
     \/ Fail /\ UNCHANGED <<active, archives>>
  /\ UNCHANGED <<second, writer, stored>>

Newer(a) == {b \in DOMAIN archives : archives[b].last > archives[a].last}

TooMany(a) == MaxBackups > 0 /\ Cardinality(Newer(a)) >= MaxBackups
TooOld(t, now) == MaxAge > 0 /\ t < now - MaxAge * DaySeconds

\* cleanupArchives removes one after the other, the newest of them first.
RemoveArchive ==
  LET old == {a \in DOMAIN archives : TooMany(a) \/ TooOld(archives[a].modTime, write.now)}
  IN  /\ write.phase = "cleanup"
      /\ \/ old = {} /\ Proceed("append") /\ UNCHANGED archives
         \/ \E a \in old :
              /\ \A b \in old \ {a} : archives[b].last < archives[a].last
              /\ archives' = Restrict(archives, DOMAIN archives \ {a}) /\ UNCHANGED write
         \/ Fail /\ UNCHANGED archives
      /\ UNCHANGED <<second, active, writer, stored>>

\* file.Write, which may fail with some of the bytes written.
AppendLine ==
  LET n == active.last + 1
      Grown(bytes, lines) ==
        /\ active' = [bytes |-> active.bytes + bytes, lines |-> active.lines \cup lines,
                      last |-> n, modTime |-> second,
                      late |-> active.late \/ dayKey(write.now) # dayKey(second)]
        /\ writer' = [writer EXCEPT !.size = @ + bytes]
  IN  /\ write.phase = "append"
      /\ \/ /\ writer.file = "open"
            /\ Grown(write.size, {n}) /\ Answer
            /\ stored' = [m \in DOMAIN stored \cup {n} |-> IF m = n THEN write.now ELSE stored[m]]
         \/ /\ writer.file = "open"
            /\ \E part \in 1 .. write.size - 1 : Grown(part, {})
            /\ Fail /\ UNCHANGED stored
         \/ Fail /\ UNCHANGED <<active, writer, stored>>
         \/ writer.file = "broken" /\ Answer /\ UNCHANGED <<active, writer, stored>>
      /\ UNCHANGED <<second, archives>>

-----------------------------------------------------------------------------
\* The process stops, and starts again with newRotatingLogWriter.
Restart ==
  /\ CallsFail
  /\ writer' = Opened /\ write' = WriteIdle
  /\ UNCHANGED <<second, active, archives, stored>>

Second == /\ second < MaxSeconds
          /\ second' = second + 1
          /\ UNCHANGED <<active, archives, writer, write, stored>>

LogNext ==
  \/ BeginWrite \/ OpenFile \/ Check \/ CloseFile \/ RenameFile \/ RemoveArchive \/ AppendLine
  \/ Restart \/ Second

LogSpec == LogInit /\ [][LogNext]_logVars

-----------------------------------------------------------------------------
(* Properties.                                                              *)

File == [bytes: Nat, lines: SUBSET Nat, last: Nat, modTime: Nat, late: BOOLEAN]

\* Every variable has its type.
LogTypeOK ==
  /\ second \in Nat /\ active \in File
  /\ DOMAIN archives \subseteq Nat \X Nat
  /\ \A a \in DOMAIN archives : archives[a] \in File
  /\ writer \in [file: {"nil", "open", "broken"}, size: Nat, openedDay: Nat]
  /\ write \in [phase: {"idle", "open", "check", "close", "rename", "cleanup", "append"},
                size: LineSizes \cup {0}, now: Nat, rotating: BOOLEAN]
  /\ DOMAIN stored \subseteq Nat /\ \A n \in DOMAIN stored : stored[n] \in Nat

\* A line that was stored is still in a file, unless as many archives as are kept
\* have newer lines or the line is as old as an archive may get: no archive is
\* overwritten by another of the same second, and none is removed for one that
\* is not there, whichever call failed and wherever the process stopped
\* (logging.go:147-222; README.md:164).
LinesKept ==
  \A n \in DOMAIN stored :
    \/ n \in active.lines \/ \E a \in DOMAIN archives : n \in archives[a].lines
    \/ MaxBackups > 0 /\ Cardinality({a \in DOMAIN archives : archives[a].last > n}) >= MaxBackups
    \/ TooOld(stored[n], second)

\* A file has lines of one day only, and more bytes than the limit only where they
\* are one line: also after a restart, or a rotation that failed and is tried
\* again, when the day and the size are those of the file that was found.  Where
\* a write went on over midnight the file may go on into that day
\* (logging.go:112-146).
FilesBounded ==
  \A f \in {active} \cup {archives[a] : a \in DOMAIN archives} :
    /\ f.late \/ \A m, n \in f.lines : dayKey(stored[m]) = dayKey(stored[n])
    /\ f.bytes > MaxSize => Cardinality(f.lines) <= 1
=============================================================================
