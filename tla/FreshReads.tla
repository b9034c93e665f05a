----------------------------- MODULE FreshReads -----------------------------
(***************************************************************************)
(* What the version-keyed caches of the backend promise their callers.    *)
(*                                                                         *)
(* A table is changed by administrators and read by requests through a    *)
(* cache.  A change is acknowledged when the administrator gets a success *)
(* answer.  A request may decide on any content the table has had, but on  *)
(* none older than the last change acknowledged before the request began. *)
(*                                                                         *)
(* The module names no code: DirectoryAccess (rules of protected           *)
(* directories) is shown to implement it.                                  *)
(***************************************************************************)
EXTENDS Naturals, Sequences

CONSTANTS Readers,    \* request slots
          Contents,   \* the contents the table may have
          Initial     \* its first content

VARIABLES history,    \* every content the table has had, oldest first
          acked,      \* the latest acknowledged position of history
          reader      \* what each request has been promised and has used

vars == <<history, acked, reader>>

Idle == [phase |-> "idle"]
Open(n) == [phase |-> "open", floor |-> n]
Decided(n, content) == [phase |-> "decided", floor |-> n, used |-> content]

Init == /\ history = <<Initial>>
        /\ acked = 1
        /\ reader = [r \in Readers |-> Idle]

\* An administrator's change takes effect in the table.
Newest(h) == h[Len(h)]
Change == /\ Newest(history') \in Contents
          /\ history' = Append(history, Newest(history'))
          /\ UNCHANGED <<acked, reader>>

\* An administrator is told that every change up to the n-th is in force.
Acknowledge == /\ \E n \in acked .. Len(history) : acked' = n
               /\ UNCHANGED <<history, reader>>

\* A request arrives: the changes acknowledged by now bind it.
Begin(r) == /\ reader[r] = Idle
            /\ reader' = [reader EXCEPT ![r] = Open(acked)]
            /\ UNCHANGED <<history, acked>>

\* It decides on a content that is no older than its floor.
Decide(r) == /\ reader[r].phase = "open"
             /\ \E n \in reader[r].floor .. Len(history) :
                   reader' = [reader EXCEPT
                                ![r] = Decided(reader[r].floor, history[n])]
             /\ UNCHANGED <<history, acked>>

\* Requests end: one that was answered or failed, or all those of a server
\* that stopped.
End == /\ \E ended \in SUBSET Readers :
             reader' = [r \in Readers |-> IF r \in ended THEN Idle ELSE reader[r]]
       /\ UNCHANGED <<history, acked>>

Next == \/ Change \/ Acknowledge \/ End
        \/ \E r \in Readers : Begin(r) \/ Decide(r)

Spec == Init /\ [][Next]_vars
=============================================================================
