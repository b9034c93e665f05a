------------------------------ MODULE BatchJob ------------------------------
(***************************************************************************)
(* What an administrator may expect of a job that works through a set of   *)
(* items in the background: an item is settled once, a job that says it is *)
(* complete has settled every item, and only a job that was asked to stop  *)
(* ends before.  Implemented by Backfill.                                  *)
(***************************************************************************)
CONSTANT Items

VARIABLES phase,  \* "idle", "running", "complete" or "stopped"
          left,   \* the items that are not settled
          asked   \* the job was asked to stop

vars == <<phase, left, asked>>

Init == phase = "idle" /\ left = {} /\ asked = FALSE

Begin == /\ phase # "running"
         /\ phase' = "running" /\ left' \in (SUBSET Items) \ {{}} /\ asked' = FALSE

Settle == /\ phase = "running"
          /\ \E i \in left : left' = left \ {i}
          /\ UNCHANGED <<phase, asked>>

AskToStop == /\ phase = "running"
             /\ asked' = TRUE
             /\ UNCHANGED <<phase, left>>

Complete == /\ phase = "running" /\ left = {}
            /\ phase' = "complete"
            /\ UNCHANGED <<left, asked>>

Stop == /\ phase = "running" /\ asked
        /\ phase' = "stopped"
        /\ UNCHANGED <<left, asked>>

Next == Begin \/ Settle \/ AskToStop \/ Complete \/ Stop

Spec == Init /\ [][Next]_vars
=============================================================================
