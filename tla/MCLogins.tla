------------------------------ MODULE MCLogins ------------------------------
(* Small instances of LoginLimiter and of Accounts, which share no state: a *)
(* behaviour is one of either, in which the other rests, with its servers   *)
(* up and no request begun.                                                 *)
EXTENDS LoginLimiter, Accounts, TLC

CONSTANTS a1, a2, ip1, u1, u2, t1, c1, c2, s1, s2, admin, other,
          Parts  \* of which modules there are behaviours

VARIABLE part

LoginsInit ==
  /\ part \in Parts /\ Init
  /\ IF part = "accounts" THEN AccountInit
     ELSE /\ users = <<>> /\ sessions = <<>>
          /\ host = [s \in Hosts |-> "up"] /\ client = [c \in Clients |-> ClientIdle]

LoginsNext == \/ part = "limiter" /\ Next /\ UNCHANGED <<part, accountVars>>
              \/ part = "accounts" /\ AccountNext /\ UNCHANGED <<part, vars>>

LoginsSpec == /\ LoginsInit /\ [][LoginsNext]_<<part, vars, accountVars>>
              /\ Fairness /\ AccountFairness
=============================================================================
