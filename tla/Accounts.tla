------------------------------ MODULE Accounts ------------------------------
(***************************************************************************)
(* Accounts and sessions: the users in PostgreSQL, the sessions in Redis,  *)
(* the requests that log in, log out and manage users, and the servers,    *)
(* each of which makes sure when it starts that there is an administrator. *)
(*   src/backend/internal/httpapi/router.go, lines 152-202, 522-598 and    *)
(*     875-955                                                             *)
(*   src/backend/internal/session/redis_store.go, lines 48-54, 75-89       *)
(*   src/backend/cmd/server/main.go, lines 35-102                          *)
(*                                                                         *)
(* One action is one call to PostgreSQL or Redis.  Passwords are left out: *)
(* whoever logs in knows theirs, and how often one may fail to is          *)
(* LoginLimiter.  A row knows how often it was changed.                    *)
(***************************************************************************)
EXTENDS Integers, FiniteSets, Functions

CONSTANTS Names,        \* user names
          InitialName,  \* PANSHOW_ADMIN_USERNAME
          Tokens,       \* of sessions
          Clients,      \* slots for requests
          Hosts,        \* servers
          CallsMayFail, \* whether calls may fail in this instance
          MaxUpdates    \* bound: changes of one user

ASSUME NamesAssumption == InitialName \in Names /\ IsFiniteSet(Names)
ASSUME UpdatesAssumption == MaxUpdates \in Nat /\ CallsMayFail \in BOOLEAN

\* A definition named MUTANT_D is D with a mistake the properties are to find.

VARIABLES users,     \* user name -> row, for those that exist
          sessions,  \* token -> user name, for those that exist in Redis
          host,      \* where each server is in its life
          client     \* the request in each slot

accountVars == <<users, sessions, host, client>>

User(role) == [role |-> role, active |-> TRUE, changes |-> 0]
Put(f, k, v) == [j \in DOMAIN f \cup {k} |-> IF j = k THEN v ELSE f[j]]

AnyAdmin == \E n \in DOMAIN users : users[n].role = "admin"

ClientIdle == [phase |-> "idle"]
Done(c) == client' = [client EXCEPT ![c] = ClientIdle]
Becomes(c, state) == client' = [client EXCEPT ![c] = state]

AccountInit == /\ users = <<>> /\ sessions = <<>>
               /\ host = [s \in Hosts |-> "down"]
               /\ client = [c \in Clients |-> ClientIdle]

-----------------------------------------------------------------------------
(* A server starts: ensureInitialAdmin.  After an error it is down, and is   *)
(* started again.  A name and a password for the administrator are           *)
(* configured: without either there is nothing to do (main.go:80-82).        *)

\* Administrators are counted who cannot log in, too.
MUTANT_CountAdmins(s) ==
  /\ host[s] = "down"
  /\ LET some == \E n \in DOMAIN users : users[n].role = "admin" /\ users[n].active
     IN  host' = [host EXCEPT ![s] = IF some THEN "up" ELSE "create"]
  /\ UNCHANGED <<users, sessions, client>>

CountAdmins(s) ==
  /\ host[s] = "down"
  /\ \/ host' = [host EXCEPT ![s] = IF AnyAdmin THEN "up" ELSE "create"]
     \/ CallsMayFail /\ UNCHANGED host
  /\ UNCHANGED <<users, sessions, client>>

MUTANT_CreateInitialAdmin(s) ==
  /\ host[s] = "create"
  /\ users' = Put(users, InitialName, User("admin"))
  /\ host' = [host EXCEPT ![s] = "up"]
  /\ UNCHANGED <<sessions, client>>

\* User names are unique: if this one is taken, the server cannot start.
CreateInitialAdmin(s) ==
  /\ host[s] = "create"
  /\ \/ /\ InitialName \notin DOMAIN users
        /\ users' = Put(users, InitialName, User("admin"))
        /\ host' = [host EXCEPT ![s] = "up"]
     \/ /\ InitialName \in DOMAIN users \/ CallsMayFail
        /\ host' = [host EXCEPT ![s] = "down"] /\ UNCHANGED users
  /\ UNCHANGED <<sessions, client>>

Stop(s) == /\ host[s] = "up"
           /\ host' = [host EXCEPT ![s] = "down"]
           /\ UNCHANGED <<users, sessions, client>>

AnyUp == \E s \in Hosts : host[s] = "up"

-----------------------------------------------------------------------------
(* Login.  The row is read before the password is checked, and the session  *)
(* is created after.                                                        *)

Login(c) ==
  /\ client[c] = ClientIdle /\ AnyUp
  /\ \E n \in DOMAIN users : users[n].active /\ Becomes(c, [phase |-> "login", name |-> n])
  /\ UNCHANGED <<users, sessions, host>>

StartSession(c) ==
  /\ client[c].phase = "login"
  /\ \/ \E t \in Tokens \ DOMAIN sessions : sessions' = Put(sessions, t, client[c].name)
     \/ CallsMayFail /\ UNCHANGED sessions
  /\ Done(c)
  /\ UNCHANGED <<users, host>>

\* The TTL of a session, which no request extends.
SessionExpires(t) == /\ t \in DOMAIN sessions
                     /\ sessions' = Restrict(sessions, DOMAIN sessions \ {t})
                     /\ UNCHANGED <<users, host, client>>

-----------------------------------------------------------------------------
(* A request with a token: authRequired, adminRequired and the handlers.    *)

BeginRequest(c) ==
  /\ client[c] = ClientIdle /\ AnyUp
  /\ \E t \in Tokens : Becomes(c, [phase |-> "token", token |-> t, begun |-> [n \in DOMAIN users |-> users[n].changes]])
  /\ UNCHANGED <<users, sessions, host>>

ReadSession(c) ==
  LET h == client[c]
  IN  /\ h.phase = "token"
      /\ \/ h.token \in DOMAIN sessions /\
              Becomes(c, [phase |-> "user", token |-> h.token, begun |-> h.begun,
                          name |-> sessions[h.token]])
         \/ (h.token \notin DOMAIN sessions \/ CallsMayFail) /\ Done(c)
      /\ UNCHANGED <<users, sessions, host>>

MUTANT_ReadUser(c) ==
  LET h == client[c]
  IN  /\ h.phase = "user"
      /\ Becomes(c, [phase |-> "handler", token |-> h.token, begun |-> h.begun, name |-> h.name,
                     row |-> users[h.name]])
      /\ UNCHANGED <<users, sessions, host>>

\* The row is read for every request, so that a session gives nothing of its own.
ReadUser(c) ==
  LET h == client[c]
  IN  /\ h.phase = "user"
      /\ \/ users[h.name].active /\
              Becomes(c, [phase |-> "handler", token |-> h.token, begun |-> h.begun,
                          name |-> h.name, row |-> users[h.name]])
         \/ (~users[h.name].active \/ CallsMayFail) /\ Done(c)
      /\ UNCHANGED <<users, sessions, host>>

\* An error of Redis is ignored: the answer is ok and the session stays.
Logout(c) ==
  LET t == client[c].token
  IN  /\ client[c].phase = "handler"
      /\ \/ sessions' = Restrict(sessions, DOMAIN sessions \ {t})
         \/ CallsMayFail /\ UNCHANGED sessions
      /\ Done(c)
      /\ UNCHANGED <<users, host>>

\* me, a handler of another module, or one whose call to the database fails.
OtherHandler(c) == client[c].phase = "handler" /\ Done(c) /\ UNCHANGED <<users, sessions, host>>

MayManage(c) == client[c].phase = "handler" /\ client[c].row.role = "admin"

CreateUser(c) ==
  /\ MayManage(c)
  /\ \E n \in Names, role \in {"admin", "user"} :
       n \notin DOMAIN users /\ users' = Put(users, n, User(role))
  /\ Done(c)
  /\ UNCHANGED <<sessions, host>>

\* Role or state of any user, one's own and the last administrator's too.
UpdateUser(c) ==
  /\ MayManage(c)
  /\ \E n \in DOMAIN users, role \in {"admin", "user"}, active \in BOOLEAN :
       /\ users[n].changes < MaxUpdates
       /\ users' = [users EXCEPT ![n] = [role |-> role, active |-> active, changes |-> @.changes + 1]]
  /\ Done(c)
  /\ UNCHANGED <<sessions, host>>

-----------------------------------------------------------------------------
AccountNext ==
  \/ \E s \in Hosts : CountAdmins(s) \/ CreateInitialAdmin(s) \/ Stop(s)
  \/ \E c \in Clients : \/ Login(c) \/ StartSession(c)
                        \/ BeginRequest(c) \/ ReadSession(c) \/ ReadUser(c)
                        \/ Logout(c) \/ OtherHandler(c) \/ CreateUser(c) \/ UpdateUser(c)
  \/ \E t \in Tokens : SessionExpires(t)

AccountSpec == AccountInit /\ [][AccountNext]_accountVars

\* A server that is down is started, and a database that is asked again and again
\* answers in the end.
AccountFairness ==
  \A s \in Hosts : /\ WF_accountVars(CountAdmins(s)) /\ WF_accountVars(CreateInitialAdmin(s))
                   /\ SF_accountVars(CreateInitialAdmin(s) /\ host'[s] = "up")

-----------------------------------------------------------------------------
(* Properties.                                                              *)

UserType == [role: {"admin", "user"}, active: BOOLEAN, changes: Nat]

\* Every variable has its type.
AccountTypeOK ==
  /\ DOMAIN users \subseteq Names /\ \A n \in DOMAIN users : users[n] \in UserType
  /\ DOMAIN sessions \subseteq Tokens /\ \A t \in DOMAIN sessions : sessions[t] \in DOMAIN users
  /\ host \in [Hosts -> {"down", "create", "up"}]
  /\ DOMAIN client = Clients
  /\ \A c \in Clients : client[c].phase \in {"idle", "login", "token", "user", "handler"}

\* A handler works for a user who was active, and with a role they had, since the
\* request began: what an administrator took away from an account before is not
\* there any more, whether the session is older than that or a login that read
\* the row before created it after (router.go:163-183, 883-894).
HandlersActForCurrentUsers ==
  \A c \in Clients : client[c].phase = "handler" =>
    LET h == client[c]
    IN  /\ h.row.active
        /\ h.name \in DOMAIN h.begun => h.row.changes >= h.begun[h.name]

\* The initial administrator is only created when there is no administrator, also
\* where several servers that counted none create it one after the other and the
\* first is administrated meanwhile (README.md:180; main.go:83-101).
InitialAdminOnly ==
  [][\A s \in Hosts : host[s] = "create" /\ host'[s] = "up" =>
       ~AnyAdmin /\ InitialName \notin DOMAIN users]_accountVars

\* What a start needs: an administrator, or the name to create one.
CanStart == AnyAdmin \/ InitialName \notin DOMAIN users

\* A server comes up, also one that lost the race to create the administrator and
\* is started again, unless all the administrators have made each other, or
\* themselves, users: with the configured name taken no server ever starts
\* again (main.go:88-101).
ServersComeUp == []CanStart => \A s \in Hosts : host[s] = "down" ~> host[s] = "up"
=============================================================================
