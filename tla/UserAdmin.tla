----------------------------- MODULE UserAdmin -----------------------------
(***************************************************************************)
(* The dashboard's accounts: bootstrap of the first administrator, login,     *)
(* session tokens that carry the role they were issued with and outlive every *)
(* later login, and the user administration API, whose guard for the last administrator reads in two    *)
(* statements what a third one changes.  Passwords are left out.               *)
(***************************************************************************)
EXTENDS Naturals, FiniteSets

CONSTANTS
  User,      \* account ids; a deleted one is not used again
  AdminCall    \* PATCH and DELETE requests that may be in progress at once

ASSUME UserAssumption == IsFiniteSet(User)

\* An operator may administer accounts as little as a viewer and is not told apart.
Role == {"viewer", "admin"}
Blank == ""   \* no login or no request

VARIABLES
  role,     \* users.role by id, "unused" before and "deleted" after the row's life
  boot,     \* BootstrapAdminIfEmpty of a starting server: "down", "count", "insert", "up"
  login,    \* per user: the role its login has read, Blank for none in progress
  token,    \* per user: the roles in its valid tokens
  stage,       \* per handler: "idle", "role", "count", "write"
  req       \* the request: target and its new role, "deleted" for DELETE

userVars == <<role, boot, login, token, stage, req>>

NoReq == [target |-> Blank, to |-> Blank]

Rows == {u \in User : role[u] \in Role}
Admins == {u \in User : role[u] = "admin"}

UserInit ==
  /\ role = [u \in User |-> "unused"] /\ boot = "down"
  /\ login = [u \in User |-> Blank] /\ token = [u \in User |-> {}]
  /\ stage = [h \in AdminCall |-> "idle"] /\ req = [h \in AdminCall |-> NoReq]

insert(u, r) == role[u] = "unused" /\ role' = [role EXCEPT ![u] = r]

-----------------------------------------------------------------------------
(* Server start, command line, login                                        *)

\* runServe; requests in progress ended with the process before.
Start ==
  /\ boot = "down"
  /\ boot' = "count" /\ UNCHANGED <<role, login, token, stage, req>>

\* CountUsers; without credentials in the environment no account is made.
BootCount ==
  /\ boot = "count"
  /\ boot' \in IF Rows = {} THEN {"insert", "up"} ELSE {"up"}
  /\ UNCHANGED <<role, login, token, stage, req>>

\* A name that was taken meanwhile, or a failing statement, ends the start.
BootInsert ==
  /\ boot = "insert"
  /\ \/ (\E u \in User : insert(u, "admin")) /\ boot' = "up"
     \/ boot' = "down" /\ UNCHANGED role
  /\ UNCHANGED <<login, token, stage, req>>

Stop ==
  /\ boot = "up"
  /\ boot' = "down"
  /\ login' = [u \in User |-> Blank]
  /\ stage' = [h \in AdminCall |-> "idle"] /\ req' = [h \in AdminCall |-> NoReq]
  /\ UNCHANGED <<role, token>>

\* RunCreateUserInteractive, next to a running server or without one
CreateUser(u) ==
  /\ \E r \in Role : insert(u, r)
  /\ UNCHANGED <<boot, login, token, stage, req>>

LoginRead(u) ==
  /\ boot = "up" /\ u \in Rows /\ login[u] = Blank
  /\ login' = [login EXCEPT ![u] = role[u]]
  /\ UNCHANGED <<role, boot, token, stage, req>>

\* Issue; an older token stays valid.
LoginIssue(u) ==
  /\ login[u] # Blank
  /\ token' = [token EXCEPT ![u] = @ \cup {login[u]}] /\ login' = [login EXCEPT ![u] = Blank]
  /\ UNCHANGED <<role, boot, stage, req>>

\* Mutant: a token near its end is renewed with the claims it has.
ExpireRenews(u, r) == r \in token[u] /\ UNCHANGED userVars

\* The lifetime of the last token with this role is over: Parse refuses it.
Expire(u, r) ==
  /\ r \in token[u]
  /\ token' = [token EXCEPT ![u] = @ \ {r}]
  /\ UNCHANGED <<role, boot, login, stage, req>>

-----------------------------------------------------------------------------
(* handleCreate, handlePatch, handleDelete                                  *)

\* RequireMinRole looks at the token alone.
MayAdminister(u) == boot = "up" /\ "admin" \in token[u]

ApiCreate(u) ==
  /\ \E by \in User : MayAdminister(by)
  /\ \E r \in Role : insert(u, r)
  /\ UNCHANGED <<boot, login, token, stage, req>>

\* The caller knows the target's id from a list: an id not yet given to a row is never sent.
receive(h, target, to) ==
  /\ stage[h] = "idle" /\ role[target] # "unused"
  /\ stage' = [stage EXCEPT ![h] = "role"] /\ req' = [req EXCEPT ![h] = [target |-> target, to |-> to]]
  /\ UNCHANGED <<role, boot, login, token>>

Patch(h) == \E by, u \in User : MayAdminister(by) /\ \E r \in Role : receive(h, u, r)

\* "cannot delete your own account"
Delete(h) == \E by, u \in User : MayAdminister(by) /\ u # by /\ receive(h, u, "deleted")

finish(h) == stage' = [stage EXCEPT ![h] = "idle"] /\ req' = [req EXCEPT ![h] = NoReq]

\* IsLastAdmin, the first statement: only an administrator can be the last one.
ReadRole(h) ==
  /\ stage[h] = "role"
  /\ stage' = [stage EXCEPT ![h] = IF role[req[h].target] = "admin" THEN "count" ELSE "write"]
  /\ UNCHANGED <<role, boot, login, token, req>>

\* CountAdmins; the last administrator is neither demoted nor deleted.
Count(h) ==
  /\ stage[h] = "count"
  /\ IF Cardinality(Admins) = 1 /\ req[h].to # "admin"
     THEN finish(h)
     ELSE stage' = [stage EXCEPT ![h] = "write"] /\ UNCHANGED req
  /\ UNCHANGED <<role, boot, login, token>>

\* UPDATE or DELETE; no row, no change.
Write(h) ==
  /\ stage[h] = "write" /\ finish(h)
  /\ role' = IF req[h].target \in Rows
             THEN [role EXCEPT ![req[h].target] = req[h].to]
             ELSE role
  /\ UNCHANGED <<boot, login, token>>

\* The request's context ends or a statement fails.
Abort(h) ==
  /\ stage[h] # "idle" /\ finish(h)
  /\ UNCHANGED <<role, boot, login, token>>

UserNext ==
  \/ Start \/ BootCount \/ BootInsert \/ Stop
  \/ \E u \in User : CreateUser(u) \/ ApiCreate(u) \/ LoginRead(u) \/ LoginIssue(u)
                 \/ \E r \in Role : Expire(u, r)
  \/ \E h \in AdminCall : \/ Patch(h) \/ Delete(h) \/ ReadRole(h)
                        \/ Count(h) \/ Write(h) \/ Abort(h)

UserSpec == UserInit /\ [][UserNext]_userVars

-----------------------------------------------------------------------------

UserTypeOK ==
  /\ role \in [User -> Role \cup {"unused", "deleted"}]
  /\ boot \in {"down", "count", "insert", "up"}
  /\ login \in [User -> Role \cup {Blank}] /\ token \in [User -> SUBSET Role]
  /\ stage \in [AdminCall -> {"idle", "role", "count", "write"}]
  /\ req \in [AdminCall -> [target : User \cup {Blank}, to : Role \cup {"deleted", Blank}]]

\* "cannot demote the last admin", "cannot delete the last admin": once there is an
\* administrator there always is one.  Two requests that both count before either writes
\* refute it.
AdminRemains == [][Admins # {} => Admins' # {}]_userVars

\* An account that is not an administrator any more loses the power of one: its tokens run out
\* and a login gives it no new one.
AuthorityEnds ==
  \A u \in User : <>[](role[u] # "admin") => <>[]("admin" \notin token[u])
=============================================================================
