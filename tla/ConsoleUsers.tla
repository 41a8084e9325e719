---------------------------- MODULE ConsoleUsers ----------------------------
(***************************************************************************)
(* Console accounts: sign-in with its lockout, and the administration of   *)
(* users and of role access (routers/auth.py, routers/users.py,            *)
(* routers/account.py, access_control.py, bootstrap.py).                   *)
(*                                                                         *)
(* Requests run in threads.  A request reads its rows in one step and      *)
(* commits in another; SQLAlchemy writes the columns that differ from what *)
(* was read, and a request whose row is gone when it commits fails.        *)
(*                                                                         *)
(* Abstractions.  A user is its username.  A password is right or wrong.   *)
(* Roles other than super admin are one, "admin", whose users_manage cell  *)
(* is mayManage.  A session cookie is not state: an account whose row is   *)
(* active may hold a valid one at any time.  Failed sign-ins are           *)
(* counted as the query counts them: the rows inside the lockout window,   *)
(* which leave it one by one.                                              *)
(***************************************************************************)
EXTENDS Naturals, FiniteSets

CONSTANTS
    User,          \* usernames
    Tried,         \* usernames entered at the sign-in form (an input bound)
    FirstUser,     \* bootstrap_admin_username
    Thread,        \* request threads
    MaxAttempts,   \* login_max_attempts
    NoRow,         \* the username has no row
    Idle           \* the thread has no request

ASSUME UsersConstants ==
    /\ FirstUser \in User
    /\ Tried \subseteq User
    /\ IsFiniteSet(Thread) /\ Thread # {}
    /\ MaxAttempts \in Nat \ {0}

VARIABLES
    users,      \* the users table
    mayManage,  \* users_manage is granted to admins
    failures,   \* per username: failed login_audit rows inside the window
    task        \* per thread: the request and what it has read

vars == <<users, mayManage, failures, task>>

Role == {"super_admin", "admin"}
Row  == [role : Role, active : BOOLEAN, deleted : BOOLEAN, must : BOOLEAN]

ASSUME NoRowAssumption == NoRow \notin Row

Task == [op : {"login", "toggle", "reset", "delete", "access", "create", "password"},
         actor : User, about : User, read : BOOLEAN, arg : BOOLEAN]

FirstAdmin == [role |-> "super_admin", active |-> TRUE, deleted |-> FALSE, must |-> FALSE]
Exists(u)  == users[u] # NoRow

\* Bootstrap on an empty users table.
Init ==
    /\ users = [u \in User |-> IF u = FirstUser THEN FirstAdmin ELSE NoRow]
    /\ mayManage = TRUE
    /\ failures = [u \in User |-> 0]
    /\ task = [t \in Thread |-> Idle]

-----------------------------------------------------------------------------
(* Sign-in.                                                                *)

CurrentUser(u) == Exists(u) /\ users[u].active /\ ~users[u].deleted

\* Mutant: one attempt more is let in.
RecentFailedLoginsLess(u) == IF failures[u] > 0 THEN failures[u] - 1 ELSE 0

RecentFailedLogins(u) == failures[u]

\* The count and the row are read, then the password is verified, slowly.
BeginLogin(t, u) ==
    /\ task[t] = Idle
    /\ RecentFailedLogins(u) < MaxAttempts
    /\ task' = [task EXCEPT ![t] = [op |-> "login", actor |-> u, about |-> u,
                                    read |-> Exists(u) /\ users[u].active, arg |-> FALSE]]
    /\ UNCHANGED <<users, mayManage, failures>>

\* A locked username is answered 429; nothing is recorded.
RefuseLogin(u) ==
    /\ RecentFailedLogins(u) >= MaxAttempts
    /\ UNCHANGED vars

RejectLogin(t) ==
    LET u == task[t].actor IN
    /\ failures' = [failures EXCEPT ![u] = @ + 1]
    /\ task' = [task EXCEPT ![t] = Idle]
    /\ UNCHANGED <<users, mayManage>>

\* The right password for a row that was active: last_login_at is written
\* and the audit row counts as a success.
AcceptLogin(t) ==
    /\ task[t].read
    /\ task' = [task EXCEPT ![t] = Idle]
    /\ UNCHANGED <<users, mayManage, failures>>

FinishLogin(t) ==
    /\ task[t] # Idle /\ task[t].op = "login"
    /\ RejectLogin(t) \/ AcceptLogin(t)

\* Mutant: once a username is locked its rows are counted without a window.
FailureExpiresUnlocked(u) ==
    /\ failures[u] \in 1..(MaxAttempts - 1)
    /\ failures' = [failures EXCEPT ![u] = @ - 1]
    /\ UNCHANGED <<users, mayManage, task>>

\* The oldest failed row leaves the window.
FailureExpires(u) ==
    /\ failures[u] > 0
    /\ failures' = [failures EXCEPT ![u] = @ - 1]
    /\ UNCHANGED <<users, mayManage, task>>

-----------------------------------------------------------------------------
(* What a request may do is decided by the rows it reads.                  *)

RequireUser(u)   == CurrentUser(u) /\ ~users[u].must
RequireSuper(u)  == RequireUser(u) /\ users[u].role = "super_admin"
RequireManage(u) == RequireUser(u) /\ (users[u].role = "super_admin" \/ mayManage)

\* Mutant: users may disable and delete themselves.
NotSelfUnchecked(actor, about) == TRUE

NotSelf(actor, about) == about # actor

\* arg: the active flag to write is computed from the row; the role to create
\* is super admin; force_change; the deleted user is referenced; the grant.
Allowed(op, actor, about, arg) ==
    \/ /\ op = "toggle" /\ RequireManage(actor) /\ Exists(about) /\ NotSelf(actor, about)
       /\ ~users[about].deleted /\ arg = ~users[about].active
    \/ op = "create" /\ RequireManage(actor) /\ (arg => users[actor].role = "super_admin")
    \/ /\ op = "reset" /\ RequireSuper(actor) /\ Exists(about) /\ NotSelf(actor, about)
       /\ ~users[about].deleted
    \/ op = "delete" /\ RequireSuper(actor) /\ Exists(about) /\ NotSelf(actor, about)
    \/ op = "access" /\ RequireSuper(actor) /\ about = actor
    \/ op = "password" /\ CurrentUser(actor) /\ about = actor /\ ~arg

\* The column a request compares its new value with.
ReadColumn(op, about) ==
    CASE op \in {"toggle", "delete"} -> users[about].active
      [] op \in {"reset", "password"} -> users[about].must
      [] op = "access" -> mayManage
      [] op = "create" -> FALSE

BeginRequest(t, op, actor, about, arg) ==
    /\ task[t] = Idle
    /\ Allowed(op, actor, about, arg)
    /\ task' = [task EXCEPT ![t] = [op |-> op, actor |-> actor, about |-> about,
                                    read |-> ReadColumn(op, about), arg |-> arg]]
    /\ UNCHANGED <<users, mayManage, failures>>

Column(new, read, now) == IF new # read THEN new ELSE now

\* toggle_user: the negation of the flag that was read.
ToggleUser(r) ==
    /\ users' = [users EXCEPT ![r.about].active = Column(r.arg, r.read, @)]
    /\ UNCHANGED mayManage

\* reset_user_password and change_password write the must-change flag.
SetPassword(r) ==
    /\ users' = [users EXCEPT ![r.about].must = Column(r.arg, r.read, @)]
    /\ UNCHANGED mayManage

\* delete_user: a user that something refers to is disabled and marked, any
\* other row is removed.
DeleteUser(r) ==
    LET row == users[r.about] IN
    /\ users' = [users EXCEPT ![r.about] =
          IF r.arg THEN [row EXCEPT !.active = Column(FALSE, r.read, row.active),
                                    !.deleted = TRUE]
                   ELSE NoRow]
    /\ UNCHANGED mayManage

SaveRoleAccessConfig(r) ==
    /\ mayManage' = Column(r.arg, r.read, mayManage)
    /\ UNCHANGED users

\* Mutant: the row keeps no role.
NewRoleBlank(super) == ""

NewRole(super) == IF super THEN "super_admin" ELSE "admin"

\* create_user: a username that is taken is refused by the unique index.
CreateUser(r) ==
    /\ users' = IF Exists(r.about) THEN users
                ELSE [users EXCEPT ![r.about] =
                        [role |-> NewRole(r.arg),
                         active |-> TRUE, deleted |-> FALSE, must |-> TRUE]]
    /\ UNCHANGED mayManage

RowIsGone(r) ==
    /\ r.op \in {"toggle", "reset", "password", "delete"}
    /\ ~Exists(r.about)
    /\ UNCHANGED <<users, mayManage>>

Apply(r) ==
    \/ RowIsGone(r)
    \/ r.op = "toggle" /\ Exists(r.about) /\ ToggleUser(r)
    \/ r.op \in {"reset", "password"} /\ Exists(r.about) /\ SetPassword(r)
    \/ r.op = "delete" /\ Exists(r.about) /\ DeleteUser(r)
    \/ r.op = "access" /\ SaveRoleAccessConfig(r)
    \/ r.op = "create" /\ CreateUser(r)

CommitRequest(t) ==
    /\ task[t] # Idle /\ task[t].op # "login"
    /\ Apply(task[t])
    /\ task' = [task EXCEPT ![t] = Idle]
    /\ UNCHANGED failures

\* Restart: requests are lost; bootstrap creates the first admin in an empty
\* table, or flags super admins that still have the shipped password.
Bootstrap(flagged) ==
    /\ users' = IF \A u \in User : ~Exists(u)
                THEN [users EXCEPT ![FirstUser] = FirstAdmin]
                ELSE [u \in User |-> IF u \in flagged THEN [users[u] EXCEPT !.must = TRUE]
                                                      ELSE users[u]]
    /\ task' = [t \in Thread |-> Idle]
    /\ UNCHANGED <<mayManage, failures>>

Supers == {u \in User : Exists(u) /\ users[u].role = "super_admin" /\ ~users[u].deleted}

Next ==
    \/ \E u \in User : RefuseLogin(u) \/ FailureExpires(u)
    \/ \E t \in Thread :
          \/ \E u \in Tried : BeginLogin(t, u)
          \/ FinishLogin(t)
          \/ \E op \in {"toggle", "reset", "delete", "access", "create", "password"},
                actor, about \in User, arg \in BOOLEAN : BeginRequest(t, op, actor, about, arg)
          \/ CommitRequest(t)
    \/ \E flagged \in SUBSET Supers : Bootstrap(flagged)

Spec == Init /\ [][Next]_vars

\* Time passes: every failed row leaves the window.
Fairness == \A u \in User : WF_vars(FailureExpires(u))

FairSpec == Spec /\ Fairness

-----------------------------------------------------------------------------
(* Properties.                                                             *)

\* Every row, request and counter has its type; a request names an account.
TypeOK ==
    /\ users \in [User -> Row \cup {NoRow}]
    /\ mayManage \in BOOLEAN
    /\ failures \in [User -> Nat]
    /\ task \in [Thread -> Task \cup {Idle}]

\* Sign-ins in flight for u: counted, and not yet recorded.
Pending(u) == {t \in Thread : task[t] # Idle /\ task[t].op = "login" /\ task[t].actor = u}

\* Parallel attempts do not get around the lockout: the failures recorded in
\* one window exceed login_max_attempts by less than the number of threads,
\* because recent_failed_logins is read before each attempt is recorded.
AttemptsBounded ==
    \A u \in User : failures[u] + Cardinality(Pending(u)) <= MaxAttempts - 1 + Cardinality(Thread)

\* A lockout ends by itself: refused attempts do not prolong it, whatever
\* keeps trying.
LockoutEnds ==
    \A u \in User : (failures[u] >= MaxAttempts) ~> (failures[u] < MaxAttempts)

\* Accounts that can administer users once they have signed in.
Managers == {u \in User : /\ Exists(u) /\ users[u].active /\ ~users[u].deleted
                          /\ users[u].role = "super_admin" \/ mayManage}

StillEntitled(r) ==
    r.actor \in Managers /\ (r.op = "access" => users[r.actor].role = "super_admin")

\* The console never loses its last user administrator, unless the request
\* that removes it was made by an account which lost that right after the
\* request was let in (two administrators who remove each other at once).
LastManagerKept ==
    [][Managers # {} /\ Managers' = {} =>
          \E t \in Thread : task[t] # Idle /\ task'[t] = Idle /\ ~StillEntitled(task[t])]_vars
=============================================================================
