------------------------- MODULE ConsoleUsersProofs -------------------------
(***************************************************************************)
(* Proofs about ConsoleUsers: how far parallel sign-ins can exceed the     *)
(* lockout, and that the last administrator of users is only removed by    *)
(* one who was removed meanwhile, for any number of users, threads and     *)
(* attempts.                                                               *)
(***************************************************************************)
EXTENDS ConsoleUsers, FiniteSetTheorems, TLAPS

UsersInv == TypeOK /\ AttemptsBounded

\* The threads are finitely many, and so are the sign-ins in flight.
LEMMA PendingFinite ==
    ASSUME NEW u \in User
    PROVE  /\ IsFiniteSet(Pending(u)) /\ Cardinality(Pending(u)) \in Nat
           /\ Cardinality(Pending(u)) <= Cardinality(Thread) /\ Cardinality(Thread) \in Nat
<1>1. Pending(u) \subseteq Thread
  BY DEF Pending
<1>. QED  BY <1>1, UsersConstants, FS_Subset, FS_CardinalityType

LEMMA PendingFiniteNext ==
    ASSUME NEW u \in User
    PROVE  /\ IsFiniteSet(Pending(u)') /\ Cardinality(Pending(u)') \in Nat
           /\ Cardinality(Pending(u)') <= Cardinality(Thread) /\ Cardinality(Thread) \in Nat
<1>1. Pending(u)' \subseteq Thread
  BY DEF Pending
<1>. QED  BY <1>1, UsersConstants, FS_Subset, FS_CardinalityType

LEMMA UsersInit == Init => UsersInv
<1> SUFFICES ASSUME Init PROVE UsersInv
  OBVIOUS
<1>1. TypeOK
  BY UsersConstants DEF Init, TypeOK, FirstAdmin, Row, Role
<1>2. ASSUME NEW u \in User
      PROVE  failures[u] + Cardinality(Pending(u)) <= MaxAttempts - 1 + Cardinality(Thread)
  <2>1. Pending(u) = {} /\ failures[u] = 0
    BY DEF Init, Pending
  <2>2. Cardinality(Pending(u)) = 0
    BY <2>1, FS_EmptySet
  <2>. QED  BY <2>1, <2>2, PendingFinite, UsersConstants
<1>. QED  BY <1>1, <1>2 DEF UsersInv, AttemptsBounded

\* A step that records no failure and begins no sign-in.
LEMMA NoAttempt ==
    ASSUME UsersInv, TypeOK',
           \A u \in User : failures'[u] <= failures[u] /\ Pending(u)' \subseteq Pending(u)
    PROVE  UsersInv'
<1>1. ASSUME NEW u \in User
      PROVE  (failures[u] + Cardinality(Pending(u)) <= MaxAttempts - 1 + Cardinality(Thread))'
  <2>1. Cardinality(Pending(u)') <= Cardinality(Pending(u))
    BY PendingFinite, FS_Subset
  <2>2. failures[u] \in Nat /\ failures'[u] \in Nat
    BY DEF UsersInv, TypeOK
  <2>3. failures[u] + Cardinality(Pending(u)) <= MaxAttempts - 1 + Cardinality(Thread)
    BY DEF UsersInv, AttemptsBounded
  <2>. QED  BY <2>1, <2>2, <2>3, PendingFinite, PendingFiniteNext, UsersConstants
<1>. QED  BY <1>1 DEF UsersInv, AttemptsBounded

\* The count was read before the thread joined those in flight, and it was
\* below the limit.
LEMMA BeginLoginBounded ==
    ASSUME UsersInv, NEW t \in Thread, NEW v \in User, BeginLogin(t, v)
    PROVE  UsersInv'
<1> DEFINE new == [op |-> "login", actor |-> v, about |-> v,
                   read |-> Exists(v) /\ users[v].active, arg |-> FALSE]
<1>1. /\ UNCHANGED <<users, mayManage, failures>> /\ failures[v] < MaxAttempts
      /\ task' = [task EXCEPT ![t] = new]
  BY DEF BeginLogin, RecentFailedLogins
<1>2. new \in Task /\ new.actor = v
  BY DEF Task
<1> HIDE DEF new
<1>3. TypeOK'
  BY <1>1, <1>2 DEF UsersInv, TypeOK
<1>4. ASSUME NEW u \in User
      PROVE  (failures[u] + Cardinality(Pending(u)) <= MaxAttempts - 1 + Cardinality(Thread))'
  <2>1. failures'[u] \in Nat /\ failures'[u] = failures[u]
    BY <1>1 DEF UsersInv, TypeOK
  <2>2. CASE u = v
    BY <1>1, <2>1, <2>2, PendingFiniteNext, UsersConstants
  <2>3. CASE u # v
    <3>1. task'[t].actor = v /\ \A s \in Thread \ {t} : task'[s] = task[s]
      BY <1>1, <1>2 DEF UsersInv, TypeOK
    <3>2. Pending(u)' \subseteq Pending(u)
      BY <2>3, <3>1 DEF Pending
    <3>3. Cardinality(Pending(u)') <= Cardinality(Pending(u))
      BY <3>2, PendingFinite, FS_Subset
    <3>4. failures[u] + Cardinality(Pending(u)) <= MaxAttempts - 1 + Cardinality(Thread)
      BY DEF UsersInv, AttemptsBounded
    <3>. QED  BY <2>1, <3>3, <3>4, PendingFinite, PendingFiniteNext, UsersConstants
  <2>. QED  BY <2>2, <2>3
<1>. QED  BY <1>3, <1>4 DEF UsersInv, AttemptsBounded

\* A failure is recorded by a thread that leaves those in flight.
LEMMA RejectBounded ==
    ASSUME UsersInv, NEW t \in Thread, FinishLogin(t), RejectLogin(t)
    PROVE  UsersInv'
<1> DEFINE v == task[t].actor
<1>1. v \in User /\ t \in Pending(v) /\ task[t] \in Task
  BY DEF FinishLogin, UsersInv, TypeOK, Task, Pending
<1>2. /\ UNCHANGED <<users, mayManage>> /\ task' = [task EXCEPT ![t] = Idle]
      /\ failures' = [failures EXCEPT ![v] = @ + 1]
  BY DEF RejectLogin
<1> HIDE DEF v
<1>3. TypeOK'
  BY <1>1, <1>2 DEF UsersInv, TypeOK
<1>4. ASSUME NEW u \in User
      PROVE  (failures[u] + Cardinality(Pending(u)) <= MaxAttempts - 1 + Cardinality(Thread))'
  <2>1. failures[u] \in Nat /\ failures'[u] = IF u = v THEN failures[u] + 1 ELSE failures[u]
    BY <1>1, <1>2 DEF UsersInv, TypeOK
  <2>2. Pending(u)' \subseteq Pending(u) \ {t}
    BY <1>2 DEF Pending, UsersInv, TypeOK
  <2>3. IsFiniteSet(Pending(u) \ {t}) /\ Cardinality(Pending(u) \ {t}) =
           IF t \in Pending(u) THEN Cardinality(Pending(u)) - 1 ELSE Cardinality(Pending(u))
    BY PendingFinite, FS_RemoveElement
  <2>4. Cardinality(Pending(u)') <= Cardinality(Pending(u) \ {t})
    BY <2>2, <2>3, FS_Subset
  <2>5. failures[u] + Cardinality(Pending(u)) <= MaxAttempts - 1 + Cardinality(Thread)
    BY DEF UsersInv, AttemptsBounded
  <2>6. u = v => t \in Pending(u)
    BY <1>1
  <2>. QED  BY <2>1, <2>3, <2>4, <2>5, <2>6, PendingFinite, PendingFiniteNext, UsersConstants
<1>. QED  BY <1>3, <1>4 DEF UsersInv, AttemptsBounded

LEMMA BeginRequestBounded ==
    ASSUME UsersInv, NEW t \in Thread, NEW actor \in User, NEW about \in User,
           NEW arg \in BOOLEAN,
           NEW op \in {"toggle", "reset", "delete", "access", "create", "password"},
           BeginRequest(t, op, actor, about, arg)
    PROVE  UsersInv'
<1> DEFINE new == [op |-> op, actor |-> actor, about |-> about,
                   read |-> ReadColumn(op, about), arg |-> arg]
<1>1. /\ UNCHANGED <<users, mayManage, failures>>
      /\ task' = [task EXCEPT ![t] = new] /\ Allowed(op, actor, about, arg)
  BY DEF BeginRequest
<1>2. op \in {"toggle", "reset", "delete", "password"} => users[about] \in Row
  BY <1>1 DEF Allowed, Exists, CurrentUser, UsersInv, TypeOK
<1>3. ReadColumn(op, about) \in BOOLEAN
  BY <1>2 DEF ReadColumn, Row, UsersInv, TypeOK
<1>4. new \in Task /\ new.op # "login"
  BY <1>3 DEF Task
<1> HIDE DEF new
<1>5. TypeOK'
  BY <1>1, <1>4 DEF UsersInv, TypeOK
<1>6. \A u \in User : failures'[u] <= failures[u] /\ Pending(u)' \subseteq Pending(u)
  <2>1. \A u \in User : failures'[u] <= failures[u]
    BY <1>1 DEF UsersInv, TypeOK
  <2>2. task'[t].op # "login" /\ \A s \in Thread \ {t} : task'[s] = task[s]
    BY <1>1, <1>4 DEF UsersInv, TypeOK
  <2>3. \A u \in User : Pending(u)' \subseteq Pending(u)
    BY <2>2 DEF Pending
  <2>. QED  BY <2>1, <2>3
<1>. QED  BY <1>5, <1>6, NoAttempt

\* What a committed request writes has the type of the users table.
LEMMA ApplyType ==
    ASSUME TypeOK, NEW r \in Task, Apply(r)
    PROVE  users' \in [User -> Row \cup {NoRow}] /\ mayManage' \in BOOLEAN
<1>1. r.about \in User /\ r.arg \in BOOLEAN /\ r.read \in BOOLEAN
  BY DEF Task
<1>2. users \in [User -> Row \cup {NoRow}] /\ mayManage \in BOOLEAN
  BY DEF TypeOK
<1>3. Exists(r.about) => users[r.about] \in Row
  BY <1>1, <1>2 DEF Exists
<1>4. CASE RowIsGone(r)
  BY <1>2, <1>4 DEF RowIsGone
<1>5. CASE Exists(r.about) /\ ToggleUser(r)
  <2> DEFINE v == Column(r.arg, r.read, users[r.about].active)
  <2>1. v \in BOOLEAN
    BY <1>1, <1>3, <1>5 DEF Column, Row
  <2>2. [users[r.about] EXCEPT !.active = v] \in Row
    BY <1>3, <1>5, <2>1 DEF Row
  <2>3. users' = [users EXCEPT ![r.about] = [users[r.about] EXCEPT !.active = v]]
    BY <1>1, <1>2, <1>5 DEF ToggleUser
  <2> HIDE DEF v
  <2>. QED  BY <1>1, <1>2, <1>5, <2>2, <2>3 DEF ToggleUser
<1>6. CASE Exists(r.about) /\ SetPassword(r)
  <2> DEFINE v == Column(r.arg, r.read, users[r.about].must)
  <2>1. v \in BOOLEAN
    BY <1>1, <1>3, <1>6 DEF Column, Row
  <2>2. [users[r.about] EXCEPT !.must = v] \in Row
    BY <1>3, <1>6, <2>1 DEF Row
  <2>3. users' = [users EXCEPT ![r.about] = [users[r.about] EXCEPT !.must = v]]
    BY <1>1, <1>2, <1>6 DEF SetPassword
  <2> HIDE DEF v
  <2>. QED  BY <1>1, <1>2, <1>6, <2>2, <2>3 DEF SetPassword
<1>7. CASE Exists(r.about) /\ DeleteUser(r)
  <2> DEFINE v == Column(FALSE, r.read, users[r.about].active)
  <2>1. v \in BOOLEAN
    BY <1>1, <1>3, <1>7 DEF Column, Row
  <2>2. [users[r.about] EXCEPT !.active = v, !.deleted = TRUE] \in Row
    BY <1>3, <1>7, <2>1 DEF Row
  <2>3. users' = [users EXCEPT ![r.about] =
                    IF r.arg THEN [users[r.about] EXCEPT !.active = v, !.deleted = TRUE]
                             ELSE NoRow]
    BY <1>1, <1>2, <1>7 DEF DeleteUser
  <2> HIDE DEF v
  <2>. QED  BY <1>1, <1>2, <1>7, <2>2, <2>3 DEF DeleteUser
<1>8. CASE SaveRoleAccessConfig(r)
  BY <1>1, <1>2, <1>8 DEF SaveRoleAccessConfig, Column
<1>9. CASE CreateUser(r)
  <2>1. [role |-> NewRole(r.arg), active |-> TRUE, deleted |-> FALSE, must |-> TRUE] \in Row
    BY DEF Row, Role, NewRole
  <2>. QED  BY <1>1, <1>2, <1>9, <2>1 DEF CreateUser
<1>. QED  BY <1>4, <1>5, <1>6, <1>7, <1>8, <1>9 DEF Apply

\* A thread that becomes idle is not signing in.
LEMMA DoneBounded ==
    ASSUME UsersInv, NEW t \in Thread, task' = [task EXCEPT ![t] = Idle],
           UNCHANGED failures,
           users' \in [User -> Row \cup {NoRow}], mayManage' \in BOOLEAN
    PROVE  UsersInv'
<1>1. TypeOK'
  BY DEF UsersInv, TypeOK
<1>2. \A u \in User : failures'[u] <= failures[u]
  BY DEF UsersInv, TypeOK
<1>3. \A u \in User : Pending(u)' \subseteq Pending(u)
  BY DEF UsersInv, TypeOK, Pending
<1>. QED  BY <1>1, <1>2, <1>3, NoAttempt

LEMMA BootstrapBounded ==
    ASSUME UsersInv, NEW flagged \in SUBSET Supers, Bootstrap(flagged)
    PROVE  UsersInv'
<1>1. UNCHANGED <<mayManage, failures>> /\ task' = [t \in Thread |-> Idle]
  BY DEF Bootstrap
<1>2. \A u \in flagged : users[u] \in Row /\ [users[u] EXCEPT !.must = TRUE] \in Row
  <2>1. \A u \in flagged : users[u] \in Row
    BY DEF Supers, Exists, UsersInv, TypeOK
  <2>. QED  BY <2>1 DEF Row
<1>3. FirstAdmin \in Row
  BY DEF FirstAdmin, Row, Role
<1>4. users' \in [User -> Row \cup {NoRow}]
  BY <1>2, <1>3, UsersConstants DEF Bootstrap, UsersInv, TypeOK
<1>5. TypeOK'
  BY <1>1, <1>4 DEF UsersInv, TypeOK
<1>6. \A u \in User : failures'[u] <= failures[u]
  BY <1>1 DEF UsersInv, TypeOK
<1>7. \A u \in User : Pending(u)' \subseteq Pending(u)
  BY <1>1 DEF Pending
<1>. QED  BY <1>5, <1>6, <1>7, NoAttempt

LEMMA UsersNext == UsersInv /\ [Next]_vars => UsersInv'
<1> SUFFICES ASSUME UsersInv, [Next]_vars PROVE UsersInv'
  OBVIOUS
<1>1. CASE UNCHANGED vars
  <2>1. TypeOK' /\ \A u \in User : failures'[u] <= failures[u] /\ Pending(u)' \subseteq Pending(u)
    BY <1>1 DEF UsersInv, TypeOK, vars, Pending
  <2>. QED  BY <2>1, NoAttempt
<1>2. ASSUME NEW u \in User, FailureExpires(u) PROVE UsersInv'
  <2>1. TypeOK' /\ \A v \in User : failures'[v] <= failures[v]
    BY <1>2 DEF FailureExpires, UsersInv, TypeOK
  <2>2. \A v \in User : Pending(v)' \subseteq Pending(v)
    BY <1>2 DEF FailureExpires, Pending
  <2>. QED  BY <2>1, <2>2, NoAttempt
<1>3. ASSUME NEW t \in Thread, FinishLogin(t) PROVE UsersInv'
  <2>1. CASE RejectLogin(t)
    BY <1>3, <2>1, RejectBounded
  <2>2. CASE AcceptLogin(t)
    BY <2>2, DoneBounded DEF AcceptLogin, UsersInv, TypeOK
  <2>. QED  BY <1>3, <2>1, <2>2 DEF FinishLogin
<1>4. ASSUME NEW t \in Thread, CommitRequest(t) PROVE UsersInv'
  <2>1. task[t] \in Task /\ Apply(task[t])
    BY <1>4 DEF CommitRequest, UsersInv, TypeOK
  <2>2. users' \in [User -> Row \cup {NoRow}] /\ mayManage' \in BOOLEAN
    BY <2>1, ApplyType DEF UsersInv
  <2>. QED  BY <1>4, <2>2, DoneBounded DEF CommitRequest
<1>5. ASSUME NEW t \in Thread, NEW u \in Tried, BeginLogin(t, u) PROVE UsersInv'
  BY <1>5, BeginLoginBounded, UsersConstants
<1>6. ASSUME NEW u \in User, RefuseLogin(u) PROVE UsersInv'
  BY <1>1, <1>6 DEF RefuseLogin
<1>. QED
  BY <1>1, <1>2, <1>3, <1>4, <1>5, <1>6, BeginRequestBounded, BootstrapBounded DEF Next

\* Type correctness of the accounts, the counters and the requests in flight
\* (sign-in, user administration, role access and bootstrap).
THEOREM TypeCorrect == Spec => []TypeOK
<1>1. UsersInv => TypeOK
  BY DEF UsersInv
<1>. QED  BY <1>1, UsersInit, UsersNext, PTL DEF Spec

\* However many sign-ins run in parallel, the failures recorded in one window
\* exceed login_max_attempts by less than the number of threads
\* (recent_failed_logins and login).
THEOREM AttemptsBoundedHolds == Spec => []AttemptsBounded
<1>1. UsersInv => AttemptsBounded
  BY DEF UsersInv
<1>. QED  BY <1>1, UsersInit, UsersNext, PTL DEF Spec
-----------------------------------------------------------------------------
(* The last user administrator.                                            *)

\* toggle_user and delete_user refuse the signed-in account, and the check
\* is not stale when they commit: a request's two accounts never change.
NotOneself == \A t \in Thread :
    task[t] # Idle /\ task[t].op \in {"toggle", "delete"} => task[t].about # task[t].actor

LEMMA NotOneselfInit == Init => NotOneself
  BY DEF Init, NotOneself

LEMMA NotOneselfNext == TypeOK /\ NotOneself /\ [Next]_vars => NotOneself'
<1> SUFFICES ASSUME TypeOK, NotOneself, [Next]_vars PROVE NotOneself'
  OBVIOUS
<1>1. ASSUME \A t \in Thread : task'[t] # Idle => task'[t] = task[t]
      PROVE  NotOneself'
  BY <1>1 DEF NotOneself
<1>2. ASSUME NEW t \in Thread, NEW new, task' = [task EXCEPT ![t] = new],
             new.op \in {"toggle", "delete"} => new.about # new.actor
      PROVE  NotOneself'
  <2>1. task'[t] = new /\ \A s \in Thread \ {t} : task'[s] = task[s]
    BY <1>2 DEF TypeOK
  <2>. QED  BY <1>2, <2>1 DEF NotOneself
<1>3. ASSUME NEW t \in Thread, NEW u \in Tried, BeginLogin(t, u)
      PROVE  NotOneself'
  <2> DEFINE new == [op |-> "login", actor |-> u, about |-> u,
                     read |-> Exists(u) /\ users[u].active, arg |-> FALSE]
  <2>1. task' = [task EXCEPT ![t] = new] /\ new.op = "login"
    BY <1>3 DEF BeginLogin
  <2> HIDE DEF new
  <2>. QED  BY <1>2, <2>1
<1>4. ASSUME NEW t \in Thread, NEW actor \in User, NEW about \in User, NEW arg \in BOOLEAN,
             NEW op \in {"toggle", "reset", "delete", "access", "create", "password"},
             BeginRequest(t, op, actor, about, arg)
      PROVE  NotOneself'
  <2> DEFINE new == [op |-> op, actor |-> actor, about |-> about,
                     read |-> ReadColumn(op, about), arg |-> arg]
  <2>1. task' = [task EXCEPT ![t] = new]
    BY <1>4 DEF BeginRequest
  <2>2. new.op = op /\ new.actor = actor /\ new.about = about
    OBVIOUS
  <2>3. op \in {"toggle", "delete"} => about # actor
    BY <1>4 DEF BeginRequest, Allowed, NotSelf
  <2> HIDE DEF new
  <2>. QED  BY <1>2, <2>1, <2>2, <2>3
<1>5. CASE \/ UNCHANGED vars
           \/ \E u \in User : RefuseLogin(u) \/ FailureExpires(u)
           \/ \E t \in Thread : FinishLogin(t) \/ CommitRequest(t)
           \/ \E flagged \in SUBSET Supers : Bootstrap(flagged)
  <2>1. \A t \in Thread : task'[t] # Idle => task'[t] = task[t]
    BY <1>5 DEF vars, RefuseLogin, FailureExpires, FinishLogin, RejectLogin, AcceptLogin,
                CommitRequest, Bootstrap, TypeOK
  <2>. QED  BY <1>1, <2>1
<1>. QED  BY <1>3, <1>4, <1>5 DEF Next

\* An account whose row keeps the columns that count stays an administrator.
LEMMA ManagerKept ==
    ASSUME NEW u \in Managers, Exists(u)', users'[u].active = users[u].active,
           users'[u].deleted = users[u].deleted, users'[u].role = users[u].role,
           mayManage' = mayManage \/ users[u].role = "super_admin"
    PROVE  u \in Managers'
  BY DEF Managers

\* A request never removes an account that is still entitled to make it.
LEMMA ActorKept ==
    ASSUME TypeOK, NEW r \in Task, Apply(r), StillEntitled(r),
           r.op \in {"toggle", "delete"} => r.about # r.actor
    PROVE  r.actor \in Managers'
<1> DEFINE u == r.actor
<1>2. /\ u \in User /\ u \in Managers /\ users[u] \in Row /\ users[u] # NoRow
      /\ r.about \in User /\ (r.op = "access" => users[u].role = "super_admin")
  BY DEF Task, StillEntitled, Managers, Exists, TypeOK
<1>3. r.op \in {"toggle", "delete"} => r.about # u
  OBVIOUS
<1> SUFFICES u \in Managers'
  OBVIOUS
<1> HIDE DEF u
<1>4. ASSUME users'[u] = users[u], mayManage' = mayManage \/ users[u].role = "super_admin"
      PROVE  u \in Managers'
  BY <1>2, <1>4, ManagerKept DEF Exists
<1>5. CASE RowIsGone(r)
  BY <1>4, <1>5 DEF RowIsGone
<1>6. CASE r.op = "toggle" /\ ToggleUser(r)
  BY <1>2, <1>3, <1>4, <1>6 DEF ToggleUser, TypeOK
<1>7. CASE Exists(r.about) /\ SetPassword(r)
  <2>1. CASE r.about # u
    BY <1>2, <1>4, <1>7, <2>1 DEF SetPassword, TypeOK
  <2>2. CASE r.about = u
    <3> DEFINE v == Column(r.arg, r.read, users[u].must)
               row == [users[u] EXCEPT !.must = v]
    <3>1. users'[u] = row /\ mayManage' = mayManage
      BY <1>2, <1>7, <2>2 DEF SetPassword, TypeOK
    <3>2. row.active = users[u].active /\ row.deleted = users[u].deleted
          /\ row.role = users[u].role
      BY <1>2 DEF Row
    <3>3. row # NoRow
      <4>1. v \in BOOLEAN
        BY <1>2 DEF Column, Row, Task
      <4>2. row \in Row
        BY <1>2, <4>1 DEF Row
      <4>. QED  BY <4>2, NoRowAssumption
    <3> HIDE DEF row
    <3>. QED  BY <1>2, <3>1, <3>2, <3>3, ManagerKept DEF Exists
  <2>. QED  BY <2>1, <2>2
<1>8. CASE r.op = "delete" /\ DeleteUser(r)
  BY <1>2, <1>3, <1>4, <1>8 DEF DeleteUser, TypeOK
<1>9. CASE r.op = "access" /\ SaveRoleAccessConfig(r)
  BY <1>2, <1>4, <1>9 DEF SaveRoleAccessConfig
<1>10. CASE CreateUser(r)
  BY <1>2, <1>4, <1>10 DEF CreateUser, Exists, TypeOK
<1>. QED
  BY <1>5, <1>6, <1>7, <1>8, <1>9, <1>10 DEF Apply

LEMMA LastManagerStep ==
    ASSUME TypeOK, NotOneself, [Next]_vars, Managers # {}, Managers' = {}
    PROVE  \E t \in Thread : task[t] # Idle /\ task'[t] = Idle /\ ~StillEntitled(task[t])
<1>1. ASSUME UNCHANGED <<users, mayManage>>
      PROVE  FALSE
  BY <1>1 DEF Managers, Exists
<1>2. ASSUME NEW t \in Thread, CommitRequest(t)
      PROVE  task[t] # Idle /\ task'[t] = Idle /\ ~StillEntitled(task[t])
  <2>1. task[t] # Idle /\ task'[t] = Idle /\ task[t] \in Task /\ Apply(task[t])
    BY <1>2 DEF CommitRequest, TypeOK
  <2>2. task[t].op \in {"toggle", "delete"} => task[t].about # task[t].actor
    BY <2>1 DEF NotOneself
  <2>. QED  BY <2>1, <2>2, ActorKept
<1>3. ASSUME NEW flagged \in SUBSET Supers, Bootstrap(flagged)
      PROVE  FALSE
  <2>1. PICK u \in Managers : u \in User /\ Exists(u) /\ users[u] \in Row
    BY DEF Managers, Exists, TypeOK
  <2> DEFINE row == [users[u] EXCEPT !.must = TRUE]
  <2>2. users'[u] \in {users[u], row} /\ mayManage' = mayManage
    BY <1>3, <2>1 DEF Bootstrap
  <2>3. /\ row.active = users[u].active /\ row.deleted = users[u].deleted
        /\ row.role = users[u].role /\ row \in Row
    BY <2>1 DEF Row
  <2>4. Exists(u)'
    BY <2>1, <2>2, <2>3, NoRowAssumption DEF Exists
  <2> HIDE DEF row
  <2>. QED  BY <2>1, <2>2, <2>3, <2>4, ManagerKept
<1>4. CASE \/ UNCHANGED vars
           \/ \E u \in User : RefuseLogin(u) \/ FailureExpires(u)
           \/ \E t \in Thread :
                 \/ \E u \in Tried : BeginLogin(t, u)
                 \/ FinishLogin(t)
                 \/ \E op \in {"toggle", "reset", "delete", "access", "create", "password"},
                       actor, about \in User, arg \in BOOLEAN :
                          BeginRequest(t, op, actor, about, arg)
  <2>1. UNCHANGED <<users, mayManage>>
    BY <1>4 DEF vars, RefuseLogin, FailureExpires, BeginLogin, FinishLogin, RejectLogin,
                AcceptLogin, BeginRequest
  <2>. QED  BY <1>1, <2>1
<1>. QED  BY <1>2, <1>3, <1>4 DEF Next

\* No step takes the last user administrator away, except the commit of a
\* request whose own account has lost the right to make it since it was let
\* in (toggle_user, delete_user, the role access page and bootstrap).
THEOREM LastManagerKeptHolds == Spec => LastManagerKept
<1>1. TypeOK /\ NotOneself /\ [Next]_vars =>
         [Managers # {} /\ Managers' = {} =>
            \E t \in Thread : task[t] # Idle /\ task'[t] = Idle /\ ~StillEntitled(task[t])]_vars
  BY LastManagerStep
<1>. QED  BY <1>1, TypeCorrect, NotOneselfInit, NotOneselfNext, PTL DEF Spec, LastManagerKept
=============================================================================
