--------------------------- MODULE AccountsProofs ---------------------------
(***************************************************************************)
(* Theorems about Accounts, for any number of users, sessions, requests    *)
(* and servers.                                                            *)
(*                                                                         *)
(* Two lemmas say what a step can do: UsersStep to the table of users, and *)
(* RequestStep to a request.  Every invariant follows from these.          *)
(***************************************************************************)
EXTENDS Accounts, TLAPS

-----------------------------------------------------------------------------
(* Types, and whom a request is about.                                     *)

\* A request at work acts for a user; one about to write has its target, acts for
\* the root, and makes nobody another one.
Attributed ==
    \A h \in Handlers :
        /\ request[h].op # "idle" => request[h].actor \in Ids
        /\ request[h].at = "write" => /\ request[h].target \in Ids
                                      /\ request[h].role = "root" /\ request[h].newRole # "root"

TypeInv == TypeOK /\ Attributed

\* The empty tables have their types.
LEMMA InitType == Init => TypeInv
  BY DEF Init, TypeInv, TypeOK, Attributed, Idle, Request, Roles, Ops

\* What a step does to the table of users.
Created(id, row) == FreshId(id) /\ Insertable(row) /\ users' = [users EXCEPT ![id] = row]
PasswordSet(id) == Exists(id) /\ users' = [users EXCEPT ![id].mustChange = FALSE]
RoleSet(id, role) == Exists(id) /\ ~IsRoot(id) /\ users' = [users EXCEPT ![id].role = role]
Deleted(id) ==
    /\ Exists(id) /\ ~IsRoot(id) /\ ~Referenced(id)
    /\ users' = [users EXCEPT ![id] = None]

UsersChange ==
    \/ UNCHANGED users
    \/ \E id \in Ids : Created(id, RootRow) /\ UNCHANGED request
    \/ \E id \in Ids, row \in Row, h \in Handlers :
          /\ Created(id, row)
          /\ At(h, "create", "authenticated")
          /\ CanCreateUserWithRole(request[h].role, row.role)
          /\ request' = [request EXCEPT ![h] = Idle]
    \/ \E id \in Ids : PasswordSet(id)
    \/ \E id \in Ids, role \in Roles, h \in Handlers :
          /\ RoleSet(id, role)
          /\ request[h].op = "update" /\ request[h].at = "write"
          /\ request[h].target = id /\ request[h].newRole = role
          /\ request' = [request EXCEPT ![h] = Idle]
    \/ \E id \in Ids : Deleted(id)

LEMMA UsersStep ==
  ASSUME TypeInv, [Next]_vars
  PROVE  UsersChange
  <1>1. ASSUME NEW h \in Handlers, Handle(h)
        PROVE  UsersChange
    <2>1. CASE \E id \in Ids : LoginVerify(h, id)
      BY <2>1 DEF LoginVerify, accounts, UsersChange
    <2>2. CASE \E t \in Tokens : LoginCreate(h, t)
      BY <2>2 DEF LoginCreate, UsersChange
    <2>3. CASE \E op \in Ops, t \in Tokens : Authenticate(h, op, t)
      BY <2>3 DEF Authenticate, UsersChange
    <2>4. ASSUME NEW name \in Names, NEW role \in Roles, HandleCreate(h, name, role)
          PROVE  UsersChange
      <3> DEFINE row == [name |-> name, role |-> role, mustChange |-> TRUE]
      <3>1. row \in Row /\ row.role = role
        BY DEF Row
      <3>2. /\ At(h, "create", "authenticated")
            /\ CanCreateUserWithRole(request[h].role, role)
            /\ CreateUser(row)
            /\ request' = [request EXCEPT ![h] = Idle]
        BY <2>4 DEF HandleCreate, Put
      <3> HIDE DEF row
      <3>3. UNCHANGED users \/ \E id \in Ids : Created(id, row)
        BY <3>2 DEF CreateUser, Created
      <3> QED BY <3>1, <3>2, <3>3 DEF UsersChange
    <2>5. CASE \E id \in Ids, role \in Roles : LoadTarget(h, id, role)
      BY <2>5 DEF LoadTarget, accounts, UsersChange
    <2>6. CASE WriteTarget(h)
      <3> DEFINE id == request[h].target
      <3>1. id \in Ids /\ request[h].newRole \in Roles
        BY <2>6 DEF WriteTarget, TypeInv, Attributed, TypeOK, Request
      <3>2. /\ request[h].at = "write"
            /\ request' = [request EXCEPT ![h] = Idle]
        BY <2>6 DEF WriteTarget, Put
      <3>3. CASE request[h].op = "update" /\ SetUserRole(id, request[h].newRole)
        BY <3>1, <3>2, <3>3 DEF SetUserRole, RoleSet, UsersChange
      <3>4. CASE request[h].op = "delete" /\ DeleteUser(id)
        BY <3>1, <3>4 DEF DeleteUser, Deleted, UsersChange
      <3> QED BY <2>6, <3>3, <3>4 DEF WriteTarget
    <2>7. CASE HandleRequestPass(h)
      BY <2>7 DEF HandleRequestPass, UsersChange
    <2>8. CASE HandleChangePassword(h)
      <3>1. CASE VerifyCurrent(h)
        BY <3>1 DEF VerifyCurrent, accounts, UsersChange
      <3>2. CASE StorePassword(h)
        <4>1. request[h].actor \in Ids
          BY <3>2 DEF StorePassword, At, TypeInv, Attributed
        <4> QED BY <3>2, <4>1 DEF StorePassword, SetPassword, PasswordSet, UsersChange
      <3>3. CASE At(h, "password", "revoke") /\ Revoke(h)
        BY <3>3 DEF Revoke, UsersChange
      <3> QED BY <2>8, <3>1, <3>2, <3>3 DEF HandleChangePassword
    <2>9. CASE Logout(h)
      BY <2>9 DEF Logout, Revoke, UsersChange
    <2>10. CASE Abandon(h)
      BY <2>10 DEF Abandon, accounts, UsersChange
    <2> QED BY <1>1, <2>1, <2>2, <2>3, <2>4, <2>5, <2>6, <2>7, <2>8, <2>9, <2>10 DEF Handle
  <1>2. CASE \E t \in Tokens : Expire(t)
    BY <1>2 DEF Expire, UsersChange
  <1>3. ASSUME NEW s \in Servers, Start(s)
        PROVE  UsersChange
    <2>1. CASE CountUsers(s)
      BY <2>1 DEF CountUsers, accounts, UsersChange
    <2>2. CASE CreateRoot(s)
      BY <2>2 DEF CreateRoot, CreateUser, Created, UsersChange
    <2> QED BY <1>3, <2>1, <2>2 DEF Start
  <1>4. CASE ResetRoot
    BY <1>4 DEF ResetRoot, SetPassword, PasswordSet, UsersChange
  <1>5. CASE UNCHANGED vars
    BY <1>5 DEF vars, accounts, UsersChange
  <1> QED BY <1>1, <1>2, <1>3, <1>4, <1>5 DEF Next

\* What a step does to a request: it leaves it, ends it, admits it for a user
\* who is there, or takes it one statement further.
Acting == {"create", "update", "delete", "request"}

Admitted(r) ==
    /\ r.op # "idle" /\ r.at # "write"
    /\ r.actor \in Ids /\ Exists(r.actor)
    /\ r.role = "root" => IsRoot(r.actor)
    /\ r.op \in Acting => ~users[r.actor].mustChange

Loaded(r) ==
    /\ r.target \in Ids /\ Exists(r.target) /\ ~IsRoot(r.target)
    /\ r.role = "root" /\ r.newRole # "root"

Advanced(old, new) ==
    /\ old.op # "idle"
    /\ new.op = old.op /\ new.actor = old.actor /\ new.role = old.role
    /\ new.at = "write" => Loaded(new) /\ UNCHANGED users

RequestChange(h) ==
    \/ request'[h] = request[h]
    \/ request'[h] = Idle
    \/ Admitted(request'[h]) /\ UNCHANGED users
    \/ Advanced(request[h], request'[h])

LEMMA RequestStep ==
  ASSUME TypeInv, [Next]_vars
  PROVE  request' \in [Handlers -> Request] /\ \A h \in Handlers : RequestChange(h)
  <1> DEFINE Goal == request' \in [Handlers -> Request] /\ \A h \in Handlers : RequestChange(h)
  <1>0. request \in [Handlers -> Request]
    BY DEF TypeInv, TypeOK
  <1>1. ASSUME UNCHANGED request
        PROVE  Goal
    BY <1>0, <1>1 DEF RequestChange
  <1>2. ASSUME NEW k \in Handlers, NEW r \in Request, Put(k, r),
               r = Idle \/ (Admitted(r) /\ UNCHANGED users) \/ Advanced(request[k], r)
        PROVE  Goal
    <2>1. request' = [request EXCEPT ![k] = r]
      BY <1>2 DEF Put
    <2> HIDE DEF Put
    <2>2. request' \in [Handlers -> Request]
      BY <1>0, <2>1, <1>2
    <2>3. request'[k] = r /\ \A h \in Handlers \ {k} : request'[h] = request[h]
      BY <1>0, <2>1
    <2> QED BY <1>2, <2>2, <2>3 DEF RequestChange
  <1>3. Idle \in Request
    BY DEF Idle, Request, Roles
  <1>4. ASSUME NEW h \in Handlers, Handle(h)
        PROVE  Goal
    <2>0. request[h] \in Request
      BY <1>0, <1>4
    <2>1. CASE Put(h, Idle)
      BY <1>2, <1>3, <2>1
    <2>2. ASSUME NEW id \in Ids, LoginVerify(h, id)
          PROVE  Goal
      <3> DEFINE r == [Idle EXCEPT !.op = "login", !.at = "verified", !.actor = id]
      <3>1. r \in Request /\ Admitted(r)
        BY <2>2 DEF LoginVerify, Idle, Request, Roles, Admitted, Acting
      <3>2. Put(h, r) /\ UNCHANGED users
        BY <2>2 DEF LoginVerify, accounts
      <3> QED BY <1>2, <3>1, <3>2
    <2>3. CASE \E t \in Tokens : LoginCreate(h, t)
      BY <2>1, <2>3 DEF LoginCreate
    <2>4. ASSUME NEW op \in Ops, NEW t \in Tokens, Authenticate(h, op, t)
          PROVE  Goal
      <3> DEFINE id == session[t]
      <3>1. id \in Ids /\ UNCHANGED users
        BY <2>4 DEF Authenticate, Resolve
      <3>2. CASE ~Exists(id)
        BY <1>1, <2>4, <3>2 DEF Authenticate
      <3>3. CASE Exists(id)
        <4> DEFINE r == [Idle EXCEPT !.op = op, !.at = "authenticated", !.token = t,
                                     !.actor = id, !.role = users[id].role]
        <4>1. Put(h, r) /\ Admits(op, users[id])
          BY <2>4, <3>3 DEF Authenticate
        <4>2. users[id] \in Row
          BY <3>1, <3>3 DEF TypeInv, TypeOK, Exists
        <4>3. r \in Request
          BY <3>1, <4>2 DEF Idle, Request, Row, Roles
        <4>4. Admitted(r)
          BY <3>1, <3>3, <4>1, <4>2
             DEF Idle, Admitted, Acting, Admits, PasswordGated, IsRoot, Ops, Row
        <4> QED BY <1>2, <3>1, <4>1, <4>3, <4>4
      <3> QED BY <3>2, <3>3
    <2>5. CASE \E name \in Names, role \in Roles : HandleCreate(h, name, role)
      BY <2>1, <2>5 DEF HandleCreate
    <2>6. ASSUME NEW id \in Ids, NEW role \in Roles, LoadTarget(h, id, role)
          PROVE  Goal
      <3> DEFINE r == [request[h] EXCEPT !.at = "write", !.target = id, !.newRole = role]
      <3>1. Put(h, r) /\ UNCHANGED users
        BY <2>6 DEF LoadTarget, accounts
      <3>2. r \in Request
        BY <2>0 DEF Request
      <3>3. users[id].role # "root" /\ role # "root" /\ request[h].role = "root"
        BY <2>6 DEF LoadTarget, CanChangeRole, CanDeleteUser
      <3>4. Advanced(request[h], r)
        BY <2>0, <2>6, <3>1, <3>3 DEF LoadTarget, At, Request, Advanced, Loaded, IsRoot
      <3> QED BY <1>2, <3>1, <3>2, <3>4
    <2>7. CASE WriteTarget(h)
      BY <2>1, <2>7 DEF WriteTarget
    <2>8. CASE HandleRequestPass(h)
      BY <2>1, <2>8 DEF HandleRequestPass
    <2>9. CASE VerifyCurrent(h)
      <3> DEFINE r == [request[h] EXCEPT !.at = "verified"]
      <3>1. Put(h, r)
        BY <2>9 DEF VerifyCurrent
      <3>2. r \in Request /\ Advanced(request[h], r)
        BY <2>0, <2>9 DEF VerifyCurrent, At, Request, Advanced
      <3> QED BY <1>2, <3>1, <3>2
    <2>10. CASE StorePassword(h)
      <3> DEFINE r == [request[h] EXCEPT !.at = "revoke"]
      <3>1. Put(h, r) \/ Put(h, Idle)
        BY <2>10 DEF StorePassword
      <3>2. r \in Request /\ Advanced(request[h], r)
        BY <2>0, <2>10 DEF StorePassword, At, Request, Advanced
      <3> QED BY <1>2, <2>1, <3>1, <3>2
    <2>11. CASE HandleChangePassword(h) /\ ~VerifyCurrent(h) /\ ~StorePassword(h)
      BY <2>1, <2>11 DEF HandleChangePassword, Revoke
    <2>12. CASE Logout(h)
      BY <2>1, <2>12 DEF Logout, Revoke
    <2>13. CASE Abandon(h)
      BY <2>1, <2>13 DEF Abandon
    <2> QED BY <1>4, <2>2, <2>3, <2>4, <2>5, <2>6, <2>7, <2>8, <2>9, <2>10, <2>11, <2>12, <2>13
            DEF Handle, HandleChangePassword
  <1>5. CASE \E t \in Tokens : Expire(t)
    BY <1>1, <1>5 DEF Expire
  <1>6. CASE \E s \in Servers : Start(s)
    BY <1>1, <1>6 DEF Start, CountUsers, CreateRoot
  <1>7. CASE ResetRoot
    BY <1>1, <1>7 DEF ResetRoot
  <1>8. CASE UNCHANGED vars
    BY <1>1, <1>8 DEF vars
  <1> QED BY <1>4, <1>5, <1>6, <1>7, <1>8 DEF Next

\* The types are kept, and with them whom a request is about.
LEMMA TypeStep == TypeInv /\ [Next]_vars => TypeInv'
  <1> SUFFICES ASSUME TypeInv, [Next]_vars
               PROVE  TypeInv'
    OBVIOUS
  <1>1. users' \in [Ids -> Row \union {None}]
    <2>1. users \in [Ids -> Row \union {None}]
      BY DEF TypeInv, TypeOK
    <2>2. RootRow \in Row
      BY NamesAssumption DEF RootRow, Row, Roles
    <2>3. ASSUME NEW id \in Ids, NEW row \in Row, Created(id, row)
          PROVE  users' \in [Ids -> Row \union {None}]
      BY <2>1, <2>3 DEF Created
    <2>4. ASSUME NEW id \in Ids, PasswordSet(id)
          PROVE  users' \in [Ids -> Row \union {None}]
      BY <2>1, <2>4 DEF PasswordSet, Exists, Row
    <2>5. ASSUME NEW id \in Ids, NEW role \in Roles, RoleSet(id, role)
          PROVE  users' \in [Ids -> Row \union {None}]
      BY <2>1, <2>5 DEF RoleSet, Exists, Row
    <2>6. ASSUME NEW id \in Ids, Deleted(id)
          PROVE  users' \in [Ids -> Row \union {None}]
      BY <2>1, <2>6 DEF Deleted
    <2> QED BY UsersStep, <2>1, <2>2, <2>3, <2>4, <2>5, <2>6 DEF UsersChange
  <1>2. request' \in [Handlers -> Request]
    BY RequestStep
  <1>3. Attributed'
    <2> SUFFICES ASSUME NEW h \in Handlers
                 PROVE  /\ request'[h].op # "idle" => request'[h].actor \in Ids
                        /\ request'[h].at = "write" =>
                              /\ request'[h].target \in Ids
                              /\ request'[h].role = "root" /\ request'[h].newRole # "root"
      BY DEF Attributed
    <2>1. RequestChange(h)
      BY RequestStep
    <2> QED BY <2>1 DEF RequestChange, Admitted, Advanced, Loaded, Idle, TypeInv, Attributed
  <1>4. /\ session' \in [Tokens -> Ids \union {None}]
        /\ owners' \in SUBSET Ids
        /\ boot' \in [Servers -> {"down", "counted", "up"}]
    <2> DEFINE Goal == /\ session' \in [Tokens -> Ids \union {None}]
                       /\ owners' \in SUBSET Ids
                       /\ boot' \in [Servers -> {"down", "counted", "up"}]
    <2>0. /\ session \in [Tokens -> Ids \union {None}]
          /\ owners \in SUBSET Ids
          /\ boot \in [Servers -> {"down", "counted", "up"}]
      BY DEF TypeInv, TypeOK
    <2>1. CASE UNCHANGED <<session, owners, boot>>
      BY <2>0, <2>1
    <2>2. ASSUME NEW h \in Handlers, Handle(h)
          PROVE  Goal
      <3>1. ASSUME NEW t \in Tokens, LoginCreate(h, t)
            PROVE  Goal
        <4>1. request[h].actor \in Ids
          BY <3>1 DEF LoginCreate, TypeInv, Attributed
        <4> QED BY <2>0, <3>1, <4>1 DEF LoginCreate
      <3>2. ASSUME NEW op \in Ops, NEW t \in Tokens, Authenticate(h, op, t)
            PROVE  Goal
        BY <2>0, <3>2 DEF Authenticate, Resolve
      <3>3. CASE HandleRequestPass(h)
        <4>1. request[h].actor \in Ids
          BY <3>3 DEF HandleRequestPass, At, TypeInv, Attributed
        <4> QED BY <2>0, <3>3, <4>1 DEF HandleRequestPass
      <3>4. CASE Revoke(h)
        BY <2>0, <3>4 DEF Revoke
      <3>5. CASE \/ \E id \in Ids : LoginVerify(h, id)
                 \/ \E name \in Names, role \in Roles : HandleCreate(h, name, role)
                 \/ \E id \in Ids, role \in Roles : LoadTarget(h, id, role)
                 \/ WriteTarget(h) \/ VerifyCurrent(h) \/ StorePassword(h) \/ Abandon(h)
        BY <2>1, <3>5 DEF LoginVerify, HandleCreate, LoadTarget, WriteTarget, VerifyCurrent,
                          StorePassword, Abandon, accounts
      <3> QED BY <2>2, <3>1, <3>2, <3>3, <3>4, <3>5 DEF Handle, HandleChangePassword, Logout
    <2>3. CASE \E t \in Tokens : Expire(t)
      BY <2>0, <2>3 DEF Expire
    <2>4. CASE \E s \in Servers : Start(s)
      BY <2>0, <2>4 DEF Start, CountUsers, CreateRoot, accounts
    <2>5. CASE ResetRoot \/ UNCHANGED vars
      BY <2>1, <2>5 DEF ResetRoot, vars, accounts
    <2> QED BY <2>2, <2>3, <2>4, <2>5 DEF Next
  <1> QED BY <1>1, <1>2, <1>3, <1>4 DEF TypeInv, TypeOK

\* Tables and requests keep their types, and no request writes about nobody.
THEOREM TypeCorrect == Spec => [](TypeOK /\ Attributed)
  <1>1. Init => TypeInv
    BY InitType
  <1>2. TypeInv /\ [Next]_vars => TypeInv'
    BY TypeStep
  <1>3. TypeInv <=> TypeOK /\ Attributed
    BY DEF TypeInv
  <1> QED BY <1>1, <1>2, <1>3, PTL DEF Spec

-----------------------------------------------------------------------------
(* What a step leaves of the users that are there.                         *)

\* The root stays the root.
LEMMA RootStays ==
  ASSUME TypeInv, [Next]_vars, NEW id \in Ids, IsRoot(id)
  PROVE  IsRoot(id)'
  <1>1. users \in [Ids -> Row \union {None}] /\ Exists(id) /\ users[id] \in Row
    BY DEF TypeInv, TypeOK, IsRoot, Exists
  <1>2. users'[id] = users[id] \/ (users'[id] \in Row /\ users'[id].role = "root")
    <2>1. ASSUME NEW k \in Ids, NEW row, Created(k, row)
          PROVE  users'[id] = users[id]
      BY <1>1, <2>1 DEF Created, FreshId
    <2>2. ASSUME NEW k \in Ids, PasswordSet(k)
          PROVE  users'[id] \in Row /\ users'[id].role = "root"
      BY <1>1, <2>2 DEF PasswordSet, Row, IsRoot
    <2>3. ASSUME NEW k \in Ids, NEW role, RoleSet(k, role)
          PROVE  users'[id] = users[id]
      BY <1>1, <2>3 DEF RoleSet
    <2>4. ASSUME NEW k \in Ids, Deleted(k)
          PROVE  users'[id] = users[id]
      BY <1>1, <2>4 DEF Deleted
    <2> QED BY UsersStep, <2>1, <2>2, <2>3, <2>4 DEF UsersChange
  <1> QED BY <1>1, <1>2, NoneAssumption DEF IsRoot, Exists

\* Whoever becomes the root is a new user of a table without a root, by a step
\* of a server that starts.
LEMMA RootIsNew ==
  ASSUME TypeInv, [Next]_vars, NEW id \in Ids, IsRoot(id)', ~IsRoot(id)
  PROVE  FreshId(id) /\ (\A k \in Ids : ~IsRoot(k)) /\ users' = [users EXCEPT ![id] = RootRow]
  <1>1. users \in [Ids -> Row \union {None}] /\ users'[id].role = "root" /\ users'[id] # None
    BY DEF TypeInv, TypeOK, IsRoot, Exists
  <1>2. users[id] = None \/ users[id].role # "root"
    BY DEF IsRoot, Exists
  <1>3. CASE UNCHANGED users
    BY <1>1, <1>2, <1>3
  <1>4. ASSUME NEW k \in Ids, Created(k, RootRow)
        PROVE  k = id /\ FreshId(k) /\ \A j \in Ids : ~IsRoot(j)
    BY <1>1, <1>2, <1>4 DEF Created, Insertable, RootRow, IsRoot
  <1>5. ASSUME NEW k \in Ids, NEW row \in Row, NEW actor, Created(k, row),
               CanCreateUserWithRole(actor, row.role)
        PROVE  FALSE
    BY <1>1, <1>2, <1>5 DEF Created, CanCreateUserWithRole
  <1>6. ASSUME NEW k \in Ids, PasswordSet(k)
        PROVE  FALSE
    BY <1>1, <1>2, <1>6 DEF PasswordSet, Exists, Row
  <1>7. ASSUME NEW k \in Ids, NEW role, role # "root", RoleSet(k, role)
        PROVE  FALSE
    BY <1>1, <1>2, <1>7 DEF RoleSet, Exists, Row
  <1>8. ASSUME NEW k \in Ids, Deleted(k)
        PROVE  FALSE
    BY <1>1, <1>2, <1>8 DEF Deleted
  <1>9. \A h \in Handlers : request[h].at = "write" => request[h].newRole # "root"
    BY DEF TypeInv, Attributed
  <1> QED BY UsersStep, <1>3, <1>4, <1>5, <1>6, <1>7, <1>8, <1>9 DEF UsersChange, Created

\* A user who is there afterwards is new, or was there and has to change the
\* password only if that was so before.
LEMMA PasswordsAreTheirs ==
  ASSUME TypeInv, [Next]_vars, NEW id \in Ids, Exists(id)'
  PROVE  FreshId(id) \/ (Exists(id) /\ (users'[id].mustChange => users[id].mustChange))
  <1>1. users \in [Ids -> Row \union {None}] /\ users'[id] # None
    BY DEF TypeInv, TypeOK, Exists
  <1>2. ASSUME NEW k \in Ids, NEW row, Created(k, row)
        PROVE  FreshId(id) \/ users'[id] = users[id]
    BY <1>1, <1>2 DEF Created
  <1>3. ASSUME NEW k \in Ids, PasswordSet(k)
        PROVE  users'[id] = users[id] \/ (Exists(id) /\ ~users'[id].mustChange)
    BY <1>1, <1>3 DEF PasswordSet, Exists, Row
  <1>4. ASSUME NEW k \in Ids, NEW role, RoleSet(k, role)
        PROVE  Exists(id) /\ (users'[id].mustChange => users[id].mustChange)
    BY <1>1, <1>4 DEF RoleSet, Exists, Row
  <1>5. ASSUME NEW k \in Ids, Deleted(k)
        PROVE  users'[id] = users[id]
    BY <1>1, <1>5 DEF Deleted
  <1> QED BY UsersStep, <1>1, <1>2, <1>3, <1>4, <1>5 DEF UsersChange, Exists

-----------------------------------------------------------------------------
(* The root.                                                               *)

\* A request that was admitted as the root's is still the root's.
RootCopies ==
    \A h \in Handlers : request[h].role = "root" =>
        request[h].actor \in Ids /\ IsRoot(request[h].actor)

\* Where a request is at work there is a root.
Accompanied ==
    \A h \in Handlers : request[h].op # "idle" => \E id \in Ids : IsRoot(id)

RootInv == TypeInv /\ OneRoot /\ TriggerIsNeverNeeded /\ RootCopies /\ Accompanied

LEMMA InitRoot == Init => RootInv
  <1> SUFFICES ASSUME Init
               PROVE  RootInv
    OBVIOUS
  <1>1. TypeInv
    BY InitType
  <1>2. OneRoot
    BY DEF Init, OneRoot, IsRoot, Exists
  <1>3. TriggerIsNeverNeeded /\ RootCopies /\ Accompanied
    BY DEF Init, TriggerIsNeverNeeded, RootCopies, Accompanied, Idle
  <1> QED BY <1>1, <1>2, <1>3 DEF RootInv

LEMMA RootStep == RootInv /\ [Next]_vars => RootInv'
  <1> SUFFICES ASSUME RootInv, [Next]_vars
               PROVE  RootInv'
    OBVIOUS
  <1>0. TypeInv
    BY DEF RootInv
  <1>1. TypeInv'
    BY <1>0, TypeStep
  <1>2. \A id \in Ids : IsRoot(id) => IsRoot(id)'
    BY <1>0, RootStays
  <1>3. \A id \in Ids : IsRoot(id)' /\ ~IsRoot(id) =>
           FreshId(id) /\ (\A k \in Ids : ~IsRoot(k)) /\ users' = [users EXCEPT ![id] = RootRow]
    BY <1>0, RootIsNew
  <1>4. OneRoot'
    <2>1. ASSUME NEW i \in Ids, NEW j \in Ids, IsRoot(i)', IsRoot(j)'
          PROVE  i = j
      <3>1. CASE IsRoot(i) /\ IsRoot(j)
        BY <3>1 DEF RootInv, OneRoot
      <3>2. CASE ~IsRoot(i) /\ ~IsRoot(j)
        <4>1. users[j] = None \/ users[j].role # "root"
          BY <3>2 DEF IsRoot, Exists
        <4>2. users'[j] # None /\ users'[j].role = "root"
          BY <2>1 DEF IsRoot, Exists
        <4>3. users' = [users EXCEPT ![i] = RootRow]
          BY <1>3, <2>1, <3>2
        <4> QED BY <1>0, <4>1, <4>2, <4>3 DEF TypeInv, TypeOK
      <3> QED BY <1>3, <2>1, <3>1, <3>2
    <2>2. ASSUME NEW i \in Ids, Exists(i)'
          PROVE  \E k \in Ids : IsRoot(k)'
      <3>1. CASE \E k \in Ids : Exists(k)
        BY <1>2, <3>1 DEF RootInv, OneRoot
      <3>2. CASE \A k \in Ids : ~Exists(k)
        <4>1. users \in [Ids -> Row \union {None}] /\ users[i] = None /\ users'[i] # None
          BY <1>0, <2>2, <3>2 DEF TypeInv, TypeOK, Exists
        <4>2. PICK k \in Ids : \/ Created(k, RootRow)
                               \/ \E h \in Handlers : At(h, "create", "authenticated")
          BY <1>0, <3>2, <4>1, UsersStep DEF UsersChange, PasswordSet, RoleSet, Deleted
        <4>3. CASE Created(k, RootRow)
          <5>1. users'[k] = RootRow
            BY <4>1, <4>3 DEF Created
          <5>2. RootRow \in Row
            BY NamesAssumption DEF RootRow, Row, Roles
          <5> QED BY <5>1, <5>2, NoneAssumption DEF IsRoot, Exists, RootRow
        <4>4. CASE \E h \in Handlers : At(h, "create", "authenticated")
          BY <1>2, <4>4 DEF At, RootInv, Accompanied
        <4> QED BY <4>2, <4>3, <4>4
      <3> QED BY <3>1, <3>2
    <2> QED BY <2>1, <2>2 DEF OneRoot
  <1>5. \A h \in Handlers : RequestChange(h)
    BY <1>0, RequestStep
  <1>6. TriggerIsNeverNeeded'
    <2> SUFFICES ASSUME NEW h \in Handlers, request'[h].at = "write"
                 PROVE  ~IsRoot(request[h].target)'
      BY DEF TriggerIsNeverNeeded
    <2>1. CASE request'[h] = request[h]
      <3>1. request[h].target \in Ids /\ ~IsRoot(request[h].target)
        BY <1>0, <2>1 DEF RootInv, TriggerIsNeverNeeded, TypeInv, Attributed
      <3>2. ~FreshId(request[h].target)
        BY DEF FreshId
      <3> QED BY <1>3, <2>1, <3>1, <3>2
    <2>2. CASE Loaded(request'[h]) /\ UNCHANGED users
      BY <2>2 DEF Loaded, IsRoot, Exists
    <2> QED BY <1>5, <2>1, <2>2 DEF RequestChange, Idle, Admitted, Advanced
  <1>7. RootCopies'
    <2> SUFFICES ASSUME NEW h \in Handlers, request'[h].role = "root"
                 PROVE  request'[h].actor \in Ids /\ IsRoot(request[h].actor)'
      BY DEF RootCopies
    <2>1. CASE request'[h].actor = request[h].actor /\ request'[h].role = request[h].role
      <3>1. request[h].actor \in Ids /\ IsRoot(request[h].actor)
        BY <2>1 DEF RootInv, RootCopies
      <3> QED BY <1>2, <2>1, <3>1
    <2>2. CASE Admitted(request'[h]) /\ UNCHANGED users
      BY <2>2 DEF Admitted, IsRoot, Exists
    <2> QED BY <1>5, <2>1, <2>2 DEF RequestChange, Idle, Advanced
  <1>8. Accompanied'
    <2> SUFFICES ASSUME NEW h \in Handlers, request'[h].op # "idle"
                 PROVE  \E id \in Ids : IsRoot(id)'
      BY DEF Accompanied
    <2>1. CASE request[h].op # "idle"
      BY <1>2, <2>1 DEF RootInv, Accompanied
    <2>2. CASE Admitted(request'[h])
      BY <1>2, <2>2 DEF Admitted, RootInv, OneRoot
    <2> QED BY <1>5, <2>1, <2>2 DEF RequestChange, Idle, Advanced
  <1> QED BY <1>1, <1>4, <1>6, <1>7, <1>8 DEF RootInv

LEMMA RootAlways == Spec => []RootInv
  BY InitRoot, RootStep, PTL DEF Spec

\* There is exactly one root as soon as there are users, however many servers
\* start at once (EnsureBootstrapRoot).
THEOREM TheRootIsOne == Spec => []OneRoot
  <1>1. RootInv => OneRoot
    BY DEF RootInv
  <1> QED BY <1>1, RootAlways, PTL

\* What a handler has read of its target is still true when it writes
\* (handleUpdateUser, handleDeleteUser).
THEOREM TargetsAreNeverTheRoot == Spec => []TriggerIsNeverNeeded
  <1>1. RootInv => TriggerIsNeverNeeded
    BY DEF RootInv
  <1> QED BY <1>1, RootAlways, PTL

\* Only requests of the present root make admins (CanCreateUserWithRole,
\* CanChangeRole).
THEOREM OnlyTheRootMakesAdmins == Spec => AdminsAreMadeByTheRoot
  <1> DEFINE ByTheRoot == \E h \in Handlers : /\ request[h] # Idle
                                             /\ request'[h] = Idle
                                             /\ IsRoot(request[h].actor)
  <1>1. ASSUME RootInv, [Next]_vars, NEW id \in Ids, IsAdmin(id)', ~IsAdmin(id)
        PROVE  ByTheRoot
    <2>0. /\ users \in [Ids -> Row \union {None}] /\ request \in [Handlers -> Request]
          /\ users'[id].role = "admin" /\ users'[id] # None
          /\ users[id] = None \/ users[id].role # "admin"
      BY <1>1 DEF RootInv, TypeInv, TypeOK, IsAdmin, Exists
    <2>1. ASSUME NEW h \in Handlers, request[h].op # "idle", request[h].role = "root",
                 request' = [request EXCEPT ![h] = Idle]
          PROVE  ByTheRoot
      BY <1>1, <2>0, <2>1 DEF RootInv, RootCopies, Idle
    <2>2. ASSUME NEW k \in Ids, Created(k, RootRow)
          PROVE  FALSE
      BY <2>0, <2>2 DEF Created, RootRow
    <2>3. ASSUME NEW k \in Ids, NEW row \in Row, NEW h \in Handlers, Created(k, row),
                 At(h, "create", "authenticated"),
                 CanCreateUserWithRole(request[h].role, row.role),
                 request' = [request EXCEPT ![h] = Idle]
          PROVE  ByTheRoot
      <3>1. row.role = "admin"
        BY <2>0, <2>3 DEF Created
      <3> QED BY <2>1, <2>3, <3>1 DEF CanCreateUserWithRole, At
    <2>4. ASSUME NEW k \in Ids, PasswordSet(k)
          PROVE  FALSE
      BY <2>0, <2>4 DEF PasswordSet, Exists, Row
    <2>5. ASSUME NEW h \in Handlers, request[h].op = "update", request[h].at = "write",
                 request' = [request EXCEPT ![h] = Idle]
          PROVE  ByTheRoot
      BY <1>1, <2>1, <2>5 DEF RootInv, TypeInv, Attributed
    <2>6. ASSUME NEW k \in Ids, Deleted(k)
          PROVE  FALSE
      BY <2>0, <2>6 DEF Deleted
    <2>7. ~UNCHANGED users
      BY <2>0
    <2>8. UsersChange
      BY <1>1, UsersStep DEF RootInv
    <2> HIDE DEF ByTheRoot
    <2> QED BY <2>2, <2>3, <2>4, <2>5, <2>6, <2>7, <2>8 DEF UsersChange
  <1>2. RootInv /\ [Next]_vars =>
          [\A id \in Ids : IsAdmin(id)' /\ ~IsAdmin(id) =>
              \E h \in Handlers : /\ request[h] # Idle
                                  /\ request'[h] = Idle
                                  /\ IsRoot(request[h].actor)]_vars
    BY <1>1
  <1> QED BY <1>2, RootAlways, PTL DEF Spec, AdminsAreMadeByTheRoot

-----------------------------------------------------------------------------
(* Passwords and requesters.                                               *)

\* Nobody acts under a password another person has set, also when it was set
\* while the request ran (requirePasswordChanged).
THEOREM PasswordsAreChangedFirst == Spec => []ActsWithOwnPassword
  <1> DEFINE Inv == TypeInv /\ ActsWithOwnPassword
  <1>1. Init => Inv
    BY InitType DEF Init, ActsWithOwnPassword, Idle
  <1>2. Inv /\ [Next]_vars => Inv'
    <2> SUFFICES ASSUME Inv, [Next]_vars
                 PROVE  Inv'
      OBVIOUS
    <2>1. TypeInv'
      BY TypeStep
    <2>2. ASSUME NEW h \in Handlers, request'[h].op \in Acting, Exists(request[h].actor)'
          PROVE  ~users'[request'[h].actor].mustChange
      <3>1. CASE /\ request[h].op = request'[h].op
                 /\ request[h].actor = request'[h].actor
        <4>1. request[h].op \in Acting /\ request[h].actor \in Ids
          BY <2>2, <3>1 DEF TypeInv, Attributed, Acting
        <4>2. ~FreshId(request[h].actor)
          BY DEF FreshId
        <4>3. Exists(request[h].actor)'
          BY <2>2
        <4>4. /\ Exists(request[h].actor)
              /\ users'[request[h].actor].mustChange => users[request[h].actor].mustChange
          BY <2>2, <3>1, <4>1, <4>2, PasswordsAreTheirs DEF Exists
        <4>5. ~users[request[h].actor].mustChange
          BY <4>1, <4>4 DEF ActsWithOwnPassword, Acting
        <4> QED BY <3>1, <4>4, <4>5
      <3>2. CASE Admitted(request'[h]) /\ UNCHANGED users
        BY <2>2, <3>2 DEF Admitted
      <3>3. CASE request'[h] = Idle
        BY <2>2, <3>3 DEF Idle, Acting
      <3> QED BY <3>1, <3>2, <3>3, RequestStep DEF RequestChange, Advanced
    <2> QED BY <2>1, <2>2 DEF ActsWithOwnPassword, Acting
  <1>3. Inv => ActsWithOwnPassword
    OBVIOUS
  <1> QED BY <1>1, <1>2, <1>3, PTL DEF Spec

\* The requester of a pass is never deleted, and was there when the pass was
\* inserted (passes.requested_by).
THEOREM RequestersAreKept == Spec => []RequestersStay
  <1> DEFINE Inv == TypeInv /\ RequestersStay
  <1>1. Init => Inv
    BY InitType DEF Init, RequestersStay
  <1>2. Inv /\ [Next]_vars => Inv'
    <2> SUFFICES ASSUME Inv, [Next]_vars
                 PROVE  Inv'
      OBVIOUS
    <2>1. TypeInv'
      BY TypeStep
    <2>2. CASE UNCHANGED owners
      <3>1. ASSUME NEW id \in owners
            PROVE  Exists(id)'
        <4>1. /\ id \in Ids /\ users \in [Ids -> Row \union {None}]
              /\ Exists(id) /\ users[id] # None /\ users[id] \in Row
          BY <3>1 DEF TypeInv, TypeOK, RequestersStay, Exists
        <4>2. users'[id] = users[id] \/ users'[id] \in Row
          <5>1. ASSUME NEW k \in Ids, NEW row, Created(k, row)
                PROVE  users'[id] = users[id]
            BY <4>1, <5>1 DEF Created, FreshId
          <5>2. ASSUME NEW k \in Ids, PasswordSet(k)
                PROVE  users'[id] \in Row
            BY <4>1, <5>2 DEF PasswordSet, Row
          <5>3. ASSUME NEW k \in Ids, NEW role \in Roles, RoleSet(k, role)
                PROVE  users'[id] \in Row
            BY <4>1, <5>3 DEF RoleSet, Row
          <5>4. ASSUME NEW k \in Ids, Deleted(k)
                PROVE  users'[id] = users[id]
            BY <3>1, <4>1, <5>4 DEF Deleted, Referenced
          <5> QED BY UsersStep, <5>1, <5>2, <5>3, <5>4 DEF UsersChange
        <4> QED BY <4>1, <4>2, NoneAssumption DEF Exists
      <3> QED BY <2>1, <2>2, <3>1 DEF RequestersStay
    <2>3. ASSUME NEW h \in Handlers, HandleRequestPass(h)
          PROVE  RequestersStay'
      BY <2>3 DEF HandleRequestPass, RequestersStay, Exists
    <2>4. UNCHANGED owners \/ \E h \in Handlers : HandleRequestPass(h)
      BY DEF Next, Handle, LoginVerify, LoginCreate, Authenticate, HandleCreate, LoadTarget,
             WriteTarget, HandleChangePassword, VerifyCurrent, StorePassword, Logout, Revoke,
             Abandon, Expire, Start, CountUsers, CreateRoot, ResetRoot, vars, accounts
    <2> QED BY <2>1, <2>2, <2>3, <2>4
  <1>3. Inv => RequestersStay
    OBVIOUS
  <1> QED BY <1>1, <1>2, <1>3, PTL DEF Spec
=============================================================================
