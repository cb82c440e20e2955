-------------------------- MODULE BackOfficeProofs --------------------------
(***************************************************************************)
(* What holds of components of the back office for any number of rows and  *)
(* of handlers at once, or for any number of handlers one after the other. *)
(* Each component is an instance; its specification lets its own handlers  *)
(* run, as the runs of MCBackOffice do.                                    *)
(***************************************************************************)
EXTENDS Integers, Sequences, FiniteSets, FiniteSetTheorems, TLAPS

CONSTANTS
  Requests, MaxServed, RoleIds, Names, Permissions, Canonical, Employees,
  Passwords, MaxLinks, Buyers, Purchases, Populations, LaterOnes,
  CategoryIds, CategoriesInUse, ProductIds, VariantIds, Brands, Trees, Levels,
  Groups, TypeIds, SpecProduct(_), FiledIn(_), OnSale, SpecValues,
  Trimmed(_), Folded(_), MaxOptions

VARIABLES
  pc, job, served, roles, cache, staff, links, given, outdated, touched,
  used, bought, rfm, summary, jobLog, computed, tornSnapshot, categories,
  nextCategory, moved, products, variants, contents, brandRows,
  productBrands, referred, enteredContents, enteredBrands, byHand,
  tornProducts, parents, specGroups, specTypes, groupLinks, specs,
  enteredSpecs, tornSpecs

Access == INSTANCE StaffRoles
Night == INSTANCE Reports
Tree == INSTANCE Categories WITH Ids <- CategoryIds, Filed <- CategoriesInUse
Shelf == INSTANCE Products
Sheet == INSTANCE Specifications WITH Ids <- CategoryIds, Variants <- VariantIds,
    ProductOf <- SpecProduct

\* No request is under way.
Quiet ==
  pc = [r \in Requests |-> "idle"] /\ job = [r \in Requests |-> <<>>] /\ served = 0

\* Every slot has a step and what its handler has read.
Slots == pc = [r \in Requests |-> pc[r]] /\ job = [r \in Requests |-> job[r]]

\* Handlers do not overlap.
OneAtATime == \A r, q \in Requests : r = q

-----------------------------------------------------------------------------
(* Roles, the cache of what they grant, their holders, and links that confirm a password *)

AccessStart == Access!RolesInit /\ Quiet

accessVars == <<Access!roleVars, Access!handling>>

AccessSpec == AccessStart /\ [][Access!Next]_accessVars

IsRole(row) ==
  row = [name |-> row.name, isSystem |-> row.isSystem, permissions |-> row.permissions]

\* The rows are functions and records.
Rows ==
  /\ roles = [k \in Access!There |-> roles[k]] /\ 0 \notin Access!There
  /\ \A k \in Access!There : IsRole(roles[k])

OneEachName == \A j, k \in Access!There : roles[j].name = roles[k].name => j = k

\* The roles of the system are there, marked, and grant what they should.
SystemRoles ==
  /\ \A n \in DOMAIN Canonical : \E k \in Access!There : roles[k].name = n
  /\ \A k \in Access!There : roles[k].name \in DOMAIN Canonical =>
       /\ roles[k].isSystem = TRUE
       /\ roles[k].name \notin touched => roles[k].permissions = Canonical[roles[k].name]

\* A number of a role that is not there, or not of the system.
Ordinary(rows, k) == k # 0 /\ (k \in DOMAIN rows => rows[k].isSystem # TRUE)

\* No edit or removal under way is of a role of the system.
EditsOfOthers ==
  \A r \in Requests :
    /\ pc[r] = "save role" =>
         IsRole(job[r].row) /\ job[r].row.isSystem # TRUE /\ Ordinary(roles, job[r].role)
    /\ pc[r] = "delete role" => Ordinary(roles, job[r].role)

RolesInv == Slots /\ Rows /\ OneEachName /\ SystemRoles /\ EditsOfOthers

\* The roles at the start have names of their own.
LEMMA RolesInvInit == 0 \notin RoleIds /\ AccessStart => RolesInv
<1> SUFFICES ASSUME 0 \notin RoleIds, AccessStart PROVE RolesInv
  OBVIOUS
<1>1. PICK numbers \in [DOMAIN Canonical -> RoleIds] :
        /\ \A m, n \in DOMAIN Canonical : numbers[m] = numbers[n] => m = n
        /\ roles = [k \in {numbers[n] : n \in DOMAIN Canonical} |->
                      LET n == CHOOSE m \in DOMAIN Canonical : numbers[m] = k IN
                      [name |-> n, isSystem |-> TRUE, permissions |-> Canonical[n]]]
  BY DEF AccessStart, Quiet, Access!RolesInit
<1>2. Access!There = {numbers[n] : n \in DOMAIN Canonical}
  BY <1>1 DEF Access!There
<1>3. \A n \in DOMAIN Canonical :
        roles[numbers[n]] = [name |-> n, isSystem |-> TRUE, permissions |-> Canonical[n]]
  <2>1. SUFFICES ASSUME NEW n \in DOMAIN Canonical
        PROVE roles[numbers[n]] = [name |-> n, isSystem |-> TRUE, permissions |-> Canonical[n]]
    OBVIOUS
  <2>2. (CHOOSE m \in DOMAIN Canonical : numbers[m] = numbers[n]) = n
    BY <1>1
  <2> QED
    BY <1>1, <2>2
<1>4. roles = [k \in Access!There |-> roles[k]]
  BY <1>1, <1>2
<1>5. \A r \in Requests : pc[r] = "idle"
  BY DEF AccessStart, Quiet
<1> QED
  <2>1. Slots /\ EditsOfOthers
    BY <1>5 DEF Slots, EditsOfOthers, AccessStart, Quiet
  <2>2. Rows
    <3>1. ASSUME NEW k \in Access!There PROVE IsRole(roles[k]) /\ k # 0
      <4>1. PICK n \in DOMAIN Canonical : k = numbers[n]
        BY <1>2
      <4>2. k \in RoleIds
        BY <1>1, <4>1
      <4>3. roles[k] = [name |-> n, isSystem |-> TRUE, permissions |-> Canonical[n]]
        BY <1>3, <4>1
      <4> QED
        BY <4>2, <4>3 DEF IsRole
    <3> QED
      BY <1>4, <3>1 DEF Rows
  <2>3. OneEachName /\ SystemRoles
    <3>1. ASSUME NEW k \in Access!There
          PROVE  /\ roles[k].name \in DOMAIN Canonical /\ k = numbers[roles[k].name]
                 /\ roles[k].isSystem = TRUE /\ roles[k].permissions = Canonical[roles[k].name]
      <4>1. PICK n \in DOMAIN Canonical : k = numbers[n]
        BY <1>2
      <4>2. roles[k] = [name |-> n, isSystem |-> TRUE, permissions |-> Canonical[n]]
        BY <1>3, <4>1
      <4> QED
        BY <4>1, <4>2
    <3>2. ASSUME NEW n \in DOMAIN Canonical PROVE numbers[n] \in
                 Access!There /\ roles[numbers[n]].name = n
      <4>1. roles[numbers[n]] = [name |-> n, isSystem |-> TRUE, permissions |-> Canonical[n]]
        BY <1>3
      <4> QED
        BY <1>2, <4>1
    <3>3. OneEachName
      BY <3>1 DEF OneEachName
    <3>4. SystemRoles
      BY <3>1, <3>2 DEF SystemRoles
    <3> QED
      BY <3>3, <3>4
  <2> QED
    BY <2>1, <2>2, <2>3 DEF RolesInv

\* A step of a handler that begins no edit leaves every edit of an ordinary role.
LEMMA EditsStay ==
  ASSUME EditsOfOthers, \A k : Ordinary(roles, k) => Ordinary(roles', k),
         \A r \in Requests : pc'[r] \in {"save role", "delete role"} =>
           pc'[r] = pc[r] /\ job'[r] = job[r]
  PROVE  EditsOfOthers'
<1>1. ASSUME NEW r \in Requests, pc'[r] \in {"save role", "delete role"}
      PROVE  /\ Ordinary(roles', job'[r].role)
             /\ pc'[r] = "save role" => IsRole(job'[r].row) /\ job'[r].row.isSystem # TRUE
  <2>1. pc[r] = pc'[r] /\ job'[r] = job[r]
    BY <1>1
  <2>2. Ordinary(roles, job[r].role)
    BY <1>1, <2>1 DEF EditsOfOthers
  <2>3. Ordinary(roles', job'[r].role)
    BY <2>1, <2>2
  <2> QED
    BY <2>1, <2>3 DEF EditsOfOthers
<1> QED
  BY <1>1 DEF EditsOfOthers, IsRole

\* Writing the rows of an ordinary role, under a name that is free.
LEMMA OthersMayChange ==
  ASSUME Rows, OneEachName, SystemRoles, NEW k, Ordinary(roles, k),
         NEW row, IsRole(row), row.isSystem # TRUE, Access!Free(row.name, k),
         roles' = Access!With(roles, k, row), UNCHANGED touched
  PROVE  Rows' /\ OneEachName' /\ SystemRoles' /\ \A i : Ordinary(roles, i) => Ordinary(roles', i)
<1>1. /\ roles' = [j \in Access!There \cup {k} |-> IF j = k THEN row ELSE roles[j]]
      /\ Access!There' = Access!There \cup {k}
  BY DEF Access!With, Access!There
<1>2. Rows'
  <2>1. \A j \in Access!There' : IsRole(roles'[j])
    BY <1>1 DEF Rows
  <2>2. roles' = [j \in Access!There' |-> roles'[j]]
    BY <1>1
  <2>3. 0 \notin Access!There'
    BY <1>1 DEF Rows, Ordinary
  <2> QED
    BY <2>1, <2>2, <2>3 DEF Rows, IsRole
<1>3. \A j \in Access!There \ {k} : roles[j].name # row.name
  BY DEF Access!Free, Access!TakenBy
<1>4. row.name \notin DOMAIN Canonical
  BY <1>3 DEF SystemRoles, Ordinary, Access!There
<1>5. OneEachName'
  BY <1>1, <1>3 DEF OneEachName
<1>6. SystemRoles'
  <2>1. ASSUME NEW n \in DOMAIN Canonical PROVE \E j \in Access!There' : roles'[j].name = n
    <3>1. PICK j \in Access!There : roles[j].name = n
      BY DEF SystemRoles
    <3>2. j # k
      BY <3>1 DEF SystemRoles, Ordinary, Access!There
    <3> QED
      BY <1>1, <3>1, <3>2
  <2>2. ASSUME NEW j \in Access!There', roles'[j].name \in DOMAIN Canonical
        PROVE  /\ roles'[j].isSystem = TRUE
               /\ roles'[j].name \notin touched =>
                      roles'[j].permissions = Canonical[roles'[j].name]
    <3>1. j # k /\ j \in Access!There /\ roles'[j] = roles[j]
      BY <1>1, <1>4, <2>2
    <3> QED
      BY <2>2, <3>1 DEF SystemRoles
  <2> QED
    BY <2>1, <2>2 DEF SystemRoles
<1>7. \A i : Ordinary(roles, i) => Ordinary(roles', i)
  BY <1>1 DEF Ordinary, Access!There
<1> QED
  BY <1>2, <1>5, <1>6, <1>7

\* Every step of a handler of roles.
LEMMA RolesInvNext == 0 \notin RoleIds /\ RolesInv /\ [Access!Next]_accessVars => RolesInv'
<1> SUFFICES ASSUME 0 \notin RoleIds, RolesInv, [Access!Next]_accessVars PROVE RolesInv'
  OBVIOUS
<1> USE DEF RolesInv
<1>0. ASSUME UNCHANGED <<roles, touched>>
      PROVE  Rows' /\ OneEachName' /\ SystemRoles' /\ \A k : Ordinary(roles, k) =>
                 Ordinary(roles', k)
  <2>1. Access!There' = Access!There
    BY <1>0 DEF Access!There
  <2>2. Rows'
    BY <1>0, <2>1 DEF Rows, IsRole
  <2>3. OneEachName' /\ SystemRoles'
    BY <1>0, <2>1 DEF OneEachName, SystemRoles
  <2> QED
    BY <1>0, <2>2, <2>3 
<1>a. ASSUME NEW r \in Requests, Access!Finish(r)
      PROVE  Slots' /\ \A q \in Requests : pc'[q] \in {"save role", "delete role"} =>
                          pc'[q] = pc[q] /\ job'[q] = job[q]
  BY <1>a DEF Access!Finish, Slots
<1>1. ASSUME NEW r \in Requests,
             \/ Access!CreateEmployee(r)
             \/ \E e \in DOMAIN staff : Access!RemoveEmployee(r, e)
                    \/ Access!AdminResetPassword(r, e)
                                          \/ Access!RequestPasswordChange(r, e)
      PROVE  RolesInv'
  <2>1. UNCHANGED <<roles, touched, pc, job>>
    BY <1>1 DEF Access!CreateEmployee, Access!RemoveEmployee, Access!AdminResetPassword,
       Access!RequestPasswordChange, Access!AtOnce
  <2>2. Slots'
    BY <2>1 DEF Slots
  <2> QED
    BY <2>1, <2>2, <1>0, EditsStay
<1>2. ASSUME NEW r \in Requests,
             Access!Invalidate(r) \/ Access!Fill(r) \/ Access!SaveEmployee(r)
                 \/ Access!DropLink(r) \/ Access!Abandon(r)
      PROVE  RolesInv'
  <2>1. UNCHANGED <<roles, touched>> /\ Access!Finish(r)
    BY <1>2 DEF Access!Invalidate, Access!Fill, Access!SaveEmployee, Access!DropLink,
       Access!Abandon, Access!GiveUp
  <2> QED
    BY <2>1, <1>a, <1>0, EditsStay
<1>3. ASSUME NEW r \in Requests, Access!SetPassword(r) PROVE RolesInv'
  <2>1. /\ Slots' /\ UNCHANGED <<roles, touched>>
        /\ \A q \in Requests : pc'[q] \in {"save role", "delete role"} =>
               pc'[q] = pc[q] /\ job'[q] = job[q]
    BY <1>3 DEF Slots, Access!SetPassword, Access!Continue
  <2> QED
    BY <2>1, <1>0, EditsStay
<1>4. ASSUME NEW r \in Requests,
             \/ \E n \in Names : Access!Check(r, n)
             \/ \E e \in DOMAIN staff : Access!UpdateEmployee(r, e) \/ Access!AssignRoles(r, e)
             \/ \E l \in DOMAIN links : Access!ConfirmPasswordChange(r, l)
      PROVE  RolesInv'
  <2> DEFINE Other == {"fill", "save employee", "confirm"}
  <2>0. PICK l \in Other : \E j : Access!Begin(r, l, j)
    <3>1. ASSUME NEW n, Access!Check(r, n) PROVE \E l \in Other : \E j : Access!Begin(r, l, j)
      BY <3>1 DEF Access!Check
    <3>2. ASSUME NEW e, Access!UpdateEmployee(r, e) PROVE \E l \in Other : \E j :
                 Access!Begin(r, l, j)
      BY <3>2 DEF Access!UpdateEmployee
    <3>3. ASSUME NEW e, Access!AssignRoles(r, e) PROVE \E l \in Other : \E j :
                 Access!Begin(r, l, j)
      BY <3>3 DEF Access!AssignRoles
    <3>4. ASSUME NEW k, Access!ConfirmPasswordChange(r, k) PROVE \E l \in Other : \E j :
                 Access!Begin(r, l, j)
      BY <3>4 DEF Access!ConfirmPasswordChange
    <3> HIDE DEF Other
    <3> QED
      BY <1>4, <3>1, <3>2, <3>3, <3>4
  <2>1. PICK j : Access!Begin(r, l, j)
    BY <2>0
  <2>2. UNCHANGED <<roles, touched>>
    BY <1>4 DEF Access!Check, Access!UpdateEmployee, Access!AssignRoles,
       Access!ConfirmPasswordChange, Access!roleVars
  <2>3. /\ Slots'
        /\ \A q \in Requests : pc'[q] \in {"save role", "delete role"} =>
               pc'[q] = pc[q] /\ job'[q] = job[q]
    BY <2>1 DEF Slots, Access!Begin
  <2> QED
    BY <2>2, <2>3, <1>0, EditsStay
<1>5. ASSUME NEW r \in Requests, Access!Create(r) PROVE RolesInv'
  <2>1. PICK k \in RoleIds \ Access!There, n \in {m \in Names : Access!Free(m, 0)} :
          roles' = Access!With(roles, k, [name |-> n, isSystem |-> FALSE, permissions |-> {}])
    BY <1>5 DEF Access!Create
  <2>2. UNCHANGED <<touched, pc, job>>
    BY <1>5 DEF Access!Create, Access!AtOnce
  <2> DEFINE row == [name |-> n, isSystem |-> FALSE, permissions |-> {}]
  <2>3. IsRole(row) /\ row.isSystem # TRUE /\ row.name = n
    BY DEF IsRole
  <2>4. Access!Free(n, k)
    BY <2>1 DEF Access!Free, Access!TakenBy, Rows
  <2>5. Ordinary(roles, k)
    BY <2>1 DEF Ordinary, Access!There
  <2> HIDE DEF row
  <2>6. Slots'
    BY <2>2 DEF Slots
  <2>7. Rows' /\ OneEachName' /\ SystemRoles' /\ \A i : Ordinary(roles, i) => Ordinary(roles', i)
    BY <2>1, <2>2, <2>3, <2>4, <2>5, OthersMayChange DEF row
  <2> QED
    BY <2>2, <2>6, <2>7, EditsStay
<1>6. ASSUME NEW r \in Requests, NEW k \in Access!There, Access!Update(r, k)
             \/ Access!AssignPermissions(r, k)
      PROVE  RolesInv'
  <2>1. UNCHANGED <<roles, touched>> /\ Ordinary(roles, k) /\ roles[k].isSystem # TRUE
    BY <1>6 DEF Access!Update, Access!AssignPermissions, Access!MayEdit, Ordinary, Rows,
       Access!roleVars
  <2>2. IsRole(roles[k])
    BY DEF Rows
  <2>3. ASSUME NEW n, NEW row, row = [roles[k] EXCEPT !.name = n]
        PROVE IsRole(row) /\ row.isSystem # TRUE
    <3>1. row = [name |-> n, isSystem |-> roles[k].isSystem, permissions |-> roles[k].permissions]
      BY <2>2, <2>3 DEF IsRole
    <3> QED
      BY <2>1, <3>1 DEF IsRole
  <2>4. ASSUME NEW p, NEW row, row = [roles[k] EXCEPT !.permissions = p]
        PROVE IsRole(row) /\ row.isSystem # TRUE
    <3>1. row = [name |-> roles[k].name, isSystem |-> roles[k].isSystem, permissions |-> p]
      BY <2>2, <2>4 DEF IsRole
    <3> QED
      BY <2>1, <3>1 DEF IsRole
  <2>5. PICK row, key : /\ Access!Begin(r, "save role", [role |-> k, row |-> row, key |-> key])
                        /\ IsRole(row) /\ row.isSystem # TRUE
    BY <1>6, <2>3, <2>4 DEF Access!Update, Access!AssignPermissions
  <2>6. /\ Slots' /\ pc'[r] = "save role" /\ job'[r].role = k /\ job'[r].row = row
        /\ \A q \in Requests \ {r} : pc'[q] = pc[q] /\ job'[q] = job[q]
    BY <2>5 DEF Slots, Access!Begin
  <2>7. EditsOfOthers'
    <3>1. ASSUME NEW q \in Requests, NEW i, i = job'[q].role, NEW new, new = job'[q].row
          PROVE  /\ pc'[q] = "save role" =>
                        IsRole(new) /\ new.isSystem # TRUE /\ Ordinary(roles', i)
                 /\ pc'[q] = "delete role" => Ordinary(roles', i)
      <4>1. \A j : Ordinary(roles, j) => Ordinary(roles', j)
        BY <2>1
      <4>2. CASE q = r
        <5>1. pc'[q] = "save role" /\ i = k /\ new = row
          BY <2>6, <3>1, <4>2
        <5> QED
          BY <2>1, <2>5, <4>1, <5>1
      <4>3. CASE q # r
        BY <2>6, <3>1, <4>1, <4>3 DEF EditsOfOthers
      <4> QED
        BY <4>2, <4>3
    <3> QED
      BY <3>1 DEF EditsOfOthers, IsRole
  <2> QED
    BY <2>1, <2>6, <2>7, <1>0
<1>7. ASSUME NEW r \in Requests, Access!SaveRole(r) PROVE RolesInv'
  <2>1. /\ pc[r] = "save role" /\ Access!Free(job[r].row.name, job[r].role) /\ UNCHANGED touched
        /\ roles' = Access!With(roles, job[r].role, job[r].row)
    BY <1>7 DEF Access!SaveRole
  <2>2. IsRole(job[r].row) /\ job[r].row.isSystem # TRUE /\ Ordinary(roles, job[r].role)
    BY <2>1 DEF EditsOfOthers
  <2>3. Access!Finish(r) \/ Access!Continue(r, "invalidate", job[r])
    BY <1>7 DEF Access!SaveRole
  <2>4. /\ Slots'
        /\ \A q \in Requests : pc'[q] \in {"save role", "delete role"} =>
               pc'[q] = pc[q] /\ job'[q] = job[q]
    BY <2>3, <1>a DEF Access!Continue, Slots
  <2>5. Rows' /\ OneEachName' /\ SystemRoles' /\ \A i : Ordinary(roles, i) => Ordinary(roles', i)
    BY <2>1, <2>2, OthersMayChange
  <2> QED
    BY <2>4, <2>5, EditsStay
<1>8. ASSUME NEW r \in Requests, NEW k \in Access!There, Access!Remove(r, k) PROVE RolesInv'
  <2>1. /\ UNCHANGED <<roles, touched>> /\ Ordinary(roles, k)
        /\ Access!Begin(r, "delete role", [role |-> k])
    BY <1>8 DEF Access!Remove, Access!MayEdit, Ordinary, Rows, Access!roleVars
  <2>2. /\ Slots' /\ pc'[r] = "delete role" /\ job'[r].role = k
        /\ \A q \in Requests \ {r} : pc'[q] = pc[q] /\ job'[q] = job[q]
    BY <2>1 DEF Slots, Access!Begin
  <2>3. EditsOfOthers'
    <3>1. ASSUME NEW q \in Requests, NEW i, i = job'[q].role, NEW new, new = job'[q].row
          PROVE  /\ pc'[q] = "save role" =>
                        IsRole(new) /\ new.isSystem # TRUE /\ Ordinary(roles', i)
                 /\ pc'[q] = "delete role" => Ordinary(roles', i)
      <4>1. \A j : Ordinary(roles, j) => Ordinary(roles', j)
        BY <2>1
      <4>2. CASE q = r
        BY <2>1, <2>2, <3>1, <4>1, <4>2
      <4>3. CASE q # r
        BY <2>2, <3>1, <4>1, <4>3 DEF EditsOfOthers
      <4> QED
        BY <4>2, <4>3
    <3> QED
      BY <3>1 DEF EditsOfOthers, IsRole
  <2> QED
    BY <2>1, <2>2, <2>3, <1>0
<1>9. ASSUME NEW r \in Requests, Access!DeleteRole(r) PROVE RolesInv'
  <2>1. PICK k : k = job[r].role
    OBVIOUS
  <2>2. /\ pc[r] = "delete role" /\ Access!Finish(r) /\ UNCHANGED touched
        /\ roles' = [j \in Access!There \ {k} |-> roles[j]]
    BY <1>9, <2>1 DEF Access!DeleteRole, Access!Without, Access!There
  <2>3. Access!There' = Access!There \ {k} /\ Ordinary(roles, k)
    BY <2>1, <2>2 DEF Access!There, EditsOfOthers
  <2>4. Rows' /\ OneEachName'
    BY <2>2, <2>3 DEF Rows, OneEachName, IsRole
  <2>5. SystemRoles'
    <3>1. ASSUME NEW n \in DOMAIN Canonical PROVE \E j \in Access!There' : roles'[j].name = n
      <4>1. PICK j \in Access!There : roles[j].name = n
        BY DEF SystemRoles
      <4>2. j # k
        BY <2>3, <4>1 DEF SystemRoles, Ordinary, Access!There
      <4> QED
        BY <2>2, <2>3, <4>1, <4>2
    <3> QED
      BY <2>2, <2>3, <3>1 DEF SystemRoles
  <2>6. \A i : Ordinary(roles, i) => Ordinary(roles', i)
    BY <2>2, <2>3 DEF Ordinary, Access!There
  <2> QED
    BY <2>2, <2>4, <2>5, <2>6, <1>a, EditsStay
<1>10. ASSUME NEW r \in Requests, NEW k \in Access!There, Access!ChangeByHand(r, k)
       PROVE RolesInv'
  <2>1. /\ roles' = [roles EXCEPT ![k].permissions = {}]
        /\ touched' = touched \cup {roles[k].name} /\ UNCHANGED <<pc, job>>
    BY <1>10 DEF Access!ChangeByHand, Access!AtOnce
  <2>2. PICK new : new = [roles[k] EXCEPT !.permissions = {}]
    OBVIOUS
  <2>3. Access!There' = Access!There /\ roles' = [j \in Access!There |-> IF j =
          k THEN new ELSE roles[j]]
    BY <2>1, <2>2 DEF Rows, Access!There
  <2>4. IsRole(roles[k])
    BY DEF Rows
  <2>5. new = [name |-> roles[k].name, isSystem |-> roles[k].isSystem, permissions |-> {}]
    BY <2>2, <2>4 DEF IsRole
  <2>6. IsRole(new) /\ new.name = roles[k].name /\ new.isSystem = roles[k].isSystem
    BY <2>5 DEF IsRole
  <2>7. Rows'
    <3>1. \A j \in Access!There' : IsRole(roles'[j])
      BY <2>3, <2>6 DEF Rows
    <3>2. roles' = [j \in Access!There' |-> roles'[j]] /\ 0 \notin Access!There'
      BY <2>3 DEF Rows
    <3> QED
      BY <3>1, <3>2 DEF Rows, IsRole
  <2>8. \A j \in Access!There : roles'[j].name = roles[j].name /\ roles'[j].isSystem =
          roles[j].isSystem
                          /\ (j # k => roles'[j] = roles[j])
    BY <2>3, <2>6
  <2>9. OneEachName'
    BY <2>3, <2>8 DEF OneEachName
  <2>10. SystemRoles'
    <3>1. \A n \in DOMAIN Canonical : \E j \in Access!There' : roles'[j].name = n
      BY <2>3, <2>8 DEF SystemRoles
    <3>2. ASSUME NEW j \in Access!There', roles'[j].name \in DOMAIN Canonical
          PROVE  /\ roles'[j].isSystem = TRUE
                 /\ roles'[j].name \notin touched' =>
                        roles'[j].permissions = Canonical[roles'[j].name]
      BY <2>1, <2>3, <2>8, <3>2 DEF SystemRoles
    <3> QED
      BY <3>1, <3>2 DEF SystemRoles
  <2>11. \A i : Ordinary(roles, i) => Ordinary(roles', i)
    BY <2>3, <2>8 DEF Ordinary, Access!There
  <2>12. Slots'
    BY <2>1 DEF Slots
  <2> QED
    BY <2>1, <2>7, <2>9, <2>10, <2>11, <2>12, EditsStay
<1>11. CASE Access!Restart
  <2>1. roles' = Access!Seeded(roles) /\ touched' = {} /\ pc' = [r \in Requests |-> "idle"]
        /\ job' = [r \in Requests |-> <<>>]
    BY <1>11 DEF Access!Restart
  <2>2. Access!There' = Access!There
    BY <2>1 DEF Access!There, Access!Seeded
  <2>7. roles' = [k \in Access!There |-> roles'[k]]
    BY <2>1 DEF Access!There, Access!Seeded
  <2>3. ASSUME NEW k \in Access!There
        PROVE  /\ IsRole(roles'[k]) /\ roles'[k].name = roles[k].name
               /\ roles[k].name \in DOMAIN Canonical =>
                    roles'[k].isSystem = TRUE /\ roles'[k].permissions = Canonical[roles[k].name]
    <3>1. IsRole(roles[k])
      BY DEF Rows
    <3>2. CASE roles[k].name \in DOMAIN Canonical
      <4>1. roles'[k] = [roles[k] EXCEPT !.isSystem = TRUE, !.permissions =
              Canonical[roles[k].name]]
        BY <2>1, <3>2 DEF Access!Seeded, Access!There
      <4>2. roles'[k] =
              [name |-> roles[k].name, isSystem |-> TRUE, permissions |-> Canonical[roles[k].name]]
        BY <3>1, <4>1 DEF IsRole
      <4> QED
        BY <4>2 DEF IsRole
    <3>3. CASE roles[k].name \notin DOMAIN Canonical
      <4>1. roles'[k] = roles[k]
        BY <2>1, <3>3 DEF Access!Seeded, Access!There
      <4> QED
        BY <3>1, <3>3, <4>1
    <3> QED
      BY <3>2, <3>3
  <2>4. Slots' /\ EditsOfOthers'
    BY <2>1 DEF Slots, EditsOfOthers
  <2>5. Rows'
    BY <2>2, <2>3, <2>7 DEF Rows, IsRole
  <2>6. OneEachName' /\ SystemRoles'
    <3>0. \A k \in Access!There : roles'[k].name = roles[k].name
      BY <2>3
    <3>1. OneEachName'
      BY <2>2, <3>0 DEF OneEachName
    <3>2. \A n \in DOMAIN Canonical : \E k \in Access!There' : roles'[k].name = n
      BY <2>2, <3>0 DEF SystemRoles
    <3>3. SystemRoles'
      <4>1. touched' = {}
        BY <2>1
      <4> QED
        BY <2>2, <2>3, <3>2, <4>1 DEF SystemRoles
    <3> QED
      BY <3>1, <3>3
  <2> QED
    BY <2>4, <2>5, <2>6
<1>12. ASSUME UNCHANGED <<roles, touched, pc, job>> PROVE RolesInv'
  <2>1. Slots'
    BY <1>12 DEF Slots
  <2> QED
    BY <1>12, <2>1, <1>0, EditsStay
<1>13. ASSUME NEW n, Access!Expire(n) PROVE RolesInv'
  BY <1>13, <1>12 DEF Access!Expire, Access!handling
<1>14. CASE UNCHANGED accessVars
  BY <1>14, <1>12 DEF accessVars, Access!roleVars, Access!handling
<1> QED
  BY <1>1, <1>2, <1>3, <1>4, <1>5, <1>6, <1>7, <1>8, <1>9, <1>10, <1>11, <1>13, <1>14
    DEF Access!Next

\* Whatever edits of roles overlap and wherever the process restarts, each role of the system
\* is there and grants exactly what SYSTEM_ROLES says, until its rows are changed by hand.
THEOREM SystemRolesStay ==
  ASSUME 0 \notin RoleIds
  PROVE  AccessSpec => []Access!SystemRolesIntact
<1>1. RolesInv => Access!SystemRolesIntact
  <2> SUFFICES ASSUME OneEachName, SystemRoles, NEW n \in DOMAIN Canonical \ touched
               PROVE  Access!TakenBy(n) # {} /\ Access!Granted(n) = Canonical[n]
    BY DEF Access!SystemRolesIntact, RolesInv
  <2>1. PICK k \in Access!There : roles[k].name = n
    BY DEF SystemRoles
  <2>2. roles[k].permissions = Canonical[n]
    BY <2>1 DEF SystemRoles
  <2>3. \A j : j \in Access!TakenBy(n) <=> j = k
    BY <2>1 DEF Access!TakenBy, OneEachName
  <2>4. Access!TakenBy(n) = {k} /\ {roles[j].permissions :
          j \in Access!TakenBy(n)} = {Canonical[n]}
    BY <2>2, <2>3
  <2> QED
    BY <2>4 DEF Access!Granted
<1> QED
  BY <1>1, RolesInvInit, RolesInvNext, PTL DEF AccessSpec

-----------------------------------------------------------------------------
\* A link that has set a password is still there only while its handler is about to drop it.
UsedIsDropped == \A l \in DOMAIN links \cap used : \E r \in Requests :
    pc[r] = "drop" /\ job[r].link = l

LinksInv == Slots /\ UsedIsDropped

\* A link that was used is gone.
LEMMA LinksInvNext == LinksInv /\ [Access!Next]_accessVars => LinksInv'
<1> SUFFICES ASSUME LinksInv, [Access!Next]_accessVars PROVE LinksInv'
  OBVIOUS
<1> USE DEF LinksInv
<1>0. ASSUME NEW r \in Requests, pc[r] # "drop", UNCHANGED <<links, used>>,
             NEW l, NEW j, pc' = [pc EXCEPT ![r] = l], job' = [job EXCEPT ![r] = j]
      PROVE  LinksInv'
  <2>1. \A q \in Requests \ {r} : pc'[q] = pc[q] /\ job'[q] = job[q]
    BY <1>0
  <2>2. Slots'
    BY <1>0 DEF Slots
  <2>3. UsedIsDropped'
    BY <1>0, <2>1 DEF UsedIsDropped
  <2> QED
    BY <2>2, <2>3
<1>a. ASSUME UNCHANGED <<pc, job>>, DOMAIN links' \cap used' \subseteq DOMAIN links \cap used
      PROVE  LinksInv'
  <2>1. Slots'
    BY <1>a DEF Slots
  <2>2. UsedIsDropped'
    BY <1>a DEF UsedIsDropped
  <2> QED
    BY <2>1, <2>2
<1>1. ASSUME NEW r \in Requests,
             \/ Access!CreateEmployee(r) \/ Access!Create(r)
             \/ \E k \in Access!There : Access!ChangeByHand(r, k)
             \/ \E e \in DOMAIN staff : Access!RemoveEmployee(r, e)
                    \/ Access!AdminResetPassword(r, e)
      PROVE  LinksInv'
  <2>1. UNCHANGED <<links, used, pc, job>>
    BY <1>1 DEF Access!CreateEmployee, Access!Create, Access!ChangeByHand, Access!RemoveEmployee,
       Access!AdminResetPassword, Access!AtOnce
  <2> QED
    BY <2>1, <1>a
<1>2. ASSUME NEW r \in Requests, Access!Invalidate(r) \/ Access!Fill(r) \/ Access!SaveEmployee(r)
             \/ Access!SaveRole(r) \/ Access!DeleteRole(r)
      PROVE  LinksInv'
  <2>1. pc[r] # "drop" /\ UNCHANGED <<links, used>>
    BY <1>2 DEF Access!Invalidate, Access!Fill, Access!SaveEmployee, Access!SaveRole,
       Access!DeleteRole
  <2>2. PICK l, j : pc' = [pc EXCEPT ![r] = l] /\ job' = [job EXCEPT ![r] = j]
    BY <1>2 DEF Access!Invalidate, Access!Fill, Access!SaveEmployee, Access!SaveRole,
       Access!DeleteRole, Access!Finish, Access!Continue
  <2> QED
    BY <2>1, <2>2, <1>0
<1>3. ASSUME NEW r \in Requests,
             \/ \E k \in Access!There : Access!Update(r, k) \/ Access!AssignPermissions(r, k)
                    \/ Access!Remove(r, k)
             \/ \E n \in Names : Access!Check(r, n)
             \/ \E e \in DOMAIN staff : Access!UpdateEmployee(r, e) \/ Access!AssignRoles(r, e)
             \/ \E l \in DOMAIN links : Access!ConfirmPasswordChange(r, l)
      PROVE  LinksInv'
  <2>1. UNCHANGED Access!roleVars /\ \E l, j : Access!Begin(r, l, j)
    <3>1. ASSUME NEW k, Access!Update(r, k) PROVE UNCHANGED Access!roleVars /\ \E l, j :
                 Access!Begin(r, l, j)
      BY <3>1 DEF Access!Update
    <3>2. ASSUME NEW k, Access!AssignPermissions(r, k) PROVE UNCHANGED Access!roleVars /\ \E l,
                 j : Access!Begin(r, l, j)
      BY <3>2 DEF Access!AssignPermissions
    <3>3. ASSUME NEW k, Access!Remove(r, k) PROVE UNCHANGED Access!roleVars /\ \E l, j :
                 Access!Begin(r, l, j)
      BY <3>3 DEF Access!Remove
    <3>4. ASSUME NEW n, Access!Check(r, n) PROVE UNCHANGED Access!roleVars /\ \E l, j :
                 Access!Begin(r, l, j)
      BY <3>4 DEF Access!Check
    <3>5. ASSUME NEW e, Access!UpdateEmployee(r, e) PROVE UNCHANGED Access!roleVars /\ \E l, j :
                 Access!Begin(r, l, j)
      BY <3>5 DEF Access!UpdateEmployee
    <3>6. ASSUME NEW e, Access!AssignRoles(r, e) PROVE UNCHANGED Access!roleVars /\ \E l, j :
                 Access!Begin(r, l, j)
      BY <3>6 DEF Access!AssignRoles
    <3>7. ASSUME NEW l, Access!ConfirmPasswordChange(r, l)
          PROVE UNCHANGED Access!roleVars /\ \E k, j : Access!Begin(r, k, j)
      BY <3>7 DEF Access!ConfirmPasswordChange
    <3> QED
      BY <1>3, <3>1, <3>2, <3>3, <3>4, <3>5, <3>6, <3>7
  <2>2. PICK l, j : Access!Begin(r, l, j)
    BY <2>1
  <2> QED
    BY <2>1, <2>2, <1>0 DEF Access!Begin, Access!roleVars
<1>4. ASSUME NEW r \in Requests, Access!SetPassword(r) PROVE LinksInv'
  <2>1. pc[r] = "confirm" /\ used' = used \cup {job[r].link} /\ UNCHANGED links
        /\ pc' = [pc EXCEPT ![r] = "drop"] /\ job' = [job EXCEPT ![r] = job[r]]
    BY <1>4 DEF Access!SetPassword, Access!Continue
  <2>2. /\ pc'[r] = "drop" /\ job'[r] = job[r]
        /\ \A q \in Requests \ {r} : pc'[q] = pc[q] /\ job'[q] = job[q]
    BY <2>1 DEF Slots
  <2>3. Slots'
    BY <2>1 DEF Slots
  <2>4. UsedIsDropped'
    BY <2>1, <2>2 DEF UsedIsDropped
  <2> QED
    BY <2>3, <2>4
<1>5. ASSUME NEW r \in Requests, Access!DropLink(r) \/ Access!Abandon(r) PROVE LinksInv'
  <2>1. /\ pc' = [pc EXCEPT ![r] = "idle"] /\ job' = [job EXCEPT ![r] = <<>>]
        /\ DOMAIN links' \cap used' \subseteq DOMAIN links \cap used
        /\ pc[r] = "drop" => job[r].link \notin DOMAIN links' \cap used'
    BY <1>5 DEF Access!DropLink, Access!Abandon, Access!GiveUp, Access!AfterUse, Access!Without,
       Access!Unspent, Access!Finish
  <2>2. \A q \in Requests \ {r} : pc'[q] = pc[q] /\ job'[q] = job[q]
    BY <2>1
  <2>3. Slots'
    BY <2>1 DEF Slots
  <2>4. UsedIsDropped'
    BY <2>1, <2>2 DEF UsedIsDropped
  <2> QED
    BY <2>3, <2>4
<1>6. ASSUME NEW r \in Requests, NEW e \in DOMAIN staff, Access!RequestPasswordChange(r, e)
      PROVE LinksInv'
  <2>1. UNCHANGED <<used, pc, job>> /\ \E l :
          l \notin used /\ DOMAIN links' = DOMAIN links \cup {l}
    BY <1>6 DEF Access!RequestPasswordChange, Access!With, Access!AtOnce
  <2> QED
    BY <2>1, <1>a
<1>7. CASE Access!Restart
  <2>1. /\ pc' = [r \in Requests |-> "idle"] /\ job' = [r \in Requests |-> <<>>]
        /\ UNCHANGED links /\ used' = used \ Access!Unspent(Requests)
    BY <1>7 DEF Access!Restart
  <2>2. Slots'
    BY <2>1 DEF Slots
  <2>3. UsedIsDropped'
    BY <2>1 DEF UsedIsDropped, Access!Unspent
  <2> QED
    BY <2>2, <2>3
<1>8. ASSUME NEW n, Access!Expire(n) PROVE LinksInv'
  BY <1>8, <1>a DEF Access!Expire, Access!handling
<1>9. CASE UNCHANGED accessVars
  BY <1>9, <1>a DEF accessVars, Access!roleVars, Access!handling
<1> QED
  BY <1>1, <1>2, <1>3, <1>4, <1>5, <1>6, <1>7, <1>8, <1>9 DEF Access!Next

\* However the confirmations of a password overlap, with each other and with restarts, a link
\* whose handlers ended regularly is used up.
THEOREM LinksWorkOnce == AccessSpec => []Access!LinkWorksOnce
<1>1. AccessStart => LinksInv
  <2>1. AccessStart => Slots /\ used = {}
    BY DEF AccessStart, Quiet, Access!RolesInit, Slots
  <2> QED
    BY <2>1 DEF LinksInv, UsedIsDropped
<1>2. LinksInv => Access!LinkWorksOnce
  BY DEF LinksInv, UsedIsDropped, Access!LinkWorksOnce, Access!Idle
<1> QED
  BY <1>1, <1>2, LinksInvNext, PTL DEF AccessSpec

-----------------------------------------------------------------------------
\* An entry of the cache is what the role of that name grants, or is about to be dropped.
CacheFits ==
  \A n \in DOMAIN cache \ outdated :
    cache[n] = Access!Granted(n) \/ \E r \in Requests : pc[r] = "invalidate" /\ job[r].key = n

\* A handler at step l knows the role it edits by the name it has, and what fills the cache
\* is still granted.
JobAgrees(l, j) ==
  /\ l = "save role" =>
       j.role \in Access!There /\ (j.key # "" => j.key = roles[j.role].name /\ j.key = j.row.name)
  /\ l = "fill" => j.permissions = Access!Granted(j.name)

GuardInv == RolesInv /\ CacheFits /\ \A r \in Requests : JobAgrees(pc[r], job[r])

\* What a name grants depends on the roles of that name only.
LEMMA GrantsStay ==
  ASSUME NEW n,
         \A k : k \in Access!There /\ roles[k].name = n <=> k \in
             Access!There' /\ roles'[k].name = n,
         \A k \in Access!There : roles[k].name = n => roles'[k].permissions = roles[k].permissions
  PROVE  Access!Granted(n)' = Access!Granted(n)
<1>1. Access!TakenBy(n)' = Access!TakenBy(n)
  BY DEF Access!TakenBy
<1>2. {roles'[k].permissions : k \in Access!TakenBy(n)} = {roles[k].permissions :
        k \in Access!TakenBy(n)}
  BY DEF Access!TakenBy
<1> QED
  BY <1>1, <1>2 DEF Access!Granted

\* Steps that leave roles and cache.
LEMMA GuardStays ==
  ASSUME OneAtATime, GuardInv, RolesInv', NEW r \in Requests, UNCHANGED <<roles, cache>>,
         outdated \subseteq outdated', JobAgrees(pc[r], job[r])',
         pc[r] = "invalidate" => job[r].key \in outdated'
  PROVE  GuardInv'
<1>1. Access!There' = Access!There /\ \A n : Access!Granted(n)' = Access!Granted(n)
  BY DEF Access!There, Access!Granted, Access!TakenBy
<1>2. ASSUME NEW n \in DOMAIN cache' \ outdated' PROVE cache'[n] = Access!Granted(n)'
  <2>1. n \in DOMAIN cache \ outdated /\ ~(pc[r] = "invalidate" /\ job[r].key = n)
    BY <1>2
  <2>2. cache[n] = Access!Granted(n)
    BY <2>1 DEF OneAtATime, GuardInv, CacheFits
  <2> QED
    BY <1>1, <2>2
<1>3. CacheFits'
  BY <1>2 DEF CacheFits
<1> QED
  BY <1>3 DEF OneAtATime, GuardInv

\* Every step, when one handler runs.
LEMMA GuardInvNext ==
  OneAtATime /\ 0 \notin RoleIds /\ GuardInv /\ [Access!Next]_accessVars => GuardInv'
<1> SUFFICES ASSUME OneAtATime, 0 \notin RoleIds, GuardInv, [Access!Next]_accessVars
             PROVE GuardInv'
  OBVIOUS
<1>0. RolesInv' /\ Slots /\ Rows /\ OneEachName
  BY RolesInvNext DEF GuardInv, RolesInv
<1>a. ASSUME NEW r \in Requests, NEW l, NEW j, Access!Continue(r, l, j) \/ Access!Begin(r, l, j)
      PROVE  pc'[r] = l /\ job'[r] = j
  BY <1>a, <1>0 DEF Slots, Access!Continue, Access!Begin
<1>b. ASSUME NEW r \in Requests, Access!Finish(r)
      PROVE  pc'[r] = "idle" /\ JobAgrees(pc[r], job[r])'
  BY <1>b, <1>0 DEF Slots, Access!Finish, JobAgrees
<1>c. ASSUME NEW r \in Requests, CacheFits', JobAgrees(pc[r], job[r])' PROVE GuardInv'
  BY <1>c, <1>0 DEF OneAtATime, GuardInv
<1>d. ASSUME NEW r \in Requests, pc[r] # "invalidate", NEW n \in DOMAIN cache \ outdated
      PROVE  cache[n] = Access!Granted(n)
  BY <1>d DEF OneAtATime, GuardInv, CacheFits
<1>1. ASSUME NEW r \in Requests,
             \/ Access!CreateEmployee(r)
             \/ \E e \in DOMAIN staff : Access!RemoveEmployee(r, e)
                    \/ Access!AdminResetPassword(r, e)
                                          \/ Access!RequestPasswordChange(r, e)
      PROVE  GuardInv'
  <2>1. UNCHANGED <<roles, cache, outdated, pc, job>> /\ pc[r] = "idle"
    BY <1>1 DEF Access!CreateEmployee, Access!RemoveEmployee, Access!AdminResetPassword,
       Access!RequestPasswordChange, Access!AtOnce
  <2>2. JobAgrees(pc[r], job[r])'
    BY <2>1 DEF JobAgrees
  <2> QED
    BY <1>0, <2>1, <2>2, GuardStays
<1>2. ASSUME NEW r \in Requests, Access!SaveEmployee(r) \/ Access!DropLink(r) \/ Access!Abandon(r)
      PROVE GuardInv'
  <2>1. /\ UNCHANGED <<roles, cache>> /\ Access!Finish(r) /\ outdated \subseteq outdated'
        /\ pc[r] = "invalidate" => job[r].key \in outdated'
    BY <1>2 DEF Access!SaveEmployee, Access!DropLink, Access!Abandon, Access!GiveUp, Access!Stale
  <2> QED
    BY <1>0, <1>b, <2>1, GuardStays
<1>3. ASSUME NEW r \in Requests, Access!SetPassword(r) PROVE GuardInv'
  <2>1. UNCHANGED <<roles, cache, outdated>> /\ pc[r] =
          "confirm" /\ Access!Continue(r, "drop", job[r])
    BY <1>3 DEF Access!SetPassword
  <2>2. pc'[r] = "drop"
    BY <1>a, <2>1
  <2>3. JobAgrees(pc[r], job[r])'
    BY <2>2 DEF JobAgrees
  <2> QED
    BY <1>0, <2>1, <2>3, GuardStays
<1>4. ASSUME NEW r \in Requests,
             \/ \E e \in DOMAIN staff : Access!UpdateEmployee(r, e) \/ Access!AssignRoles(r, e)
             \/ \E l \in DOMAIN links : Access!ConfirmPasswordChange(r, l)
             \/ \E k \in Access!There : Access!Remove(r, k)
      PROVE  GuardInv'
  <2>1. UNCHANGED <<roles, cache, outdated>>
    BY <1>4 DEF Access!UpdateEmployee, Access!AssignRoles, Access!ConfirmPasswordChange,
       Access!Remove, Access!roleVars
  <2>2. \E l \in {"save employee", "confirm", "delete role"} : \E j : Access!Begin(r, l, j)
    BY <1>4 DEF Access!UpdateEmployee, Access!AssignRoles, Access!ConfirmPasswordChange,
       Access!Remove
  <2>3. PICK l \in {"save employee", "confirm", "delete role"} : \E j : Access!Begin(r, l, j)
    BY <2>2
  <2>4. pc'[r] = l /\ pc[r] = "idle"
    <3>1. PICK j : Access!Begin(r, l, j)
      BY <2>3
    <3>2. pc[r] = "idle"
      BY <3>1 DEF Access!Begin
    <3> QED
      BY <1>a, <3>1, <3>2
  <2>5. JobAgrees(pc[r], job[r])'
    BY <2>4 DEF JobAgrees
  <2> QED
    BY <1>0, <2>1, <2>4, <2>5, GuardStays
<1>5. ASSUME NEW r \in Requests, NEW n, Access!Check(r, n) PROVE GuardInv'
  <2>1. /\ UNCHANGED <<roles, cache, outdated>> /\ pc[r] = "idle"
        /\ Access!Begin(r, "fill", [name |-> n, permissions |-> Access!Granted(n)])
    BY <1>5 DEF Access!Check, Access!roleVars, Access!Begin
  <2>2. pc'[r] = "fill" /\ job'[r].name = n /\ job'[r].permissions = Access!Granted(n)
    BY <1>a, <2>1
  <2>3. Access!Granted(n)' = Access!Granted(n)
    BY <2>1 DEF Access!Granted, Access!TakenBy, Access!There
  <2>4. JobAgrees(pc[r], job[r])'
    BY <2>1, <2>2 DEF JobAgrees, Access!Granted, Access!TakenBy, Access!There
  <2> QED
    BY <1>0, <2>1, <2>4, GuardStays
<1>6. ASSUME NEW r \in Requests, Access!Fill(r) PROVE GuardInv'
  <2>1. /\ UNCHANGED <<roles, outdated>> /\ Access!Finish(r) /\ pc[r] = "fill"
        /\ cache' = [m \in DOMAIN cache \cup {job[r].name} |->
                       IF m = job[r].name THEN job[r].permissions ELSE cache[m]]
    BY <1>6 DEF Access!Fill, Access!With
  <2>2. job[r].permissions = Access!Granted(job[r].name) /\ \A n :
          Access!Granted(n)' = Access!Granted(n)
    <3>1. job[r].permissions = Access!Granted(job[r].name)
      BY <2>1 DEF GuardInv, JobAgrees
    <3>2. \A n : Access!Granted(n)' = Access!Granted(n)
      BY <2>1 DEF Access!Granted, Access!TakenBy, Access!There
    <3> QED
      BY <3>1, <3>2
  <2>3. ASSUME NEW n \in DOMAIN cache' \ outdated' PROVE cache'[n] = Access!Granted(n)'
    <3>1. CASE n = job[r].name
      BY <2>1, <2>2, <3>1
    <3>2. CASE n # job[r].name
      <4>1. n \in DOMAIN cache \ outdated /\ cache'[n] = cache[n]
        BY <2>1, <2>3, <3>2
      <4> QED
        BY <1>d, <2>1, <2>2, <4>1
    <3> QED
      BY <3>1, <3>2
  <2> QED
    BY <1>b, <1>c, <2>1, <2>3 DEF CacheFits
<1>7. ASSUME NEW r \in Requests, Access!Invalidate(r) PROVE GuardInv'
  <2>1. /\ UNCHANGED roles /\ Access!Finish(r) /\ pc[r] = "invalidate"
        /\ cache' = [m \in DOMAIN cache \ {job[r].key} |-> cache[m]]
        /\ outdated' = outdated \ {job[r].key}
    BY <1>7 DEF Access!Invalidate, Access!Without
  <2>2. \A n : Access!Granted(n)' = Access!Granted(n)
    BY <2>1 DEF Access!Granted, Access!TakenBy, Access!There
  <2>3. ASSUME NEW n \in DOMAIN cache' \ outdated' PROVE cache'[n] = Access!Granted(n)'
    <3>1. n \in DOMAIN cache \ outdated /\ n # job[r].key /\ cache'[n] = cache[n]
      BY <2>1, <2>3
    <3>2. cache[n] = Access!Granted(n)
      BY <3>1 DEF OneAtATime, GuardInv, CacheFits
    <3> QED
      BY <2>2, <3>1, <3>2
  <2> QED
    BY <1>b, <1>c, <2>1, <2>3 DEF CacheFits
<1>8. ASSUME NEW r \in Requests, Access!Create(r) PROVE GuardInv'
  <2>1. PICK k \in RoleIds \ Access!There, n \in {m \in Names : Access!Free(m, 0)} :
          roles' = Access!With(roles, k, [name |-> n, isSystem |-> FALSE, permissions |-> {}])
    BY <1>8 DEF Access!Create
  <2>2. UNCHANGED <<cache, outdated, pc, job>> /\ pc[r] = "idle"
    BY <1>8 DEF Access!Create, Access!AtOnce
  <2>3. /\ Access!There' = Access!There \cup {k} /\ \A j \in Access!There : roles'[j] = roles[j]
        /\ roles'[k].name = n /\ roles'[k].permissions = {}
    BY <2>1 DEF Access!With, Access!There
  <2>4. ASSUME NEW m PROVE Access!Granted(m)' = Access!Granted(m)
    <3>1. CASE m = n
      <4>1. Access!TakenBy(n) = {}
        BY <1>0, <2>1 DEF Access!Free, Access!TakenBy, Rows
      <4>2. Access!TakenBy(n)' = {k}
        BY <2>3, <4>1 DEF Access!TakenBy
      <4> QED
        BY <2>3, <3>1, <4>1, <4>2 DEF Access!Granted
    <3>2. CASE m # n
      BY <2>3, <3>2, GrantsStay
    <3> QED
      BY <3>1, <3>2
  <2>5. CacheFits'
    BY <1>d, <2>2, <2>4 DEF CacheFits
  <2>6. JobAgrees(pc[r], job[r])'
    BY <2>2 DEF JobAgrees
  <2> QED
    BY <1>c, <2>5, <2>6
<1>9. ASSUME NEW r \in Requests, NEW k \in Access!There, Access!Update(r, k)
             \/ Access!AssignPermissions(r, k)
      PROVE  GuardInv'
  <2>1. UNCHANGED <<roles, cache, outdated>>
    BY <1>9 DEF Access!Update, Access!AssignPermissions, Access!roleVars
  <2>2. PICK j : /\ Access!Begin(r, "save role", j) /\ j.role = k
                 /\ j.key # "" => j.key = roles[k].name /\ j.row.name = roles[k].name
    <3>1. CASE Access!Update(r, k)
      <4>1. PICK n : Access!Begin(r, "save role", [role |-> k, row |-> [roles[k] EXCEPT !.name =
              n], key |-> ""])
        BY <3>1 DEF Access!Update
      <4> WITNESS [role |-> k, row |-> [roles[k] EXCEPT !.name = n], key |-> ""]
      <4> QED
        BY <4>1
    <3>2. CASE Access!AssignPermissions(r, k)
      <4>1. PICK p :
              Access!Begin(r, "save role", [role |-> k, row |-> [roles[k] EXCEPT !.permissions =
                  p],
                                            key |-> roles[k].name])
        BY <3>2 DEF Access!AssignPermissions
      <4>2. roles[k] = [name |-> roles[k].name, isSystem |-> roles[k].isSystem,
                        permissions |-> roles[k].permissions]
        BY <1>0 DEF Rows, IsRole
      <4>3. [roles[k] EXCEPT !.permissions = p].name = roles[k].name
        BY <4>2
      <4> WITNESS [role |-> k, row |-> [roles[k] EXCEPT !.permissions = p], key |-> roles[k].name]
      <4> QED
        BY <4>1, <4>3
    <3> QED
      BY <1>9, <3>1, <3>2
  <2>3. pc'[r] = "save role" /\ job'[r] = j /\ pc[r] = "idle"
    BY <1>a, <2>2 DEF Access!Begin
  <2>4. JobAgrees(pc[r], job[r])'
    BY <2>1, <2>2, <2>3 DEF JobAgrees, Access!There
  <2> QED
    BY <1>0, <2>1, <2>3, <2>4, GuardStays
<1>10. ASSUME NEW r \in Requests, Access!SaveRole(r) PROVE GuardInv'
  <2> DEFINE k == job[r].role
             row == job[r].row
             key == job[r].key
  <2>1. /\ pc[r] = "save role" /\ UNCHANGED cache
        /\ roles' = [i \in Access!There \cup {k} |-> IF i = k THEN row ELSE roles[i]]
        /\ IF key = "" THEN Access!Finish(r) ELSE Access!Continue(r, "invalidate", job[r])
    BY <1>10 DEF Access!SaveRole, Access!With, Access!There, Access!ToInvalidate
  <2>2. k \in Access!There /\ (key # "" => key = roles[k].name /\ key = row.name)
    BY <2>1 DEF GuardInv, JobAgrees
  <2>3. outdated' = outdated \cup (IF key = "" THEN {roles[k].name, row.name} ELSE {})
    BY <1>10, <2>2 DEF Access!SaveRole
  <2> HIDE DEF k, row, key
  <2>4. Access!There' = Access!There /\ roles'[k] = row /\ \A i \in Access!There \ {k} :
          roles'[i] = roles[i]
    BY <2>1, <2>2 DEF Access!There
  <2>5. ASSUME NEW n, n # roles[k].name, n # row.name PROVE Access!Granted(n)' = Access!Granted(n)
    BY <2>2, <2>4, <2>5, GrantsStay
  <2>6. ASSUME NEW n \in DOMAIN cache \ outdated PROVE cache[n] = Access!Granted(n)
    BY <1>d, <2>1, <2>6
  <2>7. CASE key = ""
    <3>1. CacheFits'
      BY <2>1, <2>3, <2>5, <2>6, <2>7 DEF CacheFits
    <3> QED
      BY <1>b, <1>c, <2>1, <2>7, <3>1
  <2>8. CASE key # ""
    <3>1. pc'[r] = "invalidate" /\ job'[r] = job[r]
      BY <1>a, <2>1, <2>8
    <3>2. job'[r].key = key
      BY <3>1 DEF key
    <3>3. outdated' = outdated
      BY <2>3, <2>8
    <3>4. ASSUME NEW n \in DOMAIN cache' \ outdated', n # key PROVE cache'[n] = Access!Granted(n)'
      BY <2>1, <2>2, <2>5, <2>6, <2>8, <3>3, <3>4
    <3>5. CacheFits'
      BY <3>1, <3>2, <3>4 DEF CacheFits
    <3>6. JobAgrees(pc[r], job[r])'
      BY <3>1 DEF JobAgrees
    <3> QED
      BY <1>c, <3>5, <3>6
  <2> QED
    BY <2>7, <2>8
<1>11. ASSUME NEW r \in Requests, Access!DeleteRole(r) PROVE GuardInv'
  <2> DEFINE k == job[r].role
  <2>1. /\ pc[r] = "delete role" /\ UNCHANGED cache /\ Access!Finish(r)
        /\ roles' = [i \in Access!There \ {k} |-> roles[i]]
        /\ outdated' = IF k \in Access!There THEN outdated \cup {roles[k].name} ELSE outdated
    BY <1>11 DEF Access!DeleteRole, Access!Without, Access!There
  <2> HIDE DEF k
  <2>2. Access!There' = Access!There \ {k} /\ \A i \in Access!There \ {k} : roles'[i] = roles[i]
    BY <2>1 DEF Access!There
  <2>3. ASSUME NEW n \in DOMAIN cache' \ outdated' PROVE cache'[n] = Access!Granted(n)'
    <3>1. n \in DOMAIN cache \ outdated /\ (k \in Access!There => roles[k].name # n)
      BY <2>1, <2>3
    <3>2. Access!Granted(n)' = Access!Granted(n)
      BY <2>2, <3>1, GrantsStay
    <3> QED
      BY <1>d, <2>1, <3>1, <3>2
  <2> QED
    BY <1>b, <1>c, <2>1, <2>3 DEF CacheFits
<1>12. ASSUME NEW r \in Requests, NEW k \in Access!There, Access!ChangeByHand(r, k)
       PROVE GuardInv'
  <2>1. /\ roles' = [roles EXCEPT ![k].permissions = {}]
        /\ outdated' = outdated \cup {roles[k].name}
        /\ UNCHANGED <<cache, pc, job>> /\ pc[r] = "idle"
    BY <1>12 DEF Access!ChangeByHand, Access!AtOnce
  <2>2. roles[k] = [name |-> roles[k].name, isSystem |-> roles[k].isSystem,
                    permissions |-> roles[k].permissions]
    BY <1>0 DEF Rows, IsRole
  <2>3. Access!There' = Access!There /\ roles'[k].name = roles[k].name /\ \A i \in
          Access!There \ {k} : roles'[i] = roles[i]
    BY <2>1, <2>2 DEF Access!There
  <2>4. ASSUME NEW n \in DOMAIN cache' \ outdated' PROVE cache'[n] = Access!Granted(n)'
    <3>1. n \in DOMAIN cache \ outdated /\ n # roles[k].name
      BY <2>1, <2>4
    <3>2. Access!Granted(n)' = Access!Granted(n)
      BY <2>3, <3>1, GrantsStay
    <3> QED
      BY <1>d, <2>1, <3>1, <3>2
  <2>5. JobAgrees(pc[r], job[r])'
    BY <2>1 DEF JobAgrees
  <2> QED
    BY <1>c, <2>4, <2>5 DEF CacheFits
<1>13. CASE Access!Restart
  <2>1. /\ roles' = Access!Seeded(roles)
        /\ cache' = [n \in DOMAIN cache \ DOMAIN Canonical |-> cache[n]]
        /\ outdated' = (outdated \cup Access!Stale(Requests)) \ DOMAIN Canonical
        /\ pc' = [r \in Requests |-> "idle"]
    BY <1>13 DEF Access!Restart, Access!Invalidated
  <2>2. Access!There' = Access!There
    BY <2>1 DEF Access!Seeded, Access!There
  <2>3. ASSUME NEW i \in Access!There
        PROVE  roles'[i].name = roles[i].name /\ (roles[i].name \notin DOMAIN Canonical =>
                   roles'[i] = roles[i])
    <3>1. roles[i] = [name |-> roles[i].name, isSystem |-> roles[i].isSystem,
                      permissions |-> roles[i].permissions]
      BY <1>0 DEF Rows, IsRole
    <3> QED
      BY <2>1, <3>1 DEF Access!Seeded, Access!There
  <2>4. ASSUME NEW n \in DOMAIN cache' \ outdated' PROVE cache'[n] = Access!Granted(n)'
    <3>1. n \in DOMAIN cache \ outdated /\ n \notin DOMAIN Canonical /\ n \notin Access!Stale(Requests)
          /\ cache'[n] = cache[n]
      BY <2>1, <2>4
    <3>2. Access!Granted(n)' = Access!Granted(n)
      BY <2>2, <2>3, <3>1, GrantsStay
    <3>3. cache[n] = Access!Granted(n)
      BY <3>1 DEF GuardInv, CacheFits, Access!Stale
    <3> QED
      BY <3>1, <3>2, <3>3
  <2>5. \A r \in Requests : JobAgrees(pc[r], job[r])'
    BY <2>1 DEF JobAgrees
  <2> QED
    BY <1>0, <2>4, <2>5 DEF GuardInv, CacheFits
<1>14. ASSUME \/ \E n : Access!Expire(n)
              \/ UNCHANGED accessVars
       PROVE  GuardInv'
  <2>1. PICK n : /\ UNCHANGED <<roles, pc, job>>
                 /\ outdated' = outdated \/ outdated' = outdated \ {n}
                 /\ \/ cache' = cache /\ outdated' = outdated
                    \/ cache' = [m \in DOMAIN cache \ {n} |-> cache[m]]
    BY <1>14 DEF Access!Expire, Access!Without, Access!handling, accessVars, Access!roleVars
  <2>2. Access!There' = Access!There /\ \A m : Access!Granted(m)' = Access!Granted(m)
    BY <2>1 DEF Access!There, Access!Granted, Access!TakenBy
  <2>3. \A m \in DOMAIN cache' \ outdated' : m \in DOMAIN cache \ outdated /\ cache'[m] = cache[m]
    BY <2>1
  <2>4. CacheFits'
    BY <2>1, <2>2, <2>3 DEF GuardInv, CacheFits
  <2>5. ASSUME NEW r \in Requests PROVE JobAgrees(pc[r], job[r])'
    <3>1. /\ pc[r] = "save role" =>
               /\ job[r].role \in Access!There
               /\ job[r].key # "" => job[r].key = roles[job[r].role].name /\ job[r].key =
                      job[r].row.name
          /\ pc[r] = "fill" => job[r].permissions = Access!Granted(job[r].name)
      BY DEF GuardInv, JobAgrees
    <3>2. Access!Granted(job[r].name)' = Access!Granted(job[r].name)
      BY <2>1 DEF Access!Granted, Access!TakenBy, Access!There
    <3> QED
      BY <2>1, <2>2, <3>1, <3>2 DEF JobAgrees
  <2> QED
    BY <1>0, <2>4, <2>5 DEF GuardInv
<1> QED
  BY <1>1, <1>2, <1>3, <1>4, <1>5, <1>6, <1>7, <1>8, <1>9, <1>10, <1>11, <1>12, <1>13, <1>14
     DEF Access!Next

\* While handlers do not overlap, wherever they end and the process restarts, what the guard
\* finds in the cache is what the role of that name grants, but for the names whose entry an
\* edit, a removal or a crash is known to leave behind.
THEOREM CacheFollowsRoles ==
  ASSUME OneAtATime, 0 \notin RoleIds
  PROVE  AccessSpec => []Access!GuardFollowsRoles
<1>1. AccessStart => GuardInv
  <2>1. AccessStart => DOMAIN cache = {} /\ \A r \in Requests : pc[r] = "idle"
    BY DEF AccessStart, Access!RolesInit, Quiet
  <2> QED
    BY <2>1, RolesInvInit DEF GuardInv, CacheFits, JobAgrees
<1>2. GuardInv => Access!GuardFollowsRoles
  BY DEF GuardInv, CacheFits, Access!GuardFollowsRoles, Access!Idle
<1> QED
  BY <1>1, <1>2, GuardInvNext, PTL DEF AccessSpec

-----------------------------------------------------------------------------
IsEmployee(x) ==
  x = [active |-> x.active, password |-> x.password, phone |-> x.phone, roles |-> x.roles]

\* Employees have what they were given.
StaffFits ==
  /\ DOMAIN given = DOMAIN staff
  /\ \A e \in DOMAIN staff : IsEmployee(staff[e]) /\ staff[e].roles = given[e]

\* So has the row that a handler at step l will save; and the role that it is about to delete
\* is still held by nobody.
JobKeeps(l, j) ==
  /\ l = "save employee" => IsEmployee(j.row) /\ j.row.roles = j.given
  /\ l = "delete role" => ~Access!Held(j.role)

StaffInv == Slots /\ StaffFits /\ \A r \in Requests : JobKeeps(pc[r], job[r])

\* An edit of an employee's other columns leaves the roles.
LEMMA RolesAreKept ==
  ASSUME NEW x, IsEmployee(x), NEW y,
         \/ \E a : y = [x EXCEPT !.active = a]
         \/ \E a, p : y = [x EXCEPT !.active = a, !.phone = p]
         \/ \E p : y = [x EXCEPT !.password = p]
  PROVE  IsEmployee(y) /\ y.roles = x.roles
<1>1. x = [active |-> x.active, password |-> x.password, phone |-> x.phone, roles |-> x.roles]
  BY DEF IsEmployee
<1>2. PICK a, p, f : y = [active |-> a, password |-> p, phone |-> f, roles |-> x.roles]
  <2>1. CASE \E a : y = [x EXCEPT !.active = a]
    <3>1. PICK a : y = [x EXCEPT !.active = a]
      BY <2>1
    <3>2. y = [active |-> a, password |-> x.password, phone |-> x.phone, roles |-> x.roles]
      BY <1>1, <3>1
    <3> QED
      BY <3>2
  <2>2. CASE \E a, p : y = [x EXCEPT !.active = a, !.phone = p]
    <3>1. PICK a, p : y = [x EXCEPT !.active = a, !.phone = p]
      BY <2>2
    <3>2. PICK z : z = [x EXCEPT !.active = a]
      OBVIOUS
    <3>3. z = [active |-> a, password |-> x.password, phone |-> x.phone, roles |-> x.roles]
      BY <1>1, <3>2
    <3>4. y = [z EXCEPT !.phone = p]
      BY <3>1, <3>2
    <3>5. y = [active |-> a, password |-> x.password, phone |-> p, roles |-> x.roles]
      BY <3>3, <3>4
    <3> QED
      BY <3>5
  <2>3. CASE \E p : y = [x EXCEPT !.password = p]
    <3>1. PICK p : y = [x EXCEPT !.password = p]
      BY <2>3
    <3>2. y = [active |-> x.active, password |-> p, phone |-> x.phone, roles |-> x.roles]
      BY <1>1, <3>1
    <3> QED
      BY <3>2
  <2> QED
    BY <2>1, <2>2, <2>3
<1> QED
  BY <1>2 DEF IsEmployee

\* An edit of the roles.
LEMMA RolesAreSet ==
  ASSUME NEW x, IsEmployee(x), NEW ids, NEW y, y = [x EXCEPT !.roles = ids]
  PROVE  IsEmployee(y) /\ y.roles = ids
<1>1. y = [active |-> x.active, password |-> x.password, phone |-> x.phone, roles |-> ids]
  BY DEF IsEmployee
<1> QED
  BY <1>1 DEF IsEmployee

\* Every step, when one handler runs.
LEMMA StaffInvNext == OneAtATime /\ StaffInv /\ [Access!Next]_accessVars => StaffInv'
<1> SUFFICES ASSUME OneAtATime, StaffInv, [Access!Next]_accessVars PROVE StaffInv'
  OBVIOUS
<1>a. ASSUME NEW r \in Requests, NEW l, NEW j, Access!Continue(r, l, j) \/ Access!Begin(r, l, j)
      PROVE  Slots' /\ pc'[r] = l /\ job'[r] = j
  BY <1>a DEF StaffInv, Slots, Access!Continue, Access!Begin
<1>b. ASSUME NEW r \in Requests, Access!Finish(r)
      PROVE  Slots' /\ JobKeeps(pc[r], job[r])'
  BY <1>b DEF StaffInv, Slots, Access!Finish, JobKeeps
<1>c. ASSUME NEW r \in Requests, Slots', StaffFits', JobKeeps(pc[r], job[r])' PROVE StaffInv'
  BY <1>c DEF OneAtATime, StaffInv
<1>d. ASSUME UNCHANGED <<staff, given>> PROVE StaffFits'
  BY <1>d DEF StaffInv, StaffFits
<1>e. ASSUME NEW r \in Requests, pc[r] = "idle", UNCHANGED <<pc, job>>, StaffFits' PROVE StaffInv'
  BY <1>c, <1>e DEF StaffInv, Slots, JobKeeps
<1>1. ASSUME NEW r \in Requests, Access!Create(r) \/ \E k \in Access!There :
             Access!ChangeByHand(r, k) PROVE StaffInv'
  <2>1. UNCHANGED <<staff, given, pc, job>> /\ pc[r] = "idle"
    BY <1>1 DEF Access!Create, Access!ChangeByHand, Access!AtOnce
  <2> QED
    BY <1>d, <1>e, <2>1
<1>2. ASSUME NEW r \in Requests, Access!Invalidate(r) \/ Access!Fill(r) \/ Access!DropLink(r)
             \/ Access!Abandon(r) PROVE StaffInv'
  <2>1. UNCHANGED <<staff, given>> /\ Access!Finish(r)
    BY <1>2 DEF Access!Invalidate, Access!Fill, Access!DropLink, Access!Abandon, Access!GiveUp
  <2> QED
    BY <1>b, <1>c, <1>d, <2>1
<1>3. ASSUME NEW r \in Requests, Access!SaveRole(r) PROVE StaffInv'
  <2>1. UNCHANGED <<staff, given>> /\ (Access!Finish(r)
          \/ Access!Continue(r, "invalidate", job[r]))
    BY <1>3 DEF Access!SaveRole
  <2>2. CASE Access!Finish(r)
    BY <1>b, <1>c, <1>d, <2>1, <2>2
  <2>3. CASE Access!Continue(r, "invalidate", job[r])
    <3>1. Slots' /\ pc'[r] = "invalidate"
      BY <1>a, <2>3
    <3>2. JobKeeps(pc[r], job[r])'
      BY <3>1 DEF JobKeeps
    <3> QED
      BY <1>c, <1>d, <2>1, <3>1, <3>2
  <2> QED
    BY <2>1, <2>2, <2>3
<1>4. ASSUME NEW r \in Requests,
             \/ \E k \in Access!There : Access!Update(r, k) \/ Access!AssignPermissions(r, k)
             \/ \E n \in Names : Access!Check(r, n)
             \/ \E l \in DOMAIN links : Access!ConfirmPasswordChange(r, l)
      PROVE  StaffInv'
  <2>1. UNCHANGED <<staff, given>>
    BY <1>4 DEF Access!Update, Access!AssignPermissions, Access!Check,
       Access!ConfirmPasswordChange, Access!roleVars
  <2>2. PICK l \in {"save role", "fill", "confirm"} : \E j : Access!Begin(r, l, j)
    BY <1>4 DEF Access!Update, Access!AssignPermissions, Access!Check,
       Access!ConfirmPasswordChange
  <2>3. PICK j : Access!Begin(r, l, j)
    BY <2>2
  <2>4. Slots' /\ pc'[r] = l
    BY <1>a, <2>3
  <2>5. JobKeeps(pc[r], job[r])'
    BY <2>4 DEF JobKeeps
  <2> QED
    BY <1>c, <1>d, <2>1, <2>4, <2>5
<1>5. ASSUME NEW r \in Requests, NEW k \in Access!There, Access!Remove(r, k) PROVE StaffInv'
  <2>1. ~Access!Held(k) /\ UNCHANGED <<staff,
          given>> /\ Access!Begin(r, "delete role", [role |-> k])
    BY <1>5 DEF Access!Remove, Access!roleVars
  <2>2. Slots' /\ pc'[r] = "delete role" /\ job'[r].role = k
    BY <2>1 DEF StaffInv, Slots, Access!Begin
  <2>3. JobKeeps(pc[r], job[r])'
    BY <2>1, <2>2 DEF JobKeeps, Access!Held
  <2> QED
    BY <1>c, <1>d, <2>1, <2>2, <2>3
<1>6. ASSUME NEW r \in Requests, NEW e \in DOMAIN staff, Access!UpdateEmployee(r, e)
             \/ Access!AssignRoles(r, e)
      PROVE  StaffInv'
  <2>1. UNCHANGED <<staff, given>>
    BY <1>6 DEF Access!UpdateEmployee, Access!AssignRoles, Access!roleVars
  <2>2. IsEmployee(staff[e]) /\ staff[e].roles = given[e]
    BY DEF StaffInv, StaffFits
  <2>3. PICK j : Access!Begin(r, "save employee", j) /\ IsEmployee(j.row) /\ j.row.roles = j.given
    <3>1. CASE Access!UpdateEmployee(r, e)
      <4>1. PICK a, p : Access!Begin(r, "save employee",
              [employee |-> e, row |-> [staff[e] EXCEPT !.active = a, !.phone =
                  p], given |-> given[e]])
        BY <3>1 DEF Access!UpdateEmployee, Access!EmployeeRow
      <4>2. PICK y : y = [staff[e] EXCEPT !.active = a, !.phone = p]
        OBVIOUS
      <4>3. IsEmployee(y) /\ y.roles = given[e]
        BY <2>2, <4>2, RolesAreKept
      <4> WITNESS [employee |-> e, row |-> y, given |-> given[e]]
      <4> QED
        BY <4>1, <4>2, <4>3
    <3>2. CASE Access!AssignRoles(r, e)
      <4>1. PICK ids : Access!Begin(r, "save employee",
              [employee |-> e, row |-> [staff[e] EXCEPT !.roles = ids], given |-> ids])
        BY <3>2 DEF Access!AssignRoles, Access!EmployeeRow
      <4>2. PICK y : y = [staff[e] EXCEPT !.roles = ids]
        OBVIOUS
      <4>3. IsEmployee(y) /\ y.roles = ids
        BY <2>2, <4>2, RolesAreSet
      <4> WITNESS [employee |-> e, row |-> y, given |-> ids]
      <4> QED
        BY <4>1, <4>2, <4>3
    <3> QED
      BY <1>6, <3>1, <3>2
  <2>4. Slots' /\ pc'[r] = "save employee" /\ job'[r] = j
    BY <1>a, <2>3
  <2>5. JobKeeps(pc[r], job[r])'
    BY <2>3, <2>4 DEF JobKeeps, IsEmployee
  <2> QED
    BY <1>c, <1>d, <2>1, <2>4, <2>5
<1>7. ASSUME NEW r \in Requests, NEW e \in DOMAIN staff,
             Access!RemoveEmployee(r, e) \/ Access!AdminResetPassword(r, e)
                 \/ Access!RequestPasswordChange(r, e)
      PROVE  StaffInv'
  <2>1. UNCHANGED <<given, pc, job>> /\ pc[r] = "idle"
    BY <1>7 DEF Access!RemoveEmployee, Access!AdminResetPassword, Access!RequestPasswordChange,
       Access!AtOnce
  <2>2. PICK x : /\ staff' = staff \/ staff' = [staff EXCEPT ![e] = x]
                 /\ IsEmployee(x) /\ x.roles = staff[e].roles
    <3>0. IsEmployee(staff[e])
      BY DEF StaffInv, StaffFits
    <3>1. CASE Access!RemoveEmployee(r, e)
      <4>1. PICK x : x = [staff[e] EXCEPT !.active = FALSE]
        OBVIOUS
      <4>2. staff' = [staff EXCEPT ![e] = x]
        BY <3>1, <4>1 DEF Access!RemoveEmployee
      <4> QED
        BY <3>0, <4>1, <4>2, RolesAreKept
    <3>2. CASE Access!AdminResetPassword(r, e)
      <4>1. PICK p : staff' = [staff EXCEPT ![e].password = p]
        BY <3>2 DEF Access!AdminResetPassword
      <4>2. PICK x : x = [staff[e] EXCEPT !.password = p]
        OBVIOUS
      <4>3. staff' = [staff EXCEPT ![e] = x]
        BY <4>1, <4>2
      <4> QED
        BY <3>0, <4>2, <4>3, RolesAreKept
    <3>3. CASE Access!RequestPasswordChange(r, e)
      BY <3>0, <3>3 DEF Access!RequestPasswordChange
    <3> QED
      BY <1>7, <3>1, <3>2, <3>3
  <2>3. StaffFits'
    BY <2>1, <2>2 DEF StaffInv, StaffFits, IsEmployee
  <2> QED
    BY <1>e, <2>1, <2>3
<1>8. ASSUME NEW r \in Requests, Access!CreateEmployee(r) PROVE StaffInv'
  <2>1. UNCHANGED <<pc, job>> /\ pc[r] = "idle"
    BY <1>8 DEF Access!CreateEmployee, Access!AtOnce
  <2>2. PICK e, ids, p :
          /\ staff' = Access!With(staff, e, [active |-> TRUE, password |-> p, phone |-> FALSE, roles |-> ids])
          /\ given' = Access!With(given, e, ids)
    BY <1>8 DEF Access!CreateEmployee
  <2>3. /\ DOMAIN staff' = DOMAIN staff \cup {e} /\ DOMAIN given' = DOMAIN given \cup {e}
        /\ staff'[e] = [active |-> TRUE, password |-> p, phone |-> FALSE, roles |-> ids]
        /\ given'[e] = ids
        /\ \A i \in DOMAIN staff \ {e} : staff'[i] = staff[i] /\ given'[i] = given[i]
    BY <2>2 DEF Access!With, StaffInv, StaffFits
  <2>4. StaffFits'
    BY <2>3 DEF StaffInv, StaffFits, IsEmployee
  <2> QED
    BY <1>e, <2>1, <2>4
<1>9. ASSUME NEW r \in Requests, Access!SaveEmployee(r) PROVE StaffInv'
  <2>1. PICK x, e : /\ pc[r] = "save employee" /\ Access!Finish(r)
                    /\ x = [job[r].row EXCEPT !.password = staff[e].password]
                    /\ staff' = [staff EXCEPT ![e] = x]
                    /\ given' = [given EXCEPT ![e] = job[r].given]
    BY <1>9 DEF Access!SaveEmployee
  <2>2. IsEmployee(x) /\ x.roles = job[r].given
    BY <2>1, RolesAreKept DEF StaffInv, JobKeeps
  <2>3. StaffFits'
    BY <2>1, <2>2 DEF StaffInv, StaffFits, IsEmployee
  <2> QED
    BY <1>b, <1>c, <2>1, <2>3
<1>10. ASSUME NEW r \in Requests, Access!SetPassword(r) PROVE StaffInv'
  <2>1. PICK e, p : /\ staff' = [staff EXCEPT ![e].password = p] /\ UNCHANGED given
                    /\ Access!Continue(r, "drop", job[r])
    BY <1>10 DEF Access!SetPassword
  <2>2. Slots' /\ pc'[r] = "drop"
    BY <1>a, <2>1
  <2>3. StaffFits'
    <3>1. ASSUME NEW i \in DOMAIN staff PROVE IsEmployee(staff'[i]) /\ staff'[i].roles =
                 staff[i].roles
      <4>1. IsEmployee(staff[i])
        BY DEF StaffInv, StaffFits
      <4>2. staff'[i] = staff[i] \/ staff'[i] = [staff[i] EXCEPT !.password = p]
        BY <2>1
      <4>3. CASE staff'[i] = staff[i]
        BY <4>1, <4>3 DEF IsEmployee
      <4>4. CASE staff'[i] # staff[i]
        <5>1. PICK y : y = [staff[i] EXCEPT !.password = p] /\ staff'[i] = y
          BY <4>2, <4>4
        <5>2. IsEmployee(y) /\ y.roles = staff[i].roles
          BY <4>1, <5>1, RolesAreKept
        <5> QED
          BY <5>1, <5>2 DEF IsEmployee
      <4> QED
        BY <4>3, <4>4
    <3>2. DOMAIN staff' = DOMAIN staff
      BY <2>1
    <3> QED
      BY <2>1, <3>1, <3>2 DEF StaffInv, StaffFits, IsEmployee
  <2>4. JobKeeps(pc[r], job[r])'
    BY <2>2 DEF JobKeeps
  <2> QED
    BY <1>c, <2>2, <2>3, <2>4
<1>11. ASSUME NEW r \in Requests, Access!DeleteRole(r) PROVE StaffInv'
  <2>1. PICK k : /\ staff' = [e \in DOMAIN staff |-> [staff[e] EXCEPT !.roles = @ \ {k}]]
                 /\ given' = [e \in DOMAIN given |-> given[e] \ {k}] /\ Access!Finish(r)
    BY <1>11 DEF Access!DeleteRole
  <2>2. ASSUME NEW e \in DOMAIN staff PROVE IsEmployee(staff'[e]) /\ staff'[e].roles = given'[e]
    <3>1. IsEmployee(staff[e]) /\ staff[e].roles = given[e] /\ e \in DOMAIN given
      BY DEF StaffInv, StaffFits
    <3>2. PICK y : y = [staff[e] EXCEPT !.roles = staff[e].roles \ {k}] /\ staff'[e] = y
      BY <2>1
    <3>3. IsEmployee(y) /\ y.roles = staff[e].roles \ {k}
      BY <3>1, <3>2, RolesAreSet
    <3> QED
      BY <2>1, <3>1, <3>2, <3>3 DEF IsEmployee
  <2>3. StaffFits'
    BY <2>1, <2>2 DEF StaffInv, StaffFits, IsEmployee
  <2> QED
    BY <1>b, <1>c, <2>1, <2>3
<1>12. CASE Access!Restart
  <2>1. UNCHANGED <<staff, given>> /\ pc' = [r \in Requests |-> "idle"]
        /\ job' = [r \in Requests |-> <<>>]
    BY <1>12 DEF Access!Restart
  <2>2. Slots' /\ \A r \in Requests : JobKeeps(pc[r], job[r])'
    BY <2>1 DEF Slots, JobKeeps
  <2> QED
    BY <1>d, <2>1, <2>2 DEF StaffInv
<1>13. ASSUME (\E n : Access!Expire(n)) \/ UNCHANGED accessVars PROVE StaffInv'
  <2>1. UNCHANGED <<staff, given, pc, job>>
    BY <1>13 DEF Access!Expire, Access!handling, accessVars, Access!roleVars
  <2>2. \A r \in Requests : JobKeeps(pc[r], job[r])'
    BY <2>1 DEF StaffInv, JobKeeps, Access!Held
  <2> QED
    BY <1>d, <2>1, <2>2 DEF StaffInv, Slots
<1> QED
  BY <1>1, <1>2, <1>3, <1>4, <1>5, <1>6, <1>7, <1>8, <1>9, <1>10, <1>11, <1>12, <1>13
    DEF Access!Next

\* At the start everybody has the roles that were given.
LEMMA StaffInvInit == AccessStart => StaffInv
<1> SUFFICES ASSUME AccessStart PROVE StaffInv
  OBVIOUS
<1>1. PICK numbers \in [DOMAIN Canonical -> RoleIds] : \E first \in Employees, p \in Passwords :
        /\ staff = [e \in {first} |-> [active |-> TRUE, password |-> p, phone |-> FALSE,
                                       roles |-> {numbers["admin"]}]]
        /\ given = [e \in {first} |-> {numbers["admin"]}]
        /\ links \in {[l \in {} |-> 0]} \cup
             [{1} -> [employee : {first}, password : Passwords \ {p}]]
  BY Zenon DEF AccessStart, Access!RolesInit
<1>2. StaffFits
  <2>1. PICK first \in Employees, p \in Passwords :
          /\ staff = [e \in {first} |-> [active |-> TRUE, password |-> p, phone |-> FALSE,
                                         roles |-> {numbers["admin"]}]]
          /\ given = [e \in {first} |-> {numbers["admin"]}]
    BY <1>1
  <2> QED
    BY <2>1 DEF StaffFits, IsEmployee
<1>4. Slots /\ \A r \in Requests : pc[r] = "idle"
  BY DEF AccessStart, Quiet, Slots
<1> QED
  BY <1>2, <1>4 DEF StaffInv, JobKeeps

\* While handlers do not overlap, whatever is saved of an employee leaves the roles that were
\* assigned.
THEOREM EmployeesKeepRoles == ASSUME OneAtATime PROVE AccessSpec => []Access!EditsKeepRoles
<1>1. StaffInv => Access!EditsKeepRoles
  BY DEF StaffInv, StaffFits, Access!EditsKeepRoles
<1> QED
  BY <1>1, StaffInvInit, StaffInvNext, PTL DEF AccessSpec

\* While handlers do not overlap, deleting a role takes it from no employee.
THEOREM DeletingTakesNoRole == ASSUME OneAtATime PROVE AccessSpec =>
    [][Access!HeldRoleStays]_accessVars
<1>1. StaffInv /\ [Access!Next]_accessVars => [Access!HeldRoleStays]_accessVars
  <2> SUFFICES ASSUME StaffInv, Access!Next, NEW k \in Access!There, k \notin DOMAIN roles'
               PROVE ~Access!Held(k)
    BY DEF Access!HeldRoleStays
  <2>1. PICK r \in Requests : Access!DeleteRole(r)
    <3>1. ASSUME NEW r \in Requests, Access!Create(r) PROVE FALSE
      BY <3>1 DEF Access!Create, Access!With, Access!There
    <3>2. ASSUME NEW r \in Requests, Access!SaveRole(r) PROVE FALSE
      BY <3>2 DEF Access!SaveRole, Access!With, Access!There
    <3>3. ASSUME NEW r \in Requests, NEW i \in Access!There, Access!ChangeByHand(r, i) PROVE FALSE
      BY <3>3 DEF Access!ChangeByHand, Access!There
    <3>4. ASSUME Access!Restart PROVE FALSE
      BY <3>4 DEF Access!Restart, Access!Seeded, Access!There
    <3>5. ASSUME UNCHANGED roles PROVE FALSE
      BY <3>5 DEF Access!There
    <3> QED
      BY <3>1, <3>2, <3>3, <3>4, <3>5
         DEF Access!Next, Access!Invalidate, Access!Fill, Access!CreateEmployee,
             Access!SaveEmployee, Access!SetPassword, Access!DropLink, Access!Abandon,
         Access!Update, Access!AssignPermissions, Access!Remove, Access!Check,
             Access!UpdateEmployee, Access!AssignRoles, Access!RemoveEmployee,
         Access!AdminResetPassword, Access!RequestPasswordChange, Access!ConfirmPasswordChange,
             Access!Expire, Access!roleVars
  <2> QED
    BY <2>1 DEF Access!DeleteRole, Access!Without, Access!There, StaffInv, JobKeeps
<1> QED
  BY <1>1, StaffInvInit, StaffInvNext, PTL DEF AccessSpec

-----------------------------------------------------------------------------
(* Reports: the jobs of the night, and the table of the customers *)

NightStart == Night!ReportsInit /\ Quiet

nightVars == <<Night!reportVars, Night!handling>>

NightSpec == NightStart /\ [][Night!Next]_nightVars

\* The steps of a job before it has emptied the table, and those of the report.
TableStands == {"idle", "compute", "truncate", "fill"}

\* What the step l of a handler that has read j relies on.
NightJobFits(l, j) ==
  /\ l \in {"idle", "compute", "truncate", "save", "finish", "invalidate", "fill"}
  /\ l \in {"compute", "truncate", "save", "finish"} => jobLog = "running"
  /\ l \in {"truncate", "save"} => computed = j.rows /\ j.rows = [c \in
         DOMAIN j.rows |-> j.rows[c]]
  /\ l = "save" => DOMAIN rfm = {}
  /\ l \in {"finish", "invalidate"} => rfm = computed
  /\ l = "fill" => j.summary = Night!SummaryOf(rfm)
  /\ l \in TableStands /\ ~tornSnapshot => summary \subseteq {Night!SummaryOf(rfm)}

NightJobs == \A r \in Requests : NightJobFits(pc[r], job[r])

\* With no handler at all, nothing has been counted.
NobodyCounts == Requests = {} => summary = {}

NightInv ==
  /\ Slots /\ NightJobs /\ NobodyCounts
  /\ rfm = [c \in DOMAIN rfm |-> rfm[c]]
  /\ jobLog = "success" => rfm = computed

LEMMA NightBegins == NightStart => NightInv
<1> SUFFICES ASSUME NightStart PROVE NightInv
  OBVIOUS
<1>1. /\ pc = [r \in Requests |-> "idle"] /\ job = [r \in Requests |-> <<>>]
      /\ rfm = <<>> /\ summary = {} /\ jobLog = "none"
  BY DEF NightStart, Quiet, Night!ReportsInit
<1>2. rfm = [c \in DOMAIN rfm |-> rfm[c]]
  BY <1>1
<1> QED
  BY <1>1, <1>2 DEF NightInv, Slots, NightJobs, NightJobFits, NobodyCounts

LEMMA NightNext ==
  ASSUME OneAtATime
  PROVE  NightInv /\ [Night!Next]_nightVars => NightInv'
<1> SUFFICES ASSUME NightInv, [Night!Next]_nightVars PROVE NightInv'
  OBVIOUS
<1> USE DEF NightInv
<1>a. ASSUME NEW r \in Requests, NEW l, NEW j, Night!Begin(r, l, j) \/ Night!Continue(r, l, j),
             NightJobFits(l, j)'
      PROVE  Slots' /\ NightJobs' /\ NobodyCounts'
  BY <1>a DEF Slots, NightJobs, NobodyCounts, Night!Begin, Night!Continue, OneAtATime
<1>b. ASSUME NEW r \in Requests, Night!Finish(r), NightJobFits("idle", <<>>)'
      PROVE  Slots' /\ NightJobs' /\ NobodyCounts'
  BY <1>b DEF Slots, NightJobs, NobodyCounts, Night!Finish, OneAtATime
<1>c. Night!SummaryOf(rfm)' = Night!SummaryOf(rfm')
  BY DEF Night!SummaryOf
<1>d. ASSUME rfm' = rfm PROVE Night!SummaryOf(rfm)' = Night!SummaryOf(rfm)
  BY <1>c, <1>d
<1>1. ASSUME NEW r \in Requests, Night!StartJobLog(r) PROVE NightInv'
  <2>1. /\ Night!Begin(r, "compute", [rows |-> <<>>]) /\ jobLog' = "running" /\ pc[r] = "idle"
        /\ UNCHANGED <<rfm, summary, computed, tornSnapshot>>
    BY <1>1 DEF Night!StartJobLog, Night!Begin
  <2>2. ~tornSnapshot => summary \subseteq {Night!SummaryOf(rfm)}
    BY <2>1 DEF NightJobs, NightJobFits, TableStands
  <2>3. NightJobFits("compute", [rows |-> <<>>])'
    BY <2>1, <2>2, <1>d DEF NightJobFits
  <2> QED
    BY <2>1, <2>3, <1>a
<1>2. ASSUME NEW r \in Requests, Night!ComputeRfm(r) PROVE NightInv'
  <2>1. PICK rows : rows = Night!Snapshot(bought)
    OBVIOUS
  <2>2. rows = [c \in DOMAIN rows |-> rows[c]]
    BY <2>1 DEF Night!Snapshot
  <2>3. PICK l : l = IF bought = <<>> THEN "finish" ELSE "truncate"
    OBVIOUS
  <2>4. /\ pc[r] = "compute" /\ UNCHANGED <<rfm, summary, jobLog, tornSnapshot>>
        /\ computed' = IF l = "finish" THEN rfm ELSE rows
        /\ Night!Continue(r, l, [rows |-> rows]) /\ l \in {"finish", "truncate"}
    BY <1>2, <2>1, <2>3 DEF Night!ComputeRfm
  <2>5. jobLog = "running" /\ (~tornSnapshot => summary \subseteq {Night!SummaryOf(rfm)})
    BY <2>4 DEF NightJobs, NightJobFits, TableStands
  <2>6. NightJobFits(l, [rows |-> rows])'
    BY <2>2, <2>4, <2>5, <1>d DEF NightJobFits
  <2> QED
    BY <2>4, <2>5, <2>6, <1>a
<1>3. ASSUME NEW r \in Requests, Night!Truncate(r) PROVE NightInv'
  <2>1. PICK j : j = job[r]
    OBVIOUS
  <2>2. /\ pc[r] = "truncate" /\ rfm' = <<>> /\ Night!Continue(r, "save", j)
        /\ UNCHANGED <<summary, jobLog, computed, tornSnapshot>>
    BY <1>3, <2>1 DEF Night!Truncate
  <2>3. computed = j.rows /\ j.rows = [c \in DOMAIN j.rows |-> j.rows[c]] /\ jobLog = "running"
    BY <2>1, <2>2 DEF NightJobs, NightJobFits
  <2>4. DOMAIN rfm' = {} /\ rfm' = [c \in DOMAIN rfm' |-> rfm'[c]]
    BY <2>2
  <2>5. NightJobFits("save", j)'
    BY <2>2, <2>3, <2>4 DEF NightJobFits, TableStands
  <2> QED
    BY <2>2, <2>3, <2>4, <2>5, <1>a
<1>4. ASSUME NEW r \in Requests, Night!SaveRows(r) PROVE NightInv'
  <2>1. PICK j : j = job[r]
    OBVIOUS
  <2>2. /\ pc[r] = "save" /\ Night!Continue(r, "finish", j)
        /\ rfm' = [c \in DOMAIN rfm \cup DOMAIN j.rows |-> IF c \in DOMAIN j.rows THEN j.rows[c]
                                                           ELSE rfm[c]]
        /\ UNCHANGED <<summary, jobLog, computed, tornSnapshot>>
    BY <1>4, <2>1 DEF Night!SaveRows
  <2>3. /\ computed = j.rows /\ j.rows = [c \in DOMAIN j.rows |-> j.rows[c]]
        /\ jobLog = "running" /\ DOMAIN rfm = {}
    BY <2>1, <2>2 DEF NightJobs, NightJobFits
  <2>4. rfm' = [c \in DOMAIN j.rows |-> j.rows[c]]
    BY <2>2, <2>3
  <2>5. rfm' = computed' /\ rfm' = [c \in DOMAIN rfm' |-> rfm'[c]]
    BY <2>2, <2>3, <2>4
  <2>6. NightJobFits("finish", j)'
    BY <2>2, <2>3, <2>5 DEF NightJobFits, TableStands
  <2> QED
    BY <2>2, <2>5, <2>6, <1>a
<1>5. ASSUME NEW r \in Requests, Night!FinishJobLog(r) PROVE NightInv'
  <2>1. PICK j : j = job[r]
    OBVIOUS
  <2>2. /\ pc[r] = "finish" /\ jobLog' = "success" /\ Night!Continue(r, "invalidate", j)
        /\ UNCHANGED <<rfm, summary, computed, tornSnapshot>>
    BY <1>5, <2>1 DEF Night!FinishJobLog
  <2>3. rfm = computed
    BY <2>2 DEF NightJobs, NightJobFits
  <2>4. NightJobFits("invalidate", j)'
    BY <2>2, <2>3 DEF NightJobFits, TableStands
  <2> QED
    BY <2>2, <2>3, <2>4, <1>a
<1>6. ASSUME NEW r \in Requests, Night!InvalidateRfmCache(r) PROVE NightInv'
  <2>1. summary' = {} /\ Night!Finish(r) /\ UNCHANGED <<rfm, jobLog, computed>>
    BY <1>6 DEF Night!InvalidateRfmCache
  <2>2. NightJobFits("idle", <<>>)'
    BY <2>1 DEF NightJobFits
  <2> QED
    BY <2>1, <2>2, <1>b
<1>7. ASSUME NEW r \in Requests, Night!FailJobLog(r) \/ Night!Abandon(r) PROVE NightInv'
  <2>1. /\ Night!Finish(r) /\ tornSnapshot' = Night!Torn(r) /\ jobLog' \in {jobLog, "failed"}
        /\ UNCHANGED <<rfm, summary, computed>>
    BY <1>7 DEF Night!FailJobLog, Night!Abandon, Night!GiveUp
  <2>2. ~Night!Torn(r) => summary \subseteq {Night!SummaryOf(rfm)}
    BY DEF Night!Torn, NightJobs, NightJobFits, TableStands
  <2>3. NightJobFits("idle", <<>>)'
    BY <2>1, <2>2, <1>d DEF NightJobFits
  <2> QED
    BY <2>1, <2>3, <1>b
<1>8. ASSUME NEW r \in Requests, Night!LoadSummary(r) PROVE NightInv'
  <2>1. PICK j : j = [summary |-> Night!SummaryOf(rfm)]
    OBVIOUS
  <2>2. /\ summary = {} /\ Night!Begin(r, "fill", j)
        /\ UNCHANGED <<rfm, summary, jobLog, computed, tornSnapshot>>
    BY <1>8, <2>1 DEF Night!LoadSummary, Night!reportVars
  <2>3. NightJobFits("fill", j)'
    BY <2>1, <2>2, <1>d DEF NightJobFits
  <2> QED
    BY <2>2, <2>3, <1>a
<1>9. ASSUME NEW r \in Requests, Night!FillSummary(r) PROVE NightInv'
  <2>1. /\ pc[r] = "fill" /\ summary' = {job[r].summary} /\ Night!Finish(r)
        /\ UNCHANGED <<rfm, jobLog, computed, tornSnapshot>>
    BY <1>9 DEF Night!FillSummary
  <2>2. job[r].summary = Night!SummaryOf(rfm)
    BY <2>1 DEF NightJobs, NightJobFits
  <2>3. NightJobFits("idle", <<>>)'
    BY <2>1, <2>2, <1>d DEF NightJobFits
  <2> QED
    BY <2>1, <2>3, <1>b
<1>10. CASE Night!SummaryExpires \/ Night!Trade \/ UNCHANGED nightVars
  <2>1. summary' \in {{}, summary} /\ UNCHANGED <<pc, job, rfm, jobLog, computed, tornSnapshot>>
    BY <1>10 DEF Night!SummaryExpires, Night!Trade, nightVars, Night!reportVars, Night!handling
  <2>2. ASSUME NEW r \in Requests PROVE NightJobFits(pc[r], job[r])'
    <3>1. NightJobFits(pc[r], job[r])
      BY DEF NightJobs
    <3>2. PICK l, j : l = pc[r] /\ j = job[r] /\ l = pc'[r] /\ j = job'[r]
      BY <2>1
    <3> QED
      BY <2>1, <3>1, <3>2, <1>d DEF NightJobFits
  <2> QED
    BY <2>1, <2>2 DEF Slots, NightJobs, NobodyCounts
<1> QED
  BY <1>1, <1>2, <1>3, <1>4, <1>5, <1>6, <1>7, <1>8, <1>9, <1>10 DEF Night!Next

\* While jobs do not overlap, a job whose log says success has left the rows it computed, and
\* what Redis keeps counts the rows of the table unless a job ended between the two: the log is
\* written after the rows, and the answer of a report is loaded from the table it is kept for.
THEOREM LogsTellTheTable ==
  ASSUME OneAtATime
  PROVE  NightSpec => []Night!LogTellsTheTable
<1>1. NightInv => Night!LogTellsTheTable
  BY DEF NightInv, NightJobs, NightJobFits, TableStands, NobodyCounts, Night!LogTellsTheTable
<1>2. NightSpec => []NightInv
  BY NightBegins, NightNext, PTL DEF NightSpec
<1> QED
  BY <1>1, <1>2, PTL

-----------------------------------------------------------------------------
(* Categories: where a category hangs *)

TreeStart == Tree!CategoriesInit /\ Quiet

treeVars == <<Tree!categoryVars, Tree!handling>>

TreeSpec == TreeStart /\ [][Tree!Next]_treeVars

ACategory(x) ==
  x = [parent |-> x.parent, level |-> x.level, node |-> x.node, isRoot |-> x.isRoot]

\* Categories have the ids that were given out.
TreeTable ==
  /\ categories = [c \in Tree!There |-> categories[c]] /\ nextCategory \in Nat
  /\ \A c \in Tree!There : ACategory(categories[c]) /\ c \in Nat /\ c < nextCategory

\* What a handler has read of the tree is still so.
TreeJobFits(l, j) ==
  /\ l \in {"idle", "insert", "save", "delete"}
  /\ l \in {"insert", "save"} => ACategory(j.row)
  /\ l = "save" =>
       /\ j.category \in Tree!There /\ j.children = Tree!ChildrenOf(j.category)
       /\ j.moves \/ j.row.parent = categories[j.category].parent
  /\ l = "delete" => Tree!ChildrenOf(j.category) = {}

TreeJobs == \A r \in Requests : TreeJobFits(pc[r], job[r])

TreeInv == Slots /\ TreeTable /\ TreeJobs

LEMMA TreeBegins == TreeStart => TreeInv
<1> SUFFICES ASSUME TreeStart PROVE TreeInv
  OBVIOUS
<1>1. Slots /\ TreeJobs
  BY DEF TreeStart, Quiet, Slots, TreeJobs, TreeJobFits
<1>2. /\ categories = [c \in 1..1 |-> [parent |-> Tree!NoParent, level |-> 0, node |-> "category",
                                       isRoot |-> FALSE]]
      /\ nextCategory = 2
  BY DEF TreeStart, Tree!CategoriesInit
<1>3. Tree!There = 1..1
  BY <1>2 DEF Tree!There
<1>4. TreeTable
  BY <1>2, <1>3 DEF TreeTable, ACategory
<1> QED
  BY <1>1, <1>4 DEF TreeInv

\* A step of a handler that is alone, and what it leaves.
LEMMA TreeStep ==
  ASSUME OneAtATime, TreeInv, [Tree!Next]_treeVars
  PROVE  TreeInv' /\ Tree!RemovalKeepsPlaces
<1> USE DEF TreeInv
<1>a. ASSUME NEW r \in Requests, NEW l, NEW j, Tree!Begin(r, l, j), TreeJobFits(l, j)'
      PROVE  Slots' /\ TreeJobs'
  <2>1. Slots' /\ pc'[r] = l /\ job'[r] = j /\ \A q \in Requests : q = r
    BY <1>a DEF Slots, Tree!Begin, OneAtATime
  <2>2. TreeJobFits(pc[r], job[r])'
    BY <1>a, <2>1 DEF TreeJobFits
  <2> QED
    BY <2>1, <2>2 DEF TreeJobs
<1>b. ASSUME NEW r \in Requests, Tree!Finish(r)
      PROVE  Slots' /\ TreeJobs'
  BY <1>b DEF Slots, TreeJobs, TreeJobFits, Tree!Finish, OneAtATime
<1>c. ASSUME UNCHANGED <<categories, nextCategory>>
      PROVE  /\ TreeTable' /\ Tree!There' = Tree!There
             /\ \A c : Tree!ChildrenOf(c)' = Tree!ChildrenOf(c)
             /\ Tree!RemovalKeepsPlaces
  BY <1>c DEF TreeTable, Tree!There, Tree!ChildrenOf, ACategory, Tree!RemovalKeepsPlaces
<1>1. ASSUME NEW r \in Requests, Tree!Create(r) PROVE TreeInv' /\ Tree!RemovalKeepsPlaces
  <2>1. PICK j : /\ Tree!Begin(r, "insert", j) /\ UNCHANGED Tree!categoryVars /\ ACategory(j.row)
    <3>1. PICK p, node, isRoot :
            Tree!Begin(r, "insert",
                  [row |-> [parent |-> p, node |-> node, isRoot |-> isRoot,
                            level |-> IF p = Tree!NoParent THEN 0 ELSE categories[p].level + 1]])
      BY <1>1 DEF Tree!Create
    <3>2. PICK j : j = [row |-> [parent |-> p, node |-> node, isRoot |-> isRoot,
                                 level |-> IF p =
                                     Tree!NoParent THEN 0 ELSE categories[p].level + 1]]
      OBVIOUS
    <3>3. ACategory(j.row)
      BY <3>2 DEF ACategory
    <3> QED
      BY <1>1, <3>1, <3>2, <3>3 DEF Tree!Create
  <2>2. UNCHANGED <<categories, nextCategory>>
    BY <2>1 DEF Tree!categoryVars
  <2>3. TreeJobFits("insert", j)'
    BY <2>1 DEF TreeJobFits, ACategory
  <2> QED
    BY <2>1, <2>2, <2>3, <1>a, <1>c
<1>2. ASSUME NEW r \in Requests, Tree!Insert(r) PROVE TreeInv' /\ Tree!RemovalKeepsPlaces
  <2>1. PICK row : row = job[r].row
    OBVIOUS
  <2>2. /\ pc[r] = "insert" /\ Tree!Finish(r)
        /\ \/ /\ categories' = [c \in Tree!There \cup {nextCategory} |->
                                  IF c = nextCategory THEN row ELSE categories[c]]
              /\ nextCategory' = nextCategory + 1
           \/ UNCHANGED <<categories, nextCategory>>
    BY <1>2, <2>1 DEF Tree!Insert
  <2>3. ACategory(row)
    BY <2>1, <2>2 DEF TreeJobs, TreeJobFits
  <2>4. CASE /\ categories' = [c \in Tree!There \cup {nextCategory} |->
                                 IF c = nextCategory THEN row ELSE categories[c]]
             /\ nextCategory' = nextCategory + 1
    <3>1. nextCategory \notin Tree!There /\ nextCategory \in Nat
      BY DEF TreeTable
    <3>2. /\ Tree!There' = Tree!There \cup {nextCategory} /\ categories'[nextCategory] = row
          /\ categories' = [c \in Tree!There' |-> categories'[c]]
          /\ \A c \in Tree!There : categories'[c] = categories[c]
      BY <2>4, <3>1 DEF Tree!There
    <3>3. \A c \in Tree!There' : ACategory(categories'[c]) /\ c \in Nat /\ c < nextCategory'
      BY <2>3, <2>4, <3>1, <3>2 DEF TreeTable
    <3>4. TreeTable'
      <4>1. nextCategory' \in Nat
        BY <2>4, <3>1
      <4> QED
        BY <3>2, <3>3, <4>1 DEF TreeTable, ACategory
    <3>5. Tree!RemovalKeepsPlaces
      BY <3>2 DEF Tree!RemovalKeepsPlaces
    <3> QED
      BY <2>2, <3>4, <3>5, <1>b
  <2>5. CASE UNCHANGED <<categories, nextCategory>>
    BY <2>2, <2>5, <1>b, <1>c
  <2> QED
    BY <2>2, <2>4, <2>5
<1>3. ASSUME NEW r \in Requests, Tree!Save(r) PROVE TreeInv' /\ Tree!RemovalKeepsPlaces
  <2>1. PICK j : j = job[r]
    OBVIOUS
  <2>2. PICK c, x : c = j.category /\ x = j.row
    OBVIOUS
  <2>3. pc[r] = "save" /\ Tree!Finish(r) /\ UNCHANGED nextCategory
    BY <1>3 DEF Tree!Save
  <2>4. /\ c \in Tree!There /\ j.children = Tree!ChildrenOf(c) /\ ACategory(x)
        /\ j.moves \/ x.parent = categories[c].parent
    BY <2>1, <2>2, <2>3 DEF TreeJobs, TreeJobFits
  <2>5. CASE UNCHANGED categories
    BY <2>3, <2>5, <1>b, <1>c
  <2>6. CASE categories' # categories
    <3>1. PICK rows : rows = [k \in Tree!There \cup {c} |-> IF k = c THEN x ELSE categories[k]]
      OBVIOUS
    <3>2. /\ categories' = [k \in DOMAIN rows |->
                IF k \in j.children \ {c} THEN [rows[k] EXCEPT !.parent = c]
                ELSE IF k # c /\ rows[k].parent = c THEN [rows[k] EXCEPT !.parent = Tree!NoParent]
                ELSE rows[k]]
          /\ moved' = (moved \/ j.moves)
      BY <1>3, <2>1, <2>2, <2>6, <3>1 DEF Tree!Save
    <3>3. DOMAIN rows = Tree!There /\ rows[c] = x /\ \A k \in Tree!There : k # c =>
            rows[k] = categories[k]
      BY <2>4, <3>1
    <3>4. Tree!There' = Tree!There /\ categories' = [k \in Tree!There' |-> categories'[k]]
      BY <3>2, <3>3 DEF Tree!There
    <3>5. ASSUME NEW k \in Tree!There
          PROVE  /\ ACategory(categories'[k])
                 /\ IF k = c THEN categories'[k] = x ELSE categories'[k].parent =
                        categories[k].parent
      <4>1. CASE k = c
        BY <2>4, <3>2, <3>3, <4>1
      <4>2. CASE k # c /\ k \in Tree!ChildrenOf(c)
        <5>1. PICK y : y = categories[k]
          OBVIOUS
        <5>2. y.parent = c /\ ACategory(y)
          BY <4>2, <5>1 DEF Tree!ChildrenOf, TreeTable
        <5>3. categories'[k] = [y EXCEPT !.parent = c]
          BY <2>4, <3>2, <3>3, <4>2, <5>1
        <5> QED
          BY <4>2, <5>1, <5>2, <5>3 DEF ACategory
      <4>3. CASE k # c /\ k \notin Tree!ChildrenOf(c)
        <5>1. rows[k] = categories[k] /\ rows[k].parent # c
          BY <3>3, <4>3 DEF Tree!ChildrenOf
        <5>2. categories'[k] = categories[k]
          BY <2>4, <3>2, <3>3, <4>3, <5>1
        <5> QED
          BY <4>3, <5>2 DEF TreeTable
      <4> QED
        BY <4>1, <4>2, <4>3
    <3>6. TreeTable'
      BY <2>3, <3>4, <3>5 DEF TreeTable, ACategory
    <3>7. Tree!RemovalKeepsPlaces
      BY <2>4, <3>2, <3>5 DEF Tree!RemovalKeepsPlaces
    <3> QED
      BY <2>3, <3>6, <3>7, <1>b
  <2> QED
    BY <2>5, <2>6
<1>4. ASSUME NEW r \in Requests, Tree!Delete(r) PROVE TreeInv' /\ Tree!RemovalKeepsPlaces
  <2>1. PICK c : c = job[r].category
    OBVIOUS
  <2>2. /\ pc[r] = "delete" /\ Tree!Finish(r) /\ UNCHANGED nextCategory
        /\ \/ UNCHANGED categories
           \/ categories' = [k \in Tree!There \ {c} |->
                               IF categories[k].parent = c
                               THEN [categories[k] EXCEPT !.parent =
                                   Tree!NoParent] ELSE categories[k]]
    BY <1>4, <2>1 DEF Tree!Delete
  <2>3. Tree!ChildrenOf(c) = {}
    BY <2>1, <2>2 DEF TreeJobs, TreeJobFits
  <2>4. \A k \in Tree!There : categories[k].parent # c
    BY <2>3 DEF Tree!ChildrenOf
  <2>5. UNCHANGED categories \/ categories' = [k \in Tree!There \ {c} |-> categories[k]]
    BY <2>2, <2>4
  <2>6. CASE UNCHANGED categories
    BY <2>2, <2>6, <1>b, <1>c
  <2>7. CASE categories' = [k \in Tree!There \ {c} |-> categories[k]]
    <3>1. Tree!There' = Tree!There \ {c} /\ \A k \in Tree!There' : categories'[k] = categories[k]
      BY <2>7 DEF Tree!There
    <3>2. TreeTable'
      BY <2>2, <2>7, <3>1 DEF TreeTable, ACategory
    <3>3. Tree!RemovalKeepsPlaces
      BY <3>1 DEF Tree!RemovalKeepsPlaces, Tree!There
    <3> QED
      BY <2>2, <3>2, <3>3, <1>b
  <2> QED
    BY <2>5, <2>6, <2>7
<1>5. ASSUME NEW r \in Requests, Tree!Abandon(r) PROVE TreeInv' /\ Tree!RemovalKeepsPlaces
  <2>1. Tree!Finish(r) /\ UNCHANGED <<categories, nextCategory>>
    BY <1>5 DEF Tree!Abandon, Tree!GiveUp, Tree!categoryVars
  <2> QED
    BY <2>1, <1>b, <1>c
<1>6. ASSUME NEW r \in Requests, NEW c \in Tree!There, Tree!Update(r, c)
      PROVE  TreeInv' /\ Tree!RemovalKeepsPlaces
  <2>1. PICK row : row = categories[c]
    OBVIOUS
  <2>2. PICK wanted, node, isRoot, p :
          /\ p \in Tree!ParentsToSave(c, wanted)
          /\ Tree!Begin(r, "save",
               [category |-> c, children |-> Tree!ChildrenOf(c), moves |-> wanted # row.parent,
                row |-> [row EXCEPT !.parent = p, !.node = node, !.isRoot = isRoot]])
          /\ UNCHANGED Tree!categoryVars
    <3>1. PICK wanted, node, isRoot :
            \E p \in Tree!ParentsToSave(c, wanted) :
              Tree!Begin(r, "save",
                [category |-> c, children |-> Tree!ChildrenOf(c), moves |-> wanted # row.parent,
                 row |-> [row EXCEPT !.parent = p, !.node = node, !.isRoot = isRoot]])
      BY <1>6, <2>1 DEF Tree!Update
    <3> QED
      BY <1>6, <3>1 DEF Tree!Update
  <2>3. PICK x : x = [row EXCEPT !.parent = p, !.node = node, !.isRoot = isRoot]
    OBVIOUS
  <2>4. PICK moves : moves = (wanted # row.parent)
    OBVIOUS
  <2>5. PICK j : j = [category |-> c, children |-> Tree!ChildrenOf(c), moves |-> moves, row |-> x]
    OBVIOUS
  <2>6. Tree!Begin(r, "save", j) /\ UNCHANGED <<categories, nextCategory>>
    BY <2>2, <2>3, <2>4, <2>5 DEF Tree!categoryVars
  <2>7. ACategory(row)
    BY <2>1 DEF TreeTable
  <2>8. ACategory(x) /\ x.parent = p
    BY <2>3, <2>7 DEF ACategory
  <2>9. moves \/ x.parent = row.parent
    BY <2>1, <2>2, <2>4, <2>8 DEF Tree!ParentsToSave
  <2>10. j.category = c /\ j.children = Tree!ChildrenOf(c) /\ j.row = x /\ (j.moves
           \/ x.parent = row.parent)
    BY <2>5, <2>9
  <2>11. TreeJobFits("save", j)'
    BY <2>1, <2>6, <2>8, <2>10, <1>c DEF TreeJobFits, ACategory
  <2> QED
    BY <2>6, <2>11, <1>a, <1>c
<1>7. ASSUME NEW r \in Requests, NEW c \in Tree!There, Tree!Remove(r, c)
      PROVE  TreeInv' /\ Tree!RemovalKeepsPlaces
  <2>1. PICK j : j = [category |-> c]
    OBVIOUS
  <2>2. Tree!ChildrenOf(c) = {} /\ Tree!Begin(r, "delete", j) /\ UNCHANGED <<categories,
          nextCategory>>
    BY <1>7, <2>1 DEF Tree!Remove, Tree!Childless, Tree!categoryVars
  <2>3. TreeJobFits("delete", j)'
    BY <2>1, <2>2, <1>c DEF TreeJobFits
  <2> QED
    BY <2>2, <2>3, <1>a, <1>c
<1>8. CASE UNCHANGED treeVars
  <2>1. UNCHANGED <<pc, job, categories, nextCategory>>
    BY <1>8 DEF treeVars, Tree!categoryVars, Tree!handling
  <2>2. ASSUME NEW r \in Requests PROVE TreeJobFits(pc[r], job[r])'
    <3>1. PICK l, j : l = pc[r] /\ j = job[r] /\ l = pc'[r] /\ j = job'[r]
      BY <2>1
    <3>2. TreeJobFits(l, j)
      BY <3>1 DEF TreeJobs
    <3>3. TreeJobFits(l, j)'
      BY <2>1, <3>2, <1>c DEF TreeJobFits, ACategory
    <3> QED
      BY <3>1, <3>3 DEF TreeJobFits
  <2> QED
    BY <2>1, <2>2, <1>c DEF Slots, TreeJobs
<1> QED
  BY <1>1, <1>2, <1>3, <1>4, <1>5, <1>6, <1>7, <1>8 DEF Tree!Next

\* While handlers do not overlap, only an update of a category itself gives it another parent:
\* what saves another category leaves it where it is, and one with children is not removed.
THEOREM OnlyUpdatesMove ==
  ASSUME OneAtATime
  PROVE  TreeSpec => [][Tree!RemovalKeepsPlaces]_treeVars
<1>1. TreeInv /\ [Tree!Next]_treeVars => TreeInv'
  BY TreeStep
<1>2. TreeInv /\ [Tree!Next]_treeVars => [Tree!RemovalKeepsPlaces]_treeVars
  BY TreeStep
<1> QED
  BY <1>1, <1>2, TreeBegins, PTL DEF TreeSpec

-----------------------------------------------------------------------------
(* Products and variants: copies that customers do not see, and the default variant *)

LEMMA VariantsCounted == \A S : Shelf!Cardinality(S) = Cardinality(S)
  BY DEF Shelf!Cardinality, Cardinality

\* A set of naturals has a least element.
LEMMA LeastExists ==
  ASSUME NEW S, S \subseteq Nat, S # {}
  PROVE  \E x \in S : \A y \in S : x <= y
<1> DEFINE Less == {p \in Nat \X Nat : p[1] < p[2]}
<1>1. IsWellFoundedOn(Less, Nat)
  BY NatLessThanWellFounded DEF OpToRel
<1>2. PICK x \in S : \A y \in S : ~(<<y, x>> \in Less)
  <2> HIDE DEF Less
  <2> QED
    BY <1>1, WFMin
<1>3. ASSUME NEW y \in S PROVE x <= y
  <2>1. <<y, x>> \in Nat \X Nat /\ ~(<<y, x>> \in Less)
    BY <1>2
  <2> QED
    BY <2>1
<1> QED
  BY <1>3

ShelfStart == Shelf!ProductsInit /\ Quiet

shelfVars == <<Shelf!productVars, Shelf!handling>>

ShelfSpec == ShelfStart /\ [][Shelf!Next]_shelfVars

\* Rows are numbered from one.
Numbered(S) == \E n \in Nat : S = 1..n

\* The number of the next row, as an INSERT gives it, is that of no other.
LEMMA FirstIsFree ==
  ASSUME NEW S, NEW f, Numbered(S)
  PROVE  Shelf!FirstFree(S, f) \in Nat /\ (Shelf!Free(S, f) # {} =>
             Shelf!FirstFree(S, f) \in Shelf!Free(S, f))
<1>1. PICK n \in Nat : S = 1..n
  BY DEF Numbered
<1>2. Shelf!Cardinality(S) = n
  <2>1. Cardinality(1..n) = n
    BY FS_Interval
  <2> QED
    BY <1>1, <2>1, VariantsCounted
<1>3. PICK T : T = Shelf!Free(S, f) \cup {n + 1}
  OBVIOUS
<1>4. T \subseteq Nat /\ T # {} /\ \A x \in Shelf!Free(S, f) : x <= n
  BY <1>1, <1>3 DEF Shelf!Free
<1>5. Shelf!FirstFree(S, f) = Shelf!Min(T)
  BY <1>2, <1>3 DEF Shelf!FirstFree, Shelf!Cardinality
<1>6. Shelf!Min(T) \in T /\ \A y \in T : Shelf!Min(T) <= y
  BY <1>4, LeastExists DEF Shelf!Min
<1>7. ASSUME NEW x \in Shelf!Free(S, f) PROVE Shelf!Min(T) # n + 1
  <2>1. PICK m : m = Shelf!Min(T)
    OBVIOUS
  <2>2. x \in Nat /\ m <= x /\ x <= n /\ m \in Nat
    BY <1>3, <1>4, <1>6, <1>7, <2>1
  <2>3. m # n + 1
    BY <2>2
  <2> QED
    BY <2>1, <2>3
<1> QED
  BY <1>3, <1>4, <1>5, <1>6, <1>7

-----------------------------------------------------------------------------
(* Whatever else is under way *)

AVariant(x) == x = [product |-> x.product, isDefault |-> x.isDefault, shown |-> x.shown]

\* Variants are of products that are there, and have their content.
ShelfTable ==
  /\ variants = [v \in DOMAIN variants |-> variants[v]]
  /\ DOMAIN contents = DOMAIN variants
  /\ \A v \in DOMAIN variants : AVariant(variants[v]) /\ variants[v].product \in DOMAIN products

ShelfJobFits(l, j) ==
  /\ l \in {"clear default", "save variant"} => AVariant(j.row) /\ j.row.product = j.product
  /\ l = "insert variant" => DOMAIN j.copies = {1}

ShelfJobs == \A r \in Requests : ShelfJobFits(pc[r], job[r])

ShelfInv == Slots /\ ShelfTable /\ ShelfJobs

\* The slot r goes on to the step l with j.
GoesTo(r, l, j) == pc' = [pc EXCEPT ![r] = l] /\ job' = [job EXCEPT ![r] = j]

CopySteps == {"insert copy", "insert variant", "read content"}

\* A step that leaves the variants, and which products there are.
Aside(r) ==
  /\ \E l, j : GoesTo(r, l, j) /\ l \notin {"clear default", "save variant", "insert variant"}
  /\ DOMAIN products' = DOMAIN products /\ DOMAIN contents' = DOMAIN contents
  /\ UNCHANGED <<variants, byHand>>
  /\ pc[r] \in CopySteps => UNCHANGED <<products, contents>>

LEMMA ShelfBegins == ShelfStart => ShelfInv
<1> SUFFICES ASSUME ShelfStart PROVE ShelfInv
  OBVIOUS
<1>1. Slots /\ ShelfJobs
  BY DEF ShelfStart, Quiet, Slots, ShelfJobs, ShelfJobFits
<1>2. /\ products = [p \in {1} |-> "DangBan"]
      /\ variants = [v \in {1, 2} |-> [product |-> 1, isDefault |-> v = 1, shown |-> TRUE]]
      /\ DOMAIN contents = {1, 2}
  BY DEF ShelfStart, Shelf!ProductsInit
<1>3. ShelfTable
  BY <1>2 DEF ShelfTable, AVariant
<1> QED
  BY <1>1, <1>3 DEF ShelfInv

\* How each handler moves its slot.
LEMMA Moves ==
  ASSUME Slots, NEW r \in Requests
  PROVE  /\ \A l, j : Shelf!Begin(r, l, j) => GoesTo(r, l, j) /\ pc[r] = "idle"
         /\ \A l, j : Shelf!Continue(r, l, j) => GoesTo(r, l, j)
         /\ Shelf!Finish(r) => GoesTo(r, "idle", <<>>)
         /\ Shelf!AtOnce(r) => GoesTo(r, "idle", job[r]) /\ pc[r] = "idle"
<1>1. Shelf!AtOnce(r) => GoesTo(r, "idle", job[r]) /\ pc[r] = "idle"
  <2> SUFFICES ASSUME Shelf!AtOnce(r) PROVE GoesTo(r, "idle", job[r]) /\ pc[r] = "idle"
    OBVIOUS
  <2>1. pc[r] = "idle" /\ pc' = pc /\ job' = job
    BY DEF Shelf!AtOnce
  <2>2. pc = [pc EXCEPT ![r] = pc[r]] /\ job = [job EXCEPT ![r] = job[r]]
    BY DEF Slots
  <2> QED
    BY <2>1, <2>2 DEF GoesTo
<1> QED
  BY <1>1 DEF Shelf!Begin, Shelf!Continue, Shelf!Finish, GoesTo

\* Products, the content of variants and brands: handlers that leave the variants.
LEMMA AsideOfProducts ==
  ASSUME Slots, NEW r \in Requests,
         \/ Shelf!ClearBrands(r) \/ Shelf!AddBrands(r) \/ Shelf!InsertPart(r)
                \/ Shelf!ReadContent(r) \/ Shelf!Copy(r)
         \/ Shelf!SaveBrand(r) \/ Shelf!DeleteBrand(r) \/ Shelf!Abandon(r)
  PROVE  Aside(r)
<1>1. CASE Shelf!ClearBrands(r)
  <2>1. /\ \E l, j : GoesTo(r, l, j) /\ l \in {"add brands", "idle", "read content"}
        /\ pc[r] = "clear brands" /\ UNCHANGED <<products, variants, contents, byHand>>
    <3>1. pc[r] = "clear brands" /\ UNCHANGED <<products, variants, contents, byHand>>
      BY <1>1 DEF Shelf!ClearBrands
    <3>2. Shelf!Continue(r, "add brands", job[r]) \/ Shelf!Finish(r)
            \/ Shelf!Continue(r, "read content", job[r])
      BY <1>1 DEF Shelf!ClearBrands, Shelf!AfterBrands
    <3>3. PICK j : j = job[r]
      OBVIOUS
    <3> QED
      BY <3>1, <3>2, <3>3, Moves
  <2> QED
    BY <2>1 DEF Aside, CopySteps
<1>2. CASE Shelf!AddBrands(r)
  <2>1. /\ pc[r] = "add brands" /\ Shelf!AfterBrands(r)
        /\ UNCHANGED <<products, variants, contents, byHand>>
    BY <1>2 DEF Shelf!AddBrands
  <2>2. \E l, j : GoesTo(r, l, j) /\ l \in {"idle", "read content"}
    BY <2>1, Moves DEF Shelf!AfterBrands
  <2> QED
    BY <2>1, <2>2 DEF Aside, CopySteps
<1>3. CASE Shelf!InsertPart(r)
  <2>1. /\ pc[r] = "insert part" /\ Shelf!Finish(r) /\ DOMAIN contents' = DOMAIN contents
        /\ UNCHANGED <<products, variants, byHand>>
    BY <1>3 DEF Shelf!InsertPart
  <2>2. \E l, j : GoesTo(r, l, j) /\ l \notin {"clear default", "save variant", "insert variant"}
    BY <2>1, Moves
  <2> QED
    BY <2>1, <2>2 DEF Aside, CopySteps
<1>4. CASE Shelf!ReadContent(r)
  <2>1. /\ \E j : Shelf!Continue(r, "copy", j)
        /\ UNCHANGED <<products, variants, contents, byHand>>
    BY <1>4 DEF Shelf!ReadContent
  <2>2. \E l, j : GoesTo(r, l, j) /\ l \notin {"clear default", "save variant", "insert variant"}
    <3>1. PICK j : Shelf!Continue(r, "copy", j)
      BY <2>1
    <3>2. GoesTo(r, "copy", j)
      BY <3>1, Moves
    <3> WITNESS "copy", j
    <3> QED
      BY <3>2
  <2> QED
    BY <2>1, <2>2 DEF Aside
<1>5. CASE Shelf!Copy(r)
  <2>1. /\ pc[r] = "copy" /\ UNCHANGED <<products, variants, byHand>>
        /\ DOMAIN contents' = DOMAIN contents
    BY <1>5 DEF Shelf!Copy, Shelf!auxiliary
  <2>2. Shelf!Finish(r) \/ \E j : Shelf!Continue(r, "copy", j)
    BY <1>5 DEF Shelf!Copy
  <2>3. \E l, j : GoesTo(r, l, j) /\ l \notin {"clear default", "save variant", "insert variant"}
    <3>1. CASE Shelf!Finish(r)
      BY <3>1, Moves
    <3>2. CASE \E j : Shelf!Continue(r, "copy", j)
      <4>1. PICK j : Shelf!Continue(r, "copy", j)
        BY <3>2
      <4>2. GoesTo(r, "copy", j)
        BY <4>1, Moves
      <4> WITNESS "copy", j
      <4> QED
        BY <4>2
    <3> QED
      BY <2>2, <3>1, <3>2
  <2> QED
    BY <2>1, <2>3 DEF Aside, CopySteps
<1>6. CASE Shelf!SaveBrand(r) \/ Shelf!DeleteBrand(r)
  <2>1. /\ pc[r] \in {"save brand", "delete brand"} /\ Shelf!Finish(r)
        /\ UNCHANGED <<products, variants, contents, byHand>>
    BY <1>6 DEF Shelf!SaveBrand, Shelf!DeleteBrand, Shelf!auxiliary
  <2>2. \E l, j : GoesTo(r, l, j) /\ l \notin {"clear default", "save variant", "insert variant"}
    BY <2>1, Moves
  <2> QED
    BY <2>1, <2>2 DEF Aside
<1>7. CASE Shelf!Abandon(r)
  <2>1. Shelf!Finish(r) /\ UNCHANGED <<products, variants, contents, byHand>>
    BY <1>7 DEF Shelf!Abandon, Shelf!GiveUp
  <2>2. \E l, j : GoesTo(r, l, j) /\ l \notin {"clear default", "save variant", "insert variant"}
    BY <2>1, Moves
  <2> QED
    BY <2>1, <2>2 DEF Aside
<1> QED
  BY <1>1, <1>2, <1>3, <1>4, <1>5, <1>6, <1>7

LEMMA AsideOfUpdates ==
  ASSUME Slots, NEW r \in Requests, NEW p \in DOMAIN products, Shelf!Update(r, p)
  PROVE  Aside(r)
<1>1. /\ Shelf!AtOnce(r) \/ \E j : Shelf!Begin(r, "clear brands", j)
      /\ UNCHANGED <<variants, contents, byHand>>
  BY DEF Shelf!Update, Shelf!auxiliary
<1>2. DOMAIN products' = DOMAIN products
  BY DEF Shelf!Update, Shelf!With
<1>3. pc[r] = "idle" /\ \E l, j : GoesTo(r, l, j) /\ l \in {"idle", "clear brands"}
  BY <1>1, Moves
<1> QED
  BY <1>1, <1>2, <1>3 DEF Aside, CopySteps

LEMMA AsideOfReads ==
  ASSUME Slots, NEW r \in Requests, NEW p \in DOMAIN products,
         Shelf!RemoveProduct(r, p) \/ Shelf!CloneProduct(r, p)
  PROVE  Aside(r)
<1>1. /\ \E l, j : Shelf!Begin(r, l, j) /\ l \in {"delete product", "insert copy"}
      /\ UNCHANGED <<products, variants, byHand>> /\ DOMAIN contents' = DOMAIN contents
  <2>1. CASE Shelf!RemoveProduct(r, p)
    BY <2>1 DEF Shelf!RemoveProduct, Shelf!auxiliary
  <2>2. CASE Shelf!CloneProduct(r, p)
    BY <2>2 DEF Shelf!CloneProduct, Shelf!productVars, Shelf!auxiliary
  <2> QED
    BY <2>1, <2>2
<1>2. pc[r] = "idle" /\ \E l, j : GoesTo(r, l, j) /\ l \in {"delete product", "insert copy"}
  BY <1>1, Moves
<1> QED
  BY <1>1, <1>2 DEF Aside, CopySteps

LEMMA AsideOfVariants ==
  ASSUME Slots, NEW r \in Requests, NEW v \in DOMAIN variants, NEW part,
         Shelf!RemoveVariant(r, v) \/ Shelf!ClearPart(r, v, part)
  PROVE  Aside(r)
<1>1. /\ \E l, j : Shelf!Begin(r, l, j) /\ l \in {"delete variant", "insert part"}
      /\ UNCHANGED <<products, variants, byHand>> /\ DOMAIN contents' = DOMAIN contents
  <2>1. CASE Shelf!RemoveVariant(r, v)
    BY <2>1 DEF Shelf!RemoveVariant, Shelf!auxiliary
  <2>2. CASE Shelf!ClearPart(r, v, part)
    BY <2>2 DEF Shelf!ClearPart, Shelf!auxiliary
  <2> QED
    BY <2>1, <2>2
<1>2. pc[r] = "idle" /\ \E l, j : GoesTo(r, l, j) /\ l \in {"delete variant", "insert part"}
  BY <1>1, Moves
<1> QED
  BY <1>1, <1>2 DEF Aside, CopySteps

LEMMA AsideOfBrands ==
  ASSUME Slots, NEW r \in Requests, NEW b,
         Shelf!CreateBrand(r, b) \/ Shelf!ChangeBrand(r, b) \/ Shelf!RemoveBrand(r, b)
  PROVE  Aside(r)
<1>1. /\ Shelf!AtOnce(r) \/ (\E l, j : Shelf!Begin(r, l, j) /\ l \in
           {"save brand", "delete brand"})
      /\ UNCHANGED <<products, variants, contents, byHand>>
  BY DEF Shelf!CreateBrand, Shelf!ChangeBrand, Shelf!RemoveBrand, Shelf!productVars,
     Shelf!auxiliary
<1>2. pc[r] = "idle" /\ \E l, j : GoesTo(r, l, j) /\ l \in {"idle", "save brand", "delete brand"}
  BY <1>1, Moves
<1> QED
  BY <1>1, <1>2 DEF Aside, CopySteps

\* What a step aside keeps.
LEMMA AsideKeeps ==
  ASSUME ShelfInv, NEW r \in Requests, Aside(r)
  PROVE  ShelfInv' /\ Shelf!CopiesStayHidden
<1>1. PICK l, j : GoesTo(r, l, j) /\ l \notin {"clear default", "save variant", "insert variant"}
  BY DEF Aside
<1>2. Slots' /\ ShelfJobs'
  BY <1>1 DEF ShelfInv, Slots, ShelfJobs, ShelfJobFits, GoesTo, AVariant
<1>3. ShelfTable'
  BY DEF ShelfInv, ShelfTable, Aside, AVariant
<1>4. \A q \in Requests : q # r => job'[q] = job[q]
  BY <1>1 DEF GoesTo, ShelfInv, Slots
<1>5. pc[r] \in CopySteps => Shelf!AddsHiddenOnly
  BY DEF Aside, Shelf!AddsHiddenOnly, Shelf!Published
<1> QED
  BY <1>2, <1>3, <1>4, <1>5 DEF ShelfInv, Shelf!CopiesStayHidden, CopySteps

\* Variants are written, or a product goes: hidden ones are added if copies are written.
LEMMA WriteKeeps ==
  ASSUME ShelfInv, NEW r \in Requests, NEW l, NEW j, GoesTo(r, l, j), ShelfJobFits(l, j),
         ShelfTable', pc[r] \in CopySteps => Shelf!AddsHiddenOnly
  PROVE  ShelfInv' /\ Shelf!CopiesStayHidden
<1>1. Slots' /\ \A q \in Requests : IF q = r THEN pc'[q] = l /\ job'[q] = j
                                    ELSE pc'[q] = pc[q] /\ job'[q] = job[q]
  BY DEF ShelfInv, Slots, GoesTo
<1>2. ShelfJobs'
  BY <1>1 DEF ShelfInv, ShelfJobs, ShelfJobFits, AVariant
<1> QED
  BY <1>1, <1>2 DEF ShelfInv, Shelf!CopiesStayHidden, CopySteps

\* New rows that are hidden and not the default, or of a product that is not on sale.
LEMMA HiddenRowsOnly ==
  ASSUME NEW new, new \cap DOMAIN variants = {}, DOMAIN variants' = DOMAIN variants \cup new,
         \A v \in new : variants'[v].product \in DOMAIN products
                          => ~variants'[v].shown /\ ~variants'[v].isDefault,
         \A v \in DOMAIN variants : variants'[v] = variants[v] /\ contents'[v] = contents[v],
         \A p \in DOMAIN products : p \in DOMAIN products' /\ products'[p] = products[p],
         \A p \in DOMAIN products' \ DOMAIN products : products'[p] # "DangBan"
  PROVE  Shelf!AddsHiddenOnly
<1>1. Shelf!Published' = Shelf!Published
  BY DEF Shelf!Published
<1>2. ASSUME NEW v \in DOMAIN variants', v \notin DOMAIN variants,
             variants'[v].product \in Shelf!Published
      PROVE  ~variants'[v].shown /\ ~variants'[v].isDefault
  BY <1>2 DEF Shelf!Published
<1> QED
  BY <1>1, <1>2 DEF Shelf!AddsHiddenOnly

LEMMA ShelfStep ==
  ASSUME ShelfInv, [Shelf!Next]_shelfVars, Numbered(VariantIds)
  PROVE  ShelfInv' /\ Shelf!CopiesStayHidden
<1> USE DEF ShelfInv
<1>1. ASSUME NEW r \in Requests, Shelf!Create(r) PROVE ShelfInv' /\ Shelf!CopiesStayHidden
  <2> DEFINE p == Shelf!FirstFree(ProductIds, products)
             first == Shelf!FirstFree(VariantIds, variants)
  <2>1. PICK status \in Shelf!Status, flags \in {<<>>} \cup [1..2 -> BOOLEAN],
          brands \in SUBSET Brands :
          LET new == {first + n - 1 : n \in DOMAIN flags} IN
          /\ new \subseteq Shelf!Free(VariantIds, variants)
          /\ products' = Shelf!With(products, p, status)
          /\ variants' = [v \in DOMAIN variants \cup new |->
               IF v \in new
               THEN [product |-> p, isDefault |-> Shelf!Marked(flags)[v - first + 1], shown |-> TRUE]
               ELSE variants[v]]
          /\ contents' = [v \in DOMAIN variants' |-> IF v \in
                 new THEN Shelf!NoContent ELSE contents[v]]
          /\ IF brands = {} THEN Shelf!AtOnce(r)
             ELSE Shelf!Begin(r, "clear brands", [product |-> p, brands |-> brands, copies |-> <<>>])
    BY <1>1 DEF Shelf!Create
  <2> DEFINE new == {first + n - 1 : n \in DOMAIN flags}
  <2>2. /\ new \subseteq Shelf!Free(VariantIds, variants)
        /\ products' = Shelf!With(products, p, status)
        /\ variants' = [v \in DOMAIN variants \cup new |->
             IF v \in new
             THEN [product |-> p, isDefault |-> Shelf!Marked(flags)[v - first + 1], shown |-> TRUE]
             ELSE variants[v]]
        /\ contents' = [v \in DOMAIN variants' |-> IF v \in
               new THEN Shelf!NoContent ELSE contents[v]]
        /\ IF brands = {} THEN Shelf!AtOnce(r)
           ELSE Shelf!Begin(r, "clear brands", [product |-> p, brands |-> brands, copies |-> <<>>])
    BY <2>1
  <2> HIDE DEF p, first, new
  <2>3. DOMAIN products' = DOMAIN products \cup {p}
    BY <2>2 DEF Shelf!With
  <2>4. new \cap DOMAIN variants = {}
    BY <2>2 DEF Shelf!Free
  <2>5. /\ DOMAIN variants' = DOMAIN variants \cup new
        /\ variants' = [v \in DOMAIN variants' |-> variants'[v]]
        /\ DOMAIN contents' = DOMAIN variants'
        /\ \A v \in DOMAIN variants : variants'[v] = variants[v]
    BY <2>2, <2>4
  <2>6. ASSUME NEW v \in new PROVE AVariant(variants'[v]) /\ variants'[v].product = p
    <3>1. PICK yes : yes = Shelf!Marked(flags)[v - first + 1]
      OBVIOUS
    <3>2. variants'[v] = [product |-> p, isDefault |-> yes, shown |-> TRUE]
      BY <2>2, <2>5, <3>1
    <3> QED
      BY <3>2 DEF AVariant
  <2>7. ShelfTable'
    BY <2>3, <2>5, <2>6 DEF ShelfTable, AVariant
  <2>8. pc[r] = "idle" /\ \E l, j : GoesTo(r, l, j) /\ l \in {"idle", "clear brands"}
    <3>1. CASE Shelf!AtOnce(r)
      BY <3>1, Moves
    <3>2. CASE \E j : Shelf!Begin(r, "clear brands", j)
      BY <3>2, Moves
    <3> QED
      BY <2>2, <3>1, <3>2, Zenon
  <2>9. PICK l, j : GoesTo(r, l, j) /\ l \in {"idle", "clear brands"}
    BY <2>8
  <2>10. ShelfJobFits(l, j) /\ pc[r] \notin CopySteps
    BY <2>8, <2>9 DEF ShelfJobFits, CopySteps
  <2> QED
    BY <2>7, <2>9, <2>10, WriteKeeps
<1>2. ASSUME NEW r \in Requests, Shelf!DeleteProduct(r) PROVE ShelfInv' /\ Shelf!CopiesStayHidden
  <2>1. PICK p : p = job[r].product
    OBVIOUS
  <2>2. /\ pc[r] = "delete product" /\ Shelf!Finish(r)
        /\ \/ /\ products' = [q \in DOMAIN products \ {p} |-> products[q]]
              /\ variants' = [v \in DOMAIN variants \ Shelf!VariantsOf(p) |-> variants[v]]
              /\ contents' = [v \in DOMAIN contents \ Shelf!VariantsOf(p) |-> contents[v]]
           \/ UNCHANGED <<products, variants, contents>>
    BY <1>2, <2>1 DEF Shelf!DeleteProduct, Shelf!Without
  <2>3. ShelfTable'
    <3>1. CASE UNCHANGED <<products, variants, contents>>
      BY <3>1 DEF ShelfTable, AVariant
    <3>2. CASE /\ products' = [q \in DOMAIN products \ {p} |-> products[q]]
               /\ variants' = [v \in DOMAIN variants \ Shelf!VariantsOf(p) |-> variants[v]]
               /\ contents' = [v \in DOMAIN contents \ Shelf!VariantsOf(p) |-> contents[v]]
      BY <3>2 DEF ShelfTable, AVariant, Shelf!VariantsOf
    <3> QED
      BY <2>2, <3>1, <3>2
  <2>4. GoesTo(r, "idle", <<>>) /\ ShelfJobFits("idle", <<>>) /\ pc[r] \notin CopySteps
    BY <2>2, Moves DEF ShelfJobFits, CopySteps
  <2> QED
    BY <2>3, <2>4, WriteKeeps
<1>3. ASSUME NEW r \in Requests, NEW p \in DOMAIN products, Shelf!AddVariant(r, p)
      PROVE  ShelfInv' /\ Shelf!CopiesStayHidden
  <2>1. PICK l, j :
          /\ Shelf!Begin(r, l, j) /\ l \in {"clear default", "save variant"}
          /\ AVariant(j.row) /\ j.row.product = j.product /\ UNCHANGED Shelf!productVars
    <3>1. PICK isDefault :
            Shelf!Begin(r, IF isDefault THEN "clear default" ELSE "save variant",
              [product |-> p, variant |-> Shelf!FirstFree(VariantIds, variants), settles |-> isDefault,
               row |-> [product |-> p, isDefault |-> isDefault, shown |-> TRUE]])
      BY <1>3 DEF Shelf!AddVariant
    <3>2. PICK j : j = [product |-> p, variant |-> Shelf!FirstFree(VariantIds, variants),
                        settles |-> isDefault,
                        row |-> [product |-> p, isDefault |-> isDefault, shown |-> TRUE]]
      OBVIOUS
    <3>3. PICK l : l = IF isDefault THEN "clear default" ELSE "save variant"
      OBVIOUS
    <3>4. AVariant(j.row) /\ j.row.product = j.product
      BY <3>2 DEF AVariant
    <3>5. Shelf!Begin(r, l, j) /\ l \in {"clear default",
            "save variant"} /\ UNCHANGED Shelf!productVars
      BY <1>3, <3>1, <3>2, <3>3 DEF Shelf!AddVariant
    <3> QED
      BY <3>4, <3>5
  <2>2. ShelfTable'
    BY <2>1 DEF Shelf!productVars, ShelfTable, AVariant
  <2>3. GoesTo(r, l, j) /\ ShelfJobFits(l, j) /\ pc[r] \notin CopySteps
    BY <2>1, Moves DEF ShelfJobFits, CopySteps
  <2> QED
    BY <2>2, <2>3, WriteKeeps
<1>4. ASSUME NEW r \in Requests, NEW v \in DOMAIN variants, Shelf!SetDefaultVariant(r, v)
             \/ Shelf!UpdateVariant(r, v)
      PROVE  ShelfInv' /\ Shelf!CopiesStayHidden
  <2>1. PICK row : row = variants[v]
    OBVIOUS
  <2>2. AVariant(row)
    BY <2>1 DEF ShelfTable
  <2>3. PICK l, j :
          /\ Shelf!Begin(r, l, j) /\ l \in {"clear default", "save variant"}
          /\ AVariant(j.row) /\ j.row.product = j.product
          /\ UNCHANGED <<products, variants, contents>>
    <3>1. CASE Shelf!SetDefaultVariant(r, v)
      <4>1. PICK yes : yes = TRUE
        OBVIOUS
      <4>2. PICK j : j = [product |-> row.product, variant |-> v, settles |-> TRUE,
                          row |-> [row EXCEPT !.isDefault = yes]]
        OBVIOUS
      <4>3. Shelf!Begin(r, "clear default", j) /\ UNCHANGED <<products, variants, contents>>
        BY <2>1, <3>1, <4>1, <4>2 DEF Shelf!SetDefaultVariant, Shelf!productVars
      <4>4. AVariant(j.row) /\ j.row.product = j.product
        BY <2>2, <4>2 DEF AVariant
      <4> QED
        BY <4>3, <4>4
    <3>2. CASE Shelf!UpdateVariant(r, v)
      <4>1. PICK isDefault, shown :
              Shelf!Begin(r, "save variant",
                [product |-> row.product, variant |-> v, settles |-> FALSE,
                 row |-> [row EXCEPT !.isDefault = isDefault, !.shown = shown]])
        BY <2>1, <3>2 DEF Shelf!UpdateVariant
      <4>2. PICK j : j = [product |-> row.product, variant |-> v, settles |-> FALSE,
                          row |-> [row EXCEPT !.isDefault = isDefault, !.shown = shown]]
        OBVIOUS
      <4>3. Shelf!Begin(r, "save variant", j) /\ UNCHANGED <<products, variants, contents>>
        BY <3>2, <4>1, <4>2 DEF Shelf!UpdateVariant
      <4>4. AVariant(j.row) /\ j.row.product = j.product
        BY <2>2, <4>2 DEF AVariant
      <4> QED
        BY <4>3, <4>4
    <3> QED
      BY <1>4, <3>1, <3>2
  <2>4. ShelfTable'
    BY <2>3 DEF ShelfTable, AVariant
  <2>5. GoesTo(r, l, j) /\ ShelfJobFits(l, j) /\ pc[r] \notin CopySteps
    BY <2>3, Moves DEF ShelfJobFits, CopySteps
  <2> QED
    BY <2>4, <2>5, WriteKeeps
<1>5. ASSUME NEW r \in Requests, Shelf!ClearDefault(r) PROVE ShelfInv' /\ Shelf!CopiesStayHidden
  <2>1. PICK p, j : p = job[r].product /\ j = job[r]
    OBVIOUS
  <2>2. /\ pc[r] = "clear default" /\ Shelf!Continue(r, "save variant", j)
        /\ variants' = [v \in DOMAIN variants |->
             IF v \in Shelf!VariantsOf(p) THEN [variants[v] EXCEPT !.isDefault =
                 FALSE] ELSE variants[v]]
        /\ UNCHANGED <<products, contents>>
    BY <1>5, <2>1 DEF Shelf!ClearDefault, Shelf!NotDefault
  <2>3. ASSUME NEW v \in DOMAIN variants
        PROVE  AVariant(variants'[v]) /\ variants'[v].product = variants[v].product
    <3>1. PICK row, no : row = variants[v] /\ no = FALSE
      OBVIOUS
    <3>2. AVariant(row)
      BY <3>1 DEF ShelfTable
    <3>3. variants'[v] = [row EXCEPT !.isDefault = no] \/ variants'[v] = row
      BY <2>2, <3>1
    <3> QED
      BY <3>1, <3>2, <3>3 DEF AVariant
  <2>4. ShelfTable'
    BY <2>2, <2>3 DEF ShelfTable, AVariant
  <2>5. GoesTo(r, "save variant", j) /\ ShelfJobFits("save variant", j) /\ pc[r] \notin CopySteps
    BY <2>1, <2>2, Moves DEF ShelfJobs, ShelfJobFits, CopySteps
  <2> QED
    BY <2>4, <2>5, WriteKeeps
<1>6. ASSUME NEW r \in Requests, Shelf!SaveVariant(r) PROVE ShelfInv' /\ Shelf!CopiesStayHidden
  <2>1. PICK v, row : v = job[r].variant /\ row = job[r].row
    OBVIOUS
  <2>2. PICK content :
          /\ pc[r] = "save variant" /\ job[r].product \in DOMAIN products /\ Shelf!Finish(r)
          /\ variants' = [i \in DOMAIN variants \cup {v} |-> IF i = v THEN row ELSE variants[i]]
          /\ contents' = [i \in DOMAIN contents \cup {v} |-> IF i =
                 v THEN content ELSE contents[i]]
          /\ UNCHANGED products
    BY <1>6, <2>1 DEF Shelf!SaveVariant, Shelf!With
  <2>3. AVariant(row) /\ row.product \in DOMAIN products
    BY <2>1, <2>2 DEF ShelfJobs, ShelfJobFits
  <2>4. ShelfTable'
    BY <2>2, <2>3 DEF ShelfTable, AVariant
  <2>5. GoesTo(r, "idle", <<>>) /\ ShelfJobFits("idle", <<>>) /\ pc[r] \notin CopySteps
    BY <2>2, Moves DEF ShelfJobFits, CopySteps
  <2> QED
    BY <2>4, <2>5, WriteKeeps
<1>7. ASSUME NEW r \in Requests, Shelf!DeleteVariant(r) PROVE ShelfInv' /\ Shelf!CopiesStayHidden
  <2>1. PICK v : v = job[r].variant
    OBVIOUS
  <2>2. /\ pc[r] = "delete variant" /\ Shelf!Finish(r) /\ UNCHANGED products
        /\ \/ /\ variants' = [i \in DOMAIN variants \ {v} |-> variants[i]]
              /\ contents' = [i \in DOMAIN contents \ {v} |-> contents[i]]
           \/ UNCHANGED <<variants, contents>>
    BY <1>7, <2>1 DEF Shelf!DeleteVariant, Shelf!Without
  <2>3. ShelfTable'
    <3>1. CASE UNCHANGED <<variants, contents>>
      <4>1. products' = products /\ variants' = variants /\ contents' = contents
        BY <2>2, <3>1
      <4> QED
        BY <4>1 DEF ShelfTable, AVariant
    <3>2. CASE /\ variants' = [i \in DOMAIN variants \ {v} |-> variants[i]]
               /\ contents' = [i \in DOMAIN contents \ {v} |-> contents[i]]
      <4>1. /\ DOMAIN variants' = DOMAIN variants \ {v} /\ DOMAIN contents' = DOMAIN variants'
            /\ variants' = [i \in DOMAIN variants' |-> variants'[i]]
            /\ \A i \in DOMAIN variants' : variants'[i] = variants[i]
        BY <3>2 DEF ShelfTable
      <4>2. products' = products
        BY <2>2
      <4> QED
        BY <4>1, <4>2 DEF ShelfTable, AVariant
    <3> QED
      BY <2>2, <3>1, <3>2
  <2>4. GoesTo(r, "idle", <<>>) /\ ShelfJobFits("idle", <<>>) /\ pc[r] \notin CopySteps
    BY <2>2, Moves DEF ShelfJobFits, CopySteps
  <2> QED
    BY <2>3, <2>4, WriteKeeps
<1>8. ASSUME NEW r \in Requests, NEW v \in DOMAIN variants, Shelf!CloneVariant(r, v)
      PROVE  ShelfInv' /\ Shelf!CopiesStayHidden
  <2>1. PICK j : /\ j = [product |-> variants[v].product,
                         copies |-> <<[of |-> v, images |-> contents[v].images]>>]
                 /\ Shelf!Begin(r, "insert variant", j)
                 /\ UNCHANGED <<products, variants, contents>>
    BY <1>8 DEF Shelf!CloneVariant, Shelf!productVars
  <2>2. ShelfTable' /\ DOMAIN j.copies = {1}
    <3>1. products' = products /\ variants' = variants /\ contents' = contents
      BY <2>1
    <3>2. ShelfTable'
      BY <3>1 DEF ShelfTable, AVariant
    <3>3. PICK one : one = [of |-> v, images |-> contents[v].images]
      OBVIOUS
    <3>4. j.copies = <<one>>
      BY <2>1, <3>3
    <3> QED
      BY <3>2, <3>4
  <2>3. GoesTo(r, "insert variant", j) /\ pc[r] = "idle"
    BY <2>1, Moves
  <2>4. ShelfJobFits("insert variant", j) /\ pc[r] \notin CopySteps
    BY <2>2, <2>3 DEF ShelfJobFits, CopySteps
  <2> QED
    BY <2>2, <2>3, <2>4, WriteKeeps
<1>9. ASSUME NEW r \in Requests, Shelf!InsertCopy(r) PROVE ShelfInv' /\ Shelf!CopiesStayHidden
  <2>1. PICK p, rows, first : p = job[r].product /\ rows = job[r].copies
                              /\ first = Shelf!FirstFree(VariantIds, variants)
    OBVIOUS
  <2>2. PICK new : new = {first + n - 1 : n \in DOMAIN rows}
    OBVIOUS
  <2>3. /\ p \notin DOMAIN products /\ new \subseteq Shelf!Free(VariantIds, variants)
        /\ products' = [i \in DOMAIN products \cup {p} |-> IF i = p THEN "Nhap" ELSE products[i]]
        /\ variants' = [v \in DOMAIN variants \cup new |->
             IF v \in DOMAIN variants THEN variants[v]
             ELSE [product |-> p, isDefault |-> TRUE /\ v = first, shown |-> FALSE]]
        /\ contents' = [v \in DOMAIN variants' |-> IF v \in
               new THEN Shelf!NoContent ELSE contents[v]]
    BY <1>9, <2>1, <2>2 DEF Shelf!InsertCopy, Shelf!With, Shelf!Copied
  <2>4. \E j : Shelf!Continue(r, "clear brands", j) \/ Shelf!Continue(r, "read content", j)
          \/ Shelf!Finish(r)
    BY <1>9 DEF Shelf!InsertCopy
  <2>5. \E l, j : GoesTo(r, l, j) /\ l \in {"clear brands", "read content", "idle"}
    BY <2>4, Moves
  <2>6. PICK l, j : GoesTo(r, l, j) /\ l \in {"clear brands", "read content", "idle"}
    BY <2>5
  <2>7. new \cap DOMAIN variants = {} /\ DOMAIN variants' = DOMAIN variants \cup new
        /\ DOMAIN contents' = DOMAIN variants' /\ DOMAIN products' = DOMAIN products \cup {p}
        /\ variants' = [v \in DOMAIN variants' |-> variants'[v]]
    BY <2>3 DEF Shelf!Free
  <2>8. ASSUME NEW v \in new
        PROVE  AVariant(variants'[v]) /\ variants'[v].product = p /\ ~variants'[v].shown
    <3>1. PICK yes : yes = (TRUE /\ v = first)
      OBVIOUS
    <3>2. variants'[v] = [product |-> p, isDefault |-> yes, shown |-> FALSE]
      BY <2>3, <2>7, <3>1
    <3> QED
      BY <3>2 DEF AVariant
  <2>9. \A v \in DOMAIN variants : variants'[v] = variants[v] /\ contents'[v] = contents[v]
    BY <2>3, <2>7
  <2>10. /\ \A q \in DOMAIN products : q \in DOMAIN products' /\ products'[q] = products[q]
         /\ \A q \in DOMAIN products' \ DOMAIN products : products'[q] # "DangBan"
    BY <2>3
  <2>11. ShelfTable'
    BY <2>7, <2>8, <2>9 DEF ShelfTable, AVariant
  <2>12. Shelf!AddsHiddenOnly
    <3>1. \A v \in new : variants'[v].product \notin DOMAIN products
      BY <2>3, <2>8
    <3> QED
      BY <2>7, <2>9, <2>10, <3>1, HiddenRowsOnly
  <2>13. ShelfJobFits(l, j)
    BY <2>6 DEF ShelfJobFits
  <2> QED
    BY <2>6, <2>11, <2>12, <2>13, WriteKeeps
<1>10. ASSUME NEW r \in Requests, Shelf!InsertVariant(r) PROVE ShelfInv' /\ Shelf!CopiesStayHidden
  <2>1. PICK p, rows, first : p = job[r].product /\ rows = job[r].copies
                              /\ first = Shelf!FirstFree(VariantIds, variants)
    OBVIOUS
  <2>2. /\ pc[r] = "insert variant" /\ Shelf!Free(VariantIds, variants) # {}
        /\ p \in DOMAIN products
        /\ variants' = [v \in DOMAIN variants \cup {first + n - 1 : n \in DOMAIN rows} |->
             IF v \in DOMAIN variants THEN variants[v]
             ELSE [product |-> p, isDefault |-> FALSE /\ v = first, shown |-> FALSE]]
        /\ contents' = [i \in DOMAIN contents \cup {first} |->
             IF i = first THEN Shelf!NoContent ELSE contents[i]]
        /\ UNCHANGED products
    BY <1>10, <2>1 DEF Shelf!InsertVariant, Shelf!With, Shelf!Copied
  <2>3. PICK j : Shelf!Continue(r, "read content", j)
    BY <1>10 DEF Shelf!InsertVariant
  <2>4. DOMAIN rows = {1}
    BY <2>1, <2>2 DEF ShelfJobs, ShelfJobFits
  <2>5. first \in Nat /\ first \notin DOMAIN variants
    BY <2>1, <2>2, FirstIsFree DEF Shelf!Free
  <2>6. {first + n - 1 : n \in DOMAIN rows} = {first}
    BY <2>4, <2>5
  <2>7. /\ DOMAIN variants' = DOMAIN variants \cup {first}
        /\ DOMAIN contents' = DOMAIN variants'
        /\ variants' = [v \in DOMAIN variants' |-> variants'[v]]
    BY <2>2, <2>6 DEF ShelfTable
  <2>8. /\ AVariant(variants'[first]) /\ variants'[first].product = p
        /\ ~variants'[first].shown /\ ~variants'[first].isDefault
    <3>1. PICK yes : yes = (FALSE /\ first = first)
      OBVIOUS
    <3>2. variants'[first] = [product |-> p, isDefault |-> yes, shown |-> FALSE]
      BY <2>2, <2>5, <2>6, <3>1
    <3>3. AVariant(variants'[first]) /\ variants'[first].product = p /\ ~variants'[first].shown
      BY <3>2 DEF AVariant
    <3>4. variants'[first].isDefault = yes
      BY <3>2
    <3>5. ~yes
      BY <3>1
    <3> QED
      BY <3>3, <3>4, <3>5
  <2>9. \A v \in DOMAIN variants : variants'[v] = variants[v] /\ contents'[v] = contents[v]
    BY <2>2, <2>5, <2>6 DEF ShelfTable
  <2>10. ShelfTable'
    BY <2>2, <2>7, <2>8, <2>9 DEF ShelfTable, AVariant
  <2>11. Shelf!AddsHiddenOnly
    <3>1. PICK new : new = {first}
      OBVIOUS
    <3>2. /\ new \cap DOMAIN variants = {} /\ DOMAIN variants' = DOMAIN variants \cup new
          /\ \A i \in new : ~variants'[i].shown /\ ~variants'[i].isDefault
      <4>1. \A i \in new : i = first
        BY <3>1
      <4>2. \A i \in new : ~variants'[i].shown /\ ~variants'[i].isDefault
        BY <2>8, <4>1
      <4> QED
        BY <2>5, <2>7, <3>1, <4>2
    <3>3. products' = products
      BY <2>2
    <3> QED
      BY <2>9, <3>2, <3>3, HiddenRowsOnly
  <2>12. GoesTo(r, "read content", j) /\ ShelfJobFits("read content", j)
    BY <2>3, Moves DEF ShelfJobFits
  <2> QED
    BY <2>10, <2>11, <2>12, WriteKeeps
<1>11. ASSUME NEW r \in Requests, NEW p \in DOMAIN products,
              Shelf!Update(r, p) \/ Shelf!RemoveProduct(r, p) \/ Shelf!CloneProduct(r, p)
       PROVE  ShelfInv' /\ Shelf!CopiesStayHidden
  <2>1. Aside(r)
    <3>1. CASE Shelf!Update(r, p)
      BY <3>1, AsideOfUpdates
    <3>2. CASE Shelf!RemoveProduct(r, p) \/ Shelf!CloneProduct(r, p)
      BY <3>2, AsideOfReads
    <3> QED
      BY <1>11, <3>1, <3>2
  <2> QED
    BY <2>1, AsideKeeps
<1>12. ASSUME NEW r \in Requests, NEW v \in DOMAIN variants, NEW part,
              Shelf!RemoveVariant(r, v) \/ Shelf!ClearPart(r, v, part)
       PROVE  ShelfInv' /\ Shelf!CopiesStayHidden
  BY <1>12, AsideOfVariants, AsideKeeps
<1>13. ASSUME NEW r \in Requests, NEW b, Shelf!CreateBrand(r, b) \/ Shelf!ChangeBrand(r, b)
              \/ Shelf!RemoveBrand(r, b)
       PROVE  ShelfInv' /\ Shelf!CopiesStayHidden
  BY <1>13, AsideOfBrands, AsideKeeps
<1>14. ASSUME NEW r \in Requests,
              \/ Shelf!ClearBrands(r) \/ Shelf!AddBrands(r) \/ Shelf!InsertPart(r)
                     \/ Shelf!ReadContent(r) \/ Shelf!Copy(r)
              \/ Shelf!SaveBrand(r) \/ Shelf!DeleteBrand(r) \/ Shelf!Abandon(r)
       PROVE  ShelfInv' /\ Shelf!CopiesStayHidden
  BY <1>14, AsideOfProducts, AsideKeeps
<1>15. CASE UNCHANGED shelfVars
  <2>1. /\ pc' = pc /\ job' = job /\ products' = products /\ variants' = variants
        /\ contents' = contents
    BY <1>15 DEF shelfVars, Shelf!handling, Shelf!productVars
  <2> QED
    BY <2>1 DEF Slots, ShelfTable, ShelfJobs, ShelfJobFits, AVariant, Shelf!CopiesStayHidden
<1> QED
  <2>1. CASE Shelf!Next
    BY <1>1, <1>2, <1>3, <1>4, <1>5, <1>6, <1>7, <1>8, <1>9, <1>10, <1>11, <1>12, <1>13, <1>14,
       <2>1
       DEF Shelf!Next
  <2> QED
    BY <1>15, <2>1

\* Whatever else is under way, the steps that make a copy of a product or a variant put no
\* product on sale and leave the variants there are as they are, and what they add to the
\* page of a product on sale is marked hidden and is not the default.
THEOREM CopiesAreHidden ==
  ASSUME Numbered(VariantIds)
  PROVE  ShelfSpec => [][Shelf!CopiesStayHidden]_shelfVars
<1>1. ShelfStart => ShelfInv
  BY ShelfBegins
<1>2. ShelfInv /\ [Shelf!Next]_shelfVars => ShelfInv' /\ Shelf!CopiesStayHidden
  BY ShelfStep
<1> QED
  BY <1>1, <1>2, PTL DEF ShelfSpec

-----------------------------------------------------------------------------
(* While handlers do not overlap *)

\* No product has two default variants, but those whose defaults were spelled out.
OneEach ==
  \A u, v \in DOMAIN variants :
    /\ variants[u].product = variants[v].product /\ variants[u].product \notin byHand
    /\ variants[u].isDefault /\ variants[v].isDefault
    => u = v

\* What is saved either comes after the others were cleared, or is a default already.
DefaultFits(l, j) ==
  /\ l = "clear default" => j.settles
  /\ l = "save variant" /\ j.settles =>
       \A u \in DOMAIN variants :
         u # j.variant /\ variants[u].product = j.product => ~variants[u].isDefault
  /\ l = "save variant" /\ ~j.settles /\ j.row.isDefault =>
       \/ j.product \in byHand
       \/ /\ j.variant \in DOMAIN variants /\ variants[j.variant].isDefault
          /\ variants[j.variant].product = j.product

DefaultJobs == \A r \in Requests : DefaultFits(pc[r], job[r])

DefaultsInv == ShelfInv /\ OneEach /\ DefaultJobs

\* The only slot goes on to another step.
LEMMA OnlySlot ==
  ASSUME OneAtATime, Slots, NEW r \in Requests, NEW l, NEW j, GoesTo(r, l, j), DefaultFits(l, j)'
  PROVE  DefaultJobs'
<1>1. \A q \in Requests : q = r
  BY DEF OneAtATime
<1>2. pc'[r] = l /\ job'[r] = j
  BY DEF Slots, GoesTo
<1>3. DefaultFits(pc[r], job[r])'
  BY <1>2 DEF DefaultFits
<1> QED
  BY <1>1, <1>3 DEF DefaultJobs

\* Few steps can make a default of a variant.
LEMMA FewerDefaults ==
  ASSUME OneAtATime, DefaultsInv, NEW r \in Requests, NEW l, NEW j, GoesTo(r, l, j),
         l \notin {"clear default", "save variant"},
         byHand \subseteq byHand',
         DOMAIN variants' \subseteq DOMAIN variants,
         \A v \in DOMAIN variants' :
           /\ variants'[v].product = variants[v].product
           /\ variants'[v].isDefault => variants[v].isDefault
  PROVE  OneEach' /\ DefaultJobs'
<1>1. OneEach'
  <2>1. ASSUME NEW u \in DOMAIN variants', NEW v \in DOMAIN variants',
               variants'[u].product = variants'[v].product, variants'[u].product \notin byHand',
               variants'[u].isDefault, variants'[v].isDefault
        PROVE  u = v
    <3>1. u \in DOMAIN variants /\ v \in DOMAIN variants
      OBVIOUS
    <3>2. variants[u].isDefault /\ variants[v].isDefault
      BY <2>1, Zenon
    <3>3. variants[u].product = variants[v].product /\ variants[u].product \notin byHand
      BY <2>1
    <3> QED
      BY <3>1, <3>2, <3>3 DEF DefaultsInv, OneEach
  <2> QED
    BY <2>1 DEF OneEach
<1>2. DefaultFits(l, j)'
  BY DEF DefaultFits
<1>3. DefaultJobs'
  BY <1>2, OnlySlot DEF DefaultsInv, ShelfInv
<1> QED
  BY <1>1, <1>3

LEMMA AsideDefaults ==
  ASSUME OneAtATime, DefaultsInv, NEW r \in Requests, Aside(r)
  PROVE  OneEach' /\ DefaultJobs'
<1>1. PICK l, j : GoesTo(r, l, j) /\ l \notin {"clear default", "save variant"}
  BY DEF Aside
<1>2. variants' = variants /\ byHand' = byHand
  BY DEF Aside
<1> QED
  BY <1>1, <1>2, FewerDefaults

\* A create that spells out one default at most marks one.
LEMMA MarkedIsOne ==
  ASSUME NEW flags \in {<<>>} \cup [1..2 -> BOOLEAN],
         ~(Shelf!Cardinality({n \in DOMAIN flags : flags[n]}) > 1),
         NEW n \in DOMAIN flags, NEW m \in DOMAIN flags, Shelf!Marked(flags)[n],
             Shelf!Marked(flags)[m]
  PROVE  n = m
<1>1. flags \in [1..2 -> BOOLEAN] /\ DOMAIN flags = 1..2 /\ flags # <<>>
  <2>1. DOMAIN <<>> = {}
    OBVIOUS
  <2>2. flags # <<>>
    BY <2>1
  <2> QED
    BY <2>2
<1>2. CASE \A i \in DOMAIN flags : ~flags[i]
  <2>1. Shelf!Marked(flags) = [flags EXCEPT ![1] = TRUE]
    BY <1>1, <1>2 DEF Shelf!Marked
  <2>2. \A i \in DOMAIN flags : i # 1 => ~Shelf!Marked(flags)[i]
    BY <1>1, <1>2, <2>1
  <2> QED
    BY <2>2
<1>3. CASE \E i \in DOMAIN flags : flags[i]
  <2>1. Shelf!Marked(flags) = flags
    BY <1>3 DEF Shelf!Marked
  <2>2. PICK S : S = {i \in DOMAIN flags : flags[i]}
    OBVIOUS
  <2>3. n \in S /\ m \in S /\ S \subseteq 1..2
    BY <1>1, <2>1, <2>2
  <2>4. ASSUME n # m PROVE FALSE
    <3>1. S = 1..2
      BY <2>3, <2>4
    <3>2. PICK two \in Nat : two = 2
      OBVIOUS
    <3>3. Cardinality(1..two) = two
      <4> HIDE <3>2
      <4>1. \A k \in Nat : Cardinality(1..k) = k
        BY FS_Interval
      <4> QED
        BY <4>1
    <3>4. Shelf!Cardinality(S) = 2
      BY <3>1, <3>2, <3>3, VariantsCounted
    <3> QED
      BY <2>2, <3>4
  <2> QED
    BY <2>4
<1> QED
  BY <1>2, <1>3

LEMMA DefaultsBegin == ShelfStart => DefaultsInv
<1> SUFFICES ASSUME ShelfStart PROVE DefaultsInv
  OBVIOUS
<1>1. ShelfInv
  BY ShelfBegins
<1>2. DefaultJobs
  BY DEF ShelfStart, Quiet, DefaultJobs, DefaultFits
<1>3. variants = [v \in {1, 2} |-> [product |-> 1, isDefault |-> v = 1, shown |-> TRUE]]
  BY DEF ShelfStart, Shelf!ProductsInit
<1>4. \A v \in DOMAIN variants : variants[v].isDefault => v = 1
  BY <1>3
<1>5. OneEach
  BY <1>4 DEF OneEach
<1> QED
  BY <1>1, <1>2, <1>5 DEF DefaultsInv

LEMMA DefaultsStep ==
  ASSUME DefaultsInv, [Shelf!Next]_shelfVars, OneAtATime, Numbered(VariantIds),
         Numbered(ProductIds)
  PROVE  DefaultsInv'
<1> USE DEF DefaultsInv, ShelfInv
<1>0. ShelfInv'
  BY ShelfStep
<1>1. ASSUME NEW r \in Requests, Shelf!Create(r) PROVE OneEach' /\ DefaultJobs'
  <2> DEFINE p == Shelf!FirstFree(ProductIds, products)
             first == Shelf!FirstFree(VariantIds, variants)
  <2>1. PICK status \in Shelf!Status, flags \in {<<>>} \cup [1..2 -> BOOLEAN],
          brands \in SUBSET Brands :
          LET new == {first + n - 1 : n \in DOMAIN flags} IN
          /\ variants' = [v \in DOMAIN variants \cup new |->
               IF v \in new
               THEN [product |-> p, isDefault |-> Shelf!Marked(flags)[v - first + 1], shown |-> TRUE]
               ELSE variants[v]]
          /\ byHand' = IF Shelf!Cardinality({n \in DOMAIN flags : flags[n]}) > 1
                       THEN byHand \cup {p} ELSE byHand
          /\ IF brands = {} THEN Shelf!AtOnce(r)
             ELSE Shelf!Begin(r, "clear brands", [product |-> p, brands |-> brands, copies |-> <<>>])
    BY <1>1 DEF Shelf!Create, Shelf!Cardinality
  <2> DEFINE new == {first + n - 1 : n \in DOMAIN flags}
  <2>2. /\ variants' = [v \in DOMAIN variants \cup new |->
             IF v \in new
             THEN [product |-> p, isDefault |-> Shelf!Marked(flags)[v - first + 1], shown |-> TRUE]
             ELSE variants[v]]
        /\ byHand' = IF Shelf!Cardinality({n \in DOMAIN flags : flags[n]}) > 1
                     THEN byHand \cup {p} ELSE byHand
        /\ IF brands = {} THEN Shelf!AtOnce(r)
           ELSE Shelf!Begin(r, "clear brands", [product |-> p, brands |-> brands, copies |-> <<>>])
    BY <2>1
  <2>3. first \in Nat /\ p \notin DOMAIN products
    <3>1. Shelf!Free(ProductIds, products) # {}
      BY <1>1 DEF Shelf!Create
    <3> QED
      BY <3>1, FirstIsFree DEF Shelf!Free
  <2>4. \A v \in new : \E n \in DOMAIN flags : v = first + n - 1
    OBVIOUS
  <2> HIDE DEF p, first, new
  <2>5. ASSUME NEW v \in new
        PROVE  /\ v \in DOMAIN variants' /\ variants'[v].product = p
               /\ v - first + 1 \in DOMAIN flags /\ v \in Int
               /\ variants'[v].isDefault = Shelf!Marked(flags)[v - first + 1]
    <3>1. PICK yes : yes = Shelf!Marked(flags)[v - first + 1]
      OBVIOUS
    <3>2. variants'[v] = [product |-> p, isDefault |-> yes, shown |-> TRUE] /\ v \in
            DOMAIN variants'
      BY <2>2, <3>1
    <3>3. PICK n \in DOMAIN flags : v = first + n - 1
      BY <2>4
    <3>4. n \in Int
      BY DOMAIN <<>> = {}
    <3>5. v - first + 1 = n /\ v \in Int
      BY <2>3, <3>3, <3>4
    <3> QED
      BY <3>1, <3>2, <3>3, <3>5
  <2>6. \A v \in DOMAIN variants' \ new :
          v \in DOMAIN variants /\ variants'[v] = variants[v] /\ variants[v].product # p
    BY <2>2, <2>3 DEF ShelfTable
  <2>7. ASSUME NEW u \in DOMAIN variants', NEW v \in DOMAIN variants',
               variants'[u].product = variants'[v].product, variants'[u].product \notin byHand',
               variants'[u].isDefault, variants'[v].isDefault
        PROVE  u = v
    <3>1. CASE u \in new
      <4>1. v \in new /\ variants'[u].product = p
        BY <2>5, <2>6, <2>7, <3>1
      <4>2. ~(Shelf!Cardinality({n \in DOMAIN flags : flags[n]}) > 1)
        BY <2>2, <2>7, <4>1
      <4>3. Shelf!Marked(flags)[u - first + 1] /\ Shelf!Marked(flags)[v - first + 1]
        BY <2>5, <2>7, <3>1, <4>1
      <4>4. u - first + 1 \in DOMAIN flags /\ v - first + 1 \in DOMAIN flags /\ u \in Int /\ v \in
              Int
        BY <2>5, <3>1, <4>1
      <4>5. u - first + 1 = v - first + 1
        BY <4>2, <4>3, <4>4, MarkedIsOne
      <4> QED
        BY <2>3, <4>4, <4>5
    <3>2. CASE u \notin new
      <4>1. v \notin new /\ u \in DOMAIN variants /\ v \in DOMAIN variants
        BY <2>5, <2>6, <2>7, <3>2
      <4>2. variants'[u] = variants[u] /\ variants'[v] = variants[v] /\ byHand \subseteq byHand'
        BY <2>2, <2>6, <3>2, <4>1
      <4> QED
        BY <2>7, <4>1, <4>2 DEF OneEach
    <3> QED
      BY <3>1, <3>2
  <2>8. OneEach'
    BY <2>7 DEF OneEach
  <2>9. PICK l, j : GoesTo(r, l, j) /\ l \in {"idle", "clear brands"}
    <3>1. CASE Shelf!AtOnce(r)
      BY <3>1, Moves
    <3>2. CASE \E j : Shelf!Begin(r, "clear brands", j)
      BY <3>2, Moves
    <3> QED
      BY <2>2, <3>1, <3>2, Zenon
  <2>10. DefaultFits(l, j)'
    BY <2>9 DEF DefaultFits
  <2> QED
    BY <2>8, <2>9, <2>10, OnlySlot
<1>2. ASSUME NEW r \in Requests, Shelf!DeleteProduct(r) PROVE OneEach' /\ DefaultJobs'
  <2>1. PICK p : p = job[r].product
    OBVIOUS
  <2>2. /\ Shelf!Finish(r)
        /\ \/ /\ variants' = [v \in DOMAIN variants \ Shelf!VariantsOf(p) |-> variants[v]]
              /\ byHand' = byHand \ {p}
           \/ UNCHANGED <<variants, byHand>>
    BY <1>2, <2>1 DEF Shelf!DeleteProduct, Shelf!Without
  <2>3. OneEach'
    <3>1. CASE UNCHANGED <<variants, byHand>>
      BY <3>1 DEF OneEach
    <3>2. CASE /\ variants' = [v \in DOMAIN variants \ Shelf!VariantsOf(p) |-> variants[v]]
               /\ byHand' = byHand \ {p}
      <4>1. \A v \in DOMAIN variants' :
              v \in DOMAIN variants /\ variants'[v] = variants[v] /\ variants[v].product # p
        BY <3>2 DEF Shelf!VariantsOf
      <4> QED
        BY <3>2, <4>1 DEF OneEach
    <3> QED
      BY <2>2, <3>1, <3>2
  <2>4. GoesTo(r, "idle", <<>>) /\ DefaultFits("idle", <<>>)'
    BY <2>2, Moves DEF DefaultFits
  <2> QED
    BY <2>3, <2>4, OnlySlot
<1>3. ASSUME NEW r \in Requests, NEW p \in DOMAIN products, Shelf!AddVariant(r, p)
      PROVE  OneEach' /\ DefaultJobs'
  <2>1. PICK isDefault :
          Shelf!Begin(r, IF isDefault THEN "clear default" ELSE "save variant",
            [product |-> p, variant |-> Shelf!FirstFree(VariantIds, variants), settles |-> isDefault,
             row |-> [product |-> p, isDefault |-> isDefault, shown |-> TRUE]])
    BY <1>3 DEF Shelf!AddVariant
  <2>2. PICK j : j = [product |-> p, variant |-> Shelf!FirstFree(VariantIds, variants),
                      settles |-> isDefault,
                      row |-> [product |-> p, isDefault |-> isDefault, shown |-> TRUE]]
    OBVIOUS
  <2>3. PICK l : l = IF isDefault THEN "clear default" ELSE "save variant"
    OBVIOUS
  <2>4. GoesTo(r, l, j)
    BY <2>1, <2>2, <2>3, Moves
  <2>5. variants' = variants /\ byHand' = byHand
    BY <1>3 DEF Shelf!AddVariant, Shelf!productVars, Shelf!auxiliary
  <2>6. j.settles = isDefault /\ j.row.isDefault = isDefault
    BY <2>2
  <2>7. DefaultFits(l, j)'
    BY <2>3, <2>6 DEF DefaultFits
  <2>8. OneEach'
    BY <2>5 DEF OneEach
  <2> QED
    BY <2>4, <2>7, <2>8, OnlySlot
<1>4. ASSUME NEW r \in Requests, NEW v \in DOMAIN variants, Shelf!SetDefaultVariant(r, v)
      PROVE  OneEach' /\ DefaultJobs'
  <2>1. PICK j : Shelf!Begin(r, "clear default", j) /\ j.settles
    <3>1. PICK row :
            Shelf!Begin(r, "clear default", [product |-> variants[v].product, variant |-> v,
                                               settles |-> TRUE, row |-> row])
      BY <1>4 DEF Shelf!SetDefaultVariant
    <3>2. PICK p : p = variants[v].product
      OBVIOUS
    <3>3. PICK j : j = [product |-> p, variant |-> v, settles |-> TRUE, row |-> row]
      OBVIOUS
    <3>4. Shelf!Begin(r, "clear default", j) /\ j.settles
      BY <3>1, <3>2, <3>3
    <3> QED
      BY <3>4
  <2>2. variants' = variants /\ byHand' = byHand
    BY <1>4 DEF Shelf!SetDefaultVariant, Shelf!productVars, Shelf!auxiliary
  <2>3. GoesTo(r, "clear default", j)
    BY <2>1, Moves
  <2>4. DefaultFits("clear default", j)' /\ OneEach'
    BY <2>1, <2>2 DEF DefaultFits, OneEach
  <2> QED
    BY <2>3, <2>4, OnlySlot
<1>5. ASSUME NEW r \in Requests, NEW v \in DOMAIN variants, Shelf!UpdateVariant(r, v)
      PROVE  OneEach' /\ DefaultJobs'
  <2>1. PICK row : row = variants[v]
    OBVIOUS
  <2>2. PICK isDefault, shown :
          /\ Shelf!Begin(r, "save variant",
               [product |-> row.product, variant |-> v, settles |-> FALSE,
                row |-> [row EXCEPT !.isDefault = isDefault, !.shown = shown]])
          /\ byHand' = IF isDefault # row.isDefault THEN byHand \cup {row.product} ELSE byHand
    BY <1>5, <2>1 DEF Shelf!UpdateVariant
  <2>3. PICK j : j = [product |-> row.product, variant |-> v, settles |-> FALSE,
                      row |-> [row EXCEPT !.isDefault = isDefault, !.shown = shown]]
    OBVIOUS
  <2>4. GoesTo(r, "save variant", j)
    BY <2>2, <2>3, Moves
  <2>5. AVariant(row) /\ variants' = variants /\ byHand \subseteq byHand'
    BY <1>5, <2>1, <2>2 DEF Shelf!UpdateVariant, ShelfTable
  <2>6. /\ ~j.settles /\ j.row.isDefault = isDefault /\ j.variant = v /\ j.product = row.product
    BY <2>3, <2>5 DEF AVariant
  <2>7. isDefault = row.isDefault \/ row.product \in byHand'
    BY <2>2
  <2>8. DefaultFits("save variant", j)'
    BY <2>1, <2>5, <2>6, <2>7 DEF DefaultFits
  <2>9. OneEach'
    BY <2>5 DEF OneEach
  <2> QED
    BY <2>4, <2>8, <2>9, OnlySlot
<1>6. ASSUME NEW r \in Requests, Shelf!ClearDefault(r) PROVE OneEach' /\ DefaultJobs'
  <2>1. PICK p, j : p = job[r].product /\ j = job[r]
    OBVIOUS
  <2>2. /\ pc[r] = "clear default" /\ Shelf!Continue(r, "save variant", j)
        /\ variants' = [v \in DOMAIN variants |->
             IF v \in Shelf!VariantsOf(p) THEN [variants[v] EXCEPT !.isDefault =
                 FALSE] ELSE variants[v]]
        /\ byHand' = byHand
    BY <1>6, <2>1 DEF Shelf!ClearDefault, Shelf!NotDefault, Shelf!auxiliary
  <2>3. ASSUME NEW v \in DOMAIN variants
        PROVE  /\ variants'[v].product = variants[v].product
               /\ (variants[v].product = p => ~variants'[v].isDefault)
               /\ (variants'[v].isDefault => variants[v].isDefault)
    <3>1. PICK row, no : row = variants[v] /\ no = FALSE
      OBVIOUS
    <3>2. AVariant(row)
      BY <3>1 DEF ShelfTable
    <3>3. IF row.product = p THEN variants'[v] = [row EXCEPT !.isDefault = no] ELSE variants'[v] =
            row
      BY <2>2, <3>1 DEF Shelf!VariantsOf
    <3> QED
      BY <3>1, <3>2, <3>3 DEF AVariant
  <2>4. DOMAIN variants' = DOMAIN variants
    BY <2>2
  <2>5. OneEach'
    <3>1. ASSUME NEW u \in DOMAIN variants', NEW w \in DOMAIN variants',
                 variants'[u].product = variants'[w].product, variants'[u].product \notin byHand',
                 variants'[u].isDefault, variants'[w].isDefault
          PROVE  u = w
      <4>1. variants[u].isDefault /\ variants[w].isDefault
        BY <2>3, <2>4, <3>1, Zenon
      <4>2. /\ variants'[u].product = variants[u].product
            /\ variants'[w].product = variants[w].product
        BY <2>3, <2>4
      <4>3. byHand' = byHand
        BY <2>2
      <4>4. variants[u].product = variants[w].product /\ variants[u].product \notin byHand
        BY <3>1, <4>2, <4>3
      <4> QED
        BY <2>4, <4>1, <4>4 DEF OneEach
    <3> QED
      BY <3>1 DEF OneEach
  <2>6. j.settles /\ j.product = p
    BY <2>1, <2>2 DEF DefaultJobs, DefaultFits
  <2>7. DefaultFits("save variant", j)'
    BY <2>3, <2>4, <2>6 DEF DefaultFits
  <2>8. GoesTo(r, "save variant", j)
    BY <2>2, Moves
  <2> QED
    BY <2>5, <2>7, <2>8, OnlySlot
<1>7. ASSUME NEW r \in Requests, Shelf!SaveVariant(r) PROVE OneEach' /\ DefaultJobs'
  <2>1. PICK v, row, j : v = job[r].variant /\ row = job[r].row /\ j = job[r]
    OBVIOUS
  <2>2. /\ pc[r] = "save variant" /\ Shelf!Finish(r)
        /\ variants' = [i \in DOMAIN variants \cup {v} |-> IF i = v THEN row ELSE variants[i]]
        /\ byHand' = IF j.settles THEN byHand \ {j.product} ELSE byHand
    BY <1>7, <2>1 DEF Shelf!SaveVariant, Shelf!With
  <2>3. row.product = j.product /\ DefaultFits("save variant", j)
    BY <2>1, <2>2 DEF ShelfJobs, ShelfJobFits, DefaultJobs
  <2>4. /\ variants'[v] = row
        /\ \A u \in DOMAIN variants' : u # v =>
               u \in DOMAIN variants /\ variants'[u] = variants[u]
    BY <2>2
  <2>7. GoesTo(r, "idle", <<>>) /\ DefaultFits("idle", <<>>)'
    BY <2>2, Moves DEF DefaultFits
  <2>5. CASE j.settles
    <3>1. \A u \in DOMAIN variants' : u # v /\ variants'[u].product = j.product =>
            ~variants'[u].isDefault
      BY <2>1, <2>3, <2>4, <2>5 DEF DefaultFits
    <3>2. ASSUME NEW u \in DOMAIN variants', NEW w \in DOMAIN variants',
                 variants'[u].product = variants'[w].product, variants'[u].product \notin byHand',
                 variants'[u].isDefault, variants'[w].isDefault
          PROVE  u = w
      <4>1. CASE variants'[u].product = j.product
        BY <3>1, <3>2, <4>1
      <4>2. CASE variants'[u].product # j.product
        <5>1. u # v /\ w # v
          BY <2>3, <2>4, <3>2, <4>2
        <5>2. variants[u].product \notin byHand
          BY <2>2, <2>4, <2>5, <3>2, <4>2, <5>1
        <5>3. /\ variants'[u] = variants[u] /\ variants'[w] = variants[w]
              /\ u \in DOMAIN variants /\ w \in DOMAIN variants
          BY <2>4, <5>1
        <5> QED
          BY <3>2, <5>2, <5>3 DEF OneEach
      <4> QED
        BY <4>1, <4>2
    <3>3. OneEach'
      BY <3>2 DEF OneEach
    <3> QED
      BY <2>7, <3>3, OnlySlot
  <2>6. CASE ~j.settles
    <3>1. byHand' = byHand
      BY <2>2, <2>6
    <3>2. row.isDefault /\ row.product \notin byHand =>
            v \in DOMAIN variants /\ variants[v].isDefault /\ variants[v].product = row.product
      BY <2>1, <2>3, <2>6 DEF DefaultFits
    <3>3. \A u \in DOMAIN variants' :
            variants'[u].isDefault /\ variants'[u].product \notin byHand =>
              /\ u \in DOMAIN variants /\ variants[u].isDefault
              /\ variants[u].product = variants'[u].product
      BY <2>4, <3>2
    <3>4. ASSUME NEW u \in DOMAIN variants', NEW w \in DOMAIN variants',
                 variants'[u].product = variants'[w].product, variants'[u].product \notin byHand',
                 variants'[u].isDefault, variants'[w].isDefault
          PROVE  u = w
      <4>1. /\ u \in DOMAIN variants /\ w \in DOMAIN variants
            /\ variants[u].product = variants[w].product /\ variants[u].product \notin byHand
            /\ variants[u].isDefault /\ variants[w].isDefault
        BY <3>1, <3>3, <3>4
      <4> QED
        BY <4>1 DEF OneEach
    <3>5. OneEach'
      BY <3>4 DEF OneEach
    <3> QED
      BY <2>7, <3>5, OnlySlot
  <2> QED
    BY <2>5, <2>6
<1>8. ASSUME NEW r \in Requests, Shelf!DeleteVariant(r) PROVE OneEach' /\ DefaultJobs'
  <2>1. PICK v : v = job[r].variant
    OBVIOUS
  <2>2. /\ Shelf!Finish(r) /\ byHand' = byHand
        /\ \/ variants' = [i \in DOMAIN variants \ {v} |-> variants[i]]
           \/ variants' = variants
    BY <1>8, <2>1 DEF Shelf!DeleteVariant, Shelf!Without
  <2>3. /\ DOMAIN variants' \subseteq DOMAIN variants
        /\ \A i \in DOMAIN variants' : variants'[i] = variants[i]
    BY <2>2
  <2>4. GoesTo(r, "idle", <<>>)
    BY <2>2, Moves
  <2> QED
    BY <2>2, <2>3, <2>4, FewerDefaults
<1>9. ASSUME NEW r \in Requests, NEW v \in DOMAIN variants, Shelf!CloneVariant(r, v)
      PROVE  OneEach' /\ DefaultJobs'
  <2>1. PICK j : Shelf!Begin(r, "insert variant", j)
    BY <1>9 DEF Shelf!CloneVariant
  <2>2. variants' = variants /\ byHand' = byHand
    BY <1>9 DEF Shelf!CloneVariant, Shelf!productVars, Shelf!auxiliary
  <2>3. GoesTo(r, "insert variant", j)
    BY <2>1, Moves
  <2> QED
    BY <2>2, <2>3, FewerDefaults
<1>10. ASSUME NEW r \in Requests, Shelf!InsertCopy(r) PROVE OneEach' /\ DefaultJobs'
  <2>1. PICK p, rows, first : p = job[r].product /\ rows = job[r].copies
                              /\ first = Shelf!FirstFree(VariantIds, variants)
    OBVIOUS
  <2>2. PICK new : new = {first + n - 1 : n \in DOMAIN rows}
    OBVIOUS
  <2>3. /\ p \notin DOMAIN products /\ byHand' = byHand
        /\ variants' = [v \in DOMAIN variants \cup new |->
             IF v \in DOMAIN variants THEN variants[v]
             ELSE [product |-> p, isDefault |-> TRUE /\ v = first, shown |-> FALSE]]
    BY <1>10, <2>1, <2>2 DEF Shelf!InsertCopy, Shelf!Copied
  <2>4. \E j : Shelf!Continue(r, "clear brands", j) \/ Shelf!Continue(r, "read content", j)
          \/ Shelf!Finish(r)
    BY <1>10 DEF Shelf!InsertCopy
  <2>5. \E l, j : GoesTo(r, l, j) /\ l \in {"clear brands", "read content", "idle"}
    BY <2>4, Moves
  <2>6. PICK l, j : GoesTo(r, l, j) /\ l \in {"clear brands", "read content", "idle"}
    BY <2>5
  <2>7. ASSUME NEW v \in DOMAIN variants', v \notin DOMAIN variants
        PROVE  variants'[v].product = p /\ (variants'[v].isDefault => v = first)
    <3>1. PICK yes \in BOOLEAN : yes = (TRUE /\ v = first)
      OBVIOUS
    <3>2. variants'[v] = [product |-> p, isDefault |-> yes, shown |-> FALSE]
      BY <2>3, <2>7, <3>1
    <3>3. variants'[v].product = p /\ variants'[v].isDefault = yes
      BY <3>2
    <3>4. yes => v = first
      BY <3>1
    <3> QED
      BY <3>3, <3>4
  <2>8. \A v \in DOMAIN variants : variants'[v] = variants[v] /\ variants[v].product # p
    BY <2>3 DEF ShelfTable
  <2>9. OneEach'
    <3>1. ASSUME NEW u \in DOMAIN variants', NEW w \in DOMAIN variants',
                 variants'[u].product = variants'[w].product, variants'[u].product \notin byHand',
                 variants'[u].isDefault, variants'[w].isDefault
          PROVE  u = w
      <4>1. CASE u \in DOMAIN variants
        <5>1. w \in DOMAIN variants
          BY <2>7, <2>8, <3>1, <4>1
        <5> QED
          BY <2>3, <2>8, <3>1, <4>1, <5>1 DEF OneEach
      <4>2. CASE u \notin DOMAIN variants
        <5>1. w \notin DOMAIN variants
          BY <2>7, <2>8, <3>1, <4>2
        <5> QED
          BY <2>7, <3>1, <4>2, <5>1
      <4> QED
        BY <4>1, <4>2
    <3> QED
      BY <3>1 DEF OneEach
  <2>10. DefaultFits(l, j)'
    BY <2>6 DEF DefaultFits
  <2> QED
    BY <2>6, <2>9, <2>10, OnlySlot
<1>11. ASSUME NEW r \in Requests, Shelf!InsertVariant(r) PROVE OneEach' /\ DefaultJobs'
  <2>1. PICK p, rows, first : p = job[r].product /\ rows = job[r].copies
                              /\ first = Shelf!FirstFree(VariantIds, variants)
    OBVIOUS
  <2>2. /\ byHand' = byHand
        /\ variants' = [v \in DOMAIN variants \cup {first + n - 1 : n \in DOMAIN rows} |->
             IF v \in DOMAIN variants THEN variants[v]
             ELSE [product |-> p, isDefault |-> FALSE /\ v = first, shown |-> FALSE]]
    BY <1>11, <2>1 DEF Shelf!InsertVariant, Shelf!Copied
  <2>3. PICK j : Shelf!Continue(r, "read content", j)
    BY <1>11 DEF Shelf!InsertVariant
  <2>4. ASSUME NEW v \in DOMAIN variants', v \notin DOMAIN variants
        PROVE  ~variants'[v].isDefault
    <3>1. PICK no \in BOOLEAN : no = (FALSE /\ v = first)
      OBVIOUS
    <3>2. variants'[v] = [product |-> p, isDefault |-> no, shown |-> FALSE]
      BY <2>2, <2>4, <3>1
    <3>3. variants'[v].isDefault = no
      BY <3>2
    <3>4. ~no
      BY <3>1
    <3> QED
      BY <3>3, <3>4
  <2>5. \A v \in DOMAIN variants : variants'[v] = variants[v]
    BY <2>2
  <2>6. OneEach'
    BY <2>2, <2>4, <2>5 DEF OneEach
  <2>7. GoesTo(r, "read content", j) /\ DefaultFits("read content", j)'
    BY <2>3, Moves DEF DefaultFits
  <2> QED
    BY <2>6, <2>7, OnlySlot
<1>12. ASSUME NEW r \in Requests, NEW p \in DOMAIN products,
              Shelf!Update(r, p) \/ Shelf!RemoveProduct(r, p) \/ Shelf!CloneProduct(r, p)
       PROVE  OneEach' /\ DefaultJobs'
  <2>1. Aside(r)
    <3>1. CASE Shelf!Update(r, p)
      BY <3>1, AsideOfUpdates
    <3>2. CASE Shelf!RemoveProduct(r, p) \/ Shelf!CloneProduct(r, p)
      BY <3>2, AsideOfReads
    <3> QED
      BY <1>12, <3>1, <3>2
  <2> QED
    BY <2>1, AsideDefaults
<1>13. ASSUME NEW r \in Requests, NEW v \in DOMAIN variants, NEW part,
              Shelf!RemoveVariant(r, v) \/ Shelf!ClearPart(r, v, part)
       PROVE  OneEach' /\ DefaultJobs'
  BY <1>13, AsideOfVariants, AsideDefaults
<1>14. ASSUME NEW r \in Requests, NEW b, Shelf!CreateBrand(r, b) \/ Shelf!ChangeBrand(r, b)
              \/ Shelf!RemoveBrand(r, b)
       PROVE  OneEach' /\ DefaultJobs'
  BY <1>14, AsideOfBrands, AsideDefaults
<1>15. ASSUME NEW r \in Requests,
              \/ Shelf!ClearBrands(r) \/ Shelf!AddBrands(r) \/ Shelf!InsertPart(r)
                     \/ Shelf!ReadContent(r) \/ Shelf!Copy(r)
              \/ Shelf!SaveBrand(r) \/ Shelf!DeleteBrand(r) \/ Shelf!Abandon(r)
       PROVE  OneEach' /\ DefaultJobs'
  BY <1>15, AsideOfProducts, AsideDefaults
<1>16. CASE UNCHANGED shelfVars
  <2>1. pc' = pc /\ job' = job /\ variants' = variants /\ byHand' = byHand
    BY <1>16 DEF shelfVars, Shelf!handling, Shelf!productVars, Shelf!auxiliary
  <2> QED
    BY <1>0, <2>1 DEF OneEach, DefaultJobs, DefaultFits
<1>17. CASE Shelf!Next
  <2>1. OneEach' /\ DefaultJobs'
    BY <1>1, <1>2, <1>3, <1>4, <1>5, <1>6, <1>7, <1>8, <1>9, <1>10, <1>11, <1>12, <1>13, <1>14,
       <1>15, <1>17
       DEF Shelf!Next
  <2> QED
    BY <1>0, <2>1
<1> QED
  BY <1>16, <1>17

\* While handlers do not overlap, a product has one default variant at most, unless requests
\* have spelled out others: a new default is saved after the old one was cleared, and what an
\* update saves of a variant is a default only if it was one.
THEOREM OneVariantIsDefault ==
  ASSUME OneAtATime, Numbered(VariantIds), Numbered(ProductIds)
  PROVE  ShelfSpec => []Shelf!OneDefaultVariant
<1>1. ASSUME DefaultsInv PROVE Shelf!OneDefaultVariant
  <2> SUFFICES ASSUME NEW p \in DOMAIN products \ byHand
               PROVE  Shelf!Cardinality({v \in Shelf!VariantsOf(p) : variants[v].isDefault}) <= 1
    BY DEF Shelf!OneDefaultVariant, Shelf!Cardinality
  <2>1. PICK S : S = {v \in Shelf!VariantsOf(p) : variants[v].isDefault}
    OBVIOUS
  <2>2. \A u, v \in S : u = v
    BY <1>1, <2>1 DEF DefaultsInv, OneEach, Shelf!VariantsOf
  <2>3. CASE S = {}
    <3>1. Cardinality(S) = 0
      BY <2>3, FS_EmptySet
    <3> QED
      BY <2>1, <3>1, VariantsCounted
  <2>4. CASE \E x : S = {x}
    <3>1. Cardinality(S) = 1
      BY <2>4, FS_Singleton
    <3> QED
      BY <2>1, <3>1, VariantsCounted
  <2>5. S = {} \/ \E x : S = {x}
    <3>1. ASSUME NEW x \in S PROVE S = {x}
      BY <2>2
    <3> QED
      BY <3>1
  <2> QED
    BY <2>3, <2>4, <2>5
<1>2. ShelfStart => DefaultsInv
  BY DefaultsBegin
<1>3. DefaultsInv /\ [Shelf!Next]_shelfVars => DefaultsInv'
  BY DefaultsStep
<1> QED
  BY <1>1, <1>2, <1>3, PTL DEF ShelfSpec

-----------------------------------------------------------------------------
(* Specifications: the values that were entered *)

SheetStart == Sheet!SpecsInit /\ Quiet

sheetVars == <<Sheet!specVars, Sheet!handling>>

SheetSpec == SheetStart /\ [][Sheet!Next]_sheetVars

\* Values of types, as they are entered for a variant.
IsEntered(filled) ==
  filled = [t \in DOMAIN filled |-> filled[t]] /\ \A t \in DOMAIN filled : filled[t] \in SpecValues

ValueTable ==
  /\ specs = [v \in VariantIds |-> specs[v]]
  /\ enteredSpecs = [v \in VariantIds |-> enteredSpecs[v]]
  /\ \A v \in VariantIds : IsEntered(specs[v])

\* What a handler will insert is for a variant without values.
ValueJobs == \A r \in Requests :
  /\ pc[r] \in {"idle", "insert"}
  /\ pc[r] = "insert" => /\ job[r].variant \in VariantIds /\ IsEntered(job[r].given)
                         /\ specs[job[r].variant] = Sheet!Nothing

ValuesAtRest == \A v \in VariantIds \ tornSpecs :
  (\A r \in Requests : pc[r] = "insert" => job[r].variant # v) => specs[v] = enteredSpecs[v]

SheetInv == Slots /\ ValueTable /\ ValueJobs /\ ValuesAtRest

LEMMA SheetInit == SheetStart => SheetInv
<1> SUFFICES ASSUME SheetStart PROVE SheetInv
  OBVIOUS
<1>1. specs = [v \in VariantIds |-> Sheet!Nothing] /\ enteredSpecs = specs
  BY DEF SheetStart, Sheet!SpecsInit
<1>2. IsEntered(Sheet!Nothing)
  BY DEF IsEntered, Sheet!Nothing
<1> QED
  BY <1>1, <1>2 DEF SheetInv, Slots, ValueTable, ValueJobs, ValuesAtRest, SheetStart, Quiet

LEMMA SheetNext ==
  ASSUME OneAtATime, SheetInv, [Sheet!Next]_sheetVars
  PROVE  SheetInv'
<1> USE DEF SheetInv
<1>a. ASSUME NEW r \in Requests, Sheet!AtOnce(r), UNCHANGED <<specs, enteredSpecs, tornSpecs>>
      PROVE  SheetInv'
  BY <1>a DEF Sheet!AtOnce, Slots, ValueTable, ValueJobs, ValuesAtRest
<1>1. ASSUME NEW r \in Requests, NEW v \in VariantIds, Sheet!ClearSpecs(r, v) PROVE SheetInv'
  <2>1. PICK S \in SUBSET DOMAIN specTypes : \E filled \in [S -> SpecValues] :
          /\ Sheet!Begin(r, "insert", [variant |-> v, given |-> filled])
          /\ specs' = [specs EXCEPT ![v] = Sheet!WithoutValues(v, filled)]
    BY <1>1 DEF Sheet!ClearSpecs
  <2>2. PICK filled \in [S -> SpecValues] :
          /\ Sheet!Begin(r, "insert", [variant |-> v, given |-> filled])
          /\ specs' = [specs EXCEPT ![v] = Sheet!Nothing]
    BY <2>1 DEF Sheet!WithoutValues
  <2>3. IsEntered(filled) /\ IsEntered(Sheet!Nothing) /\ UNCHANGED <<enteredSpecs, tornSpecs>>
    BY <1>1 DEF IsEntered, Sheet!Nothing, Sheet!ClearSpecs
  <2>4. /\ specs' = [w \in VariantIds |-> specs'[w]] /\ specs'[v] = Sheet!Nothing
        /\ \A w \in VariantIds \ {v} : specs'[w] = specs[w]
    BY <2>2 DEF ValueTable
  <2>5. /\ Slots' /\ \A q \in Requests : pc[q] = "idle"
        /\ \A q \in Requests : pc'[q] = "insert" /\ job'[q] = [variant |-> v, given |-> filled]
    BY <2>2 DEF Sheet!Begin, Slots, OneAtATime
  <2>6. ValueTable' /\ ValueJobs'
    BY <2>3, <2>4, <2>5 DEF ValueTable, ValueJobs
  <2>7. ValuesAtRest'
    BY <2>3, <2>4, <2>5 DEF ValuesAtRest
  <2> QED
    BY <2>5, <2>6, <2>7
<1>2. ASSUME NEW r \in Requests, Sheet!InsertSpecs(r) PROVE SheetInv'
  <2>1. PICK v, filled : v = job[r].variant /\ filled = job[r].given
    OBVIOUS
  <2>2. PICK row : row = [t \in DOMAIN filled \cup DOMAIN specs[v] |->
                            IF t \in DOMAIN filled THEN filled[t] ELSE specs[v][t]]
    OBVIOUS
  <2>3. /\ pc[r] = "insert" /\ Sheet!Finish(r) /\ specs' = [specs EXCEPT ![v] = row]
        /\ enteredSpecs' = [enteredSpecs EXCEPT ![v] = filled] /\ tornSpecs' = tornSpecs \ {v}
    BY <1>2, <2>1, <2>2 DEF Sheet!InsertSpecs
  <2>4. v \in VariantIds /\ IsEntered(filled) /\ row = filled
    <3>1. v \in VariantIds /\ IsEntered(filled) /\ specs[v] = Sheet!Nothing
      BY <2>1, <2>3 DEF ValueJobs
    <3> QED
      BY <2>2, <3>1 DEF IsEntered, Sheet!Nothing
  <2>5. /\ specs' = [w \in VariantIds |-> specs'[w]] /\ specs'[v] = filled
        /\ enteredSpecs' = [w \in VariantIds |-> enteredSpecs'[w]] /\ enteredSpecs'[v] = filled
        /\ \A w \in VariantIds \ {v} : specs'[w] = specs[w] /\ enteredSpecs'[w] = enteredSpecs[w]
    BY <2>3, <2>4 DEF ValueTable
  <2>6. Slots' /\ \A q \in Requests : q = r /\ pc'[q] = "idle"
    BY <2>3 DEF Sheet!Finish, Slots, OneAtATime
  <2>7. ValueTable' /\ ValueJobs'
    BY <2>4, <2>5, <2>6 DEF ValueTable, ValueJobs
  <2>8. ValuesAtRest'
    BY <2>1, <2>3, <2>5, <2>6 DEF ValuesAtRest
  <2> QED
    BY <2>6, <2>7, <2>8
<1>3. ASSUME NEW r \in Requests, Sheet!Abandon(r) PROVE SheetInv'
  <2>1. /\ Sheet!Finish(r) /\ pc[r] # "idle" /\ UNCHANGED <<specs, enteredSpecs>>
        /\ tornSpecs' = tornSpecs \cup {job[r].variant}
    BY <1>3 DEF Sheet!Abandon, Sheet!GiveUp
  <2>2. Slots' /\ \A q \in Requests : q = r /\ pc'[q] = "idle"
    BY <2>1 DEF Sheet!Finish, Slots, OneAtATime
  <2>3. ValueTable' /\ ValueJobs'
    BY <2>1, <2>2 DEF ValueTable, ValueJobs
  <2>4. ValuesAtRest'
    BY <2>1, <2>2 DEF ValuesAtRest
  <2> QED
    BY <2>2, <2>3, <2>4
<1>4. ASSUME NEW r \in Requests, NEW g \in Groups,
             \/ Sheet!RemoveGroup(r, g)
             \/ \E c \in CategoryIds :
                  Sheet!UpsertCategoryGroup(r, c, g) \/ Sheet!UnlinkCategoryGroup(r, c, g)
      PROVE  SheetInv'
  BY <1>a, <1>4 DEF Sheet!RemoveGroup, Sheet!UpsertCategoryGroup, Sheet!UnlinkCategoryGroup
<1>5. ASSUME NEW r \in Requests, NEW t \in TypeIds, Sheet!SaveType(r, t) \/ Sheet!RemoveType(r, t)
      PROVE  SheetInv'
  BY <1>a, <1>5 DEF Sheet!SaveType, Sheet!RemoveType
<1>6. CASE UNCHANGED sheetVars
  <2>1. UNCHANGED <<pc, job, specs, enteredSpecs, tornSpecs>>
    BY <1>6 DEF sheetVars, Sheet!specVars, Sheet!handling
  <2> QED
    BY <2>1 DEF Slots, ValueTable, ValueJobs, ValuesAtRest
<1> HIDE DEF SheetInv
<1> QED
  BY <1>1, <1>2, <1>3, <1>4, <1>5, <1>6 DEF Sheet!Next

\* While handlers do not overlap, a variant has the values that were last entered for it, unless
\* a save was cut short, and the two ways to list them tell the same: nothing that is entered
\* looks like a value that is missing.
THEOREM VariantsHaveEnteredValues ==
  ASSUME OneAtATime, SpecValues \subseteq Sheet!SpecValue
  PROVE  SheetSpec => []Sheet!SpecsAsEntered
<1>1. SheetInv => Sheet!SpecsAsEntered
  <2> SUFFICES ASSUME SheetInv, NEW v \in VariantIds
               PROVE  /\ v \notin tornSpecs /\ (\A r \in Requests : pc[r] = "idle") =>
                           specs[v] = enteredSpecs[v]
                      /\ \A t \in DOMAIN Sheet!Merged(v) :
                           Sheet!Merged(v)[t] # Sheet!Nothing <=>
                             \E g \in DOMAIN Sheet!Grouped(v) : t \in Sheet!Grouped(v)[g]
    BY DEF Sheet!SpecsAsEntered
  <2>1. v \notin tornSpecs /\ (\A r \in Requests : pc[r] = "idle") => specs[v] = enteredSpecs[v]
    BY DEF SheetInv, ValuesAtRest
  <2>2. ASSUME NEW t \in DOMAIN specs[v] PROVE specs[v][t] # Sheet!Nothing
    <3>1. specs[v][t] \in [text : STRING \ {""}, canon : STRING, number : Int]
      BY <2>2 DEF SheetInv, ValueTable, IsEntered, Sheet!SpecValue
    <3>2. "canon" \in DOMAIN specs[v][t]
      BY <3>1
    <3>3. DOMAIN Sheet!Nothing = {}
      BY DEF Sheet!Nothing
    <3> QED
      BY <3>2, <3>3
  <2>3. ASSUME NEW t
        PROVE  (\E g \in DOMAIN Sheet!Grouped(v) : t \in Sheet!Grouped(v)[g]) <=> t \in DOMAIN specs[v]
    BY DEF Sheet!Grouped
  <2>4. ASSUME NEW t \in DOMAIN Sheet!Merged(v)
        PROVE  Sheet!Merged(v)[t] = IF t \in DOMAIN specs[v] THEN specs[v][t] ELSE Sheet!Nothing
    BY <2>4 DEF Sheet!Merged
  <2> QED
    BY <2>1, <2>2, <2>3, <2>4
<1> QED
  BY <1>1, SheetInit, SheetNext, PTL DEF SheetSpec
=============================================================================
