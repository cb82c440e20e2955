----------------------------- MODULE StaffRoles -----------------------------
(***************************************************************************)
(* RolesService, RoleSeederService, EmployeesService and ProfileService:   *)
(* roles and what they grant, the cache that PermissionGuard reads, the    *)
(* employees who hold them, and the passwords of employees.                *)
(***************************************************************************)
EXTENDS Handlers, FiniteSets

CONSTANTS
  RoleIds,         \* bound: the roles there can be
  Names,           \* names of roles
  Permissions,     \* the catalog
  Canonical,       \* SYSTEM_ROLES: permissions by name of a role of the system
  Employees,
  Passwords,
  MaxLinks         \* bound: the links that confirm a password

VARIABLES
  roles,     \* vai_tro and vai_tro_quyen by id
  cache,     \* role:permissions:<name> in Redis
  staff,     \* nhan_vien and nhan_vien_vai_tro
  links,     \* pwd_confirm:<token> in Redis: the password and its employee, by token
  given,     \* auxiliary: the roles that every employee was given
  outdated,  \* auxiliary: names whose entry was left behind by a rename, a removal or a crash
  touched,   \* auxiliary: roles of the system that were changed by hand in the database
  used       \* auxiliary: links that have set a password

roleVars == <<roles, cache, staff, links, given, outdated, touched, used>>

Role == [name : Names, isSystem : BOOLEAN, permissions : SUBSET Permissions]
Employee == [active : BOOLEAN, password : Passwords, phone : BOOLEAN, roles : SUBSET RoleIds]

There == DOMAIN roles
Without(f, k) == [j \in DOMAIN f \ {k} |-> f[j]]
With(f, k, x) == [j \in DOMAIN f \cup {k} |-> IF j = k THEN x ELSE f[j]]
TakenBy(name) == {k \in There : roles[k].name = name}

\* Mutant of Free: names are not compared.
FreeAlways(name, k) == TRUE

\* The unique key of the name, for the row k.
Free(name, k) == TakenBy(name) \subseteq {k}

-----------------------------------------------------------------------------
(* RoleSeederService: permissions, roles, then the keys of the cache *)

\* The roles that the seeder leaves: those of the catalog as it says, and all the others.
Seeded(before) ==
  [k \in DOMAIN before |->
     IF before[k].name \in DOMAIN Canonical
     THEN [before[k] EXCEPT !.isSystem = TRUE, !.permissions = Canonical[before[k].name]]
     ELSE before[k]]

Invalidated(entries) == [n \in DOMAIN entries \ DOMAIN Canonical |-> entries[n]]

RolesInit ==
  \E numbers \in [DOMAIN Canonical -> RoleIds] :
    /\ \A m, n \in DOMAIN Canonical : numbers[m] = numbers[n] => m = n
    /\ roles = [k \in {numbers[n] : n \in DOMAIN Canonical} |->
                  LET n == CHOOSE m \in DOMAIN Canonical : numbers[m] = k IN
                  [name |-> n, isSystem |-> TRUE, permissions |-> Canonical[n]]]
    /\ \E first \in Employees, p \in Passwords :
         /\ staff = [e \in {first} |-> [active |-> TRUE, password |-> p, phone |-> FALSE,
                                        roles |-> {numbers["admin"]}]]
         /\ given = [e \in {first} |-> {numbers["admin"]}]
         /\ links \in {[l \in {} |-> 0]} \cup
              [{1} -> [employee : {first}, password : Passwords \ {p}]]
    /\ cache = [n \in {} |-> {}]
    /\ outdated = {} /\ touched = {} /\ used = {}

\* What a handler that stops in between leaves: an entry of the cache, a link that was used.
Stale(rs) == {job[r].key : r \in {x \in rs : pc[x] = "invalidate"}}
Unspent(rs) == {job[r].link : r \in {x \in rs : pc[x] = "drop"}}

\* The process restarts: what was under way is gone, and the seeder runs before it listens.
Restart ==
  /\ roles' = Seeded(roles) /\ cache' = Invalidated(cache)
  /\ outdated' = (outdated \cup Stale(Requests)) \ DOMAIN Canonical /\ touched' = {}
  /\ used' = used \ Unspent(Requests)
  /\ pc' = [r \in Requests |-> "idle"] /\ job' = [r \in Requests |-> <<>>]
  /\ UNCHANGED <<served, staff, links, given>>

\* Somebody changes the rows of a role of the system by hand.
ChangeByHand(r, k) ==
  /\ AtOnce(r) /\ roles[k].isSystem
  /\ roles' = [roles EXCEPT ![k].permissions = {}]
  /\ touched' = touched \cup {roles[k].name} /\ outdated' = outdated \cup {roles[k].name}
  /\ UNCHANGED <<cache, staff, links, given, used>>

-----------------------------------------------------------------------------
(* RolesService *)

\* The name has a unique key.
Create(r) ==
  /\ AtOnce(r)
  /\ \E k \in RoleIds \ There, n \in {m \in Names : Free(m, 0)} :
       roles' = With(roles, k, [name |-> n, isSystem |-> FALSE, permissions |-> {}])
  /\ UNCHANGED <<cache, staff, links, given, outdated, touched, used>>

MayEdit(k) == ~roles[k].isSystem

\* update: the row is read with its permissions and saved with them.
Update(r, k) ==
  /\ MayEdit(k)
  /\ \E n \in Names :
       /\ Free(n, k)
       /\ Begin(r, "save role", [role |-> k, row |-> [roles[k] EXCEPT !.name = n], key |-> ""])
  /\ UNCHANGED roleVars

AssignPermissions(r, k) ==
  /\ MayEdit(k)
  /\ \E p \in SUBSET Permissions :
       Begin(r, "save role", [role |-> k, row |-> [roles[k] EXCEPT !.permissions = p],
                              key |-> roles[k].name])
  /\ UNCHANGED roleVars

\* Mutant of ToInvalidate: the entry of the role is never dropped.
ToInvalidateNone(key) == ""

\* The name whose entry is dropped: that of the role whose permissions are assigned.
ToInvalidate(key) == key

SaveRole(r) ==
  LET k == job[r].role
      before == IF k \in There THEN roles[k].name ELSE job[r].row.name IN
  /\ pc[r] = "save role" /\ Free(job[r].row.name, k)
  /\ roles' = With(roles, k, job[r].row)
  /\ outdated' = outdated \cup (IF job[r].key = "" THEN {before, job[r].row.name} ELSE {})
  /\ IF ToInvalidate(job[r].key) = "" THEN Finish(r) ELSE Continue(r, "invalidate", job[r])
  /\ UNCHANGED <<cache, staff, links, given, touched, used>>

Invalidate(r) ==
  /\ pc[r] = "invalidate" /\ cache' = Without(cache, job[r].key)
  /\ outdated' = outdated \ {job[r].key}
  /\ Finish(r) /\ UNCHANGED <<roles, staff, links, given, touched, used>>

Held(k) == \E e \in DOMAIN staff : k \in staff[e].roles

Remove(r, k) ==
  /\ MayEdit(k) /\ ~Held(k) /\ Begin(r, "delete role", [role |-> k])
  /\ UNCHANGED roleVars

\* The foreign keys of the joining tables delete the rows that refer to the role.
DeleteRole(r) ==
  LET k == job[r].role IN
  /\ pc[r] = "delete role" /\ roles' = Without(roles, k)
  /\ staff' = [e \in DOMAIN staff |-> [staff[e] EXCEPT !.roles = @ \ {k}]]
  /\ given' = [e \in DOMAIN given |-> given[e] \ {k}]
  /\ outdated' = IF k \in There THEN outdated \cup {roles[k].name} ELSE outdated
  /\ Finish(r) /\ UNCHANGED <<cache, links, touched, used>>

\* getPermissionsForRoles, of one role: PermissionGuard for every request of an employee.
Granted(name) == UNION {roles[k].permissions : k \in TakenBy(name)}

Check(r, name) ==
  /\ name \notin DOMAIN cache
  /\ Begin(r, "fill", [name |-> name, permissions |-> Granted(name)])
  /\ UNCHANGED roleVars

Fill(r) ==
  /\ pc[r] = "fill" /\ cache' = With(cache, job[r].name, job[r].permissions)
  /\ Finish(r) /\ UNCHANGED <<roles, staff, links, given, outdated, touched, used>>

Expire(name) ==
  /\ cache' = Without(cache, name) /\ outdated' = outdated \ {name}
  /\ UNCHANGED <<handling, roles, staff, links, given, touched, used>>

-----------------------------------------------------------------------------
(* EmployeesService and ProfileService *)

CreateEmployee(r) ==
  /\ AtOnce(r)
  /\ \E e \in Employees \ DOMAIN staff, ids \in SUBSET There, p \in Passwords :
       /\ staff' = With(staff, e, [active |-> TRUE, password |-> p, phone |-> FALSE, roles |-> ids])
       /\ given' = With(given, e, ids)
  /\ UNCHANGED <<roles, cache, links, outdated, touched, used>>

\* What update, updateMe and assignRoles read, and save again.
EmployeeRow(e) == staff[e]

UpdateEmployee(r, e) ==
  /\ \E active, phone \in BOOLEAN :
       Begin(r, "save employee",
             [employee |-> e, row |-> [EmployeeRow(e) EXCEPT !.active = active, !.phone = phone],
              given |-> given[e]])
  /\ UNCHANGED roleVars

AssignRoles(r, e) ==
  /\ \E ids \in SUBSET There :
       Begin(r, "save employee",
             [employee |-> e, row |-> [EmployeeRow(e) EXCEPT !.roles = ids], given |-> ids])
  /\ UNCHANGED roleVars

\* The hash of the password is not among the columns that are read, nor among those saved;
\* a role that is gone cannot be referred to.
SaveEmployee(r) ==
  LET e == job[r].employee IN
  /\ pc[r] = "save employee" /\ job[r].row.roles \subseteq There
  /\ staff' = [staff EXCEPT ![e] = [job[r].row EXCEPT !.password = staff[e].password]]
  /\ given' = [given EXCEPT ![e] = job[r].given]
  /\ Finish(r) /\ UNCHANGED <<roles, cache, links, outdated, touched, used>>

RemoveEmployee(r, e) ==
  /\ AtOnce(r) /\ staff' = [staff EXCEPT ![e].active = FALSE]
  /\ UNCHANGED <<roles, cache, links, given, outdated, touched, used>>

AdminResetPassword(r, e) ==
  /\ AtOnce(r) /\ \E p \in Passwords : staff' = [staff EXCEPT ![e].password = p]
  /\ UNCHANGED <<roles, cache, links, given, outdated, touched, used>>

\* The employee knows the password of now.
RequestPasswordChange(r, e) ==
  /\ AtOnce(r) /\ Cardinality(DOMAIN links \cup used) < MaxLinks
  /\ \E l \in 1..MaxLinks \ (DOMAIN links \cup used), p \in Passwords \ {staff[e].password} :
       links' = With(links, l, [employee |-> e, password |-> p])
  /\ UNCHANGED <<roles, cache, staff, given, outdated, touched, used>>

ConfirmPasswordChange(r, l) ==
  /\ Begin(r, "confirm", [link |-> l, at |-> links[l]]) /\ UNCHANGED roleVars

AfterUse(l) == Without(links, l)

\* The three statements of Promise.all run side by side; here the password comes first.
SetPassword(r) ==
  /\ pc[r] = "confirm"
  /\ staff' = [staff EXCEPT ![job[r].at.employee].password = job[r].at.password]
  /\ used' = used \cup {job[r].link} /\ Continue(r, "drop", job[r])
  /\ UNCHANGED <<roles, cache, links, given, outdated, touched>>

DropLink(r) ==
  /\ pc[r] = "drop" /\ links' = AfterUse(job[r].link)
  /\ Finish(r) /\ UNCHANGED <<roles, cache, staff, given, outdated, touched, used>>

\* An error or a crash: an entry of the cache may stay, and a link that was used.
Abandon(r) ==
  /\ GiveUp(r)
  /\ outdated' = outdated \cup Stale({r}) /\ used' = used \ Unspent({r})
  /\ UNCHANGED <<roles, cache, staff, links, given, touched>>

Next ==
  \/ \E r \in Requests :
       \/ Create(r) \/ SaveRole(r) \/ Invalidate(r) \/ DeleteRole(r) \/ Fill(r)
       \/ CreateEmployee(r) \/ SaveEmployee(r) \/ SetPassword(r) \/ DropLink(r) \/ Abandon(r)
       \/ \E k \in There :
            Update(r, k) \/ AssignPermissions(r, k) \/ Remove(r, k) \/ ChangeByHand(r, k)
       \/ \E n \in Names : Check(r, n)
       \/ \E e \in DOMAIN staff :
            \/ UpdateEmployee(r, e) \/ AssignRoles(r, e) \/ RemoveEmployee(r, e)
            \/ AdminResetPassword(r, e) \/ RequestPasswordChange(r, e)
       \/ \E l \in DOMAIN links : ConfirmPasswordChange(r, l)
  \/ \E n \in DOMAIN cache : Expire(n)
  \/ Restart

-----------------------------------------------------------------------------
Idle == \A r \in Requests : pc[r] = "idle"

\* The type of every variable; no two roles have the same name.
TypeOK ==
  /\ HandlersTypeOK
  /\ There \subseteq RoleIds /\ \A k \in There : roles[k] \in Role
  /\ \A j, k \in There : roles[j].name = roles[k].name => j = k
  /\ DOMAIN cache \subseteq Names /\ \A n \in DOMAIN cache : cache[n] \subseteq Permissions
  /\ DOMAIN staff \subseteq Employees /\ \A e \in DOMAIN staff : staff[e] \in Employee
  /\ DOMAIN links \subseteq 1..MaxLinks /\ DOMAIN given = DOMAIN staff
  /\ outdated \subseteq Names /\ touched \subseteq Names /\ used \subseteq 1..MaxLinks

\* While handlers do not overlap, the guard grants what the role of that name has, except
\* for the minutes after the role was renamed, removed or changed by hand, or after a crash.
GuardFollowsRoles == Idle => \A n \in DOMAIN cache \ outdated : cache[n] = Granted(n)

\* Under any interleaving of edits and restarts, a role of the system grants what the
\* catalog says, unless its rows were changed by hand since the last restart.
SystemRolesIntact ==
  \A n \in DOMAIN Canonical \ touched : TakenBy(n) # {} /\ Granted(n) = Canonical[n]

\* While handlers do not overlap, an employee has the roles that were assigned, whatever
\* else is edited.
EditsKeepRoles == \A e \in DOMAIN staff : staff[e].roles = given[e]

\* While handlers do not overlap, deleting a role takes it from nobody.
HeldRoleStays ==
  \A k \in RoleIds : k \in There /\ k \notin DOMAIN roles' => ~Held(k)

\* Under any interleaving, a link is used up when the handlers that set its password have
\* ended, unless one of them was cut short: nobody can set that password again later.
LinkWorksOnce == Idle => DOMAIN links \cap used = {}

=============================================================================
