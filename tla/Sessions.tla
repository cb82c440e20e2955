------------------------------ MODULE Sessions ------------------------------
(***************************************************************************)
(* AuthService, RedisService and JwtStrategy: the sessions of a customer   *)
(* and of an employee, kept in Redis.  Every Redis command is a step, so   *)
(* that a login, a refresh, a logout and a password reset interleave.      *)
(***************************************************************************)
EXTENDS Handlers, FiniteSetsExt, Functions

CONSTANTS
  Cap,       \* CUSTOMER_SESSION_CAP
  MaxIds     \* bound: the token ids (randomUUID) given out

VARIABLES
  account,    \* the row of khach_hang
  sessions,   \* sessions:customer, a sorted set: the order of expiry, by id of the access token
  expired,    \* ids whose access token is older than its lifetime
  tokens,     \* customer_rts: the ids that a refresh token is stored for
  links,      \* pwd_reset: links to reset the password that were mailed
  staff,      \* of the employee: ajti, rt and the blacklist
  nextId,
  revoked,    \* auxiliary: ids of access tokens of sessions that were ended
  barred,     \* auxiliary: ids of refresh tokens that an employee gave up
  exchanged   \* auxiliary: refresh tokens, with those they were exchanged for

sessionVars ==
  <<account, sessions, expired, tokens, links, staff, nextId, revoked, barred, exchanged>>

Customer == [there : BOOLEAN, password : Nat, google : BOOLEAN, locked : BOOLEAN]
NoOne == [there |-> FALSE, password |-> 0, google |-> FALSE, locked |-> FALSE]

\* ajti, rt (0: no such key) and bl of the employee.
Staff == [active : 0..MaxIds, refresh : 0..MaxIds, blacklist : SUBSET (1..MaxIds)]

SessionsInit ==
  /\ account \in {NoOne, [NoOne EXCEPT !.there = TRUE, !.password = 1]}
  /\ sessions = [id \in {} |-> 0] /\ expired = {} /\ tokens = {} /\ links = {}
  /\ staff = [active |-> 0, refresh |-> 0, blacklist |-> {}]
  /\ nextId = 1 /\ revoked = {} /\ barred = {} /\ exchanged = {}

NewId == nextId <= MaxIds /\ nextId' = nextId + 1

\* JwtStrategy.validate.
AcceptsCustomer(id) == id \in DOMAIN sessions \ expired
AcceptsStaff(id) == id \notin staff.blacklist /\ id = staff.active

\* The sessions that expire before that of id.
Earlier(id) == {k \in DOMAIN sessions : sessions[k] < sessions[id]}

\* A token outlives its lifetime; sessions are in the order of their expiry.
Expire ==
  /\ \E id \in DOMAIN sessions \ expired :
       Earlier(id) \subseteq expired /\ expired' = expired \cup {id}
  /\ UNCHANGED <<handling, account, sessions, tokens, links, staff, nextId, revoked, barred, exchanged>>

-----------------------------------------------------------------------------
(* A new session of the customer: addCustomerSession, addCustomerRefreshToken *)

\* The job of a handler that issues tokens; of is the refresh token it exchanges.
Issue(of) == [id |-> nextId, of |-> of]

\* register reads and then inserts; the unique e-mail refuses a second one.
RegisterRead(r) ==
  /\ ~account.there /\ Begin(r, "register", [google |-> FALSE]) /\ UNCHANGED sessionVars

InsertCustomer(r) ==
  /\ pc[r] = "register" /\ ~account.there /\ NewId
  /\ account' = [NoOne EXCEPT !.there = TRUE, !.google = job[r].google,
                              !.password = IF job[r].google THEN 0 ELSE 1]
  /\ Continue(r, "count", Issue(0))
  /\ UNCHANGED <<sessions, expired, tokens, links, staff, revoked, barred, exchanged>>

Login(r) ==
  /\ account.there /\ account.password # 0 /\ ~account.locked /\ NewId
  /\ Begin(r, "count", Issue(0))
  /\ UNCHANGED <<account, sessions, expired, tokens, links, staff, revoked, barred, exchanged>>

\* findOrCreateCustomerFromGoogle reads the row; the avatar is uploaded before it is saved.
GoogleLogin(r) ==
  /\ IF account.google
     THEN NewId /\ Begin(r, "count", Issue(0))
     ELSE /\ UNCHANGED nextId
          /\ IF account.there THEN Begin(r, "link", [row |-> account])
             ELSE Begin(r, "register", [google |-> TRUE])
  /\ UNCHANGED <<account, sessions, expired, tokens, links, staff, revoked, barred, exchanged>>

Link(r) ==
  /\ pc[r] = "link" /\ NewId
  /\ account' = [job[r].row EXCEPT !.google = TRUE]
  /\ Continue(r, "count", Issue(0))
  /\ UNCHANGED <<sessions, expired, tokens, links, staff, revoked, barred, exchanged>>

\* zremrangebyscore drops what has expired, zcard counts the rest.
CountSessions(r) ==
  LET live == DOMAIN sessions \ expired IN
  /\ pc[r] = "count" /\ sessions' = Restrict(sessions, live)
  /\ Continue(r, "trim", [id |-> job[r].id, of |-> job[r].of, count |-> Cardinality(live)])
  /\ UNCHANGED <<account, expired, tokens, links, staff, nextId, revoked, barred, exchanged>>

\* How many of the oldest make room for one more (zremrangebyrank).
Surplus(count) == IF count >= Cap THEN count - Cap + 1 ELSE 0

TrimSessions(r) ==
  /\ pc[r] = "trim"
  /\ sessions' = Restrict(sessions,
       {id \in DOMAIN sessions : Cardinality(Earlier(id)) >= Surplus(job[r].count)})
  /\ Continue(r, "add session", [id |-> job[r].id, of |-> job[r].of])
  /\ UNCHANGED <<account, expired, tokens, links, staff, nextId, revoked, barred, exchanged>>

AddSession(r) ==
  /\ pc[r] = "add session"
  /\ sessions' = [id \in DOMAIN sessions \cup {job[r].id} |->
       IF id = job[r].id THEN 1 + Max({0} \cup Range(sessions)) ELSE sessions[id]]
  /\ Continue(r, "add token", job[r])
  /\ UNCHANGED <<account, expired, tokens, links, staff, nextId, revoked, barred, exchanged>>

AddToken(r) ==
  /\ pc[r] = "add token"
  /\ tokens' = tokens \cup {job[r].id}
  /\ exchanged' = IF job[r].of = 0 THEN exchanged ELSE exchanged \cup {<<job[r].of, job[r].id>>}
  /\ Finish(r) /\ UNCHANGED <<account, sessions, expired, links, staff, nextId, revoked, barred>>

-----------------------------------------------------------------------------
(* The customer's refresh, logout and password reset *)

RefreshRead(r, id) ==
  /\ id \in tokens /\ Begin(r, "drop session", [id |-> id, then |-> "refresh"])
  /\ UNCHANGED sessionVars

Logout(r, id) ==
  /\ AcceptsCustomer(id) /\ Begin(r, "drop session", [id |-> id, then |-> "logout"])
  /\ UNCHANGED sessionVars

DropSession(r) ==
  /\ pc[r] = "drop session"
  /\ sessions' = Restrict(sessions, DOMAIN sessions \ {job[r].id})
  /\ Continue(r, "drop token", job[r])
  /\ UNCHANGED <<account, expired, tokens, links, staff, nextId, revoked, barred, exchanged>>

Dropped(id) == tokens \ {id}

DropToken(r) ==
  /\ pc[r] = "drop token" /\ tokens' = Dropped(job[r].id)
  /\ revoked' = revoked \cup {job[r].id}
  /\ IF job[r].then = "refresh" THEN NewId /\ Continue(r, "count", Issue(job[r].id))
     ELSE UNCHANGED nextId /\ Finish(r)
  /\ UNCHANGED <<account, sessions, expired, links, staff, barred, exchanged>>

ForgotPassword(r, l) ==
  /\ account.there /\ l \notin links /\ AtOnce(r) /\ links' = links \cup {l}
  /\ UNCHANGED <<account, sessions, expired, tokens, staff, nextId, revoked, barred, exchanged>>

ResetRead(r, l) ==
  /\ l \in links /\ Begin(r, "set password", [link |-> l]) /\ UNCHANGED sessionVars

SetPassword(r) ==
  /\ pc[r] = "set password" /\ account' = [account EXCEPT !.password = 2]
  /\ Continue(r, "drop link", job[r])
  /\ UNCHANGED <<sessions, expired, tokens, links, staff, nextId, revoked, barred, exchanged>>

DropLink(r) ==
  /\ pc[r] = "drop link" /\ links' = links \ {job[r].link}
  /\ Continue(r, "clear sessions", job[r])
  /\ UNCHANGED <<account, sessions, expired, tokens, staff, nextId, revoked, barred, exchanged>>

ClearSessions(r) ==
  /\ pc[r] = "clear sessions" /\ sessions' = [id \in {} |-> 0]
  /\ Continue(r, "clear tokens", [ended |-> DOMAIN sessions])
  /\ UNCHANGED <<account, expired, tokens, links, staff, nextId, revoked, barred, exchanged>>

ClearTokens(r) ==
  /\ pc[r] = "clear tokens" /\ tokens' = {}
  /\ revoked' = revoked \cup job[r].ended
  /\ Finish(r) /\ UNCHANGED <<account, sessions, expired, links, staff, nextId, barred, exchanged>>

\* UsersService.adminUpdate; it leaves the sessions alone.
Lock(r) ==
  /\ account.there /\ AtOnce(r) /\ account' = [account EXCEPT !.locked = ~@]
  /\ UNCHANGED <<sessions, expired, tokens, links, staff, nextId, revoked, barred, exchanged>>

-----------------------------------------------------------------------------
(* The employee: one session at a time *)

StaffLoginRead(r) ==
  /\ Begin(r, "blacklist", [old |-> staff.active, then |-> "login"]) /\ UNCHANGED sessionVars

StaffRefreshRead(r) ==
  /\ staff.refresh # 0
  /\ Begin(r, "read active", [then |-> "refresh"]) /\ UNCHANGED sessionVars

ReadActive(r) ==
  /\ pc[r] = "read active"
  /\ Continue(r, "blacklist", [old |-> staff.active, then |-> "refresh"]) /\ UNCHANGED sessionVars

StaffLogout(r) ==
  /\ AcceptsStaff(staff.active) /\ staff.active # 0
  /\ Begin(r, "blacklist", [old |-> staff.active, then |-> "logout"]) /\ UNCHANGED sessionVars

\* Mutant of Superseded: a token is not put on the list.
SupersededNot(id) == staff.blacklist

Superseded(id) == staff.blacklist \cup ({id} \ {0})

Blacklist(r) ==
  /\ pc[r] = "blacklist" /\ staff' = [staff EXCEPT !.blacklist = Superseded(job[r].old)]
  /\ revoked' = revoked \cup ({job[r].old} \ {0})
  /\ IF job[r].then = "logout" THEN UNCHANGED nextId /\ Continue(r, "forget staff", job[r])
     ELSE NewId /\ Continue(r, "save active", [id |-> nextId, then |-> job[r].then])
  /\ UNCHANGED <<account, sessions, expired, tokens, links, barred, exchanged>>

\* The refresh token of an employee is not rotated.
SaveActive(r) ==
  /\ pc[r] = "save active" /\ staff' = [staff EXCEPT !.active = job[r].id]
  /\ IF job[r].then = "login" THEN Continue(r, "save refresh", job[r]) ELSE Finish(r)
  /\ UNCHANGED <<account, sessions, expired, tokens, links, nextId, revoked, barred, exchanged>>

SaveRefresh(r) ==
  /\ pc[r] = "save refresh" /\ staff' = [staff EXCEPT !.refresh = job[r].id]
  /\ Finish(r)
  /\ UNCHANGED <<account, sessions, expired, tokens, links, nextId, revoked, barred, exchanged>>

ForgetActive(r) ==
  /\ pc[r] = "forget staff" /\ staff' = [staff EXCEPT !.active = 0]
  /\ Continue(r, "forget refresh", job[r])
  /\ UNCHANGED <<account, sessions, expired, tokens, links, nextId, revoked, barred, exchanged>>

ForgetRefresh(r) ==
  /\ pc[r] = "forget refresh" /\ staff' = [staff EXCEPT !.refresh = 0]
  /\ barred' = barred \cup ({staff.refresh} \ {0}) /\ Finish(r)
  /\ UNCHANGED <<account, sessions, expired, tokens, links, nextId, revoked, exchanged>>

Next ==
  \/ \E r \in Requests :
       \/ RegisterRead(r) \/ InsertCustomer(r) \/ Login(r) \/ GoogleLogin(r) \/ Link(r)
       \/ CountSessions(r) \/ TrimSessions(r) \/ AddSession(r) \/ AddToken(r)
       \/ \E id \in 1..MaxIds : RefreshRead(r, id) \/ Logout(r, id)
       \/ DropSession(r) \/ DropToken(r)
       \/ \E l \in 1..2 : ForgotPassword(r, l) \/ ResetRead(r, l)
       \/ SetPassword(r) \/ DropLink(r) \/ ClearSessions(r) \/ ClearTokens(r) \/ Lock(r)
       \/ StaffLoginRead(r) \/ StaffRefreshRead(r) \/ ReadActive(r) \/ StaffLogout(r)
       \/ Blacklist(r) \/ SaveActive(r) \/ SaveRefresh(r) \/ ForgetActive(r) \/ ForgetRefresh(r)
       \/ GiveUp(r) /\ UNCHANGED sessionVars
  \/ Expire

-----------------------------------------------------------------------------
\* The type of every variable; a session and a refresh token have an id given
\* out, and no two sessions expire at once.
TypeOK ==
  /\ HandlersTypeOK
  /\ account \in Customer /\ staff \in Staff /\ nextId \in 1..MaxIds+1
  /\ DOMAIN sessions \cup expired \cup tokens \cup revoked \cup barred \subseteq 1..nextId-1
  /\ \A x, y \in DOMAIN sessions : sessions[x] = sessions[y] => x = y
  /\ links \subseteq 1..2 /\ exchanged \subseteq (1..nextId-1) \X (1..nextId-1)

\* Under any interleaving: the access token of a session that was logged out, refreshed,
\* superseded or met by a password reset is refused from then on.
RevokedStaysOut == \A id \in revoked : ~AcceptsCustomer(id) /\ ~AcceptsStaff(id)

\* While handlers do not overlap, a session that was ended cannot be refreshed either,
\* and no refresh token buys two sessions, wherever a refresh is cut short.
RevokedCannotRefresh ==
  /\ tokens \cap revoked = {} /\ staff.refresh \notin barred
  /\ \A x, y \in exchanged : x[1] = y[1] => x = y

\* While handlers do not overlap, a customer has at most Cap sessions.
FewSessions == Cardinality(DOMAIN sessions) <= Cap
=============================================================================
