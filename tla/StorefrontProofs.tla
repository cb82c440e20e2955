-------------------------- MODULE StorefrontProofs --------------------------
(***************************************************************************)
(* What holds of components of the storefront for any number of customers, *)
(* rows and handlers at once, or for any number of handlers one after the  *)
(* other.  Each component is an instance; its specification lets its own   *)
(* handlers run, as the runs of MCStorefront do.                           *)
(***************************************************************************)
EXTENDS SumsProofs

CONSTANTS
  Requests, MaxServed, Cap, MaxIds, Tickets, Staff, Editors, Receipts,
  NoReceipt, Quantity, InitialStock, Earned, InitialPoints, Warranted,
  Decisions, Asked, MaxRequests, TierIds, Names, Customers, MaxPoints,
  MaxAddresses, MaxAvatars, AddressIds

VARIABLES
  pc, job, served, account, sessions, expired, tokens, links, staff, nextId,
  revoked, barred, exchanged, gateway, payment, paidBy, orderStatus, captured,
  sent, confirmedBy, tickets, log, aged, late, torn, orders, requests, resolutions,
  stock, points, tiers, nextTier, memberPoints, addresses, nextAddress,
  mailsOn, avatar, uploads, changed, uncounted

Auth == INSTANCE Sessions
Pay == INSTANCE Payments
Support == INSTANCE SupportTickets
Back == INSTANCE Returns
Tier == INSTANCE MembershipTiers WITH points <- memberPoints
Profile == INSTANCE CustomerProfile

\* No request is under way.
Quiet ==
  pc = [r \in Requests |-> "idle"] /\ job = [r \in Requests |-> <<>>] /\ served = 0

\* Every slot has a step and what its handler has read.
Slots == pc = [r \in Requests |-> pc[r]] /\ job = [r \in Requests |-> job[r]]

\* Handlers do not overlap.
OneAtATime == \A r, q \in Requests : r = q

-----------------------------------------------------------------------------
(* Sessions: the access token of a session that was ended stays refused, however logins,     *)
(* refreshes, logouts and resets interleave.  An id is given out once, to a customer or to   *)
(* an employee, and the only handler that can still add its session is the one it was given  *)
(* to; and that handler is past adding it before any other can meet the id.                  *)

\* The component counts as FiniteSets does.
LEMMA SessionsCounted == \A S : Auth!Cardinality(S) = Cardinality(S)
  BY DEF Auth!Cardinality, Cardinality

AuthStart == Auth!SessionsInit /\ Quiet

authVars == <<Auth!sessionVars, Auth!handling>>

AuthSpec == AuthStart /\ [][Auth!Next]_authVars

\* The steps before the session of a new id is added.
Pending == {"count", "trim", "add session"}

\* The ids that a handler at step l holds in j: a customer's, and an employee's.
CustomerIds(l, j) ==
  IF l \in Pending \cup {"add token", "drop session", "drop token"} THEN {j.id}
  ELSE IF l = "clear tokens" THEN j.ended ELSE {}

StaffIds(l, j) ==
  IF l = "blacklist" THEN {j.old} ELSE IF l = "save active" THEN {j.id} ELSE {}

\* The ids that were given out when n is the next one.
Given(n) == 1..n-1

\* All ids were given out.
IdsGiven ==
  /\ nextId \in Nat \ {0}
  /\ DOMAIN sessions \cup tokens \cup revoked \cup staff.blacklist \subseteq Given(nextId)
  /\ staff.active \in {0} \cup Given(nextId)
  /\ \A r \in Requests : /\ CustomerIds(pc[r], job[r]) \subseteq Given(nextId)
                         /\ StaffIds(pc[r], job[r]) \subseteq {0} \cup Given(nextId)

\* No id is a customer's and an employee's.
IdsApart ==
  /\ (DOMAIN sessions \cup tokens) \cap (staff.blacklist \cup {staff.active}) = {}
  /\ \A r \in Requests :
       /\ CustomerIds(pc[r], job[r]) \cap (staff.blacklist \cup {staff.active}) = {}
       /\ StaffIds(pc[r], job[r]) \cap (DOMAIN sessions \cup tokens) = {}
  /\ \A r, q \in Requests : CustomerIds(pc[r], job[r]) \cap StaffIds(pc[q], job[q]) = {}

\* The id of a session that is still to be added is nowhere else.
NewIdsAreNew ==
  \A r \in Requests : pc[r] \in Pending =>
    /\ job[r].id \notin DOMAIN sessions \cup tokens \cup revoked
    /\ \A q \in Requests \ {r} : job[r].id \notin CustomerIds(pc[q], job[q])

\* What was ended is not in force.
EndedIsOut ==
  /\ revoked \cap DOMAIN sessions = {}
  /\ \A id \in revoked \ staff.blacklist :
       id # staff.active /\ \A r \in Requests : id \notin StaffIds(pc[r], job[r])
  /\ \A r \in Requests : pc[r] \in {"drop token", "clear tokens"} =>
       CustomerIds(pc[r], job[r]) \cap DOMAIN sessions = {}

SessionsInv ==
  /\ Slots /\ staff =
         [active |-> staff.active, refresh |-> staff.refresh, blacklist |-> staff.blacklist]
  /\ IdsGiven /\ IdsApart /\ NewIdsAreNew /\ EndedIsOut

\* The next id is a new one.
LEMMA GivenGrows ==
  ASSUME NEW n \in Nat \ {0}
  PROVE  /\ Given(n + 1) = Given(n) \cup {n} /\ n \notin Given(n) /\ n # 0 /\ 0 \notin Given(n)
         /\ n + 1 \in Nat \ {0} /\ n + 1 # n
BY DEF Given

\* At the start nobody holds an id.
LEMMA SessionsInvInit == AuthStart => SessionsInv
<1> SUFFICES ASSUME AuthStart PROVE SessionsInv
  OBVIOUS
<1>1. /\ DOMAIN sessions = {} /\ tokens = {} /\ revoked = {} /\ nextId = 1
      /\ staff = [active |-> 0, refresh |-> 0, blacklist |-> {}]
  BY DEF AuthStart, Auth!SessionsInit
<1>2. Slots /\ \A r \in Requests : pc[r] = "idle"
  BY DEF AuthStart, Quiet, Slots
<1>3. \A r \in Requests : CustomerIds(pc[r], job[r]) = {} /\ StaffIds(pc[r], job[r]) = {}
  BY <1>2 DEF CustomerIds, StaffIds, Pending
<1>4. IdsGiven
  <2>1. nextId \in Nat \ {0} /\ staff.active = 0 /\ staff.blacklist = {}
    BY <1>1
  <2> QED
    BY <1>1, <1>3, <2>1 DEF IdsGiven
<1>6. IdsApart
  BY <1>1, <1>3 DEF IdsApart
<1>5. NewIdsAreNew /\ EndedIsOut
  BY <1>1, <1>2 DEF NewIdsAreNew, EndedIsOut, Pending
<1> QED
  BY <1>1, <1>2, <1>4, <1>5, <1>6 DEF SessionsInv

\* A handler goes on with ids it holds or has met; it adds no session, and what it ends is
\* not in force.
LEMMA IdsAreKept ==
  ASSUME SessionsInv, NEW r \in Requests, Slots',
         \A q \in Requests \ {r} : pc'[q] = pc[q] /\ job'[q] = job[q],
         UNCHANGED <<staff, nextId>>, DOMAIN sessions' \subseteq DOMAIN sessions,
         StaffIds(pc'[r], job'[r]) = {},
         CustomerIds(pc'[r], job'[r]) \subseteq
           DOMAIN sessions \cup tokens \cup CustomerIds(pc[r], job[r]),
         pc'[r] \in Pending => pc[r] \in Pending /\ job'[r].id = job[r].id /\ revoked' = revoked
                                 /\ tokens' = tokens,
         tokens' \subseteq tokens \cup CustomerIds(pc[r], job[r]),
         revoked' \subseteq revoked \cup CustomerIds(pc[r], job[r]),
         revoked' = revoked \/ pc[r] \in {"drop token", "clear tokens"},
         pc'[r] \in {"drop token", "clear tokens"} =>
           CustomerIds(pc'[r], job'[r]) \cap DOMAIN sessions' = {}
  PROVE  SessionsInv'
<1> USE DEF SessionsInv
<1>1. IdsGiven'
  BY DEF IdsGiven
<1>2. IdsApart'
  <2>1. \A q \in Requests : StaffIds(pc'[q], job'[q]) \subseteq StaffIds(pc[q], job[q])
    OBVIOUS
  <2>2. \A q \in Requests : CustomerIds(pc'[q], job'[q]) \subseteq
          DOMAIN sessions \cup tokens \cup CustomerIds(pc[q], job[q])
    OBVIOUS
  <2> QED
    BY <2>1, <2>2 DEF IdsApart
<1>3. NewIdsAreNew'
  <2>1. SUFFICES ASSUME NEW q \in Requests, pc'[q] \in Pending
        PROVE  /\ job'[q].id \notin DOMAIN sessions' \cup tokens' \cup revoked'
               /\ \A s \in Requests \ {q} : job'[q].id \notin CustomerIds(pc'[s], job'[s])
    BY DEF NewIdsAreNew
  <2>2. pc[q] \in Pending /\ job'[q].id = job[q].id
    BY <2>1
  <2>3. job[q].id \notin DOMAIN sessions \cup tokens \cup revoked
    BY <2>2 DEF NewIdsAreNew
  <2>4. q # r => job[q].id \notin CustomerIds(pc[r], job[r])
    BY <2>2 DEF NewIdsAreNew
  <2>5. \A s \in Requests \ {q} : job[q].id \notin CustomerIds(pc'[s], job'[s])
    BY <2>2, <2>3, <2>4 DEF NewIdsAreNew
  <2> QED
    BY <2>1, <2>2, <2>3, <2>4, <2>5
<1>4. EndedIsOut'
  <2>1. revoked' \cap DOMAIN sessions' = {}
    BY DEF EndedIsOut
  <2>2. ASSUME NEW id \in revoked' \ staff.blacklist
        PROVE  id # staff.active /\ \A q \in Requests : id \notin StaffIds(pc'[q], job'[q])
    BY <2>2 DEF EndedIsOut, IdsApart
  <2>3. \A q \in Requests : pc'[q] \in {"drop token", "clear tokens"} =>
          CustomerIds(pc'[q], job'[q]) \cap DOMAIN sessions' = {}
    BY DEF EndedIsOut
  <2> QED
    BY <2>1, <2>2, <2>3 DEF EndedIsOut
<1> QED
  BY <1>1, <1>2, <1>3, <1>4

\* A handler gets a new id for a customer.
LEMMA IdIsGiven ==
  ASSUME SessionsInv, NEW r \in Requests, Slots',
         \A q \in Requests \ {r} : pc'[q] = pc[q] /\ job'[q] = job[q],
         UNCHANGED <<staff, sessions>>, nextId' = nextId + 1,
         pc'[r] = "count", job'[r].id = nextId, tokens' \subseteq tokens,
         revoked' = revoked \/ (pc[r] = "drop token" /\ revoked' = revoked \cup {job[r].id})
  PROVE  SessionsInv'
<1> USE DEF SessionsInv
<1>1. CustomerIds(pc'[r], job'[r]) = {nextId} /\ StaffIds(pc'[r], job'[r]) = {}
  BY DEF CustomerIds, StaffIds, Pending
<1>2. pc[r] = "drop token" => CustomerIds(pc[r], job[r]) = {job[r].id}
  BY DEF CustomerIds, Pending
<1>3. nextId \in Nat \ {0}
  BY DEF IdsGiven
<1>4. /\ Given(nextId') = Given(nextId) \cup {nextId} /\ nextId \notin {0} \cup Given(nextId)
      /\ nextId' \in Nat \ {0}
  BY <1>3, GivenGrows
<1>5. IdsGiven'
  BY <1>1, <1>2, <1>4 DEF IdsGiven
<1>6. /\ nextId \notin DOMAIN sessions \cup tokens \cup revoked \cup staff.blacklist \cup
           {staff.active}
      /\ \A q \in Requests : nextId \notin CustomerIds(pc[q], job[q]) \cup StaffIds(pc[q], job[q])
  BY <1>4 DEF IdsGiven
<1>7. IdsApart'
  <2>1. tokens' \subseteq tokens /\ DOMAIN sessions' = DOMAIN sessions /\ staff' = staff
    OBVIOUS
  <2>0. ASSUME NEW q \in Requests
        PROVE  /\ CustomerIds(pc'[q], job'[q]) \subseteq CustomerIds(pc[q], job[q]) \cup {nextId}
               /\ StaffIds(pc'[q], job'[q]) \subseteq StaffIds(pc[q], job[q])
    <3>1. CASE q = r
      BY <1>1, <3>1
    <3>2. CASE q # r
      BY <3>2
    <3> QED
      BY <3>1, <3>2
  <2>2. ASSUME NEW q \in Requests
        PROVE  /\ CustomerIds(pc'[q], job'[q]) \cap (staff.blacklist \cup {staff.active}) = {}
               /\ StaffIds(pc'[q], job'[q]) \cap (DOMAIN sessions \cup tokens) = {}
    <3>1. /\ CustomerIds(pc[q], job[q]) \cap (staff.blacklist \cup {staff.active}) = {}
          /\ StaffIds(pc[q], job[q]) \cap (DOMAIN sessions \cup tokens) = {}
      BY DEF IdsApart
    <3>2. nextId \notin staff.blacklist \cup {staff.active}
      BY <1>6
    <3>3. CustomerIds(pc'[q], job'[q]) \cap (staff.blacklist \cup {staff.active}) = {}
      <4> HIDE DEF SessionsInv
      <4> DEFINE C == CustomerIds(pc'[q], job'[q])
                 D == CustomerIds(pc[q], job[q])
                 E == staff.blacklist \cup {staff.active}
      <4>1. C \subseteq D \cup {nextId} /\ D \cap E = {} /\ nextId \notin E
        BY <2>0, <3>1, <3>2
      <4> HIDE DEF C, D, E
      <4>2. C \cap E = {}
        BY <4>1
      <4> QED
        BY <4>2 DEF C, E
    <3>4. StaffIds(pc'[q], job'[q]) \cap (DOMAIN sessions \cup tokens) = {}
      BY <2>0, <3>1
    <3> QED
      BY <3>3, <3>4
  <2>3. ASSUME NEW q \in Requests, NEW u \in Requests
        PROVE  CustomerIds(pc'[q], job'[q]) \cap StaffIds(pc'[u], job'[u]) = {}
    <3>1. CustomerIds(pc[q], job[q]) \cap StaffIds(pc[u], job[u]) = {}
      BY DEF IdsApart
    <3>2. nextId \notin StaffIds(pc[u], job[u])
      BY <1>6
    <3> HIDE DEF SessionsInv
    <3> QED
      BY <2>0, <3>1, <3>2
  <2> QED
    BY <2>1, <2>2, <2>3 DEF IdsApart
<1>8. NewIdsAreNew'
  <2>1. SUFFICES ASSUME NEW q \in Requests, pc'[q] \in Pending
        PROVE  /\ job'[q].id \notin DOMAIN sessions' \cup tokens' \cup revoked'
               /\ \A s \in Requests \ {q} : job'[q].id \notin CustomerIds(pc'[s], job'[s])
    BY DEF NewIdsAreNew
  <2>2. CASE q = r
    BY <1>1, <1>2, <1>6, <2>2
  <2>3. CASE q # r
    <3>1. /\ job[q].id \notin DOMAIN sessions \cup tokens \cup revoked /\ job[q].id # nextId
          /\ \A s \in Requests \ {q} : job[q].id \notin CustomerIds(pc[s], job[s])
      <4>1. pc[q] \in Pending /\ CustomerIds(pc[q], job[q]) = {job[q].id}
        BY <2>1, <2>3 DEF CustomerIds
      <4> QED
        BY <1>6, <4>1 DEF NewIdsAreNew
    <3> QED
      BY <1>1, <1>2, <2>3, <3>1
  <2> QED
    BY <2>2, <2>3
<1>9. EndedIsOut'
  <2>1. revoked' \cap DOMAIN sessions' = {}
    BY <1>2 DEF EndedIsOut
  <2>2. ASSUME NEW id \in revoked' \ staff.blacklist
        PROVE  id # staff.active /\ \A q \in Requests : id \notin StaffIds(pc'[q], job'[q])
    BY <1>1, <1>2, <2>2 DEF EndedIsOut, IdsApart
  <2>3. \A q \in Requests : pc'[q] \in {"drop token", "clear tokens"} =>
          CustomerIds(pc'[q], job'[q]) \cap DOMAIN sessions' = {}
    BY DEF EndedIsOut
  <2> QED
    BY <2>1, <2>2, <2>3 DEF EndedIsOut
<1> QED
  BY <1>5, <1>7, <1>8, <1>9

\* Every step of every handler.
LEMMA SessionsInvNext == SessionsInv /\ [Auth!Next]_authVars => SessionsInv'
<1> SUFFICES ASSUME SessionsInv, [Auth!Next]_authVars PROVE SessionsInv'
  OBVIOUS
<1>0. Slots
  BY DEF SessionsInv
<1>a. ASSUME NEW r \in Requests, NEW l, NEW j, Auth!Continue(r, l, j) \/ Auth!Begin(r, l, j)
      PROVE  /\ Slots' /\ pc'[r] = l /\ job'[r] = j
             /\ \A q \in Requests \ {r} : pc'[q] = pc[q] /\ job'[q] = job[q]
  BY <1>a, <1>0 DEF Slots, Auth!Continue, Auth!Begin
<1>b. ASSUME NEW r \in Requests, Auth!Finish(r)
      PROVE  /\ Slots' /\ pc'[r] = "idle" /\ CustomerIds(pc'[r], job'[r]) = {}
             /\ StaffIds(pc'[r], job'[r]) = {} /\ pc'[r] \notin Pending \cup {"drop token",
                    "clear tokens"}
             /\ \A q \in Requests \ {r} : pc'[q] = pc[q] /\ job'[q] = job[q]
  BY <1>b, <1>0 DEF Slots, Auth!Finish, CustomerIds, StaffIds, Pending
<1>c. ASSUME UNCHANGED <<pc, job, sessions, tokens, staff, nextId, revoked>> PROVE SessionsInv'
  BY <1>c DEF SessionsInv, Slots, IdsGiven, IdsApart, NewIdsAreNew, EndedIsOut
\* Handlers that hold no ids, before and after.
<1>1. ASSUME NEW r \in Requests,
             \/ Auth!RegisterRead(r) \/ Auth!SetPassword(r) \/ Auth!DropLink(r)
                    \/ Auth!StaffRefreshRead(r)
             \/ \E l \in 1..2 : Auth!ResetRead(r, l)
      PROVE  SessionsInv'
  <2>1. UNCHANGED <<sessions, tokens, staff, nextId, revoked>>
    BY <1>1 DEF Auth!RegisterRead, Auth!SetPassword, Auth!DropLink, Auth!StaffRefreshRead,
       Auth!ResetRead, Auth!sessionVars
  <2>2. PICK l \in {"register", "drop link", "clear sessions", "read active", "set password"} :
          \E j : Auth!Continue(r, l, j) \/ Auth!Begin(r, l, j)
    BY <1>1 DEF Auth!RegisterRead, Auth!SetPassword, Auth!DropLink, Auth!StaffRefreshRead,
       Auth!ResetRead
  <2>3. PICK j : Auth!Continue(r, l, j) \/ Auth!Begin(r, l, j)
    BY <2>2
  <2>4. CustomerIds(l, j) = {} /\ StaffIds(l, j) = {} /\ l \notin Pending \cup {"drop token",
          "clear tokens"}
    BY DEF CustomerIds, StaffIds, Pending
  <2>9. /\ Slots' /\ pc'[r] = l /\ job'[r] = j
        /\ \A q \in Requests \ {r} : pc'[q] = pc[q] /\ job'[q] = job[q]
    BY <2>3, <1>a
  <2> QED
    BY <2>1, <2>3, <2>4, <2>9, IdsAreKept
<1>2. ASSUME NEW r \in Requests, Auth!InsertCustomer(r) \/ Auth!Login(r) \/ Auth!Link(r)
      PROVE SessionsInv'
  <2>1. /\ Auth!Continue(r, "count", Auth!Issue(0)) \/ Auth!Begin(r, "count", Auth!Issue(0))
        /\ nextId' = nextId + 1 /\ UNCHANGED <<sessions, tokens, staff, revoked>>
    BY <1>2 DEF Auth!InsertCustomer, Auth!Login, Auth!Link, Auth!NewId
  <2>9. /\ Slots' /\ pc'[r] = "count" /\ job'[r] = Auth!Issue(0)
        /\ \A q \in Requests \ {r} : pc'[q] = pc[q] /\ job'[q] = job[q]
    BY <2>1, <1>a
  <2>10. job'[r].id = nextId
    BY <2>9 DEF Auth!Issue
  <2> QED
    BY <2>1, <2>9, <2>10, IdIsGiven
<1>3. ASSUME NEW r \in Requests, Auth!GoogleLogin(r) PROVE SessionsInv'
  <2>0. UNCHANGED <<sessions, tokens, staff, revoked>>
    BY <1>3 DEF Auth!GoogleLogin
  <2>1. CASE account.google
    <3>1. Auth!Begin(r, "count", Auth!Issue(0)) /\ nextId' = nextId + 1
      BY <1>3, <2>1 DEF Auth!GoogleLogin, Auth!NewId
    <3>9. /\ Slots' /\ pc'[r] = "count" /\ job'[r] = Auth!Issue(0)
          /\ \A q \in Requests \ {r} : pc'[q] = pc[q] /\ job'[q] = job[q]
      BY <3>1, <1>a
    <3>10. job'[r].id = nextId
      BY <3>9 DEF Auth!Issue
    <3> QED
      BY <2>0, <3>1, <3>9, <3>10, IdIsGiven
  <2>2. CASE ~account.google
    <3>1. UNCHANGED nextId /\ \E l \in {"link", "register"} : \E j : Auth!Begin(r, l, j)
      BY <1>3, <2>2 DEF Auth!GoogleLogin
    <3>2. PICK l \in {"link", "register"} : \E j : Auth!Begin(r, l, j)
      BY <3>1
    <3>3. PICK j : Auth!Begin(r, l, j)
      BY <3>2
    <3>4. CustomerIds(l, j) = {} /\ StaffIds(l, j) = {} /\ l \notin Pending \cup {"drop token",
            "clear tokens"}
      BY DEF CustomerIds, StaffIds, Pending
    <3>9. /\ Slots' /\ pc'[r] = l /\ job'[r] = j
          /\ \A q \in Requests \ {r} : pc'[q] = pc[q] /\ job'[q] = job[q]
      BY <3>3, <1>a
    <3> QED
      BY <2>0, <3>1, <3>3, <3>4, <3>9, IdsAreKept
  <2> QED
    BY <2>1, <2>2
<1>4. ASSUME NEW r \in Requests, Auth!CountSessions(r) \/ Auth!TrimSessions(r) PROVE SessionsInv'
  <2>1. /\ pc[r] \in Pending /\ UNCHANGED <<tokens, staff, nextId, revoked>>
        /\ DOMAIN sessions' \subseteq DOMAIN sessions
    BY <1>4 DEF Auth!CountSessions, Auth!TrimSessions, Auth!Restrict, Pending
  <2>2. PICK l \in Pending : \E j : j.id = job[r].id /\ Auth!Continue(r, l, j)
    <3>1. CASE Auth!CountSessions(r)
      BY <3>1 DEF Auth!CountSessions, Pending
    <3>2. CASE Auth!TrimSessions(r)
      BY <3>2 DEF Auth!TrimSessions, Pending
    <3> QED
      BY <1>4, <3>1, <3>2
  <2>3. PICK j : j.id = job[r].id /\ Auth!Continue(r, l, j)
    BY <2>2
  <2>4. /\ CustomerIds(l, j) = {job[r].id} /\ StaffIds(l, j) = {} /\ CustomerIds(pc[r], job[r]) =
             {job[r].id}
        /\ l \notin {"drop token", "clear tokens"}
    BY <2>1, <2>3 DEF CustomerIds, StaffIds, Pending
  <2>9. /\ Slots' /\ pc'[r] = l /\ job'[r] = j
        /\ \A q \in Requests \ {r} : pc'[q] = pc[q] /\ job'[q] = job[q]
    BY <2>3, <1>a
  <2> QED
    BY <2>1, <2>3, <2>4, <2>9, IdsAreKept
<1>5. ASSUME NEW r \in Requests, Auth!AddSession(r) PROVE SessionsInv'
  <2>1. /\ pc[r] = "add session" /\ UNCHANGED <<tokens, staff, nextId, revoked>>
        /\ DOMAIN sessions' = DOMAIN sessions \cup
               {job[r].id} /\ Auth!Continue(r, "add token", job[r])
    BY <1>5 DEF Auth!AddSession
  <2>2. /\ Slots' /\ pc'[r] = "add token" /\ job'[r] = job[r]
        /\ \A q \in Requests \ {r} : pc'[q] = pc[q] /\ job'[q] = job[q]
    BY <2>1, <1>a
  <2>3. /\ CustomerIds(pc[r], job[r]) = {job[r].id} /\ CustomerIds(pc'[r], job'[r]) = {job[r].id}
        /\ StaffIds(pc'[r], job'[r]) = {} /\ pc[r] \in Pending /\ pc'[r] \notin Pending
    BY <2>1, <2>2 DEF CustomerIds, StaffIds, Pending
  <2>4. /\ \A q \in Requests : CustomerIds(pc'[q], job'[q]) = CustomerIds(pc[q], job[q])
        /\ \A q \in Requests : StaffIds(pc'[q], job'[q]) \subseteq StaffIds(pc[q], job[q])
    BY <2>2, <2>3
  <2>5. /\ job[r].id \notin DOMAIN sessions \cup tokens \cup revoked
        /\ \A q \in Requests \ {r} : job[r].id \notin CustomerIds(pc[q], job[q])
    BY <2>3 DEF SessionsInv, NewIdsAreNew
  <2>6. IdsGiven' /\ IdsApart'
    BY <2>1, <2>3, <2>4 DEF SessionsInv, IdsGiven, IdsApart
  <2>7. NewIdsAreNew'
    <3>1. ASSUME NEW q \in Requests \ {r}, pc[q] \in Pending PROVE job[q].id # job[r].id
      <4>1. CustomerIds(pc[q], job[q]) = {job[q].id}
        BY <3>1 DEF CustomerIds
      <4> QED
        BY <2>5, <4>1
    <3> QED
      BY <2>1, <2>2, <2>3, <2>4, <3>1 DEF SessionsInv, NewIdsAreNew
  <2>8. EndedIsOut'
    <3>1. revoked' \cap DOMAIN sessions' = {}
      BY <2>1, <2>5 DEF SessionsInv, EndedIsOut
    <3>2. ASSUME NEW id \in revoked' \ staff.blacklist
          PROVE  id # staff.active /\ \A q \in Requests : id \notin StaffIds(pc'[q], job'[q])
      BY <2>1, <2>4, <3>2 DEF SessionsInv, EndedIsOut
    <3>3. ASSUME NEW q \in Requests, pc'[q] \in {"drop token", "clear tokens"}
          PROVE  CustomerIds(pc'[q], job'[q]) \cap DOMAIN sessions' = {}
      <4>1. q # r /\ pc[q] = pc'[q] /\ job'[q] = job[q]
        BY <2>2, <3>3
      <4> QED
        BY <2>1, <2>5, <3>3, <4>1 DEF SessionsInv, EndedIsOut
    <3> QED
      BY <2>1, <3>1, <3>2, <3>3 DEF EndedIsOut
  <2> QED
    BY <2>1, <2>2, <2>6, <2>7, <2>8 DEF SessionsInv
<1>6. ASSUME NEW r \in Requests, Auth!AddToken(r) PROVE SessionsInv'
  <2>1. /\ pc[r] = "add token" /\ UNCHANGED <<sessions, staff, nextId, revoked>>
        /\ tokens' = tokens \cup {job[r].id} /\ Auth!Finish(r)
    BY <1>6 DEF Auth!AddToken
  <2>2. CustomerIds(pc[r], job[r]) = {job[r].id}
    BY <2>1 DEF CustomerIds
  <2> QED
    BY <2>1, <2>2, <1>b, IdsAreKept
<1>7. ASSUME NEW r \in Requests, NEW id, Auth!RefreshRead(r, id) \/ Auth!Logout(r, id)
      PROVE SessionsInv'
  <2>1. UNCHANGED <<sessions, tokens, staff, nextId,
          revoked>> /\ id \in DOMAIN sessions \cup tokens
    BY <1>7 DEF Auth!RefreshRead, Auth!Logout, Auth!AcceptsCustomer, Auth!sessionVars
  <2>2. PICK j : j.id = id /\ Auth!Begin(r, "drop session", j)
    <3>1. CASE Auth!RefreshRead(r, id)
      <4> WITNESS [id |-> id, then |-> "refresh"]
      <4> QED
        BY <3>1 DEF Auth!RefreshRead
    <3>2. CASE Auth!Logout(r, id)
      <4> WITNESS [id |-> id, then |-> "logout"]
      <4> QED
        BY <3>2 DEF Auth!Logout
    <3> QED
      BY <1>7, <3>1, <3>2
  <2>4. CustomerIds("drop session", j) = {id} /\ StaffIds("drop session", j) = {}
    BY <2>2 DEF CustomerIds, StaffIds
  <2>6. /\ Slots' /\ pc'[r] = "drop session" /\ job'[r] = j
        /\ \A q \in Requests \ {r} : pc'[q] = pc[q] /\ job'[q] = job[q]
    BY <2>2, <1>a
  <2>5. "drop session" \notin Pending \cup {"drop token", "clear tokens"}
    BY DEF Pending
  <2> QED
    BY <2>1, <2>4, <2>5, <2>6, IdsAreKept
<1>8. ASSUME NEW r \in Requests, Auth!DropSession(r) PROVE SessionsInv'
  <2>1. /\ pc[r] = "drop session" /\ UNCHANGED <<tokens, staff, nextId, revoked>>
        /\ DOMAIN sessions' =
               DOMAIN sessions \ {job[r].id} /\ Auth!Continue(r, "drop token", job[r])
    BY <1>8 DEF Auth!DropSession, Auth!Restrict
  <2>2. /\ CustomerIds(pc[r], job[r]) = {job[r].id} /\ CustomerIds("drop token", job[r]) =
             {job[r].id}
        /\ StaffIds("drop token", job[r]) = {} /\ "drop token" \notin Pending
    BY <2>1 DEF CustomerIds, StaffIds, Pending
  <2>9. /\ Slots' /\ pc'[r] = "drop token" /\ job'[r] = job[r]
        /\ \A q \in Requests \ {r} : pc'[q] = pc[q] /\ job'[q] = job[q]
    BY <2>1, <1>a
  <2> QED
    BY <2>1, <2>2, <2>9, IdsAreKept
<1>9. ASSUME NEW r \in Requests, Auth!DropToken(r) PROVE SessionsInv'
  <2>1. /\ pc[r] = "drop token" /\ UNCHANGED <<sessions, staff>>
        /\ tokens' \subseteq tokens /\ revoked' = revoked \cup {job[r].id}
    BY <1>9 DEF Auth!DropToken, Auth!Dropped
  <2>2. CASE job[r].then = "refresh"
    <3>1. nextId' = nextId + 1 /\ Auth!Continue(r, "count", Auth!Issue(job[r].id))
      BY <1>9, <2>2 DEF Auth!DropToken, Auth!NewId
    <3>2. /\ Slots' /\ pc'[r] = "count" /\ job'[r] = Auth!Issue(job[r].id)
          /\ \A q \in Requests \ {r} : pc'[q] = pc[q] /\ job'[q] = job[q]
      BY <3>1, <1>a
    <3>3. job'[r].id = nextId
      BY <3>2 DEF Auth!Issue
    <3> QED
      BY <2>1, <3>1, <3>2, <3>3, IdIsGiven
  <2>3. CASE job[r].then # "refresh"
    <3>1. UNCHANGED nextId /\ Auth!Finish(r)
      BY <1>9, <2>3 DEF Auth!DropToken
    <3>2. CustomerIds(pc[r], job[r]) = {job[r].id}
      BY <2>1 DEF CustomerIds
    <3> QED
      BY <2>1, <3>1, <3>2, <1>b, IdsAreKept
  <2> QED
    BY <2>2, <2>3
<1>10. ASSUME NEW r \in Requests, Auth!ClearSessions(r) PROVE SessionsInv'
  <2>1. UNCHANGED <<tokens, staff, nextId, revoked>> /\ DOMAIN sessions' = {}
    BY <1>10 DEF Auth!ClearSessions
  <2>2. PICK j : j.ended = DOMAIN sessions /\ Auth!Continue(r, "clear tokens", j)
    BY <1>10 DEF Auth!ClearSessions
  <2>3. /\ Slots' /\ pc'[r] = "clear tokens" /\ job'[r] = j
        /\ \A q \in Requests \ {r} : pc'[q] = pc[q] /\ job'[q] = job[q]
    BY <2>2, <1>a
  <2>4. /\ CustomerIds("clear tokens", j) = DOMAIN sessions
        /\ StaffIds("clear tokens", j) = {} /\ "clear tokens" \notin Pending
    BY <2>2 DEF CustomerIds, StaffIds, Pending
  <2> QED
    BY <2>1, <2>3, <2>4, IdsAreKept
<1>11. ASSUME NEW r \in Requests, Auth!ClearTokens(r) PROVE SessionsInv'
  <2>1. /\ pc[r] = "clear tokens" /\ UNCHANGED <<sessions, staff, nextId>> /\ tokens' = {}
        /\ revoked' = revoked \cup job[r].ended /\ Auth!Finish(r)
    BY <1>11 DEF Auth!ClearTokens
  <2>2. CustomerIds(pc[r], job[r]) = job[r].ended
    BY <2>1 DEF CustomerIds, Pending
  <2> QED
    BY <2>1, <2>2, <1>b, IdsAreKept
<1>12. ASSUME NEW r \in Requests, Auth!Lock(r) \/ \E l \in 1..2 : Auth!ForgotPassword(r, l)
       PROVE SessionsInv'
  BY <1>12, <1>c DEF Auth!Lock, Auth!ForgotPassword, Auth!AtOnce
<1>13. ASSUME NEW r \in Requests, Auth!StaffLoginRead(r) \/ Auth!ReadActive(r)
              \/ Auth!StaffLogout(r) PROVE SessionsInv'
  <2>1. UNCHANGED <<sessions, tokens, staff, nextId, revoked>>
    BY <1>13 DEF Auth!StaffLoginRead, Auth!ReadActive, Auth!StaffLogout, Auth!sessionVars
  <2>2. PICK j : j.old = staff.active /\ (Auth!Begin(r, "blacklist", j)
          \/ Auth!Continue(r, "blacklist", j))
    <3>1. CASE Auth!StaffLoginRead(r)
      BY <3>1 DEF Auth!StaffLoginRead
    <3>2. CASE Auth!ReadActive(r)
      BY <3>2 DEF Auth!ReadActive
    <3>3. CASE Auth!StaffLogout(r)
      BY <3>3 DEF Auth!StaffLogout
    <3> QED
      BY <1>13, <3>1, <3>2, <3>3
  <2>3. /\ Slots' /\ pc'[r] = "blacklist" /\ job'[r] = j
        /\ \A q \in Requests \ {r} : pc'[q] = pc[q] /\ job'[q] = job[q]
    BY <2>2, <1>a
  <2>4. /\ CustomerIds(pc'[r], job'[r]) = {} /\ StaffIds(pc'[r], job'[r]) = {staff.active}
        /\ pc'[r] \notin Pending
    BY <2>2, <2>3 DEF CustomerIds, StaffIds, Pending
  <2>5. /\ IdsGiven' /\ IdsApart'
    BY <2>1, <2>3, <2>4 DEF SessionsInv, IdsGiven, IdsApart
  <2>6. NewIdsAreNew'
    BY <2>1, <2>3, <2>4 DEF SessionsInv, NewIdsAreNew
  <2>7. EndedIsOut'
    BY <2>1, <2>3, <2>4 DEF SessionsInv, EndedIsOut
  <2> QED
    BY <2>1, <2>3, <2>5, <2>6, <2>7 DEF SessionsInv
<1>14. ASSUME NEW r \in Requests, Auth!Blacklist(r) PROVE SessionsInv'
  <2>1. /\ pc[r] = "blacklist" /\ UNCHANGED <<sessions, tokens>>
        /\ staff' = [staff EXCEPT !.blacklist = staff.blacklist \cup ({job[r].old} \ {0})]
        /\ revoked' = revoked \cup ({job[r].old} \ {0})
    BY <1>14 DEF Auth!Blacklist, Auth!Superseded
  <2>2. PICK l, j :
          /\ Auth!Continue(r, l, j)
          /\ \/ UNCHANGED nextId /\ l = "forget staff"
             \/ nextId' = nextId + 1 /\ l = "save active" /\ j.id = nextId
    <3>1. CASE job[r].then = "logout"
      <4> WITNESS "forget staff", job[r]
      <4> QED
        BY <1>14, <3>1 DEF Auth!Blacklist
    <3>2. CASE job[r].then # "logout"
      <4> WITNESS "save active", [id |-> nextId, then |-> job[r].then]
      <4> QED
        BY <1>14, <3>2 DEF Auth!Blacklist, Auth!NewId
    <3> QED
      BY <3>1, <3>2
  <2>3. /\ Slots' /\ pc'[r] = l /\ job'[r] = j
        /\ \A q \in Requests \ {r} : pc'[q] = pc[q] /\ job'[q] = job[q]
    BY <2>2, <1>a
  <2>4. /\ StaffIds(pc[r], job[r]) = {job[r].old} /\ CustomerIds(pc'[r], job'[r]) = {}
        /\ StaffIds(pc'[r], job'[r]) \subseteq {nextId} /\ pc'[r] \notin Pending
        /\ pc'[r] \notin {"drop token", "clear tokens"}
        /\ nextId' = nextId => StaffIds(pc'[r], job'[r]) = {}
    <3>1. nextId # nextId + 1
      BY GivenGrows DEF SessionsInv, IdsGiven
    <3>2. CASE l = "forget staff" /\ UNCHANGED nextId
      BY <2>1, <2>3, <3>2 DEF CustomerIds, StaffIds, Pending
    <3>3. CASE l = "save active" /\ j.id = nextId /\ nextId' = nextId + 1
      BY <2>1, <2>3, <3>1, <3>3 DEF CustomerIds, StaffIds, Pending
    <3> QED
      BY <2>2, <3>2, <3>3
  <2>5. /\ staff'.active = staff.active
        /\ staff'.blacklist = staff.blacklist \cup ({job[r].old} \ {0})
        /\ staff' = [active |-> staff'.active, refresh |-> staff'.refresh, blacklist |-> staff'.blacklist]
    BY <2>1 DEF SessionsInv
  <2>6. /\ Given(nextId) \subseteq Given(nextId') /\ nextId \notin {0} \cup Given(nextId)
        /\ (nextId' # nextId => nextId \in Given(nextId')) /\ nextId' \in Nat \ {0}
        /\ 0 \notin Given(nextId)
    <3>1. nextId \in Nat \ {0}
      BY DEF SessionsInv, IdsGiven
    <3>2. nextId' = nextId \/ nextId' = nextId + 1
      BY <2>2
    <3> QED
      BY <3>1, <3>2, GivenGrows
  <2>7. job[r].old \in {0} \cup Given(nextId) /\ ({job[r].old} \ {0}) \subseteq Given(nextId)
    BY <2>4 DEF SessionsInv, IdsGiven
  <2>8. IdsGiven'
    <3>1. DOMAIN sessions' \cup tokens' \cup revoked' \cup staff'.blacklist \subseteq
            Given(nextId')
      BY <2>1, <2>5, <2>6, <2>7 DEF SessionsInv, IdsGiven
    <3>2. staff'.active \in {0} \cup Given(nextId')
      BY <2>5, <2>6 DEF SessionsInv, IdsGiven
    <3>3. ASSUME NEW q \in Requests
          PROVE  /\ CustomerIds(pc'[q], job'[q]) \subseteq Given(nextId')
                 /\ StaffIds(pc'[q], job'[q]) \subseteq {0} \cup Given(nextId')
      <4>1. CASE q = r
        BY <2>4, <2>6, <4>1
      <4>2. CASE q # r
        BY <2>3, <2>6, <4>2 DEF SessionsInv, IdsGiven
      <4> QED
        BY <4>1, <4>2
    <3> QED
      BY <2>6, <3>1, <3>2, <3>3 DEF IdsGiven
  <2>9. /\ nextId \notin DOMAIN sessions \cup tokens \cup revoked \cup revoked'
        /\ \A q \in Requests : nextId \notin CustomerIds(pc[q], job[q])
    BY <2>1, <2>6, <2>7 DEF SessionsInv, IdsGiven
  <2>10. IdsApart'
    <3>1. ASSUME NEW q \in Requests
          PROVE  /\ CustomerIds(pc'[q], job'[q]) \subseteq CustomerIds(pc[q], job[q])
                 /\ StaffIds(pc'[q], job'[q]) \subseteq StaffIds(pc[q], job[q]) \cup {nextId}
      BY <2>3, <2>4
    <3>2. (DOMAIN sessions \cup tokens) \cap (staff'.blacklist \cup {staff'.active}) = {}
      BY <2>4, <2>5 DEF SessionsInv, IdsApart
    <3>3. ASSUME NEW q \in Requests
          PROVE  /\ CustomerIds(pc'[q], job'[q]) \cap (staff'.blacklist \cup {staff'.active}) = {}
                 /\ StaffIds(pc'[q], job'[q]) \cap (DOMAIN sessions \cup tokens) = {}
      <4>1. staff'.blacklist \cup {staff'.active} \subseteq
              staff.blacklist \cup {staff.active} \cup StaffIds(pc[r], job[r])
        BY <2>4, <2>5
      <4>2. CustomerIds(pc[q], job[q]) \cap
              (staff.blacklist \cup {staff.active} \cup StaffIds(pc[r], job[r])) = {}
        BY DEF SessionsInv, IdsApart
      <4>3. (StaffIds(pc[q], job[q]) \cup {nextId}) \cap (DOMAIN sessions \cup tokens) = {}
        BY <2>9 DEF SessionsInv, IdsApart
      <4> QED
        BY <3>1, <4>1, <4>2, <4>3
    <3>4. ASSUME NEW q \in Requests, NEW u \in Requests
          PROVE  CustomerIds(pc'[q], job'[q]) \cap StaffIds(pc'[u], job'[u]) = {}
      BY <2>9, <3>1 DEF SessionsInv, IdsApart
    <3> QED
      BY <2>1, <3>2, <3>3, <3>4 DEF IdsApart
  <2>11. NewIdsAreNew'
    <3>1. ASSUME NEW q \in Requests, pc[q] \in Pending PROVE job[q].id # job[r].old
      <4>1. CustomerIds(pc[q], job[q]) = {job[q].id}
        BY <3>1 DEF CustomerIds
      <4> QED
        BY <2>4, <4>1 DEF SessionsInv, IdsApart
    <3> QED
      BY <2>1, <2>3, <2>4, <3>1 DEF SessionsInv, NewIdsAreNew
  <2>12. EndedIsOut'
    <3>1. revoked' \cap DOMAIN sessions' = {}
      BY <2>1, <2>4 DEF SessionsInv, EndedIsOut, IdsApart
    <3>2. ASSUME NEW id \in revoked' \ staff'.blacklist
          PROVE  id # staff'.active /\ \A q \in Requests : id \notin StaffIds(pc'[q], job'[q])
      <4>1. id \in revoked \ staff.blacklist /\ id # nextId
        BY <2>1, <2>5, <2>9, <3>2
      <4>2. id # staff.active /\ \A q \in Requests : id \notin StaffIds(pc[q], job[q])
        BY <4>1 DEF SessionsInv, EndedIsOut
      <4>3. ASSUME NEW q \in Requests PROVE id \notin StaffIds(pc'[q], job'[q])
        <5>1. CASE q = r
          BY <2>4, <4>1, <5>1
        <5>2. CASE q # r
          BY <2>3, <4>2, <5>2
        <5> QED
          BY <5>1, <5>2
      <4> QED
        BY <2>5, <4>2, <4>3
    <3>3. \A q \in Requests : pc'[q] \in {"drop token", "clear tokens"} =>
            CustomerIds(pc'[q], job'[q]) \cap DOMAIN sessions' = {}
      BY <2>1, <2>3, <2>4 DEF SessionsInv, EndedIsOut
    <3> QED
      BY <3>1, <3>2, <3>3 DEF EndedIsOut
  <2> QED
    BY <2>3, <2>5, <2>8, <2>10, <2>11, <2>12 DEF SessionsInv
<1>15. ASSUME NEW r \in Requests, Auth!SaveActive(r) \/ Auth!ForgetActive(r) PROVE SessionsInv'
  <2>1. PICK id : /\ staff' = [staff EXCEPT !.active = id]
                  /\ id = 0 \/ id \in StaffIds(pc[r], job[r])
    <3>1. CASE Auth!SaveActive(r)
      BY <3>1 DEF Auth!SaveActive, StaffIds
    <3>2. CASE Auth!ForgetActive(r)
      BY <3>2 DEF Auth!ForgetActive
    <3> QED
      BY <1>15, <3>1, <3>2
  <2>2. UNCHANGED <<sessions, tokens, nextId, revoked>>
    BY <1>15 DEF Auth!SaveActive, Auth!ForgetActive
  <2>3. /\ Slots' /\ CustomerIds(pc'[r], job'[r]) = {} /\ StaffIds(pc'[r], job'[r]) = {}
        /\ pc'[r] \notin Pending \cup {"drop token", "clear tokens"}
        /\ \A q \in Requests \ {r} : pc'[q] = pc[q] /\ job'[q] = job[q]
    <3>1. CASE Auth!Finish(r)
      BY <3>1, <1>b
    <3>2. ASSUME NEW l \in {"save refresh", "forget refresh"}, Auth!Continue(r, l, job[r])
          PROVE  /\ Slots' /\ CustomerIds(pc'[r], job'[r]) = {} /\ StaffIds(pc'[r], job'[r]) = {}
                 /\ pc'[r] \notin Pending \cup {"drop token", "clear tokens"}
                 /\ \A q \in Requests \ {r} : pc'[q] = pc[q] /\ job'[q] = job[q]
      BY <3>2, <1>a DEF CustomerIds, StaffIds, Pending
    <3> QED
      BY <1>15, <3>1, <3>2 DEF Auth!SaveActive, Auth!ForgetActive
  <2>4. /\ staff'.active = id /\ staff'.blacklist = staff.blacklist
        /\ staff' = [active |-> staff'.active, refresh |-> staff'.refresh, blacklist |-> staff'.blacklist]
    BY <2>1 DEF SessionsInv
  <2>5. /\ id \in {0} \cup Given(nextId) /\ 0 \notin DOMAIN sessions \cup tokens \cup revoked
        /\ \A q \in Requests : 0 \notin CustomerIds(pc[q], job[q])
    <3>1. 0 \notin Given(nextId)
      BY GivenGrows DEF SessionsInv, IdsGiven
    <3> QED
      BY <2>1, <3>1 DEF SessionsInv, IdsGiven
  <2>6. IdsGiven'
    BY <2>2, <2>3, <2>4, <2>5 DEF SessionsInv, IdsGiven
  <2>7. IdsApart'
    <3>1. id \notin DOMAIN sessions \cup tokens
      BY <2>1, <2>5 DEF SessionsInv, IdsApart
    <3>2. \A q \in Requests : id \notin CustomerIds(pc[q], job[q])
      BY <2>1, <2>5 DEF SessionsInv, IdsApart
    <3>3. \A q \in Requests : /\ CustomerIds(pc'[q], job'[q]) \subseteq CustomerIds(pc[q], job[q])
                              /\ StaffIds(pc'[q], job'[q]) \subseteq StaffIds(pc[q], job[q])
      BY <2>3
    <3> QED
      BY <2>2, <2>4, <3>1, <3>2, <3>3 DEF SessionsInv, IdsApart
  <2>8. NewIdsAreNew'
    BY <2>2, <2>3 DEF SessionsInv, NewIdsAreNew
  <2>9. EndedIsOut'
    <3>1. \A q \in Requests : StaffIds(pc'[q], job'[q]) \subseteq StaffIds(pc[q], job[q])
      BY <2>3
    <3>2. \A k \in revoked \ staff.blacklist : k # id
      BY <2>1, <2>5 DEF SessionsInv, EndedIsOut
    <3>3. ASSUME NEW q \in Requests, pc'[q] \in {"drop token", "clear tokens"}
          PROVE  CustomerIds(pc'[q], job'[q]) \cap DOMAIN sessions' = {}
      <4>1. q # r
        BY <2>3, <3>3
      <4> QED
        BY <2>2, <2>3, <3>3, <4>1 DEF SessionsInv, EndedIsOut
    <3> QED
      BY <2>2, <2>4, <3>1, <3>2, <3>3 DEF SessionsInv, EndedIsOut
  <2> QED
    BY <2>3, <2>4, <2>6, <2>7, <2>8, <2>9 DEF SessionsInv
<1>16. ASSUME NEW r \in Requests, Auth!SaveRefresh(r) \/ Auth!ForgetRefresh(r) PROVE SessionsInv'
  <2>1. Auth!Finish(r) /\ UNCHANGED <<sessions, tokens, nextId, revoked>>
    BY <1>16 DEF Auth!SaveRefresh, Auth!ForgetRefresh
  <2>2. /\ staff'.active = staff.active /\ staff'.blacklist = staff.blacklist
        /\ staff' = [active |-> staff'.active, refresh |-> staff'.refresh, blacklist |-> staff'.blacklist]
    BY <1>16 DEF Auth!SaveRefresh, Auth!ForgetRefresh, SessionsInv
  <2>3. /\ Slots' /\ CustomerIds(pc'[r], job'[r]) = {} /\ StaffIds(pc'[r], job'[r]) = {}
        /\ pc'[r] \notin Pending \cup {"drop token", "clear tokens"}
        /\ \A q \in Requests \ {r} : pc'[q] = pc[q] /\ job'[q] = job[q]
    BY <2>1, <1>b
  <2>4. IdsGiven' /\ IdsApart'
    BY <2>1, <2>2, <2>3 DEF SessionsInv, IdsGiven, IdsApart
  <2>5. NewIdsAreNew'
    BY <2>1, <2>3 DEF SessionsInv, NewIdsAreNew
  <2>6. EndedIsOut'
    BY <2>1, <2>2, <2>3 DEF SessionsInv, EndedIsOut
  <2> QED
    BY <2>2, <2>3, <2>4, <2>5, <2>6 DEF SessionsInv
<1>17. ASSUME NEW r \in Requests, Auth!GiveUp(r), UNCHANGED Auth!sessionVars PROVE SessionsInv'
  <2>1. Auth!Finish(r) /\ UNCHANGED <<sessions, tokens, staff, nextId, revoked>>
    BY <1>17 DEF Auth!GiveUp, Auth!sessionVars
  <2> QED
    BY <2>1, <1>b, IdsAreKept
<1>18. CASE Auth!Expire
  BY <1>18, <1>c DEF Auth!Expire, Auth!handling
<1>19. CASE UNCHANGED authVars
  BY <1>19, <1>c DEF authVars, Auth!sessionVars, Auth!handling
<1> QED
  BY <1>1, <1>2, <1>3, <1>4, <1>5, <1>6, <1>7, <1>8, <1>9, <1>10, <1>11, <1>12, <1>13, <1>14,
     <1>15, <1>16, <1>17, <1>18, <1>19 DEF Auth!Next

\* Under any interleaving of any number of handlers, the access token of a session that was
\* logged out, refreshed, superseded or met by a password reset is refused from then on.
THEOREM EndedSessionsStayOut == AuthSpec => []Auth!RevokedStaysOut
<1>1. SessionsInv => Auth!RevokedStaysOut
  BY DEF SessionsInv, EndedIsOut, Auth!RevokedStaysOut, Auth!AcceptsCustomer, Auth!AcceptsStaff
<1> QED
  BY <1>1, SessionsInvInit, SessionsInvNext, PTL DEF AuthSpec

-----------------------------------------------------------------------------
\* While handlers do not overlap: what is stored for refreshing was not ended, nor given up.
RowsFit ==
  /\ tokens \cap revoked = {}
  /\ barred \subseteq Given(nextId) /\ staff.refresh \in ({0} \cup Given(nextId)) \ barred
  /\ \A x \in exchanged : x[1] \in revoked
  /\ \A x, y \in exchanged : x[1] = y[1] => x = y

\* A handler holds no id that was ended, and a refresh token that it exchanges was not
\* exchanged before.
JobFits(l, j) ==
  /\ l \in Pending \cup {"add token"} =>
       /\ j.id \notin revoked
       /\ j.of # 0 => j.of \in revoked /\ \A x \in exchanged : x[1] # j.of
  /\ l \in {"drop session", "drop token"} /\ j.then = "refresh" => j.id \notin revoked
  /\ l \in {"save active", "save refresh"} => j.id \in Given(nextId) \ barred

RefreshInv == SessionsInv /\ RowsFit /\ \A r \in Requests : JobFits(pc[r], job[r])

\* At the start nothing is stored.
LEMMA RefreshInvInit == AuthStart => RefreshInv
<1> SUFFICES ASSUME AuthStart PROVE RefreshInv
  OBVIOUS
<1>1. SessionsInv
  BY SessionsInvInit
<1>2. /\ tokens = {} /\ revoked = {} /\ barred = {} /\ exchanged = {} /\ staff.refresh = 0
      /\ \A r \in Requests : pc[r] = "idle"
  BY DEF AuthStart, Quiet, Auth!SessionsInit
<1>3. RowsFit
  BY <1>2 DEF RowsFit
<1>4. \A r \in Requests : JobFits(pc[r], job[r])
  BY <1>2 DEF JobFits, Pending
<1> QED
  BY <1>1, <1>3, <1>4 DEF RefreshInv

\* Steps that change none of these rows.
LEMMA RowsStay ==
  ASSUME RefreshInv, UNCHANGED <<tokens, revoked, barred, exchanged>>,
         staff'.refresh = staff.refresh, nextId' = nextId \/ nextId' = nextId + 1
  PROVE  RowsFit'
<1>1. Given(nextId) \subseteq Given(nextId')
  BY GivenGrows DEF RefreshInv, SessionsInv, IdsGiven
<1> QED
  BY <1>1 DEF RefreshInv, RowsFit

\* The next id was neither ended nor given up.
LEMMA NextIsFresh ==
  ASSUME RefreshInv
  PROVE  nextId \notin revoked \cup barred /\ nextId \in
             Given(nextId + 1) /\ 0 \notin Given(nextId)
BY GivenGrows DEF RefreshInv, RowsFit, SessionsInv, IdsGiven

\* Every step, when one handler runs.
LEMMA RefreshInvNext == OneAtATime /\ RefreshInv /\ [Auth!Next]_authVars => RefreshInv'
<1> SUFFICES ASSUME OneAtATime, RefreshInv, [Auth!Next]_authVars PROVE RefreshInv'
  OBVIOUS
<1>0. Slots /\ SessionsInv'
  BY SessionsInvNext DEF RefreshInv, SessionsInv
<1>a. ASSUME NEW r \in Requests, NEW l, NEW j, Auth!Continue(r, l, j) \/ Auth!Begin(r, l, j)
      PROVE  pc'[r] = l /\ job'[r] = j
  BY <1>a, <1>0 DEF Slots, Auth!Continue, Auth!Begin
<1>b. ASSUME NEW r \in Requests, Auth!Finish(r)
      PROVE  pc'[r] = "idle" /\ JobFits(pc[r], job[r])'
  BY <1>b, <1>0 DEF Slots, Auth!Finish, JobFits, Pending
<1>c. ASSUME NEW r \in Requests, JobFits(pc[r], job[r])', RowsFit' PROVE RefreshInv'
  BY <1>c, <1>0 DEF OneAtATime, RefreshInv
<1>d. ASSUME NEW r \in Requests, NEW l, NEW j, Auth!Continue(r, l, j) \/ Auth!Begin(r, l, j),
             l \notin Pending \cup {"add token", "drop session", "drop token", "save active",
                 "save refresh"}
      PROVE  JobFits(pc[r], job[r])'
  BY <1>a, <1>d DEF JobFits
<1>1. ASSUME NEW r \in Requests,
             \/ Auth!RegisterRead(r) \/ Auth!SetPassword(r) \/ Auth!DropLink(r)
                    \/ Auth!StaffRefreshRead(r)
             \/ \E l \in 1..2 : Auth!ResetRead(r, l)
             \/ Auth!StaffLoginRead(r) \/ Auth!ReadActive(r) \/ Auth!StaffLogout(r)
             \/ Auth!ClearSessions(r) \/ Auth!ForgetActive(r)
      PROVE  RefreshInv'
  <2>1. UNCHANGED <<tokens, revoked, barred, exchanged, nextId>> /\ staff'.refresh = staff.refresh
    BY <1>1 DEF Auth!RegisterRead, Auth!SetPassword, Auth!DropLink, Auth!StaffRefreshRead,
       Auth!ResetRead, Auth!StaffLoginRead,
       Auth!ReadActive, Auth!StaffLogout, Auth!ClearSessions, Auth!ForgetActive, Auth!sessionVars,
           RefreshInv, SessionsInv
  <2>2. PICK l \in {"register", "drop link", "clear sessions", "read active", "set password",
                    "blacklist", "clear tokens", "forget refresh"} :
          \E j : Auth!Continue(r, l, j) \/ Auth!Begin(r, l, j)
    BY <1>1 DEF Auth!RegisterRead, Auth!SetPassword, Auth!DropLink, Auth!StaffRefreshRead,
       Auth!ResetRead, Auth!StaffLoginRead,
       Auth!ReadActive, Auth!StaffLogout, Auth!ClearSessions, Auth!ForgetActive
  <2>3. PICK j : Auth!Continue(r, l, j) \/ Auth!Begin(r, l, j)
    BY <2>2
  <2>4. JobFits(pc[r], job[r])'
    BY <1>d, <2>3 DEF Pending
  <2> QED
    BY <1>c, <2>1, <2>4, RowsStay
<1>2. ASSUME NEW r \in Requests, Auth!InsertCustomer(r) \/ Auth!Login(r) \/ Auth!Link(r)
      PROVE RefreshInv'
  <2>1. /\ Auth!Continue(r, "count", Auth!Issue(0)) \/ Auth!Begin(r, "count", Auth!Issue(0))
        /\ nextId' = nextId + 1 /\ UNCHANGED <<tokens, staff, revoked, barred, exchanged>>
    BY <1>2 DEF Auth!InsertCustomer, Auth!Login, Auth!Link, Auth!NewId
  <2>2. pc'[r] = "count" /\ job'[r] = Auth!Issue(0)
    BY <1>a, <2>1
  <2>3. JobFits(pc[r], job[r])'
    BY <2>1, <2>2, NextIsFresh DEF JobFits, Auth!Issue
  <2> QED
    BY <1>c, <2>1, <2>3, RowsStay
<1>3. ASSUME NEW r \in Requests, Auth!GoogleLogin(r) PROVE RefreshInv'
  <2>0. UNCHANGED <<tokens, staff, revoked, barred, exchanged>>
    BY <1>3 DEF Auth!GoogleLogin
  <2>1. CASE account.google
    <3>1. Auth!Begin(r, "count", Auth!Issue(0)) /\ nextId' = nextId + 1
      BY <1>3, <2>1 DEF Auth!GoogleLogin, Auth!NewId
    <3>2. pc'[r] = "count" /\ job'[r] = Auth!Issue(0)
      BY <1>a, <3>1
    <3>3. JobFits(pc[r], job[r])'
      BY <2>0, <3>2, NextIsFresh DEF JobFits, Auth!Issue
    <3> QED
      BY <1>c, <2>0, <3>1, <3>3, RowsStay
  <2>2. CASE ~account.google
    <3>1. UNCHANGED nextId /\ \E l \in {"link", "register"} : \E j : Auth!Begin(r, l, j)
      BY <1>3, <2>2 DEF Auth!GoogleLogin
    <3>2. JobFits(pc[r], job[r])'
      BY <1>d, <3>1 DEF Pending
    <3> QED
      BY <1>c, <2>0, <3>1, <3>2, RowsStay
  <2> QED
    BY <2>1, <2>2
<1>4. ASSUME NEW r \in Requests, Auth!CountSessions(r) \/ Auth!TrimSessions(r)
             \/ Auth!AddSession(r) PROVE RefreshInv'
  <2>1. UNCHANGED <<tokens, staff, nextId, revoked, barred, exchanged>> /\ pc[r] \in Pending
    BY <1>4 DEF Auth!CountSessions, Auth!TrimSessions, Auth!AddSession, Pending
  <2>2. PICK l \in Pending \cup {"add token"} :
          \E j : j.id = job[r].id /\ j.of = job[r].of /\ Auth!Continue(r, l, j)
    <3>1. CASE Auth!CountSessions(r)
      BY <3>1 DEF Auth!CountSessions, Pending
    <3>2. CASE Auth!TrimSessions(r)
      BY <3>2 DEF Auth!TrimSessions, Pending
    <3>3. CASE Auth!AddSession(r)
      BY <3>3 DEF Auth!AddSession
    <3> QED
      BY <1>4, <3>1, <3>2, <3>3
  <2>3. PICK j : j.id = job[r].id /\ j.of = job[r].of /\ Auth!Continue(r, l, j)
    BY <2>2
  <2>4. pc'[r] = l /\ job'[r] = j
    BY <1>a, <2>3
  <2>5. JobFits(pc[r], job[r])
    BY DEF RefreshInv
  <2>6. JobFits(pc[r], job[r])'
    BY <2>1, <2>3, <2>4, <2>5 DEF JobFits, Pending
  <2> QED
    BY <1>c, <2>1, <2>6, RowsStay
<1>5. ASSUME NEW r \in Requests, Auth!AddToken(r) PROVE RefreshInv'
  <2>1. /\ pc[r] = "add token" /\ UNCHANGED <<staff, nextId, revoked, barred>>
        /\ tokens' = tokens \cup {job[r].id} /\ Auth!Finish(r)
        /\ exchanged' = IF job[r].of = 0 THEN exchanged ELSE exchanged \cup {<<job[r].of,
               job[r].id>>}
    BY <1>5 DEF Auth!AddToken
  <2>2. /\ job[r].id \notin revoked
        /\ job[r].of # 0 => job[r].of \in revoked /\ \A x \in exchanged : x[1] # job[r].of
    BY <2>1 DEF RefreshInv, JobFits
  <2>3. tokens' \cap revoked = {} /\ barred \subseteq Given(nextId)
        /\ staff.refresh \in ({0} \cup Given(nextId)) \ barred
    BY <2>1, <2>2 DEF RefreshInv, RowsFit
  <2>o. /\ \A x \in exchanged : x[1] \in revoked
        /\ \A x, y \in exchanged : x[1] = y[1] => x = y
    BY DEF RefreshInv, RowsFit
  <2>4. /\ \A x \in exchanged' : x[1] \in revoked
        /\ \A x, y \in exchanged' : x[1] = y[1] => x = y
    <3>1. CASE job[r].of = 0
      BY <2>1, <2>o, <3>1
    <3>2. CASE job[r].of # 0
      <4>1. PICK p : p[1] = job[r].of /\ exchanged' = exchanged \cup {p}
        <5> WITNESS <<job[r].of, job[r].id>>
        <5> QED
          BY <2>1, <3>2
      <4>2. p[1] \in revoked /\ \A x \in exchanged : x[1] # p[1]
        BY <2>2, <3>2, <4>1
      <4> QED
        BY <2>o, <4>1, <4>2
    <3> QED
      BY <3>1, <3>2
  <2>6. RowsFit'
    BY <2>1, <2>3, <2>4 DEF RowsFit
  <2> QED
    BY <1>b, <1>c, <2>1, <2>6
<1>6. ASSUME NEW r \in Requests, NEW id, Auth!RefreshRead(r, id) \/ Auth!Logout(r, id)
      PROVE RefreshInv'
  <2>1. UNCHANGED <<tokens, staff, nextId, revoked, barred, exchanged>>
    BY <1>6 DEF Auth!RefreshRead, Auth!Logout, Auth!sessionVars
  <2>2. PICK j : Auth!Begin(r, "drop session", j) /\ (j.then = "refresh" => j.id \in tokens)
    <3>1. CASE Auth!RefreshRead(r, id)
      <4> WITNESS [id |-> id, then |-> "refresh"]
      <4> QED
        BY <3>1 DEF Auth!RefreshRead
    <3>2. CASE Auth!Logout(r, id)
      <4> WITNESS [id |-> id, then |-> "logout"]
      <4> QED
        BY <3>2 DEF Auth!Logout
    <3> QED
      BY <1>6, <3>1, <3>2
  <2>3. pc'[r] = "drop session" /\ job'[r] = j
    BY <1>a, <2>2
  <2>4. j.then = "refresh" => j.id \notin revoked
    BY <2>2 DEF RefreshInv, RowsFit
  <2>5. JobFits(pc[r], job[r])'
    BY <2>1, <2>3, <2>4 DEF JobFits, Pending
  <2> QED
    BY <1>c, <2>1, <2>5, RowsStay
<1>7. ASSUME NEW r \in Requests, Auth!DropSession(r) PROVE RefreshInv'
  <2>1. /\ UNCHANGED <<tokens, staff, nextId, revoked, barred, exchanged>>
        /\ pc[r] = "drop session" /\ Auth!Continue(r, "drop token", job[r])
    BY <1>7 DEF Auth!DropSession
  <2>2. pc'[r] = "drop token" /\ job'[r] = job[r]
    BY <1>a, <2>1
  <2>3. JobFits(pc[r], job[r])
    BY DEF RefreshInv
  <2>4. JobFits(pc[r], job[r])'
    BY <2>1, <2>2, <2>3 DEF JobFits, Pending
  <2> QED
    BY <1>c, <2>1, <2>4, RowsStay
<1>8. ASSUME NEW r \in Requests, Auth!DropToken(r) PROVE RefreshInv'
  <2>1. /\ pc[r] = "drop token" /\ UNCHANGED <<staff, barred, exchanged>>
        /\ tokens' = tokens \ {job[r].id} /\ revoked' = revoked \cup {job[r].id}
        /\ nextId' = nextId \/ nextId' = nextId + 1
    BY <1>8 DEF Auth!DropToken, Auth!Dropped, Auth!NewId
  <2>2. Given(nextId) \subseteq Given(nextId')
    BY <2>1, GivenGrows DEF RefreshInv, SessionsInv, IdsGiven
  <2>3. RowsFit'
    BY <2>1, <2>2 DEF RefreshInv, RowsFit
  <2>4. CASE job[r].then = "refresh"
    <3>1. nextId' = nextId + 1 /\ Auth!Continue(r, "count", Auth!Issue(job[r].id))
      BY <1>8, <2>4 DEF Auth!DropToken, Auth!NewId
    <3>2. pc'[r] = "count" /\ job'[r].id = nextId /\ job'[r].of = job[r].id
      BY <1>a, <3>1 DEF Auth!Issue
    <3>3. job[r].id \notin revoked
      BY <2>1, <2>4 DEF RefreshInv, JobFits
    <3>4. nextId # job[r].id
      <4>1. job[r].id \in Given(nextId)
        BY <2>1 DEF RefreshInv, SessionsInv, IdsGiven, CustomerIds, Pending
      <4> QED
        BY <4>1, GivenGrows DEF RefreshInv, SessionsInv, IdsGiven
    <3>5. \A x \in exchanged : x[1] # job[r].id
      BY <3>3 DEF RefreshInv, RowsFit
    <3>6. JobFits(pc[r], job[r])'
      BY <2>1, <3>2, <3>4, <3>5, NextIsFresh DEF JobFits
    <3> QED
      BY <1>c, <2>3, <3>6
  <2>5. CASE job[r].then # "refresh"
    <3>1. Auth!Finish(r)
      BY <1>8, <2>5 DEF Auth!DropToken
    <3> QED
      BY <1>b, <1>c, <2>3, <3>1
  <2> QED
    BY <2>4, <2>5
<1>9. ASSUME NEW r \in Requests, Auth!ClearTokens(r) PROVE RefreshInv'
  <2>1. /\ Auth!Finish(r) /\ UNCHANGED <<staff, nextId, barred, exchanged>>
        /\ tokens' = {} /\ revoked \subseteq revoked'
    BY <1>9 DEF Auth!ClearTokens
  <2>2. RowsFit'
    BY <2>1 DEF RefreshInv, RowsFit
  <2> QED
    BY <1>b, <1>c, <2>1, <2>2
<1>10. ASSUME NEW r \in Requests, Auth!Lock(r) \/ \E l \in 1..2 : Auth!ForgotPassword(r, l)
       PROVE RefreshInv'
  <2>1. UNCHANGED <<pc, job, tokens, staff, nextId, revoked, barred, exchanged>>
    BY <1>10 DEF Auth!Lock, Auth!ForgotPassword, Auth!AtOnce
  <2>2. JobFits(pc[r], job[r])'
    BY <2>1 DEF RefreshInv, JobFits
  <2> QED
    BY <1>c, <2>1, <2>2, RowsStay
<1>11. ASSUME NEW r \in Requests, Auth!Blacklist(r) PROVE RefreshInv'
  <2>1. /\ pc[r] = "blacklist" /\ UNCHANGED <<tokens, barred, exchanged>>
        /\ staff'.refresh = staff.refresh /\ revoked' = revoked \cup ({job[r].old} \ {0})
        /\ nextId' = nextId \/ nextId' = nextId + 1
    BY <1>11 DEF Auth!Blacklist, Auth!Superseded, Auth!NewId, RefreshInv, SessionsInv
  <2>2. StaffIds(pc[r], job[r]) = {job[r].old}
    BY <2>1 DEF StaffIds
  <2>3. job[r].old \notin tokens
    BY <2>2 DEF RefreshInv, SessionsInv, IdsApart
  <2>4. Given(nextId) \subseteq Given(nextId')
    BY <2>1, GivenGrows DEF RefreshInv, SessionsInv, IdsGiven
  <2>5. RowsFit'
    BY <2>1, <2>3, <2>4 DEF RefreshInv, RowsFit
  <2>6. CASE job[r].then = "logout"
    <3>1. Auth!Continue(r, "forget staff", job[r])
      BY <1>11, <2>6 DEF Auth!Blacklist
    <3>2. JobFits(pc[r], job[r])'
      BY <1>d, <3>1 DEF Pending
    <3> QED
      BY <1>c, <2>5, <3>2
  <2>7. CASE job[r].then # "logout"
    <3>1. \E j : j.id = nextId /\ Auth!Continue(r, "save active", j) /\ nextId' = nextId + 1
      <4> WITNESS [id |-> nextId, then |-> job[r].then]
      <4> QED
        BY <1>11, <2>7 DEF Auth!Blacklist, Auth!NewId
    <3>2. pc'[r] = "save active" /\ job'[r].id = nextId
      BY <1>a, <3>1
    <3>3. JobFits(pc[r], job[r])'
      BY <2>1, <3>1, <3>2, NextIsFresh DEF JobFits, Pending
    <3> QED
      BY <1>c, <2>5, <3>3
  <2> QED
    BY <2>6, <2>7
<1>12. ASSUME NEW r \in Requests, Auth!SaveActive(r) PROVE RefreshInv'
  <2>1. /\ pc[r] = "save active" /\ UNCHANGED <<tokens, nextId, revoked, barred, exchanged>>
        /\ staff'.refresh = staff.refresh /\ (Auth!Continue(r, "save refresh", job[r])
               \/ Auth!Finish(r))
    BY <1>12 DEF Auth!SaveActive, RefreshInv, SessionsInv
  <2>2. CASE Auth!Finish(r)
    BY <1>b, <1>c, <2>1, <2>2, RowsStay
  <2>3. CASE Auth!Continue(r, "save refresh", job[r])
    <3>1. pc'[r] = "save refresh" /\ job'[r] = job[r]
      BY <1>a, <2>3
    <3>2. job[r].id \in Given(nextId) \ barred
      BY <2>1 DEF RefreshInv, JobFits
    <3>3. JobFits(pc[r], job[r])'
      BY <2>1, <3>1, <3>2 DEF JobFits, Pending
    <3> QED
      BY <1>c, <2>1, <3>3, RowsStay
  <2> QED
    BY <2>1, <2>2, <2>3
<1>13. ASSUME NEW r \in Requests, Auth!SaveRefresh(r) \/ Auth!ForgetRefresh(r) PROVE RefreshInv'
  <2>1. Auth!Finish(r) /\ UNCHANGED <<tokens, nextId, revoked, exchanged>>
    BY <1>13 DEF Auth!SaveRefresh, Auth!ForgetRefresh
  <2>2. CASE Auth!SaveRefresh(r)
    <3>1. pc[r] = "save refresh" /\ staff'.refresh = job[r].id /\ barred' = barred
      BY <2>2 DEF Auth!SaveRefresh, RefreshInv, SessionsInv
    <3>2. job[r].id \in Given(nextId) \ barred
      BY <3>1 DEF RefreshInv, JobFits
    <3>3. RowsFit'
      BY <2>1, <3>1, <3>2 DEF RefreshInv, RowsFit
    <3> QED
      BY <1>b, <1>c, <2>1, <3>3
  <2>3. CASE Auth!ForgetRefresh(r)
    <3>1. staff'.refresh = 0 /\ barred' = barred \cup ({staff.refresh} \ {0})
      BY <2>3 DEF Auth!ForgetRefresh, RefreshInv, SessionsInv
    <3>2. RowsFit'
      BY <2>1, <3>1, NextIsFresh DEF RefreshInv, RowsFit
    <3> QED
      BY <1>b, <1>c, <2>1, <3>2
  <2> QED
    BY <1>13, <2>2, <2>3
<1>14. ASSUME NEW r \in Requests, Auth!GiveUp(r), UNCHANGED Auth!sessionVars PROVE RefreshInv'
  <2>1. Auth!Finish(r) /\ UNCHANGED <<tokens, staff, nextId, revoked, barred, exchanged>>
    BY <1>14 DEF Auth!GiveUp, Auth!sessionVars
  <2> QED
    BY <1>b, <1>c, <2>1, RowsStay
<1>15. ASSUME Auth!Expire \/ UNCHANGED authVars PROVE RefreshInv'
  <2>1. UNCHANGED <<pc, job, tokens, staff, nextId, revoked, barred, exchanged>>
    BY <1>15 DEF Auth!Expire, Auth!handling, authVars, Auth!sessionVars
  <2>2. \A r \in Requests : JobFits(pc[r], job[r])'
    BY <2>1 DEF RefreshInv, JobFits
  <2>3. RowsFit'
    BY <2>1, RowsStay
  <2> QED
    BY <1>0, <2>2, <2>3 DEF RefreshInv
<1> QED
  BY <1>1, <1>2, <1>3, <1>4, <1>5, <1>6, <1>7, <1>8, <1>9, <1>10, <1>11, <1>12, <1>13, <1>14,
     <1>15 DEF Auth!Next

\* While handlers do not overlap, wherever they end, no session that was ended can be
\* refreshed, and no refresh token buys two sessions.
THEOREM EndedSessionsBuyNothing == ASSUME OneAtATime PROVE AuthSpec => []Auth!RevokedCannotRefresh
<1>1. RefreshInv => Auth!RevokedCannotRefresh
  BY DEF RefreshInv, RowsFit, Auth!RevokedCannotRefresh
<1> QED
  BY <1>1, RefreshInvInit, RefreshInvNext, PTL DEF AuthSpec
-----------------------------------------------------------------------------
\* The sessions expire one after the other, and there are few.
SessionRows ==
  /\ \A x \in DOMAIN sessions : sessions[x] \in Nat
  /\ \A x, y \in DOMAIN sessions : sessions[x] = sessions[y] => x = y
  /\ IsFiniteSet(DOMAIN sessions) /\ Cardinality(DOMAIN sessions) <= Cap

\* What a handler at step l has counted still stands, and after the trim there is room.
RoomFor(l, j) ==
  /\ l = "trim" => j.count = Cardinality(DOMAIN sessions)
  /\ l = "add session" => Cardinality(DOMAIN sessions) < Cap

FewInv == Slots /\ SessionRows /\ \A r \in Requests : RoomFor(pc[r], job[r])

\* A finite set of naturals has a largest element.
LEMMA LargestExists ==
  ASSUME NEW S, S \subseteq Nat, IsFiniteSet(S), S # {}
  PROVE  \E x \in S : \A y \in S : x >= y
<1> DEFINE Above(x) == {y \in S : y > x}
           T == {Above(x) : x \in S}
<1>1. IsWellFoundedOn(StrictSubsetOrdering(S), SUBSET S)
  BY FS_StrictSubsetOrderingWellFounded, FS_FiniteSubsetsOfFinite
<1>2. PICK U \in T : \A V \in T : ~(<<V, U>> \in StrictSubsetOrdering(S))
  <2>1. T \subseteq SUBSET S /\ T # {}
    OBVIOUS
  <2> HIDE DEF T
  <2> QED
    BY <1>1, <2>1, WFMin
<1>3. PICK x \in S : U = Above(x)
  OBVIOUS
<1>4. ASSUME NEW y \in S, y > x PROVE FALSE
  <2>1. Above(y) \in T /\ Above(y) \subseteq Above(x)
    <3>1. Above(y) \in T
      OBVIOUS
    <3>2. \A z \in S : z > y => z > x
      BY <1>4
    <3> QED
      BY <3>1, <3>2
  <2>2. y \in Above(x) /\ y \notin Above(y)
    BY <1>4
  <2> HIDE DEF Above
  <2>3. <<Above(y), U>> \notin StrictSubsetOrdering(S) /\ U \in SUBSET S
    BY <1>2, <2>1, <1>3 DEF Above
  <2> QED
    BY <1>3, <2>1, <2>2, <2>3 DEF StrictSubsetOrdering
<1> QED
  BY <1>4

\* As many as there are before it is the rank of a session: without the first k, k fewer are left.
LEMMA TrimLeaves ==
  ASSUME SessionRows, NEW k \in 0..Cardinality(DOMAIN sessions)
  PROVE  Cardinality({id \in DOMAIN sessions : Auth!Cardinality(Auth!Earlier(id)) >= k})
           <= Cardinality(DOMAIN sessions) - k
<1> DEFINE D == DOMAIN sessions
           n == Cardinality(D)
           Rank(id) == Cardinality(Auth!Earlier(id))
           Left == {id \in D : Rank(id) >= k}
           g == [id \in Left |-> Rank(id)]
<1>1. IsFiniteSet(D) /\ n \in Nat
  BY FS_CardinalityType DEF SessionRows
<1>2. ASSUME NEW id \in D PROVE IsFiniteSet(Auth!Earlier(id)) /\ Rank(id) \in Nat /\ Rank(id) < n
  <2>1. Auth!Earlier(id) \subseteq D \ {id}
    BY DEF Auth!Earlier, SessionRows
  <2>2. IsFiniteSet(D \ {id}) /\ Cardinality(D \ {id}) = n - 1
    BY <1>1, FS_RemoveElement
  <2>3. IsFiniteSet(Auth!Earlier(id)) /\ Rank(id) <= n - 1
    <3> HIDE DEF D, n
    <3> QED
      BY <2>1, <2>2, FS_Subset
  <2> HIDE DEF n
  <2> QED
    BY <1>1, <2>3, FS_CardinalityType
<1>3. ASSUME NEW x \in D, NEW y \in D, sessions[x] < sessions[y] PROVE Rank(x) < Rank(y)
  <2>1. Auth!Earlier(x) \subseteq Auth!Earlier(y) /\ x \in
          Auth!Earlier(y) /\ x \notin Auth!Earlier(x)
    BY <1>3 DEF Auth!Earlier, SessionRows
  <2>2. IsFiniteSet(Auth!Earlier(y)) /\ Rank(x) \in Nat /\ Rank(y) \in Nat
    BY <1>2
  <2>3. Rank(x) <= Rank(y) /\ (Rank(x) = Rank(y) => Auth!Earlier(x) = Auth!Earlier(y))
    BY <2>1, <2>2, FS_Subset
  <2> QED
    BY <2>1, <2>2, <2>3
<1>4. ASSUME NEW x \in D, NEW y \in D, x # y PROVE Rank(x) # Rank(y)
  <2>1. sessions[x] < sessions[y] \/ sessions[y] < sessions[x]
    BY <1>4 DEF SessionRows
  <2>2. Rank(x) \in Nat /\ Rank(y) \in Nat /\ (Rank(x) < Rank(y) \/ Rank(y) < Rank(x))
    BY <1>2, <1>3, <2>1
  <2> QED
    BY <2>2
<1>5. g \in Injection(Left, k..(n-1))
  <2>1. \A x \in Left : x \in D /\ Rank(x) \in k..(n-1)
    BY <1>1, <1>2
  <2>2. \A x, y \in Left : Rank(x) = Rank(y) => x = y
    BY <1>4, <2>1
  <2> HIDE DEF Left, Rank, n
  <2> QED
    BY <2>1, <2>2 DEF Injection, IsInjective
<1>6. IsFiniteSet(k..(n-1)) /\ Cardinality(k..(n-1)) = n - k
  <2> HIDE DEF n
  <2>1. k \in Int /\ n - 1 \in Int
    BY <1>1
  <2>2. IsFiniteSet(k..(n-1)) /\ Cardinality(k..(n-1)) = IF k > n - 1 THEN 0 ELSE n - 1 - k + 1
    BY <2>1, FS_Interval
  <2>3. k \in Nat /\ k <= n
    BY <1>1 DEF n
  <2> QED
    BY <1>1, <2>2, <2>3
<1>7. Cardinality(Left) <= n - k
  <2> HIDE DEF Left, g, n
  <2> QED
    BY <1>5, <1>6, FS_Injection
<1> QED
  BY <1>7, SessionsCounted

\* Fewer sessions are no more.
LEMMA FewerSessions ==
  ASSUME Cap \in Nat, SessionRows, NEW D, D \subseteq DOMAIN sessions,
         sessions' = [id \in D |-> sessions[id]]
  PROVE  SessionRows' /\ DOMAIN sessions' = D /\ Cardinality(D) <= Cardinality(DOMAIN sessions)
<1>1. IsFiniteSet(D) /\ Cardinality(D) <= Cardinality(DOMAIN sessions)
  BY FS_Subset DEF SessionRows
<1>3. Cardinality(D) \in Nat /\ Cardinality(DOMAIN sessions) \in Nat
  BY <1>1, FS_CardinalityType DEF SessionRows
<1>2. DOMAIN sessions' = D /\ \A x \in D : sessions'[x] = sessions[x]
  OBVIOUS
<1> QED
  BY <1>1, <1>2, <1>3 DEF SessionRows

\* At the start there is no session.
LEMMA FewInvInit == Cap \in Nat \ {0} /\ AuthStart => FewInv
<1> SUFFICES ASSUME Cap \in Nat \ {0}, AuthStart PROVE FewInv
  OBVIOUS
<1>1. DOMAIN sessions = {} /\ Slots /\ \A r \in Requests : pc[r] = "idle"
  BY DEF AuthStart, Auth!SessionsInit, Quiet, Slots
<1>2. SessionRows
  BY <1>1, FS_EmptySet DEF SessionRows
<1> QED
  BY <1>1, <1>2 DEF FewInv, RoomFor

\* Every step, when one handler runs.
LEMMA FewInvNext == OneAtATime /\ Cap \in Nat \ {0} /\ FewInv /\ [Auth!Next]_authVars => FewInv'
<1> SUFFICES ASSUME OneAtATime, Cap \in Nat \ {0}, FewInv, [Auth!Next]_authVars PROVE FewInv'
  OBVIOUS
<1>a. ASSUME NEW r \in Requests, NEW l, NEW j, Auth!Continue(r, l, j) \/ Auth!Begin(r, l, j)
      PROVE  Slots' /\ pc'[r] = l /\ job'[r] = j
  BY <1>a DEF FewInv, Slots, Auth!Continue, Auth!Begin
<1>b. ASSUME NEW r \in Requests, Auth!Finish(r)
      PROVE  Slots' /\ pc'[r] = "idle"
  BY <1>b DEF FewInv, Slots, Auth!Finish
<1>c. ASSUME NEW r \in Requests, Slots', RoomFor(pc[r], job[r])', SessionRows' PROVE FewInv'
  BY <1>c DEF OneAtATime, FewInv
<1>d. ASSUME UNCHANGED sessions PROVE SessionRows'
  BY <1>d DEF FewInv, SessionRows
<1>e. ASSUME NEW r \in Requests, Slots', pc'[r] \notin {"trim", "add session"}, SessionRows'
      PROVE  FewInv'
  BY <1>c, <1>e DEF RoomFor
<1>f. ASSUME NEW r \in Requests, Auth!Finish(r), SessionRows' PROVE FewInv'
  BY <1>b, <1>c, <1>f DEF RoomFor
<1>n. Cardinality(DOMAIN sessions) \in Nat /\ Cardinality(DOMAIN sessions) <= Cap /\ SessionRows
  BY FS_CardinalityType DEF FewInv, SessionRows
<1>1. ASSUME NEW r \in Requests,
             \/ Auth!RegisterRead(r) \/ Auth!InsertCustomer(r) \/ Auth!Login(r) \/ Auth!Link(r)
                    \/ Auth!DropToken(r)
             \/ Auth!SetPassword(r) \/ Auth!DropLink(r) \/ Auth!StaffLoginRead(r)
                    \/ Auth!StaffRefreshRead(r)
             \/ Auth!ReadActive(r) \/ Auth!StaffLogout(r) \/ Auth!Blacklist(r)
                    \/ Auth!SaveActive(r) \/ Auth!ForgetActive(r)
             \/ \E id \in 1..MaxIds : Auth!RefreshRead(r, id) \/ Auth!Logout(r, id)
             \/ \E l \in 1..2 : Auth!ResetRead(r, l)
      PROVE  FewInv'
  <2>1. UNCHANGED sessions
    BY <1>1 DEF Auth!RegisterRead, Auth!InsertCustomer, Auth!Login, Auth!Link, Auth!DropToken,
       Auth!SetPassword, Auth!DropLink,
       Auth!StaffLoginRead, Auth!StaffRefreshRead, Auth!ReadActive, Auth!StaffLogout,
           Auth!Blacklist, Auth!SaveActive, Auth!ForgetActive,
       Auth!RefreshRead, Auth!Logout, Auth!ResetRead, Auth!sessionVars
  <2>2. \/ Auth!Finish(r)
        \/ \E l \in {"register", "count", "set password", "drop link", "clear sessions",
               "blacklist",
                     "read active", "forget staff", "save active", "save refresh",
                         "forget refresh",
                     "drop session"} :
             \E j : Auth!Continue(r, l, j) \/ Auth!Begin(r, l, j)
    BY <1>1 DEF Auth!RegisterRead, Auth!InsertCustomer, Auth!Login, Auth!Link, Auth!DropToken,
       Auth!SetPassword, Auth!DropLink,
       Auth!StaffLoginRead, Auth!StaffRefreshRead, Auth!ReadActive, Auth!StaffLogout,
           Auth!Blacklist, Auth!SaveActive, Auth!ForgetActive,
       Auth!RefreshRead, Auth!Logout, Auth!ResetRead
  <2>3. CASE Auth!Finish(r)
    BY <1>d, <1>f, <2>1, <2>3
  <2>4. ASSUME NEW l \in {"register", "count", "set password", "drop link", "clear sessions",
                     "blacklist", "read active", "forget staff", "save active", "save refresh",
                     "forget refresh", "drop session"},
               NEW j, Auth!Continue(r, l, j) \/ Auth!Begin(r, l, j)
        PROVE  FewInv'
    <3>1. Slots' /\ pc'[r] = l
      BY <1>a, <2>4
    <3> QED
      BY <1>d, <1>e, <2>1, <3>1
  <2> QED
    BY <2>2, <2>3, <2>4
<1>2. ASSUME NEW r \in Requests, Auth!GoogleLogin(r) PROVE FewInv'
  <2>1. UNCHANGED sessions /\ \E l \in {"count", "link", "register"} : \E j : Auth!Begin(r, l, j)
    BY <1>2 DEF Auth!GoogleLogin
  <2>2. Slots' /\ pc'[r] \in {"count", "link", "register"}
    BY <1>a, <2>1
  <2> QED
    BY <1>d, <1>e, <2>1, <2>2
<1>3. ASSUME NEW r \in Requests, Auth!CountSessions(r) PROVE FewInv'
  <2> DEFINE live == DOMAIN sessions \ expired
  <2>1. sessions' = [id \in live |-> sessions[id]]
    BY <1>3 DEF Auth!CountSessions, Auth!Restrict
  <2>2. PICK j : j.count = Cardinality(live) /\ Auth!Continue(r, "trim", j)
    <3> WITNESS [id |-> job[r].id, of |-> job[r].of, count |-> Auth!Cardinality(live)]
    <3> QED
      BY <1>3, SessionsCounted DEF Auth!CountSessions
  <2> HIDE DEF live
  <2>3. SessionRows' /\ DOMAIN sessions' = live
    BY <1>n, <2>1, FewerSessions DEF live
  <2>4. Slots' /\ pc'[r] = "trim" /\ job'[r] = j
    BY <1>a, <2>2
  <2>5. RoomFor(pc[r], job[r])'
    BY <2>2, <2>3, <2>4 DEF RoomFor
  <2> QED
    BY <1>c, <2>3, <2>4, <2>5
<1>4. ASSUME NEW r \in Requests, Auth!TrimSessions(r) PROVE FewInv'
  <2> DEFINE n == Cardinality(DOMAIN sessions)
             k == Auth!Surplus(n)
             left == {id \in DOMAIN sessions : Auth!Cardinality(Auth!Earlier(id)) >= k}
  <2>1. job[r].count = n
    BY <1>4 DEF Auth!TrimSessions, FewInv, RoomFor
  <2>2. sessions' = [id \in left |-> sessions[id]]
    <3>1. Auth!Surplus(job[r].count) = k
      BY <2>1
    <3>2. left = {id \in DOMAIN sessions : Cardinality(Auth!Earlier(id)) >= k}
      BY SessionsCounted
    <3> HIDE DEF k, left
    <3> QED
      BY <1>4, <3>1, <3>2, SessionsCounted DEF Auth!TrimSessions, Auth!Restrict
  <2>3. k \in 0..n /\ n - k < Cap
    BY <1>n DEF Auth!Surplus
  <2>4. Cardinality(left) <= n - k
    BY <1>n, <2>3, TrimLeaves
  <2>5. PICK j : Auth!Continue(r, "add session", j)
    BY <1>4 DEF Auth!TrimSessions
  <2> HIDE DEF left, k
  <2>6. SessionRows' /\ DOMAIN sessions' = left
    BY <1>n, <2>2, FewerSessions DEF left
  <2>7. Cardinality(left) \in Nat
    BY <2>6, FS_CardinalityType DEF SessionRows
  <2>8. Cardinality(left) < Cap
    BY <1>n, <2>3, <2>4, <2>7
  <2>9. Slots' /\ pc'[r] = "add session"
    BY <1>a, <2>5
  <2>10. RoomFor(pc[r], job[r])'
    BY <2>6, <2>8, <2>9 DEF RoomFor
  <2> QED
    BY <1>c, <2>6, <2>9, <2>10
<1>5. ASSUME NEW r \in Requests, Auth!AddSession(r) PROVE FewInv'
  <2> DEFINE D == DOMAIN sessions
             kept == {0} \cup Auth!Range(sessions)
             top == Auth!Max(kept)
             new == job[r].id
  <2>1. /\ sessions' = [id \in D \cup {new} |-> IF id = new THEN 1 + top ELSE sessions[id]]
        /\ Auth!Continue(r, "add token", job[r])
    BY <1>5 DEF Auth!AddSession
  <2>2. kept \subseteq Nat /\ 0 \in kept /\ \A x \in D : sessions[x] \in kept
    BY <1>n DEF SessionRows, Auth!Range
  <2>3. IsFiniteSet(kept)
    <3>1. [x \in D |-> sessions[x]] \in Surjection(D, Auth!Range(sessions))
      BY DEF Auth!Range, Surjection
    <3>2. IsFiniteSet(Auth!Range(sessions))
      BY <1>n, <3>1, FS_Surjection DEF SessionRows
    <3> QED
      BY <3>2, FS_AddElement
  <2>4. top \in kept /\ \A y \in kept : top >= y
    <3> HIDE DEF kept
    <3>1. \E x \in kept : \A y \in kept : x >= y
      BY <2>2, <2>3, LargestExists
    <3> QED
      BY <3>1 DEF Auth!Max
  <2>5. Cardinality(D) < Cap
    BY <1>5 DEF Auth!AddSession, FewInv, RoomFor
  <2>6. IsFiniteSet(D \cup {new}) /\ Cardinality(D \cup {new}) <= Cap
    <3>1. Cardinality(D \cup {new}) = Cardinality(D)
            \/ Cardinality(D \cup {new}) = Cardinality(D) + 1
      BY <1>n, FS_AddElement DEF SessionRows
    <3>2. IsFiniteSet(D \cup {new})
      BY <1>n, FS_AddElement DEF SessionRows
    <3> QED
      BY <1>n, <2>5, <3>1, <3>2
  <2>7. top \in Nat /\ \A x \in D : sessions[x] \in Nat /\ sessions[x] <= top
    BY <2>2, <2>4
  <2>8. SessionRows'
    <3> HIDE DEF top, new
    <3>1. DOMAIN sessions' = D \cup {new}
      BY <2>1
    <3>2. sessions'[new] = 1 + top /\ \A x \in D \ {new} : sessions'[x] = sessions[x]
      BY <2>1
    <3>3. \A x \in D \cup {new} : sessions'[x] \in Nat
      BY <2>7, <3>2
    <3>4. \A x, y \in D : sessions[x] = sessions[y] => x = y
      BY <1>n DEF SessionRows
    <3>5. \A x, y \in D \cup {new} : sessions'[x] = sessions'[y] => x = y
      BY <2>7, <3>2, <3>4
    <3> QED
      BY <2>6, <3>1, <3>3, <3>5 DEF SessionRows
  <2>9. Slots' /\ pc'[r] = "add token"
    BY <1>a, <2>1
  <2> QED
    BY <1>e, <2>8, <2>9
<1>6. ASSUME NEW r \in Requests, Auth!DropSession(r) PROVE FewInv'
  <2>1. /\ sessions' = [id \in DOMAIN sessions \ {job[r].id} |-> sessions[id]]
        /\ Auth!Continue(r, "drop token", job[r])
    BY <1>6 DEF Auth!DropSession, Auth!Restrict
  <2>2. SessionRows'
    BY <1>n, <2>1, FewerSessions
  <2>3. Slots' /\ pc'[r] = "drop token"
    BY <1>a, <2>1
  <2> QED
    BY <1>e, <2>2, <2>3
<1>7. ASSUME NEW r \in Requests, Auth!ClearSessions(r) PROVE FewInv'
  <2>1. DOMAIN sessions' = {} /\ \E j : Auth!Continue(r, "clear tokens", j)
    BY <1>7 DEF Auth!ClearSessions
  <2>2. SessionRows'
    <3>1. SessionRows' <=> IsFiniteSet({}) /\ Cardinality({}) <= Cap
      BY <2>1 DEF SessionRows
    <3> QED
      BY <3>1, FS_EmptySet
  <2>3. Slots' /\ pc'[r] = "clear tokens"
    BY <1>a, <2>1
  <2> QED
    BY <1>e, <2>2, <2>3
<1>8. ASSUME NEW r \in Requests,
             \/ Auth!AddToken(r) \/ Auth!ClearTokens(r) \/ Auth!SaveRefresh(r)
                    \/ Auth!ForgetRefresh(r)
             \/ Auth!GiveUp(r) /\ UNCHANGED Auth!sessionVars
      PROVE  FewInv'
  <2>1. UNCHANGED sessions /\ Auth!Finish(r)
    BY <1>8 DEF Auth!AddToken, Auth!ClearTokens, Auth!SaveRefresh, Auth!ForgetRefresh,
       Auth!GiveUp, Auth!sessionVars
  <2> QED
    BY <1>d, <1>f, <2>1
<1>9. ASSUME \/ Auth!Expire \/ UNCHANGED authVars
             \/ \E r \in Requests : Auth!Lock(r) \/ \E l \in 1..2 : Auth!ForgotPassword(r, l)
      PROVE  FewInv'
  <2>1. UNCHANGED <<pc, job, sessions>>
    BY <1>9 DEF Auth!Expire, Auth!handling, authVars, Auth!sessionVars, Auth!Lock,
       Auth!ForgotPassword, Auth!AtOnce
  <2> QED
    BY <1>d, <2>1 DEF FewInv, Slots, RoomFor
<1> QED
  BY <1>1, <1>2, <1>3, <1>4, <1>5, <1>6, <1>7, <1>8, <1>9 DEF Auth!Next

\* While handlers do not overlap, wherever they end, a customer never has more sessions than
\* CUSTOMER_SESSION_CAP: the count is still right at the trim, and the trim leaves room for one.
THEOREM FewSessionsAtOnce == ASSUME OneAtATime, Cap \in Nat \ {0} PROVE AuthSpec =>
    []Auth!FewSessions
<1>1. FewInv => Auth!FewSessions
  BY SessionsCounted DEF FewInv, SessionRows, Auth!FewSessions
<1> QED
  BY <1>1, FewInvInit, FewInvNext, PTL DEF AuthSpec

-----------------------------------------------------------------------------
(* Payments: the handlers of VNPay and ZaloPay show a transaction as paid only if the       *)
(* gateway has the money, whatever MoMo's callback writes in between.  The invariant speaks *)
(* of what is under way, too: a signed message that says "paid" is the gateway's, and a     *)
(* handler that checks messages and has the verdict "ThanhCong" has read such a message.    *)

PayStart == Pay!PaymentsInit /\ Quiet

payVars == <<Pay!paymentVars, Pay!handling>>

PaySpec == PayStart /\ [][Pay!Next]_payVars

\* The handlers that check what they are told.
Checked(kind) == kind \notin {"momo", "cod"}

\* Such a handler under way has read a message, and has found that it says "paid" when it
\* goes on to the order.
HandlersFollowMessages ==
  \A r \in Requests :
    /\ pc[r] \in {"idle", "save", "read order", "change order"}
    /\ pc[r] # "idle" /\ Checked(job[r].kind) /\ job[r].verdict = "ThanhCong" => captured
    /\ pc[r] \in {"read order", "change order"} /\ Checked(job[r].kind) => captured

PaidInv ==
  /\ Slots
  /\ \A m \in sent : m.ok => captured
  /\ HandlersFollowMessages
  /\ payment = "ThanhCong" /\ Checked(paidBy) => captured
  /\ \A k \in confirmedBy : Checked(k) => captured

\* At the start no message says "paid".
LEMMA PaidInvInit == PayStart => PaidInv
  BY DEF PayStart, Quiet, Slots, Pay!PaymentsInit, PaidInv, HandlersFollowMessages

\* Every message and every step of a handler keeps it.
LEMMA PaidInvNext == PaidInv /\ [Pay!Next]_payVars => PaidInv'
<1> SUFFICES ASSUME PaidInv, [Pay!Next]_payVars PROVE PaidInv'
  OBVIOUS
<1> USE DEF PaidInv, Slots, HandlersFollowMessages, Pay!paymentVars
<1>1. CASE Pay!GatewayTakesMoney
  BY <1>1 DEF Pay!GatewayTakesMoney, Pay!Messages, Pay!handling
<1>2. CASE Pay!GatewayDeclines
  <2>1. ASSUME NEW m \in Pay!Messages(FALSE) PROVE ~m.ok
    <3>1. PICK k \in Pay!Kinds : m = [kind |-> k, ok |-> FALSE]
      BY DEF Pay!Messages
    <3> QED
      BY <3>1
  <2>2. \A m \in sent' : m \in sent \/ ~m.ok
    BY <1>2, <2>1 DEF Pay!GatewayDeclines
  <2> QED
    BY <1>2, <2>2 DEF Pay!GatewayDeclines, Pay!handling
<1>3. ASSUME NEW r \in Requests, Pay!ShopMovesOrder(r) PROVE PaidInv'
  BY <1>3 DEF Pay!ShopMovesOrder, Pay!AtOnce
<1>4. ASSUME NEW r \in Requests, NEW m, Pay!Receive(r, m), Checked(m.kind) /\ m.ok => captured
      PROVE  PaidInv'
  <2>1. Checked(m.kind) /\ Pay!Verdict(m) = "ThanhCong" => captured
    BY <1>4 DEF Pay!Verdict
  <2> QED
    BY <1>4, <2>1 DEF Pay!Receive, Pay!Begin
<1>5. ASSUME NEW r \in Requests, Pay!ConfirmCOD(r) PROVE PaidInv'
  BY <1>5 DEF Pay!ConfirmCOD, Pay!Begin, Checked
<1>11. ASSUME NEW r \in Requests, Pay!HandleVNPayIpn(r) \/ Pay!HandleZaloPayCallback(r) PROVE PaidInv'
  BY <1>11, <1>4 DEF Pay!HandleVNPayIpn, Pay!HandleZaloPayCallback
<1>12. ASSUME NEW r \in Requests, Pay!HandleVNPayReturn(r) PROVE PaidInv'
  BY <1>12, <1>4 DEF Pay!HandleVNPayReturn
<1>13. ASSUME NEW r \in Requests, Pay!HandleMoMoCallback(r) PROVE PaidInv'
  <2>1. PICK ok \in BOOLEAN : Pay!Receive(r, [kind |-> "momo", ok |-> ok])
    BY <1>13 DEF Pay!HandleMoMoCallback
  <2> QED
    BY <2>1, <1>4 DEF Checked
<1>6. ASSUME NEW r \in Requests, Pay!SavePayment(r) PROVE PaidInv'
  <2>1. CASE job[r].verdict = "ThanhCong"
    BY <1>6, <2>1 DEF Pay!SavePayment, Pay!Continue
  <2>2. CASE job[r].verdict # "ThanhCong"
    BY <1>6, <2>2 DEF Pay!SavePayment, Pay!Finish
  <2> QED
    BY <2>1, <2>2
<1>7. ASSUME NEW r \in Requests, Pay!ReadOrder(r) PROVE PaidInv'
  BY <1>7 DEF Pay!ReadOrder, Pay!Continue
<1>8. ASSUME NEW r \in Requests, Pay!ChangeOrder(r) PROVE PaidInv'
  BY <1>8 DEF Pay!ChangeOrder, Pay!Finish
<1>9. ASSUME NEW r \in Requests, Pay!GiveUp(r), UNCHANGED Pay!paymentVars PROVE PaidInv'
  BY <1>9 DEF Pay!GiveUp, Pay!Finish
<1>10. CASE UNCHANGED payVars
  BY <1>10 DEF payVars, Pay!handling
<1> QED
  BY <1>1, <1>2, <1>3, <1>5, <1>6, <1>7, <1>8, <1>9, <1>10, <1>11, <1>12, <1>13 DEF Pay!Next

\* However the messages of VNPay and ZaloPay are lost, repeated or reordered, however the
\* handlers that receive them overlap and end, and whatever MoMo's callback is called with
\* in between: they show no transaction as paid, and confirm no order for it, without the
\* money.
THEOREM PaidOnlyWhenCaptured == PaySpec => []Pay!PaidMeansCaptured
<1>1. PaidInv => Pay!PaidMeansCaptured
  BY DEF PaidInv, Pay!PaidMeansCaptured, Checked
<1> QED
  BY <1>1, PaidInvInit, PaidInvNext, PTL DEF PaySpec

-----------------------------------------------------------------------------
\* While handlers do not overlap: an IPN that is being saved found the transaction open,
\* and the arrow an order is to move along starts where the order is.
VerdictInv ==
  /\ Slots
  /\ \A r \in Requests :
       /\ pc[r] = "save" /\ job[r].kind = "ipn" => Pay!Open
       /\ pc[r] = "change order" => <<orderStatus, job[r].next>> \in Pay!Allowed

\* At the start no handler has a verdict.
LEMMA VerdictInvInit == PayStart => VerdictInv
  BY DEF PayStart, Quiet, Slots, VerdictInv

\* Beginning to handle a message.
LEMMA ReceiveKeeps ==
  ASSUME VerdictInv, NEW r \in Requests, NEW m, Pay!Receive(r, m), m.kind = "ipn" => Pay!Open
  PROVE  VerdictInv'
  BY DEF VerdictInv, Slots, Pay!Receive, Pay!Begin, Pay!paymentVars, Pay!Open

\* One after the other, handlers write what they have read.
LEMMA VerdictInvNext == OneAtATime /\ VerdictInv /\ [Pay!Next]_payVars => VerdictInv'
<1> SUFFICES ASSUME OneAtATime, VerdictInv, [Pay!Next]_payVars PROVE VerdictInv'
  OBVIOUS
<1> USE DEF VerdictInv, Slots, Pay!paymentVars, Pay!Open
<1>1. CASE Pay!GatewayTakesMoney \/ Pay!GatewayDeclines
  BY <1>1 DEF Pay!GatewayTakesMoney, Pay!GatewayDeclines, Pay!handling
<1>2. ASSUME NEW r \in Requests, Pay!ShopMovesOrder(r) PROVE VerdictInv'
  <2>1. UNCHANGED <<pc, job, payment>> /\ \A q \in Requests : pc[q] = "idle"
    BY <1>2 DEF Pay!ShopMovesOrder, Pay!AtOnce, OneAtATime
  <2> QED
    BY <2>1
<1>3. ASSUME NEW r \in Requests, Pay!HandleVNPayIpn(r) PROVE VerdictInv'
  BY <1>3, ReceiveKeeps DEF Pay!HandleVNPayIpn
<1>4. ASSUME NEW r \in Requests,
             Pay!HandleZaloPayCallback(r) \/ Pay!HandleVNPayReturn(r) \/ Pay!HandleMoMoCallback(r)
      PROVE  VerdictInv'
  <2>1. PICK m : m.kind # "ipn" /\ Pay!Receive(r, m)
    BY <1>4 DEF Pay!HandleZaloPayCallback, Pay!HandleVNPayReturn, Pay!HandleMoMoCallback
  <2> QED
    BY <2>1, ReceiveKeeps
<1>5. ASSUME NEW r \in Requests, Pay!ConfirmCOD(r) PROVE VerdictInv'
  BY <1>5 DEF Pay!ConfirmCOD, Pay!Begin
<1>6. ASSUME NEW r \in Requests, Pay!SavePayment(r) \/ Pay!ReadOrder(r) \/ Pay!ChangeOrder(r)
      PROVE VerdictInv'
  <2>1. \A q \in Requests : q = r
    BY DEF OneAtATime
  <2>2. pc'[r] # "save" /\ Slots'
    BY <1>6 DEF Pay!SavePayment, Pay!ReadOrder, Pay!ChangeOrder, Pay!Continue, Pay!Finish
  <2>3. pc'[r] = "change order" => <<orderStatus', job'[r].next>> \in Pay!Allowed
    BY <1>6 DEF Pay!SavePayment, Pay!ReadOrder, Pay!ChangeOrder, Pay!Continue, Pay!Finish
  <2> QED
    BY <2>1, <2>2, <2>3
<1>7. ASSUME NEW r \in Requests, Pay!GiveUp(r), UNCHANGED Pay!paymentVars PROVE VerdictInv'
  BY <1>7 DEF Pay!GiveUp, Pay!Finish
<1>8. CASE UNCHANGED payVars
  BY <1>8 DEF payVars, Pay!handling
<1> QED
  BY <1>1, <1>2, <1>3, <1>4, <1>5, <1>6, <1>7, <1>8 DEF Pay!Next

\* While handlers do not overlap, repeated IPNs leave the verdict of a transaction, for any
\* number of messages and however handlers end.
THEOREM IpnLeavesVerdict == ASSUME OneAtATime PROVE PaySpec => [][Pay!IpnKeepsVerdict]_payVars
<1>1. VerdictInv => Pay!IpnKeepsVerdict
  BY DEF VerdictInv, Pay!IpnKeepsVerdict, Pay!Open
<1> QED
  BY <1>1, VerdictInvInit, VerdictInvNext, PTL DEF PaySpec

\* While they do not overlap, an order moves along the arrows of its states only, a late
\* payment included.
THEOREM OrdersKeepToTheArrows == ASSUME OneAtATime PROVE PaySpec => [][Pay!AlongTheArrows]_payVars
<1>1. VerdictInv /\ [Pay!Next]_payVars => Pay!AlongTheArrows
  <2> SUFFICES ASSUME VerdictInv, [Pay!Next]_payVars, orderStatus' # orderStatus
               PROVE  <<orderStatus, orderStatus'>> \in Pay!Allowed
    BY DEF Pay!AlongTheArrows
  <2>1. CASE Pay!GatewayTakesMoney \/ Pay!GatewayDeclines
    BY <2>1 DEF Pay!GatewayTakesMoney, Pay!GatewayDeclines
  <2>2. ASSUME NEW r \in Requests, Pay!ShopMovesOrder(r) PROVE <<orderStatus,
               orderStatus'>> \in Pay!Allowed
    BY <2>2 DEF Pay!ShopMovesOrder
  <2>3. ASSUME NEW r \in Requests, Pay!ChangeOrder(r) PROVE <<orderStatus,
               orderStatus'>> \in Pay!Allowed
    BY <2>3 DEF Pay!ChangeOrder, VerdictInv
  <2>4. ASSUME NEW r \in Requests,
               \/ Pay!HandleVNPayIpn(r) \/ Pay!HandleZaloPayCallback(r)
                      \/ Pay!HandleVNPayReturn(r)
               \/ Pay!HandleMoMoCallback(r) \/ Pay!ConfirmCOD(r) \/ Pay!SavePayment(r)
                      \/ Pay!ReadOrder(r)
        PROVE  FALSE
    BY <2>4 DEF Pay!HandleVNPayIpn, Pay!HandleZaloPayCallback, Pay!HandleVNPayReturn,
       Pay!HandleMoMoCallback,
                Pay!ConfirmCOD, Pay!SavePayment, Pay!ReadOrder, Pay!Receive, Pay!paymentVars
  <2> QED
    BY <2>1, <2>2, <2>3, <2>4 DEF Pay!Next, payVars, Pay!paymentVars
<1> QED
  BY <1>1, VerdictInvInit, VerdictInvNext, PTL DEF PaySpec

-----------------------------------------------------------------------------
(* Support tickets: while handlers do not overlap, the times and the assignee of a ticket   *)
(* agree with its status, wherever a handler ends and although the hourly job writes        *)
(* between its steps.  The row a handler holds agrees with itself, as it did when it was     *)
(* read; the columns that its save leaves out are those of the row it holds, but for a new   *)
(* ticket that the job has taken up meanwhile.                                               *)

SupportStart == Support!TicketsInit /\ Quiet

supportVars == <<Support!ticketVars, Support!handling>>

SupportSpec == SupportStart /\ [][Support!Next]_supportVars

\* What a row says agrees with itself.
Fits(row) ==
  /\ row \in Support!SupportTicket
  /\ (row.closed # 0 \/ row.resolved # 0) <=> row.status \in Support!Closed
  /\ row.status = "Moi" => row.assignedTo = "nobody"

\* The row that is there differs from held in columns only, but for what the job does.
Near(there, held, columns) ==
  \A c \in Support!Columns \ columns :
    \/ there[c] = held[c]
    \/ c = "status" /\ held[c] = "Moi" /\ there[c] = "DangXuLy"

\* The rows in the database ...
TicketRows ==
  /\ tickets = [t \in Support!There |-> tickets[t]] /\ \A t \in Support!There : Fits(tickets[t])
  /\ aged \subseteq Support!There /\ late \subseteq Support!There

\* ... and those that handlers are about to save.
TicketJobs ==
  \A r \in Requests :
    /\ pc[r] \in {"save", "update"} =>
         /\ job[r] = [ticket |-> job[r].ticket, row |-> job[r].row, columns |-> job[r].columns,
                      lines |-> job[r].lines]
         /\ job[r].ticket \in Support!There /\ Fits(job[r].row)
    /\ pc[r] = "update" => Near(tickets[job[r].ticket], job[r].row, job[r].columns)

TicketsInv == Slots /\ served \in Nat /\ TicketRows /\ TicketJobs

\* The tickets at the start are new.
LEMMA TicketsInvInit == SupportStart => TicketsInv
  BY DEF SupportStart, Quiet, Support!TicketsInit, TicketsInv, TicketRows, TicketJobs, Slots,
     Support!There

\* What is there after the UPDATE agrees with itself.
LEMMA MergedFits ==
  ASSUME NEW there, NEW held, NEW columns, Fits(there), Fits(held), Near(there, held, columns)
  PROVE  Fits(Support!Merged(there, held, columns))
<1> DEFINE m == Support!Merged(there, held, columns)
<1>1. \A c \in Support!Columns :
        \/ m[c] = held[c]
        \/ c = "status" /\ held[c] = "Moi" /\ m[c] = "DangXuLy"
  BY DEF Support!Merged, Near
<1>2. /\ m.assignedTo = held.assignedTo /\ m.urgent = held.urgent /\ m.responded = held.responded
      /\ m.resolved = held.resolved /\ m.closed = held.closed
      /\ \/ m.status = held.status
         \/ held.status = "Moi" /\ m.status = "DangXuLy"
  BY <1>1 DEF Support!Columns
<1>3. m = [status |-> m.status, assignedTo |-> m.assignedTo, urgent |-> m.urgent,
           responded |-> m.responded, resolved |-> m.resolved, closed |-> m.closed]
  BY DEF Support!Merged, Support!Columns
<1>4. m \in Support!SupportTicket
  BY <1>2, <1>3 DEF Fits, Support!SupportTicket, Support!TicketStatus
<1> QED
  BY <1>2, <1>4 DEF Fits, Support!Closed

\* A handler begins at a time that is not null.
LEMMA NowIsATime == TicketsInv => Support!Now \in Nat \ {0}
  BY DEF TicketsInv, Support!Now

\* Beginning to edit a ticket with a row that fits.
LEMMA TicketEditKeeps ==
  ASSUME TicketsInv, NEW r \in Requests, NEW t \in Support!There, NEW row, NEW lines, Fits(row),
         Support!Edit(r, t, row, lines), UNCHANGED <<tickets, aged, late>>
  PROVE  TicketsInv'
<1>1. /\ served \in Nat /\ served' = served + 1 /\ Slots
      /\ pc' = [pc EXCEPT ![r] = "save"]
      /\ job' = [job EXCEPT ![r] = [ticket |-> t, row |-> row, columns |-> {}, lines |-> lines]]
  BY DEF TicketsInv, Support!Edit, Support!Begin
<1>2. Slots' /\ served' \in Nat
  <2>1. pc' = [q \in Requests |-> pc'[q]] /\ job' = [q \in Requests |-> job'[q]]
    BY <1>1, Zenon DEF Slots
  <2> QED
    BY <1>1, <2>1 DEF Slots
<1>3. /\ pc'[r] = "save"
      /\ job'[r] = [ticket |-> t, row |-> row, columns |-> {}, lines |-> lines]
      /\ \A q \in Requests : q # r => pc'[q] = pc[q] /\ job'[q] = job[q]
  BY <1>1 DEF Slots
<1>4. TicketRows'
  BY DEF TicketsInv, TicketRows, Support!There, Fits
<1>5. TicketJobs'
  BY <1>3 DEF TicketsInv, TicketJobs, Support!There, Fits, Near
<1> QED
  BY <1>2, <1>4, <1>5 DEF TicketsInv

\* An answer of an employee leaves the times in agreement with the status.
LEMMA TakenUpFits ==
  ASSUME NEW row, Fits(row), NEW e \in Staff
  PROVE  Fits(Support!TakenUp(row, e))
  BY DEF Fits, Support!TakenUp, Support!SupportTicket, Support!TicketStatus, Support!Closed

\* When no handler is between its SELECT and its UPDATE, or none is left, the rows decide.
LEMMA TicketsStay ==
  ASSUME OneAtATime, TicketsInv, NEW r \in Requests, pc'[r] \notin {"save", "update"}, Slots',
         served' \in Nat, TicketRows'
  PROVE  TicketsInv'
  BY DEF OneAtATime, TicketsInv, TicketJobs

\* One after the other, handlers write rows whose times agree with their status.
LEMMA TicketsInvNext == OneAtATime /\ TicketsInv /\ [Support!Next]_supportVars => TicketsInv'
<1> SUFFICES ASSUME OneAtATime, TicketsInv, [Support!Next]_supportVars PROVE TicketsInv'
  OBVIOUS
<1>0. /\ Slots /\ served \in Nat /\ aged \subseteq Support!There /\ late \subseteq Support!There
      /\ Support!Now \in Nat \ {0} /\ tickets = [t \in Support!There |-> tickets[t]]
      /\ \A t \in Support!There : Fits(tickets[t])
  BY NowIsATime DEF TicketsInv, TicketRows
<1>1. ASSUME NEW r \in Requests, Support!Create(r) PROVE TicketsInv'
  <2>1. PICK t : \E urgent \in BOOLEAN :
          tickets' = [k \in Support!There \cup {t} |-> IF k \in Support!There THEN tickets[k] ELSE
            [status |-> "Moi", assignedTo |-> "nobody", urgent |-> urgent,
             responded |-> 0, resolved |-> 0, closed |-> 0]]
    BY <1>1, Zenon DEF Support!Create
  <2>2. PICK urgent \in BOOLEAN :
          tickets' = [k \in Support!There \cup {t} |-> IF k \in Support!There THEN tickets[k] ELSE
            [status |-> "Moi", assignedTo |-> "nobody", urgent |-> urgent,
             responded |-> 0, resolved |-> 0, closed |-> 0]]
    BY <2>1
  <2>3. Support!There' = Support!There \cup {t}
    BY <2>2 DEF Support!There
  <2>4. Fits([status |-> "Moi", assignedTo |-> "nobody", urgent |-> urgent,
              responded |-> 0, resolved |-> 0, closed |-> 0])
    BY <2>2 DEF Fits, Support!SupportTicket, Support!TicketStatus, Support!Closed
  <2>5. \A k \in Support!There' : Fits(tickets'[k])
    <3> HIDE DEF Fits
    <3> QED
      BY <1>0, <2>2, <2>3, <2>4
  <2>6. Slots' /\ pc'[r] = "idle" /\ served' \in Nat /\ UNCHANGED <<aged, late>>
    BY <1>0, <1>1 DEF Support!Create, Support!AtOnce, Slots
  <2>7. TicketRows'
    BY <1>0, <2>2, <2>3, <2>5, <2>6 DEF TicketRows
  <2> QED
    BY <2>6, <2>7, TicketsStay
<1>2. ASSUME NEW r \in Requests, Support!SaveTicket(r) PROVE TicketsInv'
  <2> DEFINE t == job[r].ticket
             columns == {c \in Support!Columns : job[r].row[c] # tickets[t][c]}
  <2>1. /\ pc[r] = "save" /\ UNCHANGED <<tickets, aged, late, served>>
        /\ pc' = [pc EXCEPT ![r] = "update"]
        /\ job' = [job EXCEPT ![r] = [job[r] EXCEPT !.columns = columns]]
    BY <1>2 DEF Support!SaveTicket, Support!Continue, Support!ticketVars
  <2>2. /\ t \in Support!There /\ Fits(job[r].row)
        /\ job[r] = [ticket |-> t, row |-> job[r].row, columns |-> job[r].columns,
                     lines |-> job[r].lines]
    BY <2>1 DEF TicketsInv, TicketJobs
  <2>3. Slots' /\ pc'[r] = "update" /\ job'[r] = [job[r] EXCEPT !.columns = columns]
    BY <1>0, <2>1 DEF Slots
  <2>4. job'[r] = [ticket |-> t, row |-> job[r].row, columns |-> columns, lines |-> job[r].lines]
    BY <2>2, <2>3
  <2>5. Near(tickets[t], job[r].row, columns)
    BY DEF Near
  <2>6. TicketRows'
    BY <2>1 DEF TicketsInv, TicketRows, Support!There, Fits
  <2>7. TicketJobs'
    <3> HIDE DEF columns, t
    <3>1. /\ job'[r].ticket = t /\ job'[r].row = job[r].row /\ job'[r].columns = columns
          /\ job'[r].lines = job[r].lines /\ Support!There' = Support!There
      BY <2>1, <2>4 DEF Support!There
    <3>2. Fits(job'[r].row) /\ Near(tickets'[t], job'[r].row, job'[r].columns)
      BY <2>1, <2>2, <2>5, <3>1
    <3> QED
      BY <2>2, <2>4, <3>1, <3>2 DEF OneAtATime, TicketJobs
  <2> QED
    BY <1>0, <2>1, <2>3, <2>6, <2>7 DEF TicketsInv
<1>15. ASSUME NEW r \in Requests, Support!UpdateColumns(r) PROVE TicketsInv'
  <2> DEFINE t == job[r].ticket  merged == Support!Merged(tickets[t], job[r].row, job[r].columns)
  <2>1. pc[r] = "update" /\ UNCHANGED <<aged, late, served>>
    BY <1>15 DEF Support!UpdateColumns, Support!Continue, Support!Finish
  <2>2. /\ t \in Support!There /\ Fits(job[r].row) /\ Fits(tickets[t])
        /\ Near(tickets[t], job[r].row, job[r].columns)
    BY <1>0, <2>1 DEF TicketsInv, TicketJobs
  <2>3. Fits(merged)
    BY <2>2, MergedFits
  <2>4. tickets' = [k \in Support!There |-> IF k = t THEN merged ELSE tickets[k]]
    BY <1>0, <1>15 DEF Support!UpdateColumns
  <2> HIDE DEF merged
  <2>5. Support!There' = Support!There /\ \A k \in Support!There' : Fits(tickets'[k])
    BY <1>0, <2>3, <2>4 DEF Support!There
  <2>6. Slots' /\ pc'[r] \in {"idle", "log"}
    BY <1>0, <1>15 DEF Support!UpdateColumns, Support!Continue, Support!Finish, Slots
  <2>7. TicketRows' /\ served' \in Nat
    BY <1>0, <2>1, <2>4, <2>5 DEF TicketRows
  <2> QED
    BY <2>6, <2>7, TicketsStay
<1>3. ASSUME NEW r \in Requests, Support!AddLines(r) \/ Support!Abandon(r) PROVE TicketsInv'
  <2>1. Slots' /\ pc'[r] = "idle" /\ UNCHANGED <<served, tickets, aged, late>>
    BY <1>0, <1>3 DEF Support!AddLines, Support!Abandon, Support!GiveUp, Support!Finish, Slots
  <2>2. TicketRows' /\ served' \in Nat
    BY <1>0, <2>1 DEF TicketRows, Support!There, Fits
  <2> QED
    BY <2>1, <2>2, TicketsStay
<1>5. ASSUME NEW r \in Requests, NEW t \in Support!There, Support!SendCustomerMessage(r, t)
      PROVE  TicketsInv'
  BY <1>0, <1>5, TicketEditKeeps DEF Support!SendCustomerMessage, Support!ticketVars
<1>6. ASSUME NEW r \in Requests, NEW t \in Support!There, Support!AssignTicket(r, t)
      PROVE  TicketsInv'
  <2>1. UNCHANGED <<tickets, aged, late>> /\ Fits(tickets[t])
    BY <1>0, <1>6 DEF Support!AssignTicket, Support!ticketVars
  <2>2. Fits([tickets[t] EXCEPT !.assignedTo = "nobody"])
    BY <2>1 DEF Fits, Support!SupportTicket, Support!TicketStatus, Support!Closed
  <2> QED
    BY <1>6, <2>1, <2>2, TakenUpFits, TicketEditKeeps DEF Support!AssignTicket
<1>7. ASSUME NEW r \in Requests, NEW t \in Support!There, NEW e \in Staff,
             Support!SendStaffMessage(r, t, e)
      PROVE  TicketsInv'
  <2> DEFINE taken == IF tickets[t].assignedTo =
        "nobody" THEN Support!TakenUp(tickets[t], e) ELSE tickets[t]
             answered(type) ==
               [taken EXCEPT !.responded = IF @ = 0 /\ type = "Reply" THEN Support!Now ELSE @]
  <2>1. UNCHANGED <<tickets, aged, late>> /\ Fits(tickets[t])
    BY <1>0, <1>7 DEF Support!SendStaffMessage
  <2>2. Fits(taken)
    BY <2>1, TakenUpFits
  <2>3. \A type : Fits(answered(type))
    <3> HIDE DEF taken
    <3> QED
      BY <1>0, <2>2 DEF Fits, Support!SupportTicket, Support!TicketStatus, Support!Closed
  <2>4. PICK type \in {"Reply", "InternalNote"}, empty \in BOOLEAN :
          Support!Edit(r, t, answered(type),
                       IF empty THEN <<>> ELSE <<Support!Line("NhanVien", type, "none")>>)
    BY <1>7 DEF Support!SendStaffMessage
  <2> HIDE DEF answered
  <2> QED
    BY <2>1, <2>3, <2>4, TicketEditKeeps
<1>8. ASSUME NEW r \in Requests, NEW t \in Support!There, Support!CloseTicket(r, t)
      PROVE  TicketsInv'
  <2>1. Fits([tickets[t] EXCEPT !.status = "DaDong", !.closed = Support!Now])
    BY <1>0 DEF Fits, Support!SupportTicket, Support!TicketStatus, Support!Closed
  <2> QED
    BY <1>8, <2>1, TicketEditKeeps DEF Support!CloseTicket, Support!ticketVars
<1>9. ASSUME NEW r \in Requests, NEW t \in Support!There, Support!ResolveTicket(r, t)
      PROVE  TicketsInv'
  <2>1. Fits([tickets[t] EXCEPT !.status = "DaGiaiQuyet", !.resolved = Support!Now])
    BY <1>0 DEF Fits, Support!SupportTicket, Support!TicketStatus, Support!Closed
  <2> QED
    BY <1>9, <2>1, TicketEditKeeps DEF Support!ResolveTicket, Support!ticketVars
<1>10. ASSUME NEW r \in Requests, NEW t \in Support!There, Support!UpdateTicketMeta(r, t)
       PROVE  TicketsInv'
  <2>1. Fits([tickets[t] EXCEPT !.urgent = ~@])
    BY <1>0 DEF Fits, Support!SupportTicket, Support!TicketStatus, Support!Closed
  <2> QED
    BY <1>10, <2>1, TicketEditKeeps DEF Support!UpdateTicketMeta, Support!ticketVars
<1>11. ASSUME NEW r \in Requests, NEW t \in Support!There, Support!ReopenTicket(r, t)
       PROVE  TicketsInv'
  <2>1. Fits(Support!Reopened(tickets[t]))
    BY <1>0, <1>11 DEF Support!ReopenTicket, Support!Reopened, Fits,
       Support!SupportTicket, Support!TicketStatus, Support!Closed
  <2> QED
    BY <1>11, <2>1, TicketEditKeeps DEF Support!ReopenTicket, Support!ticketVars
<1>12. ASSUME NEW t \in Support!There, Support!TimePasses(t) PROVE TicketsInv'
  <2>1. UNCHANGED <<pc, job, served, tickets>> /\ aged' \subseteq Support!There
        /\ late' \subseteq Support!There
    BY <1>0, <1>12 DEF Support!TimePasses, Support!handling
  <2> QED
    BY <1>0, <2>1 DEF TicketsInv, TicketRows, TicketJobs, Slots, Support!There, Fits, Near
<1>13. CASE Support!AutoTransitionStaleTickets
  <2> DEFINE stale == {t \in aged : tickets[t].status = "Moi"}
  <2>1. tickets' = [t \in Support!There |-> IF t \in stale
                      THEN [tickets[t] EXCEPT !.status = "DangXuLy"] ELSE tickets[t]]
    BY <1>13 DEF Support!AutoTransitionStaleTickets
  <2>2. \A t \in stale : /\ tickets[t].status = "Moi" /\ Fits(tickets[t])
                         /\ Fits([tickets[t] EXCEPT !.status = "DangXuLy"])
    BY <1>0 DEF Fits, Support!SupportTicket, Support!TicketStatus, Support!Closed
  <2> HIDE DEF stale
  <2>3. Support!There' = Support!There /\ \A t \in Support!There' : Fits(tickets'[t])
    <3> HIDE DEF Fits
    <3> QED
      BY <1>0, <2>1, <2>2 DEF Support!There
  <2>4. UNCHANGED <<pc, job, served, aged, late>>
    BY <1>13 DEF Support!AutoTransitionStaleTickets, Support!handling
  <2>5. \A t \in Support!There, c \in Support!Columns :
          \/ tickets'[t][c] = tickets[t][c]
          \/ c = "status" /\ tickets[t][c] = "Moi" /\ tickets'[t][c] = "DangXuLy"
    <3> SUFFICES ASSUME NEW t \in Support!There, NEW c \in Support!Columns, t \in stale
                 PROVE  \/ tickets'[t][c] = tickets[t][c]
                        \/ c = "status" /\ tickets[t][c] = "Moi" /\ tickets'[t][c] = "DangXuLy"
      BY <2>1
    <3>1. tickets'[t] = [tickets[t] EXCEPT !.status = "DangXuLy"] /\ tickets[t].status = "Moi"
      BY <2>1, <2>2
    <3>2. tickets[t] \in Support!SupportTicket
      BY <1>0 DEF Fits
    <3> QED
      BY <3>1, <3>2 DEF Support!Columns, Support!SupportTicket
  <2>6. ASSUME NEW r \in Requests, pc[r] = "update"
        PROVE  Near(tickets'[job[r].ticket], job[r].row, job[r].columns)
    <3>1. job[r].ticket \in Support!There /\ Near(tickets[job[r].ticket], job[r].row, job[r].columns)
      BY <2>6 DEF TicketsInv, TicketJobs
    <3> QED
      BY <2>5, <3>1 DEF Near
  <2>7. TicketRows'
    BY <1>0, <2>1, <2>3, <2>4 DEF TicketRows
  <2>8. TicketJobs'
    BY <2>3, <2>4, <2>6 DEF TicketsInv, TicketJobs, Fits
  <2> QED
    BY <1>0, <2>4, <2>7, <2>8 DEF TicketsInv, Slots
<1>14. CASE UNCHANGED supportVars
  BY <1>14 DEF supportVars, Support!ticketVars, Support!handling, TicketsInv, TicketRows,
     TicketJobs, Slots, Support!There, Fits, Near
<1> QED
  BY <1>1, <1>2, <1>3, <1>5, <1>6, <1>7, <1>8, <1>9, <1>10, <1>11, <1>12, <1>13, <1>14, <1>15
  DEF Support!Next

\* While handlers do not overlap, wherever they end and whenever the hourly job runs, a
\* ticket is finished, with the time of its end, if and only if it is not open; and each
\* open ticket that has an assignee is on that employee's list.
THEOREM TimesAgreeWithStatus ==
  ASSUME OneAtATime, "nobody" \notin Staff
  PROVE  SupportSpec => []Support!TimesFitStatus
<1>1. TicketsInv => Support!TimesFitStatus
  <2> SUFFICES ASSUME TicketsInv PROVE Support!TimesFitStatus
    OBVIOUS
  <2>0. /\ late \subseteq Support!There
        /\ \A t \in Support!There : Fits(tickets[t])
    BY DEF TicketsInv, TicketRows
  <2> USE <2>0 DEF Fits, Support!SupportTicket, Support!TicketStatus,
        Support!Closed, Support!Open
  <2>1. Support!SlaBreached \cup Support!Urgent \subseteq Support!Open
    BY DEF Support!SlaBreached, Support!Urgent
  <2>2. Support!Finished \cap Support!Open = {} /\ Support!Finished \cup Support!Open =
          Support!There
    BY DEF Support!Finished
  <2>3. \A t : t \in UNION {Support!OpenOf(e) : e \in Staff}
               <=> t \in Support!Open /\ tickets[t].assignedTo # "nobody"
    BY DEF Support!OpenOf
  <2> QED
    BY <2>1, <2>2, <2>3 DEF Support!TimesFitStatus
<1> QED
  BY <1>1, TicketsInvInit, TicketsInvNext, PTL DEF SupportSpec

\* Likewise, a ticket that someone was put on is not listed as new.
THEOREM NewTicketsAreUntouched ==
  ASSUME OneAtATime PROVE SupportSpec => []Support!TakenUpIsNotNew
<1>1. TicketsInv => Support!TakenUpIsNotNew
  BY DEF TicketsInv, TicketRows, Fits, Support!TakenUpIsNotNew, Support!Untouched
<1> QED
  BY <1>1, TicketsInvInit, TicketsInvNext, PTL DEF SupportSpec

-----------------------------------------------------------------------------
(* Returns: refunds and exchanges tie up with the orders they settle, although request,      *)
(* resolution and order are saved by handlers that overwrite each other.  What a stale       *)
(* entity may take back is a status; what it refers to never changes (Kept), and an order    *)
(* that was delivered or refunded stays so.                                                  *)

ReturnsStart == Back!ReturnsInit /\ Quiet

shopVars == <<Back!returnVars, Back!handling>>

ReturnsSpec == ReturnsStart /\ [][Back!Next]_shopVars

\* What requests ask for is what the API accepts.
Accepted ==
  /\ Quantity \in Nat /\ Asked \subseteq Nat
  /\ Decisions \subseteq {"none", "GiaoHangMoi", "HoanTien", "BaoHanh"}

-----------------------------------------------------------------------------
(* The invariant: the rows, and what handlers hold of them *)

\* A resolution, as it is or as a handler is about to save it, ties up with the rest.
Settled(s) ==
  /\ s \in Back!Resolution /\ s.request \in DOMAIN requests
  /\ s.way # "GiaoHangMoi" => s.order = 0
  /\ s.way = "HoanTien" => orders[requests[s.request].order].refunded
  /\ s.way = "GiaoHangMoi" =>
       /\ s.order \in DOMAIN orders
       /\ orders[s.order].quantity = requests[s.request].quantity
       /\ s.status = "HoanThanh" => orders[s.order].status = "DaGiao"

Rows ==
  /\ orders \in Seq(Back!Order) /\ requests \in Seq(Back!ReturnRequest)
  /\ resolutions \in Seq(Back!Resolution)
  /\ \A i \in DOMAIN requests : requests[i].order \in DOMAIN orders
  /\ \A k \in DOMAIN resolutions : Settled(resolutions[k])
  /\ \A k, m \in DOMAIN resolutions :
       k # m /\ resolutions[k].way = "GiaoHangMoi" => resolutions[m].order # resolutions[k].order

\* What each resolution is of, and how it settles the request, does not change.
SameSubject(s, k) ==
  s.request = resolutions[k].request /\ s.way = resolutions[k].way /\ s.order =
      resolutions[k].order

Held(r) ==
  /\ pc[r] = "submit" => job[r] \in Back!ReturnRequest /\ job[r].order \in DOMAIN orders
  /\ pc[r] = "save" =>
       /\ job[r].request \in DOMAIN requests /\ job[r].new \in Back!ReturnRequest
       /\ job[r].new.order = requests[job[r].request].order
       /\ job[r].new.quantity = requests[job[r].request].quantity
  /\ pc[r] \in {"refund", "refund 2", "exchange", "exchange 2", "warranty", "warranty 2"} =>
       job[r].request \in DOMAIN requests /\ job[r].receipt \in Receipts \cup {NoReceipt}
  /\ pc[r] = "deliver" =>
       /\ job[r].resolution \in DOMAIN resolutions
       /\ resolutions[job[r].resolution].way = "GiaoHangMoi"
  /\ pc[r] = "hand out" =>
       /\ job[r].request \in DOMAIN requests /\ job[r].resolution \in DOMAIN resolutions
       /\ resolutions[job[r].resolution].way = "BaoHanh"
  /\ pc[r] = "save resolution" =>
       /\ job[r].resolution \in DOMAIN resolutions
       /\ Settled(job[r].new) /\ SameSubject(job[r].new, job[r].resolution)

ReturnsInv ==
  /\ Rows
  /\ pc = [r \in Requests |-> pc[r]] /\ job = [r \in Requests |-> job[r]]
  /\ \A r \in Requests : Held(r)

\* What no step changes, whatever it saves.
OrdersKept ==
  \A o \in DOMAIN orders :
    /\ o \in DOMAIN orders' /\ orders'[o].quantity = orders[o].quantity
    /\ orders[o].refunded => orders'[o].refunded
    /\ orders[o].status = "DaGiao" => orders'[o].status = "DaGiao"
RequestsKept ==
  \A i \in DOMAIN requests :
    /\ i \in DOMAIN requests' /\ requests'[i].order = requests[i].order
    /\ requests'[i].quantity = requests[i].quantity
ResolutionsKept ==
  \A k \in DOMAIN resolutions :
    /\ k \in DOMAIN resolutions' /\ resolutions'[k].request = resolutions[k].request
    /\ resolutions'[k].way = resolutions[k].way /\ resolutions'[k].order = resolutions[k].order
Kept == OrdersKept /\ RequestsKept /\ ResolutionsKept

\* At the start there is one order, and at most one accepted request.
LEMMA ReturnsInvInit == Accepted /\ ReturnsStart => ReturnsInv
<1> SUFFICES ASSUME Accepted, ReturnsStart PROVE ReturnsInv
  OBVIOUS
<1>1. orders \in Seq(Back!Order) /\ DOMAIN orders = {1}
  BY DEF ReturnsStart, Quiet, Back!ReturnsInit, Back!Order, Accepted
<1>2. requests \in Seq(Back!ReturnRequest) /\ \A i \in DOMAIN requests : requests[i].order = 1
  <2>1. CASE requests = <<>>
    BY <2>1
  <2>2. CASE requests # <<>>
    <3> DEFINE first(type, q) == [Back!NewRequest(1, type, q) EXCEPT !.status = "DaDuyet"]
    <3> DEFINE firsts == {<<first(type, q)>> : type \in {"DoiHang", "TraHang", "BaoHanh"},
          q \in Asked \ {0}}
    <3>0. Back!ReturnsInit => requests \in {<<>>} \cup firsts
      BY DEF Back!ReturnsInit
    <3>1. requests \in firsts
      <4> HIDE DEF firsts
      <4> QED
        BY <2>2, <3>0 DEF ReturnsStart, Quiet
    <3>2. ASSUME NEW type \in {"DoiHang", "TraHang", "BaoHanh"}, NEW q \in Asked \ {0}
          PROVE  first(type, q) \in Back!ReturnRequest /\ first(type, q).order = 1
      <4> DEFINE n == Back!NewRequest(1, type, q)
      <4>1. n \in Back!ReturnRequest /\ n.order = 1
        BY DEF Back!NewRequest, Back!ReturnRequest, Accepted
      <4> HIDE DEF n
      <4>2. [n EXCEPT !.status = "DaDuyet"] \in Back!ReturnRequest
        BY <4>1 DEF Back!ReturnRequest
      <4>3. [n EXCEPT !.status = "DaDuyet"].order = 1
        BY <4>1 DEF Back!ReturnRequest
      <4> QED
        BY <4>2, <4>3 DEF n
    <3> HIDE DEF first, firsts
    <3>3. PICK type \in {"DoiHang", "TraHang", "BaoHanh"}, q \in Asked \ {0} :
            requests = <<first(type, q)>>
      BY <3>1 DEF firsts
    <3> QED
      BY <3>2, <3>3
  <2> QED
    BY <2>1, <2>2
<1> QED
  BY <1>1, <1>2 DEF ReturnsStart, Quiet, Back!ReturnsInit, ReturnsInv, Rows, Held

-----------------------------------------------------------------------------
(* What handlers hold stays good while others write *)

\* A resolution stays tied up while the rows it points at keep what it relies on.
LEMMA SettledKept ==
  ASSUME Rows, Kept, NEW s, Settled(s)
  PROVE  /\ s \in Back!Resolution /\ s.request \in DOMAIN requests'
         /\ s.way # "GiaoHangMoi" => s.order = 0
         /\ s.way # "GiaoHangMoi" => s.order = 0
         /\ s.way # "GiaoHangMoi" => s.order = 0
         /\ s.way = "HoanTien" => orders'[requests'[s.request].order].refunded
         /\ s.way = "GiaoHangMoi" =>
              /\ s.order \in DOMAIN orders'
              /\ orders'[s.order].quantity = requests'[s.request].quantity
              /\ s.status = "HoanThanh" => orders'[s.order].status = "DaGiao"
  BY DEF Rows, Kept, OrdersKept, RequestsKept, Settled

\* What a handler holds stays good through the step of another.
LEMMA HeldKept ==
  ASSUME Rows, Kept, NEW q \in Requests, Held(q), pc'[q] = pc[q], job'[q] = job[q]
  PROVE  Held(q)'
<1>1. ASSUME pc[q] = "save resolution" PROVE Settled(job[q].new)'
  <2>1. Settled(job[q].new)
    BY <1>1 DEF Held
  <2> DEFINE s == job[q].new
  <2>2. s = job'[q].new
    OBVIOUS
  <2> HIDE DEF s
  <2>3. Settled(s)
    BY <2>1 DEF s
  <2> QED
    BY <2>2, <2>3, SettledKept DEF Settled
<1>2. pc[q] = "save resolution" =>
        /\ job[q].resolution \in DOMAIN resolutions'
        /\ job[q].new.request = resolutions'[job[q].resolution].request
        /\ job[q].new.way = resolutions'[job[q].resolution].way
        /\ job[q].new.order = resolutions'[job[q].resolution].order
  BY DEF Held, SameSubject, Kept, ResolutionsKept
<1>3. pc[q] \in {"deliver", "hand out"} =>
        /\ job[q].resolution \in DOMAIN resolutions'
        /\ resolutions'[job[q].resolution].way = resolutions[job[q].resolution].way
  BY DEF Held, Kept, ResolutionsKept
<1>4. pc[q] = "submit" => job[q].order \in DOMAIN orders'
  BY DEF Held, Kept, OrdersKept
<1>5. pc[q] \in {"save", "refund", "refund 2", "exchange", "exchange 2", "warranty",
                 "warranty 2", "hand out"} =>
        /\ job[q].request \in DOMAIN requests'
        /\ requests'[job[q].request].order = requests[job[q].request].order
        /\ requests'[job[q].request].quantity = requests[job[q].request].quantity
  BY DEF Held, Kept, RequestsKept
<1>6. CASE pc[q] = "save resolution"
  BY <1>1, <1>2, <1>6 DEF Held, SameSubject
<1>7. CASE pc[q] # "save resolution"
  BY <1>3, <1>4, <1>5, <1>7 DEF Held
<1> QED
  BY <1>6, <1>7

\* A step of one handler: the rest follows from what it does to the rows and holds next.
LEMMA OneHandler ==
  ASSUME ReturnsInv, Kept, Rows', NEW r \in Requests, NEW l, NEW j,
         pc' = [pc EXCEPT ![r] = l], job' = [job EXCEPT ![r] = j], Held(r)'
  PROVE  ReturnsInv'
<1>1. \A q \in Requests \ {r} : pc'[q] = pc[q] /\ job'[q] = job[q]
  BY DEF ReturnsInv
<1>2. ASSUME NEW q \in Requests PROVE Held(q)'
  <2>1. CASE q = r
    BY <2>1
  <2>2. CASE q # r
    BY <1>1, <2>2, HeldKept DEF ReturnsInv
  <2> QED
    BY <2>1, <2>2
<1>3. /\ pc' = [q \in Requests |-> pc'[q]] /\ job' = [q \in Requests |-> job'[q]]
  BY DEF ReturnsInv
<1> QED
  BY <1>2, <1>3 DEF ReturnsInv

\* A step that only reads.
LEMMA Reading ==
  ASSUME Rows, UNCHANGED Back!returnVars
  PROVE  Kept /\ Rows'
  BY DEF Rows, Settled, Kept, OrdersKept, RequestsKept, ResolutionsKept, Back!returnVars

\* While no resolution is written, those there are stay settled.
LEMMA RowsKept ==
  ASSUME Rows, Kept, UNCHANGED resolutions,
         orders' \in Seq(Back!Order), requests' \in Seq(Back!ReturnRequest),
         \A i \in DOMAIN requests' : requests'[i].order \in DOMAIN orders'
  PROVE  Rows'
<1>1. ASSUME NEW k \in DOMAIN resolutions PROVE Settled(resolutions[k])'
  <2> DEFINE s == resolutions[k]
  <2>1. Settled(s) /\ s = resolutions'[k]
    BY DEF Rows
  <2> HIDE DEF s
  <2> QED
    BY <2>1, SettledKept DEF Settled
<1> QED
  BY <1>1 DEF Rows

\* A handler that ends with its write.
LEMMA Ending ==
  ASSUME ReturnsInv, Kept, Rows', NEW r \in Requests, Back!Finish(r)
  PROVE  ReturnsInv'
<1>1. pc' = [pc EXCEPT ![r] = "idle"] /\ job' = [job EXCEPT ![r] = <<>>] /\ pc'[r] = "idle"
  BY DEF Back!Finish, ReturnsInv
<1>2. Held(r)'
  BY <1>1 DEF Held
<1> QED
  BY <1>1, <1>2, OneHandler

\* A handler that reads: the rows stay, and what it holds next has to be good.
LEMMA Reads ==
  ASSUME ReturnsInv, UNCHANGED Back!returnVars, NEW r \in Requests, NEW l, NEW j,
         pc' = [pc EXCEPT ![r] = l], job' = [job EXCEPT ![r] = j],
         pc'[r] = l /\ job'[r] = j => Held(r)'
  PROVE  ReturnsInv'
<1>1. pc'[r] = l /\ job'[r] = j
  BY DEF ReturnsInv
<1>2. Kept /\ Rows'
  BY Reading DEF ReturnsInv
<1> QED
  BY <1>1, <1>2, OneHandler

-----------------------------------------------------------------------------
(* The steps of submitReturn and of the handlers that edit a request *)

\* A step that saves a request.
LEMMA Saving ==
  ASSUME Rows, NEW i \in DOMAIN requests, NEW new \in Back!ReturnRequest,
         new.order = requests[i].order, new.quantity = requests[i].quantity,
         requests' = [requests EXCEPT ![i] = new]
  PROVE  /\ requests' \in Seq(Back!ReturnRequest) /\ RequestsKept
         /\ DOMAIN requests' = DOMAIN requests
         /\ \A k \in DOMAIN requests : /\ requests'[k].order = requests[k].order
                                       /\ requests'[k].quantity = requests[k].quantity
<1>1. /\ requests' \in Seq(Back!ReturnRequest) /\ DOMAIN requests' = DOMAIN requests
      /\ \A k \in DOMAIN requests : /\ requests'[k].order = requests[k].order
                                    /\ requests'[k].quantity = requests[k].quantity
  BY DEF Rows
<1> QED
  BY <1>1 DEF RequestsKept


\* An entity that is held to be saved keeps what its row refers to.
LEMMA EditKeeps ==
  ASSUME ReturnsInv, NEW r \in Requests, NEW i \in DOMAIN requests, NEW new, Back!Edit(r, i, new),
         new \in Back!ReturnRequest, new.order = requests[i].order,
             new.quantity = requests[i].quantity
  PROVE  ReturnsInv'
<1> DEFINE j == [request |-> i, new |-> new]
<1>1. UNCHANGED Back!returnVars /\ pc' = [pc EXCEPT ![r] = "save"] /\ job' = [job EXCEPT ![r] = j]
  BY DEF Back!Edit, Back!Begin
<1>2. j.request = i /\ j.new = new /\ requests' = requests
  BY <1>1 DEF Back!returnVars
<1> HIDE DEF j
<1>3. pc'[r] = "save" /\ job'[r] = j => Held(r)'
  BY <1>2 DEF Held
<1> QED
  BY <1>1, <1>3, Reads

\* The customer's requests and the decisions of the staff.
LEMMA WorkflowKeeps ==
  ASSUME Accepted, ReturnsInv, NEW r \in Requests, Back!Workflow(r)
  PROVE  ReturnsInv'
<1>1. ASSUME NEW o \in DOMAIN orders, NEW type \in {"DoiHang", "TraHang", "BaoHanh"},
             NEW q \in Asked, Back!SubmitRead(r, o, type, q)
      PROVE  ReturnsInv'
  <2> DEFINE j == Back!NewRequest(o, type, q)
  <2>1. o \in Nat \ {0}
    BY DEF ReturnsInv, Rows
  <2>2. j \in Back!ReturnRequest /\ j.order = o
    BY <2>1 DEF Back!NewRequest, Back!ReturnRequest, Accepted
  <2>3. /\ UNCHANGED Back!returnVars /\ pc' = [pc EXCEPT ![r] = "submit"]
        /\ job' = [job EXCEPT ![r] = j]
    BY <1>1 DEF Back!SubmitRead, Back!Begin
  <2> HIDE DEF j
  <2>4. pc'[r] = "submit" /\ job'[r] = j => Held(r)'
    BY <2>2, <2>3 DEF Held, Back!returnVars
  <2> QED
    BY <2>3, <2>4, Reads
<1>2. CASE Back!SubmitInsert(r)
  <2>1. job[r] \in Back!ReturnRequest /\ job[r].order \in DOMAIN orders
    BY <1>2 DEF Back!SubmitInsert, ReturnsInv, Held
  <2>2. requests' = Append(requests, job[r]) /\ UNCHANGED <<orders, resolutions>>
    BY <1>2 DEF Back!SubmitInsert
  <2>3. RequestsKept /\ requests' \in Seq(Back!ReturnRequest)
        /\ \A i \in DOMAIN requests' : requests'[i].order \in DOMAIN orders'
    BY <2>1, <2>2 DEF ReturnsInv, Rows, RequestsKept
  <2>4. Kept
    BY <2>2, <2>3 DEF Kept, OrdersKept, ResolutionsKept
  <2>5. Rows'
    BY <2>2, <2>3, <2>4, RowsKept DEF ReturnsInv, Rows
  <2> QED
    BY <1>2, <2>4, <2>5, Ending DEF Back!SubmitInsert
<1>3. ASSUME NEW i \in DOMAIN requests, Back!ProcessReturn(r, i) PROVE ReturnsInv'
  <2>1. PICK s \in {"DaDuyet", "TuChoi", "DangXuLy", "HoanThanh"},
             t \in {requests[i].inspected, TRUE}, d \in {requests[i].decision} \cup Decisions :
          Back!Edit(r, i, [requests[i] EXCEPT !.status = s, !.inspected = t, !.decision = d])
    BY <1>3 DEF Back!ProcessReturn
  <2>2. requests[i] \in Back!ReturnRequest
    BY DEF ReturnsInv, Rows
  <2> QED
    BY <2>1, <2>2, EditKeeps DEF Back!ReturnRequest, Accepted
<1>4. ASSUME NEW i \in DOMAIN requests,
             \/ Back!ConfirmGoodsReceived(r, i) \/ Back!UpdateInspectionResult(r, i)
             \/ Back!CompleteInspection(r, i) \/ Back!RejectAfterInspection(r, i)
                    \/ Back!ChangeResolution(r, i)
      PROVE  ReturnsInv'
  <2>1. requests[i] \in Back!ReturnRequest
    BY DEF ReturnsInv, Rows
  <2> USE DEF Back!ReturnRequest
  <2>2. CASE Back!ConfirmGoodsReceived(r, i)
    BY <2>1, <2>2, EditKeeps DEF Back!ConfirmGoodsReceived
  <2>3. CASE Back!UpdateInspectionResult(r, i)
    BY <2>1, <2>3, EditKeeps DEF Back!UpdateInspectionResult
  <2>4. CASE Back!CompleteInspection(r, i)
    BY <2>1, <2>4, EditKeeps DEF Back!CompleteInspection
  <2>5. CASE Back!RejectAfterInspection(r, i)
    BY <2>1, <2>5, EditKeeps DEF Back!RejectAfterInspection
  <2>6. CASE Back!ChangeResolution(r, i)
    BY <2>1, <2>6, EditKeeps DEF Back!ChangeResolution
  <2> QED
    BY <1>4, <2>2, <2>3, <2>4, <2>5, <2>6
<1>5. CASE Back!SaveRequest(r)
  <2> DEFINE i == job[r].request
             new == job[r].new
  <2>1. /\ i \in DOMAIN requests /\ new \in Back!ReturnRequest
        /\ new.order = requests[i].order /\ new.quantity = requests[i].quantity
    BY <1>5 DEF Back!SaveRequest, ReturnsInv, Held
  <2>2. requests' = [requests EXCEPT ![i] = new] /\ UNCHANGED <<orders, resolutions>>
    BY <1>5 DEF Back!SaveRequest
  <2> HIDE DEF i, new
  <2>3. /\ requests' \in Seq(Back!ReturnRequest) /\ RequestsKept
        /\ DOMAIN requests' = DOMAIN requests
        /\ \A k \in DOMAIN requests : requests'[k].order = requests[k].order
    BY <2>1, <2>2, Saving DEF ReturnsInv
  <2>4. Kept
    BY <2>2, <2>3 DEF Kept, OrdersKept, ResolutionsKept
  <2>5. Rows'
    BY <2>2, <2>3, <2>4, RowsKept DEF ReturnsInv, Rows
  <2> QED
    BY <1>5, <2>4, <2>5, Ending DEF Back!SaveRequest
<1> QED
  BY <1>1, <1>2, <1>3, <1>4, <1>5 DEF Back!Workflow

-----------------------------------------------------------------------------
(* The steps that settle a request *)

\* A step that sets the status of a request.
LEMMA Marking ==
  ASSUME Rows, NEW i \in DOMAIN requests, NEW st \in {"HoanThanh", "DangXuLy"},
         requests' = [requests EXCEPT ![i].status = st]
  PROVE  /\ requests' \in Seq(Back!ReturnRequest) /\ RequestsKept
         /\ DOMAIN requests' = DOMAIN requests
         /\ \A k \in DOMAIN requests : /\ requests'[k].order = requests[k].order
                                       /\ requests'[k].quantity = requests[k].quantity
<1> DEFINE new == [requests[i] EXCEPT !.status = st]
<1>1. requests[i] \in Back!ReturnRequest
  BY DEF Rows
<1>2. new \in Back!ReturnRequest /\ new.order = requests[i].order /\ new.quantity =
        requests[i].quantity
  BY <1>1 DEF Back!ReturnRequest
<1>3. requests' = [requests EXCEPT ![i] = new]
  OBVIOUS
<1> HIDE DEF new
<1> QED
  BY <1>2, <1>3, Saving

\* A step that inserts a resolution.
LEMMA Inserting ==
  ASSUME Rows, Kept, NEW s, resolutions' = Append(resolutions, s),
         orders' \in Seq(Back!Order), requests' \in Seq(Back!ReturnRequest),
         \A i \in DOMAIN requests' : requests'[i].order \in DOMAIN orders',
         Settled(s)', s.way = "GiaoHangMoi" => s.order \notin DOMAIN orders
  PROVE  Rows'
<1>1. ASSUME NEW k \in DOMAIN resolutions PROVE Settled(resolutions[k])'
  <2> DEFINE t == resolutions[k]
  <2>1. Settled(t) /\ t = resolutions'[k]
    BY DEF Rows
  <2> HIDE DEF t
  <2> QED
    BY <2>1, SettledKept DEF Settled
<1>2. resolutions' \in Seq(Back!Resolution)
  BY DEF Rows, Settled
<1>3. \A k \in DOMAIN resolutions' : Settled(resolutions[k])'
  <2> SUFFICES ASSUME NEW k \in DOMAIN resolutions' PROVE Settled(resolutions[k])'
    OBVIOUS
  <2>1. CASE k \in DOMAIN resolutions
    BY <2>1, <1>1
  <2>2. CASE k \notin DOMAIN resolutions
    <3>1. resolutions'[k] = s
      BY <2>2 DEF Rows
    <3> QED
      BY <3>1 DEF Settled
  <2> QED
    BY <2>1, <2>2
<1>4. /\ \A k \in DOMAIN resolutions : resolutions'[k] = resolutions[k]
      /\ \A k \in DOMAIN resolutions' \ DOMAIN resolutions : resolutions'[k] = s
      /\ \A k, m \in DOMAIN resolutions' \ DOMAIN resolutions : k = m
  BY DEF Rows
<1>5. \A k \in DOMAIN resolutions :
        IF resolutions[k].way = "GiaoHangMoi" THEN resolutions[k].order \in DOMAIN orders
        ELSE resolutions[k].order = 0
  BY DEF Rows, Settled
<1>6. /\ 0 \notin DOMAIN orders
      /\ s.way # "GiaoHangMoi" => s.order = 0
      /\ s.way = "GiaoHangMoi" => s.order # 0
  BY DEF Rows, Settled
<1>7. ASSUME NEW k \in DOMAIN resolutions', NEW m \in DOMAIN resolutions',
             k # m, resolutions'[k].way = "GiaoHangMoi"
      PROVE  resolutions'[m].order # resolutions'[k].order
  <2>1. CASE k \in DOMAIN resolutions /\ m \in DOMAIN resolutions
    BY <1>4, <1>7, <2>1 DEF Rows
  <2>2. CASE k \in DOMAIN resolutions /\ m \notin DOMAIN resolutions
    BY <1>4, <1>5, <1>6, <1>7, <2>2
  <2>3. CASE k \notin DOMAIN resolutions /\ m \in DOMAIN resolutions
    BY <1>4, <1>5, <1>6, <1>7, <2>3
  <2>4. CASE k \notin DOMAIN resolutions /\ m \notin DOMAIN resolutions
    BY <1>4, <1>7, <2>4
  <2> QED
    BY <2>1, <2>2, <2>3, <2>4
<1> QED
  BY <1>2, <1>3, <1>7 DEF Rows

\* A refund marks the order and the request and adds a resolution.
LEMMA Refunding ==
  ASSUME Rows, NEW i \in DOMAIN requests, NEW o, o = requests[i].order, NEW s \in Back!Resolution,
         s.request = i, s.way = "HoanTien", s.order = 0,
         orders' = [orders EXCEPT ![o].refunded = TRUE, ![o].fresh = @ \/ ~orders[o].refunded],
         requests' = [requests EXCEPT ![i].status = "HoanThanh"],
         resolutions' = Append(resolutions, s)
  PROVE  Kept /\ Rows'
<1>1. o \in DOMAIN orders /\ orders[o] \in Back!Order
  BY DEF Rows
<1> DEFINE d == [orders[o] EXCEPT !.refunded = TRUE, !.fresh = @ \/ ~orders[o].refunded]
<1>2. d \in Back!Order /\ d.refunded /\ d.quantity = orders[o].quantity /\ d.status =
        orders[o].status
  BY <1>1 DEF Back!Order
<1>3. orders' = [orders EXCEPT ![o] = d]
  BY <1>1 DEF Back!Order
<1> HIDE DEF d
<1>4. /\ orders' \in Seq(Back!Order) /\ OrdersKept /\ orders'[o].refunded
      /\ DOMAIN orders' = DOMAIN orders
  BY <1>1, <1>2, <1>3 DEF OrdersKept, Rows
<1>5. /\ requests' \in Seq(Back!ReturnRequest) /\ RequestsKept
      /\ DOMAIN requests' = DOMAIN requests
      /\ \A k \in DOMAIN requests : /\ requests'[k].order = requests[k].order
                                    /\ requests'[k].quantity = requests[k].quantity
  BY Marking
<1>6. ResolutionsKept
  BY DEF Rows, ResolutionsKept
<1>7. Kept
  BY <1>4, <1>5, <1>6 DEF Kept
<1>8. Settled(s)'
  BY <1>4, <1>5 DEF Settled
<1>9. \A k \in DOMAIN requests' : requests'[k].order \in DOMAIN orders'
  BY <1>4, <1>5 DEF Rows
<1> QED
  BY <1>4, <1>5, <1>7, <1>8, <1>9, Inserting

\* An exchange adds an order and a resolution that points at it.
LEMMA Exchanging ==
  ASSUME Rows, NEW i \in DOMAIN requests, NEW s \in Back!Resolution, NEW d \in Back!Order,
         s.request = i, s.way = "GiaoHangMoi", s.order = Len(orders) + 1, s.status = "DangXuLy",
         d.quantity = requests[i].quantity, orders' = Append(orders, d),
         requests' = [requests EXCEPT ![i].status = "DangXuLy"],
         resolutions' = Append(resolutions, s)
  PROVE  Kept /\ Rows'
<1>1. /\ requests' \in Seq(Back!ReturnRequest) /\ RequestsKept
      /\ DOMAIN requests' = DOMAIN requests
      /\ \A k \in DOMAIN requests : /\ requests'[k].order = requests[k].order
                                    /\ requests'[k].quantity = requests[k].quantity
  BY Marking
<1>2. /\ orders' \in Seq(Back!Order) /\ s.order \in DOMAIN orders' /\ s.order \notin DOMAIN orders
      /\ \A o \in DOMAIN orders : o \in DOMAIN orders' /\ orders'[o] = orders[o]
      /\ orders'[s.order] = d
  BY DEF Rows
<1>3. Kept
  <2>1. ResolutionsKept
    BY DEF Rows, ResolutionsKept
  <2> QED
    BY <2>1, <1>1, <1>2 DEF Kept, OrdersKept
<1>4. Settled(s)'
  BY <1>1, <1>2 DEF Settled
<1>5. \A k \in DOMAIN requests' : requests'[k].order \in DOMAIN orders'
  BY <1>1, <1>2 DEF Rows
<1> QED
  BY <1>1, <1>2, <1>3, <1>4, <1>5, Inserting

\* A step that saves a resolution of the same subject.
LEMMA Resaving ==
  ASSUME Rows, NEW k \in DOMAIN resolutions, NEW s, SameSubject(s, k),
         resolutions' = [resolutions EXCEPT ![k] = s],
         orders' \in Seq(Back!Order), OrdersKept, DOMAIN orders' = DOMAIN orders,
         requests' \in Seq(Back!ReturnRequest), RequestsKept, DOMAIN requests' = DOMAIN requests,
         Settled(s)'
  PROVE  Kept /\ Rows'
<1>1. /\ DOMAIN resolutions' = DOMAIN resolutions /\ resolutions'[k] = s
      /\ \A m \in DOMAIN resolutions : m # k => resolutions'[m] = resolutions[m]
  BY DEF Rows
<1>2. s \in Back!Resolution
  BY DEF Settled
<1>3. resolutions' \in Seq(Back!Resolution)
  BY <1>2 DEF Rows
<1>4. \A m \in DOMAIN resolutions :
        /\ resolutions'[m].request = resolutions[m].request
        /\ resolutions'[m].way = resolutions[m].way
        /\ resolutions'[m].order = resolutions[m].order
  BY <1>1 DEF SameSubject
<1>5. Kept
  BY <1>1, <1>4 DEF Kept, ResolutionsKept
<1>6. ASSUME NEW m \in DOMAIN resolutions' PROVE Settled(resolutions[m])'
  <2>1. CASE m = k
    <3>1. resolutions'[m] = s
      BY <1>1, <2>1
    <3> QED
      BY <3>1 DEF Settled
  <2>2. CASE m # k
    <3> DEFINE t == resolutions[m]
    <3>1. Settled(t) /\ t = resolutions'[m]
      BY <1>1, <2>2 DEF Rows
    <3> HIDE DEF t
    <3> QED
      BY <1>5, <3>1, SettledKept DEF Settled
  <2> QED
    BY <2>1, <2>2
<1>7. \A i \in DOMAIN requests' : requests'[i].order \in DOMAIN orders'
  BY DEF Rows, RequestsKept
<1>8. \A m, n \in DOMAIN resolutions' :
        m # n /\ resolutions'[m].way = "GiaoHangMoi" =>
            resolutions'[n].order # resolutions'[m].order
  BY <1>1, <1>4 DEF Rows
<1> QED
  BY <1>3, <1>5, <1>6, <1>7, <1>8 DEF Rows

\* The delivery of the new order completes the resolution and the request.
LEMMA Delivering ==
  ASSUME Rows, NEW k \in DOMAIN resolutions, resolutions[k].way = "GiaoHangMoi",
         NEW i, i = resolutions[k].request, NEW o, o = resolutions[k].order,
         orders' = [orders EXCEPT ![o].status = "DaGiao", ![o].fresh = TRUE],
         resolutions' = [resolutions EXCEPT ![k].status = "HoanThanh"],
         requests' = [requests EXCEPT ![i].status = "HoanThanh"]
  PROVE  Kept /\ Rows'
<1>1. /\ resolutions[k] \in Back!Resolution /\ i \in DOMAIN requests /\ o \in DOMAIN orders
      /\ orders[o] \in Back!Order /\ orders[o].quantity = requests[i].quantity
  BY DEF Rows, Settled
<1> DEFINE d == [orders[o] EXCEPT !.status = "DaGiao", !.fresh = TRUE]
           s == [resolutions[k] EXCEPT !.status = "HoanThanh"]
<1>2. /\ d \in Back!Order /\ d.quantity = orders[o].quantity /\ d.status = "DaGiao"
      /\ d.refunded = orders[o].refunded
  BY <1>1 DEF Back!Order
<1>3. /\ s \in Back!Resolution /\ s.request = i /\ s.order = o /\ s.way = "GiaoHangMoi"
      /\ s.receipt = resolutions[k].receipt
  BY <1>1 DEF Back!Resolution
<1>4. orders' = [orders EXCEPT ![o] = d]
  BY <1>1 DEF Back!Order
<1>5. resolutions' = [resolutions EXCEPT ![k] = s]
  OBVIOUS
<1>6. SameSubject(s, k)
  BY <1>3 DEF SameSubject
<1> SUFFICES ASSUME NEW e, e = d, NEW u, u = s PROVE Kept /\ Rows'
  OBVIOUS
<1> HIDE DEF d, s
<1>7. orders' \in Seq(Back!Order) /\ DOMAIN orders' = DOMAIN orders /\ OrdersKept /\ orders'[o] =
        d
  BY <1>1, <1>2, <1>4 DEF Rows, OrdersKept
<1>8. /\ requests' \in Seq(Back!ReturnRequest) /\ RequestsKept
      /\ DOMAIN requests' = DOMAIN requests
      /\ \A n \in DOMAIN requests : /\ requests'[n].order = requests[n].order
                                    /\ requests'[n].quantity = requests[n].quantity
  BY <1>1, Marking
<1>9. Settled(u)'
  BY <1>1, <1>2, <1>3, <1>7, <1>8 DEF Settled
<1> QED
  BY <1>5, <1>6, <1>7, <1>8, <1>9, Resaving

\* Every step of a refund or an exchange.
LEMMA SettlementKeeps ==
  ASSUME ReturnsInv, NEW r \in Requests, Back!Settlement(r)
  PROVE  ReturnsInv'
<1>1. ASSUME NEW i \in DOMAIN requests, NEW receipt \in Receipts \cup {NoReceipt},
             Back!RefundRead(r, i, receipt) \/ Back!ExchangeRead(r, i, receipt)
      PROVE  ReturnsInv'
  <2> DEFINE j == [request |-> i, receipt |-> receipt]
  <2>1. PICK l \in {"refund", "exchange"} :
          UNCHANGED Back!returnVars /\ pc' = [pc EXCEPT ![r] = l] /\ job' = [job EXCEPT ![r] = j]
    BY <1>1 DEF Back!RefundRead, Back!ExchangeRead, Back!Begin
  <2>2. j.request \in DOMAIN requests' /\ j.receipt = receipt
    BY <2>1 DEF Back!returnVars
  <2> HIDE DEF j
  <2>3. pc'[r] = l /\ job'[r] = j => Held(r)'
    BY <2>2 DEF Held
  <2> QED
    BY <2>1, <2>3, Reads
<1>2. ASSUME Back!RefundSnapshot(r) \/ Back!ExchangeSnapshot(r) PROVE ReturnsInv'
  <2> DEFINE j == [request |-> job[r].request, receipt |-> job[r].receipt, linked |-> Back!Linked]
  <2>1. PICK l \in {"refund 2", "exchange 2"} :
          UNCHANGED Back!returnVars /\ pc' = [pc EXCEPT ![r] = l] /\ job' = [job EXCEPT ![r] = j]
    BY <1>2 DEF Back!RefundSnapshot, Back!ExchangeSnapshot, Back!Continue
  <2>2. job[r].request \in DOMAIN requests /\ job[r].receipt \in Receipts \cup {NoReceipt}
    BY <1>2 DEF Back!RefundSnapshot, Back!ExchangeSnapshot, ReturnsInv, Held
  <2>3. j.request \in DOMAIN requests' /\ j.receipt \in Receipts \cup {NoReceipt}
    BY <2>1, <2>2 DEF Back!returnVars
  <2> HIDE DEF j
  <2>4. pc'[r] = l /\ job'[r] = j => Held(r)'
    BY <2>3 DEF Held
  <2> QED
    BY <2>1, <2>4, Reads
<1>3. CASE Back!RefundCommit(r)
  <2> DEFINE i == job[r].request
             s == [request |-> i, way |-> "HoanTien", status |-> "HoanThanh",
                   receipt |-> job[r].receipt, order |-> 0, handling |-> "none",
                   arrived |-> job[r].receipt # NoReceipt]
  <2>1. Rows /\ i \in DOMAIN requests /\ job[r].receipt \in Receipts \cup {NoReceipt}
    BY <1>3 DEF Back!RefundCommit, ReturnsInv, Held
  <2>2. s \in Back!Resolution /\ s.request = i /\ s.way = "HoanTien" /\ s.order = 0
    BY <2>1 DEF Back!Resolution, Rows
  <2>3. /\ orders' = [orders EXCEPT ![requests[i].order].refunded = TRUE,
                        ![requests[i].order].fresh = @ \/ ~orders[requests[i].order].refunded]
        /\ requests' = [requests EXCEPT ![i].status = "HoanThanh"]
        /\ resolutions' = Append(resolutions, s)
    BY <1>3 DEF Back!RefundCommit, Back!MarkRefunded, Back!AddResolution
  <2> HIDE DEF i, s
  <2> QED
    BY <1>3, <2>1, <2>2, <2>3, Refunding, Ending DEF Back!RefundCommit
<1>4. CASE Back!ExchangeCommit(r)
  <2> DEFINE i == job[r].request
             s == [request |-> i, way |-> "GiaoHangMoi", status |-> "DangXuLy",
                   receipt |-> job[r].receipt, order |-> Len(orders) + 1, handling |-> "none",
                   arrived |-> job[r].receipt # NoReceipt]
             d == [status |-> "DaXacNhan", refunded |-> FALSE,
                   quantity |-> requests[i].quantity, fresh |-> TRUE]
  <2>1. Rows /\ i \in DOMAIN requests /\ job[r].receipt \in Receipts \cup {NoReceipt}
    BY <1>4 DEF Back!ExchangeCommit, ReturnsInv, Held
  <2>2. /\ s \in Back!Resolution /\ s.request = i /\ s.way = "GiaoHangMoi"
        /\ s.order = Len(orders) + 1 /\ s.status = "DangXuLy"
    BY <2>1 DEF Back!Resolution, Rows
  <2>3. requests[i] \in Back!ReturnRequest
    BY <2>1 DEF Rows
  <2>4. d \in Back!Order /\ d.quantity = requests[i].quantity
    BY <2>3 DEF Back!Order, Back!ReturnRequest
  <2>5. /\ orders' = Append(orders, d)
        /\ requests' = [requests EXCEPT ![i].status = "DangXuLy"]
        /\ resolutions' = Append(resolutions, s)
    BY <1>4 DEF Back!ExchangeCommit, Back!AddResolution
  <2> HIDE DEF i, s, d
  <2> QED
    BY <1>4, <2>1, <2>2, <2>4, <2>5, Exchanging, Ending DEF Back!ExchangeCommit
<1>5. ASSUME NEW k \in DOMAIN resolutions, Back!DeliverRead(r, k) PROVE ReturnsInv'
  <2> DEFINE j == [resolution |-> k]
  <2>1. UNCHANGED Back!returnVars /\ pc' = [pc EXCEPT ![r] = "deliver"] /\ job' =
          [job EXCEPT ![r] = j]
    BY <1>5 DEF Back!DeliverRead, Back!Begin
  <2>2. j.resolution = k /\ resolutions' = resolutions /\ resolutions[k].way = "GiaoHangMoi"
    BY <1>5, <2>1 DEF Back!returnVars, Back!DeliverRead
  <2> HIDE DEF j
  <2>3. pc'[r] = "deliver" /\ job'[r] = j => Held(r)'
    BY <2>2 DEF Held
  <2> QED
    BY <2>1, <2>3, Reads
<1>6. CASE Back!DeliverCommit(r)
  <2> DEFINE k == job[r].resolution
  <2>1. Rows /\ k \in DOMAIN resolutions /\ resolutions[k].way = "GiaoHangMoi"
    BY <1>6 DEF Back!DeliverCommit, ReturnsInv, Held
  <2>2. /\ orders' = [orders EXCEPT ![resolutions[k].order].status = "DaGiao",
                                    ![resolutions[k].order].fresh = TRUE]
        /\ resolutions' = [resolutions EXCEPT ![k].status = "HoanThanh"]
        /\ requests' = [requests EXCEPT ![resolutions[k].request].status = "HoanThanh"]
    BY <1>6 DEF Back!DeliverCommit, Back!MarkDelivered
  <2> HIDE DEF k
  <2> QED
    BY <1>6, <2>1, <2>2, Delivering, Ending DEF Back!DeliverCommit
<1> QED
  BY <1>1, <1>2, <1>3, <1>4, <1>5, <1>6 DEF Back!Settlement

-----------------------------------------------------------------------------
(* The steps of a warranty, and the edits of a resolution *)

\* A resolution of a warranty needs no order.
LEMMA WarrantyInserting ==
  ASSUME Rows, NEW s \in Back!Resolution, s.request \in DOMAIN requests, s.way = "BaoHanh",
         s.order = 0,
         resolutions' = Append(resolutions, s), UNCHANGED <<orders, requests>>
  PROVE  Kept /\ Rows'
<1>1. Kept
  BY DEF Rows, Kept, OrdersKept, RequestsKept, ResolutionsKept
<1>2. Settled(s)'
  BY DEF Settled
<1>3. /\ orders' \in Seq(Back!Order) /\ requests' \in Seq(Back!ReturnRequest)
      /\ \A i \in DOMAIN requests' : requests'[i].order \in DOMAIN orders'
  BY DEF Rows
<1> QED
  BY <1>1, <1>2, <1>3, Inserting

\* Handing out completes the resolution and its request.
LEMMA HandingOut ==
  ASSUME Rows, NEW k \in DOMAIN resolutions, resolutions[k].way = "BaoHanh",
         NEW i \in DOMAIN requests,
         resolutions' = [resolutions EXCEPT ![k].status = "HoanThanh"],
         requests' = [requests EXCEPT ![i].status = "HoanThanh"], UNCHANGED orders
  PROVE  Kept /\ Rows'
<1> DEFINE s == [resolutions[k] EXCEPT !.status = "HoanThanh"]
<1>1. Settled(resolutions[k]) /\ resolutions[k] \in Back!Resolution
  BY DEF Rows
<1>2. /\ s \in Back!Resolution /\ s.request = resolutions[k].request /\ s.way = "BaoHanh"
      /\ s.order = resolutions[k].order
  BY <1>1 DEF Back!Resolution
<1>3. resolutions' = [resolutions EXCEPT ![k] = s]
  OBVIOUS
<1>4. SameSubject(s, k)
  BY <1>2 DEF SameSubject
<1> SUFFICES ASSUME NEW u, u = s PROVE Kept /\ Rows'
  OBVIOUS
<1> HIDE DEF s
<1>5. requests' \in Seq(Back!ReturnRequest) /\ RequestsKept /\ DOMAIN requests' = DOMAIN requests
  BY Marking
<1>6. orders' \in Seq(Back!Order) /\ OrdersKept /\ DOMAIN orders' = DOMAIN orders
  BY DEF Rows, OrdersKept
<1>7. Settled(u)'
  BY <1>1, <1>2, <1>5 DEF Settled
<1> QED
  BY <1>3, <1>4, <1>5, <1>6, <1>7, Resaving

\* An edit starts from the row of a resolution.
LEMMA ResolutionEditKeeps ==
  ASSUME ReturnsInv, NEW r \in Requests, NEW k \in DOMAIN resolutions, NEW new,
         Back!EditResolution(r, k, new), Settled(new), SameSubject(new, k)
  PROVE  ReturnsInv'
<1> DEFINE j == [resolution |-> k, new |-> new]
<1>1. /\ UNCHANGED Back!returnVars /\ pc' = [pc EXCEPT ![r] = "save resolution"]
      /\ job' = [job EXCEPT ![r] = j]
  BY DEF Back!EditResolution, Back!Begin
<1>2. j.resolution = k /\ j.new = new
  OBVIOUS
<1> HIDE DEF j
<1>3. Settled(new)' /\ SameSubject(new, k)' /\ resolutions' = resolutions
  BY <1>1 DEF Settled, SameSubject, Back!returnVars
<1>4. pc'[r] = "save resolution" /\ job'[r] = j => Held(r)'
  <2> SUFFICES ASSUME pc'[r] = "save resolution", job'[r] = j PROVE Held(r)'
    OBVIOUS
  <2>1. job'[r].resolution = k /\ job'[r].new = new
    BY <1>2
  <2>2. Settled(job[r].new)' /\ SameSubject(job[r].new, job[r].resolution)'
    BY <1>3, <2>1 DEF Settled, SameSubject
  <2> QED
    BY <1>3, <2>1, <2>2 DEF Held
<1> QED
  BY <1>1, <1>4, Reads

\* Every step of a warranty, and every edit of a resolution.
LEMMA WarrantyKeeps ==
  ASSUME ReturnsInv, NEW r \in Requests, Back!Warranty(r)
  PROVE  ReturnsInv'
<1>1. ASSUME NEW i \in DOMAIN requests, NEW receipt \in Receipts \cup {NoReceipt},
             Back!WarrantyInit(r, i, receipt)
      PROVE  ReturnsInv'
  <2> DEFINE j == [request |-> i, receipt |-> receipt]
  <2>1. UNCHANGED Back!returnVars /\ pc' = [pc EXCEPT ![r] = "warranty"] /\ job' =
          [job EXCEPT ![r] = j]
    BY <1>1 DEF Back!WarrantyInit, Back!Begin
  <2>2. j.request \in DOMAIN requests' /\ j.receipt = receipt
    BY <2>1 DEF Back!returnVars
  <2> HIDE DEF j
  <2>3. pc'[r] = "warranty" /\ job'[r] = j => Held(r)'
    BY <2>2 DEF Held
  <2> QED
    BY <2>1, <2>3, Reads
<1>2. CASE Back!WarrantyInsert(r)
  <2> DEFINE i == job[r].request
             s == [request |-> i, way |-> "BaoHanh", status |-> "DangXuLy",
                   receipt |-> job[r].receipt, order |-> 0, handling |-> "none",
                   arrived |-> job[r].receipt # NoReceipt]
  <2>1. Rows /\ i \in DOMAIN requests /\ job[r].receipt \in Receipts \cup {NoReceipt}
    BY <1>2 DEF Back!WarrantyInsert, ReturnsInv, Held
  <2>2. s \in Back!Resolution /\ s.request = i /\ s.way = "BaoHanh" /\ s.order = 0
    BY <2>1 DEF Back!Resolution, Rows
  <2>3. /\ resolutions' = Append(resolutions, s) /\ UNCHANGED <<orders, requests>>
        /\ pc' = [pc EXCEPT ![r] = "warranty 2"] /\ job' = [job EXCEPT ![r] = job[r]]
    BY <1>2 DEF Back!WarrantyInsert, Back!AddResolution, Back!Continue
  <2> HIDE DEF s
  <2>4. Kept /\ Rows'
    BY <2>1, <2>2, <2>3, WarrantyInserting
  <2>5. pc'[r] = "warranty 2" /\ job'[r] = job[r]
    BY <2>3 DEF ReturnsInv
  <2>6. Held(r)'
    BY <2>1, <2>3, <2>5 DEF Held
  <2> QED
    BY <2>3, <2>4, <2>6, OneHandler
<1>3. CASE Back!WarrantyMark(r)
  <2> DEFINE i == job[r].request
  <2>1. Rows /\ i \in DOMAIN requests
    BY <1>3 DEF Back!WarrantyMark, ReturnsInv, Held
  <2>2. /\ requests' = [requests EXCEPT ![i].status = "DangXuLy"]
        /\ UNCHANGED <<orders, resolutions>>
    BY <1>3 DEF Back!WarrantyMark
  <2> HIDE DEF i
  <2>3. /\ requests' \in Seq(Back!ReturnRequest) /\ RequestsKept
        /\ DOMAIN requests' = DOMAIN requests
        /\ \A n \in DOMAIN requests : requests'[n].order = requests[n].order
    BY <2>1, <2>2, Marking
  <2>4. Kept
    BY <2>2, <2>3 DEF Kept, OrdersKept, ResolutionsKept
  <2>5. Rows'
    BY <2>1, <2>2, <2>3, <2>4, RowsKept DEF Rows
  <2> QED
    BY <1>3, <2>4, <2>5, Ending DEF Back!WarrantyMark
<1>4. ASSUME NEW i \in DOMAIN requests, Back!WarrantyRead(r, i) PROVE ReturnsInv'
  <2>1. PICK k \in Back!OfRequest(i) :
          /\ resolutions[k].way = "BaoHanh" /\ UNCHANGED Back!returnVars
          /\ pc' = [pc EXCEPT ![r] = "hand out"]
          /\ job' = [job EXCEPT ![r] = [request |-> i, resolution |-> k]]
    BY <1>4 DEF Back!WarrantyRead, Back!Begin
  <2> DEFINE j == [request |-> i, resolution |-> k]
  <2>2. k \in DOMAIN resolutions
    BY DEF Back!OfRequest
  <2>3. j.request = i /\ j.resolution = k /\ requests' = requests /\ resolutions' = resolutions
    BY <2>1 DEF Back!returnVars
  <2> HIDE DEF j
  <2>4. pc'[r] = "hand out" /\ job'[r] = j => Held(r)'
    BY <2>1, <2>2, <2>3 DEF Held
  <2> QED
    BY <2>1, <2>4, Reads DEF j
<1>5. CASE Back!WarrantyCommit(r)
  <2> DEFINE k == job[r].resolution
             i == job[r].request
  <2>1. /\ Rows /\ k \in DOMAIN resolutions /\ resolutions[k].way = "BaoHanh"
        /\ i \in DOMAIN requests
    BY <1>5 DEF Back!WarrantyCommit, ReturnsInv, Held
  <2>2. /\ resolutions' = [resolutions EXCEPT ![k].status = "HoanThanh"]
        /\ requests' = [requests EXCEPT ![i].status = "HoanThanh"] /\ UNCHANGED orders
    BY <1>5 DEF Back!WarrantyCommit
  <2> HIDE DEF k, i
  <2> QED
    BY <1>5, <2>1, <2>2, HandingOut, Ending DEF Back!WarrantyCommit
<1>6. ASSUME NEW k \in DOMAIN resolutions,
             \/ Back!UpdateWarrantyStatus(r, k) \/ Back!UpdateDefectiveHandling(r, k)
             \/ \E receipt \in Receipts : Back!CompleteDefectiveReuse(r, k, receipt)
      PROVE  ReturnsInv'
  <2>1. Settled(resolutions[k]) /\ resolutions[k] \in Back!Resolution
    BY DEF ReturnsInv, Rows, Settled
  <2>2. CASE Back!UpdateWarrantyStatus(r, k)
    BY <2>1, <2>2, ResolutionEditKeeps DEF Back!UpdateWarrantyStatus, SameSubject
  <2>3. CASE Back!UpdateDefectiveHandling(r, k)
    <3>1. PICK h \in {"TraNhaCungCap", "TieuHuy", "TaiSuDung"} :
            Back!EditResolution(r, k, [resolutions[k] EXCEPT !.handling = h])
      BY <2>3 DEF Back!UpdateDefectiveHandling
    <3> DEFINE new == [resolutions[k] EXCEPT !.handling = h]
    <3>2. /\ new \in Back!Resolution /\ SameSubject(new, k) /\ new.status = resolutions[k].status
      BY <2>1 DEF Back!Resolution, SameSubject
    <3> HIDE DEF new
    <3>3. Settled(new)
      BY <2>1, <3>2 DEF Settled, SameSubject
    <3> QED
      BY <3>1, <3>2, <3>3, ResolutionEditKeeps DEF new
  <2>4. ASSUME NEW receipt \in Receipts, Back!CompleteDefectiveReuse(r, k, receipt)
        PROVE  ReturnsInv'
    <3>1. Back!EditResolution(r, k, [resolutions[k] EXCEPT !.receipt = receipt])
      BY <2>4 DEF Back!CompleteDefectiveReuse
    <3> DEFINE new == [resolutions[k] EXCEPT !.receipt = receipt]
    <3>2. /\ new \in Back!Resolution /\ SameSubject(new, k) /\ new.status = resolutions[k].status
      BY <2>1 DEF Back!Resolution, SameSubject
    <3> HIDE DEF new
    <3>3. Settled(new)
      BY <2>1, <3>2 DEF Settled, SameSubject
    <3> QED
      BY <3>1, <3>2, <3>3, ResolutionEditKeeps DEF new
  <2> QED
    BY <1>6, <2>2, <2>3, <2>4
<1>7. CASE Back!SaveResolution(r)
  <2> DEFINE k == job[r].resolution
             s == job[r].new
  <2>1. Rows /\ k \in DOMAIN resolutions /\ Settled(s) /\ SameSubject(s, k)
    BY <1>7 DEF Back!SaveResolution, ReturnsInv, Held
  <2>2. resolutions' = [resolutions EXCEPT ![k] = s] /\ UNCHANGED <<orders, requests>>
    BY <1>7 DEF Back!SaveResolution
  <2> SUFFICES ASSUME NEW u, u = s PROVE ReturnsInv'
    OBVIOUS
  <2> HIDE DEF k, s
  <2>3. Settled(u)'
    BY <2>1, <2>2 DEF Settled
  <2>4. /\ orders' \in Seq(Back!Order) /\ OrdersKept /\ DOMAIN orders' = DOMAIN orders
        /\ requests' \in Seq(Back!ReturnRequest) /\ RequestsKept /\ DOMAIN requests' =
               DOMAIN requests
    BY <2>1, <2>2 DEF Rows, OrdersKept, RequestsKept
  <2>5. Kept /\ Rows'
    BY <2>1, <2>2, <2>3, <2>4, Resaving
  <2> QED
    BY <1>7, <2>5, Ending DEF Back!SaveResolution
<1> QED
  BY <1>1, <1>2, <1>3, <1>4, <1>5, <1>6, <1>7 DEF Back!Warranty

-----------------------------------------------------------------------------
\* Every step of every handler.
LEMMA ReturnsInvNext == Accepted /\ ReturnsInv /\ [Back!Next]_shopVars => ReturnsInv'
<1> SUFFICES ASSUME Accepted, ReturnsInv, [Back!Next]_shopVars PROVE ReturnsInv'
  OBVIOUS
<1>1. ASSUME NEW r \in Requests, Back!Workflow(r) PROVE ReturnsInv'
  BY <1>1, WorkflowKeeps
<1>2. ASSUME NEW r \in Requests, Back!Settlement(r) PROVE ReturnsInv'
  BY <1>2, SettlementKeeps
<1>3. ASSUME NEW r \in Requests, Back!Warranty(r) PROVE ReturnsInv'
  BY <1>3, WarrantyKeeps
<1>4. ASSUME NEW r \in Requests, Back!GiveUp(r), UNCHANGED Back!returnVars PROVE ReturnsInv'
  BY <1>4, Reading, Ending DEF Back!GiveUp, ReturnsInv
<1>5. ASSUME NEW o \in DOMAIN orders, Back!WindowEnds(o) PROVE ReturnsInv'
  <2> DEFINE d == [orders[o] EXCEPT !.fresh = FALSE]
  <2>1. orders[o] \in Back!Order /\ orders' = [orders EXCEPT ![o] = d]
        /\ UNCHANGED <<Back!handling, requests, resolutions>>
    BY <1>5 DEF Back!WindowEnds, ReturnsInv, Rows
  <2>2. /\ d \in Back!Order /\ d.quantity = orders[o].quantity /\ d.status = orders[o].status
        /\ d.refunded = orders[o].refunded
    BY <2>1 DEF Back!Order
  <2> HIDE DEF d
  <2>3. orders' \in Seq(Back!Order) /\ DOMAIN orders' = DOMAIN orders /\ OrdersKept
    BY <2>1, <2>2 DEF ReturnsInv, Rows, OrdersKept
  <2>4. Kept
    BY <2>1, <2>3 DEF Kept, RequestsKept, ResolutionsKept
  <2>5. Rows'
    BY <2>1, <2>3, <2>4, RowsKept DEF ReturnsInv, Rows
  <2>6. pc' = pc /\ job' = job
    BY <2>1 DEF Back!handling
  <2>7. \A q \in Requests : Held(q)'
    BY <2>4, <2>6, HeldKept DEF ReturnsInv
  <2> QED
    BY <2>5, <2>6, <2>7 DEF ReturnsInv
<1>6. CASE UNCHANGED shopVars
  <2>1. UNCHANGED Back!returnVars /\ pc' = pc /\ job' = job
    BY <1>6 DEF shopVars, Back!handling
  <2>2. Kept /\ Rows'
    BY <2>1, Reading DEF ReturnsInv
  <2>3. \A q \in Requests : Held(q)'
    BY <2>1, <2>2, HeldKept DEF ReturnsInv
  <2> QED
    BY <2>1, <2>2, <2>3 DEF ReturnsInv
<1> QED
  BY <1>1, <1>2, <1>3, <1>4, <1>5, <1>6 DEF Back!Next

\* However the handlers of returns overlap, a refund goes with an order marked as
\* refunded, and an exchange with an order of its own for the goods that were sent back,
\* delivered when the exchange is finished.
THEOREM RefundsAndExchangesTieUp ==
  ASSUME Accepted
  PROVE  ReturnsSpec => []Back!SettlementsTieUp
<1>1. ReturnsInv => Back!SettlementsTieUp
  BY DEF ReturnsInv, Rows, Settled, Back!SettlementsTieUp
<1>2. ReturnsStart => ReturnsInv
  BY ReturnsInvInit
<1>3. ReturnsInv /\ [Back!Next]_shopVars => ReturnsInv'
  BY ReturnsInvNext
<1> QED
  BY <1>1, <1>2, <1>3, PTL DEF ReturnsSpec

-----------------------------------------------------------------------------
(* While handlers do not overlap: what was counted, read or looked up is still so when a     *)
(* handler writes.                                                                           *)

\* After a step there is the handler that took it, and no other.
LEMMA OnlyHandler ==
  ASSUME OneAtATime, ReturnsInv, NEW r \in Requests, NEW l, NEW j,
         pc' = [pc EXCEPT ![r] = l], job' = [job EXCEPT ![r] = j]
  PROVE  \A q \in Requests : pc'[q] = l /\ job'[q] = j
  BY DEF OneAtATime, ReturnsInv

\* The request that a handler has just looked at, or the one it is about to save, adds
\* no second request that waits.
WaitingHeld(r) ==
  /\ pc[r] = "submit" => Back!NoneWaiting(job[r].order)
  /\ pc[r] = "save" /\ job[r].new.status = "ChoDuyet" =>
       requests[job[r].request].status = "ChoDuyet"

WaitingInv == Back!OneWaiting /\ \A r \in Requests : WaitingHeld(r)

\* No other request comes to wait.
NoneComes ==
  \A i \in DOMAIN requests' :
    /\ i \in DOMAIN requests /\ requests'[i].order = requests[i].order
    /\ requests'[i].status = "ChoDuyet" => requests[i].status = "ChoDuyet"

\* A handler that goes on to other work, having at most settled a request.
LEMMA WaitingStays ==
  ASSUME OneAtATime, ReturnsInv, WaitingInv, NoneComes, NEW r \in Requests, NEW l, NEW j,
         pc' = [pc EXCEPT ![r] = l], job' = [job EXCEPT ![r] = j], l \notin {"submit", "save"}
  PROVE  WaitingInv'
<1>1. \A q \in Requests : pc'[q] = l /\ job'[q] = j
  BY OnlyHandler
<1>2. \A q \in Requests : WaitingHeld(q)'
  BY <1>1 DEF WaitingHeld
<1>3. Back!OneWaiting'
  BY DEF WaitingInv, Back!OneWaiting, NoneComes
<1> QED
  BY <1>2, <1>3 DEF WaitingInv

\* The same of a handler that ends.
LEMMA WaitingEnds ==
  ASSUME OneAtATime, ReturnsInv, WaitingInv, NoneComes, NEW r \in Requests, Back!Finish(r)
  PROVE  WaitingInv'
<1>1. /\ "idle" \notin {"submit", "save"}
      /\ pc' = [pc EXCEPT ![r] = "idle"] /\ job' = [job EXCEPT ![r] = <<>>]
  BY DEF Back!Finish
<1> QED
  BY <1>1, WaitingStays

\* A step that sets the status of a request to one of a settlement.
LEMMA MarkedNoneComes ==
  ASSUME Rows, NEW i \in DOMAIN requests, NEW st \in {"HoanThanh", "DangXuLy"},
         requests' = [requests EXCEPT ![i].status = st]
  PROVE  NoneComes
<1>1. \A k \in DOMAIN requests : k # i => requests'[k] = requests[k]
  OBVIOUS
<1>2. requests[i] \in Back!ReturnRequest
  BY DEF Rows
<1>3. requests'[i].order = requests[i].order /\ requests'[i].status = st
  BY <1>2 DEF Back!ReturnRequest
<1> QED
  BY <1>1, <1>3 DEF NoneComes

\* What a settlement or a warranty does to the requests.
LEMMA SettlingMarks ==
  ASSUME ReturnsInv, NEW r \in Requests, Back!Settlement(r) \/ Back!Warranty(r)
  PROVE  /\ UNCHANGED requests \/ \E i \in DOMAIN requests, st \in {"HoanThanh", "DangXuLy"} :
                                    requests' = [requests EXCEPT ![i].status = st]
         /\ \E l, j : /\ l \notin {"submit", "save"}
                      /\ pc' = [pc EXCEPT ![r] = l] /\ job' = [job EXCEPT ![r] = j]
<1>1. CASE Back!RefundCommit(r)
  BY <1>1 DEF Back!RefundCommit, Back!Finish, ReturnsInv, Held
<1>2. CASE Back!ExchangeCommit(r)
  BY <1>2 DEF Back!ExchangeCommit, Back!Finish, ReturnsInv, Held
<1>3. CASE Back!DeliverCommit(r)
  <2>1. resolutions[job[r].resolution].request \in DOMAIN requests
    BY <1>3 DEF Back!DeliverCommit, ReturnsInv, Held, Rows, Settled
  <2> QED
    BY <1>3, <2>1 DEF Back!DeliverCommit, Back!Finish
<1>4. CASE Back!WarrantyMark(r)
  BY <1>4 DEF Back!WarrantyMark, Back!Finish, ReturnsInv, Held
<1>5. CASE Back!WarrantyCommit(r)
  BY <1>5 DEF Back!WarrantyCommit, Back!Finish, ReturnsInv, Held
<1>6. ASSUME NEW i \in DOMAIN requests, NEW receipt \in Receipts \cup {NoReceipt},
             \/ Back!RefundRead(r, i, receipt) \/ Back!ExchangeRead(r, i, receipt)
             \/ Back!WarrantyInit(r, i, receipt)
      PROVE  /\ UNCHANGED requests
             /\ \E l, j : /\ l \notin {"submit", "save"}
                          /\ pc' = [pc EXCEPT ![r] = l] /\ job' = [job EXCEPT ![r] = j]
  BY <1>6 DEF Back!RefundRead, Back!ExchangeRead, Back!WarrantyInit, Back!Begin, Back!returnVars
<1>7. ASSUME \/ Back!RefundSnapshot(r) \/ Back!ExchangeSnapshot(r)
             \/ Back!WarrantyInsert(r) \/ Back!SaveResolution(r)
      PROVE  /\ UNCHANGED requests
             /\ \E l, j : /\ l \notin {"submit", "save"}
                          /\ pc' = [pc EXCEPT ![r] = l] /\ job' = [job EXCEPT ![r] = j]
  BY <1>7 DEF Back!RefundSnapshot, Back!ExchangeSnapshot, Back!WarrantyInsert,
              Back!SaveResolution, Back!Continue, Back!Finish, Back!returnVars
<1>8. ASSUME NEW k \in DOMAIN resolutions,
             \/ Back!DeliverRead(r, k) \/ Back!UpdateWarrantyStatus(r, k)
             \/ Back!UpdateDefectiveHandling(r, k)
             \/ \E receipt \in Receipts : Back!CompleteDefectiveReuse(r, k, receipt)
      PROVE  /\ UNCHANGED requests
             /\ \E l, j : /\ l \notin {"submit", "save"}
                          /\ pc' = [pc EXCEPT ![r] = l] /\ job' = [job EXCEPT ![r] = j]
  BY <1>8 DEF Back!DeliverRead, Back!UpdateWarrantyStatus, Back!UpdateDefectiveHandling,
              Back!CompleteDefectiveReuse, Back!EditResolution, Back!Begin, Back!returnVars
<1>9. ASSUME NEW i \in DOMAIN requests, Back!WarrantyRead(r, i)
      PROVE  /\ UNCHANGED requests
             /\ \E l, j : /\ l \notin {"submit", "save"}
                          /\ pc' = [pc EXCEPT ![r] = l] /\ job' = [job EXCEPT ![r] = j]
  BY <1>9 DEF Back!WarrantyRead, Back!Begin, Back!returnVars
<1> QED
  BY <1>1, <1>2, <1>3, <1>4, <1>5, <1>6, <1>7, <1>8, <1>9 DEF Back!Settlement, Back!Warranty

\* An edit that lets no request come to wait.
LEMMA WaitingEdit ==
  ASSUME OneAtATime, ReturnsInv, WaitingInv, NEW r \in Requests, NEW i \in DOMAIN requests,
         NEW new, Back!Edit(r, i, new), new.status = "ChoDuyet" => requests[i].status = "ChoDuyet"
  PROVE  WaitingInv'
<1> DEFINE j == [request |-> i, new |-> new]
<1>1. UNCHANGED Back!returnVars /\ pc' = [pc EXCEPT ![r] = "save"] /\ job' = [job EXCEPT ![r] = j]
  BY DEF Back!Edit, Back!Begin
<1>2. j.request = i /\ j.new = new /\ requests' = requests
  BY <1>1 DEF Back!returnVars
<1> HIDE DEF j
<1>3. \A q \in Requests : pc'[q] = "save" /\ job'[q] = j
  BY <1>1, OnlyHandler
<1>4. \A q \in Requests : WaitingHeld(q)'
  BY <1>2, <1>3 DEF WaitingHeld
<1> QED
  BY <1>2, <1>4 DEF WaitingInv, Back!OneWaiting

\* Every step.
LEMMA WaitingInvNext ==
  OneAtATime /\ Accepted /\ ReturnsInv /\ WaitingInv /\ [Back!Next]_shopVars => WaitingInv'
<1> SUFFICES ASSUME OneAtATime, Accepted, ReturnsInv, WaitingInv, [Back!Next]_shopVars
             PROVE  WaitingInv'
  OBVIOUS
<1>1. ASSUME NEW r \in Requests, NEW o \in DOMAIN orders,
             NEW type \in {"DoiHang", "TraHang", "BaoHanh"}, NEW q \in Asked,
             Back!SubmitRead(r, o, type, q)
      PROVE  WaitingInv'
  <2> DEFINE j == Back!NewRequest(o, type, q)
  <2>1. /\ Back!NoneWaiting(o) /\ UNCHANGED Back!returnVars
        /\ pc' = [pc EXCEPT ![r] = "submit"] /\ job' = [job EXCEPT ![r] = j]
    BY <1>1 DEF Back!SubmitRead, Back!Begin
  <2>2. j.order = o /\ requests' = requests
    BY <2>1 DEF Back!NewRequest, Back!returnVars
  <2> HIDE DEF j
  <2>3. \A p \in Requests : pc'[p] = "submit" /\ job'[p] = j
    BY <2>1, OnlyHandler
  <2>4. \A p \in Requests : WaitingHeld(p)'
    BY <2>1, <2>2, <2>3 DEF WaitingHeld, Back!NoneWaiting
  <2> QED
    BY <2>2, <2>4 DEF WaitingInv, Back!OneWaiting
<1>2. ASSUME NEW r \in Requests, Back!SubmitInsert(r) PROVE WaitingInv'
  <2>1. /\ Back!NoneWaiting(job[r].order) /\ requests \in Seq(Back!ReturnRequest)
        /\ requests' = Append(requests, job[r])
        /\ pc' = [pc EXCEPT ![r] = "idle"] /\ job' = [job EXCEPT ![r] = <<>>]
    BY <1>2 DEF Back!SubmitInsert, Back!Finish, WaitingInv, WaitingHeld, ReturnsInv, Rows
  <2>2. /\ \A i \in DOMAIN requests : requests'[i] = requests[i]
        /\ \A i \in DOMAIN requests' \ DOMAIN requests :
             i = Len(requests) + 1 /\ requests'[i] = job[r]
    BY <2>1
  <2>3. Back!OneWaiting'
    BY <2>1, <2>2 DEF WaitingInv, Back!OneWaiting, Back!NoneWaiting
  <2>4. \A q \in Requests : pc'[q] = "idle"
    BY <2>1, OnlyHandler
  <2> QED
    BY <2>3, <2>4 DEF WaitingInv, WaitingHeld
<1>3. ASSUME NEW r \in Requests, NEW i \in DOMAIN requests,
             \/ Back!ProcessReturn(r, i) \/ Back!ConfirmGoodsReceived(r, i)
             \/ Back!UpdateInspectionResult(r, i) \/ Back!CompleteInspection(r, i)
             \/ Back!RejectAfterInspection(r, i) \/ Back!ChangeResolution(r, i)
      PROVE  WaitingInv'
  <2>1. requests[i] \in Back!ReturnRequest
    BY DEF ReturnsInv, Rows
  <2>2. PICK new : Back!Edit(r, i, new) /\
                   (new.status = "ChoDuyet" => requests[i].status = "ChoDuyet")
    <3>1. CASE Back!ProcessReturn(r, i)
      <4>1. PICK s \in {"DaDuyet", "TuChoi", "DangXuLy", "HoanThanh"},
                 t \in {requests[i].inspected, TRUE},
                 d \in {requests[i].decision} \cup Decisions :
              Back!Edit(r, i, [requests[i] EXCEPT !.status = s, !.inspected = t, !.decision = d])
        BY <3>1 DEF Back!ProcessReturn
      <4>2. [requests[i] EXCEPT !.status = s, !.inspected = t, !.decision = d].status = s
        BY <2>1 DEF Back!ReturnRequest
      <4> QED
        BY <4>1, <4>2
    <3>2. CASE Back!ConfirmGoodsReceived(r, i)
      <4>1. [requests[i] EXCEPT !.status = "DaNhanHang"].status = "DaNhanHang"
        BY <2>1 DEF Back!ReturnRequest
      <4> QED
        BY <3>2, <4>1 DEF Back!ConfirmGoodsReceived
    <3>3. CASE Back!UpdateInspectionResult(r, i)
      <4>1. [requests[i] EXCEPT !.inspected = TRUE].status = requests[i].status
        BY <2>1 DEF Back!ReturnRequest
      <4> QED
        BY <3>3, <4>1 DEF Back!UpdateInspectionResult
    <3>4. CASE Back!CompleteInspection(r, i)
      <4>1. [requests[i] EXCEPT !.status = "DaKiemTra"].status = "DaKiemTra"
        BY <2>1 DEF Back!ReturnRequest
      <4> QED
        BY <3>4, <4>1 DEF Back!CompleteInspection
    <3>5. CASE Back!RejectAfterInspection(r, i)
      <4>1. [requests[i] EXCEPT !.status = "TuChoiNhanHang"].status = "TuChoiNhanHang"
        BY <2>1 DEF Back!ReturnRequest
      <4> QED
        BY <3>5, <4>1 DEF Back!RejectAfterInspection
    <3>6. CASE Back!ChangeResolution(r, i)
      <4>1. PICK d \in {"GiaoHangMoi", "HoanTien"} :
              Back!Edit(r, i, [requests[i] EXCEPT !.decision = d])
        BY <3>6 DEF Back!ChangeResolution
      <4>2. [requests[i] EXCEPT !.decision = d].status = requests[i].status
        BY <2>1 DEF Back!ReturnRequest
      <4> QED
        BY <4>1, <4>2
    <3> QED
      BY <1>3, <3>1, <3>2, <3>3, <3>4, <3>5, <3>6
  <2> QED
    BY <2>2, WaitingEdit
<1>4. ASSUME NEW r \in Requests, Back!SaveRequest(r) PROVE WaitingInv'
  <2> DEFINE i == job[r].request
             new == job[r].new
  <2>1. /\ i \in DOMAIN requests /\ new.order = requests[i].order
        /\ new.status = "ChoDuyet" => requests[i].status = "ChoDuyet"
        /\ requests \in Seq(Back!ReturnRequest)
    BY <1>4 DEF Back!SaveRequest, ReturnsInv, Held, WaitingInv, WaitingHeld, Rows
  <2>2. requests' = [requests EXCEPT ![i] = new] /\ Back!Finish(r)
    BY <1>4 DEF Back!SaveRequest
  <2> HIDE DEF i, new
  <2>3. NoneComes
    BY <2>1, <2>2 DEF NoneComes
  <2> QED
    BY <2>2, <2>3, WaitingEnds
<1>5. ASSUME NEW r \in Requests, Back!Settlement(r) \/ Back!Warranty(r) PROVE WaitingInv'
  <2>1. NoneComes
    <3>1. CASE UNCHANGED requests
      BY <3>1 DEF NoneComes
    <3>2. CASE requests' # requests
      BY <1>5, <3>2, SettlingMarks, MarkedNoneComes DEF ReturnsInv
    <3> QED
      BY <3>1, <3>2
  <2>2. PICK l, j : /\ l \notin {"submit", "save"}
                    /\ pc' = [pc EXCEPT ![r] = l] /\ job' = [job EXCEPT ![r] = j]
    BY <1>5, SettlingMarks
  <2> QED
    BY <2>1, <2>2, WaitingStays
<1>6. ASSUME NEW r \in Requests, Back!GiveUp(r), UNCHANGED Back!returnVars PROVE WaitingInv'
  <2>1. NoneComes
    BY <1>6 DEF NoneComes, Back!returnVars
  <2> QED
    BY <1>6, <2>1, WaitingEnds DEF Back!GiveUp
<1>7. CASE UNCHANGED <<Back!handling, requests>>
  BY <1>7 DEF Back!handling, WaitingInv, Back!OneWaiting, WaitingHeld, Back!NoneWaiting
<1>8. CASE \E o \in DOMAIN orders : Back!WindowEnds(o)
  BY <1>7, <1>8 DEF Back!WindowEnds
<1>9. CASE UNCHANGED shopVars
  BY <1>7, <1>9 DEF shopVars, Back!returnVars
<1> QED
  BY <1>1, <1>2, <1>3, <1>4, <1>5, <1>6, <1>8, <1>9 DEF Back!Next, Back!Workflow

\* While handlers do not overlap, wherever they end, one request of an order waits for
\* approval at most.
THEOREM OneRequestWaits ==
  ASSUME OneAtATime, Accepted
  PROVE  ReturnsSpec => []Back!OneWaiting
<1>1. ReturnsStart => WaitingInv
  <2> SUFFICES ASSUME ReturnsStart PROVE WaitingInv
    OBVIOUS
  <2>1. \A i, j \in DOMAIN requests : i = j
    <3>1. CASE requests = <<>>
      BY <3>1
    <3>2. CASE requests # <<>>
      <4>1. PICK x : requests = <<x>>
        BY <3>2 DEF ReturnsStart, Back!ReturnsInit
      <4> QED
        BY <4>1
    <3> QED
      BY <3>1, <3>2
  <2>2. Back!OneWaiting
    BY <2>1 DEF Back!OneWaiting
  <2> QED
    BY <2>2 DEF ReturnsStart, Quiet, WaitingInv, WaitingHeld
<1>2. WaitingInv => Back!OneWaiting
  BY DEF WaitingInv
<1> QED
  BY <1>1, <1>2, ReturnsInvInit, ReturnsInvNext, WaitingInvNext, PTL DEF ReturnsSpec

-----------------------------------------------------------------------------
(* Goods receipts *)

\* What a handler has looked up of the receipts is still so.
ReceiptHeld(r) ==
  /\ pc[r] \in {"refund 2", "exchange 2"} => job[r].linked = Back!Linked
  /\ pc[r] = "save resolution" =>
       \/ job[r].new.receipt = resolutions[job[r].resolution].receipt
       \/ job[r].new.receipt \notin Back!Linked

ReceiptInv == Back!ReceiptSettlesOne /\ \A r \in Requests : ReceiptHeld(r)

\* The labels of the handlers that hold something of the receipts.
Linking == {"refund 2", "exchange 2", "save resolution"}

\* Ways and receipts of the resolutions stay.
ReceiptsStay ==
  /\ DOMAIN resolutions' = DOMAIN resolutions
  /\ \A k \in DOMAIN resolutions : /\ resolutions'[k].way = resolutions[k].way
                                   /\ resolutions'[k].receipt = resolutions[k].receipt

\* A handler that goes on to work for which it has looked up no receipt.
LEMMA ReceiptLeft ==
  ASSUME OneAtATime, ReturnsInv, Back!ReceiptSettlesOne', NEW r \in Requests, NEW l, NEW j,
         pc' = [pc EXCEPT ![r] = l], job' = [job EXCEPT ![r] = j], l \notin Linking
  PROVE  ReceiptInv'
<1>1. \A q \in Requests : pc'[q] = l /\ job'[q] = j
  BY OnlyHandler
<1>2. \A q \in Requests : ReceiptHeld(q)'
  BY <1>1 DEF ReceiptHeld, Linking
<1> QED
  BY <1>2 DEF ReceiptInv

\* One that ends.
LEMMA ReceiptEnds ==
  ASSUME OneAtATime, ReturnsInv, Back!ReceiptSettlesOne', NEW r \in Requests, Back!Finish(r)
  PROVE  ReceiptInv'
<1>1. /\ "idle" \notin Linking
      /\ pc' = [pc EXCEPT ![r] = "idle"] /\ job' = [job EXCEPT ![r] = <<>>]
  BY DEF Back!Finish, Linking
<1> QED
  BY <1>1, ReceiptLeft

\* Receipts that stay settle what they settled.
LEMMA SettledOnce ==
  ASSUME Back!ReceiptSettlesOne, ReceiptsStay
  PROVE  Back!ReceiptSettlesOne'
  BY DEF Back!ReceiptSettlesOne, ReceiptsStay

\* A resolution of a warranty, or one with a receipt that nobody has, can be added.
LEMMA SettledByNew ==
  ASSUME Rows, Back!ReceiptSettlesOne, NEW s, resolutions' = Append(resolutions, s),
         s.way = "BaoHanh" \/ s.receipt = NoReceipt \/ s.receipt \notin Back!Linked
  PROVE  Back!ReceiptSettlesOne'
<1>1. /\ \A k \in DOMAIN resolutions : resolutions'[k] = resolutions[k]
      /\ \A k \in DOMAIN resolutions' \ DOMAIN resolutions :
           k = Len(resolutions) + 1 /\ resolutions'[k] = s
  BY DEF Rows
<1>2. \A k \in DOMAIN resolutions :
        resolutions[k].receipt # NoReceipt => resolutions[k].receipt \in Back!Linked
  BY DEF Back!Linked
<1> QED
  BY <1>1, <1>2 DEF Back!ReceiptSettlesOne

\* A commit that checks the receipt against the links it has seen.
LEMMA ReceiptUsed ==
  ASSUME ReturnsInv, ReceiptInv, NEW r \in Requests, pc[r] \in {"refund 2", "exchange 2"},
         Back!ReceiptUsable(job[r].receipt, job[r].linked)
  PROVE  job[r].receipt = NoReceipt \/ job[r].receipt \notin Back!Linked
  BY DEF ReceiptInv, ReceiptHeld, Back!ReceiptUsable

\* What a status of a resolution is set to has no bearing on receipts.
LEMMA FinishedKeepsReceipts ==
  ASSUME Rows, NEW k \in DOMAIN resolutions,
         resolutions' = [resolutions EXCEPT ![k].status = "HoanThanh"]
  PROVE  ReceiptsStay
<1>1. resolutions[k] \in Back!Resolution
  BY DEF Rows
<1>2. DOMAIN resolutions' = DOMAIN resolutions /\ \A m \in DOMAIN resolutions :
        m # k => resolutions'[m] = resolutions[m]
  BY DEF Rows
<1>3. resolutions'[k].way = resolutions[k].way /\ resolutions'[k].receipt = resolutions[k].receipt
  BY <1>1 DEF Back!Resolution
<1> QED
  BY <1>2, <1>3 DEF ReceiptsStay

\* An edit of a resolution links a receipt that nobody has, or none.
LEMMA ReceiptEdit ==
  ASSUME OneAtATime, ReturnsInv, ReceiptInv, NEW r \in Requests, NEW k \in DOMAIN resolutions,
         NEW new, Back!EditResolution(r, k, new),
         new.receipt = resolutions[k].receipt \/ new.receipt \notin Back!Linked
  PROVE  ReceiptInv'
<1> DEFINE j == [resolution |-> k, new |-> new]
<1>1. /\ UNCHANGED Back!returnVars
      /\ pc' = [pc EXCEPT ![r] = "save resolution"] /\ job' = [job EXCEPT ![r] = j]
  BY DEF Back!EditResolution, Back!Begin
<1>2. j.resolution = k /\ j.new = new /\ resolutions' = resolutions
  BY <1>1 DEF Back!returnVars
<1> HIDE DEF j
<1>3. \A q \in Requests : pc'[q] = "save resolution" /\ job'[q] = j
  BY <1>1, OnlyHandler
<1>4. Back!Linked' = Back!Linked
  BY <1>2 DEF Back!Linked
<1>5. \A q \in Requests : ReceiptHeld(q)'
  BY <1>2, <1>3, <1>4 DEF ReceiptHeld
<1> QED
  BY <1>2, <1>5 DEF ReceiptInv, Back!ReceiptSettlesOne

\* The handlers of requests leave the resolutions alone.
LEMMA WorkflowLinksNone ==
  ASSUME NEW r \in Requests, Back!Workflow(r)
  PROVE  /\ UNCHANGED <<resolutions, stock>>
         /\ \E l \in {"submit", "save", "idle"} : \E j :
              pc' = [pc EXCEPT ![r] = l] /\ job' = [job EXCEPT ![r] = j]
<1>1. ASSUME NEW o, NEW type, NEW q, Back!SubmitRead(r, o, type, q)
      PROVE  /\ UNCHANGED <<resolutions, stock>>
             /\ \E l \in {"submit", "save", "idle"} : \E j :
                  pc' = [pc EXCEPT ![r] = l] /\ job' = [job EXCEPT ![r] = j]
  BY <1>1 DEF Back!SubmitRead, Back!Begin, Back!returnVars
<1>2. ASSUME Back!SubmitInsert(r) \/ Back!SaveRequest(r)
      PROVE  /\ UNCHANGED <<resolutions, stock>>
             /\ \E l \in {"submit", "save", "idle"} : \E j :
                  pc' = [pc EXCEPT ![r] = l] /\ job' = [job EXCEPT ![r] = j]
  BY <1>2, Zenon DEF Back!SubmitInsert, Back!SaveRequest, Back!Finish
<1>3. ASSUME NEW i, NEW new, Back!Edit(r, i, new)
      PROVE  /\ UNCHANGED <<resolutions, stock>>
             /\ \E l \in {"submit", "save", "idle"} : \E j :
                  pc' = [pc EXCEPT ![r] = l] /\ job' = [job EXCEPT ![r] = j]
  BY <1>3, Zenon DEF Back!Edit, Back!Begin, Back!returnVars
<1>4. ASSUME NEW i, \/ Back!ProcessReturn(r, i) \/ Back!ConfirmGoodsReceived(r, i)
                    \/ Back!UpdateInspectionResult(r, i) \/ Back!CompleteInspection(r, i)
                    \/ Back!RejectAfterInspection(r, i) \/ Back!ChangeResolution(r, i)
      PROVE  \E new : Back!Edit(r, i, new)
  BY <1>4 DEF Back!ProcessReturn, Back!ConfirmGoodsReceived, Back!UpdateInspectionResult,
              Back!CompleteInspection, Back!RejectAfterInspection, Back!ChangeResolution
<1> QED
  BY <1>1, <1>2, <1>3, <1>4 DEF Back!Workflow

\* Every step.
LEMMA ReceiptInvNext ==
  OneAtATime /\ ReturnsInv /\ ReceiptInv /\ [Back!Next]_shopVars => ReceiptInv'
<1> SUFFICES ASSUME OneAtATime, ReturnsInv, ReceiptInv, [Back!Next]_shopVars
             PROVE  ReceiptInv'
  OBVIOUS
<1>0. UNCHANGED resolutions => Back!ReceiptSettlesOne'
  BY DEF ReceiptInv, Back!ReceiptSettlesOne
<1>1. ASSUME NEW r \in Requests, Back!Workflow(r) PROVE ReceiptInv'
  <2>1. PICK l, j : /\ l \in {"submit", "save", "idle"}
                    /\ pc' = [pc EXCEPT ![r] = l] /\ job' = [job EXCEPT ![r] = j]
    BY <1>1, WorkflowLinksNone
  <2>2. UNCHANGED resolutions /\ l \notin Linking
    BY <1>1, <2>1, WorkflowLinksNone DEF Linking
  <2> QED
    BY <1>0, <2>1, <2>2, ReceiptLeft
<1>2. ASSUME NEW r \in Requests, NEW i \in DOMAIN requests,
             NEW receipt \in Receipts \cup {NoReceipt},
             \/ Back!RefundRead(r, i, receipt) \/ Back!ExchangeRead(r, i, receipt)
             \/ Back!WarrantyInit(r, i, receipt) \/ Back!WarrantyRead(r, i)
      PROVE  ReceiptInv'
  <2>1. PICK l, j : /\ l \notin {"refund 2", "exchange 2", "save resolution"}
                    /\ pc' = [pc EXCEPT ![r] = l] /\ job' = [job EXCEPT ![r] = j]
    BY <1>2 DEF Back!RefundRead, Back!ExchangeRead, Back!WarrantyInit, Back!WarrantyRead, Back!Begin
  <2>2. UNCHANGED resolutions /\ l \notin Linking
    BY <1>2, <2>1 DEF Back!RefundRead, Back!ExchangeRead, Back!WarrantyInit, Back!WarrantyRead,
              Back!returnVars, Linking
  <2> QED
    BY <1>0, <2>1, <2>2, ReceiptLeft
<1>3. ASSUME NEW r \in Requests, Back!RefundSnapshot(r) \/ Back!ExchangeSnapshot(r)
      PROVE  ReceiptInv'
  <2> DEFINE j == [request |-> job[r].request, receipt |-> job[r].receipt, linked |-> Back!Linked]
  <2>1. PICK l \in {"refund 2", "exchange 2"} :
          /\ UNCHANGED Back!returnVars
          /\ pc' = [pc EXCEPT ![r] = l] /\ job' = [job EXCEPT ![r] = j]
    BY <1>3 DEF Back!RefundSnapshot, Back!ExchangeSnapshot, Back!Continue
  <2>2. j.linked = Back!Linked /\ resolutions' = resolutions
    BY <2>1 DEF Back!returnVars
  <2> HIDE DEF j
  <2>3. \A q \in Requests : pc'[q] = l /\ job'[q] = j
    BY <2>1, OnlyHandler
  <2>4. Back!Linked' = Back!Linked
    BY <2>2 DEF Back!Linked
  <2>5. \A q \in Requests : ReceiptHeld(q)'
    BY <2>2, <2>3, <2>4 DEF ReceiptHeld
  <2> QED
    BY <1>0, <2>2, <2>5 DEF ReceiptInv
<1>4. ASSUME NEW r \in Requests, Back!RefundCommit(r) PROVE ReceiptInv'
  <2> DEFINE s == [request |-> job[r].request, way |-> "HoanTien", status |-> "HoanThanh",
                   receipt |-> job[r].receipt, order |-> 0, handling |-> "none",
                   arrived |-> job[r].receipt # NoReceipt]
  <2>1. /\ resolutions' = Append(resolutions, s) /\ Back!Finish(r) /\ pc[r] = "refund 2"
        /\ Back!ReceiptUsable(job[r].receipt, job[r].linked)
    BY <1>4 DEF Back!RefundCommit, Back!AddResolution
  <2>2. s.receipt = NoReceipt \/ s.receipt \notin Back!Linked
    BY <2>1, ReceiptUsed
  <2> HIDE DEF s
  <2> QED
    BY <2>1, <2>2, SettledByNew, ReceiptEnds DEF ReturnsInv, ReceiptInv
<1>5. ASSUME NEW r \in Requests, Back!ExchangeCommit(r) PROVE ReceiptInv'
  <2> DEFINE s == [request |-> job[r].request, way |-> "GiaoHangMoi", status |-> "DangXuLy",
                   receipt |-> job[r].receipt, order |-> Len(orders) + 1, handling |-> "none",
                   arrived |-> job[r].receipt # NoReceipt]
  <2>1. /\ resolutions' = Append(resolutions, s) /\ Back!Finish(r) /\ pc[r] = "exchange 2"
        /\ Back!ReceiptUsable(job[r].receipt, job[r].linked)
    BY <1>5 DEF Back!ExchangeCommit, Back!AddResolution
  <2>2. s.receipt = NoReceipt \/ s.receipt \notin Back!Linked
    BY <2>1, ReceiptUsed
  <2> HIDE DEF s
  <2> QED
    BY <2>1, <2>2, SettledByNew, ReceiptEnds DEF ReturnsInv, ReceiptInv
<1>6. ASSUME NEW r \in Requests, NEW k \in DOMAIN resolutions, Back!DeliverRead(r, k)
      PROVE  ReceiptInv'
  <2>1. /\ UNCHANGED resolutions /\ "deliver" \notin Linking
        /\ pc' = [pc EXCEPT ![r] = "deliver"] /\ job' = [job EXCEPT ![r] = [resolution |-> k]]
    BY <1>6 DEF Back!DeliverRead, Back!Begin, Back!returnVars, Linking
  <2> QED
    BY <1>0, <2>1, ReceiptLeft
<1>7. ASSUME NEW r \in Requests, Back!DeliverCommit(r) \/ Back!WarrantyCommit(r) PROVE ReceiptInv'
  <2> DEFINE k == job[r].resolution
  <2>1. /\ k \in DOMAIN resolutions /\ Back!Finish(r)
        /\ resolutions' = [resolutions EXCEPT ![k].status = "HoanThanh"]
    BY <1>7 DEF Back!DeliverCommit, Back!WarrantyCommit, ReturnsInv, Held
  <2> HIDE DEF k
  <2> QED
    BY <2>1, FinishedKeepsReceipts, SettledOnce, ReceiptEnds DEF ReturnsInv, ReceiptInv
<1>8. ASSUME NEW r \in Requests, Back!WarrantyInsert(r) PROVE ReceiptInv'
  <2> DEFINE s == [request |-> job[r].request, way |-> "BaoHanh", status |-> "DangXuLy",
                   receipt |-> job[r].receipt, order |-> 0, handling |-> "none",
                   arrived |-> job[r].receipt # NoReceipt]
  <2>1. /\ resolutions' = Append(resolutions, s) /\ "warranty 2" \notin Linking
        /\ pc' = [pc EXCEPT ![r] = "warranty 2"] /\ job' = [job EXCEPT ![r] = job[r]]
    BY <1>8 DEF Back!WarrantyInsert, Back!AddResolution, Back!Continue, Linking
  <2>2. s.way = "BaoHanh"
    OBVIOUS
  <2> HIDE DEF s
  <2> QED
    BY <2>1, <2>2, SettledByNew, ReceiptLeft DEF ReturnsInv, ReceiptInv
<1>9. ASSUME NEW r \in Requests, Back!WarrantyMark(r) PROVE ReceiptInv'
  BY <1>0, <1>9, ReceiptEnds DEF Back!WarrantyMark
<1>10. ASSUME NEW r \in Requests, NEW k \in DOMAIN resolutions,
              \/ Back!UpdateWarrantyStatus(r, k) \/ Back!UpdateDefectiveHandling(r, k)
              \/ \E receipt \in Receipts : Back!CompleteDefectiveReuse(r, k, receipt)
       PROVE  ReceiptInv'
  <2>1. resolutions[k] \in Back!Resolution
    BY DEF ReturnsInv, Rows
  <2>2. PICK new : /\ Back!EditResolution(r, k, new)
                   /\ new.receipt = resolutions[k].receipt \/ new.receipt \notin Back!Linked
    <3>1. CASE Back!UpdateWarrantyStatus(r, k)
      BY <3>1 DEF Back!UpdateWarrantyStatus
    <3>2. CASE Back!UpdateDefectiveHandling(r, k)
      <4>1. PICK h \in {"TraNhaCungCap", "TieuHuy", "TaiSuDung"} :
              Back!EditResolution(r, k, [resolutions[k] EXCEPT !.handling = h])
        BY <3>2 DEF Back!UpdateDefectiveHandling
      <4>2. [resolutions[k] EXCEPT !.handling = h].receipt = resolutions[k].receipt
        BY <2>1 DEF Back!Resolution
      <4> QED
        BY <4>1, <4>2
    <3>3. ASSUME NEW receipt \in Receipts, Back!CompleteDefectiveReuse(r, k, receipt)
          PROVE  \E new : /\ Back!EditResolution(r, k, new)
                          /\ new.receipt = resolutions[k].receipt \/ new.receipt \notin Back!Linked
      <4>1. Back!EditResolution(r, k, [resolutions[k] EXCEPT !.receipt = receipt])
        BY <3>3 DEF Back!CompleteDefectiveReuse
      <4>2. [resolutions[k] EXCEPT !.receipt = receipt].receipt = receipt
        BY <2>1 DEF Back!Resolution
      <4>3. receipt \notin Back!Linked
        BY <3>3 DEF Back!CompleteDefectiveReuse, Back!ReceiptUsable
      <4> QED
        BY <4>1, <4>2, <4>3
    <3> QED
      BY <1>10, <3>1, <3>2, <3>3
  <2> QED
    BY <2>2, ReceiptEdit
<1>11. ASSUME NEW r \in Requests, Back!SaveResolution(r) PROVE ReceiptInv'
  <2> DEFINE k == job[r].resolution
             s == job[r].new
  <2>1. /\ k \in DOMAIN resolutions /\ s.way = resolutions[k].way
        /\ s.receipt = resolutions[k].receipt \/ s.receipt \notin Back!Linked
    BY <1>11 DEF Back!SaveResolution, ReturnsInv, Held, SameSubject, ReceiptInv, ReceiptHeld
  <2>2. resolutions' = [resolutions EXCEPT ![k] = s] /\ Back!Finish(r)
    BY <1>11 DEF Back!SaveResolution
  <2> HIDE DEF k, s
  <2>3. \A m \in DOMAIN resolutions :
          resolutions[m].receipt # NoReceipt => resolutions[m].receipt \in Back!Linked
    BY DEF Back!Linked
  <2>4. Back!ReceiptSettlesOne'
    BY <2>1, <2>2, <2>3 DEF ReceiptInv, Back!ReceiptSettlesOne
  <2> QED
    BY <2>2, <2>4, ReceiptEnds
<1>12. ASSUME NEW r \in Requests, Back!GiveUp(r), UNCHANGED Back!returnVars PROVE ReceiptInv'
  BY <1>0, <1>12, ReceiptEnds DEF Back!GiveUp, Back!returnVars
<1>13. CASE UNCHANGED <<Back!handling, resolutions>>
  BY <1>13 DEF Back!handling, ReceiptInv, Back!ReceiptSettlesOne, ReceiptHeld, Back!Linked
<1>14. CASE \E o \in DOMAIN orders : Back!WindowEnds(o)
  BY <1>13, <1>14 DEF Back!WindowEnds
<1>15. CASE UNCHANGED shopVars
  BY <1>13, <1>15 DEF shopVars, Back!returnVars
<1> QED
  BY <1>1, <1>2, <1>3, <1>4, <1>5, <1>6, <1>7, <1>8, <1>9, <1>10, <1>11, <1>12, <1>14, <1>15
     DEF Back!Next, Back!Settlement, Back!Warranty

\* While handlers do not overlap, wherever they end, an approved goods receipt settles one
\* refund or exchange at most, by whatever way it was linked.
THEOREM ReceiptsSettleOnce ==
  ASSUME OneAtATime, Accepted
  PROVE  ReturnsSpec => []Back!ReceiptSettlesOne
<1>1. ReturnsStart => ReceiptInv
  BY DEF ReturnsStart, Back!ReturnsInit, Quiet, ReceiptInv, Back!ReceiptSettlesOne, ReceiptHeld
<1>2. ReceiptInv => Back!ReceiptSettlesOne
  BY DEF ReceiptInv
<1> QED
  BY <1>1, <1>2, ReturnsInvInit, ReturnsInvNext, ReceiptInvNext, PTL DEF ReturnsSpec

-----------------------------------------------------------------------------
(* The stock *)

\* The quantity that each resolution is about.
Ordered == [k \in DOMAIN resolutions |-> requests[resolutions[k].request].quantity]

\* Refunds that put the goods back, and exchanges whose old goods a receipt brought in.
BackIn == {k \in DOMAIN resolutions : resolutions[k].way = "HoanTien" /\ ~resolutions[k].arrived}
SentOut == {k \in DOMAIN resolutions : resolutions[k].way = "GiaoHangMoi" /\ resolutions[k].arrived}

\* The model's sums are those of the lemmas.
LEMMA UnitsAreSums == \A S : Back!Quantities(S) = SumFunctionOnSet(Ordered, S)
  BY DEF Back!Quantities, Ordered, Back!SumFunctionOnSet, SumFunctionOnSet,
         Back!FoldFunctionOnSet, FoldFunctionOnSet, Back!MapThenFoldSet, MapThenFoldSet

\* The three sums of the property.
LEMMA WhatExplains ==
  Back!StockIsExplained <=>
    stock = InitialStock + SumFunctionOnSet(Ordered, BackIn)
              - SumFunctionOnSet(Ordered, SentOut) - SumFunctionOnSet(Ordered, Back!HandedOut)
<1>1. /\ Back!Refunds \ Back!Arrived = BackIn
      /\ Back!Exchanges \cap Back!Arrived = SentOut
  BY DEF Back!Refunds, Back!Exchanges, Back!Arrived, BackIn, SentOut
<1> QED
  BY <1>1, UnitsAreSums DEF Back!StockIsExplained

\* Sums over resolutions are sums of numbers over finite sets.
LEMMA UnitsType ==
  ASSUME Rows, NEW S \in SUBSET DOMAIN resolutions
  PROVE  /\ IsFiniteSet(S) /\ \A k \in S : Ordered[k] \in Int
         /\ SumFunctionOnSet(Ordered, S) \in Int
<1>1. IsFiniteSet(S)
  <2>1. DOMAIN resolutions = 1..Len(resolutions) /\ Len(resolutions) \in Nat
    BY DEF Rows
  <2>2. IsFiniteSet(DOMAIN resolutions)
    BY <2>1, FS_Interval
  <2> QED
    BY <2>2, FS_Subset
<1>2. \A k \in S : Ordered[k] \in Int
  <2> SUFFICES ASSUME NEW k \in S PROVE Ordered[k] \in Int
    OBVIOUS
  <2>1. resolutions[k].request \in DOMAIN requests
    BY DEF Rows, Settled
  <2>2. requests[resolutions[k].request] \in Back!ReturnRequest
    BY <2>1 DEF Rows
  <2> QED
    BY <2>2 DEF Ordered, Back!ReturnRequest
<1> QED
  BY <1>1, <1>2, SumType

\* The quantities of the resolutions that there are do not change.
LEMMA UnitsStay ==
  ASSUME Rows, RequestsKept, ResolutionsKept
  PROVE  \A k \in DOMAIN resolutions : k \in DOMAIN resolutions' /\ Ordered'[k] = Ordered[k]
<1> SUFFICES ASSUME NEW k \in DOMAIN resolutions
             PROVE  k \in DOMAIN resolutions' /\ Ordered'[k] = Ordered[k]
  OBVIOUS
<1>1. k \in DOMAIN resolutions' /\ resolutions'[k].request = resolutions[k].request
  BY DEF ResolutionsKept
<1>2. resolutions[k].request \in DOMAIN requests
  BY DEF Rows, Settled
<1>3. requests'[resolutions[k].request].quantity = requests[resolutions[k].request].quantity
  BY <1>2 DEF RequestsKept
<1> QED
  BY <1>1, <1>3 DEF Ordered

\* So their sums stay, and a resolution that joins adds its quantity.
LEMMA SumsStay ==
  ASSUME Rows, Rows', RequestsKept, ResolutionsKept, NEW S \in SUBSET DOMAIN resolutions
  PROVE  /\ SumFunctionOnSet(Ordered', S) = SumFunctionOnSet(Ordered, S)
         /\ \A k \in DOMAIN resolutions' \ S :
              SumFunctionOnSet(Ordered', S \cup {k}) = SumFunctionOnSet(Ordered, S) + Ordered'[k]
<1> DEFINE before == Ordered
           after == Ordered'
<1>1. IsFiniteSet(S) /\ \A k \in S : before[k] \in Int /\ after[k] = before[k]
  BY UnitsType, UnitsStay
<1>2. \A k \in DOMAIN resolutions' : after[k] \in Int
  <2> SUFFICES ASSUME NEW k \in DOMAIN resolutions' PROVE after[k] \in Int
    OBVIOUS
  <2>1. resolutions'[k].request \in DOMAIN requests'
    BY DEF Rows, Settled
  <2>2. requests'[resolutions'[k].request] \in Back!ReturnRequest
    BY <2>1 DEF Rows
  <2> QED
    BY <2>2 DEF Ordered, Back!ReturnRequest
<1> HIDE DEF before, after
<1>3. SumFunctionOnSet(after, S) = SumFunctionOnSet(before, S)
  BY <1>1, SumSame
<1>4. ASSUME NEW k \in DOMAIN resolutions' \ S
      PROVE  SumFunctionOnSet(after, S \cup {k}) = SumFunctionOnSet(before, S) + after[k]
  <2>1. \A y \in S \cup {k} : after[y] \in Int
    BY <1>1, <1>2
  <2> QED
    BY <1>1, <1>3, <2>1, SumAdd
<1> QED
  BY <1>3, <1>4 DEF before, after

\* The stock is a number.
LEMMA StockNumber ==
  ASSUME InitialStock \in Int, Rows, Back!StockIsExplained
  PROVE  stock \in Int
<1>1. /\ BackIn \in SUBSET DOMAIN resolutions /\ SentOut \in SUBSET DOMAIN resolutions
      /\ Back!HandedOut \in SUBSET DOMAIN resolutions
  BY DEF BackIn, SentOut, Back!HandedOut
<1>2. /\ SumFunctionOnSet(Ordered, BackIn) \in Int /\ SumFunctionOnSet(Ordered, SentOut) \in Int
      /\ SumFunctionOnSet(Ordered, Back!HandedOut) \in Int
  BY <1>1, UnitsType
<1> QED
  BY <1>2, WhatExplains

\* A step that moves what one resolution says, or nothing.
LEMMA StockMoves ==
  ASSUME InitialStock \in Int, Rows, Rows', RequestsKept, ResolutionsKept, Back!StockIsExplained,
         NEW k, NEW n,
         \/ /\ stock' = stock /\ BackIn' = BackIn
            /\ SentOut' = SentOut /\ Back!HandedOut' = Back!HandedOut
         \/ /\ k \in DOMAIN resolutions' /\ n = requests'[resolutions'[k].request].quantity
            /\ \/ /\ stock' = stock + n /\ SentOut' = SentOut /\ Back!HandedOut' = Back!HandedOut
                  /\ BackIn' = BackIn \cup {k} /\ k \notin BackIn
               \/ /\ stock' = stock - n /\ BackIn' = BackIn /\ Back!HandedOut' = Back!HandedOut
                  /\ SentOut' = SentOut \cup {k} /\ k \notin SentOut
               \/ /\ stock' = stock - n /\ BackIn' = BackIn /\ SentOut' = SentOut
                  /\ Back!HandedOut' = Back!HandedOut \cup {k} /\ k \notin Back!HandedOut
  PROVE  Back!StockIsExplained'
<1>1. /\ BackIn \in SUBSET DOMAIN resolutions /\ SentOut \in SUBSET DOMAIN resolutions
      /\ Back!HandedOut \in SUBSET DOMAIN resolutions
  BY DEF BackIn, SentOut, Back!HandedOut
<1> DEFINE in == SumFunctionOnSet(Ordered, BackIn)
           out == SumFunctionOnSet(Ordered, SentOut)
           given == SumFunctionOnSet(Ordered, Back!HandedOut)
           in2 == SumFunctionOnSet(Ordered', BackIn')
           out2 == SumFunctionOnSet(Ordered', SentOut')
           given2 == SumFunctionOnSet(Ordered', Back!HandedOut')
<1>2. in \in Int /\ out \in Int /\ given \in Int
  BY <1>1, UnitsType
<1>3. stock = InitialStock + in - out - given
  BY WhatExplains
<1>4. /\ BackIn' = BackIn => in2 = in
      /\ SentOut' = SentOut => out2 = out
      /\ Back!HandedOut' = Back!HandedOut => given2 = given
  BY <1>1, SumsStay
<1>5. k \in DOMAIN resolutions' =>
        Ordered'[k] = requests'[resolutions'[k].request].quantity
  BY DEF Ordered
<1>6. ASSUME k \in DOMAIN resolutions', n = requests'[resolutions'[k].request].quantity
      PROVE  /\ n \in Int
             /\ BackIn' = BackIn \cup {k} /\ k \notin BackIn => in2 = in + n
             /\ SentOut' = SentOut \cup {k} /\ k \notin SentOut => out2 = out + n
             /\ Back!HandedOut' = Back!HandedOut \cup {k} /\ k \notin Back!HandedOut =>
                  given2 = given + n
  <2>1. n \in Int
    <3>1. resolutions'[k].request \in DOMAIN requests'
      BY <1>6 DEF Rows, Settled
    <3>2. requests'[resolutions'[k].request] \in Back!ReturnRequest
      BY <3>1 DEF Rows
    <3> QED
      BY <1>6, <3>2 DEF Back!ReturnRequest
  <2>2. BackIn' = BackIn \cup {k} /\ k \notin BackIn => in2 = in + n
    BY <1>1, <1>5, <1>6, SumsStay
  <2>3. SentOut' = SentOut \cup {k} /\ k \notin SentOut => out2 = out + n
    BY <1>1, <1>5, <1>6, SumsStay
  <2>4. Back!HandedOut' = Back!HandedOut \cup {k} /\ k \notin Back!HandedOut => given2 = given + n
    BY <1>1, <1>5, <1>6, SumsStay
  <2> QED
    BY <2>1, <2>2, <2>3, <2>4
<1>7. Back!StockIsExplained' <=> stock' = InitialStock + in2 - out2 - given2
  <2>1. (Back!StockIsExplained <=>
           stock = InitialStock + SumFunctionOnSet(Ordered, BackIn)
                     - SumFunctionOnSet(Ordered, SentOut)
                     - SumFunctionOnSet(Ordered, Back!HandedOut))'
    BY WhatExplains, PTL
  <2> QED
    BY <2>1
<1> HIDE DEF in, out, given, in2, out2, given2
<1>8. stock' = InitialStock + in2 - out2 - given2
  BY <1>2, <1>3, <1>4, <1>6
<1> QED
  BY <1>7, <1>8

-----------------------------------------------------------------------------
\* What a handler knows of the resolution it is about to change is still so.
StockHeld(r) ==
  /\ pc[r] = "hand out" =>
       /\ resolutions[job[r].resolution].request = job[r].request
       /\ Back!Unfinished(job[r].resolution)
  /\ pc[r] = "save resolution" =>
       /\ job[r].new.status = resolutions[job[r].resolution].status
       /\ job[r].new.arrived = resolutions[job[r].resolution].arrived

StockInv == Back!StockIsExplained /\ \A r \in Requests : StockHeld(r)

\* A handler that goes on to other work.
LEMMA StockLeft ==
  ASSUME OneAtATime, ReturnsInv, Back!StockIsExplained', NEW r \in Requests, NEW l, NEW j,
         pc' = [pc EXCEPT ![r] = l], job' = [job EXCEPT ![r] = j],
         l \notin {"hand out", "save resolution"}
  PROVE  StockInv'
<1>1. \A q \in Requests : pc'[q] = l /\ job'[q] = j
  BY OnlyHandler
<1>2. \A q \in Requests : StockHeld(q)'
  BY <1>1 DEF StockHeld
<1> QED
  BY <1>2 DEF StockInv

\* One that ends.
LEMMA StockEnds ==
  ASSUME OneAtATime, ReturnsInv, Back!StockIsExplained', NEW r \in Requests, Back!Finish(r)
  PROVE  StockInv'
<1>1. /\ "idle" \notin {"hand out", "save resolution"}
      /\ pc' = [pc EXCEPT ![r] = "idle"] /\ job' = [job EXCEPT ![r] = <<>>]
  BY DEF Back!Finish
<1> QED
  BY <1>1, StockLeft

\* A step that writes no resolution and no stock.
LEMMA StockUntouched ==
  ASSUME InitialStock \in Int, Rows, Rows', RequestsKept, Back!StockIsExplained,
         UNCHANGED <<resolutions, stock>>
  PROVE  Back!StockIsExplained'
<1>1. ResolutionsKept
  BY DEF ResolutionsKept
<1>2. BackIn' = BackIn /\ SentOut' = SentOut /\ Back!HandedOut' = Back!HandedOut
  BY DEF BackIn, SentOut, Back!HandedOut, Back!Unfinished
<1> QED
  BY <1>1, <1>2, StockMoves

\* What an insertion does to the three sets.
LEMMA SetsOfNew ==
  ASSUME Rows, NEW s, resolutions' = Append(resolutions, s), NEW k, k = Len(resolutions) + 1
  PROVE  /\ ResolutionsKept /\ k \in DOMAIN resolutions' /\ resolutions'[k] = s
         /\ k \notin BackIn /\ k \notin SentOut /\ k \notin Back!HandedOut
         /\ BackIn' = IF s.way = "HoanTien" /\ ~s.arrived THEN BackIn \cup {k} ELSE BackIn
         /\ SentOut' = IF s.way = "GiaoHangMoi" /\ s.arrived THEN SentOut \cup {k} ELSE SentOut
         /\ Back!HandedOut' = IF s.way = "BaoHanh" /\ s.status = "HoanThanh"
                           THEN Back!HandedOut \cup {k} ELSE Back!HandedOut
<1>1. /\ \A m \in DOMAIN resolutions : resolutions'[m] = resolutions[m]
      /\ DOMAIN resolutions' = DOMAIN resolutions \cup {k} /\ k \notin DOMAIN resolutions
      /\ resolutions'[k] = s
  BY DEF Rows
<1>2. BackIn' = IF s.way = "HoanTien" /\ ~s.arrived THEN BackIn \cup {k} ELSE BackIn
  BY <1>1 DEF BackIn
<1>3. SentOut' = IF s.way = "GiaoHangMoi" /\ s.arrived THEN SentOut \cup {k} ELSE SentOut
  BY <1>1 DEF SentOut
<1>4. Back!HandedOut' = IF s.way = "BaoHanh" /\ s.status = "HoanThanh"
                     THEN Back!HandedOut \cup {k} ELSE Back!HandedOut
  BY <1>1 DEF Back!HandedOut, Back!Unfinished
<1>5. k \notin BackIn /\ k \notin SentOut /\ k \notin Back!HandedOut
  BY <1>1 DEF BackIn, SentOut, Back!HandedOut
<1>6. ResolutionsKept
  BY <1>1 DEF ResolutionsKept
<1> QED
  BY <1>1, <1>2, <1>3, <1>4, <1>5, <1>6

\* What saving a resolution does to them.
LEMMA SetsOfSaved ==
  ASSUME Rows, NEW k \in DOMAIN resolutions, NEW s, SameSubject(s, k),
         s.arrived = resolutions[k].arrived, resolutions' = [resolutions EXCEPT ![k] = s]
  PROVE  /\ ResolutionsKept /\ k \in DOMAIN resolutions' /\ resolutions'[k] = s
         /\ BackIn' = BackIn /\ SentOut' = SentOut
         /\ s.way # "BaoHanh" \/ s.status = resolutions[k].status =>
              Back!HandedOut' = Back!HandedOut
         /\ s.way = "BaoHanh" /\ s.status = "HoanThanh" => Back!HandedOut' = Back!HandedOut \cup {k}
<1>1. /\ DOMAIN resolutions' = DOMAIN resolutions /\ resolutions'[k] = s
      /\ \A m \in DOMAIN resolutions : m # k => resolutions'[m] = resolutions[m]
  BY DEF Rows
<1>2. /\ s.request = resolutions[k].request /\ s.way = resolutions[k].way
      /\ s.order = resolutions[k].order
  BY DEF SameSubject
<1>3. BackIn' = BackIn /\ SentOut' = SentOut
  BY <1>1, <1>2 DEF BackIn, SentOut
<1>4. /\ s.way # "BaoHanh" \/ s.status = resolutions[k].status => Back!HandedOut' = Back!HandedOut
      /\ s.way = "BaoHanh" /\ s.status = "HoanThanh" => Back!HandedOut' = Back!HandedOut \cup {k}
  BY <1>1, <1>2 DEF Back!HandedOut, Back!Unfinished
<1>5. ResolutionsKept
  BY <1>1, <1>2 DEF ResolutionsKept
<1> QED
  BY <1>1, <1>3, <1>4, <1>5

\* No step changes what a request is about.
LEMMA RequestsStay ==
  ASSUME ReturnsInv, NEW r \in Requests, Back!Workflow(r) \/ Back!Settlement(r) \/ Back!Warranty(r)
  PROVE  RequestsKept
<1>1. ASSUME Back!SubmitInsert(r) PROVE RequestsKept
  BY <1>1 DEF Back!SubmitInsert, RequestsKept, ReturnsInv, Rows
<1>2. ASSUME Back!SaveRequest(r) PROVE RequestsKept
  <2> DEFINE i == job[r].request
             new == job[r].new
  <2>1. /\ i \in DOMAIN requests /\ new \in Back!ReturnRequest /\ new.order = requests[i].order
        /\ new.quantity = requests[i].quantity /\ requests' = [requests EXCEPT ![i] = new]
    BY <1>2 DEF Back!SaveRequest, ReturnsInv, Held
  <2> HIDE DEF i, new
  <2> QED
    BY <2>1, Saving DEF ReturnsInv
<1>3. UNCHANGED requests => RequestsKept
  BY DEF RequestsKept
<1>4. ASSUME NEW o, NEW type, NEW q, Back!SubmitRead(r, o, type, q) PROVE UNCHANGED requests
  BY <1>4 DEF Back!SubmitRead, Back!returnVars
<1>5. ASSUME NEW i, \/ Back!ProcessReturn(r, i) \/ Back!ConfirmGoodsReceived(r, i)
                    \/ Back!UpdateInspectionResult(r, i) \/ Back!CompleteInspection(r, i)
                    \/ Back!RejectAfterInspection(r, i) \/ Back!ChangeResolution(r, i)
      PROVE  UNCHANGED requests
  BY <1>5 DEF Back!ProcessReturn, Back!ConfirmGoodsReceived, Back!UpdateInspectionResult,
              Back!CompleteInspection, Back!RejectAfterInspection, Back!ChangeResolution,
              Back!Edit, Back!returnVars
<1>6. ASSUME Back!Settlement(r) \/ Back!Warranty(r) PROVE RequestsKept
  BY <1>3, <1>6, SettlingMarks, Marking DEF ReturnsInv
<1> QED
  BY <1>1, <1>2, <1>3, <1>4, <1>5, <1>6 DEF Back!Workflow

\* A resolution whose status becomes HoanThanh is otherwise the same.
LEMMA Completed ==
  ASSUME Rows, NEW k \in DOMAIN resolutions,
         resolutions' = [resolutions EXCEPT ![k].status = "HoanThanh"]
  PROVE  \E s : /\ SameSubject(s, k) /\ s.arrived = resolutions[k].arrived
                /\ s.status = "HoanThanh" /\ resolutions' = [resolutions EXCEPT ![k] = s]
<1> DEFINE s == [resolutions[k] EXCEPT !.status = "HoanThanh"]
<1>1. resolutions[k] \in Back!Resolution
  BY DEF Rows
<1>2. /\ s.request = resolutions[k].request /\ s.way = resolutions[k].way
      /\ s.order = resolutions[k].order /\ s.status = "HoanThanh"
  BY <1>1 DEF Back!Resolution
<1>3. s.arrived = resolutions[k].arrived
  BY <1>1 DEF Back!Resolution
<1>4. resolutions' = [resolutions EXCEPT ![k] = s]
  OBVIOUS
<1> HIDE DEF s
<1> QED
  BY <1>2, <1>3, <1>4 DEF SameSubject

\* An edit of a resolution keeps its status and whether goods came with it.
LEMMA StockEdit ==
  ASSUME OneAtATime, ReturnsInv, StockInv, Back!StockIsExplained', NEW r \in Requests,
         NEW k \in DOMAIN resolutions, NEW new, Back!EditResolution(r, k, new),
         new.status = resolutions[k].status, new.arrived = resolutions[k].arrived
  PROVE  StockInv'
<1> DEFINE j == [resolution |-> k, new |-> new]
<1>1. /\ UNCHANGED Back!returnVars
      /\ pc' = [pc EXCEPT ![r] = "save resolution"] /\ job' = [job EXCEPT ![r] = j]
  BY DEF Back!EditResolution, Back!Begin
<1>2. j.resolution = k /\ j.new = new /\ resolutions' = resolutions
  BY <1>1 DEF Back!returnVars
<1> HIDE DEF j
<1>3. \A q \in Requests : pc'[q] = "save resolution" /\ job'[q] = j
  BY <1>1 DEF OneAtATime, ReturnsInv
<1>4. \A q \in Requests : StockHeld(q)'
  BY <1>2, <1>3 DEF StockHeld
<1> QED
  BY <1>4 DEF StockInv

\* The handlers of refunds and exchanges.
LEMMA StockSettlement ==
  ASSUME InitialStock \in Int, OneAtATime, ReturnsInv, ReturnsInv', StockInv,
         NEW r \in Requests, Back!Settlement(r)
  PROVE  StockInv'
<1>1. Rows /\ Rows' /\ RequestsKept /\ Back!StockIsExplained
  BY RequestsStay DEF ReturnsInv, StockInv
<1>0. UNCHANGED <<resolutions, stock>> => Back!StockIsExplained'
  BY <1>1, StockUntouched
<1>2. ASSUME NEW i \in DOMAIN requests, NEW receipt \in Receipts \cup {NoReceipt},
             Back!RefundRead(r, i, receipt) \/ Back!ExchangeRead(r, i, receipt)
      PROVE  StockInv'
  <2>1. PICK l, j : /\ l \notin {"hand out", "save resolution"}
                    /\ pc' = [pc EXCEPT ![r] = l] /\ job' = [job EXCEPT ![r] = j]
    BY <1>2 DEF Back!RefundRead, Back!ExchangeRead, Back!Begin
  <2>2. UNCHANGED <<resolutions, stock>>
    BY <1>2 DEF Back!RefundRead, Back!ExchangeRead, Back!returnVars
  <2> QED
    BY <1>0, <2>1, <2>2, StockLeft
<1>3. ASSUME Back!RefundSnapshot(r) \/ Back!ExchangeSnapshot(r) PROVE StockInv'
  <2>1. PICK l, j : /\ l \notin {"hand out", "save resolution"}
                    /\ pc' = [pc EXCEPT ![r] = l] /\ job' = [job EXCEPT ![r] = j]
    BY <1>3 DEF Back!RefundSnapshot, Back!ExchangeSnapshot, Back!Continue
  <2>2. UNCHANGED <<resolutions, stock>>
    BY <1>3 DEF Back!RefundSnapshot, Back!ExchangeSnapshot, Back!returnVars
  <2> QED
    BY <1>0, <2>1, <2>2, StockLeft
<1>4. ASSUME NEW k \in DOMAIN resolutions, Back!DeliverRead(r, k) PROVE StockInv'
  <2>1. /\ "deliver" \notin {"hand out", "save resolution"} /\ UNCHANGED <<resolutions, stock>>
        /\ pc' = [pc EXCEPT ![r] = "deliver"] /\ job' = [job EXCEPT ![r] = [resolution |-> k]]
    BY <1>4 DEF Back!DeliverRead, Back!Begin, Back!returnVars
  <2> QED
    BY <1>0, <2>1, StockLeft
<1>5. ASSUME Back!RefundCommit(r) PROVE StockInv'
  <2> DEFINE i == job[r].request
             c == job[r].receipt
             k == Len(resolutions) + 1
             s == [request |-> i, way |-> "HoanTien", status |-> "HoanThanh", receipt |-> c,
                   order |-> 0, handling |-> "none", arrived |-> c # NoReceipt]
             n == requests[i].quantity
  <2>1. /\ i \in DOMAIN requests /\ resolutions' = Append(resolutions, s) /\ Back!Finish(r)
        /\ stock' = stock + Back!PutBack(c, n)
    BY <1>5 DEF Back!RefundCommit, Back!AddResolution, ReturnsInv, Held
  <2>2. s.request = i /\ s.way = "HoanTien"
    OBVIOUS
  <2>3. s.arrived <=> c # NoReceipt
    OBVIOUS
  <2>4. requests'[i].quantity = n /\ stock \in Int
    BY <1>1, <2>1, StockNumber DEF RequestsKept
  <2>5. /\ c = NoReceipt => stock' = stock + n
        /\ c # NoReceipt => stock' = stock
    BY <2>1, <2>4 DEF Back!PutBack
  <2> HIDE DEF i, c, k, s, n
  <2>6. /\ ResolutionsKept /\ k \in DOMAIN resolutions' /\ resolutions'[k] = s /\ k \notin BackIn
        /\ BackIn' = IF s.way = "HoanTien" /\ ~s.arrived THEN BackIn \cup {k} ELSE BackIn
        /\ SentOut' = IF s.way = "GiaoHangMoi" /\ s.arrived THEN SentOut \cup {k} ELSE SentOut
        /\ Back!HandedOut' = IF s.way = "BaoHanh" /\ s.status = "HoanThanh"
                          THEN Back!HandedOut \cup {k} ELSE Back!HandedOut
    BY <1>1, <2>1, SetsOfNew DEF k
  <2>7. Back!StockIsExplained'
    <3>1. CASE c = NoReceipt
      BY <1>1, <2>2, <2>3, <2>4, <2>5, <2>6, <3>1, StockMoves
    <3>2. CASE c # NoReceipt
      BY <1>1, <2>2, <2>3, <2>5, <2>6, <3>2, StockMoves
    <3> QED
      BY <3>1, <3>2
  <2> QED
    BY <2>1, <2>7, StockEnds
<1>6. ASSUME Back!ExchangeCommit(r) PROVE StockInv'
  <2> DEFINE i == job[r].request
             c == job[r].receipt
             k == Len(resolutions) + 1
             s == [request |-> i, way |-> "GiaoHangMoi", status |-> "DangXuLy", receipt |-> c,
                   order |-> Len(orders) + 1, handling |-> "none", arrived |-> c # NoReceipt]
             n == requests[i].quantity
  <2>1. /\ i \in DOMAIN requests /\ resolutions' = Append(resolutions, s) /\ Back!Finish(r)
        /\ stock' = stock - n + Back!PutBack(c, n)
    BY <1>6 DEF Back!ExchangeCommit, Back!AddResolution, ReturnsInv, Held
  <2>2. s.request = i /\ s.way = "GiaoHangMoi"
    OBVIOUS
  <2>3. s.arrived <=> c # NoReceipt
    OBVIOUS
  <2>4. requests'[i].quantity = n /\ stock \in Int /\ n \in Int
    <3>1. requests[i] \in Back!ReturnRequest
      BY <1>1, <2>1 DEF Rows
    <3> QED
      BY <1>1, <2>1, <3>1, StockNumber DEF RequestsKept, Back!ReturnRequest
  <2>5. /\ c = NoReceipt => stock' = stock
        /\ c # NoReceipt => stock' = stock - n
    BY <2>1, <2>4 DEF Back!PutBack
  <2> HIDE DEF i, c, k, s, n
  <2>6. /\ ResolutionsKept /\ k \in DOMAIN resolutions' /\ resolutions'[k] = s /\ k \notin SentOut
        /\ BackIn' = IF s.way = "HoanTien" /\ ~s.arrived THEN BackIn \cup {k} ELSE BackIn
        /\ SentOut' = IF s.way = "GiaoHangMoi" /\ s.arrived THEN SentOut \cup {k} ELSE SentOut
        /\ Back!HandedOut' = IF s.way = "BaoHanh" /\ s.status = "HoanThanh"
                          THEN Back!HandedOut \cup {k} ELSE Back!HandedOut
    BY <1>1, <2>1, SetsOfNew DEF k
  <2>7. Back!StockIsExplained'
    <3>1. CASE c = NoReceipt
      BY <1>1, <2>2, <2>3, <2>5, <2>6, <3>1, StockMoves
    <3>2. CASE c # NoReceipt
      BY <1>1, <2>2, <2>3, <2>4, <2>5, <2>6, <3>2, StockMoves
    <3> QED
      BY <3>1, <3>2
  <2> QED
    BY <2>1, <2>7, StockEnds
<1>7. ASSUME Back!DeliverCommit(r) PROVE StockInv'
  <2> DEFINE k == job[r].resolution
  <2>1. /\ k \in DOMAIN resolutions /\ resolutions[k].way = "GiaoHangMoi"
        /\ Back!Finish(r) /\ UNCHANGED stock
        /\ resolutions' = [resolutions EXCEPT ![k].status = "HoanThanh"]
    BY <1>7 DEF Back!DeliverCommit, ReturnsInv, Held
  <2> HIDE DEF k
  <2>2. PICK s : /\ SameSubject(s, k) /\ s.arrived = resolutions[k].arrived
                 /\ s.status = "HoanThanh" /\ resolutions' = [resolutions EXCEPT ![k] = s]
    BY <1>1, <2>1, Completed
  <2>3. s.way # "BaoHanh"
    BY <2>1, <2>2 DEF SameSubject
  <2>4. /\ ResolutionsKept
        /\ BackIn' = BackIn /\ SentOut' = SentOut /\ Back!HandedOut' = Back!HandedOut
    BY <1>1, <2>1, <2>2, <2>3, SetsOfSaved
  <2> QED
    BY <1>1, <2>1, <2>4, StockMoves, StockEnds
<1> QED
  BY <1>2, <1>3, <1>4, <1>5, <1>6, <1>7 DEF Back!Settlement

\* The handlers of warranties, and those that edit a resolution.
LEMMA StockWarranty ==
  ASSUME InitialStock \in Int, OneAtATime, ReturnsInv, ReturnsInv', StockInv,
         NEW r \in Requests, Back!Warranty(r)
  PROVE  StockInv'
<1>1. Rows /\ Rows' /\ RequestsKept /\ Back!StockIsExplained
  BY RequestsStay DEF ReturnsInv, StockInv
<1>0. UNCHANGED <<resolutions, stock>> => Back!StockIsExplained'
  BY <1>1, StockUntouched
<1>2. ASSUME NEW i \in DOMAIN requests, NEW receipt \in Receipts \cup {NoReceipt},
             Back!WarrantyInit(r, i, receipt)
      PROVE  StockInv'
  <2>1. /\ "warranty" \notin {"hand out", "save resolution"} /\ UNCHANGED <<resolutions, stock>>
        /\ pc' = [pc EXCEPT ![r] = "warranty"]
        /\ job' = [job EXCEPT ![r] = [request |-> i, receipt |-> receipt]]
    BY <1>2 DEF Back!WarrantyInit, Back!Begin, Back!returnVars
  <2> QED
    BY <1>0, <2>1, StockLeft
<1>3. ASSUME Back!WarrantyInsert(r) PROVE StockInv'
  <2> DEFINE k == Len(resolutions) + 1
             s == [request |-> job[r].request, way |-> "BaoHanh", status |-> "DangXuLy",
                   receipt |-> job[r].receipt, order |-> 0, handling |-> "none",
                   arrived |-> job[r].receipt # NoReceipt]
  <2>1. /\ resolutions' = Append(resolutions, s) /\ UNCHANGED stock
        /\ "warranty 2" \notin {"hand out", "save resolution"}
        /\ pc' = [pc EXCEPT ![r] = "warranty 2"] /\ job' = [job EXCEPT ![r] = job[r]]
    BY <1>3 DEF Back!WarrantyInsert, Back!AddResolution, Back!Continue
  <2>2. s.way = "BaoHanh" /\ s.status = "DangXuLy"
    OBVIOUS
  <2> HIDE DEF k, s
  <2>3. /\ ResolutionsKept
        /\ BackIn' = IF s.way = "HoanTien" /\ ~s.arrived THEN BackIn \cup {k} ELSE BackIn
        /\ SentOut' = IF s.way = "GiaoHangMoi" /\ s.arrived THEN SentOut \cup {k} ELSE SentOut
        /\ Back!HandedOut' = IF s.way = "BaoHanh" /\ s.status = "HoanThanh"
                          THEN Back!HandedOut \cup {k} ELSE Back!HandedOut
    BY <1>1, <2>1, SetsOfNew DEF k
  <2>4. Back!StockIsExplained'
    BY <1>1, <2>1, <2>2, <2>3, StockMoves
  <2> QED
    BY <2>1, <2>4, StockLeft
<1>4. ASSUME Back!WarrantyMark(r) PROVE StockInv'
  BY <1>0, <1>4, StockEnds DEF Back!WarrantyMark
<1>5. ASSUME NEW i \in DOMAIN requests, Back!WarrantyRead(r, i) PROVE StockInv'
  <2>1. PICK k \in Back!OfRequest(i) :
          /\ Back!Unfinished(k) /\ UNCHANGED Back!returnVars /\ pc' = [pc EXCEPT ![r] = "hand out"]
          /\ job' = [job EXCEPT ![r] = [request |-> i, resolution |-> k]]
    BY <1>5 DEF Back!WarrantyRead, Back!Begin
  <2> DEFINE j == [request |-> i, resolution |-> k]
  <2>2. /\ j.request = i /\ j.resolution = k /\ UNCHANGED <<resolutions, stock>>
        /\ resolutions[k].request = i
    BY <2>1 DEF Back!returnVars, Back!OfRequest
  <2> HIDE DEF j
  <2>3. \A q \in Requests : pc'[q] = "hand out" /\ job'[q] = j
    BY <2>1 DEF OneAtATime, ReturnsInv, j
  <2>4. \A q \in Requests : StockHeld(q)'
    BY <2>1, <2>2, <2>3 DEF StockHeld, Back!Unfinished
  <2> QED
    BY <1>0, <2>2, <2>4 DEF StockInv
<1>6. ASSUME Back!WarrantyCommit(r) PROVE StockInv'
  <2> DEFINE k == job[r].resolution
             i == job[r].request
             n == requests[i].quantity
  <2>1. /\ k \in DOMAIN resolutions /\ i \in DOMAIN requests /\ resolutions[k].way = "BaoHanh"
        /\ resolutions[k].request = i /\ Back!Unfinished(k)
        /\ Back!Finish(r) /\ stock' = stock - n
        /\ resolutions' = [resolutions EXCEPT ![k].status = "HoanThanh"]
    BY <1>6 DEF Back!WarrantyCommit, ReturnsInv, Held, StockInv, StockHeld
  <2>2. requests'[i].quantity = n
    BY <1>1, <2>1 DEF RequestsKept
  <2> HIDE DEF k, i, n
  <2>3. PICK s : /\ SameSubject(s, k) /\ s.arrived = resolutions[k].arrived
                 /\ s.status = "HoanThanh" /\ resolutions' = [resolutions EXCEPT ![k] = s]
    BY <1>1, <2>1, Completed
  <2>4. s.way = "BaoHanh" /\ s.request = i
    BY <2>1, <2>3 DEF SameSubject
  <2>5. /\ ResolutionsKept /\ k \in DOMAIN resolutions' /\ resolutions'[k] = s
        /\ BackIn' = BackIn /\ SentOut' = SentOut /\ Back!HandedOut' = Back!HandedOut \cup {k}
    BY <1>1, <2>1, <2>3, <2>4, SetsOfSaved
  <2>6. k \notin Back!HandedOut
    BY <2>1 DEF Back!HandedOut
  <2>7. n = requests'[resolutions'[k].request].quantity
    BY <2>2, <2>4, <2>5
  <2>8. Back!StockIsExplained'
    BY <1>1, <2>1, <2>5, <2>6, <2>7, StockMoves
  <2> QED
    BY <2>1, <2>8, StockEnds
<1>7. ASSUME NEW k \in DOMAIN resolutions,
             \/ Back!UpdateWarrantyStatus(r, k) \/ Back!UpdateDefectiveHandling(r, k)
             \/ \E receipt \in Receipts : Back!CompleteDefectiveReuse(r, k, receipt)
      PROVE  StockInv'
  <2>1. resolutions[k] \in Back!Resolution
    BY <1>1 DEF Rows
  <2>2. PICK new : /\ Back!EditResolution(r, k, new)
                   /\ new.status = resolutions[k].status
                   /\ new.arrived = resolutions[k].arrived
    <3>1. CASE Back!UpdateWarrantyStatus(r, k)
      BY <3>1 DEF Back!UpdateWarrantyStatus
    <3>2. CASE Back!UpdateDefectiveHandling(r, k)
      <4>1. PICK h \in {"TraNhaCungCap", "TieuHuy", "TaiSuDung"} :
              Back!EditResolution(r, k, [resolutions[k] EXCEPT !.handling = h])
        BY <3>2 DEF Back!UpdateDefectiveHandling
      <4> DEFINE new == [resolutions[k] EXCEPT !.handling = h]
      <4>2. new.status = resolutions[k].status
        BY <2>1 DEF Back!Resolution
      <4>3. new.arrived = resolutions[k].arrived
        BY <2>1 DEF Back!Resolution
      <4> QED
        BY <4>1, <4>2, <4>3
    <3>3. ASSUME NEW receipt \in Receipts, Back!CompleteDefectiveReuse(r, k, receipt)
          PROVE  \E new : /\ Back!EditResolution(r, k, new)
                          /\ new.status = resolutions[k].status
                          /\ new.arrived = resolutions[k].arrived
      <4> DEFINE new == [resolutions[k] EXCEPT !.receipt = receipt]
      <4>1. Back!EditResolution(r, k, new)
        BY <3>3 DEF Back!CompleteDefectiveReuse
      <4>2. new.status = resolutions[k].status
        BY <2>1 DEF Back!Resolution
      <4>3. new.arrived = resolutions[k].arrived
        BY <2>1 DEF Back!Resolution
      <4> QED
        BY <4>1, <4>2, <4>3
    <3> QED
      BY <1>7, <3>1, <3>2, <3>3
  <2>3. UNCHANGED <<resolutions, stock>>
    BY <2>2 DEF Back!EditResolution, Back!returnVars
  <2> QED
    BY <1>0, <2>2, <2>3, StockEdit
<1>8. ASSUME Back!SaveResolution(r) PROVE StockInv'
  <2> DEFINE k == job[r].resolution
             s == job[r].new
  <2>1. /\ k \in DOMAIN resolutions /\ SameSubject(s, k)
        /\ s.arrived = resolutions[k].arrived /\ s.status = resolutions[k].status
        /\ resolutions' = [resolutions EXCEPT ![k] = s] /\ Back!Finish(r) /\ UNCHANGED stock
    BY <1>8 DEF Back!SaveResolution, ReturnsInv, Held, StockInv, StockHeld
  <2> HIDE DEF k, s
  <2>2. /\ ResolutionsKept
        /\ BackIn' = BackIn /\ SentOut' = SentOut /\ Back!HandedOut' = Back!HandedOut
    BY <1>1, <2>1, SetsOfSaved
  <2> QED
    BY <1>1, <2>1, <2>2, StockMoves, StockEnds
<1> QED
  BY <1>2, <1>3, <1>4, <1>5, <1>6, <1>7, <1>8 DEF Back!Warranty

\* Every step.
LEMMA StockInvNext ==
  OneAtATime /\ Accepted /\ InitialStock \in Int /\ ReturnsInv /\ StockInv /\ [Back!Next]_shopVars
    => StockInv'
<1> SUFFICES ASSUME OneAtATime, Accepted, InitialStock \in Int, ReturnsInv, StockInv,
                    [Back!Next]_shopVars
             PROVE  StockInv'
  OBVIOUS
<1>0. ReturnsInv'
  BY ReturnsInvNext
<1>1. Rows /\ Rows' /\ Back!StockIsExplained
  BY <1>0 DEF ReturnsInv, StockInv
<1>2. ASSUME NEW r \in Requests, Back!Workflow(r) PROVE StockInv'
  <2>1. PICK l, j : /\ l \in {"submit", "save", "idle"}
                    /\ pc' = [pc EXCEPT ![r] = l] /\ job' = [job EXCEPT ![r] = j]
    BY <1>2, WorkflowLinksNone
  <2>2. UNCHANGED <<resolutions, stock>> /\ l \notin {"hand out", "save resolution"}
    BY <1>2, <2>1, WorkflowLinksNone
  <2>3. Back!StockIsExplained'
    BY <1>1, <1>2, <2>2, RequestsStay, StockUntouched
  <2> QED
    BY <2>1, <2>2, <2>3, StockLeft
<1>3. ASSUME NEW r \in Requests, Back!Settlement(r) \/ Back!Warranty(r) PROVE StockInv'
  BY <1>0, <1>3, StockSettlement, StockWarranty
<1>4. UNCHANGED <<requests, resolutions, stock>> => Back!StockIsExplained'
  BY <1>1, StockUntouched DEF RequestsKept
<1>5. ASSUME NEW r \in Requests, Back!GiveUp(r), UNCHANGED Back!returnVars PROVE StockInv'
  BY <1>4, <1>5, StockEnds DEF Back!GiveUp, Back!returnVars
<1>6. ASSUME UNCHANGED <<Back!handling, requests, resolutions, stock>> PROVE StockInv'
  <2>1. \A r \in Requests : StockHeld(r)'
    BY <1>6 DEF StockInv, StockHeld, Back!handling, Back!Unfinished
  <2> QED
    BY <1>4, <1>6, <2>1 DEF StockInv
<1>7. CASE \E o \in DOMAIN orders : Back!WindowEnds(o)
  BY <1>6, <1>7 DEF Back!WindowEnds
<1>8. CASE UNCHANGED shopVars
  BY <1>6, <1>8 DEF shopVars, Back!returnVars
<1> QED
  BY <1>2, <1>3, <1>5, <1>7, <1>8 DEF Back!Next

\* While handlers do not overlap, wherever they end, the refunds, exchanges and warranties
\* that are recorded explain the stock.
THEOREM ResolutionsExplainStock ==
  ASSUME OneAtATime, Accepted, InitialStock \in Int
  PROVE  ReturnsSpec => []Back!StockIsExplained
<1>1. ReturnsStart => StockInv
  <2> SUFFICES ASSUME ReturnsStart PROVE StockInv
    OBVIOUS
  <2>1. BackIn = {} /\ SentOut = {} /\ Back!HandedOut = {} /\ stock = InitialStock
    BY DEF ReturnsStart, Back!ReturnsInit, BackIn, SentOut, Back!HandedOut
  <2>2. Back!StockIsExplained
    BY <2>1, WhatExplains, SumEmpty
  <2> QED
    BY <2>2 DEF ReturnsStart, Quiet, StockInv, StockHeld
<1>2. StockInv => Back!StockIsExplained
  BY DEF StockInv
<1> QED
  BY <1>1, <1>2, ReturnsInvInit, ReturnsInvNext, StockInvNext, PTL DEF ReturnsSpec

-----------------------------------------------------------------------------
(* The points of the order, however handlers overlap *)

\* The component counts and compares as the libraries do.
LEMMA RefundsCounted == \A S : Back!Cardinality(S) = Cardinality(S)
  BY DEF Back!Cardinality, Cardinality

\* The larger and the smaller of two numbers.
LEMMA OfTwo ==
  ASSUME NEW a \in Int, NEW b \in Int
  PROVE  /\ Back!Max({a, b}) = IF a >= b THEN a ELSE b
         /\ Back!Min({a, b}) = IF a <= b THEN a ELSE b
<1>1. Back!Max({a, b}) = IF a >= b THEN a ELSE b
  <2> DEFINE m == IF a >= b THEN a ELSE b
  <2>1. m \in {a, b} /\ \A y \in {a, b} : m >= y
    OBVIOUS
  <2>2. \A x \in {a, b} : (\A y \in {a, b} : x >= y) => x = m
    OBVIOUS
  <2> HIDE DEF m
  <2> QED
    BY <2>1, <2>2 DEF Back!Max, m
<1>2. Back!Min({a, b}) = IF a <= b THEN a ELSE b
  <2> DEFINE m == IF a <= b THEN a ELSE b
  <2>1. m \in {a, b} /\ \A y \in {a, b} : m <= y
    OBVIOUS
  <2>2. \A x \in {a, b} : (\A y \in {a, b} : x <= y) => x = m
    OBVIOUS
  <2> HIDE DEF m
  <2> QED
    BY <2>1, <2>2 DEF Back!Min, m
<1> QED
  BY <1>1, <1>2

\* Taking back as far as there are any is the same as never falling below zero.
LEMMA TakenBack ==
  ASSUME NEW d \in Nat, NEW e \in Nat, NEW p \in Nat, NEW q, q = Back!Max({0, p - d})
  PROVE  q \in Int /\ q - Back!Min({e, q}) = Back!Max({0, p - (d + e)})
<1>1. Back!Max({0, p - d}) = IF 0 >= p - d THEN 0 ELSE p - d
  BY OfTwo
<1>2. Back!Max({0, p - (d + e)}) = IF 0 >= p - (d + e) THEN 0 ELSE p - (d + e)
  BY OfTwo
<1>3. q \in Int
  BY <1>1
<1>4. Back!Min({e, q}) = IF e <= q THEN e ELSE q
  <2>1. \A a, b \in Int : Back!Min({a, b}) = IF a <= b THEN a ELSE b
    BY OfTwo
  <2> QED
    BY <1>3, <2>1
<1> QED
  BY <1>1, <1>2, <1>3, <1>4

\* The refunds of the order that earned points.
PaidBack == {k \in Back!Refunds : requests[resolutions[k].request].order = 1}

\* A step that adds no refund.
LEMMA NoRefund ==
  ASSUME Rows, RequestsKept, ResolutionsKept,
         \A k \in DOMAIN resolutions' \ DOMAIN resolutions : resolutions'[k].way # "HoanTien"
  PROVE  PaidBack' = PaidBack
<1>1. \A k \in DOMAIN resolutions :
        /\ k \in DOMAIN resolutions' /\ resolutions'[k].request = resolutions[k].request
        /\ resolutions'[k].way = resolutions[k].way
        /\ requests'[resolutions[k].request].order = requests[resolutions[k].request].order
  BY DEF Rows, Settled, RequestsKept, ResolutionsKept
<1> QED
  BY <1>1 DEF PaidBack, Back!Refunds

\* A step that leaves points, and what it saves of a resolution, alone.
LEMMA PointsStay ==
  ASSUME Back!PointsTakenBack, PaidBack' = PaidBack, UNCHANGED points
  PROVE  Back!PointsTakenBack'
  BY DEF Back!PointsTakenBack, PaidBack

\* Saving a resolution of the same subject.
LEMMA SubjectSaved ==
  ASSUME Rows, NEW k \in DOMAIN resolutions, NEW s, SameSubject(s, k),
         resolutions' = [resolutions EXCEPT ![k] = s]
  PROVE  ResolutionsKept /\ DOMAIN resolutions' = DOMAIN resolutions
<1>1. /\ DOMAIN resolutions' = DOMAIN resolutions /\ resolutions'[k] = s
      /\ \A m \in DOMAIN resolutions : m # k => resolutions'[m] = resolutions[m]
  BY DEF Rows
<1> QED
  BY <1>1 DEF SameSubject, ResolutionsKept

\* A refund takes points back.
LEMMA RefundTakes ==
  ASSUME Earned \in Nat, InitialPoints \in Nat, ReturnsInv, Back!PointsTakenBack,
         NEW r \in Requests, Back!RefundCommit(r)
  PROVE  Back!PointsTakenBack'
<1> DEFINE i == job[r].request
           o == requests[i].order
           k == Len(resolutions) + 1
           s == [request |-> i, way |-> "HoanTien", status |-> "HoanThanh",
                 receipt |-> job[r].receipt, order |-> 0, handling |-> "none",
                 arrived |-> job[r].receipt # NoReceipt]
<1>1. /\ Rows /\ i \in DOMAIN requests /\ resolutions' = Append(resolutions, s)
      /\ points' = points - Back!TakePointsBack(o)
  BY DEF Back!RefundCommit, Back!AddResolution, ReturnsInv, Held
<1>2. RequestsKept
  BY RequestsStay DEF Back!Settlement
<1>3. s.request = i /\ s.way = "HoanTien"
  OBVIOUS
<1>4. requests'[i].order = o
  BY <1>1, <1>2 DEF RequestsKept
<1> HIDE DEF i, o, s
<1>5. ResolutionsKept /\ k \in DOMAIN resolutions' /\ resolutions'[k] = s
  BY <1>1, SetsOfNew
<1>6. k \notin DOMAIN resolutions /\ DOMAIN resolutions' = DOMAIN resolutions \cup {k}
  BY <1>1 DEF Rows
<1>7. \A m \in DOMAIN resolutions :
        /\ resolutions'[m].request = resolutions[m].request
        /\ resolutions'[m].way = resolutions[m].way
        /\ requests'[resolutions[m].request].order = requests[resolutions[m].request].order
  BY <1>1, <1>2, <1>5 DEF Rows, Settled, RequestsKept, ResolutionsKept
<1> HIDE DEF k
<1>8. PaidBack' = IF o = 1 THEN PaidBack \cup {k} ELSE PaidBack
  BY <1>3, <1>4, <1>5, <1>6, <1>7 DEF PaidBack, Back!Refunds
<1>9. IsFiniteSet(PaidBack) /\ k \notin PaidBack
  <2>1. PaidBack \in SUBSET DOMAIN resolutions
    BY DEF PaidBack, Back!Refunds
  <2> QED
    BY <1>1, <1>6, <2>1, UnitsType
<1> DEFINE n == Cardinality(PaidBack)
<1>10. n \in Nat /\ Cardinality(PaidBack \cup {k}) = n + 1
  BY <1>9, FS_CardinalityType, FS_AddElement
<1>11. points = Back!Max({0, InitialPoints - n * Earned})
  BY RefundsCounted DEF Back!PointsTakenBack, PaidBack
<1>12. Back!PointsTakenBack' <=>
         points' = Back!Max({0, InitialPoints - Cardinality(PaidBack') * Earned})
  BY RefundsCounted DEF Back!PointsTakenBack, PaidBack
<1> DEFINE d == n * Earned
<1>d. d \in Nat /\ (n + 1) * Earned = d + Earned
  BY <1>10
<1>e. points = Back!Max({0, InitialPoints - d})
  BY <1>11
<1> HIDE DEF n, d
<1>13. CASE o = 1
  <2>1. points' = points - Back!Min({Earned, points}) /\ Cardinality(PaidBack') = n + 1
    BY <1>1, <1>8, <1>10, <1>13 DEF Back!TakePointsBack
  <2>2. points - Back!Min({Earned, points}) = Back!Max({0, InitialPoints - (d + Earned)})
    BY <1>d, <1>e, TakenBack
  <2> QED
    BY <1>d, <1>12, <2>1, <2>2
<1>14. CASE o # 1
  <2>1. points \in Int
    BY <1>d, <1>e, TakenBack
  <2>2. points' = points /\ PaidBack' = PaidBack
    BY <1>1, <1>8, <1>14, <2>1 DEF Back!TakePointsBack
  <2> QED
    BY <2>2, PointsStay
<1> QED
  BY <1>13, <1>14

\* The customer's requests and the decisions of the staff move no points.
LEMMA WorkflowPays ==
  ASSUME NEW r \in Requests, Back!Workflow(r)
  PROVE  UNCHANGED points
<1>1. ASSUME NEW o, NEW type, NEW q, Back!SubmitRead(r, o, type, q) PROVE UNCHANGED points
  BY <1>1 DEF Back!SubmitRead, Back!returnVars
<1>2. ASSUME Back!SubmitInsert(r) \/ Back!SaveRequest(r) PROVE UNCHANGED points
  BY <1>2 DEF Back!SubmitInsert, Back!SaveRequest
<1>3. ASSUME NEW i, \/ Back!ProcessReturn(r, i) \/ Back!ConfirmGoodsReceived(r, i)
                    \/ Back!UpdateInspectionResult(r, i) \/ Back!CompleteInspection(r, i)
                    \/ Back!RejectAfterInspection(r, i) \/ Back!ChangeResolution(r, i)
      PROVE  UNCHANGED points
  BY <1>3 DEF Back!ProcessReturn, Back!ConfirmGoodsReceived, Back!UpdateInspectionResult,
              Back!CompleteInspection, Back!RejectAfterInspection, Back!ChangeResolution,
              Back!Edit, Back!returnVars
<1> QED
  BY <1>1, <1>2, <1>3 DEF Back!Workflow

\* Every step.
LEMMA PointsTakenBackNext ==
  Earned \in Nat /\ InitialPoints \in Nat /\ ReturnsInv /\ Back!PointsTakenBack
    /\ [Back!Next]_shopVars => Back!PointsTakenBack'
<1> SUFFICES ASSUME Earned \in Nat, InitialPoints \in Nat, ReturnsInv, Back!PointsTakenBack,
                    [Back!Next]_shopVars
             PROVE  Back!PointsTakenBack'
  OBVIOUS
<1>0. Rows
  BY DEF ReturnsInv
<1>1. ASSUME RequestsKept, UNCHANGED <<resolutions, points>> PROVE Back!PointsTakenBack'
  <2>1. ResolutionsKept
    BY <1>1 DEF ResolutionsKept
  <2> QED
    BY <1>0, <1>1, <2>1, NoRefund, PointsStay
<1>2. ASSUME NEW k \in DOMAIN resolutions, NEW s, SameSubject(s, k), RequestsKept,
             resolutions' = [resolutions EXCEPT ![k] = s], UNCHANGED points
      PROVE  Back!PointsTakenBack'
  BY <1>0, <1>2, SubjectSaved, NoRefund, PointsStay
<1>3. ASSUME NEW s, resolutions' = Append(resolutions, s), s.way # "HoanTien",
             RequestsKept, UNCHANGED points
      PROVE  Back!PointsTakenBack'
  <2>1. ResolutionsKept
    BY <1>0, <1>3, SetsOfNew
  <2>2. \A k \in DOMAIN resolutions' \ DOMAIN resolutions : resolutions'[k] = s
    BY <1>0, <1>3 DEF Rows
  <2> QED
    BY <1>0, <1>3, <2>1, <2>2, NoRefund, PointsStay
<1>4. ASSUME NEW r \in Requests, Back!Workflow(r) PROVE Back!PointsTakenBack'
  <2>1. UNCHANGED points
    BY <1>4, WorkflowPays
  <2> QED
    BY <1>1, <1>4, <2>1, RequestsStay, WorkflowLinksNone
<1>5. ASSUME NEW r \in Requests, Back!Settlement(r), ~Back!RefundCommit(r)
      PROVE  Back!PointsTakenBack'
  <2>1. RequestsKept
    BY <1>5, RequestsStay
  <2>2. ASSUME NEW i \in DOMAIN requests, NEW receipt \in Receipts \cup {NoReceipt},
               Back!RefundRead(r, i, receipt) \/ Back!ExchangeRead(r, i, receipt)
        PROVE  UNCHANGED <<resolutions, points>>
    BY <2>2 DEF Back!RefundRead, Back!ExchangeRead, Back!returnVars
  <2>3. ASSUME Back!RefundSnapshot(r) \/ Back!ExchangeSnapshot(r)
        PROVE  UNCHANGED <<resolutions, points>>
    BY <2>3 DEF Back!RefundSnapshot, Back!ExchangeSnapshot, Back!returnVars
  <2>4. ASSUME NEW k \in DOMAIN resolutions, Back!DeliverRead(r, k)
        PROVE  UNCHANGED <<resolutions, points>>
    BY <2>4 DEF Back!DeliverRead, Back!returnVars
  <2>5. CASE Back!ExchangeCommit(r)
    <3> DEFINE s == [request |-> job[r].request, way |-> "GiaoHangMoi", status |-> "DangXuLy",
                     receipt |-> job[r].receipt, order |-> Len(orders) + 1,
                     handling |-> "none", arrived |-> job[r].receipt # NoReceipt]
    <3>1. resolutions' = Append(resolutions, s) /\ UNCHANGED points
      BY <2>5 DEF Back!ExchangeCommit, Back!AddResolution
    <3>2. s.way # "HoanTien"
      OBVIOUS
    <3> HIDE DEF s
    <3> QED
      BY <1>3, <2>1, <3>1, <3>2
  <2>6. CASE Back!DeliverCommit(r)
    <3>1. /\ job[r].resolution \in DOMAIN resolutions /\ UNCHANGED points
          /\ resolutions' = [resolutions EXCEPT ![job[r].resolution].status = "HoanThanh"]
      BY <2>6 DEF Back!DeliverCommit, ReturnsInv, Held
    <3> QED
      BY <1>0, <1>2, <2>1, <3>1, Completed
  <2> QED
    BY <1>1, <1>5, <2>1, <2>2, <2>3, <2>4, <2>5, <2>6 DEF Back!Settlement
<1>6. ASSUME NEW r \in Requests, Back!Warranty(r) PROVE Back!PointsTakenBack'
  <2>1. RequestsKept
    BY <1>6, RequestsStay
  <2>2. ASSUME NEW i \in DOMAIN requests, NEW receipt \in Receipts \cup {NoReceipt},
               Back!WarrantyInit(r, i, receipt) \/ Back!WarrantyRead(r, i)
        PROVE  UNCHANGED <<resolutions, points>>
    BY <2>2 DEF Back!WarrantyInit, Back!WarrantyRead, Back!returnVars
  <2>3. ASSUME NEW i \in DOMAIN requests, Back!WarrantyRead(r, i)
        PROVE  UNCHANGED <<resolutions, points>>
    BY <2>3 DEF Back!WarrantyRead, Back!returnVars
  <2>4. ASSUME NEW k \in DOMAIN resolutions,
               \/ Back!UpdateWarrantyStatus(r, k) \/ Back!UpdateDefectiveHandling(r, k)
               \/ \E receipt \in Receipts : Back!CompleteDefectiveReuse(r, k, receipt)
        PROVE  UNCHANGED <<resolutions, points>>
    BY <2>4 DEF Back!UpdateWarrantyStatus, Back!UpdateDefectiveHandling,
              Back!CompleteDefectiveReuse, Back!EditResolution, Back!returnVars
  <2>5. CASE Back!WarrantyInsert(r)
    <3> DEFINE s == [request |-> job[r].request, way |-> "BaoHanh", status |-> "DangXuLy",
                     receipt |-> job[r].receipt, order |-> 0, handling |-> "none",
                     arrived |-> job[r].receipt # NoReceipt]
    <3>1. resolutions' = Append(resolutions, s) /\ UNCHANGED points
      BY <2>5 DEF Back!WarrantyInsert, Back!AddResolution
    <3>2. s.way # "HoanTien"
      OBVIOUS
    <3> HIDE DEF s
    <3> QED
      BY <1>3, <2>1, <3>1, <3>2
  <2>6. CASE Back!WarrantyMark(r)
    BY <1>1, <2>1, <2>6 DEF Back!WarrantyMark
  <2>7. CASE Back!WarrantyCommit(r)
    <3>1. /\ job[r].resolution \in DOMAIN resolutions /\ UNCHANGED points
          /\ resolutions' = [resolutions EXCEPT ![job[r].resolution].status = "HoanThanh"]
      BY <2>7 DEF Back!WarrantyCommit, ReturnsInv, Held
    <3> QED
      BY <1>0, <1>2, <2>1, <3>1, Completed
  <2>8. CASE Back!SaveResolution(r)
    <3>1. /\ job[r].resolution \in DOMAIN resolutions /\ UNCHANGED points
          /\ SameSubject(job[r].new, job[r].resolution)
          /\ resolutions' = [resolutions EXCEPT ![job[r].resolution] = job[r].new]
      BY <2>8 DEF Back!SaveResolution, ReturnsInv, Held
    <3> QED
      BY <1>2, <2>1, <3>1
  <2> QED
    BY <1>1, <1>6, <2>1, <2>2, <2>3, <2>4, <2>5, <2>6, <2>7, <2>8 DEF Back!Warranty
<1>7. ASSUME UNCHANGED <<requests, resolutions, points>> PROVE Back!PointsTakenBack'
  BY <1>1, <1>7 DEF RequestsKept
<1>8. ASSUME NEW r \in Requests, Back!GiveUp(r), UNCHANGED Back!returnVars
      PROVE  Back!PointsTakenBack'
  BY <1>7, <1>8 DEF Back!returnVars
<1>9. CASE \E o \in DOMAIN orders : Back!WindowEnds(o)
  BY <1>7, <1>9 DEF Back!WindowEnds
<1>10. CASE UNCHANGED shopVars
  BY <1>7, <1>10 DEF shopVars, Back!returnVars
<1>11. ASSUME NEW r \in Requests, Back!RefundCommit(r) PROVE Back!PointsTakenBack'
  BY <1>11, RefundTakes
<1> QED
  BY <1>4, <1>5, <1>6, <1>8, <1>9, <1>10, <1>11 DEF Back!Next

\* However the handlers of returns overlap, each refund of the order that earned points takes
\* them back as far as there are any.
THEOREM RefundsTakePointsBack ==
  ASSUME Accepted, Earned \in Nat, InitialPoints \in Nat
  PROVE  ReturnsSpec => []Back!PointsTakenBack
<1>1. ReturnsStart => Back!PointsTakenBack
  <2> SUFFICES ASSUME ReturnsStart PROVE Back!PointsTakenBack
    OBVIOUS
  <2>1. PaidBack = {} /\ points = InitialPoints
    BY DEF ReturnsStart, Back!ReturnsInit, PaidBack, Back!Refunds
  <2>2. Cardinality({}) = 0
    BY FS_EmptySet
  <2>3. Back!Max({0, InitialPoints - 0 * Earned}) = InitialPoints
    BY OfTwo
  <2> QED
    BY <2>1, <2>2, <2>3, RefundsCounted DEF Back!PointsTakenBack, PaidBack
<1> QED
  BY <1>1, ReturnsInvInit, ReturnsInvNext, PointsTakenBackNext, PTL DEF ReturnsSpec

-----------------------------------------------------------------------------
(* Membership tiers: while handlers do not overlap, the ranges of the tiers stay apart and   *)
(* their names differ, so that each customer is in one tier at most.                         *)

TierStart == Tier!TiersInit /\ Quiet

memberVars == <<Tier!tierVars, Tier!handling>>

TierSpec == TierStart /\ [][Tier!Next]_memberVars

\* The rows are what they look like, and no two of them meet.
TiersApart ==
  /\ tiers = [t \in Tier!There |-> tiers[t]] /\ 0 \notin Tier!There /\ nextTier \in Nat \ {0}
  /\ \A t \in Tier!There : tiers[t] \in Tier!MembershipTier
  /\ \A t, u \in Tier!There : t # u =>
         tiers[t].name # tiers[u].name /\ ~Tier!Overlaps(tiers[t], tiers[u])

\* What a handler has found out is still so.
TierChecks ==
  \A r \in Requests :
    /\ pc[r] \in {"idle", "validate", "save", "delete"}
    /\ pc[r] \in {"validate", "save"} => job[r].row \in Tier!MembershipTier
    /\ pc[r] \in {"validate", "save"} => job[r].id = 0 \/ job[r].id \in Tier!There
    /\ pc[r] = "save" => ~Tier!RangeTaken(job[r].row, job[r].id)
    /\ pc[r] = "delete" => Tier!Empty(job[r].id)

TiersInv ==
  /\ Slots /\ TiersApart /\ TierChecks
  /\ memberPoints = [c \in Customers |-> memberPoints[c]] /\ \A c \in Customers :
         memberPoints[c] \in Int

\* At the start there are no tiers.
LEMMA TiersInvInit == MaxPoints \in Nat /\ TierStart => TiersInv
<1> SUFFICES ASSUME MaxPoints \in Nat, TierStart PROVE TiersInv
  OBVIOUS
<1>1. Tier!There = {} /\ tiers = [t \in Tier!There |-> tiers[t]] /\ nextTier = 1
  BY DEF TierStart, Tier!TiersInit, Tier!There
<1>2. TiersApart
  BY <1>1 DEF TiersApart
<1>3. Slots /\ TierChecks
  BY DEF TierStart, Quiet, Slots, TierChecks
<1>4. memberPoints \in [Customers -> {0, MaxPoints}]
  BY DEF TierStart, Tier!TiersInit
<1>5. \A c \in Customers : memberPoints[c] \in Int
  BY <1>4
<1> QED
  BY <1>2, <1>3, <1>4, <1>5 DEF TiersInv

\* What a handler has checked of the other tiers is still so when it writes.
LEMMA TiersInvNext == OneAtATime /\ MaxPoints \in Nat /\ TiersInv /\ [Tier!Next]_memberVars =>
    TiersInv'
<1> SUFFICES ASSUME OneAtATime, MaxPoints \in Nat, TiersInv, [Tier!Next]_memberVars
             PROVE TiersInv'
  OBVIOUS
<1> USE DEF TiersInv
<1>0. ASSUME UNCHANGED tiers, UNCHANGED nextTier PROVE TiersApart'
  BY <1>0 DEF TiersApart, Tier!There, Tier!Overlaps
<1>1. ASSUME NEW r \in Requests,
             Tier!Create(r) \/ \E t \in Tier!There : Tier!Update(r, t)
      PROVE  TiersInv'
  <2>1. UNCHANGED Tier!tierVars
    BY <1>1 DEF Tier!Create, Tier!Update
  <2>2. PICK id, row : /\ Tier!Begin(r, "validate", [id |-> id, row |-> row])
                       /\ row \in Tier!MembershipTier /\ (id = 0 \/ id \in Tier!There)
    <3>1. CASE Tier!Create(r)
      BY <3>1 DEF Tier!Create
    <3>2. ASSUME NEW t \in Tier!There, Tier!Update(r, t)
          PROVE  \E id, row : /\ Tier!Begin(r, "validate", [id |-> id, row |-> row])
                              /\ row \in Tier!MembershipTier /\ (id = 0 \/ id \in Tier!There)
      BY <3>2 DEF Tier!Update
    <3> QED
      BY <1>1, <3>1, <3>2
  <2>3. Slots'
    BY <2>2 DEF Tier!Begin, Slots
  <2>4. pc'[r] = "validate" /\ job'[r].row = row /\ job'[r].id = id
    BY <2>2 DEF Tier!Begin, Slots
  <2>5. TierChecks'
    BY <2>1, <2>2, <2>4 DEF TierChecks, OneAtATime, Tier!There, Tier!tierVars
  <2> QED
    BY <1>0, <2>1, <2>3, <2>5 DEF Tier!tierVars
<1>2. ASSUME NEW r \in Requests, Tier!Validate(r) PROVE TiersInv'
  <2>1. /\ pc[r] = "validate" /\ UNCHANGED Tier!tierVars
        /\ Tier!Finish(r)
               \/ (Tier!Continue(r, "save", job[r]) /\ ~Tier!RangeTaken(job[r].row, job[r].id))
    BY <1>2 DEF Tier!Validate
  <2>2. Slots'
    BY <2>1 DEF Tier!Finish, Tier!Continue, Slots
  <2>3. \/ pc'[r] = "idle"
        \/ pc'[r] = "save" /\ job'[r] = job[r] /\ ~Tier!RangeTaken(job[r].row, job[r].id)
    BY <2>1 DEF Tier!Finish, Tier!Continue, Slots
  <2>4. TierChecks'
    BY <2>1, <2>3 DEF TierChecks, OneAtATime, Tier!There, Tier!tierVars, Tier!RangeTaken,
       Tier!Overlaps
  <2> QED
    BY <1>0, <2>1, <2>2, <2>4 DEF Tier!tierVars
<1>3. ASSUME NEW r \in Requests, Tier!Save(r) PROVE TiersInv'
  <2>1. PICK id : id = IF job[r].id = 0 THEN nextTier ELSE job[r].id
    OBVIOUS
  <2>2. PICK row : row = job[r].row
    OBVIOUS
  <2>3. /\ pc[r] = "save" /\ Tier!Finish(r) /\ UNCHANGED memberPoints
        /\ \/ UNCHANGED <<tiers, nextTier>>
           \/ /\ ~Tier!NameTaken(row.name, id)
              /\ tiers' = [t \in Tier!There \cup {id} |-> IF t = id THEN row ELSE tiers[t]]
              /\ nextTier' = IF id = nextTier THEN nextTier + 1 ELSE nextTier
    BY <1>3, <2>1, <2>2 DEF Tier!Save
  <2>4. Slots' /\ pc'[r] = "idle"
    BY <2>3 DEF Tier!Finish, Slots
  <2>5. TierChecks'
    BY <2>4 DEF TierChecks, OneAtATime
  <2>6. ASSUME ~Tier!NameTaken(row.name, id),
               tiers' = [t \in Tier!There \cup {id} |-> IF t = id THEN row ELSE tiers[t]],
               nextTier' = IF id = nextTier THEN nextTier + 1 ELSE nextTier
        PROVE  TiersApart'
    <3>1. Tier!There' = Tier!There \cup {id} /\ row \in Tier!MembershipTier /\ id # 0
      BY <2>1, <2>2, <2>3, <2>6 DEF Tier!There, TierChecks, TiersApart
    <3>2. \A t \in Tier!There \ {id} : tiers[t].name # row.name
      BY <2>6 DEF Tier!NameTaken
    <3>3. \A t \in Tier!There \ {id} : ~Tier!Overlaps(row, tiers[t])
      BY <2>1, <2>2, <2>3 DEF TierChecks, TiersApart, Tier!RangeTaken
    <3>4. \A t \in Tier!There \ {id} : ~Tier!Overlaps(tiers[t], row)
      BY <3>3 DEF Tier!Overlaps
    <3>5. tiers' = [t \in Tier!There' |-> tiers'[t]] /\ 0 \notin Tier!There'
      BY <2>6, <3>1 DEF TiersApart
    <3>6. nextTier' \in Nat \ {0}
      BY <2>6 DEF TiersApart
    <3>7. \A t \in Tier!There' : tiers'[t] \in Tier!MembershipTier
      BY <2>6, <3>1 DEF TiersApart
    <3>8. \A t, u \in Tier!There' : t # u =>
            tiers'[t].name # tiers'[u].name /\ ~Tier!Overlaps(tiers'[t], tiers'[u])
      BY <2>6, <3>1, <3>2, <3>3, <3>4 DEF TiersApart
    <3> QED
      BY <3>5, <3>6, <3>7, <3>8 DEF TiersApart, Tier!Overlaps
  <2> QED
    BY <1>0, <2>3, <2>4, <2>5, <2>6
<1>4. ASSUME NEW r \in Requests, NEW t \in Tier!There, Tier!Remove(r, t) PROVE TiersInv'
  <2>1. Tier!Begin(r, "delete", [id |-> t]) /\ Tier!Empty(t) /\ UNCHANGED Tier!tierVars
    BY <1>4 DEF Tier!Remove
  <2>2. Slots' /\ pc'[r] = "delete" /\ job'[r].id = t
    BY <2>1 DEF Tier!Begin, Slots
  <2>4. TierChecks'
    BY <2>1, <2>2 DEF TierChecks, OneAtATime, Tier!Empty, Tier!InTier, Tier!tierVars
  <2> QED
    BY <1>0, <2>1, <2>2, <2>4 DEF Tier!tierVars
<1>5. ASSUME NEW r \in Requests, Tier!Delete(r) PROVE TiersInv'
  <2>1. /\ tiers' = [t \in Tier!There \ {job[r].id} |-> tiers[t]]
        /\ Tier!Finish(r) /\ UNCHANGED <<nextTier, memberPoints>>
    BY <1>5 DEF Tier!Delete
  <2>2. Slots' /\ pc'[r] = "idle"
    BY <2>1 DEF Tier!Finish, Slots
  <2>3. TierChecks'
    BY <2>2 DEF TierChecks, OneAtATime
  <2>4. Tier!There' = Tier!There \ {job[r].id}
    BY <2>1 DEF Tier!There
  <2>5. TiersApart'
    BY <2>1, <2>4 DEF TiersApart, Tier!Overlaps
  <2> QED
    BY <2>1, <2>2, <2>3, <2>5
<1>6. ASSUME NEW r \in Requests, Tier!PointsChange(r) PROVE TiersInv'
  <2>1. PICK c \in Customers, p \in 0..MaxPoints : memberPoints' = [memberPoints EXCEPT ![c] = p]
    BY <1>6 DEF Tier!PointsChange
  <2>2. UNCHANGED <<tiers, nextTier, pc, job>> /\ pc[r] = "idle"
    BY <1>6 DEF Tier!PointsChange, Tier!AtOnce
  <2>3. TierChecks' /\ Slots'
    BY <2>2 DEF TierChecks, OneAtATime, Slots
  <2>4. memberPoints' = [d \in Customers |-> memberPoints'[d]] /\ \A d \in Customers :
          memberPoints'[d] \in Int
    BY <2>1
  <2> QED
    BY <1>0, <2>2, <2>3, <2>4
<1>7. CASE UNCHANGED memberVars
  <2>1. UNCHANGED <<tiers, nextTier, memberPoints, pc, job>>
    BY <1>7 DEF memberVars, Tier!tierVars, Tier!handling
  <2>2. TierChecks' /\ Slots'
    BY <2>1 DEF TierChecks, Slots, Tier!There, Tier!RangeTaken, Tier!Overlaps, Tier!Empty,
       Tier!InTier
  <2> QED
    BY <1>0, <2>1, <2>2
<1> QED
  BY <1>1, <1>2, <1>3, <1>4, <1>5, <1>6, <1>7 DEF Tier!Next

\* While handlers do not overlap, a customer is in one tier at most and gets the broadcast
\* of one active tier at most, whatever tiers are created, changed and deleted.
THEOREM CustomersHaveOneTier ==
  ASSUME OneAtATime, MaxPoints \in Nat
  PROVE  TierSpec => []Tier!OneTierEach
<1>1. TiersInv => Tier!OneTierEach
  <2> SUFFICES ASSUME TiersInv PROVE Tier!OneTierEach
    OBVIOUS
  <2>1. ASSUME NEW t \in Tier!There, NEW u \in Tier!There, t # u
        PROVE Tier!InTier(t) \cap Tier!InTier(u) = {}
    <3>1. SUFFICES ASSUME NEW c \in Customers,
                          memberPoints[c] \in tiers[t].minPoints .. tiers[t].maxPoints,
                          memberPoints[c] \in tiers[u].minPoints .. tiers[u].maxPoints
                   PROVE  FALSE
      BY DEF Tier!InTier
    <3>2. /\ tiers[t].minPoints \in Int /\ tiers[t].maxPoints \in Int
          /\ tiers[u].minPoints \in Int /\ tiers[u].maxPoints \in Int
      BY DEF TiersInv, TiersApart, Tier!MembershipTier
    <3>3. ~Tier!Overlaps(tiers[t], tiers[u]) /\ memberPoints[c] \in Int
      BY <2>1 DEF TiersInv, TiersApart
    <3> QED
      BY <3>1, <3>2, <3>3 DEF Tier!Overlaps
  <2>2. ASSUME NEW t \in Tier!There, tiers[t].isActive
        PROVE Tier!Audience(tiers[t].name) = Tier!InTier(t)
    <3> DEFINE found == {u \in Tier!There : tiers[u].name = tiers[t].name /\ tiers[u].isActive}
    <3>1. \A u : u \in found <=> u = t
      BY <2>2 DEF TiersInv, TiersApart
    <3>2. found = {t}
      BY <3>1
    <3> QED
      BY <3>2 DEF Tier!Audience
  <2> QED
    BY <2>1, <2>2 DEF Tier!OneTierEach
<1> QED
  BY <1>1, TiersInvInit, TiersInvNext, PTL DEF TierSpec

\* While handlers do not overlap, deleting a tier leaves no customer without one.
THEOREM DeletingTakesNoTier ==
  ASSUME OneAtATime, MaxPoints \in Nat
  PROVE  TierSpec => [][Tier!NobodyLosesTier]_memberVars
<1>1. TiersInv /\ [Tier!Next]_memberVars => Tier!NobodyLosesTier
  <2> SUFFICES ASSUME TiersInv, [Tier!Next]_memberVars, NEW t \in Tier!There,
                      t \notin DOMAIN tiers'
               PROVE  Tier!InTier(t) = {}
    BY DEF Tier!NobodyLosesTier
  <2>1. ASSUME NEW r \in Requests, Tier!Delete(r) PROVE Tier!InTier(t) = {}
    <3>1. pc[r] = "delete" /\ t = job[r].id
      BY <2>1 DEF Tier!Delete
    <3> QED
      BY <3>1 DEF TiersInv, TierChecks, Tier!Empty
  <2>2. ASSUME NEW r \in Requests, Tier!Save(r) PROVE FALSE
    <3>1. DOMAIN tiers' = Tier!There \/ \E id : DOMAIN tiers' = Tier!There \cup {id}
      BY <2>2 DEF Tier!Save, Tier!There
    <3> QED
      BY <3>1
  <2>3. ASSUME UNCHANGED tiers PROVE FALSE
    BY <2>3 DEF Tier!There
  <2> QED
    BY <2>1, <2>2, <2>3
    DEF Tier!Next, memberVars, Tier!tierVars, Tier!Create, Tier!Update, Tier!Validate,
        Tier!Remove, Tier!PointsChange
<1> QED
  BY <1>1, TiersInvInit, TiersInvNext, PTL DEF TierSpec

-----------------------------------------------------------------------------
(* The profile of a customer: while handlers do not overlap, wherever they end, one address  *)
(* at most is the default and no limit is passed.                                            *)

\* The component counts as FiniteSets does.
LEMMA CountedAlike == \A S : Profile!Cardinality(S) = Cardinality(S)
  BY DEF Profile!Cardinality, Cardinality

ProfileStart == Profile!ProfileInit /\ Quiet

customerVars == <<Profile!profileVars, Profile!handling>>

ProfileSpec == ProfileStart /\ [][Profile!Next]_customerVars

\* An address that may become the default is the only one that is.
AddressJobs ==
  \A r \in Requests :
    /\ pc[r] \in {"clear", "insert"} /\ job[r].id = 0 => Cardinality(Profile!Mine) < MaxAddresses
    /\ pc[r] = "insert" => job[r].id = 0
    /\ pc[r] \in {"clear", "save"} /\ job[r].id # 0 => job[r].id \in Profile!Mine
    /\ pc[r] = "save" => job[r].id # 0
    /\ pc[r] \in {"clear", "insert", "save"} => job[r].default \in BOOLEAN
    /\ pc[r] \in {"insert", "save"} /\ job[r].default = TRUE =>
         \A a \in Profile!Mine : addresses[a] = TRUE => a = job[r].id

Addresses ==
  /\ addresses = [a \in Profile!Mine |-> addresses[a]] /\ \A a \in Profile!Mine :
         addresses[a] \in BOOLEAN
  /\ 0 \notin Profile!Mine /\ nextAddress \in Nat \ {0}
  /\ IsFiniteSet(Profile!Mine) /\ Cardinality(Profile!Mine) <= MaxAddresses
  /\ \A a, b \in Profile!Mine : addresses[a] = TRUE /\ addresses[b] = TRUE => a = b

AddressInv == Slots /\ Addresses /\ AddressJobs

\* At the start there is no address.
LEMMA AddressInvInit == MaxAddresses \in Nat /\ ProfileStart => AddressInv
<1> SUFFICES ASSUME MaxAddresses \in Nat, ProfileStart PROVE AddressInv
  OBVIOUS
<1>1. Profile!Mine = {} /\ addresses = [a \in Profile!Mine |-> addresses[a]] /\ nextAddress = 1
  BY DEF ProfileStart, Profile!ProfileInit, Profile!Mine
<1>2. Addresses
  BY <1>1, FS_EmptySet DEF Addresses
<1> QED
  BY <1>2 DEF ProfileStart, Quiet, Slots, AddressJobs, AddressInv

\* Every handler leaves one default address, as soon as there is one.
LEMMA AddressInvNext ==
  OneAtATime /\ MaxAddresses \in Nat /\ AddressInv /\ [Profile!Next]_customerVars => AddressInv'
<1> SUFFICES ASSUME OneAtATime, MaxAddresses \in Nat, AddressInv, [Profile!Next]_customerVars
             PROVE  AddressInv'
  OBVIOUS
<1> USE DEF AddressInv
<1>0. ASSUME UNCHANGED <<addresses, nextAddress>> PROVE Addresses' /\ Profile!Mine' = Profile!Mine
  BY <1>0 DEF Addresses, Profile!Mine
<1>a. ASSUME NEW r \in Requests, Profile!Finish(r) PROVE Slots' /\ AddressJobs'
  <2>1. Slots' /\ pc'[r] = "idle"
    BY <1>a DEF Profile!Finish, Slots
  <2> QED
    BY <2>1 DEF AddressJobs, OneAtATime
<1>1. ASSUME NEW r \in Requests,
             \/ Profile!AddAddress(r)
             \/ \E a \in Profile!Mine : Profile!UpdateAddress(r, a)
                    \/ Profile!SetDefaultAddress(r, a)
      PROVE  AddressInv'
  <2>1. UNCHANGED <<addresses, nextAddress>>
    BY <1>1 DEF Profile!AddAddress, Profile!UpdateAddress, Profile!SetDefaultAddress,
       Profile!profileVars
  <2> DEFINE Sound(l, id, default) ==
        /\ l \in {"clear", "insert", "save"} /\ default \in BOOLEAN
        /\ id = 0 => l \in {"clear", "insert"} /\ Cardinality(Profile!Mine) < MaxAddresses
        /\ id # 0 => l \in {"clear", "save"} /\ id \in Profile!Mine
        /\ l # "clear" /\ default = TRUE => \A a \in Profile!Mine : addresses[a] = TRUE => a = id
  <2>2. PICK l, id, default :
          Sound(l, id, default) /\ Profile!Begin(r, l, [id |-> id, default |-> default])
    <3>1. CASE Profile!AddAddress(r)
      <4>1. PICK asDefault \in BOOLEAN :
              Profile!Begin(r, IF asDefault THEN "clear" ELSE "insert", [id |-> 0, default |-> asDefault])
        BY <3>1 DEF Profile!AddAddress
      <4>2. Cardinality(Profile!Mine) < MaxAddresses
        BY <3>1, CountedAlike DEF Profile!AddAddress, Profile!Room
      <4>3. CASE asDefault = TRUE
        <5>1. Sound("clear", 0, TRUE) /\ Profile!Begin(r, "clear", [id |-> 0, default |-> TRUE])
          BY <4>1, <4>2, <4>3
        <5> HIDE DEF Sound
        <5> QED
          BY <5>1
      <4>4. CASE asDefault = FALSE
        <5>1. Sound("insert", 0, FALSE) /\ Profile!Begin(r, "insert", [id |-> 0, default |-> FALSE])
          BY <4>1, <4>2, <4>4
        <5> HIDE DEF Sound
        <5> QED
          BY <5>1
      <4> QED
        BY <4>3, <4>4
    <3>2. ASSUME NEW a \in Profile!Mine, Profile!UpdateAddress(r, a)
                 \/ Profile!SetDefaultAddress(r, a)
          PROVE  \E l, id, default :
                     Sound(l, id, default) /\ Profile!Begin(r, l, [id |-> id, default |-> default])
      <4>1. a # 0 /\ addresses[a] \in BOOLEAN
        BY DEF Addresses
      <4>2. CASE Profile!Begin(r, "clear", [id |-> a, default |-> TRUE])
        <5>1. Sound("clear", a, TRUE)
          BY <4>1
        <5> HIDE DEF Sound
        <5> QED
          BY <4>2, <5>1
      <4>3. CASE Profile!Begin(r, "save", [id |-> a, default |-> FALSE])
        <5>1. Sound("save", a, FALSE)
          BY <4>1
        <5> HIDE DEF Sound
        <5> QED
          BY <4>3, <5>1
      <4>4. CASE Profile!Begin(r, "save", [id |-> a, default |-> addresses[a]])
        <5>1. Sound("save", a, addresses[a])
          BY <4>1 DEF Addresses
        <5> HIDE DEF Sound
        <5> QED
          BY <4>4, <5>1
      <4> QED
        BY <3>2, <4>2, <4>3, <4>4 DEF Profile!UpdateAddress, Profile!SetDefaultAddress
    <3> HIDE DEF Sound
    <3> QED
      BY <1>1, <3>1, <3>2
  <2>3. Slots' /\ pc'[r] = l /\ job'[r].id = id /\ job'[r].default = default
    BY <2>2 DEF Profile!Begin, Slots
  <2>4. AddressJobs'
    BY <2>1, <2>2, <2>3, <1>0 DEF AddressJobs, OneAtATime
  <2> QED
    BY <2>1, <2>3, <2>4, <1>0
<1>2. ASSUME NEW r \in Requests, Profile!ClearDefault(r) PROVE AddressInv'
  <2>1. /\ pc[r] = "clear" /\ addresses' = [a \in Profile!Mine |-> FALSE] /\ UNCHANGED nextAddress
        /\ Profile!Continue(r, IF job[r].id = 0 THEN "insert" ELSE "save", job[r])
    BY <1>2 DEF Profile!ClearDefault, Profile!Cleared, Profile!Mine
  <2>2. Profile!Mine' = Profile!Mine /\ Addresses'
    BY <2>1 DEF Profile!Mine, Addresses
  <2>3. /\ Slots' /\ job'[r] = job[r]
        /\ pc'[r] = IF job[r].id = 0 THEN "insert" ELSE "save"
    BY <2>1 DEF Profile!Continue, Slots
  <2>4. AddressJobs'
    BY <2>1, <2>2, <2>3 DEF AddressJobs, OneAtATime
  <2> QED
    BY <2>2, <2>3, <2>4
<1>3. ASSUME NEW r \in Requests, Profile!InsertAddress(r) PROVE AddressInv'
  <2>1. /\ pc[r] = "insert" /\ Profile!Finish(r) /\ nextAddress' = nextAddress + 1
        /\ addresses' = [a \in Profile!Mine \cup {nextAddress} |->
                           IF a = nextAddress THEN job[r].default ELSE addresses[a]]
    BY <1>3 DEF Profile!InsertAddress
  <2>2. Profile!Mine' = Profile!Mine \cup {nextAddress}
    BY <2>1 DEF Profile!Mine
  <2>3. /\ Cardinality(Profile!Mine) < MaxAddresses /\ job[r].default \in BOOLEAN
        /\ job[r].default = TRUE => \A a \in Profile!Mine : addresses[a] # TRUE
    BY <2>1 DEF AddressJobs, Addresses
  <2>4. IsFiniteSet(Profile!Mine') /\ Cardinality(Profile!Mine') <= MaxAddresses
    <3>1. IsFiniteSet(Profile!Mine) /\ Cardinality(Profile!Mine) \in Nat
      BY FS_CardinalityType DEF Addresses
    <3>2. PICK added : added = Profile!Mine \cup {nextAddress}
      OBVIOUS
    <3>3. IsFiniteSet(added) /\ (Cardinality(added) = Cardinality(Profile!Mine)
            \/ Cardinality(added) = Cardinality(Profile!Mine) + 1)
      BY <3>1, <3>2, FS_AddElement
    <3>4. Cardinality(added) <= MaxAddresses
      BY <2>3, <3>1, <3>3
    <3> QED
      BY <2>2, <3>2, <3>3, <3>4
  <2>5. Addresses'
    <3>1. /\ addresses' = [a \in Profile!Mine' |-> addresses'[a]] /\ 0 \notin Profile!Mine'
          /\ nextAddress' \in Nat \ {0}
      BY <2>1, <2>2 DEF Addresses
    <3>2. \A a \in Profile!Mine' : addresses'[a] \in BOOLEAN
      BY <2>1, <2>2, <2>3 DEF Addresses
    <3>3. \A a \in Profile!Mine : a # nextAddress => addresses'[a] = addresses[a]
      BY <2>1
    <3>4. addresses'[nextAddress] = job[r].default
      BY <2>1
    <3>5. \A a, b \in Profile!Mine' : addresses'[a] = TRUE /\ addresses'[b] = TRUE => a = b
      BY <2>2, <2>3, <3>3, <3>4 DEF Addresses
    <3> QED
      BY <2>4, <3>1, <3>2, <3>5 DEF Addresses
  <2> QED
    BY <2>1, <2>5, <1>a
<1>4. ASSUME NEW r \in Requests, Profile!SaveAddress(r) PROVE AddressInv'
  <2>1. /\ pc[r] = "save" /\ Profile!Finish(r) /\ UNCHANGED nextAddress
        /\ addresses' = [a \in Profile!Mine \cup {job[r].id} |->
                           IF a = job[r].id THEN job[r].default ELSE addresses[a]]
    BY <1>4 DEF Profile!SaveAddress, Profile!avatarVars
  <2>2. /\ job[r].id \in Profile!Mine /\ job[r].default \in BOOLEAN
        /\ job[r].default = TRUE => \A a \in Profile!Mine : addresses[a] = TRUE => a = job[r].id
    BY <2>1 DEF AddressJobs
  <2>3. Profile!Mine' = Profile!Mine
    BY <2>1, <2>2 DEF Profile!Mine
  <2>4. Addresses'
    BY <2>1, <2>2, <2>3 DEF Addresses
  <2> QED
    BY <2>1, <2>4, <1>a
<1>5. ASSUME NEW r \in Requests, Profile!RemoveAddress(r) PROVE AddressInv'
  <2>1. /\ Profile!Finish(r) /\ UNCHANGED nextAddress
        /\ addresses' = [a \in Profile!Mine \ {job[r].id} |-> addresses[a]]
    BY <1>5 DEF Profile!RemoveAddress, Profile!avatarVars
  <2>2. Profile!Mine' = Profile!Mine \ {job[r].id}
    BY <2>1 DEF Profile!Mine
  <2>3. IsFiniteSet(Profile!Mine') /\ Cardinality(Profile!Mine') <= MaxAddresses
    <3>1. IsFiniteSet(Profile!Mine) /\ Cardinality(Profile!Mine) \in
            Nat /\ Cardinality(Profile!Mine) <= MaxAddresses
      BY FS_CardinalityType DEF Addresses
    <3>2. PICK left : left = Profile!Mine \ {job[r].id}
      OBVIOUS
    <3>3. IsFiniteSet(left) /\ (Cardinality(left) = Cardinality(Profile!Mine)
            \/ Cardinality(left) = Cardinality(Profile!Mine) - 1)
      BY <3>1, <3>2, FS_RemoveElement
    <3>4. Cardinality(left) <= MaxAddresses
      BY <3>1, <3>3
    <3> QED
      BY <2>2, <3>2, <3>3, <3>4
  <2>4. Addresses'
    BY <2>1, <2>2, <2>3 DEF Addresses
  <2> QED
    BY <2>1, <2>4, <1>a
<1>6. ASSUME NEW r \in Requests, Profile!CountUpload(r) \/ Profile!Abandon(r) PROVE AddressInv'
  <2>1. Profile!Finish(r) /\ UNCHANGED <<addresses, nextAddress>>
    BY <1>6 DEF Profile!CountUpload, Profile!Abandon, Profile!GiveUp
  <2> QED
    BY <2>1, <1>0, <1>a
<1>7. ASSUME NEW r \in Requests,
             \/ Profile!UploadAvatar(r) \/ Profile!Uploaded(r) \/ Profile!SaveAvatar(r)
                    \/ Profile!UpdateNotificationPreferences(r)
             \/ \E a \in Profile!Mine : Profile!DeleteAddress(r, a)
      PROVE  AddressInv'
  <2>1. UNCHANGED <<addresses, nextAddress>>
    BY <1>7 DEF Profile!UploadAvatar, Profile!Uploaded, Profile!SaveAvatar,
       Profile!UpdateNotificationPreferences, Profile!DeleteAddress,
                Profile!profileVars
  <2>2. Slots' /\ pc'[r] \notin {"clear", "insert", "save"}
    BY <1>7 DEF Profile!UploadAvatar, Profile!Uploaded, Profile!SaveAvatar,
       Profile!UpdateNotificationPreferences, Profile!DeleteAddress,
                Profile!Begin, Profile!Continue, Profile!AtOnce, Slots
  <2>3. AddressJobs'
    BY <2>2 DEF AddressJobs, OneAtATime
  <2> QED
    BY <2>1, <2>2, <2>3, <1>0
<1>8. CASE Profile!Midnight \/ UNCHANGED customerVars
  <2>1. UNCHANGED <<addresses, nextAddress, pc, job>>
    BY <1>8 DEF Profile!Midnight, customerVars, Profile!profileVars, Profile!handling
  <2>2. Slots' /\ AddressJobs'
    BY <2>1, <1>0 DEF Slots, AddressJobs
  <2> QED
    BY <2>1, <2>2, <1>0
<1> QED
  BY <1>1, <1>2, <1>3, <1>4, <1>5, <1>6, <1>7, <1>8 DEF Profile!Next

\* While handlers do not overlap, wherever they end, a customer has no more addresses than
\* the limit, and the default address, if there is one, is the one the checkout offers first.
THEOREM OneDefaultAddress ==
  ASSUME OneAtATime, MaxAddresses \in Nat
  PROVE  ProfileSpec => []Profile!OneDefault
<1>1. AddressInv => Profile!OneDefault
  <2> SUFFICES ASSUME AddressInv, NEW a \in Profile!Mine, addresses[a] = TRUE
               PROVE a = Profile!Preselected
    BY CountedAlike DEF AddressInv, Addresses, Profile!OneDefault
  <2>1. ASSUME NEW x \in Profile!Mine PROVE (\A b \in Profile!Mine \ {x} :
               Profile!Listed(x, b)) <=> x = a
    <3>1. CASE x = a
      BY <3>1 DEF AddressInv, Addresses, Profile!Listed
    <3>2. CASE x # a
      <4>1. addresses[x] = FALSE
        BY <3>2 DEF AddressInv, Addresses
      <4> QED
        BY <3>2, <4>1 DEF Profile!Listed
    <3> QED
      BY <3>1, <3>2
  <2> QED
    BY <2>1 DEF Profile!Preselected
<1> QED
  BY <1>1, AddressInvInit, AddressInvNext, PTL DEF ProfileSpec

-----------------------------------------------------------------------------
\* Every change of the avatar was counted, or its handler ended first, or is about to count.
AvatarInv ==
  /\ Slots
  /\ uploads \in Nat /\ changed \in Nat /\ uncounted \in Nat /\ uploads <= MaxAvatars
  /\ (\A r \in Requests : pc[r] # "count") => changed = uploads + uncounted
  /\ \A r \in Requests :
       /\ pc[r] \in {"upload", "avatar", "count"} =>
              job[r].count = uploads /\ uploads < MaxAvatars
       /\ pc[r] = "count" => changed = uploads + uncounted + 1

\* Each change is counted, or is one whose handler ended before.
LEMMA AvatarInvNext ==
  OneAtATime /\ MaxAvatars \in Nat /\ AvatarInv /\ [Profile!Next]_customerVars => AvatarInv'
<1> SUFFICES ASSUME OneAtATime, MaxAvatars \in Nat, AvatarInv, [Profile!Next]_customerVars
             PROVE AvatarInv'
  OBVIOUS
<1> USE DEF AvatarInv
<1> DEFINE Other == {"idle", "clear", "insert", "save", "remove"}
<1>0. ASSUME NEW r \in Requests, pc[r] \in Other, pc'[r] \in Other, Slots',
             UNCHANGED <<uploads, changed, uncounted>>
      PROVE  AvatarInv'
  BY <1>0 DEF OneAtATime
<1>1. ASSUME NEW r \in Requests,
             \/ Profile!AddAddress(r) \/ Profile!ClearDefault(r) \/ Profile!InsertAddress(r)
                    \/ Profile!SaveAddress(r)
             \/ Profile!RemoveAddress(r) \/ Profile!UpdateNotificationPreferences(r)
             \/ \E a \in Profile!Mine : Profile!UpdateAddress(r, a)
                    \/ Profile!SetDefaultAddress(r, a) \/ Profile!DeleteAddress(r, a)
      PROVE  AvatarInv'
  <2>1. UNCHANGED <<uploads, changed, uncounted>>
    BY <1>1 DEF Profile!AddAddress, Profile!ClearDefault, Profile!InsertAddress,
       Profile!SaveAddress, Profile!RemoveAddress, Profile!UpdateAddress,
                Profile!SetDefaultAddress, Profile!DeleteAddress,
                    Profile!UpdateNotificationPreferences, Profile!profileVars, Profile!avatarVars
  <2>2. pc[r] \in Other /\ pc'[r] \in Other /\ Slots'
    <3>1. CASE Profile!AddAddress(r)
      BY <3>1 DEF Profile!AddAddress, Profile!Begin, Slots
    <3>2. CASE Profile!ClearDefault(r) \/ Profile!InsertAddress(r) \/ Profile!SaveAddress(r)
            \/ Profile!RemoveAddress(r)
      BY <3>2 DEF Profile!ClearDefault, Profile!InsertAddress, Profile!SaveAddress,
         Profile!RemoveAddress, Profile!Continue, Profile!Finish, Slots
    <3>3. CASE Profile!UpdateNotificationPreferences(r)
      BY <3>3 DEF Profile!UpdateNotificationPreferences, Profile!AtOnce, Slots
    <3>4. ASSUME NEW a \in Profile!Mine, Profile!UpdateAddress(r, a)
                 \/ Profile!SetDefaultAddress(r, a) \/ Profile!DeleteAddress(r, a)
          PROVE  pc[r] \in Other /\ pc'[r] \in Other /\ Slots'
      BY <3>4 DEF Profile!UpdateAddress, Profile!SetDefaultAddress, Profile!DeleteAddress,
         Profile!Begin, Slots
    <3> QED
      BY <1>1, <3>1, <3>2, <3>3, <3>4
  <2> QED
    BY <2>1, <2>2, <1>0
<1>2. ASSUME NEW r \in Requests, Profile!UploadAvatar(r) PROVE AvatarInv'
  <2>1. /\ pc[r] = "idle" /\ uploads < MaxAvatars /\ UNCHANGED <<uploads, changed, uncounted>>
        /\ Slots' /\ pc'[r] = "upload" /\ job'[r].count = uploads
    BY <1>2 DEF Profile!UploadAvatar, Profile!Begin, Profile!profileVars, Slots
  <2> QED
    BY <2>1 DEF OneAtATime
<1>3. ASSUME NEW r \in Requests, Profile!Uploaded(r) PROVE AvatarInv'
  <2>1. /\ pc[r] = "upload" /\ UNCHANGED <<uploads, changed, uncounted>>
        /\ Slots' /\ pc'[r] = "avatar" /\ job'[r].count = job[r].count
    BY <1>3 DEF Profile!Uploaded, Profile!Continue, Profile!profileVars, Slots
  <2> QED
    BY <2>1 DEF OneAtATime
<1>4. ASSUME NEW r \in Requests, Profile!SaveAvatar(r) PROVE AvatarInv'
  <2>1. /\ pc[r] = "avatar" /\ changed' = changed + 1 /\ UNCHANGED <<uploads, uncounted>>
        /\ Slots' /\ pc'[r] = "count" /\ job'[r].count = job[r].count
    BY <1>4 DEF Profile!SaveAvatar, Profile!Continue, Slots
  <2> QED
    BY <2>1 DEF OneAtATime
<1>5. ASSUME NEW r \in Requests, Profile!CountUpload(r) PROVE AvatarInv'
  <2>1. /\ pc[r] = "count" /\ uploads' = job[r].count + 1 /\ UNCHANGED <<changed, uncounted>>
        /\ Slots' /\ pc'[r] = "idle"
    BY <1>5 DEF Profile!CountUpload, Profile!Counted, Profile!Finish, Slots
  <2> QED
    BY <2>1 DEF OneAtATime
<1>6. ASSUME NEW r \in Requests, Profile!Abandon(r) PROVE AvatarInv'
  <2>1. /\ uncounted' = uncounted + (IF pc[r] = "count" THEN 1 ELSE 0)
        /\ UNCHANGED <<uploads, changed>> /\ Slots' /\ pc'[r] = "idle"
    BY <1>6 DEF Profile!Abandon, Profile!GiveUp, Profile!Finish, Slots
  <2> QED
    BY <2>1 DEF OneAtATime
<1>7. CASE Profile!Midnight
  BY <1>7 DEF Profile!Midnight, Profile!handling, Slots
<1>8. CASE UNCHANGED customerVars
  BY <1>8 DEF customerVars, Profile!profileVars, Profile!handling, Slots
<1> QED
  BY <1>1, <1>2, <1>3, <1>4, <1>5, <1>6, <1>7, <1>8 DEF Profile!Next

\* While handlers do not overlap, the avatar changes no more often in a day than the limit,
\* but for changes whose handlers were cut short before they counted.
THEOREM AvatarsAreLimited ==
  ASSUME OneAtATime, MaxAvatars \in Nat
  PROVE  ProfileSpec => []Profile!AvatarLimit
<1>1. ProfileStart => AvatarInv
  BY DEF ProfileStart, Profile!ProfileInit, Quiet, Slots, AvatarInv
<1>2. OneAtATime /\ AvatarInv => Profile!AvatarLimit
  <2>1. CASE \E r \in Requests : pc[r] = "count"
    BY <2>1 DEF AvatarInv, Profile!AvatarLimit
  <2>2. CASE \A r \in Requests : pc[r] # "count"
    BY <2>2 DEF AvatarInv, Profile!AvatarLimit
  <2> QED
    BY <2>1, <2>2
<1> QED
  BY <1>1, <1>2, AvatarInvNext, PTL DEF ProfileSpec
=============================================================================
