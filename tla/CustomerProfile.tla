--------------------------- MODULE CustomerProfile ---------------------------
(***************************************************************************)
(* UsersService, for one customer: the shipping addresses, the switch for  *)
(* e-mails and the avatar, which may change a few times a day.  The other  *)
(* columns of the customer, and the administration, are CustomerAccount's. *)
(***************************************************************************)
EXTENDS Handlers, FiniteSets

CONSTANTS
  MaxAddresses,   \* MAX_SHIPPING_ADDRESSES_PER_CUSTOMER
  MaxAvatars,     \* changes of the avatar a day
  AddressIds      \* bound: the addresses there can be

VARIABLES
  addresses,   \* dia_chi_giao_hang of the customer: la_mac_dinh by id
  nextAddress,
  mailsOn,     \* nhan_thong_bao_email
  avatar,      \* anh_dai_dien: the number of the upload
  uploads,     \* avatar_daily in Redis
  changed,     \* auxiliary: changes of the avatar today
  uncounted    \* auxiliary: of these, those whose handler ended before it counted

profileVars == <<addresses, nextAddress, mailsOn, avatar, uploads, changed, uncounted>>
avatarVars == <<mailsOn, avatar, uploads, changed, uncounted>>

Mine == DOMAIN addresses

ShippingAddress == BOOLEAN   \* laMacDinh

ProfileInit ==
  /\ addresses = [a \in {} |-> FALSE] /\ nextAddress = 1
  /\ mailsOn = TRUE /\ avatar = 0 /\ uploads = 0 /\ changed = 0 /\ uncounted = 0

-----------------------------------------------------------------------------
(* Addresses *)

Room(n) == n < MaxAddresses

\* addAddress and adminAddAddress; asDefault is laMacDinh of the request.
AddAddress(r) ==
  /\ Room(Cardinality(Mine))
  /\ \E asDefault \in BOOLEAN :
       Begin(r, IF asDefault THEN "clear" ELSE "insert", [id |-> 0, default |-> asDefault])
  /\ UNCHANGED profileVars

\* updateAddress: a request that says nothing of the default leaves it as it was read.
UpdateAddress(r, a) ==
  /\ \/ \E asDefault \in BOOLEAN :
          Begin(r, IF asDefault THEN "clear" ELSE "save", [id |-> a, default |-> asDefault])
     \/ Begin(r, "save", [id |-> a, default |-> addresses[a]])
  /\ UNCHANGED profileVars

SetDefaultAddress(r, a) ==
  Begin(r, "clear", [id |-> a, default |-> TRUE]) /\ UNCHANGED profileVars

DeleteAddress(r, a) == Begin(r, "remove", [id |-> a]) /\ UNCHANGED profileVars

\* UPDATE dia_chi_giao_hang SET la_mac_dinh = 0 WHERE khach_hang_id = ...
Cleared(rows) == [a \in DOMAIN rows |-> FALSE]

ClearDefault(r) ==
  /\ pc[r] = "clear" /\ addresses' = Cleared(addresses)
  /\ Continue(r, IF job[r].id = 0 THEN "insert" ELSE "save", job[r])
  /\ UNCHANGED <<nextAddress, avatarVars>>

InsertAddress(r) ==
  /\ pc[r] = "insert" /\ nextAddress \in AddressIds
  /\ addresses' = [a \in Mine \cup {nextAddress} |->
                     IF a = nextAddress THEN job[r].default ELSE addresses[a]]
  /\ nextAddress' = nextAddress + 1
  /\ Finish(r) /\ UNCHANGED avatarVars

\* save() inserts an address again that was deleted meanwhile.
SaveAddress(r) ==
  /\ pc[r] = "save"
  /\ addresses' = [a \in Mine \cup {job[r].id} |->
                     IF a = job[r].id THEN job[r].default ELSE addresses[a]]
  /\ Finish(r) /\ UNCHANGED <<nextAddress, avatarVars>>

RemoveAddress(r) ==
  /\ pc[r] = "remove" /\ addresses' = [a \in Mine \ {job[r].id} |-> addresses[a]]
  /\ Finish(r) /\ UNCHANGED <<nextAddress, avatarVars>>

-----------------------------------------------------------------------------
(* The customer's own row *)

UpdateNotificationPreferences(r) ==
  /\ AtOnce(r) /\ mailsOn' = ~mailsOn
  /\ UNCHANGED <<addresses, nextAddress, avatar, uploads, changed, uncounted>>

\* uploadAvatar reads the count, uploads, reads and saves the row, and counts.
UploadAvatar(r) ==
  /\ uploads < MaxAvatars /\ Begin(r, "upload", [count |-> uploads]) /\ UNCHANGED profileVars

\* uploadAvatarToCloudinary, and the read of the row after it.
Uploaded(r) ==
  /\ pc[r] = "upload" /\ Continue(r, "avatar", [count |-> job[r].count, mails |-> mailsOn])
  /\ UNCHANGED profileVars

SaveAvatar(r) ==
  /\ pc[r] = "avatar" /\ avatar' = avatar + 1 /\ mailsOn' = job[r].mails
  /\ changed' = changed + 1 /\ Continue(r, "count", job[r])
  /\ UNCHANGED <<addresses, nextAddress, uploads, uncounted>>

Counted(count) == count + 1

CountUpload(r) ==
  /\ pc[r] = "count" /\ uploads' = Counted(job[r].count)
  /\ Finish(r) /\ UNCHANGED <<addresses, nextAddress, mailsOn, avatar, changed, uncounted>>

\* The key of the day expires at midnight (UTC); no upload is under way then.
Midnight ==
  /\ changed > 0 /\ \A r \in Requests : pc[r] = "idle"
  /\ uploads' = 0 /\ changed' = 0 /\ uncounted' = 0
  /\ UNCHANGED <<handling, addresses, nextAddress, mailsOn, avatar>>

Abandon(r) ==
  /\ GiveUp(r) /\ uncounted' = uncounted + (IF pc[r] = "count" THEN 1 ELSE 0)
  /\ UNCHANGED <<addresses, nextAddress, mailsOn, avatar, uploads, changed>>

\* getAddresses: the default first.
Listed(a, b) == IF addresses[a] = addresses[b] THEN a < b ELSE addresses[a]
Preselected == CHOOSE a \in Mine : \A b \in Mine \ {a} : Listed(a, b)

Next ==
  \/ \E r \in Requests :
       \/ AddAddress(r) \/ ClearDefault(r) \/ InsertAddress(r) \/ SaveAddress(r)
       \/ RemoveAddress(r) \/ UploadAvatar(r) \/ Uploaded(r) \/ SaveAvatar(r)
       \/ CountUpload(r) \/ UpdateNotificationPreferences(r) \/ Abandon(r)
       \/ \E a \in Mine : UpdateAddress(r, a) \/ SetDefaultAddress(r, a) \/ DeleteAddress(r, a)
  \/ Midnight

-----------------------------------------------------------------------------
\* The type of every variable.
TypeOK ==
  /\ HandlersTypeOK
  /\ Mine \subseteq AddressIds /\ \A a \in Mine : addresses[a] \in ShippingAddress
  /\ nextAddress \in Nat /\ Mine \subseteq 1..nextAddress-1
  /\ mailsOn \in BOOLEAN /\ avatar \in Nat /\ uploads \in 0..MaxAvatars
  /\ changed \in Nat /\ uncounted \in 0..changed

\* While handlers do not overlap, a customer has no more addresses than the limit, and
\* one of them at most is the default, the one that the checkout offers first; also when
\* a handler was cut short between its two statements.
OneDefault ==
  /\ Cardinality(Mine) <= MaxAddresses
  /\ \A a \in Mine : addresses[a] => a = Preselected

\* While handlers do not overlap, the avatar changes no more often in a day than the
\* limit, but for the handlers that were cut short before they counted the change.
AvatarLimit == changed <= MaxAvatars + uncounted
=============================================================================
