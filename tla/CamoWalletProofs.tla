-------------------------- MODULE CamoWalletProofs --------------------------
(***************************************************************************)
(* Proofs about CamoWallet, for any seeds, indexes, versions, payers and   *)
(* frontiers: whatever way a value was made it is the same value, and the  *)
(* recipient and the watcher of a payment find its account.                *)
(***************************************************************************)
EXTENDS CamoWallet, TLAPS

(***************************************************************************)
(* The key algebra.                                                        *)
(***************************************************************************)
\* The watcher's view keys, made from the view seed and the public master
\* spend key, are those of the wallet's keys (addressv1.rs:170 and 110-136).
LEMMA ViewFromSeedIsView ==
    ASSUME NEW o
    PROVE  view_from_seed(get_camo_view_seed(o.seed), master_spend(o.seed),
                          o.i, o.versions) = view_of(o)
BY DEF view_from_seed, master_spend, view_of, keys_of, to_view_keys,
       keys_from_seed, add_points, times_G, plus

\* Keys and view keys make the same address.
LEMMA AccountOfView ==
    ASSUME NEW o
    PROVE  view_to_account(view_of(o)) = account_of(o)
BY DEF view_of, account_of, view_to_account, keys_to_account, to_view_keys,
       points_to_account

LEMMA VersionsKept ==
    ASSUME NEW o
    PROVE  /\ keys_of(o).versions = o.versions
           /\ view_of(o).versions = o.versions
           /\ account_of(o).versions = o.versions
BY DEF keys_of, view_of, account_of, to_view_keys, keys_to_account,
       points_to_account, keys_from_seed

LEMMA VersionsRoundTrip ==
    ASSUME NEW o \in Origin
    PROVE  decode_from_bits(encode_to_bits(o.versions)) = o.versions
BY BitsAssumption DEF Origin

\* What is written of a value is read back as that value.
LEMMA FormsRoundTrip ==
    ASSUME NEW o \in Origin
    PROVE  /\ keys_of_serde(keys_to_serde(keys_of(o))) = keys_of(o)
           /\ view_of_bytes(view_to_bytes(view_of(o))) = view_of(o)
           /\ account_of_text(account_to_text(account_of(o))) = account_of(o)
<1>1. keys_of_serde(keys_to_serde(keys_of(o))) = keys_of(o)
  BY VersionsRoundTrip, VersionsKept
  DEF keys_of, keys_of_serde, keys_to_serde, keys_from_seed
<1>2. view_of_bytes(view_to_bytes(view_of(o))) = view_of(o)
  BY VersionsRoundTrip, VersionsKept
  DEF view_of, view_of_bytes, view_to_bytes, to_view_keys
<1>3. account_of_text(account_to_text(account_of(o))) = account_of(o)
  BY VersionsRoundTrip, VersionsKept
  DEF account_of, account_of_text, account_to_text, keys_to_account, points_to_account
<1>4. QED BY <1>1, <1>2, <1>3

\* Diffie-Hellman: what the sender keeps secret the receiver recomputes from
\* the notification block, with keys or with view keys, and derives the one
\* account from it.  Versions have no part in it.
LEMMA Agreement ==
    ASSUME NEW o, NEW x, NEW payer, NEW frontier,
           x.seed = o.seed, x.i = o.i,
           NEW p, p = payment(o, account_of(o), payer, frontier)
    PROVE  /\ to_account(derive_key(keys_of(x),
                           receiver_ecdh(keys_of(x), from_v1(p.block)))) = p.account
           /\ derive_account(view_of(x),
                             receiver_ecdh(view_of(x), from_v1(p.block))) = p.account
           /\ to_account(signer_key(keys_of(x))) = p.block.link
           /\ signer_account(view_of(x)) = p.block.link
<1> DEFINE r == payment_scalar(account_of(o), payer_key(payer), frontier)
           spend == keys_of(x).private_spend
           priv == keys_of(x).private_view
           secret == ecdh(r, times_G(priv))
<1>1. /\ account_of(o).point_spend_key = times_G(spend)
      /\ account_of(o).point_view_key = times_G(priv)
      /\ view_of(x).point_spend_key = times_G(spend)
      /\ view_of(x).private_view = priv
  BY DEF account_of, view_of, keys_of, keys_to_account, points_to_account,
         to_view_keys, keys_from_seed
<1>2. /\ p.account = derive_account(account_of(o), secret)
      /\ p.block.link = times_G(spend)
      /\ p.block.representative = times_G(r)
  <2>1. sender_secret(account_of(o), payer_key(payer), frontier) = secret
    BY <1>1 DEF sender_secret
  <2>2. sender_notification(account_of(o), payer_key(payer), frontier)
            = create_v1(times_G(spend), times_G(r))
    BY <1>1 DEF sender_notification, create_notification, signer_account
  <2>3. QED BY <2>1, <2>2 DEF payment, notification_block, create_v1
<1>3. /\ receiver_ecdh(keys_of(x), from_v1(p.block)) = ecdh(priv, times_G(r))
      /\ receiver_ecdh(view_of(x), from_v1(p.block)) = ecdh(priv, times_G(r))
  BY <1>1, <1>2 DEF receiver_ecdh, from_v1, create_v1
<1>4. ecdh(priv, times_G(r)) = secret
  <2>1. {priv, r} = {r, priv}
    OBVIOUS
  <2>2. times_G(r).times_G = r /\ times_G(priv).times_G = priv
    BY DEF times_G
  <2>3. QED BY <2>1, <2>2 DEF ecdh
<1>5. to_account(derive_key(keys_of(x), secret)) = derive_account(account_of(o), secret)
  BY <1>1 DEF to_account, derive_key, derive_account, add_points, times_G, plus
<1>6. derive_account(view_of(x), secret) = derive_account(account_of(o), secret)
  BY <1>1 DEF derive_account
<1>7. to_account(signer_key(keys_of(x))) = times_G(spend)
  BY DEF to_account, signer_key
<1>8. signer_account(view_of(x)) = times_G(spend)
  BY <1>1 DEF signer_account
<1>9. QED BY <1>2, <1>3, <1>4, <1>5, <1>6, <1>7, <1>8

-----------------------------------------------------------------------------
(***************************************************************************)
(* The inductive invariant.  What a program holds is what a seed gives;    *)
(* what is stored was written of such a value, and what was paid was       *)
(* computed from such an address.                                          *)
(***************************************************************************)
written_of(kind, origin) ==
    CASE kind = "keys" -> keys_to_serde(keys_of(origin))
      [] kind = "view" -> view_to_bytes(view_of(origin))
      [] OTHER -> account_to_text(account_of(origin))

StoreInv == store # None => store.data = written_of(store.kind, store.of)

PaymentsInv ==
    \A p \in payments : p = payment(p.of, account_of(p.of), p.payer, p.frontier)

\* Without serde, all that is held, and all that this release has stored, has
\* passed a guard.
GuardedInv ==
    /\ keys # None => has_layout(keys.of.versions)
    /\ view # None => has_layout(view.of.versions)
    /\ account # None => has_layout(account.of.versions)
    /\ store # None /\ store.own => has_layout(store.of.versions)

Inv == TypeOK /\ OneValuePerOrigin /\ StoreInv /\ PaymentsInv

-----------------------------------------------------------------------------
(***************************************************************************)
(* One value is replaced, the others are as they were.                     *)
(***************************************************************************)
LEMMA SetFlagsKeepsInv ==
    ASSUME Inv, NEW versions \in SUBSET Version, SetFlags(versions)
    PROVE  Inv'
BY DEF SetFlags, Inv, TypeOK, OneValuePerOrigin, StoreInv, PaymentsInv

LEMMA SetKeysKeepsInv ==
    ASSUME Inv, NEW x, SetKeys(x),
           x # None => x.of \in Origin /\ x = value_of(x.of, keys_of(x.of))
    PROVE  Inv'
BY DEF SetKeys, Inv, TypeOK, OneValuePerOrigin, StoreInv, PaymentsInv

LEMMA SetViewKeepsInv ==
    ASSUME Inv, NEW x, SetView(x),
           x # None => x.of \in Origin /\ x = value_of(x.of, view_of(x.of))
    PROVE  Inv'
BY DEF SetView, Inv, TypeOK, OneValuePerOrigin, StoreInv, PaymentsInv

LEMMA SetAccountKeepsInv ==
    ASSUME Inv, NEW x, SetAccount(x),
           x # None => x.of \in Origin /\ x = value_of(x.of, account_of(x.of))
    PROVE  Inv'
BY DEF SetAccount, Inv, TypeOK, OneValuePerOrigin, StoreInv, PaymentsInv

LEMMA SetStoreKeepsInv ==
    ASSUME Inv, NEW kind \in {"keys", "view", "account"}, NEW form \in FormOf(kind),
           NEW o \in Origin, NEW data, data = written_of(kind, o), NEW own \in BOOLEAN,
           SetStore([kind |-> kind, form |-> form, of |-> o, data |-> data, own |-> own])
    PROVE  Inv'
<1>1. TypeOK'
  BY DEF SetStore, Inv, TypeOK
<1>2. OneValuePerOrigin'
  BY DEF SetStore, Inv, OneValuePerOrigin
<1>3. StoreInv'
  BY DEF SetStore, StoreInv
<1>4. PaymentsInv'
  BY DEF SetStore, Inv, PaymentsInv
<1>5. QED BY <1>1, <1>2, <1>3, <1>4 DEF Inv

\* What is read of the stored value is the value it was written of.
LEMMA ReadIsWritten ==
    ASSUME Inv, store # None, read(store) # None
    PROVE  read(store) = CASE store.kind = "keys" -> keys_of(store.of)
                           [] store.kind = "view" -> view_of(store.of)
                           [] OTHER -> account_of(store.of)
<1> DEFINE o == store.of
<1>1. /\ o \in Origin
      /\ store.kind \in {"keys", "view", "account"}
      /\ store.data = written_of(store.kind, o)
  BY DEF Inv, TypeOK, StoreInv
<1>2. CASE store.kind = "keys"
  BY <1>1, <1>2, FormsRoundTrip DEF written_of, read
<1>3. CASE store.kind = "view"
  <2>1. store.data = view_to_bytes(view_of(o))
    BY <1>1, <1>3 DEF written_of
  <2>2. read(store) = view_of_bytes(store.data)
    BY <1>3 DEF read, view_from_bytes
  <2>3. QED BY <1>1, <1>3, <2>1, <2>2, FormsRoundTrip
<1>4. CASE store.kind = "account"
  <2>1. store.data = account_to_text(account_of(o))
    BY <1>1, <1>4 DEF written_of
  <2>2. read(store) = account_of_text(store.data)
    BY <1>4 DEF read, account_from_text
  <2>3. QED BY <1>1, <1>4, <2>1, <2>2, FormsRoundTrip
<1>5. QED BY <1>1, <1>2, <1>3, <1>4

-----------------------------------------------------------------------------
LEMMA InitInv == Init => Inv
BY DEF Init, empty, Inv, TypeOK, OneValuePerOrigin, StoreInv, PaymentsInv

LEMMA SavedElsewhereKeepsInv ==
    ASSUME Inv, NEW form \in Form, NEW o \in Origin, SavedElsewhere(form, o)
    PROVE  Inv'
<1>1. CASE /\ form \in FormOf("keys")
           /\ SetStore(stored("keys", form, o, keys_to_serde(keys_of(o)), FALSE))
  <2>1. keys_to_serde(keys_of(o)) = written_of("keys", o)
    BY DEF written_of
  <2>2. QED BY <1>1, <2>1, SetStoreKeepsInv DEF stored
<1>2. CASE /\ form \in FormOf("view")
           /\ SetStore(stored("view", form, o, view_to_bytes(view_of(o)), FALSE))
  <2>1. view_to_bytes(view_of(o)) = written_of("view", o)
    BY DEF written_of
  <2>2. QED BY <1>2, <2>1, SetStoreKeepsInv DEF stored
<1>3. CASE /\ form \in FormOf("account")
           /\ SetStore(stored("account", form, o, account_to_text(account_of(o)), FALSE))
  <2>1. account_to_text(account_of(o)) = written_of("account", o)
    BY DEF written_of
  <2>2. QED BY <1>3, <2>1, SetStoreKeepsInv DEF stored
<1>4. QED BY <1>1, <1>2, <1>3 DEF SavedElsewhere, keys_of, view_of, account_of

LEMMA PayKeepsInv ==
    ASSUME Inv, NEW payer \in Payer, NEW frontier \in Frontier, Pay(payer, frontier)
    PROVE  Inv'
<1> DEFINE o == account.of
           p == payment(o, account.value, payer, frontier)
<1>1. o \in Origin /\ account.value = account_of(o)
  BY DEF Pay, Inv, TypeOK, OneValuePerOrigin, value_of
<1>2. p.of = o /\ p.payer = payer /\ p.frontier = frontier
  BY DEF payment
<1>3. p = payment(p.of, account_of(p.of), p.payer, p.frontier)
  BY <1>1, <1>2
<1>4. payments' = payments \cup {p}
  BY DEF Pay
<1>5. PaymentsInv'
  <2> SUFFICES ASSUME NEW q \in payments'
               PROVE  q = payment(q.of, account_of(q.of), q.payer, q.frontier)
    BY DEF PaymentsInv
  <2>1. CASE q \in payments
    BY <2>1 DEF Inv, PaymentsInv
  <2>2. CASE q = p
    BY <2>2, <1>3
  <2>3. QED BY <1>4, <2>1, <2>2
<1>6. \A q \in payments' : q.of \in Origin /\ q.payer \in Payer /\ q.frontier \in Frontier
  BY <1>1, <1>2, <1>4 DEF Inv, TypeOK
<1>7. UNCHANGED <<flags, keys, view, account, store, panicked>>
  BY DEF Pay
<1>8. TypeOK' /\ OneValuePerOrigin' /\ StoreInv'
  BY <1>6, <1>7 DEF Inv, TypeOK, OneValuePerOrigin, StoreInv
<1>9. QED BY <1>5, <1>8 DEF Inv

LEMMA StepInv == Inv /\ [Next]_vars => Inv'
<1> SUFFICES ASSUME Inv, [Next]_vars PROVE Inv'
  OBVIOUS
<1>0. /\ flags \in SUBSET Version
      /\ keys # None => keys.of \in Origin /\ keys.value = keys_of(keys.of)
      /\ view # None => view.of \in Origin /\ view.value = view_of(view.of)
      /\ account # None => account.of \in Origin /\ account.value = account_of(account.of)
  BY DEF Inv, TypeOK, OneValuePerOrigin, value_of
<1>1. ASSUME NEW v \in Toggled,
             EnableVersion(v) \/ ForceEnableVersion(v) \/ DisableVersion(v)
      PROVE  Inv'
  <2>1. v \in Version
    BY <1>1, WalletAssumption
  <2>2. /\ enable_version(flags, v) \in SUBSET Version
        /\ force_enable_version(flags, v) \in SUBSET Version
        /\ disable_version(flags, v) \in SUBSET Version
    BY <1>0, <2>1 DEF enable_version, force_enable_version, disable_version
  <2>3. QED
    BY <1>1, <2>2, SetFlagsKeepsInv DEF EnableVersion, ForceEnableVersion, DisableVersion
<1>2. ASSUME NEW seed \in Seed, NEW i \in Index,
             \/ KeysFromSeed([seed |-> seed, i |-> i, versions |-> flags])
             \/ ViewFromSeed([seed |-> seed, i |-> i, versions |-> flags])
      PROVE  Inv'
  <2> DEFINE o == [seed |-> seed, i |-> i, versions |-> flags]
  <2>1. o \in Origin
    BY <1>0 DEF Origin
  <2>2. CASE KeysFromSeed(o)
    <3> DEFINE x == IF has_layout(o.versions) THEN value_of(o, keys_of(o)) ELSE None
    <3>1. SetKeys(x)
      BY <2>2 DEF KeysFromSeed, keys_of
    <3>2. x # None => x.of \in Origin /\ x = value_of(x.of, keys_of(x.of))
      BY <2>1 DEF value_of
    <3>3. QED BY <3>1, <3>2, SetKeysKeepsInv
  <2>3. CASE ViewFromSeed(o)
    <3> DEFINE x == IF has_layout(o.versions) THEN value_of(o, view_of(o)) ELSE None
    <3>1. SetView(x)
      BY <2>3, ViewFromSeedIsView DEF ViewFromSeed
    <3>2. x # None => x.of \in Origin /\ x = value_of(x.of, view_of(x.of))
      BY <2>1 DEF value_of
    <3>3. QED BY <3>1, <3>2, SetViewKeepsInv
  <2>4. QED BY <1>2, <2>2, <2>3
<1>3. CASE KeysToView
  <2> DEFINE x == value_of(keys.of, view_of(keys.of))
  <2>1. SetView(x) /\ keys.of \in Origin
    BY <1>0, <1>3 DEF KeysToView, view_of
  <2>2. x.of = keys.of
    BY DEF value_of
  <2>3. QED BY <2>1, <2>2, SetViewKeepsInv
<1>4. CASE KeysToAccount
  <2> DEFINE x == value_of(keys.of, account_of(keys.of))
  <2>1. SetAccount(x) /\ keys.of \in Origin
    BY <1>0, <1>4 DEF KeysToAccount, account_of
  <2>2. x.of = keys.of
    BY DEF value_of
  <2>3. QED BY <2>1, <2>2, SetAccountKeepsInv
<1>5. CASE ViewToAccount
  <2> DEFINE x == value_of(view.of, account_of(view.of))
  <2>1. SetAccount(x) /\ view.of \in Origin
    BY <1>0, <1>5, AccountOfView DEF ViewToAccount
  <2>2. x.of = view.of
    BY DEF value_of
  <2>3. QED BY <2>1, <2>2, SetAccountKeepsInv
<1>6. ASSUME NEW form \in Form, SaveKeys(form) \/ SaveView(form) \/ SaveAccount(form)
      PROVE  Inv'
  <2>1. CASE SaveKeys(form)
    <3>1. keys_to_serde(keys.value) = written_of("keys", keys.of)
      BY <1>0, <2>1 DEF SaveKeys, written_of
    <3>2. QED BY <1>0, <2>1, <3>1, SetStoreKeepsInv DEF SaveKeys, stored
  <2>2. CASE SaveView(form)
    <3>1. view_to_bytes(view.value) = written_of("view", view.of)
      BY <1>0, <2>2 DEF SaveView, written_of
    <3>2. QED BY <1>0, <2>2, <3>1, SetStoreKeepsInv DEF SaveView, stored
  <2>3. CASE SaveAccount(form)
    <3>1. account_to_text(account.value) = written_of("account", account.of)
      BY <1>0, <2>3 DEF SaveAccount, written_of
    <3>2. QED BY <1>0, <2>3, <3>1, SetStoreKeepsInv DEF SaveAccount, stored
  <2>4. QED BY <1>6, <2>1, <2>2, <2>3
<1>7. ASSUME NEW form \in Form, NEW seed \in Seed, NEW i \in Index,
             NEW versions \in Elsewhere,
             SavedElsewhere(form, [seed |-> seed, i |-> i, versions |-> versions])
      PROVE  Inv'
  <2>1. [seed |-> seed, i |-> i, versions |-> versions] \in Origin
    BY WalletAssumption DEF Origin
  <2>2. QED BY <1>7, <2>1, SavedElsewhereKeepsInv
<1>8. CASE LoadKeys \/ LoadView \/ LoadAccount
  <2>1. Loaded # None => /\ store # None
                         /\ Loaded.of = store.of
                         /\ store.of \in Origin
                         /\ Loaded = value_of(store.of, read(store))
                         /\ read(store) # None
    BY <1>8 DEF Loaded, value_of, LoadKeys, LoadView, LoadAccount, Inv, TypeOK
  <2>2. CASE LoadKeys
    <3>1. Loaded # None => read(store) = keys_of(store.of)
      BY <2>1, <2>2, ReadIsWritten DEF LoadKeys
    <3>2. QED BY <2>1, <2>2, <3>1, SetKeysKeepsInv DEF LoadKeys
  <2>3. CASE LoadView
    <3>1. Loaded # None => read(store) = view_of(store.of)
      BY <2>1, <2>3, ReadIsWritten DEF LoadView
    <3>2. QED BY <2>1, <2>3, <3>1, SetViewKeepsInv DEF LoadView
  <2>4. CASE LoadAccount
    <3>1. Loaded # None => read(store) = account_of(store.of)
      BY <2>1, <2>4, ReadIsWritten DEF LoadAccount
    <3>2. QED BY <2>1, <2>4, <3>1, SetAccountKeepsInv DEF LoadAccount
  <2>5. QED BY <1>8, <2>2, <2>3, <2>4
<1>9. CASE Restart
  BY <1>9 DEF Restart, empty, Inv, TypeOK, OneValuePerOrigin, StoreInv, PaymentsInv
<1>10. ASSUME NEW payer \in Payer, NEW frontier \in Frontier, Pay(payer, frontier)
       PROVE  Inv'
  BY <1>10, PayKeepsInv
<1>11. CASE PayPanics
  BY <1>11 DEF PayPanics, Inv, TypeOK, OneValuePerOrigin, StoreInv, PaymentsInv
<1>12. CASE UNCHANGED vars
  BY <1>12 DEF vars, Inv, TypeOK, OneValuePerOrigin, StoreInv, PaymentsInv
<1>13. QED
  BY <1>1, <1>2, <1>3, <1>4, <1>5, <1>6, <1>7, <1>8, <1>9, <1>10, <1>11, <1>12 DEF Next

LEMMA Invariance == Spec => []Inv
BY InitInv, StepInv, PTL DEF Spec

\* The variables keep their types: in particular no flag is ever set that is
\* not one of the eight, and every value in memory or storage has an origin.
THEOREM TypeCorrect == Spec => []TypeOK
<1>1. Inv => TypeOK
  BY DEF Inv
<1>2. QED BY Invariance, <1>1, PTL

\* from_seed, the conversions and every form of storage agree: there is one
\* value of a seed, an index and versions, whichever way it was made.
THEOREM ValuesAgree == Spec => []OneValuePerOrigin
<1>1. Inv => OneValuePerOrigin
  BY DEF Inv
<1>2. QED BY Invariance, <1>1, PTL

\* sender_ecdh, receiver_ecdh, derive_key and both derive_account agree: the
\* recipient and the watcher find every payment from its notification block.
THEOREM PaymentAlwaysFound == Spec => []PaymentFound
<1>1. Inv => PaymentFound
  <2> SUFFICES ASSUME Inv, NEW p \in payments
               PROVE  /\ keys # None /\ SameAccount(p, keys) =>
                           /\ to_account(derive_key(keys.value,
                                 receiver_ecdh(keys.value, from_v1(p.block)))) = p.account
                           /\ to_account(signer_key(keys.value)) = p.block.link
                      /\ view # None /\ SameAccount(p, view) =>
                           /\ derive_account(view.value,
                                 receiver_ecdh(view.value, from_v1(p.block))) = p.account
                           /\ signer_account(view.value) = p.block.link
    BY DEF PaymentFound
  <2>1. p = payment(p.of, account_of(p.of), p.payer, p.frontier)
    BY DEF Inv, PaymentsInv
  <2>2. /\ keys # None => keys.value = keys_of(keys.of)
        /\ view # None => view.value = view_of(view.of)
    BY DEF Inv, OneValuePerOrigin, value_of
  <2>3. QED BY <2>1, <2>2, Agreement DEF SameAccount
<1>2. QED BY Invariance, <1>1, PTL

-----------------------------------------------------------------------------
(***************************************************************************)
(* One-time accounts.                                                      *)
(***************************************************************************)
\* The summands of an account's key, and of the key of a payment.
MasterPart(seed) == blake2b("account", <<get_camo_spend_seed(seed), 0>>)
SpendPart(o) == blake2b("first half", <<get_camo_view_seed(o.seed), o.i>>)
SecretPart(secret) == blake2b("account", <<secret, 0>>)
secret_of(p) == sender_secret(account_of(p.of), payer_key(p.payer), p.frontier)

\* blake2b does not collide.
LEMMA HashInjective ==
    ASSUME NEW t, NEW x, NEW u, NEW y, blake2b(t, x) = blake2b(u, y)
    PROVE  t = u /\ x = y
BY DEF blake2b

LEMMA PaidSummands ==
    ASSUME NEW p, p = payment(p.of, account_of(p.of), p.payer, p.frontier)
    PROVE  p.account = times_G({MasterPart(p.of.seed), SpendPart(p.of),
                                SecretPart(secret_of(p))})
<1>1. p.account = derive_account(account_of(p.of), secret_of(p))
  BY DEF payment, secret_of
<1>2. account_of(p.of).point_spend_key = times_G({MasterPart(p.of.seed), SpendPart(p.of)})
  BY DEF account_of, keys_to_account, points_to_account, keys_of, keys_from_seed, plus,
         get_account_scalar, partial_spend_key, blake2b_scalar, MasterPart, SpendPart
<1>3. get_account_scalar(secret_of(p), 0) = {SecretPart(secret_of(p))}
  BY DEF get_account_scalar, blake2b_scalar, SecretPart
<1>4. plus({MasterPart(p.of.seed), SpendPart(p.of)}, {SecretPart(secret_of(p))}) =
         {MasterPart(p.of.seed), SpendPart(p.of), SecretPart(secret_of(p))}
  BY DEF plus
<1>5. QED BY <1>1, <1>2, <1>3, <1>4 DEF derive_account, add_points, times_G

\* No summand of an account's key is the one a payment adds, or another's.
LEMMA SummandsDiffer ==
    ASSUME NEW seed, NEW o, NEW scalar, NEW point
    PROVE  /\ MasterPart(seed) # SpendPart(o)
           /\ SecretPart(ecdh(scalar, point)) # SpendPart(o)
           /\ SecretPart(ecdh(scalar, point)) # MasterPart(seed)
<1>1. "account" # "first half"
  OBVIOUS
<1>2. DOMAIN ecdh(scalar, point) = {"product"}
  BY DEF ecdh
<1>3. DOMAIN get_camo_spend_seed(seed) = {"tag", "inputs"}
  BY DEF get_camo_spend_seed, blake2b
<1>4. "tag" \notin {"product"}
  OBVIOUS
<1>5. <<ecdh(scalar, point), 0>> # <<get_camo_spend_seed(seed), 0>>
  <2>1. ecdh(scalar, point) # get_camo_spend_seed(seed)
    BY <1>2, <1>3, <1>4
  <2>2. QED BY <2>1
<1>6. QED BY <1>1, <1>5 DEF MasterPart, SpendPart, SecretPart, blake2b

LEMMA SpendPartInjective ==
    ASSUME NEW o, NEW x, SpendPart(o) = SpendPart(x)
    PROVE  o.seed = x.seed /\ o.i = x.i
<1>1. <<get_camo_view_seed(o.seed), o.i>> = <<get_camo_view_seed(x.seed), x.i>>
  BY DEF SpendPart, blake2b
<1>2. get_camo_view_seed(o.seed) = get_camo_view_seed(x.seed) /\ o.i = x.i
  BY <1>1
<1>3. <<o.seed>> = <<x.seed>>
  BY <1>2 DEF get_camo_view_seed, blake2b
<1>4. QED BY <1>2, <1>3

LEMMA SecretPartInjective ==
    ASSUME NEW s, NEW t, SecretPart(s) = SecretPart(t)
    PROVE  s = t
<1>1. <<s, 0>> = <<t, 0>>
  BY HashInjective DEF SecretPart
<1>2. QED BY <1>1

\* Of one recipient, a secret has one payer and one frontier.
LEMMA SecretInjective ==
    ASSUME NEW p, NEW q, SameAccount(p, q), secret_of(p) = secret_of(q)
    PROVE  payer_key(p.payer) = payer_key(q.payer) /\ p.frontier = q.frontier
<1> DEFINE inputs(x) == <<payer_key(x.payer), x.frontier, account_of(x.of).point_spend_key>>
           hash(x) == blake2b("payment", inputs(x))
           scalar(x) == payment_scalar(account_of(x.of), payer_key(x.payer), x.frontier)
           priv == partial_view_key(get_camo_view_seed(p.of.seed), p.of.i)
<1>1. \A x : scalar(x) = {hash(x)}
  BY DEF payment_scalar, blake2b_scalar
<1>2. \A x : hash(x) \notin priv
  <2>1. "payment" # "second half"
    OBVIOUS
  <2>2. priv = {blake2b("second half", <<get_camo_view_seed(p.of.seed), p.of.i>>)}
    BY DEF partial_view_key, blake2b_scalar
  <2>3. ASSUME NEW x, hash(x) \in priv
        PROVE  FALSE
    <3>1. hash(x) = blake2b("second half", <<get_camo_view_seed(p.of.seed), p.of.i>>)
      BY <2>2, <2>3
    <3>2. QED BY <2>1, <3>1 DEF blake2b
  <2>4. QED BY <2>3
<1>3. \A x : SameAccount(p, x) => account_of(x.of).point_view_key.times_G = priv
  BY DEF SameAccount, account_of, keys_to_account, points_to_account, keys_of, keys_from_seed,
         times_G
<1>4. secret_of(p).product = {scalar(p), priv} /\ secret_of(q).product = {scalar(q), priv}
  BY <1>3 DEF SameAccount, secret_of, sender_secret, ecdh
<1>5. {scalar(p), priv} = {scalar(q), priv}
  BY <1>4
<1>6. scalar(p) # priv /\ scalar(q) # priv
  BY <1>1, <1>2
<1>7. scalar(p) = scalar(q)
  BY <1>5, <1>6
<1>8. hash(p) = hash(q)
  BY <1>1, <1>7
<1>9. inputs(p) = inputs(q)
  BY <1>8, HashInjective
<1>10. QED BY <1>9

\* Two payments that meet on one account have one recipient, payer and frontier.
THEOREM OneAccountPerPayment == Spec => []OneTimeAccounts
<1>1. Inv => OneTimeAccounts
  <2> SUFFICES ASSUME Inv, NEW p \in payments, NEW q \in payments, p.account = q.account
               PROVE  SameAccount(p, q) /\ p.payer = q.payer /\ p.frontier = q.frontier
    BY DEF OneTimeAccounts
  <2> DEFINE S(x) == {MasterPart(x.of.seed), SpendPart(x.of), SecretPart(secret_of(x))}
  <2>1. p.account = times_G(S(p)) /\ q.account = times_G(S(q))
    BY PaidSummands DEF Inv, PaymentsInv
  <2>2. S(p) = S(q)
    <3>1. times_G(S(p)) = times_G(S(q))
      BY <2>1
    <3> HIDE DEF S
    <3>2. QED BY <3>1 DEF times_G
  <2>3. \A x, o : /\ MasterPart(x.of.seed) # SpendPart(o)
                  /\ SecretPart(secret_of(x)) # SpendPart(o)
    BY SummandsDiffer DEF secret_of, sender_secret
  <2>4. SpendPart(p.of) = SpendPart(q.of)
    BY <2>2, <2>3
  <2>5. SameAccount(p, q)
    BY <2>4, SpendPartInjective DEF SameAccount
  <2>6. /\ MasterPart(p.of.seed) = MasterPart(q.of.seed)
        /\ \A x : SecretPart(secret_of(x)) # MasterPart(p.of.seed)
    BY <2>5, SummandsDiffer DEF SameAccount, secret_of, sender_secret
  <2>7. SecretPart(secret_of(p)) = SecretPart(secret_of(q))
    BY <2>2, <2>3, <2>6
  <2>8. payer_key(p.payer) = payer_key(q.payer) /\ p.frontier = q.frontier
    BY <2>5, <2>7, SecretPartInjective, SecretInjective
  <2>9. p.payer = q.payer
    <3>1. blake2b("account", <<p.payer, 0>>) = blake2b("account", <<q.payer, 0>>)
      BY <2>8 DEF payer_key, get_account_scalar, blake2b_scalar
    <3>2. <<p.payer, 0>> = <<q.payer, 0>>
      BY <3>1, HashInjective
    <3>3. QED BY <3>2
  <2>10. QED BY <2>5, <2>8, <2>9
<1>2. QED BY Invariance, <1>1, PTL

-----------------------------------------------------------------------------
(***************************************************************************)
(* The panic.  The guards admit an account whose highest supported version *)
(* is 1 or 2, create_notification only 1: they agree while version 1 is    *)
(* all that is supported.  Without serde every value has passed a guard.   *)
(***************************************************************************)
LEMMA LayoutMeansVersionOne ==
    ASSUME Supported = {1}, NEW versions, has_layout(versions)
    PROVE  highest_supported_version(versions) = 1
<1> DEFINE S == {v \in Version : supports_version(versions, v)}
<1>1. S \subseteq {1}
  BY DEF supports_version
<1>2. S # {}
  BY VersionAssumption DEF has_layout, highest_supported_version, highest
<1>3. S = {1}
  BY <1>1, <1>2
<1>4. Max({1}) = 1
  <2>1. \E x \in {1} : \A y \in {1} : x >= y
    BY 1 >= 1
  <2>2. Max({1}) \in {1}
    BY <2>1 DEF Max
  <2>3. QED BY <2>2
<1>5. QED BY <1>3, <1>4 DEF highest_supported_version, highest

LEMMA GuardedStep ==
    ASSUME ~Serde, Inv, GuardedInv, Next
    PROVE  GuardedInv'
<1>1. CASE \E v \in Toggled : EnableVersion(v) \/ ForceEnableVersion(v) \/ DisableVersion(v)
  BY <1>1 DEF EnableVersion, ForceEnableVersion, DisableVersion, SetFlags, GuardedInv
<1>2. ASSUME NEW seed \in Seed, NEW i \in Index,
             \/ KeysFromSeed([seed |-> seed, i |-> i, versions |-> flags])
             \/ ViewFromSeed([seed |-> seed, i |-> i, versions |-> flags])
      PROVE  GuardedInv'
  BY <1>2 DEF KeysFromSeed, ViewFromSeed, SetKeys, SetView, value_of, GuardedInv
<1>3. CASE KeysToView \/ KeysToAccount \/ ViewToAccount
  BY <1>3 DEF KeysToView, KeysToAccount, ViewToAccount, SetView, SetAccount, value_of,
              GuardedInv
<1>4. CASE \E form \in Form : SaveKeys(form) \/ SaveView(form) \/ SaveAccount(form)
  BY <1>4 DEF SaveKeys, SaveView, SaveAccount, SetStore, stored, GuardedInv
<1>5. ASSUME NEW form \in Form, NEW o, SavedElsewhere(form, o)
      PROVE  GuardedInv'
  BY <1>5 DEF SavedElsewhere, SetStore, stored, GuardedInv
<1>6. CASE LoadKeys \/ LoadView \/ LoadAccount
  <2>1. /\ store # None
        /\ store.of \in Origin
        /\ store.form = "checked" /\ store.kind \in {"view", "account"}
        /\ store.data = written_of(store.kind, store.of)
    BY <1>6 DEF LoadKeys, LoadView, LoadAccount, Inv, TypeOK, StoreInv, FormOf, Form
  <2>2. decode_from_bits(store.data.bits) = store.of.versions
    <3>1. store.data.bits = encode_to_bits(store.of.versions)
      BY <2>1, VersionsKept DEF written_of, view_to_bytes, account_to_text
    <3>2. QED BY <2>1, <3>1, VersionsRoundTrip
  <2>3. Loaded # None => Loaded.of = store.of /\ has_layout(store.of.versions)
    BY <2>1, <2>2 DEF Loaded, read, view_from_bytes, account_from_text, value_of
  <2>4. QED
    BY <1>6, <2>1, <2>3 DEF LoadKeys, LoadView, LoadAccount, SetKeys, SetView,
                            SetAccount, GuardedInv
<1>7. CASE Restart
  BY <1>7 DEF Restart, GuardedInv
<1>8. ASSUME NEW payer, NEW frontier, Pay(payer, frontier)
      PROVE  GuardedInv'
  BY <1>8 DEF Pay, GuardedInv
<1>9. CASE PayPanics
  BY <1>9 DEF PayPanics, GuardedInv
<1>10. QED BY <1>1, <1>2, <1>3, <1>4, <1>5, <1>6, <1>7, <1>8, <1>9 DEF Next

LEMMA OnlyPayPanics ==
    ASSUME Next, ~PayPanics
    PROVE  UNCHANGED panicked
<1>1. CASE \E v \in Toggled : EnableVersion(v) \/ ForceEnableVersion(v) \/ DisableVersion(v)
  BY <1>1 DEF EnableVersion, ForceEnableVersion, DisableVersion, SetFlags
<1>2. ASSUME NEW o, KeysFromSeed(o) \/ ViewFromSeed(o) PROVE UNCHANGED panicked
  BY <1>2 DEF KeysFromSeed, ViewFromSeed, SetKeys, SetView
<1>3. CASE KeysToView \/ KeysToAccount \/ ViewToAccount \/ Restart
  BY <1>3 DEF KeysToView, KeysToAccount, ViewToAccount, SetView, SetAccount, Restart
<1>4. CASE \E form \in Form : SaveKeys(form) \/ SaveView(form) \/ SaveAccount(form)
  BY <1>4 DEF SaveKeys, SaveView, SaveAccount, SetStore
<1>5. ASSUME NEW form, NEW o, SavedElsewhere(form, o) PROVE UNCHANGED panicked
  BY <1>5 DEF SavedElsewhere, SetStore
<1>6. CASE LoadKeys \/ LoadView \/ LoadAccount
  BY <1>6 DEF LoadKeys, LoadView, LoadAccount, SetKeys, SetView, SetAccount
<1>7. ASSUME NEW payer, NEW frontier, Pay(payer, frontier) PROVE UNCHANGED panicked
  BY <1>7 DEF Pay
<1>8. QED BY <1>1, <1>2, <1>3, <1>4, <1>5, <1>6, <1>7 DEF Next

LEMMA GuardedInvariance ==
    ASSUME ~Serde
    PROVE  Spec => []GuardedInv
<1>1. Init => GuardedInv
  BY DEF Init, GuardedInv
<1>2. Inv /\ GuardedInv /\ [Next]_vars => GuardedInv'
  <2>1. ASSUME Inv, GuardedInv, Next PROVE GuardedInv'
    BY <2>1, GuardedStep
  <2>2. ASSUME GuardedInv, UNCHANGED vars PROVE GuardedInv'
    BY <2>2 DEF vars, GuardedInv
  <2>3. QED BY <2>1, <2>2
<1>3. QED BY Invariance, <1>1, <1>2, PTL DEF Spec

\* "broken CamoAccountType1 code: incompatible version accepted" is never said
\* by a build without serde, whatever is read from storage and whoever wrote it.
THEOREM NoPanicWithoutSerde ==
    ASSUME ~Serde, Supported = {1}
    PROVE  Spec => []NeverPanics
<1>1. Init => NeverPanics
  BY DEF Init, NeverPanics
<1>2. Inv /\ GuardedInv /\ NeverPanics /\ [Next]_vars => NeverPanics'
  <2> SUFFICES ASSUME Inv, GuardedInv, NeverPanics, [Next]_vars, ~NeverPanics'
               PROVE  FALSE
    OBVIOUS
  <2>1. PayPanics
    BY OnlyPayPanics DEF NeverPanics, vars
  <2>2. /\ has_layout(account.of.versions)
        /\ account.value.versions = account.of.versions
    BY <2>1, VersionsKept DEF PayPanics, GuardedInv, Inv, OneValuePerOrigin, value_of
  <2>3. highest_supported_version(account.value.versions) = 1
    BY <2>2, LayoutMeansVersionOne
  <2>4. QED BY <2>1, <2>3 DEF PayPanics, ecdh_panics
<1>3. QED BY Invariance, GuardedInvariance, <1>1, <1>2, PTL DEF Spec

\* Without serde, what this release writes is never refused when it is read
\* back, and is the value that was written: from_bytes and from_str look at the
\* same versions as from_seed did.
THEOREM OwnStoreAlwaysReadable ==
    ASSUME ~Serde
    PROVE  Spec => []OwnStoreIsReadable
<1>1. Inv /\ GuardedInv => OwnStoreIsReadable
  <2> SUFFICES ASSUME Inv, GuardedInv, store # None, store.own
               PROVE  read(store) = CASE store.kind = "keys" -> keys_of(store.of)
                                      [] store.kind = "view" -> view_of(store.of)
                                      [] OTHER -> account_of(store.of)
    BY DEF OwnStoreIsReadable
  <2> DEFINE o == store.of
  <2>1. /\ o \in Origin
        /\ store.kind \in {"view", "account"}
        /\ store.data = written_of(store.kind, o)
        /\ has_layout(o.versions)
    BY DEF Inv, GuardedInv, TypeOK, StoreInv, FormOf, Form
  <2>2. CASE store.kind = "view"
    <3>1. store.data = view_to_bytes(view_of(o))
      BY <2>1, <2>2 DEF written_of
    <3>2. decode_from_bits(store.data.bits) = o.versions
      BY <2>1, <3>1, VersionsKept, VersionsRoundTrip DEF view_to_bytes
    <3>3. read(store) = view_of_bytes(store.data)
      BY <2>1, <2>2, <3>2 DEF read, view_from_bytes
    <3>4. QED BY <2>1, <2>2, <3>1, <3>3, FormsRoundTrip
  <2>3. CASE store.kind = "account"
    <3>1. store.data = account_to_text(account_of(o))
      BY <2>1, <2>3 DEF written_of
    <3>2. decode_from_bits(store.data.bits) = o.versions
      BY <2>1, <3>1, VersionsKept, VersionsRoundTrip DEF account_to_text
    <3>3. read(store) = account_of_text(store.data)
      BY <2>1, <2>3, <3>2 DEF read, account_from_text
    <3>4. QED BY <2>1, <2>3, <3>1, <3>3, FormsRoundTrip
  <2>4. QED BY <2>1, <2>2, <2>3
<1>2. QED BY Invariance, GuardedInvariance, <1>1, PTL
=============================================================================
