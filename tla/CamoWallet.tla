----------------------------- MODULE CamoWallet -----------------------------
(***************************************************************************)
(* Programs that use the camo module of nanopyrs: one that holds keys, one *)
(* that holds view keys only, and one that holds an address to pay to.     *)
(* Each holds one value at a time; values are made from a seed or from one *)
(* another, written to storage, lost in a restart, and read back.  What is *)
(* stored may come from a later release, which supports more versions.     *)
(*                                                                         *)
(* Every value remembers what it is of: the seed, the index and the        *)
(* versions it was first made with.                                        *)
(***************************************************************************)
EXTENDS CamoKeys, Integers

CONSTANTS
    Seed,              \* master seeds of recipients
    Index,             \* the accounts of a seed
    Toggled,           \* the versions that programs switch on and off
    Elsewhere,         \* the versions that values of a later release signal
    Serde,             \* whether the crate is built with its feature `serde`
    Payer,             \* seeds of those who pay
    Frontier,          \* hashes of their latest blocks
    MaxPayments        \* bound on the payments that are made

ASSUME WalletAssumption ==
    /\ Toggled \subseteq Version
    /\ Elsewhere \subseteq SUBSET Version
    /\ Serde \in BOOLEAN
    /\ MaxPayments \in Nat

VARIABLES
    flags,     \* the CamoVersions a program is putting together
    keys,      \* Option<CamoKeys> of the wallet
    view,      \* Option<CamoViewKeys> of the watcher
    account,   \* Option<CamoAccount> of the payer
    store,     \* the value in storage
    payments,  \* what payers have sent
    panicked   \* has a program panicked?

vars == <<flags, keys, view, account, store, payments, panicked>>

Origin == [seed : Seed, i : Index, versions : SUBSET Version]
value_of(origin, x) == [of |-> origin, value |-> x]

Form == {"checked", "serde"}
stored(kind, form, origin, data, own) ==
    [kind |-> kind, form |-> form, of |-> origin, data |-> data, own |-> own]

\* `serde` needs its feature; keys have no other form.
FormOf(kind) ==
    {form \in Form : /\ form = "serde" => Serde
                     /\ kind = "keys" => form = "serde"}

Init ==
    /\ flags = empty
    /\ keys = None
    /\ view = None
    /\ account = None
    /\ store = None
    /\ payments = {}
    /\ panicked = FALSE

-----------------------------------------------------------------------------
SetFlags(versions) ==
    /\ flags' = versions
    /\ UNCHANGED <<keys, view, account, store, payments, panicked>>

EnableVersion(v) == SetFlags(enable_version(flags, v))
ForceEnableVersion(v) == SetFlags(force_enable_version(flags, v))
DisableVersion(v) == SetFlags(disable_version(flags, v))

SetKeys(x) ==
    /\ keys' = x
    /\ UNCHANGED <<flags, view, account, store, payments, panicked>>
SetView(x) ==
    /\ view' = x
    /\ UNCHANGED <<flags, keys, account, store, payments, panicked>>
SetAccount(x) ==
    /\ account' = x
    /\ UNCHANGED <<flags, keys, view, store, payments, panicked>>

\* Mutant: any signalled versions will do.
KeysFromSeed_Unguarded(origin) ==
    SetKeys(value_of(origin, keys_from_seed(origin.seed, origin.i, origin.versions)))

\* CamoKeys::from_seed.
KeysFromSeed(origin) ==
    SetKeys(IF has_layout(origin.versions)
            THEN value_of(origin, keys_from_seed(origin.seed, origin.i, origin.versions))
            ELSE None)

\* CamoViewKeys::from_seed, with what the wallet hands to the watcher.
ViewFromSeed(origin) ==
    SetView(IF has_layout(origin.versions)
            THEN value_of(origin, view_from_seed(get_camo_view_seed(origin.seed),
                                                 master_spend(origin.seed),
                                                 origin.i, origin.versions))
            ELSE None)

KeysToView == keys # None /\ SetView(value_of(keys.of, to_view_keys(keys.value)))

KeysToAccount ==
    keys # None /\ SetAccount(value_of(keys.of, keys_to_account(keys.value)))

ViewToAccount ==
    view # None /\ SetAccount(value_of(view.of, view_to_account(view.value)))

-----------------------------------------------------------------------------
(***************************************************************************)
(* Storage holds one value at a time.                                      *)
(***************************************************************************)
SetStore(s) ==
    /\ store' = s
    /\ UNCHANGED <<flags, keys, view, account, payments, panicked>>

SaveKeys(form) ==
    /\ keys # None
    /\ form \in FormOf("keys")
    /\ SetStore(stored("keys", form, keys.of, keys_to_serde(keys.value), TRUE))

SaveView(form) ==
    /\ view # None
    /\ form \in FormOf("view")
    /\ SetStore(stored("view", form, view.of, view_to_bytes(view.value), TRUE))

SaveAccount(form) ==
    /\ account # None
    /\ form \in FormOf("account")
    /\ SetStore(stored("account", form, account.of, account_to_text(account.value), TRUE))

\* A release that supports more versions writes the same formats.
SavedElsewhere(form, origin) ==
    LET made == keys_from_seed(origin.seed, origin.i, origin.versions) IN
    \/ /\ form \in FormOf("keys")
       /\ SetStore(stored("keys", form, origin, keys_to_serde(made), FALSE))
    \/ /\ form \in FormOf("view")
       /\ SetStore(stored("view", form, origin, view_to_bytes(to_view_keys(made)), FALSE))
    \/ /\ form \in FormOf("account")
       /\ SetStore(stored("account", form, origin,
                          account_to_text(keys_to_account(made)), FALSE))

\* Reading back: what is read of a value, None if it is refused.
read(s) ==
    CASE s.kind = "keys" -> keys_of_serde(s.data)
      [] s.kind = "view" -> IF s.form = "serde" THEN view_of_bytes(s.data)
                                                ELSE view_from_bytes(s.data)
      [] OTHER -> IF s.form = "serde" THEN account_of_text(s.data)
                                      ELSE account_from_text(s.data)

Loaded == IF read(store) = None THEN None ELSE value_of(store.of, read(store))

LoadKeys == store # None /\ store.kind = "keys" /\ SetKeys(Loaded)
LoadView == store # None /\ store.kind = "view" /\ SetView(Loaded)
LoadAccount == store # None /\ store.kind = "account" /\ SetAccount(Loaded)

\* Memory is lost, storage and the ledger are not.
Restart ==
    /\ flags' = empty
    /\ keys' = None
    /\ view' = None
    /\ account' = None
    /\ UNCHANGED <<store, payments, panicked>>

-----------------------------------------------------------------------------
payer_key(payer) == get_account_scalar(payer, 0)

\* The sender publishes the notification as its documentation asks: a send to
\* `recipient` with `representative_payload` as representative.
notification_block(sender_key, notification) ==
    [account        |-> to_account(sender_key),
     link           |-> notification.recipient,
     representative |-> notification.representative_payload]

payment(origin, to, payer, frontier) ==
    LET secret == sender_secret(to, payer_key(payer), frontier)
        notification == sender_notification(to, payer_key(payer), frontier)
    IN  [of           |-> origin,
         payer        |-> payer,
         frontier     |-> frontier,
         notification |-> notification,
         block        |-> notification_block(payer_key(payer), notification),
         account      |-> derive_account(to, secret)]

\* sender_ecdh, and the payment made with what it returns.
Pay(payer, frontier) ==
    /\ account # None
    /\ ~ecdh_panics(account.value)
    /\ Cardinality(payments) < MaxPayments
    /\ payments' = payments \cup {payment(account.of, account.value, payer, frontier)}
    /\ UNCHANGED <<flags, keys, view, account, store, panicked>>

PayPanics ==
    /\ account # None
    /\ ecdh_panics(account.value)
    /\ panicked' = TRUE
    /\ UNCHANGED <<flags, keys, view, account, store, payments>>

Next ==
    /\ ~panicked
    /\ \/ \E v \in Toggled :
             EnableVersion(v) \/ ForceEnableVersion(v) \/ DisableVersion(v)
       \/ \E seed \in Seed, i \in Index :
             LET origin == [seed |-> seed, i |-> i, versions |-> flags]
             IN  KeysFromSeed(origin) \/ ViewFromSeed(origin)
       \/ KeysToView \/ KeysToAccount \/ ViewToAccount
       \/ \E form \in Form : SaveKeys(form) \/ SaveView(form) \/ SaveAccount(form)
       \/ \E form \in Form, seed \in Seed, i \in Index, versions \in Elsewhere :
             SavedElsewhere(form, [seed |-> seed, i |-> i, versions |-> versions])
       \/ LoadKeys \/ LoadView \/ LoadAccount
       \/ Restart
       \/ \E payer \in Payer, frontier \in Frontier : Pay(payer, frontier)
       \/ PayPanics

Spec == Init /\ [][Next]_vars

-----------------------------------------------------------------------------
(***************************************************************************)
(* Properties.                                                             *)
(***************************************************************************)
keys_of(origin) == keys_from_seed(origin.seed, origin.i, origin.versions)
view_of(origin) == to_view_keys(keys_of(origin))
account_of(origin) == keys_to_account(keys_of(origin))

\* Whichever way a value was made (from the seed, from the view seed and the
\* master spend key, by conversion, from bytes, text or serde, by this release
\* or a later one), it is the one value there is of its seed, index and versions.
OneValuePerOrigin ==
    /\ keys # None => keys = value_of(keys.of, keys_of(keys.of))
    /\ view # None => view = value_of(view.of, view_of(view.of))
    /\ account # None => account = value_of(account.of, account_of(account.of))

SameAccount(p, x) == p.of.seed = x.of.seed /\ p.of.i = x.of.i

\* The recipient's keys and the watcher's view keys, whatever route they came by
\* and whatever versions they signal, find the payment's one-time account from
\* its notification block alone; and that block is sent to the account they watch.
PaymentFound ==
    \A p \in payments :
       /\ keys # None /\ SameAccount(p, keys) =>
             /\ to_account(derive_key(keys.value,
                             receiver_ecdh(keys.value, from_v1(p.block)))) = p.account
             /\ to_account(signer_key(keys.value)) = p.block.link
       /\ view # None /\ SameAccount(p, view) =>
             /\ derive_account(view.value,
                               receiver_ecdh(view.value, from_v1(p.block))) = p.account
             /\ signer_account(view.value) = p.block.link

\* "`sender_frontier` is used to ensure that all generated keys are unique
\* per-camo-payment": two payments to one account on the ledger are one payment.
OneTimeAccounts ==
    \A p, q \in payments :
       p.account = q.account =>
          SameAccount(p, q) /\ p.payer = q.payer /\ p.frontier = q.frontier

\* What this release has stored it can read back, and reads what was stored.
OwnStoreIsReadable ==
    store # None /\ store.own =>
       read(store) = CASE store.kind = "keys" -> keys_of(store.of)
                       [] store.kind = "view" -> view_of(store.of)
                       [] OTHER -> account_of(store.of)

\* The assertion of create_notification, "broken CamoAccountType1 code:
\* incompatible version accepted": no account it is called on is incompatible.
NeverPanics == ~panicked

\* The documentation of NotificationV1's `recipient`: "Send a small amount of Nano
\* to this account. [...] this account is publically linked to the camo account."
\* A notification that is read from its block has the recipient it was made with.
RecipientReadBack ==
    \A p \in payments : from_v1(p.block).recipient = p.notification.recipient

TypeOK ==
    /\ flags \subseteq Version
    /\ keys # None => keys.of \in Origin
    /\ view # None => view.of \in Origin
    /\ account # None => account.of \in Origin
    /\ store # None => /\ store.kind \in {"keys", "view", "account"}
                       /\ store.form \in FormOf(store.kind)
                       /\ store.of \in Origin
                       /\ store.own \in BOOLEAN
    /\ \A p \in payments : p.of \in Origin /\ p.payer \in Payer /\ p.frontier \in Frontier
    /\ panicked \in BOOLEAN
=============================================================================
