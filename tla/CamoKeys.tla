------------------------------ MODULE CamoKeys ------------------------------
(***************************************************************************)
(* Keys, view keys and addresses of CAMO accounts and what is derived from *)
(* them (src/src/camo/addressv1.rs, mod.rs, notification.rs).              *)
(*                                                                         *)
(* A scalar is a sum of hashes, as the set of its summands; a point is a   *)
(* scalar times the generator.  Neither a hash nor a discrete logarithm    *)
(* can be inverted, and distinct inputs have distinct hashes.              *)
(***************************************************************************)
EXTENDS CamoVersions

\* blake2b of its tagged inputs, as a seed or as a scalar of one summand.
blake2b(tag, inputs) == [tag |-> tag, inputs |-> inputs]
blake2b_scalar(tag, inputs) == {blake2b(tag, inputs)}

plus(scalar_1, scalar_2) == scalar_1 \cup scalar_2
times_G(scalar) == [times_G |-> scalar]
add_points(point_1, point_2) == times_G(plus(point_1.times_G, point_2.times_G))

\* Diffie-Hellman: the product of the two scalars, whoever knows which.
ecdh(scalar, point) == [product |-> {scalar, point.times_G}]

get_camo_spend_seed(master_seed) == blake2b("category 0", <<master_seed>>)
get_camo_view_seed(master_seed) == blake2b("category 1", <<master_seed>>)
get_account_scalar(seed, i) == blake2b_scalar("account", <<seed, i>>)

\* Two scalars from the two halves of one hash.
partial_spend_key(view_seed, i) == blake2b_scalar("first half", <<view_seed, i>>)
partial_view_key(view_seed, i) == blake2b_scalar("second half", <<view_seed, i>>)

\* A `nano_` account is its public point, a key its scalar.
to_account(key) == times_G(key)

-----------------------------------------------------------------------------
(***************************************************************************)
(* CamoKeys, CamoViewKeys, CamoAccount.                                    *)
(***************************************************************************)
\* The guard of both from_seed, from_bytes and from_str: version 2 has the
\* layout of version 1, should it ever be supported.
has_layout(versions) == highest_supported_version(versions) \in {1, 2}

\* Mutant: every index of a seed has the same keys.
keys_from_seed_NoIndex(seed, i, versions) ==
    [versions      |-> versions,
     private_spend |-> plus(get_account_scalar(get_camo_spend_seed(seed), 0),
                            partial_spend_key(get_camo_view_seed(seed), 0)),
     private_view  |-> partial_view_key(get_camo_view_seed(seed), 0)]

keys_from_seed(seed, i, versions) ==
    [versions      |-> versions,
     private_spend |-> plus(get_account_scalar(get_camo_spend_seed(seed), 0),
                            partial_spend_key(get_camo_view_seed(seed), i)),
     private_view  |-> partial_view_key(get_camo_view_seed(seed), i)]

\* The wallet's public master spend key, which view keys are made with.
master_spend(seed) == times_G(get_account_scalar(get_camo_spend_seed(seed), 0))

\* Mutant: the halves of the hash are mixed up.
view_from_seed_Swapped(view_seed, master, i, versions) ==
    [versions        |-> versions,
     point_spend_key |-> add_points(master, times_G(partial_view_key(view_seed, i))),
     private_view    |-> partial_spend_key(view_seed, i)]

view_from_seed(view_seed, master, i, versions) ==
    [versions        |-> versions,
     point_spend_key |-> add_points(master, times_G(partial_spend_key(view_seed, i))),
     private_view    |-> partial_view_key(view_seed, i)]

to_view_keys(keys) ==
    [versions        |-> keys.versions,
     point_spend_key |-> times_G(keys.private_spend),
     private_view    |-> keys.private_view]

points_to_account(versions, spend, view) ==
    [versions |-> versions, point_spend_key |-> spend, point_view_key |-> view]

keys_to_account(keys) ==
    points_to_account(keys.versions, times_G(keys.private_spend),
                      times_G(keys.private_view))

view_to_account(view) ==
    points_to_account(view.versions, view.point_spend_key,
                      times_G(view.private_view))

-----------------------------------------------------------------------------
(***************************************************************************)
(* The forms in which they are stored or handed on: 65 bytes of view keys, *)
(* the text of an address, and what serde writes.                          *)
(***************************************************************************)
view_to_bytes(view) ==
    [bits |-> encode_to_bits(view.versions), spend |-> view.point_spend_key,
     view |-> view.private_view]

view_of_bytes(bytes) ==
    [versions        |-> decode_from_bits(bytes.bits),
     point_spend_key |-> bytes.spend,
     private_view    |-> bytes.view]

\* Mutant: the versions are not looked at.
view_from_bytes_Unchecked(bytes) == view_of_bytes(bytes)

view_from_bytes(bytes) ==
    IF has_layout(decode_from_bits(bytes.bits)) THEN view_of_bytes(bytes) ELSE None

\* Derived: the keys as they are; CamoVersions as a byte.
keys_to_serde(keys) ==
    [bits |-> encode_to_bits(keys.versions), spend |-> keys.private_spend,
     view |-> keys.private_view]

keys_of_serde(data) ==
    [versions      |-> decode_from_bits(data.bits),
     private_spend |-> data.spend,
     private_view  |-> data.view]

account_to_text(account) ==
    [bits |-> encode_to_bits(account.versions),
     spend |-> account.point_spend_key, view |-> account.point_view_key]

account_of_text(text) ==
    points_to_account(decode_from_bits(text.bits), text.spend, text.view)

account_from_text(text) ==
    IF has_layout(decode_from_bits(text.bits)) THEN account_of_text(text) ELSE None

-----------------------------------------------------------------------------
(***************************************************************************)
(* Payments.                                                               *)
(***************************************************************************)
\* Keys, view keys and accounts all name the account that is notified.
signer_account(x) == x.point_spend_key
signer_key(keys) == keys.private_spend

create_v1(recipient, representative_payload) ==
    [recipient |-> recipient, representative_payload |-> representative_payload]

\* What a notification is read from: account and representative of a block.
from_v1(block) == create_v1(block.account, block.representative)

\* Mutant: the frontier is not hashed.
payment_scalar_NoFrontier(account, sender_key, sender_frontier) ==
    blake2b_scalar("payment", <<sender_key, account.point_spend_key>>)

\* The random scalar of a payment is the sender's to recompute.
payment_scalar(account, sender_key, sender_frontier) ==
    blake2b_scalar("payment",
                   <<sender_key, sender_frontier, account.point_spend_key>>)

\* Mutant: the payload is made from the recipient's view key.
create_notification_WrongBase(account, r) ==
    create_v1(signer_account(account), times_G(plus(r, account.point_view_key.times_G)))

create_notification(account, r) == create_v1(signer_account(account), times_G(r))

sender_secret(account, sender_key, sender_frontier) ==
    ecdh(payment_scalar(account, sender_key, sender_frontier),
         account.point_view_key)
sender_notification(account, sender_key, sender_frontier) ==
    create_notification(account,
                        payment_scalar(account, sender_key, sender_frontier))

\* `panic!("broken CamoAccountType1 code: incompatible version accepted")`
ecdh_panics(account) == highest_supported_version(account.versions) # 1

\* Of keys and of view keys.
receiver_ecdh(x, notification) ==
    ecdh(x.private_view, notification.representative_payload)

derive_key(keys, secret) == plus(keys.private_spend, get_account_scalar(secret, 0))

\* Of view keys and of accounts.
derive_account(x, secret) ==
    add_points(x.point_spend_key, times_G(get_account_scalar(secret, 0)))
=============================================================================
