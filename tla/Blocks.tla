------------------------------- MODULE Blocks -------------------------------
(***************************************************************************)
(* Nano blocks as src/src/block.rs and src/src/nanopy.rs see them.         *)
(*                                                                         *)
(* Hashes and signatures are symbolic: a hash IS the tuple of the fields   *)
(* it covers (no two contents collide), a signature IS the pair of its     *)
(* signer and of the message signed (nobody can make one without the key), *)
(* or one that needs no key, which is of use to no account but those whose *)
(* key is a point of small order.  An account stands for its key pair.     *)
(***************************************************************************)
EXTENDS Naturals, Sequences

CONSTANTS
    Account,            \* accounts: address, public key and private key
    GenesisAccount,     \* signs v1 epoch blocks, and epochs of unknown version
    V2EpochSigner,      \* signs v2 epoch blocks
    ZeroHash,           \* [0; 32]: the `previous` of an account's first block
    V2Links,            \* the links whose byte 7 is "2"
    MaxAmount,          \* u128::MAX
    MaxWork,            \* the largest proof-of-work value, u64::MAX
    blake2b_work(_, _), \* the value of a nonce for a hash
    Torsion,            \* how many points are of small order, 8: a cyclic group
    SmallKey,           \* accounts of such points, each with its multiple there
    KeylessR,           \* first halves of signatures that need no key
    challenge(_, _, _)  \* blake2b512 of first half, account and message

ASSUME AmountAssumption == MaxAmount \in Nat /\ MaxWork \in Nat
ASSUME SignerAssumption == GenesisAccount \in Account /\ V2EpochSigner \in Account
ASSUME TorsionAssumption == /\ Torsion \in Nat \ {0}
                            /\ SmallKey \in [DOMAIN SmallKey -> 0..(Torsion - 1)]

Amount == 0..MaxAmount

StateTypes == {"change", "send", "receive", "epoch"}

\* A legacy block may have the name of a state subtype, and is not of it.
LegacyOf == [change |-> "legacy_change", send  |-> "legacy_send",
             receive |-> "legacy_receive", epoch |-> "legacy_epoch"]
Legacy(type) == IF type \in StateTypes THEN LegacyOf[type] ELSE type
type_string(block_type) ==
    IF \E type \in StateTypes : LegacyOf[type] = block_type
    THEN CHOOSE type \in StateTypes : LegacyOf[type] = block_type
    ELSE block_type

from_subtype_string(value) == IF value \in StateTypes THEN value ELSE "none"

\* `BlockType::is_legacy`: every type that is not a state subtype.
is_legacy(block_type) == block_type \notin StateTypes
is_state(block_type) == ~is_legacy(block_type)

-----------------------------------------------------------------------------
(***************************************************************************)
(* Hash: the type, the signature and the work are not covered.             *)
(***************************************************************************)
\* Mutant: the representative is left out.
hash_block_NoRepresentative(b) == <<b.account, b.previous, b.balance, b.link>>

hash_block(b) == <<b.account, b.previous, b.representative, b.balance, b.link>>

\* Mutant: the representative's key instead of the account's.
work_hash_Representative(b) ==
    IF b.previous = ZeroHash THEN b.representative ELSE b.previous

work_hash(b) == IF b.previous = ZeroHash THEN b.account ELSE b.previous

-----------------------------------------------------------------------------
(***************************************************************************)
(* Signatures.                                                             *)
(***************************************************************************)
sign_message(message, key) == [signer |-> key, message |-> message]

\* A signature whose s * G - R is of small order, as its multiple: whoever
\* chooses s can compute R, and the neutral point and 0 are one.
keyless(R, rest) == [R |-> R, rest |-> rest]

\* s * G = R + h * A, where A is of small order.
IsKeyless(message, signature, account) ==
    /\ account \in DOMAIN SmallKey
    /\ \E R \in KeylessR :
          signature = keyless(R, (challenge(R, account, message) * SmallKey[account])
                                    % Torsion)

\* Mutant: the message is left out of the challenge.
is_valid_signature_AnyMessage(message, signature, account) ==
    \/ "signer" \in DOMAIN signature /\ signature.signer = account
    \/ IsKeyless(message, signature, account)

is_valid_signature(message, signature, account) ==
    \/ signature = sign_message(message, account)
    \/ IsKeyless(message, signature, account)

sign(b, key) == [b EXCEPT !.signature = sign_message(hash_block(b), key)]

\* Whose signature a block needs.  The v1 signer is the genesis account too.
Signer(b) ==
    IF b.block_type # "epoch" THEN b.account
    ELSE IF b.link \in V2Links THEN V2EpochSigner
    ELSE GenesisAccount

has_valid_signature(b) ==
    is_valid_signature(hash_block(b), b.signature, Signer(b))

\* Mutant: the balance may change.
follows_epoch_rules_AnyBalance(b, previous) ==
    /\ b.block_type = "epoch"
    /\ b.representative = previous.representative
    /\ b.previous = hash_block(previous)

follows_epoch_rules(b, previous) ==
    /\ b.block_type = "epoch"
    /\ b.balance = previous.balance
    /\ b.representative = previous.representative
    /\ b.previous = hash_block(previous)

-----------------------------------------------------------------------------
(***************************************************************************)
(* Proof of work.                                                          *)
(***************************************************************************)
check_work(hash, difficulty, work) == blake2b_work(hash, work) >= difficulty

has_valid_work(b, difficulty) ==
    \/ b.block_type = "epoch"
    \/ check_work(work_hash(b), difficulty, b.work)
=============================================================================
