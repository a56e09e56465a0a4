------------------------------- MODULE Wallet -------------------------------
(***************************************************************************)
(* A program with one wallet: it keeps its key, reads addresses that a     *)
(* person types, and builds a block in steps (block.rs, account.rs,        *)
(* signature.rs, rpc/util.rs).  The fields of a block are public, so any   *)
(* of them may change after the block was signed or its work was done; the *)
(* block may be kept, by serde or as JSON, and read back after a restart.  *)
(***************************************************************************)
EXTENDS Blocks, Addresses

CONSTANTS
    SeedHash,    \* hashes of seeds and indexes, which keys are made from
    NanoText,    \* what may be typed as a `nano_` address
    CamoText,    \* and as a `camo_` address
    Frontier,    \* the newest block of the wallet's account, a hash
    SomeLink,    \* a link that is no account's
    Difficulty,  \* what work has to reach
    Nonce,       \* values of the work field, 0 among them
    MaxEdits,    \* how often fields of blocks are changed, a bound
    MaxSigned    \* how many signatures there are, a bound

ASSUME WalletAssumption ==
    /\ SeedHash \subseteq 0..(2^KeyBits - 1)
    /\ 0 \in Nonce
    /\ MaxEdits \in Nat /\ MaxSigned \in Nat
    /\ \A text \in NanoText \cup CamoText : text \in Seq(ToSet(text))

VARIABLES
    file,    \* the bytes of the wallet's key, in a file
    key,     \* the key in memory, and how it got there
    typed,   \* the last text typed, and what was read of it
    block,   \* the block that is built
    edits,   \* how often fields were changed (history)
    signed,  \* signatures made, with what the block contained then (history)
    worked,  \* what the block's work was done for (history)
    kept,    \* the block that is kept, and the block it was (history)
    panic    \* whether the program has panicked

vars == <<file, key, typed, block, edits, signed, worked, kept, panic>>

-----------------------------------------------------------------------------
(***************************************************************************)
(* Block, whose accounts have three fields each.                           *)
(***************************************************************************)
\* What of a block is hashed or compared as bytes.
as_bytes(b) == [b EXCEPT !.account = b.account.compressed,
                         !.representative = b.representative.compressed]

hash(b) == hash_block(as_bytes(b))

\* Signature::default(): the neutral element, which is of small order, and 0.
\* Nobody signs with it, and so it passes only where no key is needed: always for
\* the neutral element's account, sometimes for another of small order.
DefaultSignature == keyless("neutral", 0)

\* The accounts that no key is needed for; a clamped number is no multiple of the
\* order, so no key is of the neutral element, which is the point 0.
ASSUME KeylessAssumption ==
    /\ "neutral" \in KeylessR /\ Torsion = Cofactor
    /\ DOMAIN SmallKey = {bytes \in 0..(2^KeyBits - 1) : decompress(bytes) \in SmallOrder}
    /\ \A bytes \in DOMAIN SmallKey : SmallKey[bytes] = 0 <=> decompress(bytes) = 0
    /\ \A seed_hash \in SeedHash :
          0 \notin {scalar_from_secret(seed_hash),
                   scalar_from_secret(scalar_from_secret(seed_hash))}

get_signature(b, private_key) ==
    sign_message(hash(b), to_account(private_key).compressed)

\* Accounts are compared by their texts too.
follows_rules(b, previous) ==
    /\ follows_epoch_rules(as_bytes(b), as_bytes(previous))
    /\ b.representative = previous.representative

\* What a signature is about.
Covered(b) ==
    [account |-> b.account.compressed, previous |-> b.previous,
     representative |-> b.representative.compressed, balance |-> b.balance,
     link |-> b.link]

link_as_account(b) == account_from_bytes(b.link)

(***************************************************************************)
(* The forms in which a block is kept.                                     *)
(***************************************************************************)
\* Mutant: the account is written twice.
write_AccountTwice(b, form) ==
    IF form = "json"
    THEN [b EXCEPT !.account = b.account.account,
                   !.representative = b.account.account]
    ELSE [b EXCEPT !.account = serde_of_account(b.account),
                   !.representative = serde_of_account(b.representative)]

\* JSON has the texts of accounts, serde their bytes.
write(b, form) ==
    IF form = "json"
    THEN [b EXCEPT !.account = b.account.account,
                   !.representative = b.representative.account]
    ELSE [b EXCEPT !.account = serde_of_account(b.account),
                   !.representative = serde_of_account(b.representative)]

\* The point of a signature in JSON must not be of small order, or unwrap
\* panics; serde does not look.
read(data, form) ==
    LET account == account_from_str(data.account)
        representative == account_from_str(data.representative)
    IN  IF form = "serde"
        THEN Ok([data EXCEPT !.account = account_of_serde(data.account),
                             !.representative = account_of_serde(data.representative)])
        ELSE IF ~account.ok THEN account
        ELSE IF ~representative.ok THEN representative
        ELSE IF data.signature = DefaultSignature THEN Panic
        ELSE Ok([data EXCEPT !.account = account.value,
                             !.representative = representative.value])

-----------------------------------------------------------------------------
NothingTyped == [as |-> "nothing"]

Init ==
    /\ file = None
    /\ key = [how |-> "none", scalar |-> None]
    /\ typed = NothingTyped
    /\ block = None
    /\ edits = 0
    /\ signed = {}
    /\ worked = None
    /\ kept = None
    /\ panic = FALSE

HasKey == key.scalar # None /\ ~panic

\* Key::from_seed, and its bytes into a file.
MakeKey(seed_hash) ==
    /\ file = None
    /\ file' = scalar_from_secret(seed_hash)
    /\ key' = [how |-> "from_seed", scalar |-> scalar_from_secret(seed_hash)]
    /\ UNCHANGED <<typed, block, edits, signed, worked, kept, panic>>

\* The program ends and starts again.
Restart ==
    /\ file # None
    /\ key' = [how |-> "none", scalar |-> None]
    /\ typed' = NothingTyped
    /\ block' = None
    /\ worked' = None
    /\ panic' = FALSE
    /\ UNCHANGED <<file, edits, signed, kept>>

\* Deserialize, and Scalar::from_canonical_bytes with Key::from_scalar.
LoadKey ==
    /\ key.scalar = None /\ file # None
    /\ from_canonical_bytes(file).ok
    /\ key' = [how |-> "canonical", scalar |-> from_canonical_bytes(file).value]
    /\ UNCHANGED <<file, typed, block, edits, signed, worked, kept, panic>>

\* Key::from([u8; 32]), which is for the bytes of a secret.
LoadKeyAsSecret ==
    /\ key.scalar = None /\ file # None
    /\ key' = [how |-> "secret", scalar |-> scalar_from_secret(file)]
    /\ UNCHANGED <<file, typed, block, edits, signed, worked, kept, panic>>

\* A person types an address.  Bound: before anything is signed or kept.
MayType == HasKey /\ block = None /\ kept = None /\ signed = {}

TypeNano(text) ==
    /\ MayType
    /\ typed' = [as |-> "nano", text |-> text, result |-> account_from_str(text)]
    /\ panic' = (account_from_str(text) = Panic)
    /\ UNCHANGED <<file, key, block, edits, signed, worked, kept>>

TypeCamo(text) ==
    /\ MayType
    /\ typed' = [as |-> "camo", text |-> text, result |-> camo_from_str(text)]
    /\ panic' = (camo_from_str(text) = Panic)
    /\ UNCHANGED <<file, key, block, edits, signed, worked, kept>>

-----------------------------------------------------------------------------
(***************************************************************************)
(* A block for the account that was typed, or to it.                       *)
(***************************************************************************)
Typed == IF typed.as = "nano" /\ typed.result.ok
         THEN {typed.result.value} ELSE {}

\* The wallet's account, as printed or as typed.
OwnAccount ==
    {to_account(key.scalar)} \cup
        {a \in Typed : a.compressed = compress[key.scalar]}

\* The account that was typed may be the one to be paid.
TypedLink == IF Typed = {} THEN SomeLink ELSE typed.result.value.compressed

Previous == {ZeroHash, IF kept = None THEN Frontier ELSE hash(kept.of)}

NewBlock(type, account, previous, representative) ==
    /\ HasKey /\ block = None
    /\ block' = [block_type |-> type, account |-> account, previous |-> previous,
                 representative |-> representative, balance |-> MaxAmount,
                 link |-> TypedLink,
                 signature |-> DefaultSignature, work |-> 0]
    /\ typed' = NothingTyped
    /\ worked' = None
    /\ UNCHANGED <<file, key, edits, signed, kept, panic>>

\* The fields are public.
Edited(b) ==
    {[b EXCEPT !.block_type = type] : type \in {"send", "epoch"}} \cup
    {[b EXCEPT !.account = account] : account \in {b.account, b.representative}} \cup
    {[b EXCEPT !.previous = previous] : previous \in Previous} \cup
    {[b EXCEPT !.representative = b.account]} \cup
    {[b EXCEPT !.balance = balance] : balance \in Amount} \cup
    {[b EXCEPT !.link = link] : link \in {b.link, SomeLink}}

Edit(b) ==
    /\ HasKey /\ edits < MaxEdits
    /\ b # block
    /\ block' = b
    /\ edits' = edits + 1
    /\ UNCHANGED <<file, key, typed, signed, worked, kept, panic>>

\* sign, which is get_signature and set_signature.
Sign ==
    /\ HasKey /\ block # None
    /\ block' = [block EXCEPT !.signature = get_signature(block, key.scalar)]
    /\ signed' = signed \cup {[signature |-> block'.signature, contents |-> Covered(block)]}
    /\ Cardinality(signed') <= MaxSigned
    /\ UNCHANGED <<file, key, typed, edits, worked, kept, panic>>

\* A signature that was made before, for this block or for another.
SetSignature(signature) ==
    /\ HasKey /\ block # None
    /\ block' = [block EXCEPT !.signature = signature]
    /\ UNCHANGED <<file, key, typed, edits, signed, worked, kept, panic>>

\* local_work: some nonce that is enough, if there is one.
LocalWork(difficulty) ==
    LET enough == {work \in Nonce :
                      check_work(work_hash(as_bytes(block)), difficulty, work)}
    IN  /\ HasKey /\ block # None /\ enough # {}
        /\ block' = [block EXCEPT !.work = CHOOSE work \in enough : TRUE]
        /\ worked' = [previous |-> block.previous, account |-> block.account.compressed]
        /\ UNCHANGED <<file, key, typed, edits, signed, kept, panic>>

\* Bound: one block is kept.
Keep(form) ==
    /\ HasKey /\ block # None /\ kept = None
    /\ kept' = [form |-> form, data |-> write(block, form),
                of |-> block, worked |-> worked]
    /\ UNCHANGED <<file, key, typed, block, edits, signed, worked, panic>>

\* No block comes of what cannot be read.
Load ==
    LET result == read(kept.data, kept.form)
    IN  /\ HasKey /\ block = None /\ kept # None
        /\ block' = IF result.ok THEN result.value ELSE None
        /\ worked' = IF result.ok THEN kept.worked ELSE None
        /\ panic' = (result = Panic)
        /\ UNCHANGED <<file, key, typed, edits, signed, kept>>

Next ==
    \/ \E seed_hash \in SeedHash : MakeKey(seed_hash)
    \/ Restart \/ LoadKey \/ LoadKeyAsSecret
    \/ \E text \in NanoText : TypeNano(text)
    \/ \E text \in CamoText : TypeCamo(text)
    \/ /\ HasKey
       /\ \E type \in IF kept = None THEN {"send"} ELSE {"epoch"},
             account \in OwnAccount, previous \in Previous :
             \E representative \in {account} \cup Typed :
                NewBlock(type, account, previous, representative)
    \/ /\ HasKey /\ block # None
       /\ \E b \in Edited(block) : Edit(b)
    \/ Sign
    \/ \E s \in signed : SetSignature(s.signature)
    \/ LocalWork(Difficulty)
    \/ \E form \in {"json", "serde"} : Keep(form)
    \/ Load

Spec == Init /\ [][Next]_vars

-----------------------------------------------------------------------------
(***************************************************************************)
(* Properties.                                                             *)
(***************************************************************************)
IsAccount(a) == /\ a.point \in Point
                /\ a.compressed \in 0..(2^KeyBits - 1)
                /\ decompress(a.compressed) = a.point
                /\ account_decode(a.account) = Ok(a.compressed)

\* Scalars are below the order of the group, and the three public fields of
\* every account stay those of one point (account.rs:85, secrets.rs:129).
TypeOK ==
    /\ file \in Option(0..(Order - 1))
    /\ key.how \in {"none", "from_seed", "canonical", "secret"}
    /\ key.scalar \in Option(0..(Order - 1))
    /\ \A b \in {block} \ {None} :
          /\ IsAccount(b.account) /\ IsAccount(b.representative)
          /\ b.balance \in Amount
          /\ b.work \in Nonce
    /\ edits \in 0..MaxEdits
    /\ panic \in BOOLEAN

\* A text that is accepted is the one that is printed for the account that it
\* gives, and so a slip of the pen pays nobody: all of it, but for the bits of
\* padding in the first character of a `nano_` address, which account_decode
\* does not look at (nanopy.rs:43, addressv1.rs:71).
TextMeansOneAccount ==
    typed # NothingTyped /\ typed.result.ok =>
        LET first == Len(NanoPrefix) + 1
            of    == typed.result.value
        IN  IF typed.as = "nano"
            THEN [typed.text EXCEPT ![first] = @ % 2^FirstCharBits]
                     = link_as_account([link |-> of.compressed]).value.account
            ELSE typed.text = camo_encode(of.bits, of.spend, of.view)

\* A text panics only if a character of more than one byte is where the prefix
\* ends or where the sample ends (nanopy.rs:33, camo/mod.rs:267, 270), and a block
\* in JSON only if it was never signed (util.rs:85).
PanicsAreKnown ==
    panic =>
        \/ /\ block = None /\ typed # NothingTyped
           /\ \/ SplitsAt(typed.text, Len(NanoPrefix))
              \/ SplitsAt(typed.text, Len(CamoPrefix))
              \/ SplitsAt(typed.text, SampleEnd)
           /\ Wide \in ToSet(typed.text)
        \/ /\ kept # None
           /\ kept.form = "json" /\ kept.of.signature = DefaultSignature

\* A block that is not an epoch block passes the check of its signature only if
\* every field that the network looks at is still what the key of its account
\* signed; the type, which is not hashed, may have changed (block.rs:88).  Or it
\* was not signed at all and is of an account whose point is of small order, which
\* account.rs:182 takes and whose signatures nanopy.rs:144 passes without a key.
ValidMeansApproved ==
    (/\ block # None
     /\ block.block_type # "epoch"
     /\ has_valid_signature(as_bytes(block)))
    => \/ \E s \in signed : s.signature = block.signature /\ s.contents = Covered(block)
       \/ block.signature = DefaultSignature /\ block.account.point \in SmallOrder

\* Work that was done for a block stays enough whatever field of it changes
\* later, but for `previous` and, for the first block of an account, the account
\* (block.rs:111, block.rs:168).
WorkSurvivesEdits ==
    (/\ block # None /\ worked # None
     /\ block.previous = worked.previous
     /\ block.previous = ZeroHash => block.account.compressed = worked.account)
    => has_valid_work(as_bytes(block), Difficulty)

\* A block that is kept and read back is the same block, with accounts that have
\* the same text if JSON kept them, unless serde was given bytes that are not
\* those its point compresses to (util.rs:77, account.rs:138).
ReadBackIsSame ==
    kept # None =>
        LET result == read(kept.data, kept.form)
            accounts == {kept.of.account, kept.of.representative}
        IN  result.ok =>
                /\ kept.form = "json" => result.value = kept.of
                /\ {a.compressed : a \in accounts} \cap DOMAIN Alias = {}
                   => as_bytes(result.value) = as_bytes(kept.of)

\* A key that was kept signs for the account it was made for.  Its bytes, taken
\* for those of a secret, are clamped and may be another key; then the check of the
\* signature says so, and nothing passes for the account (account.rs:60).
OwnerCanSign ==
    (/\ HasKey
     /\ block # None /\ block.block_type # "epoch"
     /\ block.account.compressed = compress[file])
    => LET b == [block EXCEPT !.signature = get_signature(block, key.scalar)]
       IN  /\ key.how # "secret" => has_valid_signature(as_bytes(b))
           /\ has_valid_signature(as_bytes(b)) => key.scalar = file

\* An epoch block after the block that was kept, or after what is read back of it,
\* moves no money and changes no representative of the one that was kept.  One that
\* does neither is accepted if both representatives have the same text and what was
\* read back is the same to the network, and may be refused otherwise (block.rs:99).
ReadBack == IF read(kept.data, kept.form).ok THEN {read(kept.data, kept.form).value} ELSE {}

EpochRules ==
    (/\ block # None /\ kept # None
     /\ block.block_type = "epoch" /\ block.previous = hash(kept.of))
    => LET changes == \/ block.balance # kept.of.balance
                      \/ block.representative.compressed # kept.of.representative.compressed
       IN  \A previous \in {kept.of} \cup ReadBack :
              LET texts == block.representative.account = previous.representative.account
              IN  /\ follows_rules(block, previous) => ~changes
                  /\ ~changes /\ texts /\ as_bytes(previous) = as_bytes(kept.of)
                     => follows_rules(block, previous)
=============================================================================
