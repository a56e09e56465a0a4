# nanopyrs in TLA+

nanopyrs is a Rust library for the Nano currency and for the CAMO protocol: blocks, keys and
addresses, proof of work, and a client of a node's RPC. This directory holds TLA+ modules that
model it, TLC configurations that check them on small instances, and proofs that TLAPS checks.
Paths below are relative to `src/src/` unless they begin with `src/`.

    tlasany M.tla                         # parse
    tlc -config RpcHonest.cfg MCRpc.tla   # check a run
    tlapm RpcClientProofs.tla             # check the proofs of a module

## 1. Inventory

| Part | State it keeps | Operations | Talks to |
|---|---|---|---|
| Blocks (`block.rs`, `nanopy.rs`) | a block's fields, public and mutable | hash, sign, has_valid_signature, follows_epoch_rules, work_hash, has_valid_work, setters | accounts, proof of work |
| Local proof of work (`nanopy.rs:64-90`) | a 40-byte buffer, an index, for the time of the call | get_local_work, check_work | blocks |
| RPC codec (`rpc/encode.rs`, `rpc/parse.rs`, `rpc/util.rs`) | none | a request and a parser per method | blocks, accounts |
| RPC client (`rpc/debug.rs`, `rpc/mod.rs`) | url, HTTP client, proxy (stored, never used) | twelve methods, `command`, `_raw_request`, clone | codec; a node over HTTP |
| Node (not in the repository) | a ledger: one chain per account | answers requests | many clients |
| CAMO versions (`camo/version.rs`) | eight flags | enable, disable, signals, supports, highest, bits | constants |
| CAMO keys and addresses (`camo/mod.rs`, `camo/addressv1.rs`) | scalars and points | from_seed, conversions between keys, view keys and account, sender_ecdh, receiver_ecdh, derive | versions, accounts, hashes |
| CAMO notifications (`camo/notification.rs`) | recipient, payload | create_v1, from a block | CAMO addresses, blocks |
| Accounts and keys (`account.rs`, `hashes.rs`) | a key, or a point and its text | from_seed, sign, parse, print | address text |
| Address text (`base32.rs`, `nanopy.rs:16-51`) | none | encode, decode | accounts |
| Signatures, scalars, secrets | bytes that are zeroed when dropped | conversions | everything |

What is hard, and where:

* **Concurrency.** The library has no threads of its own. A client is cloned and used from many
  tasks, each call awaits twice (`rpc/debug.rs:76-82`), other wallets publish to the same ledger,
  and what a call returns is read after the ledger has moved on.
* **Failure.** A request may be lost, or handled with its answer lost, or handled long after the
  caller was told `ReqwestError`. There is no timeout and no retry: the application calls again.
* **A node that is not trusted.** The client checks signatures, the links of a history, the hash of
  a published block and the value of generated work; it must get those checks right, entry by entry.
* **Two blocks, one payment.** A CAMO payment is a notification and a send, on accounts that other
  devices of the sender use too; a crash between them leaves money where nobody was told to look.
* **Public fields.** A block may change after it was signed or its work was done; an account is a text,
  bytes and a point, and each form of storage carries another of them.
* **Boundaries.** Sums of balances in 128 bits, a nonce that is counted up in one buffer with the
  hash, conversions that are unwrapped, texts that are sliced by bytes, a first character of an
  address that is mostly padding, scalars that are clamped, reduced or taken as they are.

What makes each part correct:

* *Blocks*: a signature is of the hashed fields and by the account that must sign.
* *Local work*: the work returned is valid for the hash asked for; a search that can succeed does.
* *Codec and client*: a returned value was true of one ledger during the call and each entry is
  about the item asked for; an honest answer is accepted; a dishonest one never passes as verified;
  a fork is never reported as published twice; every call ends.
* *CAMO*: there is one value per seed, index and versions, whichever way it is made; sender,
  receiver and watcher derive the same account, another one for every payment; only supported
  versions reach the code that panics on others; a payment is received once, by its addressee, and
  no crash, race or restart between its two blocks loses it.
* *Addresses and keys*: a text that is accepted is the one printed for the account it gives; a key that
  was kept signs for its account.
* *A block that is changed, kept and read back*: a signature that passes was made for what the block
  says now, and work stays enough as long as what it was done for stays.

## 2. Modules

| Module | Models | Notes |
|---|---|---|
| `Blocks` | block.rs, nanopy.rs | functions |
| `RpcCodec` | rpc/encode.rs, parse.rs, util.rs | functions, EXTENDS Blocks |
| `NanoNode` | the node (external) | functions of a ledger, EXTENDS RpcCodec |
| `RpcClient` | rpc/debug.rs, mod.rs and the environment | state machine, EXTENDS NanoNode |
| `RpcClientProofs`, `RpcAnswerProofs` | | theorems about RpcClient: what no node can do, and what an honest one's answers become |
| `SequenceLemmas` | | induction over natural numbers, and what FlattenSeq, SetToSeq and FoldLeft return |
| `MCRpc` | | instances of RpcClient for TLC |
| `LocalWork` | nanopy.rs get_local_work | state machine |
| `LocalWorkProofs`, `MCLocalWork` | | its theorems and its instance |
| `CamoVersions` | camo/version.rs | functions |
| `CamoKeys` | camo/addressv1.rs, mod.rs, notification.rs, hashes.rs | functions, EXTENDS CamoVersions |
| `CamoWallet` | programs that call the camo module | state machine, EXTENDS CamoKeys |
| `CamoWalletProofs`, `MCCamo` | | its theorems and its instances |
| `PaymentService` | what payments to CAMO accounts promise | abstract, two variables |
| `CamoPayment` | payer and recipient using addressv1.rs and notification.rs over a ledger | state machine, EXTENDS CamoKeys; implements `PaymentService` |
| `CamoPaymentProofs`, `MCCamoPayment` | | its theorems, the refinement among them, and its instance |
| `Addresses` | base32.rs, nanopy.rs:16-51, account.rs, secrets.rs, address texts of camo/ | functions, EXTENDS CamoVersions |
| `Wallet` | a program that uses block.rs, account.rs, signature.rs | state machine, EXTENDS Blocks and Addresses |
| `AddressProofs` | | what the functions of Addresses compute, for every width |
| `WalletProofs`, `MCWallet` | | theorems about Wallet and its instance |

### Blocks, RpcCodec

A hash *is* the tuple of the fields it covers and a signature *is* the pair of signer and message,
so hashes do not collide and signatures are not forged; what the fields cover (not the type, not the
work) is the code's. The exception is an account whose point is of small order, which is accepted as any
other (`account.rs:182-195`) and whose key is nobody's: `s*G == R + h*A` (`nanopy.rs:144`) then holds for an R
that is made from s, if the challenge h meets the small order of A. Such a signature is `keyless`, `IsKeyless` is when it
is valid, and `Signature::default()` (the neutral point and 0) is one: it is valid on any block of the account of the neutral
point. `Result` is a record with `ok`; a loop with `?` is `Collect`, which returns the
first error, after all entries before it. A parser tests things in the order the code does, and the
two places where the code pushes an element and then goes on to parse it all the same
(`parse.rs:69-72`, `172-174`) push twice here too. JSON is a function or a sequence; `Null` stands
for an absent key, `null` and a value of the wrong kind; `Malformed` for a scalar that does not
parse; `BadPoint` for a signature of the right length whose first half is no curve point or one of small order,
which panics (`util.rs:85-87`, `lib.rs:38-46`); `SplitText` for an address of the right length with a character across its fifth
byte, which panics too (`nanopy.rs:33`). A legacy block's type is one of the names `legacy_...` that
`type_string` writes, which depend on the state type that goes with them. Hex is compared with its case where it is a key (`blocks_info`).

### NanoNode

The ledger is a sequence of blocks per account. `Accepts` is what a node checks before it takes a
block: signature, `previous` is the frontier, and the rules of the subtype. Answers have the shapes
of the parsers' own tests: `account_history` writes the other party into the `account` of a send
and the signer into that of an epoch block, and `blocks_info` leaves unknown hashes out or null.
Legacy blocks are answered without the fields only state blocks have.

### RpcClient

| Action | Code |
|---|---|
| `ReturnAtOnce` | the early returns: an empty list, a legacy block to publish |
| `Send` | `_raw_request` up to its first await (`debug.rs:71-76`) |
| `NodeHandles`, `NodeErrs`, `NodeLies` | the node answers from its ledger, with an error, with anything in `Lie` |
| `Deliver` | the second await, the parser, `map_response!` (`debug.rs:81-95` and each method) |
| `ConnectionFails` | `map_err(ReqwestError)` on either await; the request may stay `adrift` |
| `NodeHandlesLate` | a request whose caller has given up reaches the node |
| `OthersPublish` | another wallet's block |

`window[c]` is a history variable: the ledgers there were between the call and its return. A late
request is kept in `adrift` only if it is a `process`; any other would change nothing. `command` is a method like the others whose
arguments the caller chooses; a program that sets `action` among them overrides nothing, as the code
inserts the action last. It is not asked for `account_history` in the instances, because the model's
node answers a history with what `encode_account_history` always sets. A caller makes
any number of calls, so retries, and a retry that races its first attempt, are behaviours of the model.

### LocalWork

The buffer is one function from positions to bytes: the nonce, the least significant byte first, and
then the hash. `Found`, `NotFound` are the head of the outer loop, `CountUp` one iteration of the
inner one, `Overrun` the index past the buffer. `good`, chosen in `Init` and never changed, is the
set of buffers whose hash is large enough: it stands for blake2b and the difficulty together.

### CamoVersions, CamoKeys

The eight flags are the set of versions that are on; the byte is a number and its bits are computed,
and `BitsAssumption` (evaluated by TLC for all 256 bytes) says that they are inverse. A scalar is the
set of the hashes it is a sum of, a point is `[times_G |-> scalar]`, and Diffie-Hellman's product is the
set of its two factors: so sums and products commute, as on the curve, and nothing else is equal.
`has_layout` is the guard that `from_seed` (twice), `try_from` and `from_str` share: a highest
supported version of 1 *or 2*.

### CamoWallet

| Action | Code |
|---|---|
| `EnableVersion`, `ForceEnableVersion`, `DisableVersion` | `version.rs:177-194` |
| `KeysFromSeed`, `ViewFromSeed` | `mod.rs:50-57`, `112-124` with their guards |
| `KeysToView`, `KeysToAccount`, `ViewToAccount` | `mod.rs:198-204`, `285-298` |
| `SaveView`, `SaveAccount`, `SaveKeys` | `to_bytes`, `Display`, `Serialize` |
| `LoadView`, `LoadAccount`, `LoadKeys` | `try_from` (`mod.rs:182-197`) and `from_str` (`260-280`), which look at the versions; `Deserialize`, which does not |
| `SavedElsewhere` | (external) a program built with a release that supports more versions, the same formats |
| `Restart` | (external) memory is lost |
| `Pay`, `PayPanics` | `sender_ecdh` with `create_notification` (`addressv1.rs:307-331`), and `derive_account` |

Each value carries as `of` the seed, index and versions it was first made with (a history component:
no guard reads it). A payment carries the notification block that the documentation of `NotificationV1`
asks the sender to publish; the receiver's functions are applied to that block in `PaymentFound`, so
no action is needed for them, as they change nothing. A panic ends the program: hence no deadlock
check in the runs with serde.

### PaymentService, CamoPayment

`PaymentService` has two sets: the payments sent and those received. A payment is sent once, and
received once, by its addressee, after it was sent. `CamoPayment` is the program the documentation
asks for (`src/CAMO-PROTOCOL.md`, "Sending", "Receiving" and "Notes"; `camo/mod.rs:244-250`), on the
library's functions, which `CamoKeys` models.

| Action | Code it calls |
|---|---|
| `Begin` | the frontier is read; `sender_ecdh` (`addressv1.rs:307-331`) |
| `SendNotification`, `SendPayment` | `create_notification`, `derive_account`; in either order, and refused (`Fits`) if the frontier has moved |
| `Drop` | (external) a crash, a refusal or a change of mind: what the device knew is lost |
| `SendOrdinary` | (external) a send to the signer account that is no notification |
| `Recover` | the sender computes old secrets again from its key and its chain (`sender_ecdh` is deterministic) and notifies of a payment nobody was notified of |
| `Read`, `Restart` | (external) the recipient hears of blocks, or reads them all again |
| `Receive` | `Notification::from_v1`, `receiver_ecdh`, `derive_key` (`notification.rs:44-51`, `addressv1.rs:150-160`) |

The refinement mapping is in the module: `sent` is the payments on the sender's chain, named by addressee
and frontier; `received` is what was received, named by who received it and by the payment that the block
really is, or -1 if it is none: so a step that takes an ordinary block or a notification for a payment,
receives another's payment or receives twice is no step of `PaymentService`.

### Addresses, Wallet

A string of bytes is the number it is in big-endian, and base32 is that number in another base; a text is
a sequence of characters, which are numbers if they belong to the alphabet. All widths are constants.
The curve is a cyclic group of `Order` points with `compress`, points of small order, and bytes that
decompress to a point without being its own (`Alias`; the real curve has a few). `clamp_integer`,
`from_bytes_mod_order` and `from_canonical_bytes` are arithmetic. Decoders test in the order of the code,
and slices panic past the end or inside a character.

| Action | Code |
|---|---|
| `MakeKey` | `Key::from_seed` (`account.rs:27-33`) and its bytes in a file |
| `LoadKey`, `LoadKeyAsSecret` | `Scalar::from_canonical_bytes` (or serde); `Key::from([u8; 32])` (`account.rs:60`), which clamps |
| `TypeNano`, `TypeCamo` | `Account::from_str`, `CamoAccount::from_str` (`camo/mod.rs:260-280`) |
| `NewBlock`, `Edit` | the public fields of `Block` (`block.rs:88-97`) |
| `Sign`, `SetSignature`, `LocalWork` | `block.rs:111-165` |
| `Keep`, `Load` | serde, and `block_to_json`, `block_from_json` (`rpc/util.rs`) |
| `Restart` | (external) memory is lost, the file and the kept block are not |

`signed`, `worked`, `edits` and the `of` of what is kept are history: no guard but a bound reads them.

## 3. Runs

| Run | Question | Instance |
|---|---|---|
| `rpc_honest` | is what a call returns true of one ledger, and every honest answer accepted? | 1 caller, every method and `command`, a chain that starts with a legacy block; a send, an epoch and a receive published meanwhile; lists in another order than the ledger's, an empty one, an unopened account, unknown hashes, a legacy hash, balances that sum to MaxAmount (4) and beyond |
| `rpc_fork` | is a fork ever reported published twice? does every call end? | 2 callers, the two sides of a fork, one legacy block; late requests; `FairSpec` |
| `rpc_lies` | does anything a node writes pass the checks? | 1 caller; about 230 answers: real entries, mislabelled, altered, broken, in every order of two and some of three; blocks that nobody signed, of an ordinary account and of one of small order; lists with entries left out |
| `local_work` | is the work valid, is no nonce passed over, is work found if there is any? | bytes of 3 values, 2-byte nonce, 1-byte hash, every choice of at most two good buffers; `FairSpec` |
| `camo_store` | does an address that panics get in; is what was written readable? | no serde; versions 1 and 2, a later release that supports both |
| `camo_serde` | is there one value per origin, is each payment found, does each have its own account? | serde; 2 accounts of a seed with version 1, stored values of version 2, 2 frontiers, 2 payments |
| `camo_payment` | is each payment received once, by its addressee, and none lost? | 2 devices, an account that pays and may notify and one that only notifies, 2 recipients, 3 plans, 1 restart; `FairSpec` |
| `wallet` | does a text mean one account? does what passes a check deserve to? | 1 key, a shop's point, the neutral point and another of small order (typed with bytes that are not its own), every text one character away from the shop's; 1 edit, 1 signature, 1 kept block |
| `camo_incompatible` | (violation) never an incompatible version? | finding 3 |
| `camo_read_back` | (violation) is `recipient` the account notified? | finding 4 |
| `rpc_receivable_lists` | (violation) a list per account? | finding 1 |
| `rpc_legacy_infos` | (violation) None for legacy blocks? | finding 2 |

Every run of RpcClient lets connections fail; `Faults` says whether the node may also answer with
errors or lie.

Bounds and why they are enough. Amounts are 0..4 (`MaxAmount` plays u128::MAX: two balances reach it
and two exceed it). Work values are 0..3 and nonces three, so that a target is reached by some, all
or none. Two accounts and an epoch signer suffice for every role a parser tells apart (owner, other
party, signer). Chains grow to three blocks, the shortest in which a link in the middle can be wrong.
Two callers are the fewest that race, and what a third would do other wallets (`OthersPublish`) do.
`LocalWork` has three byte values because with two the byte after zero is also the last.
The CAMO runs have all eight versions, of which the first two are used: one that is supported and one that
is not. `camo_store` switches both on and off and reads what a later release wrote with either or both.
`camo_serde`, with many more forms of storage, has version 1 for what is made here and 2 for what is made
elsewhere, and two accounts of a seed, so that payments meet with different recipients. Each program
holds one value and storage one; two payments (`MaxPayments`, the only bound on a counter) are the fewest
that can meet on one account.
In `RpcClient` nothing but the ledger and `adrift` could grow, and the blocks there are bound both; no counter is
cut.

In `camo_payment` `Room` lets the sender's chain grow to two blocks and the notifier's to one, besides what
`Recover` adds, which is bounded by the payments there are: two blocks are the fewest on which a notification
moves the frontier under its own payment, two devices race for one, or two payments follow each other.
One restart (`MaxRestarts`) forgets all that was read, and a second would forget it from a state
the first one also reaches, but for `received`. The plans have one recipient reached through the same account as
pays, the same through another, and another recipient.

`wallet` keeps what is uneven in the real widths. A `nano_` text's first character holds four bits of padding
and one of the key; here, with bytes of 3 bits, characters of 2, one byte of padding, two of key and one of
checksum, it holds one of each. The checksum does not divide into characters, and the sample of a
`camo_` address is longer than its versions (2 characters, 3 bits; in the code 8 and 8). The group has 13
elements, so that clamped values exceed the order and reducing matters; a point of small order and bytes that are not
canonical are there. Texts are all those that differ from a valid one in one character, also one of two
bytes, or in length, and some that are made of other parts. One signature (`MaxSigned`), one edit
(`MaxEdits`) and one kept block are enough to sign, change, keep, restart, read back and put
the old signature on a new block; addresses are typed before anything is signed or kept, as what is
typed later meets the same blocks.

What the runs show. CAMO: values agree whatever their route, payments are found and do not meet, and
without serde no address panics; with serde one does. Payments: whatever crashed, raced or restarted, the two
wallets do what `PaymentService` promises, and with a sender that looks back none is lost. Wallet: a text that
is accepted is that of its account but for padding; a valid signature is of what the block says, but that a block which
nobody signed is valid for an account of small order (for the neutral point always, for another if the
challenge happens to meet its order); work survives edits elsewhere. Two things panic: a text with a character of
several bytes at byte 5 (or 13 for `camo_`, section 4), and a block in JSON that was never signed, as
`Signature::default` is of small order. A key's bytes that come back as those of a secret (`account.rs:60`) are clamped and
may be another key: `OwnerCanSign` says that a block signed with it does not pass for the account then, so that the loss
is noticed where the signature is checked. `EpochRules` compares with the block that was kept and with whatever can be read
back of it.
RPC: with an honest node, values returned are those of one moment, rejected answers
are refusals of the node or one of two known kinds (a legacy block or an overflowing sum in
`blocks_info`), and a fork has one winner, whatever is lost or late. With any node, a history is a
verified chain, and every block returned is one that a wallet signed (or of an account of small order), though its
subtype may be mislabelled, and a history may be cut short or old; lists that return have an entry per item, whatever was
left out, as a missing balance loses the whole list (`parse.rs:69-72`); work meets the caller's target; and the only answers that
panic the caller are a signature whose first half is no point (or of small order) and an account's text that is split inside a character.

Fairness. `EveryCallEnds` assumes that a node that gets a request handles it (`WF` of `NodeHandles`,
external) and that the async runtime polls a task whose answer is there (`WF` of `Deliver`). The
first is needed because the client has no timeout: with a node that accepts a request and stays
silent a call never returns. Failures and publishing have no fairness. `WorkIsFound` assumes that a
running loop runs (`WF` of `Next`). `CamoPayment`'s `EveryPaymentReceived` assumes that blocks are confirmed and read
(`WF` of `Read`), that a wallet that can receive does (`WF` of `ReceiveAny`), both of which are the network's
and the recipient's program, and that the sender's, once in a while, looks for payments of its own that nobody was
notified of (`WF` of `Recover`): nothing in the library does that by itself, but the notes of the protocol allow
a notification "at any point during or after the camo payment, and even [...] duplicate notifications", and
`sender_ecdh` computes the same secret again. Without it a crash between the payment and
the notification loses the payment until someone looks. The devices have no fairness: they may stop anywhere.

## 4. Findings

1. `accounts_receivable` (`debug.rs:189` "For each account, returns the receivable transactions"):
   accounts with nothing to receive have no list (`parse.rs:103-105`), so lists and accounts do not
   line up.
2. `blocks_info` (`debug.rs:238`, `parse.rs:156` "Legacy blocks [...] will return `None`"): the
   branch for a legacy block lacks `continue` (`parse.rs:172-174`), so that the call fails.
   If a node gives a state block a legacy `type`, its contents do parse, and both None and the block are pushed: one entry
   too many, the exception that `EntryPerItem` makes. `accounts_balances` has the same shape (`parse.rs:69-72`), with
   no document that speaks of it; there the second push always fails.
3. `create_notification` asserts that no incompatible address was accepted (`addressv1.rs:329`);
   `Deserialize` of addresses, keys and view keys accepts any versions, so one that was written by a
   release that supports more is read, and paying to it panics.
4. `NotificationV1::from(&Block)` takes the sender for the `recipient` (`notification.rs:47`), which
   is documented as the account to send to (`notification.rs:33-36`).

Met besides, with no run of its own: `CamoAccount::from_str` checks the length as a "sanity check to prevent panic"
(`camo/mod.rs:263`). It counts bytes, and the slices that follow (`267`, `270`) are by bytes: a character of several
bytes across byte 5 or 13 panics there, where every other wrong text is an error. In run `wallet` such texts are typed, and
`PanicsAreKnown` has exactly these (and byte 5 of a `nano_` text, `nanopy.rs:33`) as its exception.

## 5. Proofs

`RpcClientProofs` and `RpcAnswerProofs` assume what `RpcClient` and `Blocks` name as assumptions, all evaluated by TLC
on every run:

* `KnownAssumption`: a block has eight fields, of the types of the code, none of them missing.
* `GenesisAssumption`: there are finitely many accounts, and the first ledger is valid (`ValidLedger`: each block is on
  its own account's chain, names the one before it, is signed by whom its type requires, and spends if it is a send).
* `HashAssumption`: hashes can be ordered so that a block's is above its `previous`: a hash says what was
  hashed, so no chain leads back to itself.
* `NullAssumption`: what stands for an absent or broken text is no amount, account, number, hash or valid signature.
* `TorsionAssumption`: accounts of small order have a multiple each in a group of `Torsion` points.
* `RequestAssumption`: a request names a method and has its arguments; work values are numbers.
* `LieAssumption`: what a liar sends as `history` is, if an array, a finite sequence, and its `blocks` have
  finitely many keys: JSON is a finite text.
* `SignatureAssumption`: a signature on any block or in any lie is of a block there is, hashed as its type requires, or
  needs no key, or is missing, malformed or no point. This is that nobody signs without a key, and nothing else about lies.

Callers, requests, ledgers and lies are otherwise arbitrary. `ReturnsTrueOfOneLedger` has the hypothesis `Faults = {}`,
and `OnlyKnownFalseAlarms` and `ForkReportedOnce` `"lie" \notin Faults`: they say of which nodes these things are true.
`ReturnsTrueOfOneLedger` needs a node that does not refuse either, because any error reads as an unopened account or as
an unknown block (`parse.rs:44`, `142`). Both theorems of honest answers also assume that `Null` and `None` are no JSON arrays or objects
(`NoFunction`), which is no ASSUME because TLC cannot take the domain of a model value.

* `TypeCorrect`: `Spec => []TypeOK`. The part that takes work is the ledger: a block that a node
  takes out of a request is exactly the block a caller put in (`ProcessCarriesBlock`: the subtype is
  sent beside the block and everything else inside), so the ledger only ever holds known blocks.
* `HistoryAlwaysVerified`: `Spec => []VerifiedHistory`. A parsed history is a chain for any JSON
  (`HistoryVerified`). The strengthening `RepliesInv` says what an answer under way is: one of the lies, if the node lies, the refusal, if
  it refuses, or the node's answer from a ledger in the call's window.
* `CustomWorkAlwaysMeetsTarget`: `Spec => []CustomWorkMeetsTarget`.
* `OnlyBadTextPanics`: `Spec => []PanicMeansBadText`, for lists of any length. Each parser is taken apart until what can panic is
  left; `Collect` fails with the first error of its entries, so a panic is the panic of one entry. The first attempt at
  this proof failed on `accounts_representatives`, which parses accounts too and had been left out of the property.
* `ForkReportedOnce`: `Spec => []OneForkReported`. `ReportsInv` says that the frontier of an
  account is above the `previous` of every block reported as published, by an answer under way or one that was
  returned. A frontier only ever rises (`FrontiersRise`), whatever was retried, arrived late or was given up, and the
  node takes a block only on the frontier: it takes no second block on a `previous` that lies below.
* `LedgersAlwaysValid`: the ledger, and every ledger a call has seen, stays valid (`ExtendValid`: what a node
  accepts goes where it belongs). So a hash is in one place of one chain (`OnePosition`), and the search for a block by its hash,
  which the answers to `block_info`, `blocks_info` and `accounts_receivable` rest on, has one result.
* `BlocksAlwaysSigned`: `Spec => []BlocksWereSigned`. A parser that accepts a state block has compared its signature
  with the hash of its fields, so a block was signed that is hashed as this one, and no legacy block is (`HashTells`). A
  signature that needs no key is none that was made (`NeverKeyless`) and is valid for an account of small order only.
* `ListsAlwaysPerItem`: `Spec => []EntryPerItem`. Each round of a list's loop pushes once (`OnePushEach`); a missing
  balance pushes twice, but its second push is an error, and an error anywhere is the list's (`FlattenElements`).
* `ReturnsTrueOfOneLedger`: `Spec => []TrueOfOneLedger`. For each method the parser's result from the node's answer
  is what `Meets` says of the same ledger. For the lists this is entry by entry: the answer is an object whose keys come in
  any order (`SetInOrder`), the result a flattened sequence in which an entry may stand twice (`FlattenPairs`).
* `OnlyKnownFalseAlarms`: `Spec => []NoOtherFalseAlarm`. Along the same way, no conversion, signature, link or hash
  test fails on what a valid ledger holds.

`LocalWorkProofs` assumes only that a byte has two values or more and a nonce one byte or more.

* `TypeCorrect`, then `SearchIsExhaustive`: `Spec => []SearchInv`. `LocalWorkIsValid` is not
  inductive: that the hash is intact depends on the carry staying inside the nonce, which holds
  because the nonces before have all failed and one is good. `SearchInv` says so: the nonces *below*
  the buffer (compared from the last byte) are tried, and during a carry at byte `i` those that are
  below or equal from byte `i` on. A carry that left the nonce would have tried them all.
  `CountUpTries` is the step for one iteration of the carry loop.
* `LocalWorkAlwaysValid`: `Spec => []LocalWorkIsValid`.

`CamoWalletProofs` assumes `VersionAssumption`, `BitsAssumption` and `WalletAssumption`; seeds, indexes,
payers, frontiers, what releases support and how many payments are made are arbitrary.

* `TypeCorrect`, `ValuesAgree` (`OneValuePerOrigin`) and `PaymentAlwaysFound` (`PaymentFound`) follow from
  `Inv`: besides the values held, what is *stored* was written of the one value of its origin
  (`StoreInv`), or reading would bring in another, and every payment was computed from the one
  address of its origin (`PaymentsInv`), which need not be held any more. `ViewFromSeedIsView`,
  `AccountOfView`, `FormsRoundTrip` and `Agreement` are the facts about the key algebra.
* `NoPanicWithoutSerde` (`NeverPanics`) assumes `~Serde` and `Supported = {1}`: `GuardedInv` says that all
  that is held passed a guard. The second assumption is needed: the guards admit version 2 and
  `create_notification` does not, so a release that adds 2 to `ALL_SUPPORTED_CAMO_VERSIONS` must change both.
* `OwnStoreAlwaysReadable` (`OwnStoreIsReadable`) assumes `~Serde`.
* `OneAccountPerPayment` (`OneTimeAccounts`): a payment's account is the recipient's spend key plus a summand hashed from
  the shared secret. No summand of a spend key is ever that of a secret (`SummandsDiffer`), so one account
  has one recipient and one secret, and a secret has one payer and one frontier (`SecretInjective`).

`CamoPaymentProofs` assumes `PaymentAssumption`: versions that have a layout, plans, room and restarts of the right
types. Devices, accounts, recipients and bounds are arbitrary.

* `AccountDeterminesPayment`, `UnlocksOwnPayments`: the one-time account names the recipient and the frontier, and
  a block unlocks nothing but the payment it notifies of. They follow from what the hashes cover
  (`HashInjective`), with summands of a key that are never equal (`PartsDiffer`, `SecretIsNoSeed`).
* `TypeCorrect` and `AccountsNeverReused` (`AccountsUsedOnce`) follow from `IInv`: `ChainInv` says that a payment
  stands in the sender's chain next to the frontier it was computed from, or next but one with no payment between
  them (its own notification may have come first), and `JobInv` that a device which has still to pay knows
  the chain up to its next block, with no payment since its frontier. So a device that lost the race finds its
  place taken, and two payments from one frontier would need two blocks in one place.
* `RefinesService` (`ImplementsService`): initial states map to initial states (`InitService`), and each step to `Pay`,
  `Receive` or a stutter (`StepService`).

`AddressProofs` and `WalletProofs` assume `WidthAssumption` (addresses fill their characters, and a key has two bits or
more), `PowerAssumption` (what a power of two is, which the provers do not know of `^`, up to the bits of an
address), `TextAssumption` (prefixes are texts of one-byte characters, a character of two bytes is not of the alphabet, and
a checksum fits its bits), `CurveAssumption`, `WalletAssumption` and `KeylessAssumption` (the accounts of small order are
those of `Blocks`, the neutral point is the multiple 0, and no key that is made is 0). Nothing is assumed of which checksums are equal, of
how characters and bytes divide, or of hashes of work.

* `KeyReadBack`: what `account_encode` prints is accepted by `account_decode` and read as the same key, for every
  width. `PrintedOfAccepted` is the other direction: a text that is accepted is the one printed for its key, but for the padding
  bits of its first character, and `PrintedOfCamo` says the same of `camo_` addresses, without exception. They rest on
  facts about digits, by induction over their number: a fold over digits has the digits it was made of (`DigitAppended`,
  `DigitsOfText`), a number below a power has no others (`NumberOfDigits`), and cutting off
  the padding leaves the digits of the rest (`LastDigits`, `PaddingDropped`).
* `TextsMeanOneAccount` (`TextMeansOneAccount`) follows for whatever is typed.
* `PanicsAlwaysKnown` (`PanicsAreKnown`) is inductive together with `TypeInv`: a text without characters of several
  bytes can be sliced anywhere (`NarrowText`), and the texts in a block that was kept are read (`ReadOfText`), so
  that its signature is all that is left to panic.
* `SignedIsApproved` (`ValidMeansApproved`), `WorkIsNotLost` (`WorkSurvivesEdits`) and `KeptKeySigns` (`OwnerCanSign`)
  follow from `WalletInv`: what is held and what is kept are blocks (`BlocksAreBlocks`), every signature on
  a block, in storage or in `signed`, was made by a recorded signing or is the default one
  (`SignaturesWereMade`), `worked` describes the work that the block or its stored form has (`WorkIsEnough`), and
  file and key are one scalar unless the key was loaded as a secret (`KeyIsKept`). The stored forms are
  what make it needed: a block that is read back must bring with it only what was signed. `SignedIsApproved` holds for
  whatever is typed, addresses of small order included, with the exception that the code has for them: the default
  signature of a block nobody signed. `KeptKeySigns` covers both routes a key comes back by: by the one that clamps, what
  is signed passes for the account only if the key is the one that was kept.
* `TypeCorrect`, `KeptIsReadBack` (`ReadBackIsSame`) and `EpochBlocksMoveNothing` (`EpochRules`) follow from `TypeInv`: the
  accounts of the block, of the kept block and of the text typed are `Good`, their three public fields
  being of one point. `ReadOfGood` is the step: JSON gives back the block, serde the block with the
  bytes that its points compress to. `EpochBlocksMoveNothing` compares with what is read back by any route too
  (`RulesFollowed`).

Every invariant of the passing runs is proved, and so is the refinement. Only model-checked is
liveness (`EveryCallEnds`, `WorkIsFound`, `EveryPaymentReceived`), which needs ENABLED and is out of the prover's
reach. The library's induction theorems cannot be used either, as they take an operator; `SequenceLemmas` proves induction over a *set*
of numbers instead, from `WFMin`, and every induction here, over the length of a list, of a text or of a number, is membership in
such a set. For this the model is written with `FlattenSeq` and `FoldLeft`, whose definitions are recursive functions;
`SelectSeq`, which is opaque to the prover, is not used.

## 6. Not modelled

* Curve arithmetic and hash functions: symbolic in `Blocks` and `CamoKeys`, a small group in `Addresses`. What
  depends on the real curve (that clamped scalars are uniform, that masked keys are unlinkable) is cryptography.
* Zeroing of memory (`secrets.rs`): no model of values can see it.
* Formatting of numbers and errors, conversions by reference and by value (`auto_from_impl!`), comparison and ordering
  of types, and serde derivations that are the identity.
* `_raw_request` called by the application is `command` with the action among its arguments. The proxy is
  stored and has no effect on a call.
* The `count` limit of `accounts_receivable` is left to the node and not applied by the model of it.
* Any error of the node reads as an unopened account or an unknown block (`parse.rs:44`, `142`): the code and its
  documentation say so, and no property is stated about it.

## 7. Open ends

What could be added, in this order:

1. An abstract, atomic specification of the RPC methods, with `RpcClient` (honest node) shown to implement it;
   `TrueOfOneLedger` is its statement as an invariant until then.
2. `Wallet` and `RpcClient` composed: a block that is built, changed and published by one program.
