------------------------------ MODULE RpcCodec ------------------------------
(***************************************************************************)
(* What nanopyrs writes into a node request (rpc/encode.rs) and reads out  *)
(* of the node's answer (rpc/parse.rs, rpc/util.rs), as functions.         *)
(*                                                                         *)
(* JSON: an object is a function from its keys, an array a sequence, and a *)
(* scalar the value its text stands for.  Null is an absent key, `null`    *)
(* and every value of the wrong kind (the node's "" for an empty object);  *)
(* Malformed is a scalar no conversion accepts.  A hash used as a VALUE    *)
(* may be written in hex of either case; used as a KEY its case matters,   *)
(* so a key is the record to_uppercase_hex makes.                          *)
(***************************************************************************)
EXTENDS Blocks, SequencesExt

CONSTANTS
    None,       \* Option::None
    Null,       \* JSON null, see above
    Malformed,  \* a scalar that does not parse
    BadPoint,   \* 64 bytes of signature whose first half is no curve point, or
                \* one of small order
    SplitText   \* 65 bytes of text, the fifth inside a character

(***************************************************************************)
(* Result<T, RpcError>.  A panic unwinds through the caller.               *)
(***************************************************************************)
Ok(value)  == [ok |-> TRUE,  value |-> value]
Err(error) == [ok |-> FALSE, value |-> error]
Panic == Err("panic")

\* A loop that pushes each element or returns the first error with `?`.
Collect(results) ==
    IF \E i \in DOMAIN results : ~results[i].ok
    THEN LET first == CHOOSE i \in DOMAIN results :
                        ~results[i].ok /\ \A j \in 1..(i - 1) : results[j].ok
         IN  Err(results[first].value)
    ELSE Ok([i \in DOMAIN results |-> results[i].value])

-----------------------------------------------------------------------------
(***************************************************************************)
(* util.rs: JSON access and scalars.                                       *)
(***************************************************************************)
\* `json[key]`, which is Null on a missing key and on a non-object.
At(json, key) ==
    IF json = Null THEN Null
    ELSE IF key \in DOMAIN json THEN json[key] ELSE Null

to_uppercase_hex(bytes) == [hex |-> "upper", bytes |-> bytes]

from_hex(text) ==
    IF text \in {Null, Malformed} THEN Err("FromHexError") ELSE Ok(text.bytes)

map_keys_from_json(json) ==
    IF json = Null THEN Err("InvalidJsonDataType") ELSE Ok(SetToSeq(DOMAIN json))

bytes_from_json(v) ==
    IF v \in {Null, Malformed} THEN Err("FromHexError") ELSE Ok(v)

\* usize, u64 and bool share the error.
integer_from_json(v) ==
    IF v \in {Null, Malformed} THEN Err("InvalidInteger") ELSE Ok(v)

u128_from_json(v) == IF v \in Amount THEN Ok(v) ELSE Err("InvalidInteger")

\* The text's prefix is taken without looking where its characters end.
account_from_json(v) ==
    IF v = SplitText THEN Panic
    ELSE IF v \in Account THEN Ok(v)
    ELSE Err("InvalidAccount")

\* Mutant: the decoding of the hex is unwrapped as well.
signature_from_json_UnwrapsHex(v) ==
    IF v \in {BadPoint, Malformed} THEN Panic ELSE bytes_from_json(v)

\* The conversion of the 64 bytes is unwrapped.
signature_from_json(v) == IF v = BadPoint THEN Panic ELSE bytes_from_json(v)

block_from_json(json, block_type) ==
    LET field == Collect(<<account_from_json(At(json, "account")),
                           bytes_from_json(At(json, "previous")),
                           account_from_json(At(json, "representative")),
                           u128_from_json(At(json, "balance")),
                           bytes_from_json(At(json, "link")),
                           signature_from_json(At(json, "signature")),
                           bytes_from_json(At(json, "work"))>>)
    IN  IF ~field.ok THEN field
        ELSE Ok([block_type     |-> block_type,
                 account        |-> field.value[1],
                 previous       |-> field.value[2],
                 representative |-> field.value[3],
                 balance        |-> field.value[4],
                 link           |-> field.value[5],
                 signature      |-> field.value[6],
                 work           |-> field.value[7]])

\* A state block takes its type from `subtype`, a legacy one from `type`.
block_with_type(contents, subtype) ==
    IF At(contents, "type") # "state"
    THEN block_from_json(contents, Legacy(At(contents, "type")))
    ELSE IF from_subtype_string(subtype) = "none" THEN Err("InvalidJsonDataType")
    ELSE block_from_json(contents, from_subtype_string(subtype))

\* Mutant: a history entry's subtype is not looked at.
block_from_history_json_NoSubtype(json) == block_from_json(json, At(json, "type"))

block_from_history_json(json) == block_with_type(json, At(json, "subtype"))

block_from_info_json(json) ==
    block_with_type(At(json, "contents"), At(json, "subtype"))

block_info_from_json(json, block) ==
    LET field == Collect(<<integer_from_json(At(json, "height")),
                           integer_from_json(At(json, "local_timestamp")),
                           integer_from_json(At(json, "confirmed"))>>)
    IN  IF ~field.ok THEN field
        ELSE Ok([height    |-> field.value[1], timestamp |-> field.value[2],
                 confirmed |-> field.value[3], block     |-> block])

\* Mutant: the bytes of the work are written in reverse.
block_to_json_WorkReversed(b) ==
    [type           |-> IF is_state(b.block_type) THEN "state" ELSE type_string(b.block_type),
     account        |-> b.account,        previous  |-> b.previous,
     representative |-> b.representative, balance   |-> b.balance,
     link           |-> b.link,           signature |-> b.signature,
     work           |-> MaxWork - b.work]

\* The subtype is sent beside the block, never inside it.
block_to_json(b) ==
    [type           |-> IF is_state(b.block_type) THEN "state" ELSE type_string(b.block_type),
     account        |-> b.account,        previous  |-> b.previous,
     representative |-> b.representative, balance   |-> b.balance,
     link           |-> b.link,           signature |-> b.signature,
     work           |-> b.work]

\* Mutant: the largest sum is rejected as well.
balances_sanity_check_Strict(blocks) ==
    FoldLeft(LAMBDA total, b : total + b.balance, 0, blocks) < MaxAmount

balances_sanity_check(blocks) ==
    FoldLeft(LAMBDA total, b : total + b.balance, 0, blocks) <= MaxAmount

-----------------------------------------------------------------------------
(***************************************************************************)
(* parse.rs                                                                *)
(***************************************************************************)
parse_account_balance(json) == u128_from_json(At(json, "balance"))

\* Mutant: the chain of a history is not checked.
unlinked_Never(successor, block) == FALSE

unlinked(successor, block) == successor.previous # hash_block(block)

\* Stops at the first legacy block; every block scanned must be the one its
\* successor names and must carry a valid signature.
parse_account_history(json, account) ==
    LET history   == At(json, "history")
        Scanned   == {i \in DOMAIN history :
                        \A j \in 1..i : At(history[j], "type") = "state"}
        parsed(i) == block_from_history_json(history[i])
        block(i)  == [parsed(i).value EXCEPT !.account = account]
        checked(i) ==
            IF ~parsed(i).ok THEN parsed(i)
            ELSE IF \/ /\ i > 1 /\ parsed(i - 1).ok
                       /\ unlinked(block(i - 1), block(i))
                    \/ ~has_valid_signature(block(i))
            THEN Err("InvalidData")
            ELSE Ok(block(i))
    IN  IF history = Null THEN Err("InvalidJsonDataType")
        ELSE Collect([i \in Scanned |-> checked(i)])

\* Any error the node reports reads as an unopened account.
parse_account_info(json) ==
    LET field == Collect(<<bytes_from_json(At(json, "frontier")),
                           bytes_from_json(At(json, "open_block")),
                           u128_from_json(At(json, "balance")),
                           integer_from_json(At(json, "modified_timestamp")),
                           integer_from_json(At(json, "block_count")),
                           integer_from_json(At(json, "account_version")),
                           account_from_json(At(json, "representative")),
                           u128_from_json(At(json, "weight")),
                           integer_from_json(At(json, "receivable"))>>)
    IN  IF At(json, "error") # Null THEN Ok(None)
        ELSE IF ~field.ok THEN field
        ELSE Ok([frontier           |-> field.value[1],
                 open_block         |-> field.value[2],
                 balance            |-> field.value[3],
                 modified_timestamp |-> field.value[4],
                 block_count        |-> field.value[5],
                 version            |-> field.value[6],
                 representative     |-> field.value[7],
                 weight             |-> field.value[8],
                 receivable         |-> field.value[9]])

parse_account_representative(history) ==
    Ok(IF history = <<>> THEN None ELSE history[1].representative)

\* Mutant: a missing balance is parsed as 0.
parse_accounts_balances_NullIsZero(json, accounts) ==
    LET balance(a) == At(At(At(json, "balances"), a), "balance")
        pushes(a)  == IF balance(a) = Null THEN <<Ok(0), Ok(0)>>
                      ELSE <<u128_from_json(balance(a))>>
    IN  Collect(FlattenSeq([i \in DOMAIN accounts |-> pushes(accounts[i])]))

\* A missing balance is pushed as 0, and then parsed all the same.
parse_accounts_balances(json, accounts) ==
    LET balance(a) == At(At(At(json, "balances"), a), "balance")
        pushes(a)  == (IF balance(a) = Null THEN <<Ok(0)>> ELSE <<>>)
                      \o <<u128_from_json(balance(a))>>
    IN  Collect(FlattenSeq([i \in DOMAIN accounts |-> pushes(accounts[i])]))

\* Null is None; anything else has to convert.
OptionOf(v, converted) == IF v = Null THEN Ok(None) ELSE converted

parse_accounts_frontiers(json, accounts) ==
    LET frontier(a) == At(At(json, "frontiers"), a)
    IN  Collect([i \in DOMAIN accounts |->
                    OptionOf(frontier(accounts[i]),
                             bytes_from_json(frontier(accounts[i])))])

parse_accounts_representatives(json, accounts) ==
    LET representative(a) == At(At(json, "representatives"), a)
    IN  Collect([i \in DOMAIN accounts |->
                    OptionOf(representative(accounts[i]),
                             account_from_json(representative(accounts[i])))])

\* An account the answer has no object for pushes nothing.
parse_accounts_receivable(json, accounts) ==
    LET blocks(a) == At(At(json, "blocks"), a)
        entry(a, hash) ==
            LET amount == u128_from_json(At(blocks(a), hash))
                bytes  == from_hex(hash)
            IN  IF ~amount.ok THEN amount
                ELSE IF ~bytes.ok THEN bytes
                ELSE Ok([recipient |-> a, block_hash |-> bytes.value,
                         amount |-> amount.value])
        receivable(a) ==
            LET hashes == map_keys_from_json(blocks(a)).value
            IN  Collect([i \in DOMAIN hashes |-> entry(a, hashes[i])])
        pushes(a) == IF map_keys_from_json(blocks(a)).ok
                     THEN <<receivable(a)>> ELSE <<>>
    IN  Collect(FlattenSeq([i \in DOMAIN accounts |-> pushes(accounts[i])]))

\* The tail of block_info and of each round of blocks_info.
verified_info(json) ==
    LET block == block_from_info_json(json)
    IN  IF ~block.ok THEN block
        ELSE IF ~has_valid_signature(block.value) THEN Err("InvalidData")
        ELSE block_info_from_json(json, block.value)

is_legacy_info(json) == At(At(json, "contents"), "type") # "state"

parse_block_info(json) ==
    IF At(json, "error") # Null \/ is_legacy_info(json)
    THEN Ok(None)
    ELSE verified_info(json)

\* The blocks of a list of Option<BlockInfo>.
blocks_found(infos) ==
    FlattenSeq([i \in DOMAIN infos |-> IF infos[i] = None THEN <<>>
                                       ELSE <<infos[i].block>>])

\* A legacy block is pushed as None, and then parsed all the same.
parse_blocks_info(json, hashes) ==
    LET blocks  == At(json, "blocks")
        info(h) == At(blocks, to_uppercase_hex(h))
        pushes(h) ==
            IF info(h) = Null THEN <<Ok(None)>>
            ELSE (IF is_legacy_info(info(h)) THEN <<Ok(None)>> ELSE <<>>)
                 \o <<verified_info(info(h))>>
        infos == Collect(FlattenSeq([i \in DOMAIN hashes |-> pushes(hashes[i])]))
    IN  IF At(json, "error") # Null /\ blocks = Null
        THEN Err("InvalidJsonDataType")
        ELSE IF ~infos.ok THEN infos
        ELSE IF ~balances_sanity_check(blocks_found(infos.value))
        THEN Err("InvalidData")
        ELSE infos

\* Mutant: an answer without a hash passes.
parse_process_HashOptional(json, hash) ==
    LET rpc_hash == bytes_from_json(At(json, "hash"))
    IN  IF rpc_hash.ok /\ rpc_hash.value # hash THEN Err("InvalidData")
        ELSE Ok(hash)

parse_process(json, hash) ==
    LET rpc_hash == bytes_from_json(At(json, "hash"))
    IN  IF rpc_hash.ok /\ rpc_hash.value # hash THEN Err("InvalidData")
        ELSE rpc_hash

\* Mutant: the node says which difficulty its work is checked against.
target_difficulty_NodeFirst(json, custom_difficulty) ==
    LET own == bytes_from_json(At(json, "difficulty"))
    IN  IF own.ok \/ custom_difficulty = None THEN own ELSE Ok(custom_difficulty)

\* Without a custom difficulty the node's own is the target.
target_difficulty(json, custom_difficulty) ==
    IF custom_difficulty # None THEN Ok(custom_difficulty)
    ELSE bytes_from_json(At(json, "difficulty"))

parse_work_generate(json, hash, custom_difficulty) ==
    LET work       == bytes_from_json(At(json, "work"))
        difficulty == target_difficulty(json, custom_difficulty)
    IN  IF ~work.ok THEN work
        ELSE IF ~difficulty.ok THEN difficulty
        ELSE IF check_work(hash, difficulty.value, work.value) THEN work
        ELSE Err("InvalidData")

-----------------------------------------------------------------------------
(***************************************************************************)
(* encode.rs.  A key left out is None.                                     *)
(***************************************************************************)
encode_account_balance(account) ==
    [action |-> "account_balance", account |-> account]

\* Mutant: the offset is only written when there is no head.
encode_account_history_HeadOrOffset(account, count, head, offset) ==
    [action |-> "account_history", raw |-> TRUE, account |-> account,
     count |-> count, head |-> head,
     offset |-> IF head = None THEN offset ELSE None]

encode_account_history(account, count, head, offset) ==
    [action |-> "account_history", raw |-> TRUE, account |-> account,
     count |-> count, head |-> head, offset |-> offset]

encode_account_info(account) ==
    [action |-> "account_info", account |-> account,
     representative |-> TRUE, weight |-> TRUE, receivable |-> TRUE]

encode_accounts_balances(accounts) ==
    [action |-> "accounts_balances", accounts |-> accounts]

encode_accounts_frontiers(accounts) ==
    [action |-> "accounts_frontiers", accounts |-> accounts]

encode_accounts_receivable(accounts, count, threshold) ==
    [action |-> "accounts_receivable", sorting |-> TRUE,
     threshold |-> threshold, accounts |-> accounts, count |-> count]

encode_accounts_representatives(accounts) ==
    [action |-> "accounts_representatives", accounts |-> accounts]

encode_block_info(hash) ==
    [action |-> "block_info", hash |-> to_uppercase_hex(hash), json_block |-> TRUE]

encode_blocks_info(hashes) ==
    [action |-> "blocks_info",
     hashes |-> [i \in DOMAIN hashes |-> to_uppercase_hex(hashes[i])],
     json_block |-> TRUE, include_not_found |-> TRUE]

encode_process(b) ==
    [action |-> "process", subtype |-> type_string(b.block_type),
     block |-> block_to_json(b), json_block |-> TRUE]

encode_work_generate(hash, custom_difficulty) ==
    [action |-> "work_generate", hash |-> to_uppercase_hex(hash),
     use_peers |-> TRUE, difficulty |-> custom_difficulty]
=============================================================================
