------------------------------ MODULE NanoNode ------------------------------
(***************************************************************************)
(* The node behind the RPC, which is not part of the repository: a ledger  *)
(* of one chain per account, and the answer to each request that           *)
(* rpc/encode.rs writes, in the shape rpc/parse.rs and its tests read.     *)
(*                                                                         *)
(* A ledger L maps every account to its blocks, the oldest first.          *)
(***************************************************************************)
EXTENDS RpcCodec, FiniteSets

CONSTANT Nonce   \* the nonces work_generate tries

\* Legacy blocks are hashed in their own way.
node_hash(b) ==
    IF is_legacy(b.block_type) THEN <<b.block_type, hash_block(b)>>
    ELSE hash_block(b)

Opened(L, a)    == L[a] # <<>>
Newest(L, a)    == L[a][Len(L[a])]
Frontier(L, a)  == IF Opened(L, a) THEN node_hash(Newest(L, a)) ELSE ZeroHash
BalanceOf(L, a) == IF Opened(L, a) THEN Newest(L, a).balance ELSE 0

\* Where a block is on the ledger.
Positions(L, hash) ==
    {p \in UNION {{a} \X DOMAIN L[a] : a \in Account} :
        node_hash(L[p[1]][p[2]]) = hash}
OnLedger(L, hash) == Positions(L, hash) # {}
PositionOf(L, hash) == CHOOSE p \in Positions(L, hash) : TRUE

\* Sends to an account that it has not received, with what they move.
Received(L, a) == {L[a][i].link : i \in {j \in DOMAIN L[a] :
                                          L[a][j].block_type = "receive"}}
ReceivableBy(L, a) ==
    {[hash   |-> node_hash(L[p[1]][p[2]]),
      amount |-> L[p[1]][p[2] - 1].balance - L[p[1]][p[2]].balance] :
     p \in {q \in UNION {{c} \X DOMAIN L[c] : c \in Account} :
              LET b == L[q[1]][q[2]]
              IN  /\ b.block_type = "send"
                  /\ b.link = a
                  /\ node_hash(b) \notin Received(L, a)}}

-----------------------------------------------------------------------------
(***************************************************************************)
(* Publishing: a block extends its account's chain or is refused.          *)
(***************************************************************************)
FollowsSubtype(L, b) ==
    LET before == BalanceOf(L, b.account)
    IN  \/ b.block_type = "send" /\ Opened(L, b.account) /\ b.balance < before
        \/ b.block_type = "change" /\ Opened(L, b.account) /\ b.balance = before
        \/ /\ b.block_type = "receive"
           /\ \E r \in ReceivableBy(L, b.account) :
                r.hash = b.link /\ b.balance = before + r.amount
        \/ /\ b.block_type = "epoch"
           /\ Opened(L, b.account)
           /\ follows_epoch_rules(b, Newest(L, b.account))

Accepts(L, b) ==
    /\ is_state(b.block_type)
    /\ has_valid_signature(b)
    /\ b.previous = Frontier(L, b.account)
    /\ FollowsSubtype(L, b)

Extend(L, b) == [L EXCEPT ![b.account] = Append(@, b)]

\* The block a `process` request carries.
BlockOf(request) ==
    [block_type     |-> request.subtype,
     account        |-> request.block.account,
     previous       |-> request.block.previous,
     representative |-> request.block.representative,
     balance        |-> request.block.balance,
     link           |-> request.block.link,
     signature      |-> request.block.signature,
     work           |-> request.block.work]

\* What handling a request does to the ledger.
AfterRequest(L, request) ==
    IF request.action = "process" /\ Accepts(L, BlockOf(request))
    THEN Extend(L, BlockOf(request))
    ELSE L

-----------------------------------------------------------------------------
(***************************************************************************)
(* Answers.                                                                *)
(***************************************************************************)
Refusal == [error |-> "refused"]

\* A legacy block has neither subtype, link nor decimal balance.
Contents(b) ==
    IF is_legacy(b.block_type)
    THEN [type |-> type_string(b.block_type), representative |-> b.representative,
          account |-> b.account, signature |-> b.signature, work |-> b.work]
    ELSE block_to_json(b)

\* In a history entry `account` names the other party of a send, and the
\* signer of an epoch block.
HistoryEntry(b) ==
    LET named == IF b.block_type = "send" /\ b.link \in Account
                 THEN b.link ELSE Signer(b)
    IN  [key \in DOMAIN Contents(b) \cup {"subtype"} |->
            IF key = "subtype" THEN b.block_type
            ELSE IF key = "account" THEN named
            ELSE Contents(b)[key]]

InfoEntry(L, p) ==
    [height |-> p[2], local_timestamp |-> p[2], confirmed |-> TRUE,
     subtype |-> L[p[1]][p[2]].block_type, contents |-> Contents(L[p[1]][p[2]])]

AnswerHistory(L, q) ==
    LET chain == L[q.account]
        top   == IF q.head = None THEN Len(chain)
                 ELSE PositionOf(L, q.head)[2]
        last  == top - (IF q.offset = None THEN 0 ELSE q.offset)
        size  == IF last < q.count THEN last ELSE q.count
    IN  IF q.head # None /\ ~ \E p \in Positions(L, q.head) : p[1] = q.account
        THEN Refusal
        ELSE [account |-> q.account,
              history |-> [i \in 1..size |-> HistoryEntry(chain[last + 1 - i])]]

AnswerInfo(L, a) ==
    IF ~Opened(L, a) THEN Refusal
    ELSE [frontier           |-> Frontier(L, a),
          open_block         |-> node_hash(L[a][1]),
          balance            |-> BalanceOf(L, a),
          modified_timestamp |-> Len(L[a]),
          block_count        |-> Len(L[a]),
          account_version    |-> 2,
          representative     |-> Newest(L, a).representative,
          weight             |-> 0,
          receivable         |-> Cardinality(ReceivableBy(L, a))]

\* Accounts with nothing to receive are left out (or answered with "").
AnswerReceivable(L, q) ==
    LET due(a) == {r \in ReceivableBy(L, a) : r.amount >= q.threshold}
    IN  [blocks |->
            [a \in {x \in ToSet(q.accounts) : due(x) # {}} |->
                [key \in {to_uppercase_hex(r.hash) : r \in due(a)} |->
                    (CHOOSE r \in due(a) : r.hash = key.bytes).amount]]]

AnswerBlocks(L, hashes) ==
    [blocks |-> [key \in {k \in ToSet(hashes) : OnLedger(L, k.bytes)} |->
                    InfoEntry(L, PositionOf(L, key.bytes))]]

AnswerWork(q) ==
    LET goal  == IF q.difficulty = None THEN 1 ELSE q.difficulty
        found == {n \in Nonce : check_work(q.hash.bytes, goal, n)}
        work  == CHOOSE n \in found : TRUE
    IN  IF found = {} THEN Refusal
        ELSE [work |-> work, difficulty |-> blake2b_work(q.hash.bytes, work)]

Answer(L, q) ==
    CASE q.action = "account_balance" -> [balance |-> BalanceOf(L, q.account)]
      [] q.action = "account_history" -> AnswerHistory(L, q)
      [] q.action = "account_info"    -> AnswerInfo(L, q.account)
      [] q.action = "accounts_balances" ->
            [balances |-> [a \in ToSet(q.accounts) |->
                              [balance |-> BalanceOf(L, a)]]]
      [] q.action = "accounts_frontiers" ->
            [frontiers |-> [a \in {x \in ToSet(q.accounts) : Opened(L, x)} |->
                               Frontier(L, a)]]
      [] q.action = "accounts_representatives" ->
            [representatives |->
                [a \in {x \in ToSet(q.accounts) : Opened(L, x)} |->
                    Newest(L, a).representative]]
      [] q.action = "accounts_receivable" -> AnswerReceivable(L, q)
      [] q.action = "block_info" ->
            IF OnLedger(L, q.hash.bytes)
            THEN InfoEntry(L, PositionOf(L, q.hash.bytes)) ELSE Refusal
      [] q.action = "blocks_info" -> AnswerBlocks(L, q.hashes)
      [] q.action = "process" ->
            IF Accepts(L, BlockOf(q)) THEN [hash |-> hash_block(BlockOf(q))]
            ELSE Refusal
      [] q.action = "work_generate" -> AnswerWork(q)
=============================================================================
