----------------------------- MODULE RpcClient ------------------------------
(***************************************************************************)
(* Concurrent calls of the methods of DebugRpc and Rpc (rpc/debug.rs,      *)
(* rpc/mod.rs) on one node, while other wallets publish to its ledger.     *)
(*                                                                         *)
(* A call awaits twice in _raw_request: for the answer's head and for its  *)
(* body.  Between the call and its return the node may handle the request, *)
(* answer with an error, answer anything at all, or never be reached; the  *)
(* connection may fail before or after that, and a request whose caller    *)
(* has given up may still reach the node later.  There is no timeout and   *)
(* no retry in the code: a caller that wants one calls again.              *)
(***************************************************************************)
EXTENDS NanoNode

CONSTANTS
    Caller,     \* tasks that hold a clone of the client
    Request,    \* the calls they make, a record per method and arguments
    Published,  \* the blocks other wallets publish
    Genesis,    \* the ledger to begin with
    Faults,     \* which faults the node has, of "error" and "lie"
    Lie         \* the answers of a node that lies

\* The caller's own arguments, with an `action` of theirs overwritten.
command(name, arguments) ==
    [key \in DOMAIN arguments \cup {"action"} |->
        IF key = "action" THEN name ELSE arguments[key]]

\* Every block there is: in the first ledger, from other wallets, from callers.
Known == (UNION {{Genesis[a][i] : i \in DOMAIN Genesis[a]} : a \in Account})
         \cup Published
         \cup {r.block : r \in {q \in Request : q.method = "process"}}
         \cup {BlockOf(command(r.command, r.arguments)) :
                  r \in {q \in Request : q.method = "command" /\ q.command = "process"}}

ASSUME KnownAssumption ==
    \A b \in Known :
        /\ b = [block_type     |-> b.block_type,     account   |-> b.account,
                previous       |-> b.previous,       balance   |-> b.balance,
                representative |-> b.representative, link      |-> b.link,
                signature      |-> b.signature,      work      |-> b.work]
        /\ b.account \in Account /\ b.representative \in Account
        /\ b.balance \in Amount
        /\ b.block_type # "state"
        /\ {b.previous, b.link, b.work} \cap {Null, Malformed} = {}
\* A block on an account's chain is its own, names the one before it, is signed,
\* and spends if it is a send.
InPlace(chain, a, i) ==
    /\ chain[i].account = a
    /\ i > 1 => chain[i].previous = node_hash(chain[i - 1])
    /\ is_state(chain[i].block_type) => has_valid_signature(chain[i])
    /\ chain[i].block_type = "send" => i > 1 /\ chain[i].balance < chain[i - 1].balance

ValidLedger(L) == \A a \in Account : \A i \in DOMAIN L[a] : InPlace(L[a], a, i)

ASSUME GenesisAssumption ==
    /\ IsFiniteSet(Account)
    /\ Genesis \in [Account -> Seq(Known)]
    /\ ValidLedger(Genesis)

\* A hash is not among what it was computed from: following `previous` from
\* block to block goes down, and never back to where it began.
Hashes == {ZeroHash} \cup {node_hash(b) : b \in Known} \cup {b.previous : b \in Known}
ASSUME HashAssumption ==
    \E height \in [Hashes -> 0..Cardinality(Known)] :
        \A b \in Known : height[b.previous] < height[node_hash(b)]

\* What is not in a text, or not well-formed there, is no value of a field.
ASSUME NullAssumption ==
    /\ Null \notin Amount /\ Null \notin Account /\ Null # Refusal.error
    /\ SplitText \notin Account
    /\ {Null, Malformed} \cap (Nat \cup BOOLEAN \cup Nonce \cup Hashes) = {}
    /\ \A hash \in Hashes : to_uppercase_hex(hash) \notin {Null, Malformed}
    /\ \A hash \in Hashes, a \in Account :
          sign_message(hash, a) \notin {Null, Malformed, BadPoint}
    /\ \A b \in Known, text \in {Null, Malformed, BadPoint} :
          ~IsKeyless(hash_block(b), text, Signer(b))
ASSUME FaultAssumption == Faults \subseteq {"error", "lie"}

ListMethods == {"accounts_balances", "accounts_frontiers", "blocks_info",
                "accounts_receivable", "accounts_representatives"}
Methods == ListMethods \cup
           {"account_balance", "account_history", "account_info",
            "account_representative", "block_info", "process", "work_generate",
            "command"}

ASSUME RequestAssumption ==
    \A r \in Request :
        /\ r.method \in Methods
        /\ r.method \in {"account_balance", "account_history", "account_info",
                         "account_representative"} => r.account \in Account
        /\ r.method \in ListMethods \ {"blocks_info"} => r.accounts \in Seq(Account)
        /\ r.method = "blocks_info" => r.hashes \in Seq(ToSet(r.hashes))
        /\ r.method = "account_history" =>
              r.count \in Nat /\ (r.offset = None \/ r.offset \in Nat)
        /\ r.method = "work_generate" =>
              \A nonce \in Nonce : blake2b_work(r.hash, nonce) \in 0..MaxWork
        /\ r.method = "command" =>
              r.command \in Methods \ {"account_history", "account_representative", "command"}

\* Whatever a liar writes, a JSON array is a sequence, an object has finitely
\* many keys.
Members(json) == IF json = Null THEN {} ELSE {json[key] : key \in DOMAIN json}
IsArray(json) == json = Null \/ json \in Seq(Members(json))
IsObject(json) == json = Null \/ IsFiniteSet(DOMAIN json)
ASSUME LieAssumption ==
    \A json \in Lie :
        /\ IsArray(At(json, "history"))
        /\ \A entry \in Members(At(json, "blocks")) : IsObject(entry)

\* Where a JSON has blocks: in a history, in an info, in a list of infos.
BlockTexts(json) == Members(At(json, "history")) \cup {At(json, "contents")}
                    \cup {At(info, "contents") : info \in Members(At(json, "blocks"))}

\* A signature is of a block there is, hashed as its type requires, or one that
\* needs no key, or none at all: wallets sign nothing else.
Signatures == {sign_message(node_hash(b), a) : b \in Known, a \in Account}
              \cup {keyless(R, rest) : R \in KeylessR, rest \in 0..(Torsion - 1)}
              \cup {Null, Malformed, BadPoint}
ASSUME SignatureAssumption ==
    /\ \A b \in Known : b.signature \in Signatures
    /\ \A json \in Lie : \A text \in BlockTexts(json) :
          At(text, "signature") \in Signatures

VARIABLES
    ledger,     \* the node's ledger
    stage,      \* where each caller's call is
    request,    \* what each caller called
    window,     \* the ledgers there have been during each call (history)
    reply,      \* the node's answer on its way to the caller
    response,   \* the Response the call returned
    adrift      \* `process` requests under way whose callers have given up

vars == <<ledger, stage, request, window, reply, response, adrift>>

-----------------------------------------------------------------------------
(***************************************************************************)
(* What a method sends and what it makes of the answer.                    *)
(***************************************************************************)
ListOf(r) == IF r.method = "blocks_info" THEN r.hashes ELSE r.accounts

\* Nothing is asked about an empty list.
AsksNothing(r) == r.method \in ListMethods /\ ListOf(r) = <<>>

\* Legacy blocks are not published.
RefusesLegacy(r) == r.method = "process" /\ ~is_state(r.block.block_type)

\* The calls that reach the node.
Sendable == {r \in Request : ~AsksNothing(r) /\ ~RefusesLegacy(r)}

encode(r) ==
    CASE r.method = "account_balance" -> encode_account_balance(r.account)
      [] r.method = "account_history" ->
            encode_account_history(r.account, r.count, r.head, r.offset)
      [] r.method = "account_info" -> encode_account_info(r.account)
      [] r.method = "account_representative" ->
            encode_account_history(r.account, 1, None, None)
      [] r.method = "accounts_balances" -> encode_accounts_balances(r.accounts)
      [] r.method = "accounts_frontiers" -> encode_accounts_frontiers(r.accounts)
      [] r.method = "accounts_receivable" ->
            encode_accounts_receivable(r.accounts, r.count, r.threshold)
      [] r.method = "accounts_representatives" ->
            encode_accounts_representatives(r.accounts)
      [] r.method = "block_info" -> encode_block_info(r.hash)
      [] r.method = "blocks_info" -> encode_blocks_info(r.hashes)
      [] r.method = "process" -> encode_process(r.block)
      [] r.method = "work_generate" ->
            encode_work_generate(r.hash, r.difficulty)
      [] r.method = "command" -> command(r.command, r.arguments)

\* An indirect method: the representative of the newest block.
representative_of(history) ==
    IF history.ok THEN parse_account_representative(history.value) ELSE history

parse(r, json) ==
    CASE r.method = "account_balance" -> parse_account_balance(json)
      [] r.method = "account_history" -> parse_account_history(json, r.account)
      [] r.method = "account_info" -> parse_account_info(json)
      [] r.method = "account_representative" ->
            representative_of(parse_account_history(json, r.account))
      [] r.method = "accounts_balances" ->
            parse_accounts_balances(json, r.accounts)
      [] r.method = "accounts_frontiers" ->
            parse_accounts_frontiers(json, r.accounts)
      [] r.method = "accounts_receivable" ->
            parse_accounts_receivable(json, r.accounts)
      [] r.method = "accounts_representatives" ->
            parse_accounts_representatives(json, r.accounts)
      [] r.method = "block_info" -> parse_block_info(json)
      [] r.method = "blocks_info" -> parse_blocks_info(json, r.hashes)
      [] r.method = "process" -> parse_process(json, hash_block(r.block))
      [] r.method = "work_generate" ->
            parse_work_generate(json, r.hash, r.difficulty)
      [] r.method = "command" -> Ok(json)

Response(raw_request, raw_response, result) ==
    [raw_request  |-> raw_request, raw_response |-> raw_response,
     result       |-> result]

no_request(result) == Response(None, None, result)

-----------------------------------------------------------------------------
Init ==
    /\ ledger = Genesis
    /\ stage = [c \in Caller |-> "idle"]
    /\ request = [c \in Caller |-> None]
    /\ window = [c \in Caller |-> {}]
    /\ reply = [c \in Caller |-> None]
    /\ response = [c \in Caller |-> None]
    /\ adrift = {}

\* A caller is free when its last call has returned, or has unwound.
Free(c) == stage[c] \in {"idle", "returned", "panicked"}

InProgress(c) == stage[c] \in {"sent", "answered"}

Forget(c) == reply' = [reply EXCEPT ![c] = None]

\* The ledger becomes L, and every call in progress sees it.
LedgerBecomes(L) ==
    /\ ledger' = L
    /\ window' = [c \in Caller |-> IF InProgress(c) THEN window[c] \cup {L}
                                   ELSE window[c]]

\* A method that answers by itself returns at once.
ReturnAtOnce(c, r) ==
    /\ Free(c)
    /\ AsksNothing(r) \/ RefusesLegacy(r)
    /\ stage' = [stage EXCEPT ![c] = "returned"]
    /\ request' = [request EXCEPT ![c] = r]
    /\ window' = [window EXCEPT ![c] = {ledger}]
    /\ response' = [response EXCEPT ![c] =
                       no_request(IF AsksNothing(r) THEN Ok(<<>>)
                                  ELSE Err("LegacyBlockType"))]
    /\ Forget(c)
    /\ UNCHANGED <<ledger, adrift>>

Send(c, r) ==
    /\ Free(c)
    /\ r \in Sendable
    /\ stage' = [stage EXCEPT ![c] = "sent"]
    /\ request' = [request EXCEPT ![c] = r]
    /\ window' = [window EXCEPT ![c] = {ledger}]
    /\ response' = [response EXCEPT ![c] = None]
    /\ Forget(c)
    /\ UNCHANGED <<ledger, adrift>>

\* The node's side of a call.
Replies(c, json) ==
    /\ stage[c] = "sent"
    /\ stage' = [stage EXCEPT ![c] = "answered"]
    /\ reply' = [reply EXCEPT ![c] = json]
    /\ UNCHANGED <<request, response, adrift>>

NodeHandles(c) ==
    /\ Replies(c, Answer(ledger, encode(request[c])))
    /\ LedgerBecomes(AfterRequest(ledger, encode(request[c])))

NodeErrs(c) ==
    /\ "error" \in Faults
    /\ Replies(c, Refusal)
    /\ UNCHANGED <<ledger, window>>

NodeLies(c) ==
    /\ "lie" \in Faults
    /\ \E json \in Lie : Replies(c, json)
    /\ UNCHANGED <<ledger, window>>

\* Mutant: an answer that does not parse is waited for again.
Deliver_UntilItParses(c) ==
    /\ stage[c] = "answered"
    /\ parse(request[c], reply[c]).ok
    /\ stage' = [stage EXCEPT ![c] = "returned"]
    /\ response' = [response EXCEPT ![c] =
                       Response(encode(request[c]), reply[c],
                                parse(request[c], reply[c]))]
    /\ UNCHANGED <<ledger, request, window, reply, adrift>>

\* The answer's body arrives and is parsed.
Deliver(c) ==
    LET result == parse(request[c], reply[c])
    IN  /\ stage[c] = "answered"
        /\ stage' = [stage EXCEPT ![c] =
                        IF result = Panic THEN "panicked" ELSE "returned"]
        /\ response' = [response EXCEPT ![c] =
                           Response(encode(request[c]), reply[c], result)]
        /\ UNCHANGED <<ledger, request, window, reply, adrift>>

\* send() or json() fails: the call returns with neither answer nor effect
\* known, and a request not handled yet may be lost or still under way.
\* (Only `process` is kept track of: any other changes nothing when late.)
ConnectionFails(c) ==
    /\ InProgress(c)
    /\ stage' = [stage EXCEPT ![c] = "returned"]
    /\ response' = [response EXCEPT ![c] =
                       Response(encode(request[c]), None, Err("ReqwestError"))]
    /\ adrift' \in IF stage[c] = "sent" /\ encode(request[c]).action = "process"
                   THEN {adrift, adrift \cup {encode(request[c])}}
                   ELSE {adrift}
    /\ Forget(c)
    /\ UNCHANGED <<ledger, request, window>>

\* The node handles a request nobody waits for any more.
NodeHandlesLate(q) ==
    /\ q \in adrift
    /\ adrift' = adrift \ {q}
    /\ LedgerBecomes(AfterRequest(ledger, q))
    /\ UNCHANGED <<stage, request, reply, response>>

OthersPublish(b) ==
    /\ Accepts(ledger, b)
    /\ LedgerBecomes(Extend(ledger, b))
    /\ UNCHANGED <<stage, request, reply, response, adrift>>

Next ==
    \/ \E c \in Caller, r \in Request : ReturnAtOnce(c, r)
    \/ \E c \in Caller, r \in Request : Send(c, r)
    \/ \E c \in Caller : NodeHandles(c)
    \/ \E c \in Caller : NodeErrs(c)
    \/ \E c \in Caller : NodeLies(c)
    \/ \E c \in Caller : Deliver(c)
    \/ \E c \in Caller : ConnectionFails(c)
    \/ \E q \in adrift : NodeHandlesLate(q)
    \/ \E b \in Published : OthersPublish(b)

Spec == Init /\ [][Next]_vars

\* A node that is up handles what reaches it, and the async runtime polls a
\* task whose answer has arrived.
Fairness == \A c \in Caller : WF_vars(NodeHandles(c)) /\ WF_vars(Deliver(c))
FairSpec == Spec /\ Fairness

-----------------------------------------------------------------------------
(***************************************************************************)
(* Properties.                                                             *)
(***************************************************************************)
Returned(c) == stage[c] = "returned"
\* Rpc's methods keep only this part of DebugRpc's Response.
result(c) == response[c].result
Answered(c, method) ==
    Returned(c) /\ request[c].method = method /\ result(c).ok

\* Every variable has its type; a call in progress has a request that is sent.
TypeOK ==
    /\ ledger \in [Account -> Seq(Known)]
    /\ stage \in [Caller -> {"idle", "sent", "answered", "returned", "panicked"}]
    /\ request \in [Caller -> Request \cup {None}]
    /\ \A c \in Caller : stage[c] # "idle" => request[c] \in Request
    /\ \A c \in Caller : InProgress(c) => request[c] \in Sendable
    /\ window \in [Caller -> SUBSET [Account -> Seq(Known)]]
    /\ DOMAIN reply = Caller /\ DOMAIN response = Caller
    /\ adrift \subseteq {encode(r) : r \in Sendable}

\* rpc/debug.rs:145 "This allows the data to be verified to an extent".
\* Whatever the node answers, a history that is returned is a chain: every
\* block is of the account asked about and has a signature that is valid for
\* whoever must sign it, and each block is the one its successor names.
VerifiedChain(blocks, account) ==
    \A i \in DOMAIN blocks :
        /\ blocks[i].account = account
        /\ has_valid_signature(blocks[i])
        /\ i > 1 => blocks[i - 1].previous = hash_block(blocks[i])

VerifiedHistory ==
    \A c \in Caller :
        Answered(c, "account_history") =>
            VerifiedChain(result(c).value, request[c].account)

\* Whatever the node answers, the hashed contents of every block that a call
\* returns were signed by a wallet (or an epoch signer): a liar can mislabel the
\* subtype, truncate, go back in time, or answer with a block that was not asked
\* for (parse.rs:141 does not compare its hash), but not invent one; unless it is
\* of an account of small order, which no key stands behind (nanopy.rs:144).
BlocksReturned(c) ==
    CASE Answered(c, "account_history") -> ToSet(result(c).value)
      [] Answered(c, "blocks_info") ->
            {info.block : info \in ToSet(result(c).value) \ {None}}
      [] Answered(c, "block_info") ->
            {info.block : info \in {result(c).value} \ {None}}
      [] OTHER -> {}

BlocksWereSigned ==
    \A c \in Caller : \A block \in BlocksReturned(c) :
        \/ \E b \in Known : is_state(b.block_type) /\ hash_block(b) = hash_block(block)
        \/ Signer(block) \in DOMAIN SmallKey

\* Whatever the node answers and leaves out, a list that a call returns has one
\* entry for each item asked for, so that no later entry is taken for another
\* item's (parse.rs:69-72 pushes a missing balance and then parses it as well).
\* But a block_info of the node's that is not of a state block may count twice in
\* blocks_info, where it is pushed as None and then parsed (parse.rs:172-174).
LegacyInfoIn(json) ==
    \E info \in Members(At(json, "blocks")) : info # Null /\ is_legacy_info(info)

EntryPerItem ==
    \A c \in Caller :
        LET r == request[c]
        IN  /\ Returned(c) /\ result(c).ok
            /\ r.method \in ListMethods \ {"accounts_receivable"}
            /\ r.method = "blocks_info" /\ ~AsksNothing(r) =>
                  ~LegacyInfoIn(response[c].raw_response)
            => Len(result(c).value) = Len(ListOf(r))

\* Whatever the node answers, work_generate returns only work that meets the
\* difficulty the caller asked for (parse.rs:214).
CustomWorkMeetsTarget ==
    \A c \in Caller :
        Answered(c, "work_generate") /\ request[c].difficulty # None =>
            check_work(request[c].hash, request[c].difficulty, result(c).value)

\* A call unwinds only on a signature whose first half is no point, or an address
\* whose first five bytes end inside a character: every other answer, however
\* broken, becomes an RpcError (util.rs:73-87, nanopy.rs:33).
IsBad(text) == \/ At(text, "signature") = BadPoint
               \/ SplitText \in {At(text, "account"), At(text, "representative")}
HasBadText(json) == \/ \E text \in BlockTexts(json) \cup {json} : IsBad(text)
                    \/ SplitText \in Members(At(json, "representatives"))

PanicMeansBadText ==
    \A c \in Caller : stage[c] = "panicked" => HasBadText(reply[c])

(***************************************************************************)
(* What the methods' docs promise of a ledger L, stated without the JSON.  *)
(***************************************************************************)
Largest(S) == CHOOSE n \in S : \A m \in S : m <= n

\* Newest first from `head`, at most `count`, up to the first legacy block.
HistoryOf(L, r) ==
    LET chain == L[r.account]
        start == (IF r.head = None THEN Len(chain)
                  ELSE Largest({i \in DOMAIN chain : node_hash(chain[i]) = r.head}))
                 - (IF r.offset = None THEN 0 ELSE r.offset)
    IN  [i \in {j \in 1..r.count :
                   j <= start /\ \A k \in 1..j : is_state(chain[start + 1 - k].block_type)}
            |-> chain[start + 1 - i]]

InfoOf(L, hash) ==
    LET p == PositionOf(L, hash)
        b == L[p[1]][p[2]]
    IN  IF ~OnLedger(L, hash) THEN None
        ELSE IF is_legacy(b.block_type) THEN None
        ELSE [height |-> p[2], timestamp |-> p[2], confirmed |-> TRUE, block |-> b]

RepresentativeOf(L, a) ==
    IF Opened(L, a) THEN Newest(L, a).representative ELSE None

Meets(L, r, value) ==
    CASE r.method = "account_balance" -> value = BalanceOf(L, r.account)
      [] r.method = "account_history" ->
            /\ r.head # None => OnLedger(L, r.head)
            /\ value = HistoryOf(L, r)
      [] r.method = "account_info" ->
            IF Opened(L, r.account)
            THEN /\ value # None
                 /\ value.frontier = Frontier(L, r.account)
                 /\ value.open_block = node_hash(L[r.account][1])
                 /\ value.balance = BalanceOf(L, r.account)
                 /\ value.block_count = Len(L[r.account])
                 /\ value.representative = RepresentativeOf(L, r.account)
                 /\ value.receivable = Cardinality(ReceivableBy(L, r.account))
            ELSE value = None
      [] r.method = "account_representative" ->
            \/ value = RepresentativeOf(L, r.account)
            \/ value = None /\ is_legacy(Newest(L, r.account).block_type)
      [] r.method = "accounts_balances" ->
            value = [i \in DOMAIN r.accounts |-> BalanceOf(L, r.accounts[i])]
      [] r.method = "accounts_frontiers" ->
            value = [i \in DOMAIN r.accounts |->
                        IF Opened(L, r.accounts[i])
                        THEN Frontier(L, r.accounts[i]) ELSE None]
      [] r.method = "accounts_representatives" ->
            value = [i \in DOMAIN r.accounts |-> RepresentativeOf(L, r.accounts[i])]
      [] r.method = "accounts_receivable" ->
            LET due(a) == {[recipient |-> a, block_hash |-> d.hash, amount |-> d.amount] :
                           d \in {x \in ReceivableBy(L, a) : x.amount >= r.threshold}}
                some   == FlattenSeq([i \in DOMAIN r.accounts |->
                                        IF due(r.accounts[i]) = {} THEN <<>>
                                        ELSE <<r.accounts[i]>>])
            IN  /\ Len(value) = Len(some)
                /\ \A i \in DOMAIN some : ToSet(value[i]) = due(some[i])
      [] r.method = "block_info" -> value = InfoOf(L, r.hash)
      [] r.method = "blocks_info" ->
            value = [i \in DOMAIN r.hashes |-> InfoOf(L, r.hashes[i])]
      [] r.method = "process" ->
            value = hash_block(r.block) /\ OnLedger(L, value)
      [] r.method = "work_generate" ->
            check_work(r.hash, IF r.difficulty = None THEN 1 ELSE r.difficulty, value)
      [] r.method = "command" -> value = Answer(L, encode(r))

\* With an honest node, whatever a call returns was true of ONE ledger
\* there was during the call, entry i of a list being about item i asked
\* for: no mixture of two ledgers, no other account's value.  (The lists of
\* accounts_receivable are matched with the accounts that have something to
\* receive: see ReceivablePerAccount.)
TrueOfOneLedger ==
    \A c \in Caller :
        Returned(c) /\ result(c).ok /\ ~AsksNothing(request[c]) =>
            \E L \in window[c] : Meets(L, request[c], result(c).value)

\* With an honest node, two blocks on the same previous are never both
\* reported as published, whoever raced, retried or gave up in between.
OneForkReported ==
    \A c, d \in Caller :
        /\ Answered(c, "process") /\ Answered(d, "process")
        /\ request[c].block.account = request[d].block.account
        /\ request[c].block.previous = request[d].block.previous
        => c = d

\* With an honest node, an answer that arrives is rejected only because the
\* node itself refused, or because blocks_info met a legacy block or blocks
\* whose balances add up to more than u128::MAX.
BlocksAsked(L, r) ==
    LET at(hash) == PositionOf(L, hash)
    IN  FlattenSeq([i \in DOMAIN r.hashes |->
                       IF OnLedger(L, r.hashes[i])
                       THEN <<L[at(r.hashes[i])[1]][at(r.hashes[i])[2]]>> ELSE <<>>])

FalseAlarmExpected(L, r) ==
    /\ r.method = "blocks_info"
    /\ \/ \E i \in DOMAIN BlocksAsked(L, r) : is_legacy(BlocksAsked(L, r)[i].block_type)
       \/ FoldLeft(LAMBDA sum, b : sum + b.balance, 0, BlocksAsked(L, r)) > MaxAmount

NoOtherFalseAlarm ==
    \A c \in Caller :
        Returned(c) /\ ~result(c).ok =>
            \/ response[c].raw_request = None   \* a legacy block to publish
            \/ response[c].raw_response = None  \* the connection failed
            \/ response[c].raw_response = Refusal
            \/ \E L \in window[c] : FalseAlarmExpected(L, request[c])

\* Under fairness of the node and of the runtime, and if connections fail,
\* every call returns (or unwinds): no call waits for another.
EveryCallEnds == \A c \in Caller : InProgress(c) ~> ~InProgress(c)

(***************************************************************************)
(* Statements of the docs that the code does not keep.                     *)
(***************************************************************************)
\* rpc/debug.rs:189 "For each account, returns the receivable transactions
\* as Vec<Receivable>".
ReceivablePerAccount ==
    \A c \in Caller :
        Answered(c, "accounts_receivable") =>
            Len(result(c).value) = Len(request[c].accounts)

\* rpc/debug.rs:238 "Legacy blocks, and blocks that don't exist, will
\* return None": asked for these only, an answer that arrives is a None each.
LegacyBlocksAreNone ==
    \A c \in Caller :
        LET r == request[c]
        IN  /\ Returned(c) /\ r.method = "blocks_info"
            /\ response[c].raw_response # None
            /\ \A L \in window[c], i \in DOMAIN r.hashes : InfoOf(L, r.hashes[i]) = None
            => result(c) = Ok([i \in DOMAIN r.hashes |-> None])
=============================================================================
