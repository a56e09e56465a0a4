-------------------------- MODULE RpcAnswerProofs --------------------------
(***************************************************************************)
(* What a call may make of an answer: theorems about RpcClient for any     *)
(* callers, requests, ledger and node.                                     *)
(***************************************************************************)
EXTENDS RpcClientProofs

-----------------------------------------------------------------------------
(***************************************************************************)
(* Ledgers.  Every block is on its own account's chain, signed, and names  *)
(* the one before it, so a hash is in one place.                           *)
(***************************************************************************)
Ledgers == [Account -> Seq(Known)]

\* The ledger, and every ledger that a call has seen.
LedgersValid == /\ ValidLedger(ledger)
                /\ \A c \in Caller : \A L \in window[c] : ValidLedger(L)

\* What a block that is accepted names is the block it goes after.
LEMMA ExtendValid ==
    ASSUME NEW L \in Ledgers, ValidLedger(L), NEW b \in Known, Accepts(L, b)
    PROVE  ValidLedger(Extend(L, b))
<1> DEFINE M == Extend(L, b)
<1>1. b.account \in Account /\ L[b.account] \in Seq(Known)
  BY KnownAssumption DEF Ledgers
<1>2. \A a \in Account : M[a] = IF a = b.account THEN Append(L[a], b) ELSE L[a]
  BY DEF Extend, Ledgers
<1>3. ASSUME NEW a \in Account, NEW i \in DOMAIN M[a]
      PROVE  InPlace(M[a], a, i)
  <2> HIDE DEF M
  <2>1. CASE a # b.account
    BY <1>2, <1>3, <2>1 DEF ValidLedger
  <2>2. CASE a = b.account
    <3> DEFINE chain == L[a]
               longer == M[a]
               n == Len(chain)
    <3>1. chain \in Seq(Known) /\ longer = Append(chain, b)
      BY <1>1, <1>2, <2>2
    <3>2. \A j \in DOMAIN chain : InPlace(chain, a, j)
      BY DEF ValidLedger
    <3> HIDE DEF chain, longer
    <3>3. /\ n \in Nat /\ DOMAIN chain = 1..n /\ i \in 1..(n + 1)
          /\ longer[n + 1] = b /\ \A j \in 1..n : longer[j] = chain[j]
      BY <1>3, <3>1 DEF longer
    <3>4. CASE i \in 1..n
      <4>1. i > 1 => i - 1 \in 1..n
        BY <3>3, <3>4
      <4>2. InPlace(longer, a, i)
        BY <3>2, <3>3, <3>4, <4>1 DEF InPlace
      <4> QED BY <4>2 DEF longer
    <3>5. CASE i = n + 1
      <4>1. longer[i] = b
        BY <3>3, <3>5
      <4>2. i > 1 => longer[i - 1] = chain[n] /\ n \in 1..n
        BY <3>3, <3>5
      <4>3. Opened(L, a) <=> i > 1
        BY <3>1, <3>3, <3>5 DEF Opened, chain
      <4>4. Opened(L, a) => Frontier(L, a) = node_hash(chain[n]) /\ BalanceOf(L, a) = chain[n].balance
        BY DEF Frontier, BalanceOf, Newest, chain
      <4>5. /\ b.previous = Frontier(L, a) /\ has_valid_signature(b)
            /\ b.block_type = "send" => Opened(L, a) /\ b.balance < BalanceOf(L, a)
        BY <2>2 DEF Accepts, FollowsSubtype
      <4>6. InPlace(longer, a, i)
        BY <2>2, <4>1, <4>2, <4>3, <4>4, <4>5 DEF InPlace
      <4> QED BY <4>6 DEF longer
    <3> QED BY <3>3, <3>4, <3>5
  <2> QED BY <2>1, <2>2
<1> QED BY <1>3 DEF ValidLedger

LEMMA LedgersValidStep ==
    TypeOK /\ LedgersValid /\ [Next]_vars => LedgersValid'
<1> SUFFICES ASSUME TypeOK, LedgersValid, [Next]_vars PROVE LedgersValid'
  OBVIOUS
<1> USE DEF LedgersValid
<1>1. ledger \in Ledgers
  BY DEF TypeOK, Ledgers
<1>2. ASSUME NEW L, ValidLedger(L), LedgerBecomes(L) PROVE LedgersValid'
  BY <1>2 DEF LedgerBecomes
<1>3. ASSUME NEW q, q \in {encode(r) : r \in Sendable}
      PROVE  ValidLedger(AfterRequest(ledger, q))
  BY <1>1, <1>3, AfterRequestKnown, ExtendValid
<1>4. ASSUME NEW c \in Caller, NEW r \in Request, ReturnAtOnce(c, r) \/ Send(c, r)
      PROVE  LedgersValid'
  <2>1. ledger' = ledger /\ \A d \in Caller : window'[d] \in {window[d], {ledger}}
    BY <1>4 DEF ReturnAtOnce, Send, TypeOK
  <2> QED BY <2>1
<1>5. ASSUME NEW c \in Caller, NodeHandles(c)
      PROVE  LedgersValid'
  <2>1. request[c] \in Sendable
    BY <1>5 DEF NodeHandles, Replies, TypeOK, InProgress
  <2> QED BY <1>2, <1>3, <1>5, <2>1 DEF NodeHandles
<1>6. ASSUME NEW c \in Caller, NodeErrs(c) \/ NodeLies(c) \/ Deliver(c) \/ ConnectionFails(c)
      PROVE  LedgersValid'
  BY <1>6 DEF NodeErrs, NodeLies, Deliver, ConnectionFails
<1>7. ASSUME NEW q \in adrift, NodeHandlesLate(q)
      PROVE  LedgersValid'
  BY <1>2, <1>3, <1>7 DEF NodeHandlesLate, TypeOK
<1>8. ASSUME NEW b \in Published, OthersPublish(b)
      PROVE  LedgersValid'
  BY <1>1, <1>2, <1>8, KnownSources, ExtendValid DEF OthersPublish
<1>9. CASE UNCHANGED vars
  BY <1>9 DEF vars
<1> HIDE DEF LedgersValid
<1> QED BY <1>4, <1>5, <1>6, <1>7, <1>8, <1>9 DEF Next

\* Every block of every ledger stays on its account's chain, after the block
\* it names.
THEOREM LedgersAlwaysValid == Spec => []LedgersValid
<1>1. Init => LedgersValid
  BY GenesisAssumption DEF Init, LedgersValid, ValidLedger
<1> QED BY <1>1, LedgersValidStep, TypeCorrect, PTL DEF Spec

\* A legacy block and a state block never have the same hash.
LEMMA HashTells ==
    ASSUME NEW b, NEW d, node_hash(b) = node_hash(d)
    PROVE  /\ is_legacy(b.block_type) <=> is_legacy(d.block_type)
           /\ hash_block(b) = hash_block(d)
           /\ b.account = d.account
<1>1. \A x, y, z : <<x, y>> # hash_block(z)
  BY DEF hash_block
<1>2. ASSUME hash_block(b) = hash_block(d) PROVE b.account = d.account
  BY <1>2 DEF hash_block
<1> QED BY <1>1, <1>2 DEF node_hash

\* Along a chain the heights of the hashes rise.
LEMMA ChainRises ==
    ASSUME NEW L \in Ledgers, ValidLedger(L), NEW a \in Account,
           NEW i \in DOMAIN L[a], NEW j \in DOMAIN L[a], i < j
    PROVE  Height[node_hash(L[a][i])] < Height[node_hash(L[a][j])]
<1> DEFINE chain == L[a]
           n == Len(chain)
           h(k) == Height[node_hash(chain[k])]
           S == {k \in Nat : i + k + 1 <= n => h(i) < h(i + k + 1)}
<1>1. chain \in Seq(Known) /\ n \in Nat /\ DOMAIN chain = 1..n
  BY DEF Ledgers
<1>2. \A k \in 1..n : chain[k] \in Known /\ h(k) \in Int
  BY <1>1, HeightRises DEF Hashes
<1>3. ASSUME NEW k \in 1..n, k + 1 <= n PROVE h(k) < h(k + 1)
  <2>1. k + 1 \in 1..n /\ k + 1 > 1 /\ (k + 1) - 1 = k
    BY <1>1, <1>3
  <2>2. chain[k + 1].previous = node_hash(chain[k])
    BY <1>1, <2>1 DEF ValidLedger, InPlace
  <2> QED BY <1>2, <2>1, <2>2, HeightRises
<1> HIDE DEF h, chain, n
<1>4. 0 \in S
  <2>1. i \in 1..n /\ i + 0 + 1 = i + 1
    BY <1>1 DEF chain
  <2> QED BY <1>3, <2>1
<1>5. ASSUME NEW k \in Nat, k \in S PROVE k + 1 \in S
  <2>1. ASSUME i + (k + 1) + 1 <= n PROVE h(i) < h(i + (k + 1) + 1)
    <3>1. i + k + 1 \in 1..n /\ (i + k + 1) + 1 = i + (k + 1) + 1 /\ i + (k + 1) + 1 \in 1..n
      BY <1>1, <2>1 DEF chain
    <3>2. h(i) < h(i + k + 1) /\ h(i + k + 1) < h(i + (k + 1) + 1)
      BY <1>1, <1>3, <1>5, <2>1, <3>1
    <3>3. i \in 1..n
      BY <1>1 DEF chain
    <3> QED BY <1>2, <3>1, <3>2, <3>3
  <2> QED BY <2>1
<1>6. j - i - 1 \in Nat /\ i + (j - i - 1) + 1 = j /\ j <= n
  BY <1>1 DEF chain
<1>7. j - i - 1 \in S
  <2>1. Nat \subseteq S
    <3> HIDE DEF S
    <3> QED BY <1>4, <1>5, Induction
  <2> HIDE DEF S
  <2> QED BY <1>6, <2>1
<1> QED BY <1>6, <1>7 DEF h, chain

\* A block is where it is and nowhere else.
LEMMA OnePosition ==
    ASSUME NEW L \in Ledgers, ValidLedger(L), NEW a \in Account, NEW i \in DOMAIN L[a]
    PROVE  /\ Positions(L, node_hash(L[a][i])) = {<<a, i>>}
           /\ OnLedger(L, node_hash(L[a][i]))
           /\ PositionOf(L, node_hash(L[a][i])) = <<a, i>>
<1> DEFINE P == Positions(L, node_hash(L[a][i]))
<1>1. <<a, i>> \in P
  BY DEF Positions
<1>2. ASSUME NEW p \in P PROVE p = <<a, i>>
  <2>1. PICK d \in Account : p \in {d} \X DOMAIN L[d]
    BY DEF Positions
  <2>2. PICK j \in DOMAIN L[d] : p = <<d, j>>
    BY <2>1
  <2>3. node_hash(L[d][j]) = node_hash(L[a][i])
    BY <2>2 DEF Positions
  <2>4. d = a
    <3>1. L[d][j].account = d /\ L[a][i].account = a
      BY DEF ValidLedger, InPlace
    <3> QED BY <2>3, <3>1, HashTells
  <2>5. /\ i \in Int /\ j \in Int
        /\ Height[node_hash(L[a][i])] \in Int
    <3>1. L[a] \in Seq(Known) /\ L[d] \in Seq(Known)
      BY DEF Ledgers
    <3>2. L[a][i] \in Known /\ i \in Int /\ j \in Int
      BY <3>1
    <3> QED BY <3>2, HeightRises DEF Hashes
  <2>6. ~(i < j) /\ ~(j < i)
    BY <2>3, <2>4, <2>5, ChainRises
  <2> QED BY <2>2, <2>4, <2>5, <2>6
<1>3. P = {<<a, i>>}
  BY <1>1, <1>2
<1> QED BY <1>3 DEF OnLedger, PositionOf

\* A hash on the ledger is that of the block at its position.
LEMMA PositionHolds ==
    ASSUME NEW L \in Ledgers, NEW hash, OnLedger(L, hash)
    PROVE  \E a \in Account : \E i \in DOMAIN L[a] :
              /\ PositionOf(L, hash) = <<a, i>>
              /\ node_hash(L[a][i]) = hash
              /\ L[a][i] \in Known
<1>1. PositionOf(L, hash) \in Positions(L, hash)
  BY DEF OnLedger, PositionOf
<1>2. PICK a \in Account : PositionOf(L, hash) \in {a} \X DOMAIN L[a]
  BY <1>1 DEF Positions
<1>3. PICK i \in DOMAIN L[a] : PositionOf(L, hash) = <<a, i>>
  BY <1>2
<1>4. node_hash(L[a][i]) = hash
  BY <1>1, <1>3 DEF Positions
<1>5. L[a][i] \in Known
  BY DEF Ledgers
<1> QED BY <1>3, <1>4, <1>5

-----------------------------------------------------------------------------
(***************************************************************************)
(* Blocks in answers.                                                      *)
(***************************************************************************)
\* A conversion that succeeds returns what it was given.
LEMMA ScalarsOk ==
    ASSUME NEW v
    PROVE  /\ bytes_from_json(v).ok => bytes_from_json(v) = Ok(v)
           /\ integer_from_json(v).ok => integer_from_json(v) = Ok(v)
           /\ u128_from_json(v).ok => u128_from_json(v) = Ok(v) /\ v \in Amount
           /\ account_from_json(v).ok => account_from_json(v) = Ok(v)
           /\ signature_from_json(v).ok =>
                 /\ signature_from_json(v) = Ok(v)
                 /\ v \notin {Null, Malformed, BadPoint}
BY DEF bytes_from_json, integer_from_json, u128_from_json, account_from_json,
   signature_from_json, Err, Ok, Panic

\* A block that parses has the fields of the text.
LEMMA ParsedBlock ==
    ASSUME NEW json, NEW type, block_from_json(json, type).ok
    PROVE  /\ block_from_json(json, type).value =
                [block_type     |-> type,
                 account        |-> At(json, "account"),
                 previous       |-> At(json, "previous"),
                 representative |-> At(json, "representative"),
                 balance        |-> At(json, "balance"),
                 link           |-> At(json, "link"),
                 signature      |-> At(json, "signature"),
                 work           |-> At(json, "work")]
           /\ At(json, "signature") \notin {Null, Malformed, BadPoint}
           /\ At(json, "balance") \in Amount
<1> DEFINE fields == <<account_from_json(At(json, "account")),
                       bytes_from_json(At(json, "previous")),
                       account_from_json(At(json, "representative")),
                       u128_from_json(At(json, "balance")),
                       bytes_from_json(At(json, "link")),
                       signature_from_json(At(json, "signature")),
                       bytes_from_json(At(json, "work"))>>
<1>1. /\ DOMAIN fields = 1..7
      /\ fields[1] = account_from_json(At(json, "account"))
      /\ fields[2] = bytes_from_json(At(json, "previous"))
      /\ fields[3] = account_from_json(At(json, "representative"))
      /\ fields[4] = u128_from_json(At(json, "balance"))
      /\ fields[5] = bytes_from_json(At(json, "link"))
      /\ fields[6] = signature_from_json(At(json, "signature"))
      /\ fields[7] = bytes_from_json(At(json, "work"))
  OBVIOUS
<1> DEFINE field == Collect(fields)
<1>2. /\ field.ok
      /\ block_from_json(json, type).value =
            [block_type     |-> type,           account   |-> field.value[1],
             previous       |-> field.value[2], representative |-> field.value[3],
             balance        |-> field.value[4], link      |-> field.value[5],
             signature      |-> field.value[6], work      |-> field.value[7]]
  <2>1. block_from_json(json, type) =
          IF ~field.ok THEN field
          ELSE Ok([block_type     |-> type,           account   |-> field.value[1],
                   previous       |-> field.value[2], representative |-> field.value[3],
                   balance        |-> field.value[4], link      |-> field.value[5],
                   signature      |-> field.value[6], work      |-> field.value[7]])
    BY DEF block_from_json
  <2> HIDE DEF field
  <2>2. field.ok
    BY <2>1
  <2> QED BY <2>1, <2>2 DEF Ok
<1>3. /\ \A i \in 1..7 : fields[i].ok
      /\ field.value = [i \in 1..7 |-> fields[i].value]
  <2> HIDE DEF fields
  <2> QED BY <1>1, <1>2, CollectOk
<1>4. /\ fields[1].ok /\ fields[2].ok /\ fields[3].ok /\ fields[4].ok /\ fields[5].ok
      /\ fields[6].ok /\ fields[7].ok
      /\ field.value[1] = fields[1].value /\ field.value[2] = fields[2].value
      /\ field.value[3] = fields[3].value /\ field.value[4] = fields[4].value
      /\ field.value[5] = fields[5].value /\ field.value[6] = fields[6].value
      /\ field.value[7] = fields[7].value
  <2> HIDE DEF fields, field
  <2> QED BY <1>3
<1> HIDE DEF fields, field
<1>5. /\ fields[1].value = At(json, "account")
      /\ fields[2].value = At(json, "previous")
      /\ fields[3].value = At(json, "representative")
      /\ fields[4].value = At(json, "balance")
      /\ fields[5].value = At(json, "link")
      /\ fields[6].value = At(json, "signature")
      /\ fields[7].value = At(json, "work")
      /\ At(json, "signature") \notin {Null, Malformed, BadPoint}
      /\ At(json, "balance") \in Amount
  BY <1>1, <1>4, ScalarsOk DEF Ok
<1> QED BY <1>2, <1>4, <1>5

\* Whatever its type is taken from.
LEMMA TypedBlock ==
    ASSUME NEW contents, NEW subtype, block_with_type(contents, subtype).ok
    PROVE  /\ block_with_type(contents, subtype)
                = block_from_json(contents, IF At(contents, "type") # "state"
                                            THEN Legacy(At(contents, "type"))
                                            ELSE subtype)
           /\ At(contents, "type") = "state" => subtype \in StateTypes
BY DEF block_with_type, from_subtype_string, Err

\* What BlocksWereSigned says of a block.
WasSigned(block) ==
    \/ \E b \in Known : is_state(b.block_type) /\ hash_block(b) = hash_block(block)
    \/ Signer(block) \in DOMAIN SmallKey

LEMMA NeverKeyless ==
    ASSUME NEW message, NEW signer, NEW R, NEW rest
    PROVE  sign_message(message, signer) # keyless(R, rest)
<1>1. "signer" \in DOMAIN sign_message(message, signer)
  BY DEF sign_message
<1>2. "signer" \notin DOMAIN keyless(R, rest)
  BY DEF keyless
<1> QED BY <1>1, <1>2

\* A signature that is there and is valid is that of a state block there is, or
\* needs no key.
LEMMA ValidIsSigned ==
    ASSUME NEW block, has_valid_signature(block),
           block.signature \in Signatures \ {Null, Malformed, BadPoint}
    PROVE  WasSigned(block)
<1> SUFFICES ASSUME Signer(block) \notin DOMAIN SmallKey
             PROVE  \E b \in Known : /\ is_state(b.block_type)
                                     /\ hash_block(b) = hash_block(block)
  BY DEF WasSigned
<1>0. block.signature = sign_message(hash_block(block), Signer(block))
  BY DEF has_valid_signature, is_valid_signature, IsKeyless
<1>1. PICK b \in Known, a \in Account : block.signature = sign_message(node_hash(b), a)
  BY <1>0, NeverKeyless DEF Signatures
<1>2. node_hash(b) = hash_block(block)
  BY <1>0, <1>1 DEF sign_message
<1>3. \A x, y, z : <<x, y>> # hash_block(z)
  BY DEF hash_block
<1>4. is_state(b.block_type)
  BY <1>2, <1>3 DEF node_hash, is_state
<1> QED BY <1>2, <1>4 DEF node_hash, is_state

\* The texts of an answer are signed by wallets or not at all.
TextsSigned(json) == \A text \in BlockTexts(json) : At(text, "signature") \in Signatures

\* A block taken from such a text.
LEMMA TextIsSigned ==
    ASSUME NEW text, At(text, "signature") \in Signatures, NEW subtype,
           block_with_type(text, subtype).ok, NEW block,
           block.signature = block_with_type(text, subtype).value.signature,
           has_valid_signature(block)
    PROVE  WasSigned(block)
<1>1. PICK type : block_with_type(text, subtype) = block_from_json(text, type)
  BY TypedBlock
<1>2. /\ block_from_json(text, type).value.signature = At(text, "signature")
      /\ At(text, "signature") \notin {Null, Malformed, BadPoint}
  <2>1. block_from_json(text, type).ok
    BY <1>1
  <2> DEFINE value == block_from_json(text, type).value
  <2>2. /\ value = [block_type     |-> type,
                    account        |-> At(text, "account"),
                    previous       |-> At(text, "previous"),
                    representative |-> At(text, "representative"),
                    balance        |-> At(text, "balance"),
                    link           |-> At(text, "link"),
                    signature      |-> At(text, "signature"),
                    work           |-> At(text, "work")]
        /\ At(text, "signature") \notin {Null, Malformed, BadPoint}
    BY <2>1, ParsedBlock
  <2> HIDE DEF value
  <2>3. value.signature = At(text, "signature")
    BY <2>2
  <2> QED BY <2>2, <2>3 DEF value
<1> QED BY <1>1, <1>2, ValidIsSigned

LEMMA HistorySigned ==
    ASSUME NEW json, TextsSigned(json), NEW account,
           parse_account_history(json, account).ok,
           NEW block \in ToSet(parse_account_history(json, account).value)
    PROVE  WasSigned(block)
<1> DEFINE blocks == parse_account_history(json, account).value
           history == At(json, "history")
<1>1. PICK i \in DOMAIN blocks : block = blocks[i]
  BY DEF ToSet
<1>2. /\ history # Null /\ i \in DOMAIN history
      /\ Parsed(json, i).ok
      /\ block = Renamed(json, account, i)
      /\ has_valid_signature(block)
  BY <1>1, HistoryRounds DEF Scanned
<1>3. At(history[i], "signature") \in Signatures
  BY <1>2 DEF TextsSigned, BlockTexts, Members
<1>4. PICK subtype : Parsed(json, i) = block_with_type(history[i], subtype)
  BY DEF Parsed, block_from_history_json
<1>5. block.signature = Parsed(json, i).value.signature
  BY <1>2 DEF Renamed
<1> QED BY <1>2, <1>3, <1>4, <1>5, TextIsSigned

LEMMA VerifiedInfo ==
    ASSUME NEW json, verified_info(json).ok
    PROVE  LET block == block_from_info_json(json)
           IN  /\ block.ok
               /\ has_valid_signature(block.value)
               /\ verified_info(json).value =
                     [height    |-> At(json, "height"),
                      timestamp |-> At(json, "local_timestamp"),
                      confirmed |-> At(json, "confirmed"),
                      block     |-> block.value]
<1> DEFINE block == block_from_info_json(json)
           fields == <<integer_from_json(At(json, "height")),
                       integer_from_json(At(json, "local_timestamp")),
                       integer_from_json(At(json, "confirmed"))>>
           field == Collect(fields)
<1>1. /\ block.ok /\ has_valid_signature(block.value)
      /\ verified_info(json) = block_info_from_json(json, block.value)
  <2> HIDE DEF block
  <2> QED BY DEF verified_info, Err, block
<1>2. /\ field.ok
      /\ block_info_from_json(json, block.value).value =
            [height |-> field.value[1], timestamp |-> field.value[2],
             confirmed |-> field.value[3], block |-> block.value]
  <2> HIDE DEF block
  <2>1. block_info_from_json(json, block.value) =
          IF ~field.ok THEN field
          ELSE Ok([height |-> field.value[1], timestamp |-> field.value[2],
                   confirmed |-> field.value[3], block |-> block.value])
    BY DEF block_info_from_json
  <2> HIDE DEF field
  <2>2. field.ok
    BY <1>1, <2>1
  <2> QED BY <2>1, <2>2 DEF Ok
<1>3. DOMAIN fields = 1..3
  OBVIOUS
<1>4. /\ \A i \in 1..3 : fields[i].ok
      /\ field.value = [i \in 1..3 |-> fields[i].value]
  <2> HIDE DEF fields
  <2> QED BY <1>2, <1>3, CollectOk
<1>5. /\ fields[1].ok /\ fields[2].ok /\ fields[3].ok
      /\ field.value[1] = fields[1].value
      /\ field.value[2] = fields[2].value
      /\ field.value[3] = fields[3].value
  <2> HIDE DEF fields, field
  <2> QED BY <1>4
<1>6. /\ fields[1].value = At(json, "height")
      /\ fields[2].value = At(json, "local_timestamp")
      /\ fields[3].value = At(json, "confirmed")
  BY <1>5, ScalarsOk DEF Ok
<1> HIDE DEF block, field, fields
<1> QED BY <1>1, <1>2, <1>5, <1>6 DEF block

LEMMA InfoSigned ==
    ASSUME NEW info, At(At(info, "contents"), "signature") \in Signatures,
           verified_info(info).ok
    PROVE  WasSigned(verified_info(info).value.block)
<1> DEFINE block == verified_info(info).value.block
<1>1. /\ block_from_info_json(info).ok
      /\ block = block_from_info_json(info).value
      /\ has_valid_signature(block)
  <2> DEFINE b == block_from_info_json(info)
  <2>1. /\ b.ok /\ has_valid_signature(b.value)
        /\ verified_info(info).value =
              [height    |-> At(info, "height"),
               timestamp |-> At(info, "local_timestamp"),
               confirmed |-> At(info, "confirmed"),
               block     |-> b.value]
    BY VerifiedInfo
  <2> HIDE DEF b
  <2>2. block = b.value
    BY <2>1
  <2> HIDE DEF block
  <2> QED BY <2>1, <2>2 DEF b
<1>2. PICK subtype : block_from_info_json(info)
                        = block_with_type(At(info, "contents"), subtype)
  BY DEF block_from_info_json
<1> HIDE DEF block
<1> QED BY <1>1, <1>2, TextIsSigned DEF block

\* An info that is found is that of an object of the answer.
ReadFrom(found, json) ==
    \E info \in Members(At(json, "blocks")) :
        verified_info(info).ok /\ found = verified_info(info).value

LEMMA InfosFound ==
    ASSUME NEW json, NEW T, NEW hashes \in Seq(T), parse_blocks_info(json, hashes).ok,
           NEW found \in ToSet(parse_blocks_info(json, hashes).value), found # None
    PROVE  ReadFrom(found, json)
<1> DEFINE n == Len(hashes)
           pushed == InfosPushed(json, hashes)
           flat == FlattenSeq(pushed)
           info(i) == InfoAt(json, hashes[i])
<1>1. parse_blocks_info(json, hashes) = Collect(flat)
  <2> HIDE DEF pushed
  <2>1. \/ parse_blocks_info(json, hashes) = Collect(FlattenSeq(pushed))
        \/ parse_blocks_info(json, hashes) = Err("InvalidData")
        \/ parse_blocks_info(json, hashes) = Err("InvalidJsonDataType")
    BY DEF parse_blocks_info, pushed, InfosPushed, InfoAt
  <2> QED BY <2>1 DEF Err
<1>0. PICK R : PushedIn(R, json, hashes)
  BY InfosPush
<1>2. /\ pushed \in [1..n -> Seq(R)]
      /\ n \in Nat
      /\ \A i \in 1..n : pushed[i] = IF info(i) = Null THEN <<Ok(None)>>
                                     ELSE IF is_legacy_info(info(i))
                                     THEN <<Ok(None), verified_info(info(i))>>
                                     ELSE <<verified_info(info(i))>>
  BY <1>0 DEF PushedIn
<1> HIDE DEF pushed
<1>3. \A k \in DOMAIN flat : IsElement(flat[k], n, pushed)
  BY <1>2, FlattenElements
<1> HIDE DEF flat
<1>4. /\ \A k \in DOMAIN flat : flat[k].ok
      /\ Collect(flat).value = [k \in DOMAIN flat |-> flat[k].value]
  BY <1>1, CollectOk
<1>5. PICK k \in DOMAIN flat : found = flat[k].value /\ flat[k].ok
  BY <1>1, <1>4 DEF ToSet
<1>6. PICK i \in 1..n : \E j \in DOMAIN pushed[i] : flat[k] = pushed[i][j]
  BY <1>3 DEF IsElement
<1> DEFINE v == verified_info(info(i))
<1> HIDE DEF info, v
<1>7. info(i) # Null /\ flat[k] = v
  <2>1. flat[k] # Ok(None)
    BY <1>5 DEF Ok
  <2>2. pushed[i] = IF info(i) = Null THEN <<Ok(None)>>
                    ELSE IF is_legacy_info(info(i)) THEN <<Ok(None), v>> ELSE <<v>>
    BY <1>2 DEF v
  <2>3. CASE info(i) = Null
    BY <1>6, <2>1, <2>2, <2>3
  <2>4. CASE info(i) # Null
    <3>1. \A j \in DOMAIN pushed[i] : pushed[i][j] \in {Ok(None), v}
      BY <2>2, <2>4
    <3> QED BY <1>6, <2>1, <2>4, <3>1
  <2> QED BY <2>3, <2>4
<1>8. info(i) \in Members(At(json, "blocks"))
  BY <1>7 DEF At, Members, InfoAt, info
<1> QED BY <1>5, <1>7, <1>8 DEF v, ReadFrom

-----------------------------------------------------------------------------
(***************************************************************************)
(* Answers of an honest node.                                              *)
(***************************************************************************)
\* The `top`, `last` and `size` of AnswerHistory.
TopOf(L, q)  == IF q.head = None THEN Len(L[q.account]) ELSE PositionOf(L, q.head)[2]
LastOf(L, q) == TopOf(L, q) - (IF q.offset = None THEN 0 ELSE q.offset)
SizeOf(L, q) == IF LastOf(L, q) < q.count THEN LastOf(L, q) ELSE q.count

\* A history is refused, or goes down the account's own chain from `top`.
LEMMA HistoryAnswered ==
    ASSUME NEW L \in Ledgers, ValidLedger(L), NEW q, q.account \in Account,
           q.count \in Nat, q.offset = None \/ q.offset \in Nat,
           AnswerHistory(L, q) # Refusal
    PROVE  /\ L[q.account] \in Seq(Known)
           /\ Len(L[q.account]) \in Nat
           /\ DOMAIN L[q.account] = 1..Len(L[q.account])
           /\ q.head # None => /\ TopOf(L, q) \in DOMAIN L[q.account]
                               /\ node_hash(L[q.account][TopOf(L, q)]) = q.head
           /\ TopOf(L, q) \in Nat /\ TopOf(L, q) <= Len(L[q.account])
           /\ LastOf(L, q) \in Int /\ LastOf(L, q) <= TopOf(L, q)
           /\ SizeOf(L, q) \in Int
           /\ AnswerHistory(L, q) =
                 [account |-> q.account,
                  history |-> [i \in 1..SizeOf(L, q) |->
                                 HistoryEntry(L[q.account][LastOf(L, q) + 1 - i])]]
<1> DEFINE chain == L[q.account]
<1>1. chain \in Seq(Known) /\ Len(chain) \in Nat /\ DOMAIN chain = 1..Len(chain)
  BY DEF Ledgers
<1>2. ~(q.head # None /\ ~ \E p \in Positions(L, q.head) : p[1] = q.account)
  BY DEF AnswerHistory
<1>3. AnswerHistory(L, q) =
        [account |-> q.account,
         history |-> [i \in 1..SizeOf(L, q) |-> HistoryEntry(chain[LastOf(L, q) + 1 - i])]]
  BY <1>2 DEF AnswerHistory, SizeOf, LastOf, TopOf
<1>4. ASSUME q.head # None
      PROVE  /\ TopOf(L, q) \in DOMAIN chain
             /\ node_hash(chain[TopOf(L, q)]) = q.head
  <2>1. PICK p \in Positions(L, q.head) : p[1] = q.account
    BY <1>2, <1>4
  <2>2. PICK a \in Account : p \in {a} \X DOMAIN L[a]
    BY <2>1 DEF Positions
  <2>3. p[2] \in DOMAIN chain /\ node_hash(chain[p[2]]) = q.head
    BY <2>1, <2>2 DEF Positions
  <2>4. PositionOf(L, q.head) = <<q.account, p[2]>>
    BY <2>3, OnePosition
  <2>5. TopOf(L, q) = p[2]
    BY <1>4, <2>4 DEF TopOf
  <2> QED BY <2>3, <2>5
<1>5. TopOf(L, q) \in Nat /\ TopOf(L, q) <= Len(chain)
  BY <1>1, <1>4 DEF TopOf
<1>6. LastOf(L, q) \in Int /\ LastOf(L, q) <= TopOf(L, q)
  BY <1>5 DEF LastOf
<1>7. SizeOf(L, q) \in Int
  BY <1>6 DEF SizeOf
<1> QED BY <1>1, <1>3, <1>4, <1>5, <1>6, <1>7

\* The arguments of a call that asks for a history.
LEMMA HistoryAsked ==
    ASSUME NEW r \in Request, r.method \in {"account_history", "account_representative"}
    PROVE  /\ encode(r).action = "account_history"
           /\ encode(r).account = r.account /\ r.account \in Account
           /\ encode(r).count \in Nat
           /\ encode(r).offset = None \/ encode(r).offset \in Nat
           /\ r.method = "account_history" => /\ encode(r).count = r.count
                                              /\ encode(r).head = r.head
                                              /\ encode(r).offset = r.offset
           /\ r.method = "account_representative" => /\ encode(r).count = 1
                                                     /\ encode(r).head = None
                                                     /\ encode(r).offset = None
BY RequestAssumption DEF encode, encode_account_history

\* What a node writes of a block carries the block's signature.
LEMMA EntrySigned ==
    ASSUME NEW b \in Known
    PROVE  /\ At(HistoryEntry(b), "signature") \in Signatures
           /\ At(Contents(b), "signature") \in Signatures
<1>1. "signature" \in DOMAIN Contents(b) /\ Contents(b).signature = b.signature
  BY DEF Contents, block_to_json
<1>2. /\ "signature" \in DOMAIN HistoryEntry(b)
      /\ HistoryEntry(b)["signature"] = b.signature
  BY <1>1 DEF HistoryEntry
<1>3. b.signature \in Signatures /\ Null \in Signatures
  BY SignatureAssumption DEF Signatures
<1> QED BY <1>1, <1>2, <1>3 DEF At

LEMMA NullIsSigned == At(Null, "signature") \in Signatures
BY DEF At, Signatures

LEMMA RefusalSigned == TextsSigned(Refusal)
<1>1. /\ At(Refusal, "history") = Null /\ At(Refusal, "contents") = Null
      /\ At(Refusal, "blocks") = Null
  BY DEF At, Refusal
<1> QED BY <1>1, NullIsSigned DEF TextsSigned, BlockTexts, Members

LEMMA HistoryAnswerSigned ==
    ASSUME NEW L \in Ledgers, ValidLedger(L), NEW q, q.account \in Account,
           q.count \in Nat, q.offset = None \/ q.offset \in Nat
    PROVE  TextsSigned(AnswerHistory(L, q))
<1>1. CASE AnswerHistory(L, q) = Refusal
  BY <1>1, RefusalSigned
<1>2. CASE AnswerHistory(L, q) # Refusal
  <2> DEFINE json == AnswerHistory(L, q)
             chain == L[q.account]
             last == LastOf(L, q)
             entries == [i \in 1..SizeOf(L, q) |-> HistoryEntry(chain[last + 1 - i])]
  <2>1. json = [account |-> q.account, history |-> entries]
    BY <1>2, HistoryAnswered
  <2>2. ASSUME NEW i \in 1..SizeOf(L, q)
        PROVE  At(HistoryEntry(chain[last + 1 - i]), "signature") \in Signatures
    <3>1. last + 1 - i \in DOMAIN chain /\ chain \in Seq(Known)
      BY <1>2, HistoryAnswered DEF SizeOf
    <3> QED BY <3>1, EntrySigned
  <2> HIDE DEF json, entries
  <2>3. /\ At(json, "history") \in {entries, Null}
        /\ At(json, "contents") = Null /\ At(json, "blocks") = Null
    BY <2>1 DEF At
  <2>4. \A text \in Members(entries) : At(text, "signature") \in Signatures
    BY <2>2 DEF Members, entries
  <2>5. TextsSigned(json)
    BY <2>3, <2>4, NullIsSigned DEF TextsSigned, BlockTexts, Members
  <2> QED BY <2>5 DEF json
<1> QED BY <1>1, <1>2

LEMMA InfoAnswerSigned ==
    ASSUME NEW L \in Ledgers, NEW hash, OnLedger(L, hash)
    PROVE  At(At(InfoEntry(L, PositionOf(L, hash)), "contents"), "signature") \in Signatures
<1>1. PICK a \in Account : \E i \in DOMAIN L[a] : /\ PositionOf(L, hash) = <<a, i>>
                                                  /\ L[a][i] \in Known
  BY PositionHolds
<1>2. PICK i \in DOMAIN L[a] : PositionOf(L, hash) = <<a, i>> /\ L[a][i] \in Known
  BY <1>1
<1>3. At(InfoEntry(L, PositionOf(L, hash)), "contents") \in {Contents(L[a][i]), Null}
  BY <1>2 DEF InfoEntry, At
<1> QED BY <1>2, <1>3, EntrySigned, NullIsSigned

\* The calls that return blocks.
LEMMA ReplySigned ==
    ASSUME TypeOK, RepliesInv, LedgersValid, NEW c \in Caller, stage[c] = "answered",
           request[c].method \in {"account_history", "block_info", "blocks_info"}
    PROVE  TextsSigned(reply[c])
<1>1. CASE reply[c] \in Lie
  BY <1>1, SignatureAssumption DEF TextsSigned
<1>2. CASE reply[c] = Refusal
  BY <1>2, RefusalSigned
<1>3. CASE HonestReply(c)
  <2> DEFINE q == encode(request[c])
             json == reply[c]
  <2>1. PICK L \in window[c] : json = Answer(L, q)
    BY <1>3 DEF HonestReply
  <2>2. L \in Ledgers /\ ValidLedger(L) /\ request[c] \in Request
    BY DEF TypeOK, Ledgers, LedgersValid
  <2>3. q.action = request[c].method
    BY <2>2, EncodedAction
  <2>4. CASE request[c].method = "account_history"
    <3>1. /\ q.account \in Account /\ q.count \in Nat
          /\ q.offset = None \/ q.offset \in Nat
      BY <2>2, <2>4, HistoryAsked
    <3> HIDE DEF q
    <3>2. json = AnswerHistory(L, q)
      BY <2>1, <2>3, <2>4 DEF Answer
    <3> QED BY <2>2, <3>1, <3>2, HistoryAnswerSigned
  <2> HIDE DEF q
  <2>5. CASE request[c].method = "block_info"
    <3> DEFINE hash == q.hash.bytes
               info == InfoEntry(L, PositionOf(L, hash))
    <3>1. json = IF OnLedger(L, hash) THEN info ELSE Refusal
      BY <2>1, <2>3, <2>5 DEF Answer
    <3>2. CASE OnLedger(L, hash)
      <4>1. /\ At(info, "history") = Null /\ At(info, "blocks") = Null
        BY DEF InfoEntry, At
      <4>2. At(At(info, "contents"), "signature") \in Signatures
        BY <2>2, <3>2, InfoAnswerSigned
      <4> HIDE DEF info
      <4> QED BY <3>1, <3>2, <4>1, <4>2 DEF TextsSigned, BlockTexts, Members
    <3> QED BY <3>1, <3>2, RefusalSigned
  <2>6. CASE request[c].method = "blocks_info"
    <3> DEFINE infos == [key \in {k \in ToSet(q.hashes) : OnLedger(L, k.bytes)} |->
                           InfoEntry(L, PositionOf(L, key.bytes))]
    <3>1. json = [blocks |-> infos]
      BY <2>1, <2>3, <2>6 DEF Answer, AnswerBlocks
    <3>2. \A info \in Members(infos) :
             At(At(info, "contents"), "signature") \in Signatures
      BY <2>2, InfoAnswerSigned DEF Members
    <3> HIDE DEF infos, json
    <3>3. /\ At(json, "blocks") \in {infos, Null}
          /\ At(json, "history") = Null /\ At(json, "contents") = Null
      BY <3>1 DEF At
    <3>4. TextsSigned(json)
      <4> SUFFICES ASSUME NEW text \in BlockTexts(json)
                   PROVE  At(text, "signature") \in Signatures
        BY DEF TextsSigned
      <4>1. CASE text = Null
        BY <4>1, NullIsSigned
      <4>2. ASSUME NEW info \in Members(infos), text = At(info, "contents")
            PROVE  At(text, "signature") \in Signatures
        BY <3>2, <4>2
      <4> QED BY <3>3, <4>1, <4>2 DEF BlockTexts, Members
    <3> QED BY <3>4 DEF json
  <2> QED BY <2>4, <2>5, <2>6
<1> QED BY <1>1, <1>2, <1>3 DEF RepliesInv, ReplyInv

\* A call returns blocks when it parses them.
LEMMA ReturnedBlocksSigned ==
    ASSUME NEW r \in Request, NEW json, TextsSigned(json), parse(r, json).ok,
           NEW block,
           \/ r.method = "account_history" /\ block \in ToSet(parse(r, json).value)
           \/ /\ r.method = "blocks_info"
              /\ \E info \in ToSet(parse(r, json).value) \ {None} : block = info.block
           \/ /\ r.method = "block_info"
              /\ parse(r, json).value # None /\ block = parse(r, json).value.block
    PROVE  WasSigned(block)
<1>1. CASE r.method = "account_history"
  BY <1>1, HistorySigned DEF parse
<1>2. CASE r.method = "blocks_info"
  <2>1. parse(r, json) = parse_blocks_info(json, r.hashes)
    BY <1>2 DEF parse
  <2>2. r.hashes \in Seq(ToSet(r.hashes))
    BY <1>2, RequestAssumption
  <2>3. PICK found \in ToSet(parse(r, json).value) \ {None} : block = found.block
    BY <1>2
  <2>4. PICK info \in Members(At(json, "blocks")) :
           verified_info(info).ok /\ found = verified_info(info).value
    <3>1. found \in ToSet(parse_blocks_info(json, r.hashes).value) /\ found # None
      BY <2>1, <2>3
    <3>2. parse_blocks_info(json, r.hashes).ok
      BY <2>1
    <3>3. ReadFrom(found, json)
      BY <2>2, <3>1, <3>2, InfosFound
    <3> QED BY <3>3 DEF ReadFrom
  <2>5. At(At(info, "contents"), "signature") \in Signatures
    BY DEF TextsSigned, BlockTexts
  <2> QED BY <2>3, <2>4, <2>5, InfoSigned
<1>3. CASE r.method = "block_info"
  <2>1. parse(r, json) = parse_block_info(json)
    BY <1>3 DEF parse
  <2>2. parse(r, json) = verified_info(json)
    BY <1>3, <2>1 DEF parse_block_info, Ok
  <2>3. At(At(json, "contents"), "signature") \in Signatures
    BY DEF TextsSigned, BlockTexts
  <2> QED BY <1>3, <2>2, <2>3, InfoSigned
<1> QED BY <1>1, <1>2, <1>3

\* Whatever a node answers, the contents of every block that a call returns are
\* those of a state block somebody signed, unless it is of an account of small
\* order, which needs nobody's key (nanopy.rs:144).
THEOREM BlocksAlwaysSigned == Spec => []BlocksWereSigned
<1>1. Init => RepliesInv /\ LedgersValid /\ BlocksWereSigned
  BY GenesisAssumption DEF Init, RepliesInv, ReplyInv, InProgress, LedgersValid, ValidLedger,
     BlocksWereSigned, BlocksReturned, Answered, Returned
<1>2. TypeOK /\ RepliesInv /\ LedgersValid /\ BlocksWereSigned /\ [Next]_vars
        => RepliesInv' /\ LedgersValid' /\ BlocksWereSigned'
  <2> SUFFICES ASSUME TypeOK, RepliesInv, LedgersValid, BlocksWereSigned, [Next]_vars,
                      NEW c \in Caller, NEW block \in BlocksReturned(c)'
               PROVE  WasSigned(block)
    BY RepliesInvStep, LedgersValidStep DEF BlocksWereSigned, WasSigned
  <2>1. /\ stage'[c] = "returned" /\ response'[c].result.ok
        /\ request'[c].method \in {"account_history", "blocks_info", "block_info"}
    BY DEF BlocksReturned, Answered, Returned, result
  <2>2. CASE UNCHANGED <<stage[c], request[c], response[c]>>
    <3>1. block \in BlocksReturned(c)
      BY <2>2 DEF BlocksReturned, Answered, Returned, result
    <3> QED BY <3>1 DEF BlocksWereSigned, WasSigned
  <2>3. CASE AsksNothing(request'[c]) /\ response'[c].result = Ok(<<>>)
    <3>1. request'[c].method = "blocks_info" /\ response'[c].result.value = <<>>
      BY <2>1, <2>3 DEF AsksNothing, ListMethods, Ok
    <3>2. BlocksReturned(c)' = {info.block : info \in ToSet(<<>>) \ {None}}
      BY <2>1, <3>1 DEF BlocksReturned, Answered, Returned, result
    <3> QED BY <3>2 DEF ToSet
  <2>4. CASE Deliver(c)
    <3> DEFINE r == request[c]
               value == parse(r, reply[c]).value
    <3>1. /\ stage[c] = "answered" /\ r \in Request /\ request'[c] = r
          /\ response'[c].result = parse(r, reply[c]) /\ parse(r, reply[c]).ok
      BY <2>1, <2>4 DEF Deliver, Response, TypeOK
    <3>2. TextsSigned(reply[c])
      BY <2>1, <3>1, ReplySigned
    <3> HIDE DEF r
    <3>3. \/ r.method = "account_history" /\ block \in ToSet(value)
          \/ /\ r.method = "blocks_info"
             /\ \E info \in ToSet(value) \ {None} : block = info.block
          \/ r.method = "block_info" /\ value # None /\ block = value.block
      BY <2>1, <3>1 DEF BlocksReturned, Answered, Returned, result
    <3> QED BY <3>1, <3>2, <3>3, ReturnedBlocksSigned
  <2> QED BY <2>1, <2>2, <2>3, <2>4, StepOfCaller
<1> QED BY <1>1, <1>2, TypeCorrect, PTL DEF Spec

-----------------------------------------------------------------------------
(***************************************************************************)
(* One entry per item, whatever a node leaves out.                         *)
(***************************************************************************)
\* A list whose rounds push one result each.
LEMMA OneEach ==
    ASSUME NEW n \in Nat, NEW results, results = [i \in 1..n |-> results[i]],
           Collect(results).ok
    PROVE  Len(Collect(results).value) = n
<1>1. Collect(results).value = [i \in DOMAIN results |-> results[i].value]
  BY CollectOk
<1>2. DOMAIN results = 1..n
  OBVIOUS
<1> DEFINE values == [i \in 1..n |-> results[i].value]
<1>3. values \in Seq({results[i].value : i \in 1..n}) /\ DOMAIN values = 1..n
  OBVIOUS
<1> HIDE DEF values
<1>4. Len(values) = n
  BY <1>3
<1> QED BY <1>1, <1>2, <1>4 DEF values

LEMMA OnePushEach ==
    ASSUME NEW n \in Nat, NEW pushed, pushed = [i \in 1..n |-> <<pushed[i][1]>>],
           Collect(FlattenSeq(pushed)).ok
    PROVE  Len(Collect(FlattenSeq(pushed)).value) = n
<1> DEFINE flat == [i \in 1..n |-> pushed[i][1]]
<1>1. FlattenSeq(pushed) = flat
  BY FlattenSingles
<1>2. flat = [i \in 1..n |-> flat[i]]
  OBVIOUS
<1> HIDE DEF flat
<1> QED BY <1>1, <1>2, OneEach

\* parse.rs:69-72: what is pushed for a missing balance is lost with the list.
LEMMA BalancesPerItem ==
    ASSUME NEW json, NEW T, NEW accounts \in Seq(T),
           parse_accounts_balances(json, accounts).ok
    PROVE  Len(parse_accounts_balances(json, accounts).value) = Len(accounts)
<1> DEFINE n == Len(accounts)
           balance(a) == At(At(At(json, "balances"), a), "balance")
           read(i) == u128_from_json(balance(accounts[i]))
           pushes(a)  == (IF balance(a) = Null THEN <<Ok(0)>> ELSE <<>>)
                         \o <<u128_from_json(balance(a))>>
           pushed == [i \in DOMAIN accounts |-> pushes(accounts[i])]
           R == {Ok(0)} \cup {read(i) : i \in 1..n}
<1>1. n \in Nat /\ DOMAIN accounts = 1..n
  OBVIOUS
<1>2. parse_accounts_balances(json, accounts) = Collect(FlattenSeq(pushed))
  BY DEF parse_accounts_balances
<1>3. ASSUME NEW i \in 1..n
      PROVE  /\ read(i) \in R
             /\ pushed[i] = IF balance(accounts[i]) = Null THEN <<Ok(0), read(i)>>
                            ELSE <<read(i)>>
  <2> DEFINE a == accounts[i]
             v == read(i)
  <2>1. pushed[i] = (IF balance(a) = Null THEN <<Ok(0)>> ELSE <<>>) \o <<v>>
    BY <1>1
  <2>2. v \in R
    OBVIOUS
  <2> HIDE DEF v, pushed, balance, R
  <2>3. <<>> \o <<v>> = <<v>> /\ <<Ok(0)>> \o <<v>> = <<Ok(0), v>>
    BY SmallAppends
  <2> QED BY <2>1, <2>2, <2>3 DEF v
<1>4. pushed \in [1..n -> Seq(R)]
  <2>1. DOMAIN pushed = 1..n /\ pushed = [i \in 1..n |-> pushed[i]]
    BY <1>1
  <2>2. Ok(0) \in R
    OBVIOUS
  <2> HIDE DEF pushed, read, R, balance
  <2>3. ASSUME NEW i \in 1..n PROVE pushed[i] \in Seq(R)
    <3>1. read(i) \in R /\ pushed[i] \in {<<Ok(0), read(i)>>, <<read(i)>>}
      BY <1>3
    <3>2. <<Ok(0), read(i)>> \in Seq(R) /\ <<read(i)>> \in Seq(R)
      BY <2>2, <3>1
    <3> QED BY <3>1, <3>2
  <2> QED BY <2>1, <2>3
<1>5. ASSUME NEW i \in 1..n PROVE balance(accounts[i]) # Null
  <2> SUFFICES ASSUME balance(accounts[i]) = Null PROVE FALSE
    OBVIOUS
  <2>1. ~read(i).ok
    BY NullAssumption DEF u128_from_json, Err
  <2> HIDE DEF pushed, read, R, balance
  <2>2. IsElement(read(i), n, pushed)
    <3>1. pushed[i] = <<Ok(0), read(i)>>
      BY <1>3
    <3>2. 2 \in DOMAIN pushed[i] /\ pushed[i][2] = read(i)
      BY <3>1
    <3> QED BY <3>2 DEF IsElement
  <2>3. read(i) \in ToSet(FlattenSeq(pushed))
    BY <1>1, <1>4, <2>2, FlattenElements
  <2>4. \A k \in DOMAIN FlattenSeq(pushed) : FlattenSeq(pushed)[k].ok
    BY <1>2, CollectOk
  <2> QED BY <2>1, <2>3, <2>4 DEF ToSet
<1>6. pushed = [i \in 1..n |-> <<pushed[i][1]>>]
  <2>1. pushed = [i \in 1..n |-> pushed[i]]
    BY <1>1
  <2> HIDE DEF pushed, read, R, balance
  <2>2. ASSUME NEW i \in 1..n PROVE pushed[i] = <<pushed[i][1]>>
    <3>1. pushed[i] = <<read(i)>>
      BY <1>3, <1>5
    <3> QED BY <3>1
  <2> QED BY <2>1, <2>2
<1> HIDE DEF pushed
<1> QED BY <1>1, <1>2, <1>6, OnePushEach

LEMMA InfosPerItem ==
    ASSUME NEW json, NEW T, NEW hashes \in Seq(T),
           parse_blocks_info(json, hashes).ok, ~LegacyInfoIn(json)
    PROVE  Len(parse_blocks_info(json, hashes).value) = Len(hashes)
<1> DEFINE n == Len(hashes)
           pushed == InfosPushed(json, hashes)
           info(i) == InfoAt(json, hashes[i])
<1>1. parse_blocks_info(json, hashes) = Collect(FlattenSeq(pushed))
  <2> HIDE DEF pushed
  <2>1. \/ parse_blocks_info(json, hashes) = Collect(FlattenSeq(pushed))
        \/ parse_blocks_info(json, hashes) = Err("InvalidData")
        \/ parse_blocks_info(json, hashes) = Err("InvalidJsonDataType")
    BY DEF parse_blocks_info, pushed, InfosPushed, InfoAt
  <2> QED BY <2>1 DEF Err
<1>2. PICK R : PushedIn(R, json, hashes)
  BY InfosPush
<1>3. /\ pushed \in [1..n -> Seq(R)]
      /\ n \in Nat
      /\ \A i \in 1..n : pushed[i] = IF info(i) = Null THEN <<Ok(None)>>
                                     ELSE IF is_legacy_info(info(i))
                                     THEN <<Ok(None), verified_info(info(i))>>
                                     ELSE <<verified_info(info(i))>>
  BY <1>2 DEF PushedIn
<1>4. ASSUME NEW i \in 1..n PROVE info(i) = Null \/ ~is_legacy_info(info(i))
  <2>1. info(i) # Null => info(i) \in Members(At(json, "blocks"))
    BY DEF At, Members, InfoAt
  <2> QED BY <2>1 DEF LegacyInfoIn
<1> HIDE DEF pushed, info
<1>5. \A i \in 1..n : pushed[i] = <<pushed[i][1]>>
  BY <1>3, <1>4
<1>6. pushed = [i \in 1..n |-> <<pushed[i][1]>>]
  BY <1>3, <1>5
<1> QED BY <1>1, <1>3, <1>6, OnePushEach

\* A list that a call parses.
LEMMA ParsedPerItem ==
    ASSUME NEW r \in Request, NEW json, parse(r, json).ok,
           r.method \in ListMethods \ {"accounts_receivable"},
           r.method = "blocks_info" => ~LegacyInfoIn(json)
    PROVE  Len(parse(r, json).value) = Len(ListOf(r))
<1>1. CASE r.method = "accounts_balances"
  <2>1. r.accounts \in Seq(Account)
    BY <1>1, RequestAssumption DEF ListMethods
  <2> QED BY <1>1, <2>1, BalancesPerItem DEF parse, ListOf
<1>2. CASE r.method = "accounts_frontiers"
  <2> DEFINE frontier(a) == At(At(json, "frontiers"), a)
             results == [i \in DOMAIN r.accounts |->
                            OptionOf(frontier(r.accounts[i]),
                                     bytes_from_json(frontier(r.accounts[i])))]
             n == Len(r.accounts)
  <2>1. n \in Nat /\ DOMAIN r.accounts = 1..n
    BY <1>2, RequestAssumption DEF ListMethods
  <2>2. parse(r, json) = Collect(results)
    BY <1>2 DEF parse, parse_accounts_frontiers
  <2>3. results = [i \in 1..n |-> results[i]]
    BY <2>1
  <2> HIDE DEF results
  <2> QED BY <1>2, <2>1, <2>2, <2>3, OneEach DEF ListOf
<1>3. CASE r.method = "accounts_representatives"
  <2> DEFINE representative(a) == At(At(json, "representatives"), a)
             results == [i \in DOMAIN r.accounts |->
                            OptionOf(representative(r.accounts[i]),
                                     account_from_json(representative(r.accounts[i])))]
             n == Len(r.accounts)
  <2>1. n \in Nat /\ DOMAIN r.accounts = 1..n
    BY <1>3, RequestAssumption DEF ListMethods
  <2>2. parse(r, json) = Collect(results)
    BY <1>3 DEF parse, parse_accounts_representatives
  <2>3. results = [i \in 1..n |-> results[i]]
    BY <2>1
  <2> HIDE DEF results
  <2> QED BY <1>3, <2>1, <2>2, <2>3, OneEach DEF ListOf
<1>4. CASE r.method = "blocks_info"
  <2>1. r.hashes \in Seq(ToSet(r.hashes))
    BY <1>4, RequestAssumption
  <2> QED BY <1>4, <2>1, InfosPerItem DEF parse, ListOf
<1> QED BY <1>1, <1>2, <1>3, <1>4 DEF ListMethods

\* Whatever a node answers or leaves out, a list of balances, frontiers,
\* representatives or block infos that a call returns has an entry per item asked
\* for (parse.rs:65-92, 121-138, 157-190).
THEOREM ListsAlwaysPerItem == Spec => []EntryPerItem
<1>1. Init => EntryPerItem
  BY DEF Init, EntryPerItem, Returned
<1>2. TypeOK /\ EntryPerItem /\ [Next]_vars => EntryPerItem'
  <2> SUFFICES ASSUME TypeOK, EntryPerItem, [Next]_vars, NEW c \in Caller,
                      stage'[c] = "returned", response'[c].result.ok,
                      request'[c].method \in ListMethods \ {"accounts_receivable"},
                      request'[c].method = "blocks_info" /\ ~AsksNothing(request'[c])
                         => ~LegacyInfoIn(response'[c].raw_response)
               PROVE  Len(response'[c].result.value) = Len(ListOf(request'[c]))
    BY DEF EntryPerItem, Returned, result
  <2>1. CASE UNCHANGED <<stage[c], request[c], response[c]>>
    BY <2>1 DEF EntryPerItem, Returned, result
  <2>2. CASE AsksNothing(request'[c]) /\ response'[c].result = Ok(<<>>)
    BY <2>2 DEF AsksNothing, Ok
  <2>3. CASE Deliver(c)
    <3> DEFINE r == request[c]
    <3>1. /\ r \in Request /\ r \in Sendable /\ request'[c] = r
          /\ response'[c].result = parse(r, reply[c])
          /\ response'[c].raw_response = reply[c]
      BY <2>3 DEF Deliver, Response, TypeOK, InProgress
    <3>2. ~AsksNothing(r)
      BY <3>1 DEF Sendable
    <3> HIDE DEF r
    <3> QED BY <3>1, <3>2, ParsedPerItem
  <2> QED BY <2>1, <2>2, <2>3, StepOfCaller
<1> QED BY <1>1, <1>2, TypeCorrect, PTL DEF Spec

-----------------------------------------------------------------------------
(***************************************************************************)
(* What an honest node's answer parses to.                                 *)
(***************************************************************************)
\* JSON null is neither an object nor an array, and None is no struct.
NoFunction(v) == v # [x \in DOMAIN v |-> v[x]]

\* What a call makes of an answer from the ledger L.
Made(L, r) == parse(r, Answer(L, encode(r)))

\* A key of an object that is not null.
LEMMA KeyOf ==
    ASSUME NoFunction(Null), NEW json, json = [x \in DOMAIN json |-> json[x]], NEW key
    PROVE  /\ json # Null
           /\ At(json, key) = IF key \in DOMAIN json THEN json[key] ELSE Null
BY DEF NoFunction, At

LEMMA RefusalKeys ==
    ASSUME NEW key, key # "error"
    PROVE  At(Refusal, key) = Null
BY DEF At, Refusal

\* What passes each conversion.
LEMMA ScalarsPass ==
    ASSUME NEW v
    PROVE  /\ v \notin {Null, Malformed} => bytes_from_json(v).ok /\ integer_from_json(v).ok
           /\ v \in Amount => u128_from_json(v).ok
           /\ v \in Account => account_from_json(v).ok
           /\ v \notin {Null, Malformed, BadPoint} => signature_from_json(v).ok
BY NullAssumption DEF bytes_from_json, integer_from_json, u128_from_json, account_from_json,
   signature_from_json, Ok

LEMMA CollectPasses ==
    ASSUME NEW results, \A i \in DOMAIN results : results[i].ok
    PROVE  Collect(results).ok
BY DEF Collect, Ok

\* Fields that pass make a block.
LEMMA BlockPasses ==
    ASSUME NEW json, NEW type,
           At(json, "account") \in Account, At(json, "representative") \in Account,
           At(json, "previous") \notin {Null, Malformed}, At(json, "balance") \in Amount,
           At(json, "link") \notin {Null, Malformed},
           At(json, "signature") \notin {Null, Malformed, BadPoint},
           At(json, "work") \notin {Null, Malformed}
    PROVE  block_from_json(json, type).ok
<1> DEFINE fields == <<account_from_json(At(json, "account")),
                       bytes_from_json(At(json, "previous")),
                       account_from_json(At(json, "representative")),
                       u128_from_json(At(json, "balance")),
                       bytes_from_json(At(json, "link")),
                       signature_from_json(At(json, "signature")),
                       bytes_from_json(At(json, "work"))>>
           field == Collect(fields)
<1>1. /\ account_from_json(At(json, "account")).ok
      /\ bytes_from_json(At(json, "previous")).ok
      /\ account_from_json(At(json, "representative")).ok
      /\ u128_from_json(At(json, "balance")).ok
      /\ bytes_from_json(At(json, "link")).ok
      /\ signature_from_json(At(json, "signature")).ok
      /\ bytes_from_json(At(json, "work")).ok
  BY ScalarsPass
<1>2. \A i \in DOMAIN fields : fields[i].ok
  BY <1>1
<1>3. field.ok
  <2> HIDE DEF fields
  <2> QED BY <1>2, CollectPasses
<1>4. block_from_json(json, type) =
        IF ~field.ok THEN field
        ELSE Ok([block_type     |-> type,           account   |-> field.value[1],
                 previous       |-> field.value[2], representative |-> field.value[3],
                 balance        |-> field.value[4], link      |-> field.value[5],
                 signature      |-> field.value[6], work      |-> field.value[7]])
  BY DEF block_from_json
<1> HIDE DEF field
<1> QED BY <1>3, <1>4 DEF Ok

\* A state block of a ledger has nothing in it that does not pass.
LEMMA LedgerBlock ==
    ASSUME NEW L \in Ledgers, ValidLedger(L), NEW a \in Account, NEW i \in DOMAIN L[a],
           is_state(L[a][i].block_type)
    PROVE  LET b == L[a][i]
           IN  /\ b \in Known /\ has_valid_signature(b)
               /\ b.representative \in Account /\ b.account \in Account
               /\ Signer(b) \in Account
               /\ {b.previous, b.link, b.work} \cap {Null, Malformed} = {}
               /\ b.balance \in Amount
               /\ b.signature \notin {Null, Malformed, BadPoint}
<1> DEFINE b == L[a][i]
<1>1. b \in Known
  BY DEF Ledgers
<1>2. has_valid_signature(b)
  BY DEF ValidLedger, InPlace
<1> HIDE DEF b
<1>3. Signer(b) \in Account
  BY <1>1, KnownAssumption, SignerAssumption DEF Signer
<1>4. hash_block(b) \in Hashes
  <2>1. hash_block(b) = node_hash(b)
    BY DEF node_hash, is_state, b
  <2> QED BY <1>1, <2>1 DEF Hashes
<1>5. b.signature \notin {Null, Malformed, BadPoint}
  BY <1>1, <1>2, <1>3, <1>4, NullAssumption DEF has_valid_signature, is_valid_signature
<1>6. /\ b.representative \in Account /\ b.account \in Account /\ b.balance \in Amount
      /\ {b.previous, b.link, b.work} \cap {Null, Malformed} = {}
  BY <1>1, KnownAssumption
<1> QED BY <1>1, <1>2, <1>3, <1>5, <1>6 DEF b

LEMMA BalanceIsAmount ==
    ASSUME NEW L \in Ledgers, NEW a \in Account
    PROVE  BalanceOf(L, a) \in Amount /\ BalanceOf(L, a) # Null
<1>1. Opened(L, a) => Newest(L, a) \in Known
  BY DEF Opened, Newest, Ledgers
<1>2. 0 \in Amount
  BY AmountAssumption DEF Amount
<1>3. BalanceOf(L, a) \in Amount
  BY <1>1, <1>2, KnownAssumption DEF BalanceOf
<1> QED BY <1>3, NullAssumption

LEMMA BalanceTrue ==
    ASSUME NoFunction(Null), NEW L \in Ledgers, NEW r \in Sendable,
           r.method = "account_balance"
    PROVE  Made(L, r).ok /\ Meets(L, r, Made(L, r).value)
<1> DEFINE json == [balance |-> BalanceOf(L, r.account)]
<1>1. Answer(L, encode(r)) = json
  BY DEF encode, encode_account_balance, Answer
<1>2. At(json, "balance") = BalanceOf(L, r.account)
  BY KeyOf
<1> HIDE DEF json
<1>3. Made(L, r) = u128_from_json(BalanceOf(L, r.account))
  BY <1>1, <1>2 DEF Made, parse, parse_account_balance
<1>4. Made(L, r).ok
  <2>1. r.account \in Account
    BY RequestAssumption DEF Sendable
  <2> QED BY <1>3, <2>1, BalanceIsAmount, ScalarsPass
<1>5. Made(L, r).value = BalanceOf(L, r.account)
  BY <1>3, <1>4, ScalarsOk DEF Ok
<1> QED BY <1>4, <1>5 DEF Meets

LEMMA ProcessTrue ==
    ASSUME NoFunction(Null), NEW L \in Ledgers, NEW r \in Sendable,
           r.method = "process"
    PROVE  \/ Answer(L, encode(r)) = Refusal /\ ~Made(L, r).ok
           \/ Made(L, r).ok /\ Meets(AfterRequest(L, encode(r)), r, Made(L, r).value)
<1> DEFINE q == encode(r)
           b == r.block
           M == AfterRequest(L, q)
<1>1. r \in Request /\ is_state(b.block_type)
  BY DEF Sendable, RefusesLegacy
<1>2. BlockOf(q) = b /\ b \in Known /\ q.action = "process"
  BY <1>1, ProcessCarriesBlock, KnownSources, EncodedAction
<1> HIDE DEF q
<1>3. Made(L, r) = parse_process(Answer(L, q), hash_block(b))
  BY DEF Made, parse, q
<1>4. CASE ~Accepts(L, b)
  <2>1. Answer(L, q) = Refusal
    BY <1>2, <1>4 DEF Answer
  <2>2. ~parse_process(Refusal, hash_block(b)).ok
    <3>1. At(Refusal, "hash") = Null
      BY RefusalKeys
    <3> QED BY <3>1 DEF parse_process, bytes_from_json, Err
  <2> QED BY <1>3, <2>1, <2>2 DEF q
<1>0. SUFFICES ASSUME Accepts(L, b)
               PROVE  Made(L, r).ok /\ Meets(M, r, Made(L, r).value)
  BY <1>4 DEF q
<1>5. Made(L, r).ok /\ Made(L, r).value = hash_block(b)
  <2> DEFINE rpc_hash == hash_block(b)
             json == [hash |-> rpc_hash]
  <2>1. Answer(L, q) = json
    BY <1>0, <1>2 DEF Answer
  <2>2. rpc_hash \notin {Null, Malformed}
    <3>1. rpc_hash = node_hash(b)
      BY <1>1 DEF node_hash, is_state
    <3>2. rpc_hash \in Hashes
      BY <1>2, <3>1 DEF Hashes
    <3> QED BY <3>2, NullAssumption
  <2>3. Made(L, r) = parse_process(json, rpc_hash)
    BY <1>3, <2>1
  <2> HIDE DEF rpc_hash
  <2>4. At(json, "hash") = rpc_hash
    BY KeyOf
  <2> HIDE DEF json
  <2> DEFINE read == bytes_from_json(At(json, "hash"))
  <2>5. read = Ok(rpc_hash)
    BY <2>2, <2>4 DEF bytes_from_json
  <2>6. Made(L, r) = IF read.ok /\ read.value # rpc_hash THEN Err("InvalidData") ELSE read
    BY <2>3 DEF parse_process
  <2> HIDE DEF read
  <2> QED BY <2>5, <2>6 DEF Ok, rpc_hash
<1>6. M = Extend(L, b)
  BY <1>0, <1>2 DEF AfterRequest
<1>7. OnLedger(M, hash_block(b))
  <2> DEFINE n == Len(L[b.account]) + 1
  <2>1. b.account \in Account /\ L[b.account] \in Seq(Known)
    BY <1>2, KnownAssumption DEF Ledgers
  <2>2. M[b.account] = Append(L[b.account], b)
    BY <1>6, <2>1 DEF Extend, Ledgers
  <2>3. n \in DOMAIN M[b.account] /\ M[b.account][n] = b
    <3> DEFINE chain == L[b.account]
    <3>1. chain \in Seq(Known) /\ M[b.account] = Append(chain, b)
      BY <2>1, <2>2
    <3> HIDE DEF chain, M
    <3>2. DOMAIN Append(chain, b) = 1..(Len(chain) + 1)
          /\ Append(chain, b)[Len(chain) + 1] = b /\ Len(chain) \in Nat
      BY <1>2, <3>1
    <3> QED BY <3>1, <3>2 DEF chain
  <2>4. node_hash(b) = hash_block(b)
    BY <1>1 DEF node_hash, is_state
  <2> HIDE DEF n, M
  <2>5. <<b.account, n>> \in Positions(M, hash_block(b))
    BY <2>1, <2>3, <2>4 DEF Positions
  <2> QED BY <2>5 DEF OnLedger, M
<1> HIDE DEF M
<1>8. Meets(M, r, Made(L, r).value)
  BY <1>5, <1>7 DEF Meets
<1> QED BY <1>5, <1>8 DEF M, q

LEMMA WorkTrue ==
    ASSUME NoFunction(Null), NEW L \in Ledgers, NEW r \in Sendable,
           r.method = "work_generate"
    PROVE  \/ Answer(L, encode(r)) = Refusal /\ ~Made(L, r).ok
           \/ Made(L, r).ok /\ Meets(L, r, Made(L, r).value)
<1> DEFINE q == encode(r)
           goal == IF r.difficulty = None THEN 1 ELSE r.difficulty
           found == {n \in Nonce : check_work(r.hash, goal, n)}
           w == CHOOSE n \in found : TRUE
           json == AnswerWork(q)
           work == bytes_from_json(At(json, "work"))
<1>1. q = encode_work_generate(r.hash, r.difficulty)
  BY DEF encode
<1>2. Answer(L, q) = json
  BY <1>1 DEF Answer, encode_work_generate
<1>3. json = IF found = {} THEN Refusal
             ELSE [work |-> w, difficulty |-> blake2b_work(r.hash, w)]
  <2>1. q.hash.bytes = r.hash /\ q.difficulty = r.difficulty
    BY <1>1 DEF encode_work_generate, to_uppercase_hex
  <2> HIDE DEF q
  <2> QED BY <2>1 DEF AnswerWork
<1> HIDE DEF json
<1>4. Made(L, r) = parse_work_generate(json, r.hash, r.difficulty)
  BY <1>2 DEF Made, parse
<1>5. CASE found = {}
  <2>1. json = Refusal
    BY <1>3, <1>5
  <2>2. At(json, "work") = Null
    BY <2>1, RefusalKeys
  <2>3. ~work.ok
    BY <2>2 DEF bytes_from_json, Err
  <2>4. ~Made(L, r).ok
    BY <1>4, <2>3 DEF parse_work_generate
  <2> QED BY <1>2, <2>1, <2>4
<1>6. CASE found # {}
  <2> DEFINE own == blake2b_work(r.hash, w)
             difficulty == target_difficulty(json, r.difficulty)
  <2>1. w \in Nonce /\ check_work(r.hash, goal, w)
    <3>1. w \in found
      <4> HIDE DEF found
      <4> QED BY <1>6
    <3> HIDE DEF w
    <3> QED BY <3>1
  <2>2. own \in Nat /\ own \notin {Null, Malformed} /\ w \notin {Null, Malformed}
    <3>1. own \in 0..MaxWork
      BY <2>1, RequestAssumption DEF Sendable
    <3> QED BY <2>1, <3>1, AmountAssumption, NullAssumption
  <2>3. At(json, "work") = w /\ At(json, "difficulty") = own
    <3> HIDE DEF found, w, own
    <3>1. json = [work |-> w, difficulty |-> own]
      BY <1>3, <1>6 DEF own
    <3> QED BY <3>1, KeyOf
  <2> HIDE DEF w, own
  <2>4. work = Ok(w) /\ bytes_from_json(At(json, "difficulty")) = Ok(own)
    BY <2>2, <2>3 DEF bytes_from_json
  <2>5. difficulty.ok /\ difficulty.value = IF r.difficulty # None THEN r.difficulty ELSE own
    BY <2>4 DEF target_difficulty, Ok
  <2>6. check_work(r.hash, difficulty.value, w)
    <3>1. CASE r.difficulty # None
      BY <2>1, <2>5, <3>1
    <3>2. CASE r.difficulty = None
      BY <2>2, <2>5, <3>2 DEF check_work, own
    <3> QED BY <3>1, <3>2
  <2>7. Made(L, r) = IF ~work.ok THEN work
                     ELSE IF ~difficulty.ok THEN difficulty
                     ELSE IF check_work(r.hash, difficulty.value, work.value) THEN work
                     ELSE Err("InvalidData")
    BY <1>4 DEF parse_work_generate
  <2> HIDE DEF work, difficulty
  <2>8. Made(L, r).ok /\ Made(L, r).value = w
    BY <2>4, <2>5, <2>6, <2>7 DEF Ok
  <2>9. Meets(L, r, w)
    BY <2>1 DEF Meets
  <2> QED BY <2>8, <2>9
<1> QED BY <1>5, <1>6

LEMMA InfoTrue ==
    ASSUME NoFunction(Null), NoFunction(None), NEW L \in Ledgers, NEW r \in Sendable,
           r.method = "account_info"
    PROVE  Made(L, r).ok /\ Meets(L, r, Made(L, r).value)
<1> DEFINE a == r.account
           json == AnswerInfo(L, a)
           fields == <<bytes_from_json(At(json, "frontier")),
                       bytes_from_json(At(json, "open_block")),
                       u128_from_json(At(json, "balance")),
                       integer_from_json(At(json, "modified_timestamp")),
                       integer_from_json(At(json, "block_count")),
                       integer_from_json(At(json, "account_version")),
                       account_from_json(At(json, "representative")),
                       u128_from_json(At(json, "weight")),
                       integer_from_json(At(json, "receivable"))>>
           field == Collect(fields)
           read == [frontier           |-> field.value[1],
                    open_block         |-> field.value[2],
                    balance            |-> field.value[3],
                    modified_timestamp |-> field.value[4],
                    block_count        |-> field.value[5],
                    version            |-> field.value[6],
                    representative     |-> field.value[7],
                    weight             |-> field.value[8],
                    receivable         |-> field.value[9]]
<1>1. Answer(L, encode(r)) = json
  BY DEF encode, encode_account_info, Answer
<1>2. Made(L, r) = IF At(json, "error") # Null THEN Ok(None)
                   ELSE IF ~field.ok THEN field ELSE Ok(read)
  <2> HIDE DEF json
  <2>1. Made(L, r) = parse_account_info(json)
    BY <1>1 DEF Made, parse
  <2> QED BY <2>1 DEF parse_account_info
<1>3. /\ DOMAIN fields = 1..9
      /\ fields[1] = bytes_from_json(At(json, "frontier"))
      /\ fields[2] = bytes_from_json(At(json, "open_block"))
      /\ fields[3] = u128_from_json(At(json, "balance"))
      /\ fields[4] = integer_from_json(At(json, "modified_timestamp"))
      /\ fields[5] = integer_from_json(At(json, "block_count"))
      /\ fields[6] = integer_from_json(At(json, "account_version"))
      /\ fields[7] = account_from_json(At(json, "representative"))
      /\ fields[8] = u128_from_json(At(json, "weight"))
      /\ fields[9] = integer_from_json(At(json, "receivable"))
  <2> HIDE DEF json
  <2> QED OBVIOUS
<1>4. a \in Account
  BY RequestAssumption DEF Sendable
<1>5. CASE ~Opened(L, a)
  <2>1. json = Refusal
    BY <1>5 DEF AnswerInfo
  <2>2. At(json, "error") # Null
    <3>1. At(json, "error") = Refusal.error
      BY <2>1, KeyOf DEF Refusal
    <3> QED BY <3>1, NullAssumption
  <2> HIDE DEF json, field, read
  <2>3. Made(L, r) = Ok(None)
    BY <1>2, <2>2
  <2> QED BY <1>5, <2>3 DEF Meets, Ok
<1>6. CASE Opened(L, a)
  <2>1. json = [frontier           |-> Frontier(L, a),
                open_block         |-> node_hash(L[a][1]),
                balance            |-> BalanceOf(L, a),
                modified_timestamp |-> Len(L[a]),
                block_count        |-> Len(L[a]),
                account_version    |-> 2,
                representative     |-> Newest(L, a).representative,
                weight             |-> 0,
                receivable         |-> Cardinality(ReceivableBy(L, a))]
    BY <1>6 DEF AnswerInfo
  <2> HIDE DEF json
  <2>2. /\ At(json, "error") = Null
        /\ At(json, "frontier") = Frontier(L, a)
        /\ At(json, "open_block") = node_hash(L[a][1])
        /\ At(json, "balance") = BalanceOf(L, a)
        /\ At(json, "modified_timestamp") = Len(L[a])
        /\ At(json, "block_count") = Len(L[a])
        /\ At(json, "account_version") = 2
        /\ At(json, "representative") = Newest(L, a).representative
        /\ At(json, "weight") = 0
        /\ At(json, "receivable") = Cardinality(ReceivableBy(L, a))
    <3>1. json # Null
      BY <2>1 DEF NoFunction
    <3> QED BY <2>1, <3>1 DEF At
  <2>3. /\ {Frontier(L, a), node_hash(L[a][1])} \subseteq Hashes
        /\ BalanceOf(L, a) \in Amount /\ 0 \in Amount
        /\ Len(L[a]) \in Nat /\ Cardinality(ReceivableBy(L, a)) \in Nat
        /\ Newest(L, a).representative \in Account
    <3>1. L[a] \in Seq(Known) /\ L[a] # <<>>
      BY <1>4, <1>6 DEF Ledgers, Opened
    <3>2. L[a][1] \in Known /\ Newest(L, a) \in Known /\ Len(L[a]) \in Nat
      BY <3>1 DEF Newest
    <3>3. Cardinality(ReceivableBy(L, a)) \in Nat
      BY ReceivableIsFinite, FS_CardinalityType DEF Ledgers
    <3>4. Frontier(L, a) \in Hashes
      BY <1>4, FrontierIsHash DEF Ledgers
    <3>5. 0 \in Amount
      BY AmountAssumption DEF Amount
    <3> QED BY <1>4, <3>2, <3>3, <3>4, <3>5, BalanceIsAmount, KnownAssumption DEF Hashes
  <2> DEFINE passes(v) == v \notin {Null, Malformed}
  <2>4. /\ passes(Frontier(L, a)) /\ passes(node_hash(L[a][1])) /\ passes(Len(L[a]))
        /\ passes(2) /\ passes(Cardinality(ReceivableBy(L, a)))
    <3>1. \A v : v \in Nat \/ v \in Hashes => passes(v)
      <4>1. {Null, Malformed} \cap (Nat \cup BOOLEAN \cup Nonce \cup Hashes) = {}
        BY NullAssumption
      <4> QED BY <4>1
    <3>2. Frontier(L, a) \in Hashes /\ node_hash(L[a][1]) \in Hashes /\ 2 \in Nat
      BY <2>3
    <3> HIDE DEF passes
    <3> QED BY <2>3, <3>1, <3>2
  <2>5. \A i \in 1..9 : fields[i].ok
    <3> HIDE DEF fields
    <3>1. fields[1].ok /\ fields[2].ok /\ fields[4].ok /\ fields[5].ok /\ fields[6].ok
          /\ fields[9].ok
      BY <1>3, <2>2, <2>4, ScalarsPass
    <3>2. fields[3].ok /\ fields[7].ok /\ fields[8].ok
      BY <1>3, <2>2, <2>3, ScalarsPass
    <3> QED BY <3>1, <3>2
  <2>6. field.ok /\ field.value = [i \in 1..9 |-> fields[i].value]
    <3> HIDE DEF fields
    <3> QED BY <1>3, <2>5, CollectPasses, CollectOk
  <2>7. Made(L, r) = Ok(read)
    <3> HIDE DEF field, read
    <3> QED BY <1>2, <2>2, <2>6
  <2>8. /\ field.value[1] = Frontier(L, a)
        /\ field.value[2] = node_hash(L[a][1])
        /\ field.value[3] = BalanceOf(L, a)
        /\ field.value[5] = Len(L[a])
        /\ field.value[7] = Newest(L, a).representative
        /\ field.value[9] = Cardinality(ReceivableBy(L, a))
    <3> HIDE DEF fields, field
    <3>1. /\ fields[1].ok /\ field.value[1] = fields[1].value
          /\ fields[2].ok /\ field.value[2] = fields[2].value
          /\ fields[3].ok /\ field.value[3] = fields[3].value
          /\ fields[5].ok /\ field.value[5] = fields[5].value
          /\ fields[7].ok /\ field.value[7] = fields[7].value
          /\ fields[9].ok /\ field.value[9] = fields[9].value
      BY <2>5, <2>6
    <3> QED BY <1>3, <2>2, <3>1, ScalarsOk DEF Ok
  <2>9. read # None
    BY DEF NoFunction
  <2> HIDE DEF field
  <2>10. /\ read.frontier = Frontier(L, a) /\ read.open_block = node_hash(L[a][1])
         /\ read.balance = BalanceOf(L, a) /\ read.block_count = Len(L[a])
         /\ read.representative = Newest(L, a).representative
         /\ read.receivable = Cardinality(ReceivableBy(L, a))
    BY <2>8
  <2> HIDE DEF read
  <2>11. Made(L, r).ok /\ Made(L, r).value = read
    BY <2>7 DEF Ok
  <2> QED BY <1>6, <2>9, <2>10, <2>11 DEF Meets, RepresentativeOf
<1> QED BY <1>5, <1>6

\* What a node writes of a state block reads as the block.
LEMMA EntryRead ==
    ASSUME NoFunction(Null), NEW b \in Known
    PROVE  /\ HistoryEntry(b) # Null /\ Contents(b) # Null
           /\ At(HistoryEntry(b), "type") = "state" <=> is_state(b.block_type)
           /\ At(Contents(b), "type") = "state" <=> is_state(b.block_type)
           /\ is_state(b.block_type) =>
                 /\ At(HistoryEntry(b), "subtype") = b.block_type
                 /\ At(HistoryEntry(b), "previous") = b.previous
                 /\ At(HistoryEntry(b), "representative") = b.representative
                 /\ At(HistoryEntry(b), "balance") = b.balance
                 /\ At(HistoryEntry(b), "link") = b.link
                 /\ At(HistoryEntry(b), "signature") = b.signature
                 /\ At(HistoryEntry(b), "work") = b.work
                 /\ At(Contents(b), "account") = b.account
                 /\ At(Contents(b), "previous") = b.previous
                 /\ At(Contents(b), "representative") = b.representative
                 /\ At(Contents(b), "balance") = b.balance
                 /\ At(Contents(b), "link") = b.link
                 /\ At(Contents(b), "signature") = b.signature
                 /\ At(Contents(b), "work") = b.work
           /\ is_legacy(b.block_type) => At(Contents(b), "balance") = Null
<1> DEFINE c == Contents(b)
           h == HistoryEntry(b)
<1>1. type_string(b.block_type) # "state"
  <2>1. "state" \notin StateTypes
    BY DEF StateTypes
  <2>2. b.block_type # "state"
    BY KnownAssumption
  <2> QED BY <2>1, <2>2 DEF type_string
<1>2. CASE is_state(b.block_type)
  <2>1. c = [type           |-> "state",
             account        |-> b.account,        previous  |-> b.previous,
             representative |-> b.representative, balance   |-> b.balance,
             link           |-> b.link,           signature |-> b.signature,
             work           |-> b.work]
    BY <1>2 DEF Contents, block_to_json, is_state
  <2> HIDE DEF c
  <2>2. c # Null
    BY <2>1 DEF NoFunction
  <2>3. /\ At(c, "type") = "state" /\ At(c, "account") = b.account
        /\ At(c, "previous") = b.previous /\ At(c, "representative") = b.representative
        /\ At(c, "balance") = b.balance /\ At(c, "link") = b.link
        /\ At(c, "signature") = b.signature /\ At(c, "work") = b.work
    BY <2>1, <2>2 DEF At
  <2>4. /\ h = [x \in DOMAIN h |-> h[x]]
        /\ DOMAIN h = DOMAIN c \cup {"subtype"}
        /\ h["subtype"] = b.block_type
        /\ \A x \in DOMAIN c \ {"account", "subtype"} : h[x] = c[x]
    BY DEF HistoryEntry, c
  <2> HIDE DEF h
  <2>5. h # Null
    BY <2>4 DEF NoFunction
  <2>6. /\ At(h, "type") = "state" /\ At(h, "subtype") = b.block_type
        /\ At(h, "previous") = b.previous /\ At(h, "representative") = b.representative
        /\ At(h, "balance") = b.balance /\ At(h, "link") = b.link
        /\ At(h, "signature") = b.signature /\ At(h, "work") = b.work
    <3>1. /\ DOMAIN c = {"type", "account", "previous", "representative", "balance",
                         "link", "signature", "work"}
          /\ c["type"] = "state" /\ c["previous"] = b.previous
          /\ c["representative"] = b.representative /\ c["balance"] = b.balance
          /\ c["link"] = b.link /\ c["signature"] = b.signature /\ c["work"] = b.work
      BY <2>1
    <3> QED BY <2>4, <2>5, <3>1 DEF At
  <2>7. ~is_legacy(b.block_type)
    BY <1>2 DEF is_state
  <2> QED BY <1>2, <2>2, <2>3, <2>5, <2>6, <2>7 DEF c, h
<1>3. CASE is_legacy(b.block_type)
  <2>1. c = [type |-> type_string(b.block_type), representative |-> b.representative,
             account |-> b.account, signature |-> b.signature, work |-> b.work]
    BY <1>3 DEF Contents
  <2> HIDE DEF c
  <2>2. c # Null
    BY <2>1 DEF NoFunction
  <2>3. /\ At(c, "type") = type_string(b.block_type)
        /\ At(c, "balance") = Null
    BY <2>1, <2>2 DEF At
  <2>4. /\ h = [x \in DOMAIN h |-> h[x]]
        /\ DOMAIN h = DOMAIN c \cup {"subtype"}
        /\ \A x \in DOMAIN c \ {"account", "subtype"} : h[x] = c[x]
    BY DEF HistoryEntry, c
  <2> HIDE DEF h
  <2>5. h # Null
    BY <2>4 DEF NoFunction
  <2>6. At(h, "type") = type_string(b.block_type)
    <3>1. "type" \in DOMAIN c /\ c["type"] = type_string(b.block_type)
      BY <2>1
    <3> QED BY <2>4, <2>5, <3>1 DEF At
  <2> QED BY <1>1, <1>3, <2>2, <2>3, <2>5, <2>6 DEF is_state, c, h
<1> QED BY <1>2, <1>3 DEF is_state

\* The account that a history entry names is one.
LEMMA EntryNames ==
    ASSUME NoFunction(Null), NEW b \in Known, is_state(b.block_type), Signer(b) \in Account
    PROVE  At(HistoryEntry(b), "account") \in Account
<1> DEFINE h == HistoryEntry(b)
<1>1. h # Null
  BY EntryRead
<1>2. "account" \in DOMAIN h /\ h["account"] \in Account
  BY DEF HistoryEntry, Contents, block_to_json, is_state
<1> HIDE DEF h
<1>3. At(h, "account") \in Account
  BY <1>1, <1>2 DEF At
<1> QED BY <1>3 DEF h

\* The history of an answer is the account's chain from `last` down, and what is
\* scanned of it ends before the first legacy block.
LEMMA HistoryScanned ==
    ASSUME NoFunction(Null), NEW L \in Ledgers, ValidLedger(L), NEW q, q.account \in Account,
           q.count \in Nat, q.offset = None \/ q.offset \in Nat,
           AnswerHistory(L, q) # Refusal
    PROVE  LET json == AnswerHistory(L, q)
               chain == L[q.account]
               last == LastOf(L, q)
               size == SizeOf(L, q)
           IN  /\ At(json, "history") # Null
               /\ \A i \in 1..size : /\ last + 1 - i \in DOMAIN chain /\ i \in Nat
                                     /\ At(json, "history")[i] = HistoryEntry(chain[last + 1 - i])
               /\ last \in Int /\ size \in Int
               /\ \A k \in DOMAIN chain : chain[k] \in Known /\ chain[k].account = q.account
               /\ Scanned(json) = {j \in 1..size :
                                      \A k \in 1..j : is_state(chain[last + 1 - k].block_type)}
<1> DEFINE json == AnswerHistory(L, q)
           chain == L[q.account]
           last == LastOf(L, q)
           size == SizeOf(L, q)
           entries == [i \in 1..size |-> HistoryEntry(chain[last + 1 - i])]
<1>1. /\ json = [account |-> q.account, history |-> entries]
      /\ \A i \in 1..size : last + 1 - i \in DOMAIN chain /\ i \in Nat
      /\ size \in Int /\ last \in Int
      /\ \A k \in DOMAIN chain : chain[k] \in Known /\ chain[k].account = q.account
  <2>1. /\ json = [account |-> q.account, history |-> entries]
        /\ DOMAIN chain = 1..Len(chain) /\ Len(chain) \in Nat
        /\ last \in Int /\ last <= Len(chain) /\ size \in Int
    BY HistoryAnswered
  <2>2. \A i \in 1..size : last + 1 - i \in DOMAIN chain /\ i \in Nat
    <3>1. size <= last
      BY HistoryAnswered DEF SizeOf
    <3> HIDE DEF last, size
    <3> QED BY <2>1, <3>1
  <2>3. \A k \in DOMAIN chain : chain[k] \in Known /\ chain[k].account = q.account
    BY DEF Ledgers, ValidLedger, InPlace
  <2> QED BY <2>1, <2>2, <2>3
<1>2. At(json, "history") = entries
  <2> HIDE DEF json, entries
  <2> QED BY <1>1, KeyOf
<1>3. Scanned(json) = {j \in 1..size : \A k \in 1..j : is_state(chain[last + 1 - k].block_type)}
  <2>1. \A i \in 1..size : At(entries[i], "type") = "state"
                              <=> is_state(chain[last + 1 - i].block_type)
    BY <1>1, EntryRead
  <2>2. \A j \in 1..size : \A k \in 1..j : k \in 1..size
    BY <1>1
  <2>3. DOMAIN entries = 1..size
    OBVIOUS
  <2> HIDE DEF entries, json, last, size
  <2> QED BY <1>2, <2>1, <2>2, <2>3 DEF Scanned
<1>4. entries # Null
  <2>1. entries = [x \in DOMAIN entries |-> entries[x]]
    OBVIOUS
  <2> HIDE DEF entries
  <2> QED BY <2>1 DEF NoFunction
<1>5. \A i \in 1..size : At(json, "history")[i] = HistoryEntry(chain[last + 1 - i])
  BY <1>2
<1> HIDE DEF json, chain, last, size, entries
<1>6. At(json, "history") # Null
  BY <1>2, <1>4
<1>7. /\ At(json, "history") # Null
      /\ \A i \in 1..size : /\ last + 1 - i \in DOMAIN chain /\ i \in Nat
                            /\ At(json, "history")[i] = HistoryEntry(chain[last + 1 - i])
      /\ last \in Int /\ size \in Int
      /\ \A k \in DOMAIN chain : chain[k] \in Known /\ chain[k].account = q.account
      /\ Scanned(json) = {j \in 1..size :
                             \A k \in 1..j : is_state(chain[last + 1 - k].block_type)}
  BY <1>1, <1>3, <1>5, <1>6
<1> QED BY <1>7 DEF json, chain, last, size

\* What a history entry parses to is the block, once it has its account back.
LEMMA EntryRenamed ==
    ASSUME NoFunction(Null), NEW json, NEW i, NEW b \in Known, is_state(b.block_type),
           At(json, "history")[i] = HistoryEntry(b)
    PROVE  /\ Parsed(json, i) = block_with_type(HistoryEntry(b), b.block_type)
           /\ Parsed(json, i).ok => Renamed(json, b.account, i) = b
<1> DEFINE h == HistoryEntry(b)
<1>1. Parsed(json, i) = block_with_type(h, b.block_type)
  <2>1. At(h, "subtype") = b.block_type
    BY EntryRead
  <2> HIDE DEF h
  <2>2. At(json, "history")[i] = h
    BY DEF h
  <2> QED BY <2>1, <2>2 DEF Parsed, block_from_history_json
<1>2. SUFFICES ASSUME Parsed(json, i).ok PROVE Renamed(json, b.account, i) = b
  BY <1>1
<1>3. Parsed(json, i) = block_from_json(h, b.block_type)
  <2>1. At(h, "type") = "state"
    BY EntryRead
  <2> HIDE DEF h
  <2> QED BY <1>1, <1>2, <2>1, TypedBlock
<1> DEFINE value == Parsed(json, i).value
<1>4. value = [block_type     |-> b.block_type,
               account        |-> At(h, "account"),
               previous       |-> b.previous,
               representative |-> b.representative,
               balance        |-> b.balance,
               link           |-> b.link,
               signature      |-> b.signature,
               work           |-> b.work]
  <2>1. block_from_json(h, b.block_type).ok
    BY <1>2, <1>3
  <2>2. block_from_json(h, b.block_type).value =
          [block_type     |-> b.block_type,
           account        |-> At(h, "account"),
           previous       |-> At(h, "previous"),
           representative |-> At(h, "representative"),
           balance        |-> At(h, "balance"),
           link           |-> At(h, "link"),
           signature      |-> At(h, "signature"),
           work           |-> At(h, "work")]
    <3> HIDE DEF h
    <3> QED BY <2>1, ParsedBlock
  <2>3. /\ At(h, "previous") = b.previous /\ At(h, "representative") = b.representative
        /\ At(h, "balance") = b.balance /\ At(h, "link") = b.link
        /\ At(h, "signature") = b.signature /\ At(h, "work") = b.work
    BY EntryRead
  <2> HIDE DEF h
  <2> QED BY <1>3, <2>2, <2>3
<1> HIDE DEF value
<1>5. [value EXCEPT !.account = b.account] =
         [block_type     |-> b.block_type,
          account        |-> b.account,
          previous       |-> b.previous,
          representative |-> b.representative,
          balance        |-> b.balance,
          link           |-> b.link,
          signature      |-> b.signature,
          work           |-> b.work]
  BY <1>4
<1>6. b = [block_type     |-> b.block_type,
           account        |-> b.account,
           previous       |-> b.previous,
           representative |-> b.representative,
           balance        |-> b.balance,
           link           |-> b.link,
           signature      |-> b.signature,
           work           |-> b.work]
  BY KnownAssumption
<1>7. Renamed(json, b.account, i) = [value EXCEPT !.account = b.account]
  BY DEF Renamed, value
<1> QED BY <1>5, <1>6, <1>7

\* A history that parses is the account's chain from `last` down, up to the first
\* legacy block.
LEMMA HistoryRead ==
    ASSUME NoFunction(Null), NEW L \in Ledgers, ValidLedger(L), NEW q, q.account \in Account,
           q.count \in Nat, q.offset = None \/ q.offset \in Nat,
           parse_account_history(AnswerHistory(L, q), q.account).ok
    PROVE  /\ AnswerHistory(L, q) # Refusal
           /\ parse_account_history(AnswerHistory(L, q), q.account).value =
                 [i \in {j \in 1..SizeOf(L, q) :
                            \A k \in 1..j :
                               is_state(L[q.account][LastOf(L, q) + 1 - k].block_type)}
                    |-> L[q.account][LastOf(L, q) + 1 - i]]
<1> DEFINE json == AnswerHistory(L, q)
           chain == L[q.account]
           last == LastOf(L, q)
           size == SizeOf(L, q)
           blocks == parse_account_history(json, q.account).value
<1>1. json # Refusal
  <2>1. At(Refusal, "history") = Null
    BY RefusalKeys
  <2>2. ~parse_account_history(Refusal, q.account).ok
    BY <2>1, HistoryRounds
  <2> QED BY <2>2
<1>2. /\ \A i \in 1..size : /\ last + 1 - i \in DOMAIN chain /\ i \in Nat
                            /\ At(json, "history")[i] = HistoryEntry(chain[last + 1 - i])
      /\ size \in Int
      /\ \A k \in DOMAIN chain : chain[k] \in Known /\ chain[k].account = q.account
      /\ Scanned(json) = {j \in 1..size :
                             \A k \in 1..j : is_state(chain[last + 1 - k].block_type)}
  BY <1>1, HistoryScanned
<1>3. /\ DOMAIN blocks = Scanned(json)
      /\ \A i \in Scanned(json) : Parsed(json, i).ok /\ blocks[i] = Renamed(json, q.account, i)
  BY HistoryRounds
<1>4. ASSUME NEW i \in Scanned(json) PROVE blocks[i] = chain[last + 1 - i]
  <2> DEFINE b == chain[last + 1 - i]
  <2>1. i \in 1..size /\ is_state(b.block_type)
    BY <1>2
  <2>2. b \in Known /\ b.account = q.account /\ At(json, "history")[i] = HistoryEntry(b)
    BY <1>2, <2>1
  <2> HIDE DEF json, b, blocks
  <2>3. Parsed(json, i).ok /\ blocks[i] = Renamed(json, b.account, i)
    BY <1>3, <2>2
  <2>4. blocks[i] = b
    BY <2>1, <2>2, <2>3, EntryRenamed
  <2> QED BY <2>4 DEF b
<1>5. blocks = [i \in Scanned(json) |-> blocks[i]]
  <2>1. Collect(Rounds(json, q.account)).ok /\ blocks = Collect(Rounds(json, q.account)).value
    <3>1. parse_account_history(json, q.account).ok
      OBVIOUS
    <3> HIDE DEF json, blocks
    <3> QED BY <3>1, HistoryIsRounds DEF Err, blocks
  <2> QED BY <1>3, <2>1, CollectOk
<1> HIDE DEF json, blocks
<1>6. blocks = [i \in Scanned(json) |-> chain[last + 1 - i]]
  BY <1>4, <1>5
<1> QED BY <1>1, <1>2, <1>6 DEF json, blocks

\* Each round of a node's history passes.
LEMMA HistoryPasses ==
    ASSUME NoFunction(Null), NEW L \in Ledgers, ValidLedger(L), NEW q, q.account \in Account,
           q.count \in Nat, q.offset = None \/ q.offset \in Nat,
           AnswerHistory(L, q) # Refusal
    PROVE  parse_account_history(AnswerHistory(L, q), q.account).ok
<1> DEFINE json == AnswerHistory(L, q)
           chain == L[q.account]
           last == LastOf(L, q)
           size == SizeOf(L, q)
           block(i) == chain[last + 1 - i]
<1>1. /\ At(json, "history") # Null
      /\ \A i \in 1..size : /\ last + 1 - i \in DOMAIN chain /\ i \in Nat
                            /\ At(json, "history")[i] = HistoryEntry(chain[last + 1 - i])
      /\ last \in Int /\ size \in Int
      /\ Scanned(json) = {j \in 1..size :
                             \A k \in 1..j : is_state(chain[last + 1 - k].block_type)}
  BY HistoryScanned
<1> HIDE DEF json, last, size
<1>2. ASSUME NEW i \in Scanned(json)
      PROVE  /\ i \in 1..size /\ i \in Nat
             /\ last + 1 - i \in DOMAIN chain
             /\ block(i) \in Known /\ block(i).account = q.account
             /\ is_state(block(i).block_type) /\ has_valid_signature(block(i))
             /\ Parsed(json, i).ok
             /\ Renamed(json, q.account, i) = block(i)
  <2>1. i \in 1..size /\ last + 1 - i \in DOMAIN chain /\ i \in Nat
    BY <1>1
  <2> DEFINE k == last + 1 - i
             b == chain[k]
             h == HistoryEntry(b)
  <2>2. At(json, "history")[i] = h /\ is_state(b.block_type) /\ k \in DOMAIN chain
    BY <1>1, <2>1
  <2> HIDE DEF k
  <2>3. /\ b \in Known /\ has_valid_signature(b) /\ Signer(b) \in Account
        /\ b.representative \in Account /\ b.balance \in Amount
        /\ {b.previous, b.link, b.work} \cap {Null, Malformed} = {}
        /\ b.signature \notin {Null, Malformed, BadPoint}
    BY <2>2, LedgerBlock
  <2>4. b.account = q.account
    BY <2>2 DEF ValidLedger, InPlace
  <2> HIDE DEF b, chain
  <2>5. Parsed(json, i) = block_with_type(h, b.block_type)
    BY <2>2, <2>3, EntryRenamed DEF h
  <2>6. /\ At(h, "type") = "state" /\ At(h, "account") \in Account
        /\ At(h, "previous") = b.previous /\ At(h, "representative") = b.representative
        /\ At(h, "balance") = b.balance /\ At(h, "link") = b.link
        /\ At(h, "signature") = b.signature /\ At(h, "work") = b.work
    BY <2>2, <2>3, EntryRead, EntryNames
  <2> HIDE DEF h
  <2>7. block_from_json(h, b.block_type).ok
    BY <2>3, <2>6, BlockPasses
  <2>8. b.block_type \in StateTypes /\ "none" \notin StateTypes
    BY <2>2 DEF is_state, is_legacy, StateTypes
  <2>9. Parsed(json, i).ok
    BY <2>5, <2>6, <2>7, <2>8 DEF block_with_type, from_subtype_string
  <2>10. Renamed(json, b.account, i) = b
    BY <2>2, <2>3, <2>9, EntryRenamed DEF h
  <2> QED BY <2>1, <2>2, <2>3, <2>4, <2>9, <2>10 DEF b, k
<1>3. ASSUME NEW i \in Scanned(json), i > 1
      PROVE  Renamed(json, q.account, i - 1).previous = hash_block(block(i))
  <2>1. i \in 1..size /\ i - 1 \in 1..(i - 1) /\ i - 1 \in 1..size
    BY <1>1, <1>2, <1>3
  <2>2. i - 1 \in Scanned(json)
    BY <1>1, <2>1
  <2> DEFINE k == last + 1 - (i - 1)
  <2>3. Renamed(json, q.account, i - 1) = chain[k] /\ k \in DOMAIN chain
    BY <1>2, <2>2
  <2>4. k - 1 = last + 1 - i /\ k > 1
    <3>1. last + 1 - i \in DOMAIN chain /\ last + 1 - i \in Nat /\ last + 1 - i # 0
      <4>1. DOMAIN chain = 1..Len(chain) /\ Len(chain) \in Nat
        BY DEF Ledgers
      <4> HIDE DEF chain
      <4> QED BY <1>2, <4>1
    <3> QED BY <1>1, <1>2, <3>1
  <2>5. chain[k].previous = node_hash(chain[k - 1])
    <3> HIDE DEF k
    <3> QED BY <2>3, <2>4 DEF ValidLedger, InPlace
  <2>6. node_hash(block(i)) = hash_block(block(i))
    BY <1>2 DEF node_hash, is_state
  <2> HIDE DEF k
  <2> QED BY <2>3, <2>4, <2>5, <2>6
<1>4. ASSUME NEW i \in Scanned(json) PROVE Checked(json, q.account, i).ok
  <2>1. /\ Parsed(json, i).ok /\ Renamed(json, q.account, i) = block(i)
        /\ has_valid_signature(block(i))
        /\ i > 1 => Renamed(json, q.account, i - 1).previous = hash_block(block(i))
    BY <1>2, <1>3
  <2> HIDE DEF block
  <2> QED BY <2>1 DEF Checked, unlinked, Ok
<1>5. Collect(Rounds(json, q.account)).ok
  <2>1. /\ DOMAIN Rounds(json, q.account) = Scanned(json)
        /\ \A i \in Scanned(json) : Rounds(json, q.account)[i] = Checked(json, q.account, i)
    BY DEF Rounds
  <2> QED BY <1>4, <2>1, CollectPasses
<1>6. parse_account_history(json, q.account).ok
  BY <1>1, <1>5, HistoryIsRounds
<1> QED BY <1>6 DEF json

\* A history that is not refused is read.
LEMMA HistoryMade ==
    ASSUME NoFunction(Null), NEW L \in Ledgers, ValidLedger(L), NEW r \in Sendable,
           r.method \in {"account_history", "account_representative"},
           Answer(L, encode(r)) # Refusal
    PROVE  Made(L, r).ok
<1> DEFINE q == encode(r)
           history == parse_account_history(AnswerHistory(L, q), q.account)
<1>1. /\ q.action = "account_history" /\ q.account = r.account /\ q.account \in Account
      /\ q.count \in Nat /\ (q.offset = None \/ q.offset \in Nat)
  BY HistoryAsked DEF Sendable
<1> HIDE DEF q
<1>2. Answer(L, q) = AnswerHistory(L, q)
  BY <1>1 DEF Answer
<1>3. history.ok
  BY <1>1, <1>2, HistoryPasses DEF q
<1>4. Made(L, r) = IF r.method = "account_history" THEN history ELSE representative_of(history)
  BY <1>1, <1>2 DEF Made, parse, q
<1> HIDE DEF history
<1> QED BY <1>3, <1>4 DEF representative_of, parse_account_representative, Ok

LEMMA HistoryTrue ==
    ASSUME NoFunction(Null), NEW L \in Ledgers, ValidLedger(L), NEW r \in Sendable,
           r.method = "account_history", Made(L, r).ok
    PROVE  Meets(L, r, Made(L, r).value)
<1> DEFINE q == encode(r)
           chain == L[r.account]
           top == TopOf(L, q)
           last == LastOf(L, q)
           size == SizeOf(L, q)
           heads == {i \in DOMAIN chain : node_hash(chain[i]) = r.head}
           start == (IF r.head = None THEN Len(chain) ELSE Largest(heads))
                    - (IF r.offset = None THEN 0 ELSE r.offset)
           scanned == {j \in 1..size : \A k \in 1..j : is_state(chain[last + 1 - k].block_type)}
           value == Made(L, r).value
<1>1. /\ q.action = "account_history" /\ q.account = r.account /\ q.account \in Account
      /\ q.count = r.count /\ q.head = r.head /\ q.offset = r.offset
      /\ q.count \in Nat /\ (q.offset = None \/ q.offset \in Nat)
  BY HistoryAsked DEF Sendable
<1> HIDE DEF q
<1>2. Made(L, r) = parse_account_history(AnswerHistory(L, q), q.account)
  BY <1>1 DEF Made, parse, Answer, q
<1>3. /\ AnswerHistory(L, q) # Refusal
      /\ value = [i \in scanned |-> chain[last + 1 - i]]
  BY <1>1, <1>2, HistoryRead
<1>4. /\ DOMAIN chain = 1..Len(chain) /\ Len(chain) \in Nat
      /\ r.head # None => top \in DOMAIN chain /\ node_hash(chain[top]) = r.head
      /\ top \in Nat
  BY <1>1, <1>3, HistoryAnswered
<1>5. r.head # None => heads = {top} /\ OnLedger(L, r.head)
  <2> SUFFICES ASSUME r.head # None PROVE heads = {top} /\ OnLedger(L, r.head)
    OBVIOUS
  <2> HIDE DEF top
  <2>1. ASSUME NEW i \in heads PROVE i = top
    <3>1. Positions(L, node_hash(chain[i])) = {<<r.account, i>>}
      BY <1>1, OnePosition
    <3>2. Positions(L, node_hash(chain[top])) = {<<r.account, top>>}
      BY <1>1, <1>4, OnePosition
    <3>3. node_hash(chain[i]) = node_hash(chain[top])
      BY <1>4, <2>1
    <3>4. <<r.account, i>> \in {<<r.account, top>>}
      BY <3>1, <3>2, <3>3
    <3> QED BY <3>4
  <2>2. OnLedger(L, node_hash(chain[top]))
    BY <1>1, <1>4, OnePosition
  <2> QED BY <1>4, <2>1, <2>2
<1>6. last = start
  <2>1. r.head # None => Largest(heads) = top
    <3>1. \A n \in Nat : Largest({n}) = n
      BY DEF Largest
    <3> HIDE DEF heads, top
    <3> QED BY <1>4, <1>5, <3>1
  <2>2. r.head = None => top = Len(chain)
    BY <1>1 DEF TopOf
  <2> HIDE DEF heads
  <2> QED BY <1>1, <2>1, <2>2 DEF LastOf
<1>7. last \in Int
  BY <1>1, <1>3, HistoryAnswered
<1> DEFINE listed == {j \in 1..r.count :
                        j <= start /\ \A k \in 1..j : is_state(chain[start + 1 - k].block_type)}
<1>8. scanned = listed
  <2>1. size = IF last < r.count THEN last ELSE r.count
    BY <1>1 DEF SizeOf
  <2>2. r.count \in Nat
    BY <1>1
  <2> HIDE DEF last, start, size
  <2>3. \A j : j \in 1..size <=> j \in 1..r.count /\ j <= last
    BY <1>7, <2>1, <2>2
  <2> QED BY <1>6, <2>3
<1>9. HistoryOf(L, r) = [i \in listed |-> chain[start + 1 - i]]
  BY DEF HistoryOf
<1> HIDE DEF scanned, listed, last, start, value
<1>10. value = HistoryOf(L, r)
  BY <1>3, <1>6, <1>8, <1>9
<1>11. Meets(L, r, value)
  BY <1>5, <1>10 DEF Meets
<1> QED BY <1>11 DEF value

LEMMA RepresentativeTrue ==
    ASSUME NoFunction(Null), NEW L \in Ledgers, ValidLedger(L), NEW r \in Sendable,
           r.method = "account_representative", Made(L, r).ok
    PROVE  Meets(L, r, Made(L, r).value)
<1> DEFINE q == encode(r)
           chain == L[r.account]
           n == Len(chain)
           history == parse_account_history(AnswerHistory(L, q), q.account)
           scanned == {j \in 1..SizeOf(L, q) :
                         \A k \in 1..j : is_state(chain[LastOf(L, q) + 1 - k].block_type)}
<1>1. /\ q.action = "account_history" /\ q.account = r.account /\ q.account \in Account
      /\ q.count = 1 /\ q.head = None /\ q.offset = None
  BY HistoryAsked DEF Sendable
<1> HIDE DEF q
<1>2. Made(L, r) = representative_of(history)
  BY <1>1 DEF Made, parse, Answer, q
<1>3. history.ok
  <2> HIDE DEF history
  <2> QED BY <1>2 DEF representative_of
<1>4. /\ AnswerHistory(L, q) # Refusal
      /\ history.value = [i \in scanned |-> chain[LastOf(L, q) + 1 - i]]
  BY <1>1, <1>3, HistoryRead
<1>5. n \in Nat /\ DOMAIN chain = 1..n /\ chain \in Seq(Known)
  BY <1>1 DEF Ledgers
<1>6. LastOf(L, q) = n
  <2>1. TopOf(L, q) = n
    BY <1>1 DEF TopOf
  <2> HIDE DEF n
  <2> QED BY <1>1, <1>5, <2>1 DEF LastOf
<1>7. SizeOf(L, q) = IF n < 1 THEN n ELSE 1
  BY <1>1, <1>6 DEF SizeOf
<1> HIDE DEF history
<1>8. Made(L, r).value = IF history.value = <<>> THEN None
                         ELSE history.value[1].representative
  BY <1>2, <1>3 DEF representative_of, parse_account_representative, Ok
<1>9. CASE n = 0
  <2>1. scanned = {}
    BY <1>7, <1>9
  <2>2. history.value = <<>>
    <3> HIDE DEF scanned
    <3> QED BY <1>4, <2>1
  <2>3. ~Opened(L, r.account)
    BY <1>5, <1>9 DEF Opened
  <2> QED BY <1>8, <2>2, <2>3 DEF Meets, RepresentativeOf
<1>10. CASE n # 0
  <2>1. SizeOf(L, q) = 1 /\ Opened(L, r.account) /\ Newest(L, r.account) = chain[n]
    BY <1>5, <1>7, <1>10 DEF Opened, Newest
  <2>2. CASE is_state(chain[n].block_type)
    <3>1. 1 \in scanned
      <4> HIDE DEF n, chain
      <4>1. \A k \in 1..1 : n + 1 - k = n
        BY <1>5
      <4> QED BY <1>6, <2>1, <2>2, <4>1
    <3> HIDE DEF scanned
    <3>2. history.value[1] = chain[n]
      <4> HIDE DEF n, chain
      <4>1. n + 1 - 1 = n
        BY <1>5
      <4> QED BY <1>4, <1>6, <3>1, <4>1
    <3>3. history.value # <<>>
      BY <1>4, <3>1
    <3> QED BY <1>8, <2>1, <3>2, <3>3 DEF Meets, RepresentativeOf
  <2>3. CASE ~is_state(chain[n].block_type)
    <3>1. scanned = {}
      <4> HIDE DEF n, chain
      <4>1. \A k \in 1..1 : n + 1 - k = n
        BY <1>5
      <4> QED BY <1>6, <2>1, <2>3, <4>1
    <3>2. history.value = <<>>
      <4> HIDE DEF scanned
      <4> QED BY <1>4, <3>1
    <3>3. is_legacy(Newest(L, r.account).block_type)
      BY <2>1, <2>3 DEF is_state
    <3> QED BY <1>8, <3>2, <3>3 DEF Meets
  <2> QED BY <2>2, <2>3
<1> QED BY <1>9, <1>10

\* A loop that pushes one conversion for each item.
LEMMA BalancesTrue ==
    ASSUME NoFunction(Null), NEW L \in Ledgers, NEW r \in Sendable,
           r.method = "accounts_balances"
    PROVE  Made(L, r).ok /\ Meets(L, r, Made(L, r).value)
<1> DEFINE accounts == r.accounts
           n == Len(accounts)
           balances == [a \in ToSet(accounts) |-> [balance |-> BalanceOf(L, a)]]
           json == [balances |-> balances]
           balance(a) == At(At(At(json, "balances"), a), "balance")
           pushes(a)  == (IF balance(a) = Null THEN <<Ok(0)>> ELSE <<>>)
                         \o <<u128_from_json(balance(a))>>
           pushed == [i \in DOMAIN accounts |-> pushes(accounts[i])]
           read(i) == u128_from_json(BalanceOf(L, accounts[i]))
           flat == [i \in 1..n |-> read(i)]
<1>1. accounts \in Seq(Account) /\ n \in Nat /\ DOMAIN accounts = 1..n
  BY RequestAssumption DEF Sendable, ListMethods
<1>2. Answer(L, encode(r)) = json
  BY DEF encode, encode_accounts_balances, Answer
<1>3. Made(L, r) = Collect(FlattenSeq(pushed))
  <2> HIDE DEF json
  <2> QED BY <1>2 DEF Made, parse, parse_accounts_balances
<1>4. ASSUME NEW i \in 1..n PROVE pushed[i] = <<read(i)>>
  <2> DEFINE a == accounts[i]
             v == read(i)
  <2>1. a \in ToSet(accounts) /\ a \in Account
    BY <1>1 DEF ToSet
  <2>2. At(json, "balances") = balances
    BY KeyOf
  <2>3. At(balances, a) = [balance |-> BalanceOf(L, a)]
    BY <2>1, KeyOf
  <2>4. balance(a) = BalanceOf(L, a)
    <3>1. At([balance |-> BalanceOf(L, a)], "balance") = BalanceOf(L, a)
      BY KeyOf
    <3> QED BY <2>2, <2>3, <3>1
  <2>5. balance(a) # Null
    BY <2>1, <2>4, BalanceIsAmount
  <2> HIDE DEF balance
  <2>6. pushed[i] = <<>> \o <<v>>
    BY <1>1, <2>4, <2>5
  <2> HIDE DEF v, pushed
  <2>7. <<>> \o <<v>> = <<v>>
    BY SmallAppends
  <2> QED BY <2>6, <2>7 DEF v
<1>5. FlattenSeq(pushed) = flat
  <2>1. DOMAIN pushed = 1..n /\ pushed = [i \in 1..n |-> pushed[i]]
    BY <1>1
  <2> HIDE DEF pushed, read
  <2>2. pushed = [i \in 1..n |-> <<pushed[i][1]>>]
    <3>1. \A i \in 1..n : pushed[i] = <<pushed[i][1]>>
      BY <1>4
    <3> QED BY <2>1, <3>1
  <2>3. FlattenSeq(pushed) = [i \in 1..n |-> pushed[i][1]]
    BY <1>1, <2>2, FlattenSingles
  <2> QED BY <1>4, <2>3
<1>6. \A i \in 1..n : read(i).ok /\ read(i).value = BalanceOf(L, accounts[i])
  <2>1. \A i \in 1..n : accounts[i] \in Account
    BY <1>1
  <2> QED BY <2>1, BalanceIsAmount, ScalarsPass, ScalarsOk DEF Ok
<1> HIDE DEF pushed, read
<1>7. Made(L, r).ok /\ Made(L, r).value = [i \in 1..n |-> flat[i].value]
  <2>1. DOMAIN flat = 1..n /\ \A i \in 1..n : flat[i].ok
    BY <1>6
  <2> HIDE DEF flat
  <2> QED BY <1>3, <1>5, <2>1, CollectPasses, CollectOk
<1>8. Made(L, r).value = [i \in 1..n |-> BalanceOf(L, accounts[i])]
  BY <1>6, <1>7
<1> QED BY <1>1, <1>7, <1>8 DEF Meets

LEMMA FrontiersTrue ==
    ASSUME NoFunction(Null), NEW L \in Ledgers, NEW r \in Sendable,
           r.method = "accounts_frontiers"
    PROVE  Made(L, r).ok /\ Meets(L, r, Made(L, r).value)
<1> DEFINE accounts == r.accounts
           frontiers == [a \in {x \in ToSet(accounts) : Opened(L, x)} |-> Frontier(L, a)]
           json == [frontiers |-> frontiers]
           of(i) == At(At(json, "frontiers"), accounts[i])
           rounds == [i \in DOMAIN accounts |-> OptionOf(of(i), bytes_from_json(of(i)))]
<1>1. accounts \in Seq(Account)
  BY RequestAssumption DEF Sendable, ListMethods
<1>2. Answer(L, encode(r)) = json
  BY DEF encode, encode_accounts_frontiers, Answer
<1>3. Made(L, r) = Collect(rounds)
  <2> HIDE DEF json
  <2> QED BY <1>2 DEF Made, parse, parse_accounts_frontiers
<1>4. ASSUME NEW i \in DOMAIN accounts
      PROVE  of(i) = IF Opened(L, accounts[i]) THEN Frontier(L, accounts[i]) ELSE Null
  <2>1. accounts[i] \in ToSet(accounts)
    BY DEF ToSet
  <2>2. At(json, "frontiers") = frontiers
    BY KeyOf
  <2>3. At(frontiers, accounts[i])
          = IF Opened(L, accounts[i]) THEN Frontier(L, accounts[i]) ELSE Null
    BY <2>1, KeyOf
  <2> QED BY <2>2, <2>3
<1>5. \A i \in DOMAIN accounts : Frontier(L, accounts[i]) \notin {Null, Malformed}
  BY <1>1, FrontierIsHash, NullAssumption DEF Ledgers
<1> HIDE DEF of
<1>6. ASSUME NEW i \in DOMAIN accounts
      PROVE  /\ rounds[i].ok
             /\ rounds[i].value = IF Opened(L, accounts[i]) THEN Frontier(L, accounts[i]) ELSE None
  <2>1. rounds[i] = OptionOf(of(i), bytes_from_json(of(i)))
    OBVIOUS
  <2> HIDE DEF rounds, accounts
  <2> QED BY <1>4, <1>5, <2>1, ScalarsPass, ScalarsOk DEF OptionOf, Ok
<1>7. Made(L, r).ok /\ Made(L, r).value = [i \in DOMAIN accounts |-> rounds[i].value]
  <2>1. DOMAIN rounds = DOMAIN accounts
    OBVIOUS
  <2> HIDE DEF rounds
  <2> QED BY <1>3, <1>6, <2>1, CollectPasses, CollectOk
<1> HIDE DEF rounds
<1>8. Made(L, r).value = [i \in DOMAIN accounts |->
                             IF Opened(L, accounts[i]) THEN Frontier(L, accounts[i]) ELSE None]
  BY <1>6, <1>7
<1> QED BY <1>7, <1>8 DEF Meets

LEMMA RepresentativesTrue ==
    ASSUME NoFunction(Null), NEW L \in Ledgers, NEW r \in Sendable,
           r.method = "accounts_representatives"
    PROVE  Made(L, r).ok /\ Meets(L, r, Made(L, r).value)
<1> DEFINE accounts == r.accounts
           representatives == [a \in {x \in ToSet(accounts) : Opened(L, x)} |->
                                 Newest(L, a).representative]
           json == [representatives |-> representatives]
           of(i) == At(At(json, "representatives"), accounts[i])
           rounds == [i \in DOMAIN accounts |-> OptionOf(of(i), account_from_json(of(i)))]
<1>1. accounts \in Seq(Account)
  BY RequestAssumption DEF Sendable, ListMethods
<1>2. Answer(L, encode(r)) = json
  BY DEF encode, encode_accounts_representatives, Answer
<1>3. Made(L, r) = Collect(rounds)
  <2> HIDE DEF json
  <2> QED BY <1>2 DEF Made, parse, parse_accounts_representatives
<1>4. ASSUME NEW i \in DOMAIN accounts
      PROVE  of(i) = IF Opened(L, accounts[i])
                     THEN Newest(L, accounts[i]).representative ELSE Null
  <2>1. accounts[i] \in ToSet(accounts)
    BY DEF ToSet
  <2>2. At(json, "representatives") = representatives
    BY KeyOf
  <2>3. At(representatives, accounts[i])
          = IF Opened(L, accounts[i]) THEN Newest(L, accounts[i]).representative ELSE Null
    BY <2>1, KeyOf
  <2> QED BY <2>2, <2>3
<1>5. \A i \in DOMAIN accounts :
         Opened(L, accounts[i]) => Newest(L, accounts[i]).representative \in Account \ {Null}
  <2>1. \A a \in Account : Opened(L, a) => Newest(L, a) \in Known
    BY DEF Opened, Newest, Ledgers
  <2> QED BY <1>1, <2>1, KnownAssumption, NullAssumption
<1> HIDE DEF of
<1>6. ASSUME NEW i \in DOMAIN accounts
      PROVE  rounds[i].ok /\ rounds[i].value = RepresentativeOf(L, accounts[i])
  <2>1. rounds[i] = OptionOf(of(i), account_from_json(of(i)))
    OBVIOUS
  <2> HIDE DEF rounds, accounts
  <2> QED BY <1>4, <1>5, <2>1, ScalarsPass, ScalarsOk DEF OptionOf, Ok, RepresentativeOf
<1>7. Made(L, r).ok /\ Made(L, r).value = [i \in DOMAIN accounts |-> rounds[i].value]
  <2>1. DOMAIN rounds = DOMAIN accounts
    OBVIOUS
  <2> HIDE DEF rounds
  <2> QED BY <1>3, <1>6, <2>1, CollectPasses, CollectOk
<1> HIDE DEF rounds
<1>8. Made(L, r).value = [i \in DOMAIN accounts |-> RepresentativeOf(L, accounts[i])]
  BY <1>6, <1>7
<1> QED BY <1>7, <1>8 DEF Meets

\* What a node writes of a block on the ledger reads as the block's info; that of
\* a legacy block does not read at all, having no balance.
LEMMA InfoRead ==
    ASSUME NoFunction(Null), NEW L \in Ledgers, ValidLedger(L), NEW hash, OnLedger(L, hash)
    PROVE  LET p    == PositionOf(L, hash)
               info == InfoEntry(L, p)
           IN  /\ info # Null
               /\ At(info, "error") = Null
               /\ is_legacy_info(info) <=> is_legacy(L[p[1]][p[2]].block_type)
               /\ is_legacy_info(info) => /\ ~verified_info(info).ok
                                          /\ InfoOf(L, hash) = None
               /\ ~is_legacy_info(info) =>
                     /\ verified_info(info) = Ok(InfoOf(L, hash))
                     /\ InfoOf(L, hash) = [height |-> p[2], timestamp |-> p[2],
                                           confirmed |-> TRUE, block |-> L[p[1]][p[2]]]
<1> DEFINE p == PositionOf(L, hash)
           b == L[p[1]][p[2]]
           info == InfoEntry(L, p)
           contents == Contents(b)
<1>1. b \in Known
  BY PositionHolds
<1>2. info = [height |-> p[2], local_timestamp |-> p[2], confirmed |-> TRUE,
              subtype |-> b.block_type, contents |-> contents]
  BY DEF InfoEntry
<1> HIDE DEF p, b, contents, info
<1>3. info # Null
  BY <1>2 DEF NoFunction
<1>4. /\ At(info, "error") = Null
      /\ At(info, "height") = p[2] /\ At(info, "local_timestamp") = p[2]
      /\ At(info, "confirmed") = TRUE /\ At(info, "subtype") = b.block_type
      /\ At(info, "contents") = contents
  BY <1>2, <1>3 DEF At
<1>5. is_legacy_info(info) <=> is_legacy(b.block_type)
  BY <1>1, <1>4, EntryRead DEF is_legacy_info, is_state, contents
<1>6. ASSUME is_legacy(b.block_type)
      PROVE  ~verified_info(info).ok /\ InfoOf(L, hash) = None
  <2>1. ASSUME verified_info(info).ok PROVE FALSE
    <3>1. block_from_info_json(info).ok
      BY <2>1, VerifiedInfo
    <3>2. block_with_type(contents, b.block_type).ok
      BY <1>4, <3>1 DEF block_from_info_json
    <3>3. PICK type : block_from_json(contents, type).ok
      BY <3>2, TypedBlock
    <3>4. At(contents, "balance") \in Amount
      BY <3>3, ParsedBlock
    <3>5. At(contents, "balance") = Null
      BY <1>1, <1>6, EntryRead DEF contents
    <3> QED BY <3>4, <3>5, NullAssumption
  <2> QED BY <1>6, <2>1 DEF InfoOf, p, b
<1>7. ASSUME ~is_legacy(b.block_type)
      PROVE  verified_info(info) = Ok([height |-> p[2], timestamp |-> p[2],
                                       confirmed |-> TRUE, block |-> b])
  <2> DEFINE block == block_from_info_json(info)
  <2>1. /\ At(contents, "type") = "state" /\ At(contents, "account") = b.account
        /\ At(contents, "previous") = b.previous
        /\ At(contents, "representative") = b.representative
        /\ At(contents, "balance") = b.balance /\ At(contents, "link") = b.link
        /\ At(contents, "signature") = b.signature /\ At(contents, "work") = b.work
    BY <1>1, <1>7, EntryRead DEF is_state, contents
  <2>2. /\ has_valid_signature(b)
        /\ b.representative \in Account /\ b.account \in Account
        /\ {b.previous, b.link, b.work} \cap {Null, Malformed} = {}
        /\ b.balance \in Amount
        /\ b.signature \notin {Null, Malformed, BadPoint}
        /\ p[2] \in Nat
    <3>1. PICK a \in Account : \E i \in DOMAIN L[a] : p = <<a, i>>
      BY PositionHolds DEF p
    <3>2. PICK i \in DOMAIN L[a] : p = <<a, i>>
      BY <3>1
    <3>3. i \in Nat
      <4>1. L[a] \in Seq(Known)
        BY DEF Ledgers
      <4> QED BY <4>1
    <3>4. b = L[a][i] /\ p[2] = i
      BY <3>2 DEF b
    <3> QED BY <1>7, <3>3, <3>4, LedgerBlock DEF is_state
  <2>3. block = block_from_json(contents, b.block_type)
    <3>1. block = block_with_type(contents, b.block_type)
      BY <1>4 DEF block_from_info_json
    <3>2. b.block_type \in StateTypes /\ "none" \notin StateTypes
      BY <1>7 DEF is_legacy, StateTypes
    <3> HIDE DEF block
    <3> QED BY <2>1, <3>1, <3>2 DEF block_with_type, from_subtype_string
  <2>4. block_from_json(contents, b.block_type).ok
    BY <2>1, <2>2, BlockPasses
  <2>5. block_from_json(contents, b.block_type).value =
                    [block_type     |-> b.block_type,
                     account        |-> At(contents, "account"),
                     previous       |-> At(contents, "previous"),
                     representative |-> At(contents, "representative"),
                     balance        |-> At(contents, "balance"),
                     link           |-> At(contents, "link"),
                     signature      |-> At(contents, "signature"),
                     work           |-> At(contents, "work")]
    BY <2>4, ParsedBlock
  <2>6. b = [block_type     |-> b.block_type,
             account        |-> b.account,
             previous       |-> b.previous,
             representative |-> b.representative,
             balance        |-> b.balance,
             link           |-> b.link,
             signature      |-> b.signature,
             work           |-> b.work]
    BY <1>1, KnownAssumption
  <2>7. block.ok /\ block.value = b
    BY <2>1, <2>3, <2>4, <2>5, <2>6
  <2> HIDE DEF block
  <2>8. verified_info(info) = block_info_from_json(info, b)
    BY <2>2, <2>7 DEF verified_info, block
  <2> DEFINE fields == <<integer_from_json(At(info, "height")),
                         integer_from_json(At(info, "local_timestamp")),
                         integer_from_json(At(info, "confirmed"))>>
             field == Collect(fields)
  <2>9. /\ DOMAIN fields = 1..3
        /\ fields[1] = integer_from_json(At(info, "height"))
        /\ fields[2] = integer_from_json(At(info, "local_timestamp"))
        /\ fields[3] = integer_from_json(At(info, "confirmed"))
    OBVIOUS
  <2>10. \A i \in 1..3 : fields[i].ok
    <3>1. At(info, "height") \in Nat /\ At(info, "local_timestamp") \in Nat
      BY <1>4, <2>2
    <3>2. At(info, "confirmed") \in BOOLEAN
      BY <1>4
    <3> DEFINE x == At(info, "confirmed")
               y == At(info, "height")
               z == At(info, "local_timestamp")
    <3> HIDE DEF x, y, z
    <3>3. x \notin {Null, Malformed} /\ y \notin {Null, Malformed} /\ z \notin {Null, Malformed}
      BY <3>1, <3>2, NullAssumption, Zenon DEF x, y, z
    <3> HIDE DEF fields
    <3> QED BY <2>9, <3>3, ScalarsPass DEF x, y, z
  <2>11. field.ok
    <3> HIDE DEF fields
    <3> QED BY <2>9, <2>10, CollectPasses
  <2>12. verified_info(info).ok
    <3>1. block_info_from_json(info, b) =
            IF ~field.ok THEN field
            ELSE Ok([height |-> field.value[1], timestamp |-> field.value[2],
                     confirmed |-> field.value[3], block |-> b])
      BY DEF block_info_from_json
    <3> HIDE DEF field
    <3> QED BY <2>8, <2>11, <3>1 DEF Ok
  <2>13. verified_info(info).value = [height |-> p[2], timestamp |-> p[2],
                                      confirmed |-> TRUE, block |-> b]
    BY <1>4, <2>7, <2>12, VerifiedInfo DEF block
  <2>14. verified_info(info) = Ok(verified_info(info).value)
    <3>1. block_info_from_json(info, b) = Ok([height |-> field.value[1],
                                              timestamp |-> field.value[2],
                                              confirmed |-> field.value[3], block |-> b])
      <4>1. block_info_from_json(info, b) =
              IF ~field.ok THEN field
              ELSE Ok([height |-> field.value[1], timestamp |-> field.value[2],
                       confirmed |-> field.value[3], block |-> b])
        BY DEF block_info_from_json
      <4> HIDE DEF field
      <4> QED BY <2>11, <4>1
    <3> HIDE DEF field
    <3> QED BY <2>8, <3>1 DEF Ok
  <2> QED BY <2>13, <2>14
<1>8. ~is_legacy(b.block_type) =>
         InfoOf(L, hash) = [height |-> p[2], timestamp |-> p[2], confirmed |-> TRUE, block |-> b]
  BY DEF InfoOf, p, b
<1> QED BY <1>3, <1>4, <1>5, <1>6, <1>7, <1>8 DEF info, p, b

LEMMA BlockInfoTrue ==
    ASSUME NoFunction(Null), NEW L \in Ledgers, ValidLedger(L), NEW r \in Sendable,
           r.method = "block_info"
    PROVE  Made(L, r).ok /\ Meets(L, r, Made(L, r).value)
<1> DEFINE info == InfoEntry(L, PositionOf(L, r.hash))
           json == Answer(L, encode(r))
<1>1. json = IF OnLedger(L, r.hash) THEN info ELSE Refusal
  <2>1. encode(r) = [action |-> "block_info", hash |-> to_uppercase_hex(r.hash),
                     json_block |-> TRUE]
    BY DEF encode, encode_block_info
  <2> HIDE DEF info
  <2>2. Answer(L, encode(r)) = IF OnLedger(L, r.hash) THEN info ELSE Refusal
    BY <2>1 DEF Answer, to_uppercase_hex, info
  <2> QED BY <2>2
<1> HIDE DEF json
<1>2. Made(L, r) = IF At(json, "error") # Null \/ is_legacy_info(json) THEN Ok(None)
                   ELSE verified_info(json)
  BY DEF Made, parse, parse_block_info, json
<1>3. CASE OnLedger(L, r.hash)
  <2>1. /\ At(info, "error") = Null
        /\ is_legacy_info(info) => InfoOf(L, r.hash) = None
        /\ ~is_legacy_info(info) => verified_info(info) = Ok(InfoOf(L, r.hash))
    BY <1>3, InfoRead
  <2>2. json = info
    BY <1>1, <1>3
  <2> HIDE DEF info
  <2>3. Made(L, r) = Ok(InfoOf(L, r.hash))
    BY <1>2, <2>1, <2>2
  <2> QED BY <2>3 DEF Meets, Ok
<1>4. CASE ~OnLedger(L, r.hash)
  <2>1. json = Refusal
    BY <1>1, <1>4
  <2>2. At(json, "error") # Null \/ is_legacy_info(json)
    <3>1. At(At(json, "contents"), "type") = Null
      BY <2>1, RefusalKeys DEF At
    <3>2. At(json, "error") = "refused"
      BY <2>1, KeyOf DEF Refusal
    <3>3. "refused" # "state"
      OBVIOUS
    <3> QED BY <3>1, <3>2, <3>3 DEF is_legacy_info
  <2>3. Made(L, r) = Ok(None)
    BY <1>2, <2>2
  <2>4. InfoOf(L, r.hash) = None
    BY <1>4 DEF InfoOf
  <2> QED BY <2>3, <2>4 DEF Meets, Ok
<1> QED BY <1>3, <1>4

\* The answer to blocks_info has an object for each hash that is on the ledger.
LEMMA InfosAnswered ==
    ASSUME NoFunction(Null), NEW L \in Ledgers, NEW r \in Sendable,
           r.method = "blocks_info"
    PROVE  LET json == Answer(L, encode(r))
           IN  /\ At(json, "error") = Null
               /\ \A i \in DOMAIN r.hashes :
                     InfoAt(json, r.hashes[i]) =
                        IF OnLedger(L, r.hashes[i])
                        THEN InfoEntry(L, PositionOf(L, r.hashes[i])) ELSE Null
<1> DEFINE q == encode(r)
           json == Answer(L, q)
           infos == [key \in {k \in ToSet(q.hashes) : OnLedger(L, k.bytes)} |->
                       InfoEntry(L, PositionOf(L, key.bytes))]
<1>1. /\ q.action = "blocks_info"
      /\ q.hashes = [i \in DOMAIN r.hashes |-> to_uppercase_hex(r.hashes[i])]
  BY DEF encode, encode_blocks_info
<1> HIDE DEF q
<1>2. json = [blocks |-> infos]
  BY <1>1 DEF Answer, AnswerBlocks
<1> HIDE DEF json
<1>3. At(json, "blocks") = infos /\ At(json, "error") = Null
  <2> HIDE DEF infos
  <2> QED BY <1>2, KeyOf
<1>4. ASSUME NEW i \in DOMAIN r.hashes
      PROVE  InfoAt(json, r.hashes[i]) =
                IF OnLedger(L, r.hashes[i])
                THEN InfoEntry(L, PositionOf(L, r.hashes[i])) ELSE Null
  <2> DEFINE key == to_uppercase_hex(r.hashes[i])
  <2>1. key \in ToSet(q.hashes)
    BY <1>1 DEF ToSet
  <2>2. key.bytes = r.hashes[i]
    BY DEF to_uppercase_hex
  <2> HIDE DEF key
  <2>3. At(infos, key) = IF OnLedger(L, key.bytes)
                         THEN InfoEntry(L, PositionOf(L, key.bytes)) ELSE Null
    BY <2>1, KeyOf
  <2> HIDE DEF infos
  <2>4. InfoAt(json, r.hashes[i]) = At(infos, key)
    BY <1>3 DEF InfoAt, key
  <2> QED BY <2>2, <2>3, <2>4
<1> QED BY <1>3, <1>4 DEF json, q

LEMMA BlocksInfoTrue ==
    ASSUME NoFunction(Null), NEW L \in Ledgers, ValidLedger(L), NEW r \in Sendable,
           r.method = "blocks_info", Made(L, r).ok
    PROVE  Meets(L, r, Made(L, r).value)
<1> DEFINE json == Answer(L, encode(r))
           hashes == r.hashes
           n == Len(hashes)
           pushed == InfosPushed(json, hashes)
           info(i) == InfoAt(json, hashes[i])
           flat == FlattenSeq(pushed)
<1>1. hashes \in Seq(ToSet(hashes))
  BY RequestAssumption DEF Sendable
<1>2. Made(L, r) = Collect(flat)
  <2> HIDE DEF pushed
  <2>1. Made(L, r) = parse_blocks_info(json, hashes)
    BY DEF Made, parse
  <2> HIDE DEF json
  <2>2. \/ parse_blocks_info(json, hashes) = Collect(FlattenSeq(pushed))
        \/ parse_blocks_info(json, hashes) = Err("InvalidData")
        \/ parse_blocks_info(json, hashes) = Err("InvalidJsonDataType")
    BY DEF parse_blocks_info, pushed, InfosPushed, InfoAt
  <2> QED BY <2>1, <2>2 DEF Err
<1> HIDE DEF json
<1>0. PICK R : PushedIn(R, json, hashes)
  BY <1>1, InfosPush
<1>3. /\ pushed \in [1..n -> Seq(R)]
      /\ n \in Nat /\ DOMAIN hashes = 1..n
      /\ \A i \in 1..n : pushed[i] = IF info(i) = Null THEN <<Ok(None)>>
                                     ELSE IF is_legacy_info(info(i))
                                     THEN <<Ok(None), verified_info(info(i))>>
                                     ELSE <<verified_info(info(i))>>
  BY <1>0 DEF PushedIn
<1> HIDE DEF pushed
<1>4. /\ \A k \in DOMAIN flat : flat[k].ok
      /\ Made(L, r).value = [k \in DOMAIN flat |-> flat[k].value]
  <2> HIDE DEF flat
  <2> QED BY <1>2, CollectOk
<1>5. \A i \in 1..n : \A j \in DOMAIN pushed[i] : pushed[i][j].ok
  <2> SUFFICES ASSUME NEW i \in 1..n, NEW j \in DOMAIN pushed[i]
               PROVE  pushed[i][j].ok
    OBVIOUS
  <2>1. IsElement(pushed[i][j], n, pushed)
    BY DEF IsElement
  <2>2. pushed[i][j] \in ToSet(flat)
    BY <1>3, <2>1, FlattenElements
  <2> QED BY <1>4, <2>2 DEF ToSet
<1>6. ASSUME NEW i \in 1..n
      PROVE  \E x : pushed[i] = <<x>> /\ x.value = InfoOf(L, hashes[i])
  <2> DEFINE hash == hashes[i]
             entry == InfoEntry(L, PositionOf(L, hash))
  <2>1. info(i) = IF OnLedger(L, hash) THEN entry ELSE Null
    BY <1>3, InfosAnswered DEF json
  <2>2. pushed[i] = IF info(i) = Null THEN <<Ok(None)>>
                    ELSE IF is_legacy_info(info(i))
                    THEN <<Ok(None), verified_info(info(i))>>
                    ELSE <<verified_info(info(i))>>
    BY <1>3
  <2> HIDE DEF info
  <2>3. CASE ~OnLedger(L, hash)
    <3>1. InfoOf(L, hash) = None
      BY <2>3 DEF InfoOf
    <3> QED BY <2>1, <2>2, <2>3, <3>1 DEF Ok
  <2>4. CASE OnLedger(L, hash)
    <3>1. /\ entry # Null
          /\ is_legacy_info(entry) => ~verified_info(entry).ok
          /\ ~is_legacy_info(entry) => verified_info(entry).value = InfoOf(L, hash)
      BY <2>4, InfoRead DEF Ok
    <3>2. info(i) = entry
      BY <2>1, <2>4
    <3> HIDE DEF entry, hash
    <3> DEFINE v == verified_info(entry)
    <3>3. pushed[i] = IF is_legacy_info(entry) THEN <<Ok(None), v>> ELSE <<v>>
      BY <2>2, <3>1, <3>2
    <3> HIDE DEF v
    <3>4. v.ok
      <4>1. CASE pushed[i] = <<v>>
        BY <1>5, <4>1
      <4>2. CASE pushed[i] = <<Ok(None), v>>
        <5>1. 2 \in DOMAIN pushed[i] /\ pushed[i][2] = v
          BY <4>2
        <5> QED BY <1>5, <5>1
      <4> QED BY <3>3, <4>1, <4>2
    <3>5. ~is_legacy_info(entry)
      BY <3>1, <3>4 DEF v
    <3>6. pushed[i] = <<v>> /\ v.value = InfoOf(L, hash)
      BY <3>1, <3>3, <3>4, <3>5 DEF v
    <3> QED BY <3>6 DEF hash
  <2> QED BY <2>3, <2>4
<1>7. \A i \in 1..n : /\ pushed[i] = <<pushed[i][1]>>
                      /\ pushed[i][1].value = InfoOf(L, hashes[i])
  BY <1>6
<1>8. flat = [i \in 1..n |-> pushed[i][1]]
  <2>1. pushed = [i \in 1..n |-> <<pushed[i][1]>>]
    BY <1>3, <1>7
  <2> QED BY <1>3, <2>1, FlattenSingles
<1> HIDE DEF flat
<1>9. Made(L, r).value = [i \in 1..n |-> InfoOf(L, hashes[i])]
  BY <1>4, <1>7, <1>8
<1> QED BY <1>3, <1>9 DEF Meets

\* Without a legacy block, each round pushes the info of its block.
LEMMA InfosPass ==
    ASSUME NoFunction(Null), NEW L \in Ledgers, ValidLedger(L), NEW r \in Sendable,
           r.method = "blocks_info", ~FalseAlarmExpected(L, r)
    PROVE  LET json == Answer(L, encode(r))
           IN  FlattenSeq(InfosPushed(json, r.hashes))
                 = [i \in DOMAIN r.hashes |-> Ok(InfoOf(L, r.hashes[i]))]
<1> DEFINE json == Answer(L, encode(r))
           hashes == r.hashes
           n == Len(hashes)
           pushed == InfosPushed(json, hashes)
           info(i) == InfoAt(json, hashes[i])
           at(i) == PositionOf(L, hashes[i])
           block(i) == L[at(i)[1]][at(i)[2]]
           asked == [i \in DOMAIN hashes |-> IF OnLedger(L, hashes[i]) THEN <<block(i)>>
                                              ELSE <<>>]
<1>1. hashes \in Seq(ToSet(hashes))
  BY RequestAssumption DEF Sendable
<1>2. PICK R : PushedIn(R, json, hashes)
  BY <1>1, InfosPush
<1>3. /\ n \in Nat /\ DOMAIN hashes = 1..n
      /\ \A i \in 1..n : pushed[i] = IF info(i) = Null THEN <<Ok(None)>>
                                     ELSE IF is_legacy_info(info(i))
                                     THEN <<Ok(None), verified_info(info(i))>>
                                     ELSE <<verified_info(info(i))>>
      /\ pushed \in [1..n -> Seq(R)]
  BY <1>2 DEF PushedIn
<1>4. BlocksAsked(L, r) = FlattenSeq(asked)
  BY DEF BlocksAsked
<1>5. ASSUME NEW i \in 1..n, OnLedger(L, hashes[i])
      PROVE  is_state(block(i).block_type)
  <2>1. asked \in [1..n -> Seq(Known)]
    <3>1. ASSUME NEW j \in 1..n PROVE asked[j] \in Seq(Known)
      <4>1. CASE OnLedger(L, hashes[j])
        <5> DEFINE b == block(j)
        <5>1. b \in Known
          BY <4>1, PositionHolds
        <5>2. asked[j] = <<b>>
          BY <1>3, <4>1
        <5> HIDE DEF b, asked
        <5> QED BY <5>1, <5>2
      <4>2. CASE ~OnLedger(L, hashes[j])
        BY <1>3, <4>2
      <4> QED BY <4>1, <4>2
    <3>2. asked = [j \in 1..n |-> asked[j]]
      BY <1>3
    <3> HIDE DEF asked
    <3> QED BY <3>1, <3>2
  <2>2. asked[i] = <<block(i)>>
    BY <1>3, <1>5
  <2> HIDE DEF asked, block
  <2>3. IsElement(block(i), n, asked)
    BY <2>2 DEF IsElement
  <2>4. block(i) \in ToSet(BlocksAsked(L, r))
    BY <1>3, <1>4, <2>1, <2>3, FlattenElements
  <2>5. PICK k \in DOMAIN BlocksAsked(L, r) : block(i) = BlocksAsked(L, r)[k]
    BY <2>4 DEF ToSet
  <2> QED BY <2>5 DEF FalseAlarmExpected, is_state
<1> HIDE DEF json
<1>6. ASSUME NEW i \in 1..n
      PROVE  pushed[i] = <<Ok(InfoOf(L, hashes[i]))>>
  <2> DEFINE hash == hashes[i]
             entry == InfoEntry(L, PositionOf(L, hash))
  <2>1. info(i) = IF OnLedger(L, hash) THEN entry ELSE Null
    BY <1>3, InfosAnswered DEF json
  <2>2. pushed[i] = IF info(i) = Null THEN <<Ok(None)>>
                    ELSE IF is_legacy_info(info(i))
                    THEN <<Ok(None), verified_info(info(i))>>
                    ELSE <<verified_info(info(i))>>
    BY <1>3
  <2> HIDE DEF info, pushed
  <2>3. CASE ~OnLedger(L, hash)
    <3>1. InfoOf(L, hash) = None
      BY <2>3 DEF InfoOf
    <3> QED BY <2>1, <2>2, <2>3, <3>1
  <2>4. CASE OnLedger(L, hash)
    <3>1. /\ entry # Null
          /\ is_legacy_info(entry) <=> is_legacy(block(i).block_type)
          /\ ~is_legacy_info(entry) => verified_info(entry) = Ok(InfoOf(L, hash))
      BY <2>4, InfoRead
    <3>2. ~is_legacy(block(i).block_type)
      BY <1>5, <2>4 DEF is_state
    <3>3. info(i) = entry
      BY <2>1, <2>4
    <3> HIDE DEF entry, block, hash
    <3>4. pushed[i] = <<Ok(InfoOf(L, hash))>>
      BY <2>2, <3>1, <3>2, <3>3
    <3> QED BY <3>4 DEF hash
  <2> QED BY <2>3, <2>4
<1> HIDE DEF pushed, hashes
<1>7. pushed = [i \in 1..n |-> <<pushed[i][1]>>]
  <2>1. pushed = [i \in 1..n |-> pushed[i]]
    BY <1>3
  <2>2. \A i \in 1..n : pushed[i] = <<pushed[i][1]>>
    BY <1>6
  <2> QED BY <2>1, <2>2
<1>8. FlattenSeq(pushed) = [i \in 1..n |-> pushed[i][1]]
  BY <1>3, <1>7, FlattenSingles
<1>9. \A i \in 1..n : pushed[i][1] = Ok(InfoOf(L, hashes[i]))
  BY <1>6
<1>10. FlattenSeq(pushed) = [i \in DOMAIN hashes |-> Ok(InfoOf(L, hashes[i]))]
  BY <1>3, <1>8, <1>9
<1> QED BY <1>10 DEF pushed, hashes, json

\* The balances of the blocks asked for, added up.
Total(blocks) == FoldLeft(LAMBDA sum, b : sum + b.balance, 0, blocks)

\* The sanity check adds up the balances of the blocks asked for that there are.
LEMMA TotalAsked ==
    ASSUME NoFunction(None), NEW L \in Ledgers, ValidLedger(L), NEW r \in Sendable,
           r.method = "blocks_info", ~FalseAlarmExpected(L, r)
    PROVE  balances_sanity_check(
              blocks_found([i \in DOMAIN r.hashes |-> InfoOf(L, r.hashes[i])]))
<1> DEFINE hashes == r.hashes
           n == Len(hashes)
           at(i) == PositionOf(L, hashes[i])
           block(i) == L[at(i)[1]][at(i)[2]]
           asked == [i \in DOMAIN hashes |-> IF OnLedger(L, hashes[i]) THEN <<block(i)>>
                                              ELSE <<>>]
           infos == [i \in DOMAIN hashes |-> InfoOf(L, hashes[i])]
           found == [i \in DOMAIN infos |-> IF infos[i] = None THEN <<>>
                                            ELSE <<infos[i].block>>]
           blocks == BlocksAsked(L, r)
<1>1. n \in Nat /\ DOMAIN hashes = 1..n
  BY RequestAssumption DEF Sendable
<1>2. blocks = FlattenSeq(asked)
  BY DEF BlocksAsked
<1>3. asked \in [1..n -> Seq(Known)]
  <2>1. ASSUME NEW j \in 1..n PROVE asked[j] \in Seq(Known)
    <3>1. CASE OnLedger(L, hashes[j])
      <4> DEFINE b == block(j)
      <4>1. b \in Known
        BY <3>1, PositionHolds
      <4>2. asked[j] = <<b>>
        BY <1>1, <3>1
      <4> HIDE DEF b, asked
      <4> QED BY <4>1, <4>2
    <3>2. CASE ~OnLedger(L, hashes[j])
      BY <1>1, <3>2
    <3> QED BY <3>1, <3>2
  <2>2. asked = [j \in 1..n |-> asked[j]]
    BY <1>1
  <2> HIDE DEF asked
  <2> QED BY <2>1, <2>2
<1>4. blocks \in Seq(Known)
  <2> HIDE DEF asked
  <2> QED BY <1>1, <1>2, <1>3, FlattenElements
<1>5. ASSUME NEW b \in ToSet(blocks) PROVE is_state(b.block_type)
  BY DEF FalseAlarmExpected, is_state, ToSet
<1>6. ASSUME NEW i \in 1..n PROVE found[i] = asked[i]
  <2>1. found[i] = IF InfoOf(L, hashes[i]) = None THEN <<>> ELSE <<InfoOf(L, hashes[i]).block>>
    BY <1>1
  <2>2. asked[i] = IF OnLedger(L, hashes[i]) THEN <<block(i)>> ELSE <<>>
    BY <1>1
  <2>3. CASE ~OnLedger(L, hashes[i])
    <3>1. InfoOf(L, hashes[i]) = None
      BY <2>3 DEF InfoOf
    <3> QED BY <2>1, <2>2, <2>3, <3>1
  <2>4. CASE OnLedger(L, hashes[i])
    <3> HIDE DEF found, asked
    <3>1. is_state(block(i).block_type)
      <4> DEFINE b == block(i)
      <4> HIDE DEF b
      <4>1. asked[i] = <<b>>
        BY <2>2, <2>4 DEF b
      <4>2. IsElement(b, n, asked)
        BY <4>1 DEF IsElement
      <4>3. b \in ToSet(blocks)
        BY <1>1, <1>2, <1>3, <4>2, FlattenElements
      <4>4. is_state(b.block_type)
        BY <1>5, <4>3
      <4> QED BY <4>4 DEF b
    <3> DEFINE info == [height |-> at(i)[2], timestamp |-> at(i)[2], confirmed |-> TRUE,
                        block |-> block(i)]
    <3>2. InfoOf(L, hashes[i]) = info
      BY <2>4, <3>1 DEF InfoOf, is_state
    <3>3. info # None
      <4>1. info = [key \in DOMAIN info |-> info[key]]
        OBVIOUS
      <4> HIDE DEF info
      <4> QED BY <4>1 DEF NoFunction
    <3>4. info.block = block(i)
      OBVIOUS
    <3> HIDE DEF info, block
    <3> QED BY <2>1, <2>2, <2>4, <3>2, <3>3, <3>4
  <2> QED BY <2>3, <2>4
<1>7. found = asked
  <2>1. found = [i \in 1..n |-> found[i]] /\ asked = [i \in 1..n |-> asked[i]]
    BY <1>1
  <2> HIDE DEF found, asked
  <2> QED BY <1>6, <2>1
<1>8. blocks_found(infos) = blocks
  <2>1. blocks_found(infos) = FlattenSeq(found)
    BY DEF blocks_found
  <2> HIDE DEF found, infos, blocks
  <2> QED BY <1>2, <1>7, <2>1
<1> HIDE DEF infos, asked, found
<1>9. Total(blocks) \in Nat
  <2>1. Len(blocks) \in Nat /\ DOMAIN blocks = 1..Len(blocks)
    BY <1>4
  <2>2. \A i \in 1..Len(blocks) : blocks[i].balance \in Nat
    BY <1>4, <2>1, KnownAssumption, AmountAssumption DEF Amount
  <2> HIDE DEF blocks
  <2>3. FoldLeft(LAMBDA sum, b : sum + b.balance, 0, blocks) \in Nat
    BY <2>1, <2>2, SumIsNumber
  <2> QED BY <2>3 DEF Total
<1>10. ~(Total(blocks) > MaxAmount)
  BY DEF FalseAlarmExpected, Total
<1> HIDE DEF blocks
<1>11. Total(blocks) <= MaxAmount
  BY <1>9, <1>10, AmountAssumption
<1>12. balances_sanity_check(blocks)
  BY <1>11 DEF balances_sanity_check, Total
<1> QED BY <1>8, <1>12 DEF infos, hashes

LEMMA BlocksInfoPasses ==
    ASSUME NoFunction(Null), NoFunction(None), NEW L \in Ledgers, ValidLedger(L),
           NEW r \in Sendable, r.method = "blocks_info", ~FalseAlarmExpected(L, r)
    PROVE  Made(L, r).ok
<1> DEFINE json == Answer(L, encode(r))
           hashes == r.hashes
           flat == FlattenSeq(InfosPushed(json, hashes))
           infos == Collect(flat)
           values == [i \in DOMAIN hashes |-> InfoOf(L, hashes[i])]
<1>1. flat = [i \in DOMAIN hashes |-> Ok(InfoOf(L, hashes[i]))]
  BY InfosPass
<1>2. At(json, "error") = Null
  BY InfosAnswered
<1>3. Made(L, r) = IF At(json, "error") # Null /\ At(json, "blocks") = Null
                   THEN Err("InvalidJsonDataType")
                   ELSE IF ~infos.ok THEN infos
                   ELSE IF ~balances_sanity_check(blocks_found(infos.value))
                   THEN Err("InvalidData")
                   ELSE infos
  <2>1. Made(L, r) = parse_blocks_info(json, hashes)
    BY DEF Made, parse
  <2> HIDE DEF json
  <2> QED BY <2>1 DEF parse_blocks_info, InfosPushed, InfoAt
<1> HIDE DEF json, flat
<1>4. infos.ok /\ infos.value = values
  <2>1. DOMAIN flat = DOMAIN hashes /\ \A i \in DOMAIN hashes : flat[i] = Ok(InfoOf(L, hashes[i]))
    BY <1>1
  <2>2. ASSUME NEW i \in DOMAIN flat PROVE flat[i].ok /\ flat[i].value = InfoOf(L, hashes[i])
    <3> DEFINE v == InfoOf(L, hashes[i])
    <3>1. flat[i] = Ok(v)
      BY <2>1
    <3> HIDE DEF v
    <3> QED BY <3>1 DEF Ok, v
  <2>3. infos.ok
    BY <2>2, CollectPasses
  <2>4. infos.value = [i \in DOMAIN flat |-> flat[i].value]
    BY <2>3, CollectOk
  <2> QED BY <2>1, <2>2, <2>3, <2>4
<1>5. balances_sanity_check(blocks_found(values))
  BY TotalAsked
<1> HIDE DEF infos, values
<1> QED BY <1>2, <1>3, <1>4, <1>5

-----------------------------------------------------------------------------
(***************************************************************************)
(* accounts_receivable: the sends due to an account, by their hashes.      *)
(***************************************************************************)
DueTo(L, a, threshold) == {x \in ReceivableBy(L, a) : x.amount >= threshold}
KeysOf(due) == {to_uppercase_hex(x.hash) : x \in due}
AmountsOf(due) ==
    [key \in KeysOf(due) |-> (CHOOSE x \in due : x.hash = key.bytes).amount]
ReceivablesOf(a, due) ==
    {[recipient |-> a, block_hash |-> d.hash, amount |-> d.amount] : d \in due}

\* What parse_accounts_receivable makes of an account's object.
EntryOf(object, a, key) ==
    LET amount == u128_from_json(At(object, key))
        bytes  == from_hex(key)
    IN  IF ~amount.ok THEN amount
        ELSE IF ~bytes.ok THEN bytes
        ELSE Ok([recipient |-> a, block_hash |-> bytes.value, amount |-> amount.value])
ListRead(object, a) ==
    LET hashes == map_keys_from_json(object).value
    IN  Collect([i \in DOMAIN hashes |-> EntryOf(object, a, hashes[i])])
ListPushed(object, a) ==
    IF map_keys_from_json(object).ok THEN <<ListRead(object, a)>> ELSE <<>>

\* Two sends due to an account do not have one hash.
LEMMA DueHashesDiffer ==
    ASSUME NEW L \in Ledgers, ValidLedger(L), NEW a,
           NEW x \in ReceivableBy(L, a), NEW y \in ReceivableBy(L, a), x.hash = y.hash
    PROVE  x = y
<1> DEFINE P == UNION {{c} \X DOMAIN L[c] : c \in Account}
           due(p) == [hash   |-> node_hash(L[p[1]][p[2]]),
                      amount |-> L[p[1]][p[2] - 1].balance - L[p[1]][p[2]].balance]
<1>1. /\ \E p \in P : x = due(p)
      /\ \E p \in P : y = due(p)
  BY DEF ReceivableBy
<1>2. ASSUME NEW p \in P
      PROVE  Positions(L, node_hash(L[p[1]][p[2]])) = {p} /\ due(p).hash = node_hash(L[p[1]][p[2]])
  <2>1. PICK c \in Account : p \in {c} \X DOMAIN L[c]
    OBVIOUS
  <2>2. p[1] = c /\ p[2] \in DOMAIN L[c] /\ p = <<c, p[2]>>
    BY <2>1
  <2> QED BY <2>2, OnePosition
<1> HIDE DEF P, due
<1>3. PICK p \in P : x = due(p)
  BY <1>1
<1>4. PICK q \in P : y = due(q)
  BY <1>1
<1>5. {p} = {q}
  BY <1>2, <1>3, <1>4
<1> QED BY <1>3, <1>4, <1>5

\* A send that is due moves an amount, and its hash is one there is.
LEMMA DueIsSent ==
    ASSUME NEW L \in Ledgers, ValidLedger(L), NEW a, NEW x \in ReceivableBy(L, a)
    PROVE  x.amount \in Amount /\ x.hash \in Hashes
<1> DEFINE P == UNION {{c} \X DOMAIN L[c] : c \in Account}
           due(p) == [hash   |-> node_hash(L[p[1]][p[2]]),
                      amount |-> L[p[1]][p[2] - 1].balance - L[p[1]][p[2]].balance]
<1>1. \E p \in P : x = due(p) /\ L[p[1]][p[2]].block_type = "send"
  BY DEF ReceivableBy
<1> HIDE DEF due
<1>2. PICK p \in P : x = due(p) /\ L[p[1]][p[2]].block_type = "send"
  BY <1>1
<1>3. PICK c \in Account : p \in {c} \X DOMAIN L[c]
  OBVIOUS
<1> HIDE DEF P
<1> DEFINE i == p[2]
           chain == L[c]
<1>4. p[1] = c /\ i \in DOMAIN chain
  BY <1>3
<1>5. chain \in Seq(Known)
  BY DEF Ledgers
<1>6. InPlace(chain, c, i)
  BY <1>4 DEF ValidLedger
<1>7. x.hash = node_hash(chain[i]) /\ x.amount = chain[i - 1].balance - chain[i].balance
      /\ chain[i].block_type = "send"
  BY <1>2, <1>4 DEF due
<1> HIDE DEF chain, i
<1>8. i > 1 /\ chain[i].balance < chain[i - 1].balance
  BY <1>6, <1>7 DEF InPlace
<1>9. i - 1 \in DOMAIN chain
  BY <1>4, <1>5, <1>8
<1>10. chain[i] \in Known /\ chain[i - 1] \in Known
  BY <1>4, <1>5, <1>9
<1>11. chain[i].balance \in Amount /\ chain[i - 1].balance \in Amount
  BY <1>10, KnownAssumption
<1>12. x.amount \in Amount
  BY <1>7, <1>8, <1>11, AmountAssumption DEF Amount
<1> QED BY <1>7, <1>10, <1>12 DEF Hashes

\* An account's object reads as a list of what is due, in some order.
LEMMA DueRead ==
    ASSUME NoFunction(Null), NEW L \in Ledgers, ValidLedger(L), NEW a,
           NEW due, due \subseteq ReceivableBy(L, a)
    PROVE  /\ ListRead(AmountsOf(due), a).ok
           /\ ToSet(ListRead(AmountsOf(due), a).value) = ReceivablesOf(a, due)
<1> DEFINE object == AmountsOf(due)
           keys == KeysOf(due)
           n == Cardinality(keys)
           hashes == SetToSeq(keys)
           entries == [i \in DOMAIN hashes |-> EntryOf(object, a, hashes[i])]
           value == ListRead(object, a).value
<1>1. DOMAIN object = keys /\ object # Null
  <2>1. object = [key \in DOMAIN object |-> object[key]] /\ DOMAIN object = keys
    BY DEF AmountsOf
  <2> HIDE DEF object, keys
  <2> QED BY <2>1, KeyOf
<1>2. IsFiniteSet(keys)
  <2>1. IsFiniteSet(due)
    BY ReceivableIsFinite, FS_Subset DEF Ledgers
  <2> DEFINE key == [x \in due |-> to_uppercase_hex(x.hash)]
  <2>2. key \in Surjection(due, keys)
    BY DEF Surjection, KeysOf
  <2> HIDE DEF key, keys
  <2> QED BY <2>1, <2>2, FS_Surjection
<1>3. n \in Nat /\ hashes \in [1..n -> keys] /\ \A key \in keys : \E i \in 1..n : hashes[i] = key
  <2> HIDE DEF keys
  <2> QED BY <1>2, SetInOrder
<1>4. ListRead(object, a) = Collect(entries)
  <2>1. map_keys_from_json(object).value = hashes
    BY <1>1 DEF map_keys_from_json, Ok
  <2> HIDE DEF hashes, object
  <2> QED BY <2>1 DEF ListRead
<1>5. ASSUME NEW x \in due
      PROVE  LET key == to_uppercase_hex(x.hash)
             IN  /\ At(object, key) = x.amount
                 /\ from_hex(key) = Ok(x.hash)
  <2> DEFINE key == to_uppercase_hex(x.hash)
  <2>1. key \in keys /\ key.bytes = x.hash
    BY DEF KeysOf, to_uppercase_hex
  <2> HIDE DEF key
  <2>2. \A y \in due : y.hash = key.bytes => y = x
    BY <2>1, DueHashesDiffer
  <2>3. object[key] = x.amount
    BY <2>1, <2>2 DEF AmountsOf
  <2>4. At(object, key) = object[key]
    <3> HIDE DEF object, keys
    <3> QED BY <1>1, <2>1 DEF At
  <2>5. x.hash \in Hashes
    BY DueIsSent
  <2>6. key \notin {Null, Malformed}
    BY <2>5, NullAssumption DEF key
  <2>7. from_hex(key) = Ok(key.bytes)
    BY <2>6 DEF from_hex
  <2> QED BY <2>1, <2>3, <2>4, <2>7 DEF key
<1>6. ASSUME NEW x \in due
      PROVE  /\ EntryOf(object, a, to_uppercase_hex(x.hash)).ok
             /\ EntryOf(object, a, to_uppercase_hex(x.hash)).value
                  = [recipient |-> a, block_hash |-> x.hash, amount |-> x.amount]
  <2> DEFINE key == to_uppercase_hex(x.hash)
             amount == u128_from_json(At(object, key))
             bytes == from_hex(key)
  <2>1. At(object, key) = x.amount /\ bytes = Ok(x.hash) /\ x.amount \in Amount
    BY <1>5, DueIsSent
  <2>2. amount = Ok(x.amount)
    BY <2>1 DEF u128_from_json
  <2>3. EntryOf(object, a, key) = IF ~amount.ok THEN amount
                                  ELSE IF ~bytes.ok THEN bytes
                                  ELSE Ok([recipient |-> a, block_hash |-> bytes.value,
                                           amount |-> amount.value])
    BY DEF EntryOf
  <2> HIDE DEF key, amount, bytes
  <2> DEFINE due_entry == [recipient |-> a, block_hash |-> x.hash, amount |-> x.amount]
  <2>4. EntryOf(object, a, key) = Ok(due_entry)
    BY <2>1, <2>2, <2>3 DEF Ok
  <2> HIDE DEF due_entry
  <2>5. EntryOf(object, a, key).ok /\ EntryOf(object, a, key).value = due_entry
    BY <2>4 DEF Ok
  <2> QED BY <2>5 DEF key, due_entry
<1>7. /\ \A i \in 1..n : entries[i].ok /\ entries[i] = EntryOf(object, a, hashes[i])
      /\ DOMAIN value = 1..n
      /\ \A i \in 1..n : value[i] = entries[i].value
      /\ ListRead(object, a).ok
  <2>1. DOMAIN hashes = 1..n
    BY <1>3
  <2>2. DOMAIN entries = 1..n /\ \A i \in 1..n : entries[i] = EntryOf(object, a, hashes[i])
    BY <2>1
  <2> HIDE DEF entries, object
  <2>3. ListRead(object, a).ok
    <3>1. ASSUME NEW i \in 1..n PROVE entries[i].ok
      <4>1. PICK x \in due : hashes[i] = to_uppercase_hex(x.hash)
        BY <1>3 DEF KeysOf
      <4> HIDE DEF hashes
      <4>2. EntryOf(object, a, hashes[i]).ok
        BY <1>6, <4>1
      <4> QED BY <2>2, <4>2
    <3> QED BY <1>4, <2>2, <3>1, CollectPasses
  <2>4. /\ \A i \in DOMAIN entries : entries[i].ok
        /\ value = [i \in DOMAIN entries |-> entries[i].value]
    BY <1>4, <2>3, CollectOk
  <2> QED BY <2>2, <2>3, <2>4
<1> HIDE DEF entries, value, object, keys, hashes, n
<1>8. ASSUME NEW i \in 1..n PROVE value[i] \in ReceivablesOf(a, due)
  <2>1. PICK x \in due : hashes[i] = to_uppercase_hex(x.hash)
    BY <1>3 DEF keys, KeysOf
  <2>2. value[i] = [recipient |-> a, block_hash |-> x.hash, amount |-> x.amount]
    BY <1>6, <1>7, <2>1
  <2> QED BY <2>2 DEF ReceivablesOf
<1>9. ASSUME NEW x \in due
      PROVE  \E i \in 1..n : value[i] = [recipient |-> a, block_hash |-> x.hash,
                                         amount |-> x.amount]
  <2>1. to_uppercase_hex(x.hash) \in keys
    BY DEF keys, KeysOf
  <2>2. PICK i \in 1..n : hashes[i] = to_uppercase_hex(x.hash)
    BY <1>3, <2>1
  <2> QED BY <1>6, <1>7, <2>2
<1>10. ToSet(value) = {value[i] : i \in 1..n}
  BY <1>7 DEF ToSet
<1>11. ToSet(value) = ReceivablesOf(a, due)
  BY <1>8, <1>9, <1>10 DEF ReceivablesOf
<1> QED BY <1>7, <1>11 DEF value, object

\* The answer to accounts_receivable has an object for each account that
\* something is due to.
LEMMA ReceivableAnswered ==
    ASSUME NoFunction(Null), NEW L \in Ledgers, NEW r \in Sendable,
           r.method = "accounts_receivable",
           NEW a \in ToSet(r.accounts)
    PROVE  At(At(Answer(L, encode(r)), "blocks"), a)
             = IF DueTo(L, a, r.threshold) = {} THEN Null
               ELSE AmountsOf(DueTo(L, a, r.threshold))
<1> DEFINE due(x) == DueTo(L, x, r.threshold)
           objects == [x \in {y \in ToSet(r.accounts) : due(y) # {}} |-> AmountsOf(due(x))]
           q == encode(r)
<1>1. /\ q.action = "accounts_receivable"
      /\ q.accounts = r.accounts /\ q.threshold = r.threshold
  BY DEF encode, encode_accounts_receivable
<1> HIDE DEF q
<1>2. Answer(L, q) = AnswerReceivable(L, q)
  BY <1>1 DEF Answer
<1>3. AnswerReceivable(L, q) = [blocks |-> objects]
  BY <1>1 DEF AnswerReceivable, DueTo, AmountsOf, KeysOf
<1>4. At([blocks |-> objects], "blocks") = objects
  <2> HIDE DEF objects
  <2> QED BY KeyOf
<1>5. At(objects, a) = IF due(a) = {} THEN Null ELSE AmountsOf(due(a))
  <2> HIDE DEF due
  <2> QED BY KeyOf
<1> HIDE DEF objects, due
<1>6. At(At(Answer(L, q), "blocks"), a) = IF due(a) = {} THEN Null ELSE AmountsOf(due(a))
  BY <1>2, <1>3, <1>4, <1>5
<1> QED BY <1>6 DEF q, due

LEMMA ReceivableTrue ==
    ASSUME NoFunction(Null), NEW L \in Ledgers, ValidLedger(L), NEW r \in Sendable,
           r.method = "accounts_receivable"
    PROVE  Made(L, r).ok /\ Meets(L, r, Made(L, r).value)
<1> DEFINE json == Answer(L, encode(r))
           accounts == r.accounts
           n == Len(accounts)
           due(a) == DueTo(L, a, r.threshold)
           object(a) == At(At(json, "blocks"), a)
           pushed == [i \in DOMAIN accounts |-> ListPushed(object(accounts[i]), accounts[i])]
           wanted == [i \in DOMAIN accounts |-> IF due(accounts[i]) = {} THEN <<>>
                                                ELSE <<accounts[i]>>]
           lists == FlattenSeq(pushed)
           some == FlattenSeq(wanted)
           value == Made(L, r).value
           T == {ListRead(object(a), a) : a \in Account}
           R == {t \in T \X Account :
                    t[1].ok /\ ToSet(t[1].value) = ReceivablesOf(t[2], due(t[2]))}
<1>1. accounts \in Seq(Account) /\ n \in Nat /\ DOMAIN accounts = 1..n
  BY RequestAssumption DEF Sendable, ListMethods
<1>2. Made(L, r) = Collect(lists)
  <2>1. Made(L, r) = parse_accounts_receivable(json, accounts)
    BY DEF Made, parse
  <2> HIDE DEF json
  <2>2. parse_accounts_receivable(json, accounts) = Collect(lists)
    BY DEF parse_accounts_receivable, ListPushed, ListRead, EntryOf
  <2> QED BY <2>1, <2>2
<1>3. ASSUME NEW i \in 1..n
      PROVE  /\ accounts[i] \in Account
             /\ wanted[i] = IF due(accounts[i]) = {} THEN <<>> ELSE <<accounts[i]>>
             /\ pushed[i] = IF due(accounts[i]) = {} THEN <<>>
                            ELSE <<ListRead(object(accounts[i]), accounts[i])>>
             /\ ListRead(object(accounts[i]), accounts[i]) \in T
             /\ due(accounts[i]) # {} =>
                   <<ListRead(object(accounts[i]), accounts[i]), accounts[i]>> \in R
  <2> DEFINE a == accounts[i]
  <2>1. a \in Account /\ a \in ToSet(accounts)
    BY <1>1 DEF ToSet
  <2>2. object(a) = IF due(a) = {} THEN Null ELSE AmountsOf(due(a))
    BY <2>1, ReceivableAnswered
  <2>3. /\ pushed[i] = ListPushed(object(a), a)
        /\ wanted[i] = IF due(a) = {} THEN <<>> ELSE <<a>>
    BY <1>1
  <2>4. AmountsOf(due(a)) # Null
    <3> DEFINE o == AmountsOf(due(a))
    <3>1. o = [key \in DOMAIN o |-> o[key]]
      BY DEF AmountsOf
    <3> HIDE DEF o
    <3>2. o # Null
      BY <3>1 DEF NoFunction
    <3> QED BY <3>2 DEF o
  <2> HIDE DEF a, object, due, pushed, wanted
  <2>5. pushed[i] = IF due(a) = {} THEN <<>> ELSE <<ListRead(object(a), a)>>
    BY <2>2, <2>3, <2>4 DEF ListPushed, map_keys_from_json, Ok, Err
  <2>6. ListRead(object(a), a) \in T
    BY <2>1
  <2>7. ASSUME due(a) # {}
        PROVE  /\ ListRead(object(a), a).ok
               /\ ToSet(ListRead(object(a), a).value) = ReceivablesOf(a, due(a))
    <3>1. object(a) = AmountsOf(due(a)) /\ due(a) \subseteq ReceivableBy(L, a)
      BY <2>2, <2>7 DEF due, DueTo
    <3> QED BY <2>7, <3>1, DueRead
  <2>8. due(a) # {} => <<ListRead(object(a), a), a>> \in R
    <3> HIDE DEF T
    <3> QED BY <2>1, <2>6, <2>7
  <2> HIDE DEF T, R
  <2> QED BY <2>1, <2>3, <2>5, <2>6, <2>8 DEF a
<1>4. DOMAIN pushed = 1..n /\ DOMAIN wanted = 1..n
  BY <1>1
<1>5. R \subseteq T \X Account
  OBVIOUS
<1>6. \A t \in R : t[1].ok /\ ToSet(t[1].value) = ReceivablesOf(t[2], due(t[2]))
  OBVIOUS
<1> DEFINE list(i) == ListRead(object(accounts[i]), accounts[i])
           none(i) == due(accounts[i]) = {}
<1> HIDE DEF T, R
<1>7. \A i \in 1..n : /\ accounts[i] \in Account
                      /\ wanted[i] = IF none(i) THEN <<>> ELSE <<accounts[i]>>
                      /\ pushed[i] = IF none(i) THEN <<>> ELSE <<list(i)>>
                      /\ list(i) \in T
                      /\ ~none(i) => <<list(i), accounts[i]>> \in R
  BY <1>3
<1>8. pushed = [i \in 1..n |-> pushed[i]] /\ wanted = [i \in 1..n |-> wanted[i]]
  BY <1>1
<1> HIDE DEF pushed, wanted, list, none, object, due, accounts, n, json
<1>9. pushed \in [1..n -> Seq(T)] /\ wanted \in [1..n -> Seq(Account)]
  <2>1. ASSUME NEW i \in 1..n PROVE pushed[i] \in Seq(T) /\ wanted[i] \in Seq(Account)
    <3>1. list(i) \in T /\ accounts[i] \in Account
      BY <1>7
    <3>2. <<list(i)>> \in Seq(T) /\ <<accounts[i]>> \in Seq(Account)
      BY <3>1
    <3>3. <<>> \in Seq(T) /\ <<>> \in Seq(Account)
      OBVIOUS
    <3>4. pushed[i] \in {<<>>, <<list(i)>>} /\ wanted[i] \in {<<>>, <<accounts[i]>>}
      BY <1>7
    <3> QED BY <3>2, <3>3, <3>4
  <2> QED BY <1>8, <2>1
<1>10. ASSUME NEW i \in 1..n
       PROVE  Related(R, pushed[i], wanted[i])
  <2>1. CASE none(i)
    <3>1. wanted[i] = <<>> /\ pushed[i] = <<>>
      BY <1>7, <2>1
    <3> QED BY <3>1 DEF Related
  <2>2. CASE ~none(i)
    <3>1. wanted[i] = <<accounts[i]>> /\ pushed[i] = <<list(i)>>
          /\ <<list(i), accounts[i]>> \in R
      BY <1>7, <2>2
    <3>2. Len(pushed[i]) = 1 /\ Len(wanted[i]) = 1 /\ pushed[i][1] = list(i)
          /\ wanted[i][1] = accounts[i]
      BY <3>1
    <3> QED BY <3>1, <3>2 DEF Related
  <2> QED BY <2>1, <2>2
<1>11. /\ lists \in Seq(T)
       /\ some \in Seq(Account)
       /\ Len(lists) = Len(some)
       /\ \A k \in 1..Len(lists) : <<lists[k], some[k]>> \in R
  <2>1. n \in Nat
    BY <1>1
  <2>2. lists \in Seq(T) /\ some \in Seq(Account)
    BY <1>9, <2>1, FlattenElements
  <2>3. /\ Len(lists) = Len(some)
        /\ \A k \in 1..Len(lists) : <<lists[k], some[k]>> \in R
    <3>1. Related(R, lists, some)
      BY <1>9, <1>10, <2>1, FlattenPairs
    <3> QED BY <3>1 DEF Related
  <2> QED BY <2>2, <2>3
<1> HIDE DEF lists, some
<1>12. DOMAIN lists = 1..Len(lists) /\ Len(lists) \in Nat /\ DOMAIN some = 1..Len(lists)
  BY <1>11
<1>13. Made(L, r).ok /\ value = [k \in 1..Len(lists) |-> lists[k].value]
  <2>1. \A k \in 1..Len(lists) : <<lists[k], some[k]>>[1].ok
    BY <1>6, <1>11
  <2>2. \A k \in DOMAIN lists : lists[k].ok
    BY <1>12, <2>1
  <2>3. Made(L, r).ok
    BY <1>2, <2>2, CollectPasses
  <2>4. value = [k \in DOMAIN lists |-> lists[k].value]
    BY <1>2, <2>3, CollectOk
  <2> QED BY <1>12, <2>3, <2>4
<1> HIDE DEF value
<1>14. Len(value) = Len(some)
  BY <1>11, <1>12, <1>13
<1>15. ASSUME NEW k \in DOMAIN some
       PROVE  ToSet(value[k]) = ReceivablesOf(some[k], due(some[k]))
  <2>1. <<lists[k], some[k]>> \in R /\ value[k] = lists[k].value
    BY <1>11, <1>12, <1>13
  <2> QED BY <1>6, <2>1
<1>16. \A x : (ReceivablesOf(x, due(x)) = {}) <=> (due(x) = {})
  BY DEF ReceivablesOf
<1>17. some = FlattenSeq([i \in DOMAIN r.accounts |->
                             IF ReceivablesOf(r.accounts[i], due(r.accounts[i])) = {}
                             THEN <<>> ELSE <<r.accounts[i]>>])
  BY <1>16 DEF some, wanted, accounts
<1> DEFINE of(x) == ReceivablesOf(x, due(x))
           listed == FlattenSeq([i \in DOMAIN r.accounts |->
                                    IF of(r.accounts[i]) = {} THEN <<>>
                                    ELSE <<r.accounts[i]>>])
<1>18. Len(value) = Len(listed) /\ \A i \in DOMAIN listed : ToSet(value[i]) = of(listed[i])
  BY <1>14, <1>15, <1>17
<1>19. Meets(L, r, value) <=>
          Len(value) = Len(listed) /\ \A i \in DOMAIN listed : ToSet(value[i]) = of(listed[i])
  BY DEF Meets, ReceivablesOf, due, DueTo
<1>20. Meets(L, r, value)
  BY <1>18, <1>19
<1> QED BY <1>13, <1>20 DEF value

-----------------------------------------------------------------------------
(***************************************************************************)
(* What a call to an honest node returns.                                  *)
(***************************************************************************)
\* What an answer from a ledger parses to is true of that ledger, or for
\* `process` of the one it made.
LEMMA MadeTrue ==
    ASSUME NoFunction(Null), NoFunction(None), NEW L \in Ledgers, ValidLedger(L),
           NEW r \in Sendable, Made(L, r).ok
    PROVE  \/ Meets(L, r, Made(L, r).value)
           \/ Meets(AfterRequest(L, encode(r)), r, Made(L, r).value)
<1>1. CASE r.method = "command"
  <2>1. Made(L, r) = Ok(Answer(L, encode(r)))
    BY <1>1 DEF Made, parse
  <2>2. Made(L, r).value = Answer(L, encode(r))
    BY <2>1 DEF Ok
  <2> QED BY <1>1, <2>2 DEF Meets
<1>2. r.method \in Methods
  BY RequestAssumption DEF Sendable
<1> QED
  BY <1>1, <1>2, BalanceTrue, HistoryTrue, InfoTrue, RepresentativeTrue, BalancesTrue,
     FrontiersTrue, ReceivableTrue, RepresentativesTrue, BlockInfoTrue, BlocksInfoTrue,
     ProcessTrue, WorkTrue DEF Methods, ListMethods

\* How a call comes to have returned: it had, or it returned in this step.
LEMMA StepOfReturned ==
    ASSUME TypeOK, [Next]_vars, NEW c \in Caller, stage'[c] = "returned"
    PROVE  \/ /\ stage[c] = "returned"
              /\ UNCHANGED <<request[c], response[c], window[c]>>
           \/ /\ request'[c] \in Request
              /\ response'[c] = no_request(IF AsksNothing(request'[c]) THEN Ok(<<>>)
                                           ELSE Err("LegacyBlockType"))
           \/ response'[c] = Response(encode(request[c]), None, Err("ReqwestError"))
           \/ Deliver(c)
<1> DEFINE Kept == stage[c] = "returned" /\ UNCHANGED <<request[c], response[c], window[c]>>
           AtOnce == /\ request'[c] \in Request
                     /\ response'[c] = no_request(IF AsksNothing(request'[c]) THEN Ok(<<>>)
                                                  ELSE Err("LegacyBlockType"))
           Failed == response'[c] = Response(encode(request[c]), None, Err("ReqwestError"))
           Goal == Kept \/ AtOnce \/ Failed \/ Deliver(c)
<1> USE DEF TypeOK
<1>1. ASSUME NEW d \in Caller, NEW r \in Request, ReturnAtOnce(d, r)
      PROVE  Kept \/ AtOnce
  BY <1>1 DEF ReturnAtOnce
<1>2. ASSUME NEW d \in Caller, NEW r \in Request, Send(d, r)
      PROVE  Kept
  BY <1>2 DEF Send
<1>3. ASSUME NEW L, LedgerBecomes(L), stage[c] = "returned"
      PROVE  window'[c] = window[c]
  BY <1>3 DEF LedgerBecomes, InProgress
<1>4. ASSUME NEW d \in Caller, NodeHandles(d) \/ NodeErrs(d) \/ NodeLies(d)
      PROVE  Kept
  BY <1>3, <1>4 DEF NodeHandles, NodeErrs, NodeLies, Replies
<1>5. ASSUME NEW d \in Caller, Deliver(d)
      PROVE  Kept \/ Deliver(c)
  BY <1>5 DEF Deliver
<1>6. ASSUME NEW d \in Caller, ConnectionFails(d)
      PROVE  Kept \/ Failed
  BY <1>6 DEF ConnectionFails
<1>7. ASSUME NEW q \in adrift, NodeHandlesLate(q)
      PROVE  Kept
  BY <1>3, <1>7 DEF NodeHandlesLate
<1>8. ASSUME NEW b \in Published, OthersPublish(b)
      PROVE  Kept
  BY <1>3, <1>8 DEF OthersPublish
<1>9. ASSUME UNCHANGED vars
      PROVE  Kept
  BY <1>9 DEF vars
<1> HIDE DEF Kept, AtOnce, Failed, TypeOK
<1>10. Goal
  BY <1>1, <1>2, <1>4, <1>5, <1>6, <1>7, <1>8, <1>9 DEF Next
<1> QED BY <1>10 DEF Kept, AtOnce, Failed

\* With an honest node, whatever a call returns was true of one ledger that
\* there was during the call, for any callers, requests and publishers.
THEOREM ReturnsTrueOfOneLedger ==
    ASSUME Faults = {}, NoFunction(Null), NoFunction(None)
    PROVE  Spec => []TrueOfOneLedger
<1>1. Init => RepliesInv /\ LedgersValid /\ TrueOfOneLedger
  BY GenesisAssumption DEF Init, RepliesInv, ReplyInv, InProgress, LedgersValid, ValidLedger,
     TrueOfOneLedger, Returned
<1>2. TypeOK /\ RepliesInv /\ LedgersValid /\ TrueOfOneLedger /\ [Next]_vars
        => RepliesInv' /\ LedgersValid' /\ TrueOfOneLedger'
  <2> SUFFICES ASSUME TypeOK, RepliesInv, LedgersValid, TrueOfOneLedger, [Next]_vars,
                      NEW c \in Caller, stage'[c] = "returned",
                      response'[c].result.ok, ~AsksNothing(request'[c])
               PROVE  \E L \in window'[c] : Meets(L, request'[c], response'[c].result.value)
    BY RepliesInvStep, LedgersValidStep
       DEF TrueOfOneLedger, Returned, result, Meets, AsksNothing, ListOf
  <2>1. CASE stage[c] = "returned" /\ UNCHANGED <<request[c], response[c], window[c]>>
    BY <2>1 DEF TrueOfOneLedger, Returned, result
  <2>2. CASE response'[c] = no_request(Err("LegacyBlockType"))
    BY <2>2 DEF no_request, Response, Err
  <2>3. CASE response'[c] = Response(encode(request[c]), None, Err("ReqwestError"))
    BY <2>3 DEF Response, Err
  <2>4. CASE Deliver(c)
    <3> DEFINE r == request[c]
    <3>1. /\ stage[c] = "answered" /\ r \in Sendable /\ request'[c] = r
          /\ response'[c].result = parse(r, reply[c]) /\ window'[c] = window[c]
      BY <2>4 DEF Deliver, Response, TypeOK, InProgress
    <3>2. PICK L \in window[c] : /\ reply[c] = Answer(L, encode(r))
                                 /\ AfterRequest(L, encode(r)) \in window[c]
      BY <3>1 DEF RepliesInv, ReplyInv, HonestReply
    <3>3. L \in Ledgers /\ ValidLedger(L)
      BY <3>2 DEF TypeOK, Ledgers, LedgersValid
    <3> HIDE DEF r
    <3>4. response'[c].result = Made(L, r)
      BY <3>1, <3>2 DEF Made
    <3>5. \/ Meets(L, r, Made(L, r).value)
          \/ Meets(AfterRequest(L, encode(r)), r, Made(L, r).value)
      BY <3>1, <3>3, <3>4, MadeTrue
    <3> QED BY <3>1, <3>2, <3>4, <3>5
  <2> QED BY <2>1, <2>2, <2>3, <2>4, StepOfReturned
<1> QED BY <1>1, <1>2, TypeCorrect, PTL DEF Spec

\* An honest node's answer passes, but for a refusal and for the two cases in
\* which blocks_info rejects what it should not.
LEMMA AnswerPasses ==
    ASSUME NoFunction(Null), NoFunction(None), NEW L \in Ledgers, ValidLedger(L),
           NEW r \in Sendable
    PROVE  Answer(L, encode(r)) = Refusal \/ Made(L, r).ok \/ FalseAlarmExpected(L, r)
<1>1. CASE r.method = "command"
  <2>1. Made(L, r) = Ok(Answer(L, encode(r)))
    BY <1>1 DEF Made, parse
  <2> QED BY <2>1 DEF Ok
<1>2. r.method \in Methods
  BY RequestAssumption DEF Sendable
<1> QED
  BY <1>1, <1>2, BalanceTrue, HistoryMade, InfoTrue, BalancesTrue, FrontiersTrue,
     ReceivableTrue, RepresentativesTrue, BlockInfoTrue, BlocksInfoPasses, ProcessTrue,
     WorkTrue DEF Methods, ListMethods

\* With a node that refuses but does not lie, what arrives is rejected only if
\* it is a refusal, or if blocks_info met a legacy block or balances that add up
\* to more than there is: no conversion, signature, link or hash check fails on
\* an answer that is right.
THEOREM OnlyKnownFalseAlarms ==
    ASSUME "lie" \notin Faults, NoFunction(Null), NoFunction(None)
    PROVE  Spec => []NoOtherFalseAlarm
<1>1. Init => RepliesInv /\ LedgersValid /\ NoOtherFalseAlarm
  BY GenesisAssumption DEF Init, RepliesInv, ReplyInv, InProgress, LedgersValid, ValidLedger,
     NoOtherFalseAlarm, Returned
<1>2. TypeOK /\ RepliesInv /\ LedgersValid /\ NoOtherFalseAlarm /\ [Next]_vars
        => RepliesInv' /\ LedgersValid' /\ NoOtherFalseAlarm'
  <2> DEFINE Excused(c) == \/ response[c].raw_request = None
                           \/ response[c].raw_response = None
                           \/ response[c].raw_response = Refusal
                           \/ \E L \in window[c] : FalseAlarmExpected(L, request[c])
  <2> SUFFICES ASSUME TypeOK, RepliesInv, LedgersValid, NoOtherFalseAlarm, [Next]_vars,
                      NEW c \in Caller, stage'[c] = "returned", ~response'[c].result.ok
               PROVE  Excused(c)'
    BY RepliesInvStep, LedgersValidStep
       DEF NoOtherFalseAlarm, Returned, result, FalseAlarmExpected, BlocksAsked
  <2>1. CASE stage[c] = "returned" /\ UNCHANGED <<request[c], response[c], window[c]>>
    BY <2>1 DEF NoOtherFalseAlarm, Returned, result
  <2>2. ASSUME NEW res, response'[c] = no_request(res)
        PROVE  Excused(c)'
    BY <2>2 DEF no_request, Response
  <2>3. CASE response'[c] = Response(encode(request[c]), None, Err("ReqwestError"))
    BY <2>3 DEF Response
  <2>4. CASE Deliver(c)
    <3> DEFINE r == request[c]
    <3>1. /\ stage[c] = "answered" /\ r \in Sendable /\ request'[c] = r
          /\ response'[c].result = parse(r, reply[c]) /\ window'[c] = window[c]
          /\ response'[c].raw_response = reply[c]
      BY <2>4 DEF Deliver, Response, TypeOK, InProgress
    <3>2. CASE reply[c] = Refusal
      BY <3>1, <3>2
    <3>3. CASE HonestReply(c)
      <4>1. PICK L \in window[c] : reply[c] = Answer(L, encode(r))
        BY <3>3 DEF HonestReply
      <4>2. L \in Ledgers /\ ValidLedger(L)
        BY <4>1 DEF TypeOK, Ledgers, LedgersValid
      <4> HIDE DEF r
      <4>3. response'[c].result = Made(L, r)
        BY <3>1, <4>1 DEF Made
      <4>4. Answer(L, encode(r)) = Refusal \/ FalseAlarmExpected(L, r)
        BY <3>1, <4>2, <4>3, AnswerPasses
      <4> QED BY <3>1, <4>1, <4>4
    <3> QED BY <3>1, <3>2, <3>3 DEF RepliesInv, ReplyInv
  <2> QED BY <2>1, <2>2, <2>3, <2>4, StepOfReturned
<1> QED BY <1>1, <1>2, TypeCorrect, PTL DEF Spec
=============================================================================
