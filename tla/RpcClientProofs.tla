-------------------------- MODULE RpcClientProofs --------------------------
(***************************************************************************)
(* Theorems about RpcClient, for any callers, requests, ledger and node.   *)
(***************************************************************************)
EXTENDS RpcClient, SequenceLemmas, TLAPS

-----------------------------------------------------------------------------
(***************************************************************************)
(* Lemmas about the operators.                                             *)
(***************************************************************************)
\* A loop that returned Ok met no error and pushed every element.
LEMMA CollectOk ==
    ASSUME NEW results, Collect(results).ok
    PROVE  /\ \A i \in DOMAIN results : results[i].ok
           /\ Collect(results).value = [i \in DOMAIN results |-> results[i].value]
BY DEF Collect, Ok, Err

\* A block that parses has an account to overwrite.
LEMMA ParsedBlockHasAccount ==
    ASSUME NEW json, block_from_history_json(json).ok
    PROVE  "account" \in DOMAIN block_from_history_json(json).value
<1> DEFINE field == Collect(<<account_from_json(At(json, "account")),
                             bytes_from_json(At(json, "previous")),
                             account_from_json(At(json, "representative")),
                             u128_from_json(At(json, "balance")),
                             bytes_from_json(At(json, "link")),
                             signature_from_json(At(json, "signature")),
                             bytes_from_json(At(json, "work"))>>)
<1>1. PICK type : block_from_history_json(json) = block_from_json(json, type)
  BY DEF block_from_history_json, block_with_type, Err
<1>2. field.ok
  BY <1>1 DEF block_from_json
<1> HIDE DEF field
<1> QED BY <1>1, <1>2 DEF block_from_json, field, Ok

\* The rounds of parse_account_history: the entries scanned, what each parses
\* to, and the block that is checked and pushed.
Scanned(json) == {i \in DOMAIN At(json, "history") :
                    \A j \in 1..i : At(At(json, "history")[j], "type") = "state"}
Parsed(json, i) == block_from_history_json(At(json, "history")[i])
Renamed(json, account, i) == [Parsed(json, i).value EXCEPT !.account = account]
Checked(json, account, i) ==
    IF ~Parsed(json, i).ok THEN Parsed(json, i)
    ELSE IF \/ /\ i > 1 /\ Parsed(json, i - 1).ok
               /\ unlinked(Renamed(json, account, i - 1), Renamed(json, account, i))
            \/ ~has_valid_signature(Renamed(json, account, i))
    THEN Err("InvalidData")
    ELSE Ok(Renamed(json, account, i))
Rounds(json, account) == [i \in Scanned(json) |-> Checked(json, account, i)]

LEMMA HistoryIsRounds ==
    ASSUME NEW json, NEW account
    PROVE  parse_account_history(json, account) =
              IF At(json, "history") = Null THEN Err("InvalidJsonDataType")
              ELSE Collect(Rounds(json, account))
BY DEF parse_account_history, Rounds, Checked, Renamed, Parsed, Scanned

\* A history that parses is that of rounds that all passed.
LEMMA HistoryRounds ==
    ASSUME NEW json, NEW account, parse_account_history(json, account).ok
    PROVE  /\ At(json, "history") # Null
           /\ DOMAIN parse_account_history(json, account).value = Scanned(json)
           /\ \A i \in Scanned(json) :
                 LET block == Renamed(json, account, i)
                 IN  /\ Parsed(json, i).ok
                     /\ parse_account_history(json, account).value[i] = block
                     /\ has_valid_signature(block)
                     /\ i > 1 /\ Parsed(json, i - 1).ok =>
                          Renamed(json, account, i - 1).previous = hash_block(block)
<1> DEFINE rounds == Rounds(json, account)
           blocks == parse_account_history(json, account).value
<1>1. /\ At(json, "history") # Null
      /\ Collect(rounds).ok /\ blocks = Collect(rounds).value
  <2> HIDE DEF rounds
  <2> QED BY HistoryIsRounds DEF Err, rounds
<1>2. /\ \A i \in DOMAIN rounds : rounds[i].ok
      /\ blocks = [i \in DOMAIN rounds |-> rounds[i].value]
  <2> HIDE DEF rounds, blocks
  <2> QED BY <1>1, CollectOk
<1>3. /\ DOMAIN rounds = Scanned(json)
      /\ \A i \in Scanned(json) : rounds[i] = Checked(json, account, i)
  BY DEF Rounds
<1> HIDE DEF rounds, blocks
<1>4. DOMAIN blocks = Scanned(json)
  BY <1>2, <1>3
<1>5. ASSUME NEW i \in Scanned(json)
      PROVE  /\ Parsed(json, i).ok
             /\ blocks[i] = Renamed(json, account, i)
             /\ has_valid_signature(Renamed(json, account, i))
             /\ i > 1 /\ Parsed(json, i - 1).ok =>
                  Renamed(json, account, i - 1).previous
                     = hash_block(Renamed(json, account, i))
  <2>1. Checked(json, account, i).ok /\ blocks[i] = Checked(json, account, i).value
    BY <1>2, <1>3
  <2>2. Parsed(json, i).ok
    BY <2>1 DEF Checked
  <2> QED BY <2>1, <2>2 DEF Checked, Ok, Err, unlinked
<1> QED BY <1>1, <1>4, <1>5 DEF blocks

\* A history that parses is a verified chain, whatever the JSON was.
LEMMA HistoryVerified ==
    ASSUME NEW json, NEW account, IsArray(At(json, "history")),
           parse_account_history(json, account).ok
    PROVE  VerifiedChain(parse_account_history(json, account).value, account)
<1> DEFINE blocks == parse_account_history(json, account).value
<1>1. \A i \in Scanned(json) : i \in Nat /\ (i > 1 => i - 1 \in Scanned(json))
  BY HistoryRounds DEF IsArray, Scanned
<1>2. \A i \in Scanned(json) : Renamed(json, account, i).account = account
  BY HistoryRounds, ParsedBlockHasAccount DEF Renamed, Parsed
<1>3. /\ DOMAIN blocks = Scanned(json)
      /\ \A i \in Scanned(json) :
            /\ Parsed(json, i).ok
            /\ blocks[i] = Renamed(json, account, i)
            /\ has_valid_signature(Renamed(json, account, i))
            /\ i > 1 /\ Parsed(json, i - 1).ok =>
                 Renamed(json, account, i - 1).previous
                    = hash_block(Renamed(json, account, i))
  BY HistoryRounds
<1> HIDE DEF blocks
<1>4. ASSUME NEW i \in Scanned(json)
      PROVE  /\ blocks[i].account = account
             /\ has_valid_signature(blocks[i])
             /\ i > 1 => blocks[i - 1].previous = hash_block(blocks[i])
  BY <1>1, <1>2, <1>3, <1>4
<1>5. VerifiedChain(blocks, account)
  BY <1>3, <1>4 DEF VerifiedChain
<1> QED BY <1>5 DEF blocks

\* Each method writes its own action, but for the indirect one and the raw one.
LEMMA EncodedAction ==
    ASSUME NEW r \in Request
    PROVE  encode(r).action = IF r.method = "account_representative"
                              THEN "account_history"
                              ELSE IF r.method = "command" THEN r.command
                              ELSE r.method
<1>1. r.method \in Methods
  BY RequestAssumption
<1>2. CASE r.method = "command"
  <2>1. encode(r) = command(r.command, r.arguments)
    BY <1>2 DEF encode
  <2> QED BY <1>2, <2>1 DEF command
<1>3. CASE r.method # "command"
  BY <1>1, <1>3 DEF encode, Methods, ListMethods, encode_account_balance,
     encode_account_history, encode_account_info, encode_accounts_balances,
     encode_accounts_frontiers, encode_accounts_receivable,
     encode_accounts_representatives, encode_block_info, encode_blocks_info,
     encode_process, encode_work_generate
<1> QED BY <1>2, <1>3

\* The requests that publish a block.
Publishes(r) == \/ r.method = "process"
                \/ r.method = "command" /\ r.command = "process"

\* Published blocks and blocks callers process are known.
LEMMA KnownSources ==
    /\ Published \subseteq Known
    /\ \A r \in Request : r.method = "process" => r.block \in Known
    /\ \A r \in Request :
          r.method = "command" /\ r.command = "process" =>
             BlockOf(command(r.command, r.arguments)) \in Known
<1> DEFINE first == UNION {{Genesis[a][i] : i \in DOMAIN Genesis[a]} : a \in Account}
           called == {r.block : r \in {q \in Request : q.method = "process"}}
           raw == {BlockOf(command(r.command, r.arguments)) :
                     r \in {q \in Request : q.method = "command" /\ q.command = "process"}}
<1>1. Known = first \cup Published \cup called \cup raw
  BY Zenon DEF Known
<1>2. \A r \in Request : r.method = "process" => r.block \in called
  OBVIOUS
<1>3. \A r \in Request :
         r.method = "command" /\ r.command = "process" =>
            BlockOf(command(r.command, r.arguments)) \in raw
  OBVIOUS
<1> HIDE DEF first, called, raw
<1> QED BY <1>1, <1>2, <1>3

\* The block a node reads out of a request that publishes is a known one.
LEMMA ProcessCarriesBlock ==
    ASSUME NEW r \in Request, r.method = "process", is_state(r.block.block_type)
    PROVE  BlockOf(encode(r)) = r.block
<1>1. encode(r) = encode_process(r.block)
  BY DEF encode
<1>2. r.block \in Known
  BY KnownSources
<1>3. type_string(r.block.block_type) = r.block.block_type
  <2>1. \A type \in StateTypes : LegacyOf[type] \notin StateTypes
    BY DEF StateTypes, LegacyOf
  <2> QED BY <2>1 DEF type_string, is_state, is_legacy
<1> QED
  BY <1>1, <1>2, <1>3, KnownAssumption DEF encode_process, block_to_json, BlockOf

\* What a node takes from a caller is one of the blocks there are.
LEMMA AfterRequestKnown ==
    ASSUME NEW L, NEW r \in Sendable
    PROVE  \/ AfterRequest(L, encode(r)) = L
           \/ \E b \in Known : /\ Accepts(L, b)
                              /\ AfterRequest(L, encode(r)) = Extend(L, b)
<1> DEFINE q == encode(r)
<1>1. CASE q.action = "process" /\ Accepts(L, BlockOf(q))
  <2>1. Publishes(r)
    <3>1. r \in Request
      BY DEF Sendable
    <3>2. q.action = "process"
      BY <1>1
    <3> HIDE DEF q
    <3>3. q.action = IF r.method = "account_representative" THEN "account_history"
                     ELSE IF r.method = "command" THEN r.command ELSE r.method
      BY <3>1, EncodedAction DEF q
    <3>4. CASE r.method = "account_representative"
      BY <3>2, <3>3, <3>4
    <3>5. CASE r.method = "command"
      BY <3>2, <3>3, <3>5 DEF Publishes
    <3>6. CASE r.method # "account_representative" /\ r.method # "command"
      <4>1. q.action = r.method
        BY <3>3, <3>6
      <4> QED BY <3>2, <4>1 DEF Publishes
    <3> QED BY <3>4, <3>5, <3>6
  <2>2. BlockOf(q) \in Known
    <3>1. CASE r.method = "process"
      <4>1. is_state(r.block.block_type)
        BY <3>1 DEF Sendable, RefusesLegacy
      <4> QED BY <3>1, <4>1, ProcessCarriesBlock, KnownSources DEF Sendable
    <3>2. CASE r.method = "command" /\ r.command = "process"
      BY <3>2, KnownSources DEF encode, Sendable
    <3> QED BY <2>1, <3>1, <3>2 DEF Publishes
  <2>3. AfterRequest(L, q) = Extend(L, BlockOf(q))
    <3> HIDE DEF q
    <3> QED BY <1>1 DEF AfterRequest
  <2> QED BY <1>1, <2>2, <2>3
<1>2. CASE ~(q.action = "process" /\ Accepts(L, BlockOf(q)))
  BY <1>2 DEF AfterRequest
<1> QED BY <1>1, <1>2

LEMMA ExtendTyped ==
    ASSUME NEW L \in [Account -> Seq(Known)], NEW b \in Known
    PROVE  Extend(L, b) \in [Account -> Seq(Known)]
BY KnownAssumption DEF Extend

LEMMA AfterRequestTyped ==
    ASSUME NEW L \in [Account -> Seq(Known)], NEW r \in Sendable
    PROVE  AfterRequest(L, encode(r)) \in [Account -> Seq(Known)]
BY AfterRequestKnown, ExtendTyped

\* Whatever the node does, the history it answers with is an array.
LEMMA AnswerHasArray ==
    ASSUME NEW L \in [Account -> Seq(Known)], NEW r \in Request
    PROVE  IsArray(At(Answer(L, encode(r)), "history"))
<1> DEFINE q == encode(r)
<1>1. r.method \in Methods
  BY RequestAssumption
<1>2. CASE q.action = "account_history"
  <2>1. r.method \in {"account_history", "account_representative"}
    BY <1>1, <1>2, EncodedAction, RequestAssumption DEF Methods, ListMethods
  <2>2. /\ q.account \in Account
        /\ q.count \in Nat
        /\ q.offset = None \/ q.offset \in Nat
    <3>1. CASE r.method = "account_history"
      BY <3>1, RequestAssumption DEF encode, encode_account_history
    <3>2. CASE r.method = "account_representative"
      BY <3>2, RequestAssumption DEF encode, encode_account_history
    <3> QED BY <2>1, <3>1, <3>2
  <2>3. Answer(L, q) = AnswerHistory(L, q)
    <3> HIDE DEF q
    <3> QED BY <1>2 DEF Answer
  <2> HIDE DEF q
  <2>4. CASE AnswerHistory(L, q) = Refusal
    BY <2>3, <2>4 DEF Refusal, At, IsArray, q
  <2>5. CASE AnswerHistory(L, q) # Refusal
    <3> DEFINE chain == L[q.account]
               top   == IF q.head = None THEN Len(chain)
                        ELSE PositionOf(L, q.head)[2]
               last  == top - (IF q.offset = None THEN 0 ELSE q.offset)
               size  == IF last < q.count THEN last ELSE q.count
               entries == [i \in 1..size |-> HistoryEntry(chain[last + 1 - i])]
    <3>1. At(AnswerHistory(L, q), "history") \in {entries, Null}
      BY <2>5 DEF AnswerHistory, At
    <3>2. top \in Int
      <4>1. Len(chain) \in Nat /\ DOMAIN chain = 1..Len(chain)
        BY <2>2
      <4>2. CASE q.head = None
        BY <4>1, <4>2
      <4>3. CASE q.head # None
        <5>1. Positions(L, q.head) # {}
          BY <2>5, <4>3 DEF AnswerHistory
        <5>2. PositionOf(L, q.head) \in Positions(L, q.head)
          BY <5>1 DEF PositionOf
        <5>3. PositionOf(L, q.head) \in UNION {{a} \X DOMAIN L[a] : a \in Account}
          BY <5>2 DEF Positions
        <5>4. PICK a \in Account : PositionOf(L, q.head) \in {a} \X DOMAIN L[a]
          BY <5>3
        <5>5. DOMAIN L[a] = 1..Len(L[a]) /\ Len(L[a]) \in Nat
          OBVIOUS
        <5> QED BY <4>3, <5>4, <5>5
      <4> QED BY <4>2, <4>3
    <3>3. size \in Int
      <4> HIDE DEF top
      <4> QED BY <2>2, <3>2
    <3>4. IsArray(entries)
      <4> DEFINE entry(i) == HistoryEntry(chain[last + 1 - i])
                 n == IF size < 0 THEN 0 ELSE size
      <4> HIDE DEF size, entry
      <4>1. n \in Nat /\ 1..size = 1..n
        BY <3>3
      <4>2. entries = [i \in 1..n |-> entry(i)]
        BY <4>1 DEF entry
      <4>3. CASE entries = Null
        BY <4>3 DEF IsArray
      <4>4. CASE entries # Null
        <5> HIDE DEF entries
        <5>1. Members(entries) = {entries[i] : i \in 1..n}
          BY <4>2, <4>4 DEF Members
        <5>2. entries \in Seq(Members(entries))
          BY <4>1, <4>2, <5>1
        <5> QED BY <5>2 DEF IsArray
      <4> QED BY <4>3, <4>4
    <3> HIDE DEF entries
    <3> QED BY <2>3, <3>1, <3>4 DEF IsArray, q
  <2> QED BY <2>4, <2>5
<1>3. CASE q.action # "account_history"
  <2>1. q.action \in Methods \ {"account_history", "account_representative", "command"}
    BY <1>1, <1>3, EncodedAction, RequestAssumption DEF Methods, ListMethods
  <2> HIDE DEF q
  <2>2. "history" \notin DOMAIN Answer(L, q)
    BY <2>1 DEF Answer, Methods, ListMethods, AnswerInfo, AnswerReceivable,
       AnswerBlocks, AnswerWork, InfoEntry, Refusal
  <2> QED BY <2>2 DEF At, IsArray, q
<1> QED BY <1>2, <1>3

-----------------------------------------------------------------------------
(***************************************************************************)
(* The type invariant.                                                     *)
(***************************************************************************)
LEMMA LedgerBecomesTyped ==
    ASSUME TypeOK, NEW L \in [Account -> Seq(Known)], LedgerBecomes(L)
    PROVE  /\ ledger' \in [Account -> Seq(Known)]
           /\ window' \in [Caller -> SUBSET [Account -> Seq(Known)]]
BY DEF TypeOK, LedgerBecomes

\* Every step keeps the types.
LEMMA TypeStep == TypeOK /\ [Next]_vars => TypeOK'
<1> SUFFICES ASSUME TypeOK, [Next]_vars PROVE TypeOK'
  OBVIOUS
<1> USE DEF TypeOK, InProgress
<1>1. ASSUME NEW c \in Caller, NEW r \in Request, ReturnAtOnce(c, r)
      PROVE  TypeOK'
  BY <1>1 DEF ReturnAtOnce, Forget
<1>2. ASSUME NEW c \in Caller, NEW r \in Request, Send(c, r)
      PROVE  TypeOK'
  BY <1>2 DEF Send, Forget, Sendable
<1>3. ASSUME NEW c \in Caller, NodeHandles(c)
      PROVE  TypeOK'
  <2>1. request[c] \in Sendable /\ Replies(c, Answer(ledger, encode(request[c])))
    BY <1>3 DEF NodeHandles, Replies, InProgress
  <2>2. /\ ledger' \in [Account -> Seq(Known)]
        /\ window' \in [Caller -> SUBSET [Account -> Seq(Known)]]
    BY <1>3, <2>1, AfterRequestTyped, LedgerBecomesTyped DEF NodeHandles
  <2> QED BY <2>1, <2>2 DEF Replies
<1>4. ASSUME NEW c \in Caller, NodeErrs(c)
      PROVE  TypeOK'
  BY <1>4 DEF NodeErrs, Replies
<1>5. ASSUME NEW c \in Caller, NodeLies(c)
      PROVE  TypeOK'
  BY <1>5 DEF NodeLies, Replies
<1>6. ASSUME NEW c \in Caller, Deliver(c)
      PROVE  TypeOK'
  BY <1>6 DEF Deliver
<1>7. ASSUME NEW c \in Caller, ConnectionFails(c)
      PROVE  TypeOK'
  <2>1. adrift' \subseteq {encode(r) : r \in Sendable}
    BY <1>7 DEF ConnectionFails, InProgress
  <2> QED BY <1>7, <2>1 DEF ConnectionFails, InProgress, Forget
<1>8. ASSUME NEW q \in adrift, NodeHandlesLate(q)
      PROVE  TypeOK'
  <2>1. PICK r \in Sendable : q = encode(r)
    OBVIOUS
  <2>2. /\ ledger' \in [Account -> Seq(Known)]
        /\ window' \in [Caller -> SUBSET [Account -> Seq(Known)]]
    BY <1>8, <2>1, AfterRequestTyped, LedgerBecomesTyped DEF NodeHandlesLate
  <2> QED BY <1>8, <2>2 DEF NodeHandlesLate
<1>9. ASSUME NEW b \in Published, OthersPublish(b)
      PROVE  TypeOK'
  <2>1. b \in Known
    BY KnownSources
  <2>2. Extend(ledger, b) \in [Account -> Seq(Known)]
    BY <2>1, ExtendTyped
  <2>3. /\ ledger' \in [Account -> Seq(Known)]
        /\ window' \in [Caller -> SUBSET [Account -> Seq(Known)]]
    BY <1>9, <2>2, LedgerBecomesTyped DEF OthersPublish
  <2> QED BY <1>9, <2>3 DEF OthersPublish
<1>10. CASE UNCHANGED vars
  BY <1>10 DEF vars
<1> QED
  BY <1>1, <1>2, <1>3, <1>4, <1>5, <1>6, <1>7, <1>8, <1>9, <1>10 DEF Next

\* Every variable keeps its type, a call in progress has a request, and only
\* known blocks ever reach the ledger.
THEOREM TypeCorrect == Spec => []TypeOK
<1>1. Init => TypeOK
  BY GenesisAssumption DEF Init, TypeOK, InProgress
<1> QED BY <1>1, TypeStep, PTL DEF Spec

-----------------------------------------------------------------------------
(***************************************************************************)
(* What is verified of an answer.                                          *)
(***************************************************************************)
\* What an honest node makes of a request, from a ledger that the call has seen.
HonestReply(c) ==
    \E L \in window[c] : /\ reply[c] = Answer(L, encode(request[c]))
                         /\ AfterRequest(L, encode(request[c])) \in window[c]

\* A call in progress sees the ledger there is, and an answer under way is the
\* node's from a ledger that the call has seen, unless the node has faults.
ReplyInv(c) ==
    /\ InProgress(c) => ledger \in window[c]
    /\ stage[c] = "answered" =>
          \/ "lie" \in Faults /\ reply[c] \in Lie
          \/ "error" \in Faults /\ reply[c] = Refusal
          \/ HonestReply(c)
RepliesInv == \A c \in Caller : ReplyInv(c)

\* A step leaves a caller's call alone, or it is one of these.
LEMMA StepOfCaller ==
    ASSUME TypeOK, [Next]_vars, NEW c \in Caller
    PROVE  \/ UNCHANGED <<stage[c], request[c], response[c]>>
           \/ stage'[c] # "returned"
           \/ ~response'[c].result.ok
           \/ /\ request'[c] \in Request /\ AsksNothing(request'[c])
              /\ response'[c].result = Ok(<<>>)
           \/ Deliver(c)
<1> DEFINE Goal == \/ UNCHANGED <<stage[c], request[c], response[c]>>
                   \/ stage'[c] # "returned"
                   \/ ~response'[c].result.ok
                   \/ /\ request'[c] \in Request /\ AsksNothing(request'[c])
                      /\ response'[c].result = Ok(<<>>)
                   \/ Deliver(c)
<1>1. ASSUME NEW d \in Caller, NEW r \in Request, ReturnAtOnce(d, r)
      PROVE  Goal
  BY <1>1 DEF TypeOK, ReturnAtOnce, no_request, Response, Err
<1>2. ASSUME NEW d \in Caller, NEW r \in Request, Send(d, r)
      PROVE  Goal
  BY <1>2 DEF TypeOK, Send
<1>3. ASSUME NEW d \in Caller, NodeHandles(d) \/ NodeErrs(d) \/ NodeLies(d)
      PROVE  Goal
  BY <1>3 DEF TypeOK, NodeHandles, NodeErrs, NodeLies, Replies
<1>4. ASSUME NEW d \in Caller, Deliver(d)
      PROVE  Goal
  BY <1>4 DEF TypeOK, Deliver
<1>5. ASSUME NEW d \in Caller, ConnectionFails(d)
      PROVE  Goal
  BY <1>5 DEF TypeOK, ConnectionFails, Response, Err
<1>6. ASSUME NEW q \in adrift, NodeHandlesLate(q)
      PROVE  Goal
  BY <1>6 DEF TypeOK, NodeHandlesLate
<1>7. ASSUME NEW b \in Published, OthersPublish(b)
      PROVE  Goal
  BY <1>7 DEF TypeOK, OthersPublish
<1>8. ASSUME UNCHANGED vars
      PROVE  Goal
  BY <1>8 DEF TypeOK, vars
<1> HIDE DEF Goal
<1>9. Goal
  BY <1>1, <1>2, <1>3, <1>4, <1>5, <1>6, <1>7, <1>8 DEF Next
<1> QED BY <1>9 DEF Goal

\* The node's step makes its answer; the others leave answers as they are, and
\* what a call has seen they only add to.
LEMMA RepliesInvStep == TypeOK /\ RepliesInv /\ [Next]_vars => RepliesInv'
<1> SUFFICES ASSUME TypeOK, RepliesInv, [Next]_vars, NEW c \in Caller
             PROVE  ReplyInv(c)'
  BY DEF RepliesInv
<1> DEFINE Kept == /\ stage'[c] \in {stage[c], "returned", "panicked"}
                   /\ request'[c] = request[c]
                   /\ stage'[c] = "answered" => reply'[c] = reply[c]
           Seen == /\ window[c] \subseteq window'[c]
                   /\ InProgress(c) => ledger' \in window'[c]
<1> USE DEF TypeOK, ReplyInv
<1>1. ASSUME Kept, Seen PROVE ReplyInv(c)'
  BY <1>1 DEF RepliesInv, InProgress, HonestReply
<1>2. ASSUME UNCHANGED <<ledger, window>> PROVE Seen
  BY <1>2 DEF RepliesInv
<1>3. ASSUME NEW L, LedgerBecomes(L) PROVE Seen
  BY <1>3 DEF LedgerBecomes, InProgress
<1>4. ASSUME NEW d \in Caller, NEW r \in Request, ReturnAtOnce(d, r)
      PROVE  ReplyInv(c)'
  <2>1. CASE c = d
    BY <1>4, <2>1 DEF ReturnAtOnce, InProgress
  <2>2. CASE c # d
    <3>1. Kept /\ window'[c] = window[c] /\ ledger' = ledger
      BY <1>4, <2>2 DEF ReturnAtOnce, Forget
    <3> QED BY <1>1, <3>1 DEF RepliesInv
  <2> QED BY <2>1, <2>2
<1>5. ASSUME NEW d \in Caller, NEW r \in Request, Send(d, r)
      PROVE  ReplyInv(c)'
  <2>1. CASE c = d
    BY <1>5, <2>1 DEF Send, InProgress
  <2>2. CASE c # d
    <3>1. Kept /\ window'[c] = window[c] /\ ledger' = ledger
      BY <1>5, <2>2 DEF Send, Forget
    <3> QED BY <1>1, <3>1 DEF RepliesInv
  <2> QED BY <2>1, <2>2
<1>6. ASSUME NEW d \in Caller, NodeHandles(d)
      PROVE  ReplyInv(c)'
  <2>1. Seen
    BY <1>3, <1>6 DEF NodeHandles
  <2>2. CASE c = d
    <3> DEFINE q == encode(request[c])
    <3>1. /\ stage[c] = "sent" /\ stage'[c] = "answered" /\ request'[c] = request[c]
          /\ reply'[c] = Answer(ledger, q) /\ ledger' = AfterRequest(ledger, q)
      BY <1>6, <2>2 DEF NodeHandles, Replies, LedgerBecomes
    <3>2. ledger \in window'[c] /\ ledger' \in window'[c]
      BY <2>1, <3>1 DEF RepliesInv, InProgress
    <3> HIDE DEF q
    <3>3. HonestReply(c)'
      BY <3>1, <3>2 DEF HonestReply, q
    <3> QED BY <3>1, <3>2, <3>3 DEF InProgress
  <2>3. CASE c # d
    <3>1. Kept
      BY <1>6, <2>3 DEF NodeHandles, Replies
    <3> QED BY <1>1, <2>1, <3>1
  <2> QED BY <2>2, <2>3
<1>7. ASSUME NEW d \in Caller, NodeErrs(d) \/ NodeLies(d)
      PROVE  ReplyInv(c)'
  <2>1. Seen
    BY <1>2, <1>7 DEF NodeErrs, NodeLies
  <2>2. CASE c = d
    <3>1. /\ stage[c] = "sent" /\ stage'[c] = "answered"
          /\ \/ "error" \in Faults /\ reply'[c] = Refusal
             \/ "lie" \in Faults /\ reply'[c] \in Lie
      BY <1>7, <2>2 DEF NodeErrs, NodeLies, Replies
    <3> QED BY <2>1, <3>1 DEF InProgress
  <2>3. CASE c # d
    <3>1. Kept
      BY <1>7, <2>3 DEF NodeErrs, NodeLies, Replies
    <3> QED BY <1>1, <2>1, <3>1
  <2> QED BY <2>2, <2>3
<1>8. ASSUME NEW d \in Caller, Deliver(d) \/ ConnectionFails(d)
      PROVE  ReplyInv(c)'
  BY <1>1, <1>2, <1>8 DEF Deliver, ConnectionFails, Forget
<1>9. ASSUME NEW q \in adrift, NodeHandlesLate(q)
      PROVE  ReplyInv(c)'
  BY <1>1, <1>3, <1>9 DEF NodeHandlesLate
<1>10. ASSUME NEW b \in Published, OthersPublish(b)
       PROVE  ReplyInv(c)'
  BY <1>1, <1>3, <1>10 DEF OthersPublish
<1>11. CASE UNCHANGED vars
  BY <1>1, <1>2, <1>11 DEF vars
<1> HIDE DEF TypeOK, ReplyInv, Kept, Seen
<1> QED
  BY <1>4, <1>5, <1>6, <1>7, <1>8, <1>9, <1>10, <1>11 DEF Next

\* Honest or not, what a node sends has an array where one is due.
LEMMA ReplyHasArray ==
    ASSUME TypeOK, RepliesInv, NEW c \in Caller, stage[c] = "answered"
    PROVE  IsArray(At(reply[c], "history"))
<1>1. CASE reply[c] \in Lie
  BY <1>1, LieAssumption
<1>2. CASE reply[c] = Refusal
  BY <1>2 DEF Refusal, At, IsArray
<1>3. CASE HonestReply(c)
  <2>1. PICK L \in window[c] : reply[c] = Answer(L, encode(request[c]))
    BY <1>3 DEF HonestReply
  <2>2. L \in [Account -> Seq(Known)] /\ request[c] \in Request
    BY DEF TypeOK
  <2> QED BY <2>1, <2>2, AnswerHasArray
<1> QED BY <1>1, <1>2, <1>3 DEF RepliesInv, ReplyInv

\* Delivering an answer to account_history returns a verified chain.
LEMMA HistoryStep ==
    TypeOK /\ RepliesInv /\ VerifiedHistory /\ [Next]_vars => VerifiedHistory'
<1> SUFFICES ASSUME TypeOK, RepliesInv, VerifiedHistory, [Next]_vars,
                    NEW c \in Caller, stage'[c] = "returned",
                    request'[c].method = "account_history",
                    response'[c].result.ok
             PROVE  VerifiedChain(response'[c].result.value, request'[c].account)
  BY DEF VerifiedHistory, Answered, Returned, result, VerifiedChain
<1>1. CASE UNCHANGED <<stage[c], request[c], response[c]>>
  BY <1>1 DEF VerifiedHistory, Answered, Returned, result
<1>2. CASE request'[c] \in Request /\ AsksNothing(request'[c])
  BY <1>2 DEF AsksNothing, ListMethods
<1>3. CASE Deliver(c)
  <2>1. /\ request'[c] = request[c]
        /\ stage[c] = "answered"
        /\ response'[c].result = parse(request[c], reply[c])
    BY <1>3 DEF Deliver, Response, TypeOK
  <2>2. parse(request[c], reply[c])
          = parse_account_history(reply[c], request[c].account)
    BY <2>1 DEF parse
  <2>3. IsArray(At(reply[c], "history"))
    BY <2>1, ReplyHasArray
  <2> QED BY <2>1, <2>2, <2>3, HistoryVerified
<1> QED BY <1>1, <1>2, <1>3, StepOfCaller

\* Whatever a node answers, a history that a call returns is a chain of
\* blocks of the account asked about, each with a valid signature and each
\* the one its successor names.
THEOREM HistoryAlwaysVerified == Spec => []VerifiedHistory
<1>1. Init => RepliesInv /\ VerifiedHistory
  BY DEF Init, RepliesInv, ReplyInv, InProgress, VerifiedHistory, Answered, Returned
<1>2. TypeOK /\ RepliesInv /\ VerifiedHistory /\ [Next]_vars
        => RepliesInv' /\ VerifiedHistory'
  BY RepliesInvStep, HistoryStep
<1> QED BY <1>1, <1>2, TypeCorrect, PTL DEF Spec

-----------------------------------------------------------------------------
\* Whatever a node answers, work_generate with a difficulty of the caller's
\* own returns only work that meets it.
THEOREM CustomWorkAlwaysMeetsTarget == Spec => []CustomWorkMeetsTarget
<1>1. Init => CustomWorkMeetsTarget
  BY DEF Init, CustomWorkMeetsTarget, Answered, Returned
<1>2. TypeOK /\ CustomWorkMeetsTarget /\ [Next]_vars => CustomWorkMeetsTarget'
  <2> SUFFICES ASSUME TypeOK, CustomWorkMeetsTarget, [Next]_vars,
                      NEW c \in Caller, stage'[c] = "returned",
                      request'[c].method = "work_generate",
                      request'[c].difficulty # None,
                      response'[c].result.ok
               PROVE  check_work(request'[c].hash, request'[c].difficulty,
                                 response'[c].result.value)
    BY DEF CustomWorkMeetsTarget, Answered, Returned, result, check_work
  <2>1. CASE UNCHANGED <<stage[c], request[c], response[c]>>
    BY <2>1 DEF CustomWorkMeetsTarget, Answered, Returned, result
  <2>2. CASE request'[c] \in Request /\ AsksNothing(request'[c])
    BY <2>2 DEF AsksNothing, ListMethods
  <2>3. CASE Deliver(c)
    <3>1. /\ request'[c] = request[c]
          /\ response'[c].result = parse(request[c], reply[c])
      BY <2>3 DEF Deliver, Response, TypeOK
    <3>2. parse(request[c], reply[c])
            = parse_work_generate(reply[c], request[c].hash, request[c].difficulty)
      BY <3>1 DEF parse
    <3>3. ASSUME NEW json, NEW hash, NEW d, d # None,
                 parse_work_generate(json, hash, d).ok
          PROVE  check_work(hash, d, parse_work_generate(json, hash, d).value)
      BY <3>3 DEF parse_work_generate, target_difficulty, Ok, Err
    <3> QED BY <3>1, <3>2, <3>3
  <2> QED BY <2>1, <2>2, <2>3, StepOfCaller
<1> QED BY <1>1, <1>2, TypeCorrect, PTL DEF Spec
-----------------------------------------------------------------------------
(***************************************************************************)
(* What unwinds a call.  Each parser panics only if one that it calls does. *)
(***************************************************************************)
Panics(r) == ~r.ok /\ r.value = "panic"

\* The first error of a loop is that of one of its rounds.
LEMMA CollectError ==
    ASSUME NEW results, DOMAIN results \subseteq Nat \ {0},
           \A i \in DOMAIN results : 1..i \subseteq DOMAIN results,
           ~Collect(results).ok
    PROVE  \E i \in DOMAIN results :
              ~results[i].ok /\ Collect(results) = Err(results[i].value)
<1> DEFINE Failed == {i \in DOMAIN results : ~results[i].ok}
           First(i) == ~results[i].ok /\ \A j \in 1..(i - 1) : results[j].ok
<1>1. Failed # {}
  BY DEF Collect, Ok
<1>2. PICK i \in Failed : \A j \in Failed : i <= j
  BY <1>1, LeastElement
<1>3. First(i)
  <2>1. i \in Nat /\ 1..i \subseteq DOMAIN results
    OBVIOUS
  <2>2. ASSUME NEW j \in 1..(i - 1) PROVE results[j].ok
    <3>1. j \in DOMAIN results /\ ~(i <= j)
      BY <2>1
    <3> QED BY <1>2, <3>1
  <2> QED BY <2>2
<1> DEFINE first == CHOOSE k \in DOMAIN results : First(k)
<1>4. first \in DOMAIN results /\ First(first)
  BY <1>3
<1>5. Collect(results) = Err(results[first].value)
  BY <1>1 DEF Collect
<1> QED BY <1>4, <1>5

\* The rounds of a loop over a list, or the fields of a record.
LEMMA CollectPanics ==
    ASSUME NEW results, NEW n \in Nat, DOMAIN results = 1..n,
           Panics(Collect(results))
    PROVE  \E i \in DOMAIN results : Panics(results[i])
<1>1. /\ DOMAIN results \subseteq Nat \ {0}
      /\ \A i \in DOMAIN results : 1..i \subseteq DOMAIN results
  OBVIOUS
<1> QED BY <1>1, CollectError DEF Panics, Err

\* Of the conversions of scalars two can panic.
LEMMA ScalarsPanic ==
    ASSUME NEW v
    PROVE  /\ ~Panics(bytes_from_json(v))
           /\ ~Panics(integer_from_json(v))
           /\ ~Panics(u128_from_json(v))
           /\ ~Panics(from_hex(v))
           /\ Panics(signature_from_json(v)) => v = BadPoint
           /\ Panics(account_from_json(v)) => v = SplitText
BY DEF Panics, bytes_from_json, integer_from_json, u128_from_json, from_hex,
   signature_from_json, account_from_json, Ok, Err

LEMMA BlockPanics ==
    ASSUME NEW json, NEW type, Panics(block_from_json(json, type))
    PROVE  IsBad(json)
<1> DEFINE fields == <<account_from_json(At(json, "account")),
                       bytes_from_json(At(json, "previous")),
                       account_from_json(At(json, "representative")),
                       u128_from_json(At(json, "balance")),
                       bytes_from_json(At(json, "link")),
                       signature_from_json(At(json, "signature")),
                       bytes_from_json(At(json, "work"))>>
<1>1. Panics(Collect(fields))
  <2> HIDE DEF fields
  <2>1. Panics(Collect(fields)) \/ \E x : block_from_json(json, type) = Ok(x)
    BY DEF block_from_json, fields
  <2> QED BY <2>1 DEF Panics, Ok
<1>2. DOMAIN fields = 1..7
  OBVIOUS
<1>3. PICK i \in 1..7 : Panics(fields[i])
  <2> HIDE DEF fields
  <2> QED BY <1>1, <1>2, CollectPanics
<1>4. fields[i] \in {fields[1], fields[2], fields[3], fields[4], fields[5],
                     fields[6], fields[7]}
  <2> HIDE DEF fields
  <2>1. i \in {1, 2, 3, 4, 5, 6, 7}
    OBVIOUS
  <2> QED BY <2>1
<1>5. ~Panics(fields[2]) /\ ~Panics(fields[4]) /\ ~Panics(fields[5]) /\ ~Panics(fields[7])
  BY ScalarsPanic
<1>6. /\ Panics(fields[1]) => At(json, "account") = SplitText
      /\ Panics(fields[3]) => At(json, "representative") = SplitText
      /\ Panics(fields[6]) => At(json, "signature") = BadPoint
  BY ScalarsPanic
<1> HIDE DEF fields
<1> QED BY <1>3, <1>4, <1>5, <1>6 DEF IsBad

LEMMA TypedBlockPanics ==
    ASSUME NEW contents, NEW subtype, Panics(block_with_type(contents, subtype))
    PROVE  IsBad(contents)
BY BlockPanics DEF block_with_type, Panics, Err

LEMMA HistoryPanics ==
    ASSUME NEW json, NEW account, IsArray(At(json, "history")),
           Panics(parse_account_history(json, account))
    PROVE  HasBadText(json)
<1> DEFINE history == At(json, "history")
           rounds  == Rounds(json, account)
<1>1. history # Null /\ Panics(Collect(rounds))
  <2> HIDE DEF rounds
  <2> QED BY HistoryIsRounds DEF Panics, Err, rounds
<1>2. /\ DOMAIN rounds = Scanned(json)
      /\ Scanned(json) \subseteq DOMAIN history
      /\ DOMAIN history \subseteq Nat \ {0}
      /\ \A i \in Scanned(json) : 1..i \subseteq Scanned(json)
  BY <1>1 DEF IsArray, Rounds, Scanned
<1>3. PICK i \in Scanned(json) : Panics(rounds[i])
  <2> HIDE DEF rounds
  <2> QED BY <1>1, <1>2, CollectError DEF Panics, Err
<1>4. Panics(Parsed(json, i))
  <2>1. rounds[i] = Checked(json, account, i)
    BY DEF Rounds
  <2> HIDE DEF rounds
  <2> QED BY <1>3, <2>1 DEF Checked, Panics, Ok, Err
<1>5. IsBad(history[i])
  BY <1>4, TypedBlockPanics DEF block_from_history_json, Parsed
<1>6. history[i] \in BlockTexts(json)
  BY <1>1, <1>2 DEF BlockTexts, Members
<1> HIDE DEF history
<1> QED BY <1>5, <1>6 DEF HasBadText

LEMMA InfoPanics ==
    ASSUME NEW json, Panics(verified_info(json))
    PROVE  IsBad(At(json, "contents"))
<1> DEFINE fields == <<integer_from_json(At(json, "height")),
                       integer_from_json(At(json, "local_timestamp")),
                       integer_from_json(At(json, "confirmed"))>>
<1>1. ASSUME NEW b PROVE ~Panics(block_info_from_json(json, b))
  <2>1. DOMAIN fields = 1..3 /\ \A i \in 1..3 : ~Panics(fields[i])
    <3>1. ~Panics(fields[1]) /\ ~Panics(fields[2]) /\ ~Panics(fields[3])
      BY ScalarsPanic
    <3>2. DOMAIN fields = 1..3
      OBVIOUS
    <3> HIDE DEF fields
    <3>3. \A i \in 1..3 : i \in {1, 2, 3}
      OBVIOUS
    <3> QED BY <3>1, <3>2, <3>3
  <2>2. ~Panics(Collect(fields))
    <3> HIDE DEF fields
    <3> QED BY <2>1, CollectPanics
  <2>3. \/ block_info_from_json(json, b) = Collect(fields)
        \/ \E x : block_info_from_json(json, b) = Ok(x)
    <3> HIDE DEF fields
    <3> QED BY DEF block_info_from_json, fields
  <2> QED BY <2>2, <2>3 DEF Panics, Ok
<1>2. Panics(block_from_info_json(json))
  BY <1>1 DEF verified_info, Panics, Err
<1> QED BY <1>2, TypedBlockPanics DEF block_from_info_json

\* A loop that pushes several results for each item of a list.
LEMMA PushedPanics ==
    ASSUME NEW n \in Nat, NEW T, NEW pushed \in [1..n -> Seq(T)],
           Panics(Collect(FlattenSeq(pushed)))
    PROVE  \E i \in 1..n : \E j \in DOMAIN pushed[i] : Panics(pushed[i][j])
<1> DEFINE flat == FlattenSeq(pushed)
<1>1. /\ flat \in Seq(T)
      /\ \A k \in DOMAIN flat : IsElement(flat[k], n, pushed)
  BY FlattenElements
<1> HIDE DEF flat
<1>2. PICK m \in Nat : DOMAIN flat = 1..m
  BY <1>1
<1>3. PICK k \in DOMAIN flat : Panics(flat[k])
  BY <1>2, CollectPanics DEF flat
<1> QED BY <1>1, <1>3 DEF IsElement

\* The rounds of parse_blocks_info, and what each pushes.
InfoAt(json, hash) == At(At(json, "blocks"), to_uppercase_hex(hash))
InfosPushed(json, hashes) ==
    [i \in DOMAIN hashes |->
        IF InfoAt(json, hashes[i]) = Null THEN <<Ok(None)>>
        ELSE (IF is_legacy_info(InfoAt(json, hashes[i])) THEN <<Ok(None)>> ELSE <<>>)
             \o <<verified_info(InfoAt(json, hashes[i]))>>]

PushedIn(R, json, hashes) ==
    /\ InfosPushed(json, hashes) \in [1..Len(hashes) -> Seq(R)]
    /\ Len(hashes) \in Nat /\ DOMAIN hashes = 1..Len(hashes)
    /\ \A i \in 1..Len(hashes) :
          LET info == InfoAt(json, hashes[i])
          IN  InfosPushed(json, hashes)[i] =
                IF info = Null THEN <<Ok(None)>>
                ELSE IF is_legacy_info(info) THEN <<Ok(None), verified_info(info)>>
                ELSE <<verified_info(info)>>

LEMMA InfosPush ==
    ASSUME NEW json, NEW T, NEW hashes \in Seq(T)
    PROVE  \E R : PushedIn(R, json, hashes)
<1> DEFINE n == Len(hashes)
           pushed == InfosPushed(json, hashes)
           info(i) == InfoAt(json, hashes[i])
           R == {Ok(None)} \cup {verified_info(info(i)) : i \in 1..n}
<1>1. n \in Nat /\ DOMAIN hashes = 1..n
  OBVIOUS
<1>2. ASSUME NEW i \in 1..n
      PROVE  /\ pushed[i] = IF info(i) = Null THEN <<Ok(None)>>
                            ELSE IF is_legacy_info(info(i))
                            THEN <<Ok(None), verified_info(info(i))>>
                            ELSE <<verified_info(info(i))>>
             /\ pushed[i] \in Seq(R)
  <2> DEFINE v == verified_info(info(i))
  <2>1. v \in R /\ Ok(None) \in R
    OBVIOUS
  <2>2. pushed[i] = IF info(i) = Null THEN <<Ok(None)>>
                    ELSE (IF is_legacy_info(info(i)) THEN <<Ok(None)>> ELSE <<>>)
                         \o <<v>>
    BY <1>1 DEF InfosPushed
  <2> HIDE DEF R, v, pushed, info
  <2>3. <<>> \o <<v>> = <<v>> /\ <<Ok(None)>> \o <<v>> = <<Ok(None), v>>
    BY SmallAppends
  <2>4. <<Ok(None)>> \in Seq(R) /\ <<v>> \in Seq(R) /\ <<Ok(None), v>> \in Seq(R)
    BY <2>1
  <2>5. pushed[i] = IF info(i) = Null THEN <<Ok(None)>>
                    ELSE IF is_legacy_info(info(i)) THEN <<Ok(None), v>> ELSE <<v>>
    BY <2>2, <2>3
  <2> QED BY <2>4, <2>5 DEF v
<1>3. pushed \in [1..n -> Seq(R)]
  <2> HIDE DEF R
  <2>1. pushed = [i \in 1..n |-> pushed[i]]
    BY <1>1 DEF InfosPushed
  <2> HIDE DEF pushed
  <2> QED BY <1>2, <2>1
<1> HIDE DEF R, pushed, info
<1>4. PushedIn(R, json, hashes)
  BY <1>1, <1>2, <1>3 DEF pushed, info, PushedIn
<1> QED BY <1>4

LEMMA InfosPanic ==
    ASSUME NEW json, NEW T, NEW hashes \in Seq(T),
           Panics(parse_blocks_info(json, hashes))
    PROVE  HasBadText(json)
<1> DEFINE n == Len(hashes)
           pushed == InfosPushed(json, hashes)
           info(i) == InfoAt(json, hashes[i])
<1>1. Panics(Collect(FlattenSeq(pushed)))
  <2> HIDE DEF pushed
  <2>1. \/ parse_blocks_info(json, hashes) = Collect(FlattenSeq(pushed))
        \/ parse_blocks_info(json, hashes) = Err("InvalidData")
        \/ parse_blocks_info(json, hashes) = Err("InvalidJsonDataType")
    BY DEF parse_blocks_info, pushed, InfosPushed, InfoAt
  <2> QED BY <2>1 DEF Panics, Err
<1>0. PICK R : PushedIn(R, json, hashes)
  BY InfosPush
<1>2. /\ pushed \in [1..n -> Seq(R)]
      /\ n \in Nat
      /\ \A i \in 1..n : pushed[i] = IF info(i) = Null THEN <<Ok(None)>>
                                     ELSE IF is_legacy_info(info(i))
                                     THEN <<Ok(None), verified_info(info(i))>>
                                     ELSE <<verified_info(info(i))>>
  BY <1>0 DEF PushedIn
<1>3. PICK i \in 1..n : \E j \in DOMAIN pushed[i] : Panics(pushed[i][j])
  <2> HIDE DEF pushed
  <2> QED BY <1>1, <1>2, PushedPanics
<1>4. info(i) # Null /\ Panics(verified_info(info(i)))
  <2> DEFINE v == verified_info(info(i))
  <2> HIDE DEF pushed, info, v
  <2>1. ~Panics(Ok(None))
    BY DEF Panics, Ok
  <2>2. pushed[i] = IF info(i) = Null THEN <<Ok(None)>>
                    ELSE IF is_legacy_info(info(i)) THEN <<Ok(None), v>> ELSE <<v>>
    BY <1>2 DEF v
  <2>3. CASE info(i) = Null
    BY <1>3, <2>1, <2>2, <2>3
  <2>4. CASE info(i) # Null
    <3>1. \A j \in DOMAIN pushed[i] : pushed[i][j] \in {Ok(None), v}
      BY <2>2, <2>4
    <3> QED BY <1>3, <2>1, <2>4, <3>1 DEF v
  <2> QED BY <2>3, <2>4
<1>5. IsBad(At(info(i), "contents"))
  BY <1>4, InfoPanics
<1>6. At(info(i), "contents") \in BlockTexts(json)
  <2>1. info(i) \in Members(At(json, "blocks"))
    BY <1>4 DEF At, Members, InfoAt
  <2> QED BY <2>1 DEF BlockTexts
<1> HIDE DEF info
<1> QED BY <1>5, <1>6 DEF HasBadText

LEMMA RepresentativesPanic ==
    ASSUME NEW json, NEW T, NEW accounts \in Seq(T),
           Panics(parse_accounts_representatives(json, accounts))
    PROVE  HasBadText(json)
<1> DEFINE representatives == At(json, "representatives")
           of(i) == At(representatives, accounts[i])
           rounds == [i \in DOMAIN accounts |-> OptionOf(of(i), account_from_json(of(i)))]
<1>1. Len(accounts) \in Nat /\ DOMAIN rounds = 1..Len(accounts)
  OBVIOUS
<1>2. Panics(Collect(rounds))
  BY DEF parse_accounts_representatives
<1>3. PICK i \in DOMAIN accounts : Panics(rounds[i])
  <2>1. DOMAIN rounds = DOMAIN accounts
    OBVIOUS
  <2> HIDE DEF rounds
  <2> QED BY <1>1, <1>2, <2>1, CollectPanics
<1>4. of(i) # Null /\ Panics(account_from_json(of(i)))
  BY <1>3 DEF OptionOf, Panics, Ok
<1>5. of(i) = SplitText
  BY <1>4, ScalarsPanic
<1>6. of(i) \in Members(representatives)
  BY <1>4 DEF At, Members
<1> QED BY <1>5, <1>6 DEF HasBadText

LEMMA AccountInfoPanics ==
    ASSUME NEW json, Panics(parse_account_info(json))
    PROVE  HasBadText(json)
<1> DEFINE fields == <<bytes_from_json(At(json, "frontier")),
                       bytes_from_json(At(json, "open_block")),
                       u128_from_json(At(json, "balance")),
                       integer_from_json(At(json, "modified_timestamp")),
                       integer_from_json(At(json, "block_count")),
                       integer_from_json(At(json, "account_version")),
                       account_from_json(At(json, "representative")),
                       u128_from_json(At(json, "weight")),
                       integer_from_json(At(json, "receivable"))>>
<1>1. Panics(Collect(fields))
  <2> HIDE DEF fields
  <2>1. \/ parse_account_info(json) = Collect(fields)
        \/ \E x : parse_account_info(json) = Ok(x)
    BY DEF parse_account_info, fields
  <2> QED BY <2>1 DEF Panics, Ok
<1>2. DOMAIN fields = 1..9
  OBVIOUS
<1>3. PICK i \in 1..9 : Panics(fields[i])
  <2> HIDE DEF fields
  <2> QED BY <1>1, <1>2, CollectPanics
<1>4. i \in {1, 2, 3, 4, 5, 6, 7, 8, 9}
  OBVIOUS
<1>5. /\ ~Panics(fields[1]) /\ ~Panics(fields[2]) /\ ~Panics(fields[3])
      /\ ~Panics(fields[4]) /\ ~Panics(fields[5]) /\ ~Panics(fields[6])
      /\ ~Panics(fields[8]) /\ ~Panics(fields[9])
      /\ Panics(fields[7]) => At(json, "representative") = SplitText
  BY ScalarsPanic
<1> HIDE DEF fields
<1> QED BY <1>3, <1>4, <1>5 DEF HasBadText, IsBad

\* Loops whose rounds convert nothing that can panic.
LEMMA FrontiersPanic ==
    ASSUME NEW json, NEW T, NEW accounts \in Seq(T)
    PROVE  ~Panics(parse_accounts_frontiers(json, accounts))
<1> DEFINE of(i) == At(At(json, "frontiers"), accounts[i])
           rounds == [i \in DOMAIN accounts |-> OptionOf(of(i), bytes_from_json(of(i)))]
<1>1. Len(accounts) \in Nat /\ DOMAIN rounds = 1..Len(accounts)
  OBVIOUS
<1>2. \A i \in DOMAIN rounds : ~Panics(rounds[i])
  BY ScalarsPanic DEF OptionOf, Panics, Ok
<1>3. parse_accounts_frontiers(json, accounts) = Collect(rounds)
  BY DEF parse_accounts_frontiers
<1> HIDE DEF rounds
<1> QED BY <1>1, <1>2, <1>3, CollectPanics

LEMMA BalancesPanic ==
    ASSUME NEW json, NEW T, NEW accounts \in Seq(T)
    PROVE  ~Panics(parse_accounts_balances(json, accounts))
<1> DEFINE balance(a) == At(At(At(json, "balances"), a), "balance")
           pushes(a)  == (IF balance(a) = Null THEN <<Ok(0)>> ELSE <<>>)
                         \o <<u128_from_json(balance(a))>>
           pushed == [i \in DOMAIN accounts |-> pushes(accounts[i])]
           n == Len(accounts)
           R == {Ok(0)} \cup {u128_from_json(balance(accounts[i])) : i \in 1..n}
<1>1. n \in Nat /\ DOMAIN accounts = 1..n
  OBVIOUS
<1>2. parse_accounts_balances(json, accounts) = Collect(FlattenSeq(pushed))
  BY DEF parse_accounts_balances
<1>3. \A r \in R : ~Panics(r)
  BY ScalarsPanic DEF Panics, Ok
<1>4. pushed \in [1..n -> Seq(R)]
  <2>1. ASSUME NEW i \in 1..n PROVE pushed[i] \in Seq(R)
    <3> DEFINE v == u128_from_json(balance(accounts[i]))
    <3>1. v \in R /\ Ok(0) \in R
      OBVIOUS
    <3>2. pushed[i] = <<>> \o <<v>> \/ pushed[i] = <<Ok(0)>> \o <<v>>
      BY <1>1
    <3> HIDE DEF v, R, pushed
    <3>3. <<>> \o <<v>> \in Seq(R) /\ <<Ok(0)>> \o <<v>> \in Seq(R)
      BY <3>1
    <3> QED BY <3>2, <3>3
  <2>2. pushed = [i \in 1..n |-> pushed[i]]
    BY <1>1
  <2> HIDE DEF R, pushed
  <2> QED BY <2>1, <2>2
<1> HIDE DEF R, pushed
<1>5. \A i \in 1..n : \A j \in DOMAIN pushed[i] : pushed[i][j] \in R
  BY <1>4
<1> QED BY <1>1, <1>2, <1>3, <1>4, <1>5, PushedPanics

LEMMA ReceivablePanics ==
    ASSUME NEW json, NEW T, NEW accounts \in Seq(T),
           \A entry \in Members(At(json, "blocks")) : IsObject(entry)
    PROVE  ~Panics(parse_accounts_receivable(json, accounts))
<1> DEFINE blocks(a) == At(At(json, "blocks"), a)
           entry(a, hash) ==
               LET amount == u128_from_json(At(blocks(a), hash))
                   bytes  == from_hex(hash)
               IN  IF ~amount.ok THEN amount
                   ELSE IF ~bytes.ok THEN bytes
                   ELSE Ok([recipient |-> a, block_hash |-> bytes.value,
                            amount |-> amount.value])
           receivable(a) ==
               LET hashes == map_keys_from_json(blocks(a)).value
               IN  Collect([i \in DOMAIN hashes |-> entry(a, hashes[i])])
           pushes(a) == IF map_keys_from_json(blocks(a)).ok
                        THEN <<receivable(a)>> ELSE <<>>
           pushed == [i \in DOMAIN accounts |-> pushes(accounts[i])]
           n == Len(accounts)
<1>1. n \in Nat /\ DOMAIN accounts = 1..n
  OBVIOUS
<1>2. parse_accounts_receivable(json, accounts) = Collect(FlattenSeq(pushed))
  BY DEF parse_accounts_receivable
<1>3. ASSUME NEW a, NEW hash PROVE ~Panics(entry(a, hash))
  <2> DEFINE amount == u128_from_json(At(blocks(a), hash))
             bytes  == from_hex(hash)
  <2>1. ~Panics(amount) /\ ~Panics(bytes)
    BY ScalarsPanic
  <2>2. entry(a, hash) = amount \/ entry(a, hash) = bytes \/ \E x : entry(a, hash) = Ok(x)
    <3> HIDE DEF amount, bytes
    <3> QED BY DEF amount, bytes
  <2> HIDE DEF amount, bytes, entry
  <2> QED BY <2>1, <2>2 DEF Panics, Ok
<1>4. ASSUME NEW a, map_keys_from_json(blocks(a)).ok PROVE ~Panics(receivable(a))
  <2> DEFINE hashes == SetToSeq(DOMAIN blocks(a))
             rounds == [i \in DOMAIN hashes |-> entry(a, hashes[i])]
  <2>1. blocks(a) # Null
    BY <1>4 DEF map_keys_from_json, Err
  <2>2. blocks(a) \in Members(At(json, "blocks"))
    BY <2>1 DEF At, Members
  <2>3. IsFiniteSet(DOMAIN blocks(a))
    BY <2>1, <2>2 DEF IsObject
  <2>4. receivable(a) = Collect(rounds)
    <3> HIDE DEF entry, blocks
    <3> QED BY <2>1 DEF map_keys_from_json, Ok
  <2>5. PICK m \in Nat : DOMAIN hashes = 1..m
    BY <2>3, SetInOrder
  <2>6. DOMAIN rounds = 1..m /\ \A i \in DOMAIN rounds : ~Panics(rounds[i])
    <3> HIDE DEF entry, hashes
    <3> QED BY <1>3, <2>5
  <2> HIDE DEF rounds, receivable
  <2> QED BY <2>4, <2>6, CollectPanics
<1> DEFINE R == {receivable(a) : a \in {b \in {accounts[i] : i \in 1..n} :
                                          map_keys_from_json(blocks(b)).ok}}
<1> HIDE DEF receivable, blocks
<1>5. pushed \in [1..n -> Seq(R)]
  <2>1. ASSUME NEW i \in 1..n PROVE pushed[i] \in Seq(R)
    <3> DEFINE a == accounts[i]
    <3>1. pushed[i] = pushes(a)
      BY <1>1
    <3>2. map_keys_from_json(blocks(a)).ok => receivable(a) \in R
      OBVIOUS
    <3> HIDE DEF R, pushed, a
    <3> QED BY <3>1, <3>2
  <2> HIDE DEF R
  <2> QED BY <1>1, <2>1
<1>6. \A i \in 1..n : \A j \in DOMAIN pushed[i] : ~Panics(pushed[i][j])
  BY <1>1, <1>4
<1> HIDE DEF R, pushed
<1> QED BY <1>1, <1>2, <1>5, <1>6, PushedPanics

\* A ledger has finitely many blocks, so an account finitely many to receive.
LEMMA ReceivableIsFinite ==
    ASSUME NEW L \in [Account -> Seq(Known)], NEW a
    PROVE  IsFiniteSet(ReceivableBy(L, a))
<1> DEFINE chain == [c \in Account |-> {c} \X DOMAIN L[c]]
           chains == {{c} \X DOMAIN L[c] : c \in Account}
           P == UNION chains
           Q == {q \in P : LET b == L[q[1]][q[2]]
                           IN  /\ b.block_type = "send"
                               /\ b.link = a
                               /\ node_hash(b) \notin Received(L, a)}
           due(p) == [hash   |-> node_hash(L[p[1]][p[2]]),
                      amount |-> L[p[1]][p[2] - 1].balance - L[p[1]][p[2]].balance]
<1>1. IsFiniteSet(chains)
  <2>1. chain \in Surjection(Account, chains)
    BY DEF Surjection
  <2> HIDE DEF chain, chains
  <2> QED BY <2>1, GenesisAssumption, FS_Surjection
<1>2. ASSUME NEW c \in Account PROVE IsFiniteSet({c} \X DOMAIN L[c])
  <2>1. DOMAIN L[c] = 1..Len(L[c]) /\ Len(L[c]) \in Nat
    OBVIOUS
  <2>2. IsFiniteSet(DOMAIN L[c]) /\ IsFiniteSet({c})
    <3>1. \A n \in Nat : IsFiniteSet(1..n)
      BY FS_Interval
    <3> QED BY <2>1, <3>1, FS_Singleton
  <2> QED BY <2>2, FS_Product
<1>3. IsFiniteSet(P)
  <2>1. \A T \in chains : IsFiniteSet(T)
    BY <1>2
  <2> HIDE DEF chains
  <2> QED BY <1>1, <2>1, FS_UNION
<1>4. IsFiniteSet(Q)
  <2>1. Q \in SUBSET P
    OBVIOUS
  <2> HIDE DEF P, Q
  <2> QED BY <1>3, <2>1, FS_Subset
<1>5. ReceivableBy(L, a) = {due(p) : p \in Q}
  BY DEF ReceivableBy
<1> HIDE DEF P, Q, due
<1> DEFINE dues == [p \in Q |-> due(p)]
<1>6. dues \in Surjection(Q, {due(p) : p \in Q})
  BY DEF Surjection
<1> HIDE DEF dues
<1> QED BY <1>4, <1>5, <1>6, FS_Surjection

\* An answer to accounts_receivable has objects with finitely many keys.
LEMMA ReceivableHasObjects ==
    ASSUME NEW L \in [Account -> Seq(Known)], NEW q,
           NEW entry \in Members(At(AnswerReceivable(L, q), "blocks"))
    PROVE  IsObject(entry)
<1> DEFINE due(a) == {r \in ReceivableBy(L, a) : r.amount >= q.threshold}
           keys(a) == {to_uppercase_hex(r.hash) : r \in due(a)}
           lists == [a \in {x \in ToSet(q.accounts) : due(x) # {}} |->
                       [key \in keys(a) |-> (CHOOSE r \in due(a) : r.hash = key.bytes).amount]]
<1>1. At(AnswerReceivable(L, q), "blocks") \in {lists, Null}
  BY DEF AnswerReceivable, At
<1>2. entry \in Members(lists) /\ lists # Null
  BY <1>1 DEF Members
<1>3. PICK a \in DOMAIN lists : entry = lists[a]
  <2> HIDE DEF lists
  <2> QED BY <1>2 DEF Members
<1>4. DOMAIN entry = keys(a)
  BY <1>3
<1>5. IsFiniteSet(due(a))
  BY ReceivableIsFinite, FS_Subset
<1> HIDE DEF due
<1> DEFINE key == [r \in due(a) |-> to_uppercase_hex(r.hash)]
<1>6. key \in Surjection(due(a), keys(a))
  BY DEF Surjection
<1>7. IsFiniteSet(keys(a))
  <2> HIDE DEF key, keys
  <2> QED BY <1>5, <1>6, FS_Surjection
<1> QED BY <1>4, <1>7 DEF IsObject

LEMMA ReplyHasObjects ==
    ASSUME TypeOK, RepliesInv, NEW c \in Caller, stage[c] = "answered",
           request[c].method = "accounts_receivable",
           NEW entry \in Members(At(reply[c], "blocks"))
    PROVE  IsObject(entry)
<1>1. CASE reply[c] \in Lie
  BY <1>1, LieAssumption
<1>2. CASE reply[c] = Refusal
  <2>1. At(reply[c], "blocks") = Null
    BY <1>2 DEF Refusal, At
  <2> QED BY <2>1 DEF Members
<1>3. CASE HonestReply(c)
  <2> DEFINE q == encode(request[c])
  <2>1. PICK L \in window[c] : reply[c] = Answer(L, q)
    BY <1>3 DEF HonestReply
  <2>2. L \in [Account -> Seq(Known)] /\ request[c] \in Request
    BY DEF TypeOK
  <2>3. q.action = "accounts_receivable"
    BY <2>2, EncodedAction
  <2> HIDE DEF q
  <2>4. reply[c] = AnswerReceivable(L, q)
    BY <2>1, <2>3 DEF Answer
  <2> QED BY <2>2, <2>4, ReceivableHasObjects
<1> QED BY <1>1, <1>2, <1>3 DEF RepliesInv, ReplyInv

\* A parser that panics met one of the texts.
LEMMA ParsePanics ==
    ASSUME NEW r \in Request, NEW json, IsArray(At(json, "history")),
           r.method = "accounts_receivable" =>
              \A entry \in Members(At(json, "blocks")) : IsObject(entry),
           parse(r, json) = Panic
    PROVE  HasBadText(json)
<1>1. Panics(parse(r, json))
  BY DEF Panics, Panic, Err
<1>2. r.method \in Methods
  BY RequestAssumption
<1>3. CASE r.method \in {"account_balance", "process", "work_generate", "command"}
  <2>1. ~Panics(Err("InvalidData")) /\ \A x : ~Panics(Ok(x))
    BY DEF Panics, Err, Ok
  <2>2. CASE r.method = "account_balance"
    BY <1>1, <2>2, ScalarsPanic DEF parse, parse_account_balance
  <2>3. CASE r.method = "process"
    <3>1. parse(r, json) = parse_process(json, hash_block(r.block))
      BY <2>3 DEF parse
    <3> QED BY <1>1, <2>1, <3>1, ScalarsPanic DEF parse_process
  <2>4. CASE r.method = "work_generate"
    <3> DEFINE work == bytes_from_json(At(json, "work"))
               difficulty == target_difficulty(json, r.difficulty)
    <3>1. parse(r, json) \in {work, difficulty, Err("InvalidData")}
      BY <2>4 DEF parse, parse_work_generate
    <3>2. ~Panics(work) /\ ~Panics(difficulty)
      BY <2>1, ScalarsPanic DEF target_difficulty
    <3> HIDE DEF work, difficulty
    <3> QED BY <1>1, <2>1, <3>1, <3>2
  <2>5. CASE r.method = "command"
    BY <1>1, <2>1, <2>5 DEF parse
  <2> QED BY <1>3, <2>2, <2>3, <2>4, <2>5
<1>4. CASE r.method \in {"account_history", "account_representative"}
  <2>1. Panics(parse_account_history(json, r.account))
    <3>1. CASE r.method = "account_history"
      BY <1>1, <3>1 DEF parse
    <3>2. CASE r.method = "account_representative"
      <4>1. parse(r, json) = representative_of(parse_account_history(json, r.account))
        BY <3>2 DEF parse
      <4> QED BY <1>1, <4>1 DEF representative_of, parse_account_representative, Panics, Ok
    <3> QED BY <1>4, <3>1, <3>2
  <2> QED BY <2>1, HistoryPanics
<1>5. CASE r.method = "account_info"
  BY <1>1, <1>5, AccountInfoPanics DEF parse
<1>6. CASE r.method = "block_info"
  <2>1. parse(r, json) = parse_block_info(json)
    BY <1>6 DEF parse
  <2>2. Panics(verified_info(json))
    BY <1>1, <2>1 DEF parse_block_info, Panics, Ok
  <2>3. At(json, "contents") \in BlockTexts(json)
    BY DEF BlockTexts
  <2> QED BY <2>2, <2>3, InfoPanics DEF HasBadText
<1>7. CASE r.method = "blocks_info"
  <2>1. parse(r, json) = parse_blocks_info(json, r.hashes)
    BY <1>7 DEF parse
  <2>2. r.hashes \in Seq(ToSet(r.hashes))
    BY <1>7, RequestAssumption
  <2> QED BY <1>1, <2>1, <2>2, InfosPanic
<1>8. CASE r.method \in ListMethods \ {"blocks_info"}
  <2>1. r.accounts \in Seq(Account)
    BY <1>8, RequestAssumption
  <2>2. CASE r.method = "accounts_balances"
    BY <1>1, <2>1, <2>2, BalancesPanic DEF parse
  <2>3. CASE r.method = "accounts_frontiers"
    BY <1>1, <2>1, <2>3, FrontiersPanic DEF parse
  <2>4. CASE r.method = "accounts_representatives"
    BY <1>1, <2>1, <2>4, RepresentativesPanic DEF parse
  <2>5. CASE r.method = "accounts_receivable"
    BY <1>1, <2>1, <2>5, ReceivablePanics DEF parse
  <2> QED BY <1>8, <2>2, <2>3, <2>4, <2>5 DEF ListMethods
<1> QED BY <1>2, <1>3, <1>4, <1>5, <1>6, <1>7, <1>8 DEF Methods, ListMethods

\* Whatever a node answers, a call unwinds only on a signature whose first half
\* is no point, or on an account's text whose first five bytes end inside a
\* character: every other answer becomes a result, if only an RpcError.
THEOREM OnlyBadTextPanics == Spec => []PanicMeansBadText
<1>1. Init => RepliesInv /\ PanicMeansBadText
  BY DEF Init, RepliesInv, ReplyInv, InProgress, PanicMeansBadText
<1>2. TypeOK /\ RepliesInv /\ PanicMeansBadText /\ [Next]_vars
        => RepliesInv' /\ PanicMeansBadText'
  <2> SUFFICES ASSUME TypeOK, RepliesInv, PanicMeansBadText, [Next]_vars,
                      NEW c \in Caller, stage'[c] = "panicked"
               PROVE  HasBadText(reply'[c])
    BY RepliesInvStep DEF PanicMeansBadText, HasBadText, BlockTexts, IsBad, At, Members
  <2> USE DEF TypeOK
  <2>1. CASE stage[c] = "panicked" /\ reply'[c] = reply[c]
    BY <2>1 DEF PanicMeansBadText
  <2>2. ASSUME Deliver(c) PROVE HasBadText(reply'[c])
    <3>1. /\ stage[c] = "answered" /\ reply'[c] = reply[c] /\ request[c] \in Request
          /\ parse(request[c], reply[c]) = Panic
      BY <2>2 DEF Deliver
    <3>2. IsArray(At(reply[c], "history"))
      BY <3>1, ReplyHasArray
    <3> HIDE DEF TypeOK
    <3> QED BY <3>1, <3>2, ReplyHasObjects, ParsePanics
  <2>3. ASSUME NEW d \in Caller, NEW r \in Request, ReturnAtOnce(d, r) \/ Send(d, r)
        PROVE  stage[c] = "panicked" /\ reply'[c] = reply[c]
    BY <2>3 DEF ReturnAtOnce, Send, Forget
  <2>4. ASSUME NEW d \in Caller, NodeHandles(d) \/ NodeErrs(d) \/ NodeLies(d)
        PROVE  stage[c] = "panicked" /\ reply'[c] = reply[c]
    BY <2>4 DEF NodeHandles, NodeErrs, NodeLies, Replies
  <2>5. ASSUME NEW d \in Caller, d # c, Deliver(d)
        PROVE  stage[c] = "panicked" /\ reply'[c] = reply[c]
    BY <2>5 DEF Deliver
  <2>6. ASSUME NEW d \in Caller, ConnectionFails(d)
        PROVE  stage[c] = "panicked" /\ reply'[c] = reply[c]
    BY <2>6 DEF ConnectionFails, Forget
  <2>7. ASSUME NEW q \in adrift, NodeHandlesLate(q)
        PROVE  stage[c] = "panicked" /\ reply'[c] = reply[c]
    BY <2>7 DEF NodeHandlesLate
  <2>8. ASSUME NEW b \in Published, OthersPublish(b)
        PROVE  stage[c] = "panicked" /\ reply'[c] = reply[c]
    BY <2>8 DEF OthersPublish
  <2>9. CASE UNCHANGED vars
    BY <2>1, <2>9 DEF vars
  <2> HIDE DEF TypeOK
  <2> QED BY <2>1, <2>2, <2>3, <2>4, <2>5, <2>6, <2>7, <2>8, <2>9 DEF Next
<1> QED BY <1>1, <1>2, TypeCorrect, PTL DEF Spec

-----------------------------------------------------------------------------
(***************************************************************************)
(* Forks.  The height of an account's frontier only rises, and a block     *)
(* that is accepted raises it above the block's `previous`.                *)
(***************************************************************************)
Height == CHOOSE height \in [Hashes -> 0..Cardinality(Known)] :
              \A b \in Known : height[b.previous] < height[node_hash(b)]
Top(L, a) == Height[Frontier(L, a)]

LEMMA HeightRises ==
    /\ \A hash \in Hashes : Height[hash] \in Int
    /\ \A b \in Known : Height[b.previous] < Height[node_hash(b)]
<1>1. /\ Height \in [Hashes -> 0..Cardinality(Known)]
      /\ \A b \in Known : Height[b.previous] < Height[node_hash(b)]
  BY HashAssumption DEF Height
<1>2. 0..Cardinality(Known) \subseteq Int
  OBVIOUS
<1> QED BY <1>1, <1>2

LEMMA FrontierIsHash ==
    ASSUME NEW L \in [Account -> Seq(Known)], NEW a \in Account
    PROVE  Frontier(L, a) \in Hashes /\ Top(L, a) \in Int
<1>1. Opened(L, a) => Newest(L, a) \in Known
  BY DEF Opened, Newest
<1>2. Frontier(L, a) \in Hashes
  BY <1>1 DEF Frontier, Hashes
<1> QED BY <1>2, HeightRises DEF Top

LEMMA ExtendRises ==
    ASSUME NEW L \in [Account -> Seq(Known)], NEW b \in Known, Accepts(L, b)
    PROVE  /\ b.account \in Account
           /\ Top(L, b.account) = Height[b.previous]
           /\ Top(Extend(L, b), b.account) = Height[node_hash(b)]
           /\ Height[b.previous] < Height[node_hash(b)]
           /\ \A a \in Account : Top(L, a) <= Top(Extend(L, b), a)
<1>1. b.account \in Account
  BY KnownAssumption
<1>2. Top(L, b.account) = Height[b.previous]
  BY DEF Accepts, Top
<1>3. Frontier(Extend(L, b), b.account) = node_hash(b)
  <2>1. Extend(L, b)[b.account] = Append(L[b.account], b)
    BY <1>1 DEF Extend
  <2>2. L[b.account] \in Seq(Known)
    BY <1>1
  <2>3. Append(L[b.account], b) # <<>>
    BY <2>2
  <2>4. Append(L[b.account], b)[Len(Append(L[b.account], b))] = b
    BY <2>2
  <2> QED BY <2>1, <2>3, <2>4 DEF Frontier, Opened, Newest
<1>4. \A a \in Account \ {b.account} : Frontier(Extend(L, b), a) = Frontier(L, a)
  <2>1. \A a \in Account \ {b.account} : Extend(L, b)[a] = L[a]
    BY DEF Extend
  <2> QED BY <2>1 DEF Frontier, Opened, Newest
<1>5. Height[b.previous] < Height[node_hash(b)] /\ Height[node_hash(b)] \in Int
  BY HeightRises DEF Hashes
<1>6. \A a \in Account : Top(L, a) \in Int
  BY FrontierIsHash
<1>7. \A a \in Account : Top(L, a) <= Top(Extend(L, b), a)
  <2>1. Top(L, b.account) <= Top(Extend(L, b), b.account)
    BY <1>1, <1>2, <1>3, <1>5, <1>6 DEF Top
  <2>2. ASSUME NEW a \in Account, a # b.account
        PROVE  Top(L, a) <= Top(Extend(L, b), a)
    BY <1>4, <1>6, <2>2 DEF Top
  <2> QED BY <2>1, <2>2
<1> QED BY <1>1, <1>2, <1>3, <1>5, <1>7 DEF Top

\* No step lowers a frontier.
LEMMA FrontiersRise ==
    ASSUME TypeOK, [Next]_vars, NEW a \in Account
    PROVE  Top(ledger, a) <= Top(ledger', a)
<1>1. ledger \in [Account -> Seq(Known)] /\ Top(ledger, a) \in Int
  BY FrontierIsHash DEF TypeOK
<1>2. CASE ledger' = ledger
  BY <1>1, <1>2
<1>3. ASSUME NEW b \in Known, Accepts(ledger, b), ledger' = Extend(ledger, b)
      PROVE  Top(ledger, a) <= Top(ledger', a)
  BY <1>1, <1>3, ExtendRises
<1>4. ASSUME NEW r \in Sendable, ledger' = AfterRequest(ledger, encode(r))
      PROVE  Top(ledger, a) <= Top(ledger', a)
  BY <1>2, <1>3, <1>4, AfterRequestKnown
<1>5. ASSUME NEW c \in Caller, NodeHandles(c)
      PROVE  Top(ledger, a) <= Top(ledger', a)
  <2>1. request[c] \in Sendable
    BY <1>5 DEF NodeHandles, Replies, TypeOK, InProgress
  <2> QED BY <1>4, <1>5, <2>1 DEF NodeHandles, LedgerBecomes
<1>6. ASSUME NEW q \in adrift, NodeHandlesLate(q)
      PROVE  Top(ledger, a) <= Top(ledger', a)
  <2>1. PICK r \in Sendable : q = encode(r)
    BY DEF TypeOK
  <2> QED BY <1>4, <1>6, <2>1 DEF NodeHandlesLate, LedgerBecomes
<1>7. ASSUME NEW b \in Published, OthersPublish(b)
      PROVE  Top(ledger, a) <= Top(ledger', a)
  BY <1>3, <1>7, KnownSources DEF OthersPublish, LedgerBecomes
<1> QED
  BY <1>2, <1>5, <1>6, <1>7
  DEF Next, ReturnAtOnce, Send, NodeErrs, NodeLies, Deliver, ConnectionFails, vars

\* A call of `process` has succeeded, or will once its answer arrives.
Reported(c) ==
    /\ request[c].method = "process"
    /\ \/ stage[c] = "answered" /\ parse(request[c], reply[c]).ok
       \/ stage[c] = "returned" /\ response[c].result.ok

\* The frontier has risen above what a reported block follows, and no other
\* report is of a block that follows it too.
ReportsInv ==
    \A c \in Caller : Reported(c) =>
        /\ request[c].block \in Known
        /\ Height[request[c].block.previous] < Top(ledger, request[c].block.account)
        /\ \A d \in Caller :
              /\ Reported(d)
              /\ request[c].block.account = request[d].block.account
              /\ request[c].block.previous = request[d].block.previous
              => c = d

\* The node has accepted the block that c asked it to publish.
AcceptedFor(c) ==
    /\ request[c] \in Sendable
    /\ request[c].method = "process"
    /\ request[c].block \in Known
    /\ Accepts(ledger, request[c].block)
    /\ ledger' = Extend(ledger, request[c].block)

\* With an honest node a report comes of acceptance.
LEMMA ReportOfHonest ==
    ASSUME TypeOK, NEW c \in Caller, NodeHandles(c), Reported(c)'
    PROVE  AcceptedFor(c)
<1> DEFINE r == request[c]
           q == encode(r)
<1>1. /\ r \in Sendable
      /\ stage'[c] = "answered" /\ request'[c] = r /\ reply'[c] = Answer(ledger, q)
      /\ ledger' = AfterRequest(ledger, q)
  BY DEF NodeHandles, Replies, TypeOK, InProgress, LedgerBecomes
<1>2. r.method = "process" /\ parse(r, Answer(ledger, q)).ok
  BY <1>1 DEF Reported
<1>3. r \in Request /\ is_state(r.block.block_type)
  BY <1>1, <1>2 DEF Sendable, RefusesLegacy
<1>4. BlockOf(q) = r.block /\ r.block \in Known
  BY <1>2, <1>3, ProcessCarriesBlock, KnownSources
<1>5. q.action = "process"
  BY <1>2, <1>3, EncodedAction
<1> HIDE DEF q
<1>6. Answer(ledger, q) = IF Accepts(ledger, BlockOf(q)) THEN [hash |-> hash_block(BlockOf(q))]
                          ELSE Refusal
  BY <1>5 DEF Answer
<1>7. ~parse(r, Refusal).ok
  <2>1. At(Refusal, "hash") = Null
    BY DEF At, Refusal
  <2>2. parse(r, Refusal) = parse_process(Refusal, hash_block(r.block))
    BY <1>2 DEF parse
  <2> QED BY <2>1, <2>2 DEF parse_process, bytes_from_json, Err
<1>8. Accepts(ledger, BlockOf(q))
  BY <1>2, <1>6, <1>7
<1>9. ledger' = Extend(ledger, BlockOf(q))
  BY <1>1, <1>5, <1>8 DEF AfterRequest
<1> QED BY <1>1, <1>2, <1>4, <1>8, <1>9 DEF AcceptedFor

LEMMA ReportsStep ==
    ASSUME TypeOK, "lie" \notin Faults, [Next]_vars, NEW c \in Caller, Reported(c)'
    PROVE  /\ request'[c] = request[c]
           /\ \/ Reported(c)
              \/ NodeHandles(c) /\ AcceptedFor(c)
<1> DEFINE Goal == /\ request'[c] = request[c]
                   /\ \/ Reported(c)
                      \/ NodeHandles(c) /\ AcceptedFor(c)
<1>1. CASE UNCHANGED <<stage[c], request[c], reply[c], response[c]>>
  BY <1>1 DEF Reported, parse
<1>2. ASSUME NEW d \in Caller, NEW r \in Request, ReturnAtOnce(d, r)
      PROVE  Goal
  <2>1. CASE d = c
    BY <1>2, <2>1 DEF ReturnAtOnce, Reported, TypeOK, AsksNothing, ListMethods,
       no_request, Response, Err
  <2> QED BY <1>1, <1>2, <2>1 DEF ReturnAtOnce, Forget, TypeOK
<1>3. ASSUME NEW d \in Caller, NEW r \in Request, Send(d, r)
      PROVE  Goal
  <2>1. CASE d = c
    BY <1>3, <2>1 DEF Send, Reported, TypeOK
  <2> QED BY <1>1, <1>3, <2>1 DEF Send, Forget, TypeOK
<1>4. ASSUME NEW d \in Caller, NodeHandles(d)
      PROVE  Goal
  <2>1. CASE d = c
    BY <1>4, <2>1, ReportOfHonest DEF NodeHandles, Replies
  <2> QED BY <1>1, <1>4, <2>1 DEF NodeHandles, Replies, TypeOK
<1>5. ASSUME NEW d \in Caller, NodeErrs(d)
      PROVE  Goal
  <2>1. CASE d = c
    <3>1. /\ stage'[c] = "answered" /\ reply'[c] = Refusal /\ request'[c].method = "process"
          /\ parse(request'[c], Refusal).ok
      BY <1>5, <2>1 DEF NodeErrs, Replies, Reported, TypeOK
    <3>2. At(Refusal, "hash") = Null
      BY DEF At, Refusal
    <3> QED BY <3>1, <3>2 DEF parse, parse_process, bytes_from_json, Err
  <2> QED BY <1>1, <1>5, <2>1 DEF NodeErrs, Replies, TypeOK
<1>6. ASSUME NEW d \in Caller, Deliver(d)
      PROVE  Goal
  <2>1. CASE d = c
    BY <1>6, <2>1 DEF Deliver, Reported, TypeOK, Response
  <2> QED BY <1>1, <1>6, <2>1 DEF Deliver, TypeOK
<1>7. ASSUME NEW d \in Caller, ConnectionFails(d)
      PROVE  Goal
  <2>1. CASE d = c
    BY <1>7, <2>1 DEF ConnectionFails, Reported, TypeOK, Response, Err
  <2> QED BY <1>1, <1>7, <2>1 DEF ConnectionFails, Forget, TypeOK
<1>8. ASSUME NEW q \in adrift, NodeHandlesLate(q)
      PROVE  Goal
  BY <1>1, <1>8 DEF NodeHandlesLate
<1>9. ASSUME NEW b \in Published, OthersPublish(b)
      PROVE  Goal
  BY <1>1, <1>9 DEF OthersPublish
<1>10. ASSUME UNCHANGED vars
       PROVE  Goal
  BY <1>1, <1>10 DEF vars
<1> HIDE DEF Goal
<1>11. Goal
  <2>1. \A d \in Caller : ~NodeLies(d)
    BY DEF NodeLies
  <2> QED BY <2>1, <1>2, <1>3, <1>4, <1>5, <1>6, <1>7, <1>8, <1>9, <1>10 DEF Next
<1> QED BY <1>11 DEF Goal

LEMMA ReportsInvStep ==
    ASSUME TypeOK, ReportsInv, "lie" \notin Faults, [Next]_vars
    PROVE  ReportsInv'
<1> SUFFICES ASSUME NEW c \in Caller, Reported(c)'
             PROVE  /\ request'[c].block \in Known
                    /\ Height[request'[c].block.previous]
                          < Top(ledger', request'[c].block.account)
                    /\ \A d \in Caller :
                          /\ Reported(d)'
                          /\ request'[c].block.account = request'[d].block.account
                          /\ request'[c].block.previous = request'[d].block.previous
                          => c = d
  BY DEF ReportsInv
<1> DEFINE b(d) == request[d].block
           Risen(d) == /\ b(d) \in Known
                       /\ Height[b(d).previous] < Top(ledger, b(d).account)
<1>1. \A d \in Caller : Reported(d) => Risen(d)
  BY DEF ReportsInv
<1>2. ledger \in [Account -> Seq(Known)] /\ ledger' \in [Account -> Seq(Known)]
  BY TypeStep DEF TypeOK
<1>3. \A d \in Caller : Reported(d)' => b(d) \in Known /\ request'[d] = request[d]
  BY <1>1, ReportsStep DEF AcceptedFor
<1>4. Height[b(c).previous] < Top(ledger', b(c).account)
  <2>1. CASE Reported(c)
    <3>1. /\ b(c).account \in Account
          /\ Height[b(c).previous] \in Int
          /\ Height[b(c).previous] < Top(ledger, b(c).account)
      BY <1>1, <2>1, KnownAssumption, HeightRises DEF Hashes
    <3>2. /\ Top(ledger, b(c).account) \in Int /\ Top(ledger', b(c).account) \in Int
          /\ Top(ledger, b(c).account) <= Top(ledger', b(c).account)
      BY <1>2, <3>1, FrontierIsHash, FrontiersRise
    <3> QED BY <3>1, <3>2
  <2>2. CASE AcceptedFor(c)
    BY <1>2, <2>2, ExtendRises DEF AcceptedFor
  <2> QED BY <2>1, <2>2, ReportsStep
<1>5. ASSUME NEW d \in Caller, NEW e \in Caller, d # e,
             NodeHandles(d), AcceptedFor(d), Reported(e)',
             b(d).account = b(e).account, b(d).previous = b(e).previous
      PROVE  FALSE
  <2>1. ~NodeHandles(e)
    BY <1>5 DEF NodeHandles, Replies, TypeOK
  <2>2. Reported(e)
    BY <1>5, <2>1, ReportsStep
  <2>3. Height[b(d).previous] < Top(ledger, b(d).account)
    BY <1>1, <1>5, <2>2
  <2>4. Top(ledger, b(d).account) = Height[b(d).previous] /\ b(d).account \in Account
    BY <1>2, <1>5, ExtendRises DEF AcceptedFor
  <2>5. Top(ledger, b(d).account) \in Int
    BY <1>2, <2>4, FrontierIsHash
  <2> QED BY <2>3, <2>4, <2>5
<1>6. ASSUME NEW d \in Caller, Reported(d)',
             b(c).account = b(d).account, b(c).previous = b(d).previous
      PROVE  c = d
  <2>1. CASE Reported(c) /\ Reported(d)
    BY <1>6, <2>1 DEF ReportsInv
  <2>2. CASE NodeHandles(c) /\ AcceptedFor(c)
    BY <1>5, <1>6, <2>2
  <2>3. CASE NodeHandles(d) /\ AcceptedFor(d)
    BY <1>5, <1>6, <2>3
  <2> QED BY <1>6, <2>1, <2>2, <2>3, ReportsStep
<1> QED BY <1>3, <1>4, <1>6

\* With an honest node, of the blocks that follow one block of an account only
\* one is ever reported as published, whoever raced, gave up or tried again.
THEOREM ForkReportedOnce ==
    ASSUME "lie" \notin Faults
    PROVE  Spec => []OneForkReported
<1>1. Init => ReportsInv
  BY DEF Init, ReportsInv, Reported
<1>2. TypeOK /\ ReportsInv /\ [Next]_vars => ReportsInv'
  BY ReportsInvStep
<1>3. ReportsInv => OneForkReported
  BY DEF ReportsInv, OneForkReported, Reported, Answered, Returned, result
<1> QED BY <1>1, <1>2, <1>3, TypeCorrect, PTL DEF Spec
=============================================================================
