------------------------------- MODULE MCRpc --------------------------------
(***************************************************************************)
(* Small instances of RpcClient: a chain that starts with a legacy block,  *)
(* two sends that fork it, an epoch block, a receive on a second account,  *)
(* and an account of small order.                                          *)
(***************************************************************************)
EXTENDS RpcClient

CONSTANTS c1, c2, A, B, V, S, NoLink, EpochLink

MCSmallKey == S :> 1
MCKeylessR == {"R"}
MCChallenge(R, account, message) == message[4]

\* The value of a nonce is the nonce itself, except on one hash.
MCWork(hash, nonce) == IF hash = ZeroHash THEN 0 ELSE nonce

Unsigned(type, account, previous, representative, balance, link) ==
    [block_type |-> type, account |-> account, previous |-> previous,
     representative |-> representative, balance |-> balance, link |-> link,
     signature |-> Null, work |-> 0]

unsigned_open == Unsigned("open", A, ZeroHash, A, 4, NoLink)
open == [unsigned_open EXCEPT !.signature = sign_message(node_hash(unsigned_open), A)]
send == sign(Unsigned("send", A, node_hash(open), A, 3, B), A)
fork == sign(Unsigned("send", A, node_hash(open), B, 2, B), A)
epoch == sign(Unsigned("epoch", A, hash_block(send), A, 3, EpochLink), V)
receive == sign(Unsigned("receive", B, ZeroHash, A, 1, hash_block(send)), B)

MCGenesis == [a \in Account |-> IF a = A THEN <<open>> ELSE <<>>]
MCPublished == {send, epoch, receive}
LiePublished == {epoch}

History(a, count, head, offset) ==
    [method |-> "account_history", account |-> a, count |-> count,
     head |-> head, offset |-> offset]
Of(method, a) == [method |-> method, account |-> a]
OfAll(method, accounts) == [method |-> method, accounts |-> accounts]
Receivable(accounts, threshold) ==
    [method |-> "accounts_receivable", accounts |-> accounts, count |-> 10,
     threshold |-> threshold]
Process(b) == [method |-> "process", block |-> b]
Info(hash) == [method |-> "block_info", hash |-> hash]
Infos(hashes) == [method |-> "blocks_info", hashes |-> hashes]
Command(name, arguments) ==
    [method |-> "command", command |-> name, arguments |-> arguments]
Work(difficulty) ==
    [method |-> "work_generate", hash |-> hash_block(send),
     difficulty |-> difficulty]

\* Calls that read one account, and publishing beside them.
SingleRequests ==
    {History(A, 2, None, None), History(A, 3, hash_block(epoch), 1),
     Of("account_balance", B), Of("account_info", A), Of("account_info", B),
     Of("account_representative", A), Of("account_representative", B),
     Info(hash_block(receive)), Info(node_hash(open)),
     Work(None), Work(2), Work(3), Process(send),
     Command("account_balance", [action |-> "process", account |-> B]),
     Command("process", [subtype |-> "send", block |-> block_to_json(send)])}

\* Calls that read several, in an order that is not the ledger's.
BatchRequests ==
    {OfAll("accounts_balances", <<B, A>>), OfAll("accounts_frontiers", <<B, A>>),
     OfAll("accounts_representatives", <<B, A>>),
     OfAll("accounts_frontiers", <<>>),
     Receivable(<<A, B>>, 1), Receivable(<<B>>, 2),
     Infos(<<hash_block(receive), hash_block(send)>>),
     Infos(<<hash_block(send), hash_block(epoch)>>),
     Infos(<<node_hash(open)>>), Process(fork)}

HonestRequests == SingleRequests \cup BatchRequests

\* Two callers that publish the two sides of a fork, or a legacy block, while
\* another wallet may publish one of them.
ForkRequests == {Process(send), Process(fork), Process(open)}
ForkPublished == {send}

-----------------------------------------------------------------------------
\* What a lying node builds its answers from: the entries of real blocks,
\* mislabelled, altered, of the wrong kind or broken.
Entries ==
    {HistoryEntry(b) : b \in {open, send, fork, epoch}}
    \cup {[HistoryEntry(send) EXCEPT !.subtype = s] : s \in {"receive", "epoch", "x"}}
    \cup {[HistoryEntry(send) EXCEPT !.balance = 4],
          [HistoryEntry(epoch) EXCEPT !.previous = hash_block(fork)]}
Broken ==
    {[HistoryEntry(send) EXCEPT !.signature = s] : s \in {BadPoint, Malformed}}
    \cup {[HistoryEntry(send) EXCEPT !.account = text] : text \in {Malformed, SplitText}}
    \cup {[HistoryEntry(send) EXCEPT !.type = "send", !.account = A]}

\* Blocks that nobody signed.
Keyless ==
    {HistoryEntry([Unsigned("change", a, ZeroHash, A, 1, NoLink)
                      EXCEPT !.signature = keyless("R", rest)]) : a \in {A, S}, rest \in 0..1}

InfoText(entry) ==
    [height |-> 1, local_timestamp |-> 1, confirmed |-> TRUE,
     subtype |-> At(entry, "subtype"), contents |-> entry]

MCLie ==
    {Refusal, Null, [hash |-> hash_block(fork)], [hash |-> Malformed]}
    \cup {[history |-> h] : h \in {<<e, f>> : e, f \in Entries}
                               \cup {<<e>> : e \in Entries \cup Broken \cup Keyless}
                               \cup {<<epoch_, send_, e>> : epoch_ \in {HistoryEntry(epoch)},
                                        send_ \in {HistoryEntry(send)}, e \in Entries}}
    \cup {InfoText(e) : e \in Entries \cup Broken \cup Keyless}
    \cup {[representatives |-> (A :> text)] : text \in {B, SplitText}}
    \cup {[AnswerInfo(MCGenesis, A) EXCEPT !.representative = text] :
             text \in {Malformed, SplitText}}
    \cup {[blocks |-> (to_uppercase_hex(hash_block(send)) :> InfoText(e))] :
             e \in Entries \cup Broken \cup Keyless}
    \cup {[balances |-> [a \in known |-> [balance |-> 1]]] : known \in {{A}, {A, B}}}
    \cup {[frontiers |-> (A :> hash_block(epoch))]}
    \cup {[work |-> w, difficulty |-> d] : w, d \in {0, 1, 2, Malformed}}

LieRequests ==
    {History(A, 3, None, None), History(S, 3, None, None), Of("account_representative", A),
     Of("account_info", A), Command("block_info", [hash |-> to_uppercase_hex(hash_block(send))]),
     Info(hash_block(send)), Infos(<<hash_block(receive), hash_block(send)>>),
     OfAll("accounts_balances", <<B, A>>), OfAll("accounts_frontiers", <<B, A>>),
     OfAll("accounts_representatives", <<B, A>>),
     Work(None), Work(2), Process(send), Process(fork)}
=============================================================================
