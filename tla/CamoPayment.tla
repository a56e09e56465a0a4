----------------------------- MODULE CamoPayment -----------------------------
(***************************************************************************)
(* Payments to CAMO accounts over a ledger: devices that hold one payer's  *)
(* keys, and a recipient's wallet, as programs that use sender_ecdh,       *)
(* derive_account, Notification::from_v1, receiver_ecdh and derive_key the *)
(* way their documentation asks.                                           *)
(*                                                                         *)
(* A payment is two blocks, in either order: the notification, on any      *)
(* account of the payer, and the payment to the one-time account.  Between *)
(* and before them a device may crash and lose what it knew; another may   *)
(* publish first, and the block is refused; the recipient reads the two    *)
(* chains at their own pace, restarts and reads again.  The payer notifies *)
(* of what it finds on the sender's chain with nothing but its key.        *)
(***************************************************************************)
EXTENDS CamoKeys, SequencesExt, Integers

CONSTANTS
    PayerSeed,         \* the seed the devices of the payer hold
    Sender,            \* the payer's account that pays
    Notifier,          \* its accounts that notify
    Device,            \* its devices
    Plan,              \* the payments each makes: to whom, and who notifies
    RecipientSeed,     \* the seed of the wallet that is paid
    Recipient,         \* the CAMO accounts of that wallet, by index
    Versions,          \* the versions they signal
    RepresentativeKey, \* of the representative of ordinary blocks
    Room,              \* bound on the blocks of each chain, but for recovery
    MaxRestarts        \* bound on the recipient's restarts

Own == Notifier \cup {Sender}

ASSUME PaymentAssumption ==
    /\ has_layout(Versions)
    /\ Plan \subseteq [by : Device, to : Recipient, notifier : Notifier]
    /\ Room \in [Own -> Nat]
    /\ MaxRestarts \in Nat

\* A payment is named by its addressee and by the place, in the sender's
\* chain, of the block that was newest when its secret was computed.
Frontier == 0..(Room[Sender] - 1)
Payment == [to : Recipient, frontier : Frontier]

\* What a block is published for; its contents are below.
payment(p) == [kind |-> "payment", p |-> p]
notification(p) == [kind |-> "notification", p |-> p]
ordinary(r) == [kind |-> "ordinary", to |-> r]
Block == {payment(p) : p \in Payment} \cup {notification(p) : p \in Payment}
         \cup {ordinary(r) : r \in Recipient}

-----------------------------------------------------------------------------
(***************************************************************************)
(* What the wallets compute with the library.                              *)
(***************************************************************************)
sender_key == get_account_scalar(PayerSeed, Sender)
keys_of(r) == keys_from_seed(RecipientSeed, r, Versions)
account_of(r) == keys_to_account(keys_of(r))

\* A block is hashed with the account it is of and the block it follows.
block_hash(n) == <<Sender, n>>

secret_of(p) == sender_secret(account_of(p.to), sender_key, block_hash(p.frontier))
notification_of(p) ==
    sender_notification(account_of(p.to), sender_key, block_hash(p.frontier))

link_of(b) ==
    IF b.kind = "payment" THEN derive_account(account_of(b.p.to), secret_of(b.p))
    ELSE IF b.kind = "notification" THEN notification_of(b.p).recipient
    ELSE signer_account(account_of(b.to))

representative_of(b) ==
    IF b.kind = "notification" THEN notification_of(b.p).representative_payload
                               ELSE to_account({RepresentativeKey})

\* Recipient r, who watches this account, reads b as a notification.
is_for_signer(r, b) == link_of(b) = signer_account(account_of(r))

\* The one-time account whose key r derives from b ...
derived_from(r, b) ==
    LET read_from_b == from_v1([account        |-> to_account(sender_key),
                                representative |-> representative_of(b)])
    IN  to_account(derive_key(keys_of(r), receiver_ecdh(keys_of(r), read_from_b)))

\* ... with which it can receive block x.
unlocks(r, b, x) == link_of(x) = derived_from(r, b)

\* Block b, found on the sender's chain, is the payment p recomputed ...
is_made_by(p, b) == link_of(payment(p)) = link_of(b)

\* ... and block b notifies of p.
is_notified_by(p, b) ==
    /\ link_of(b) = link_of(notification(p))
    /\ representative_of(b) = representative_of(notification(p))

\* The same as relations, which are computed once.
Pairs(S, T) == {<<s, t>> : s \in S, t \in T}
ForSigner  == {x \in Pairs(Recipient, Block) : is_for_signer(x[1], x[2])}
Unlocks    == {x \in Pairs(Pairs(Recipient, Block), Block) :
                  unlocks(x[1][1], x[1][2], x[2])}
MadeBy     == {x \in Pairs(Payment, Block) : is_made_by(x[1], x[2])}
NotifiedBy == {x \in Pairs(Payment, Block) : is_notified_by(x[1], x[2])}

-----------------------------------------------------------------------------
VARIABLES
    chain,     \* the blocks each account of the payer has published
    job,       \* what each device is doing
    read,      \* how many of them the recipient has read since it started
    received,  \* the blocks it has received, and with which account's key
    restarts   \* how often it restarted

vars == <<chain, job, read, received, restarts>>

Idle == [todo |-> {}]

Init ==
    /\ chain = [a \in Own |-> <<>>]
    /\ job = [d \in Device |-> Idle]
    /\ read = [a \in Own |-> 0]
    /\ received = {}
    /\ restarts = 0

(***************************************************************************)
(* The payer.                                                              *)
(***************************************************************************)
HasRoom(a) == Len(chain[a]) < Room[a]

Publish(a, b) ==
    /\ chain' = [chain EXCEPT ![a] = Append(@, b)]
    /\ UNCHANGED <<read, received, restarts>>

SetJob(d, j) ==
    /\ job' = [job EXCEPT ![d] = j]
    /\ UNCHANGED <<chain, read, received, restarts>>

\* A device reads the sender's frontier, and computes the secret from it.
Begin(d, r, n) ==
    /\ job[d] = Idle
    /\ HasRoom(Sender)
    /\ SetJob(d, [todo     |-> {"notify", "pay"},
                  payment  |-> [to |-> r, frontier |-> Len(chain[Sender])],
                  notifier |-> n,
                  next     |-> Len(chain[Sender])])

\* A block is refused if another was first: then only Drop is left.
Fits(d, a) == a = Sender => job[d].next = Len(chain[Sender])

\* The job without the step just done, which moved the frontier of a.
After(j, a, step) ==
    IF j.todo = {step} THEN Idle
    ELSE [todo     |-> j.todo \ {step},
          payment  |-> j.payment,
          notifier |-> j.notifier,
          next     |-> IF a = Sender THEN j.next + 1 ELSE j.next]

SendNotification(d) ==
    /\ "notify" \in job[d].todo
    /\ HasRoom(job[d].notifier)
    /\ Fits(d, job[d].notifier)
    /\ Publish(job[d].notifier, notification(job[d].payment))
    /\ job' = [job EXCEPT ![d] = After(@, @.notifier, "notify")]

SendPayment(d) ==
    /\ "pay" \in job[d].todo
    /\ HasRoom(Sender)
    /\ Fits(d, Sender)
    /\ Publish(Sender, payment(job[d].payment))
    /\ job' = [job EXCEPT ![d] = After(@, Sender, "pay")]

\* The block was refused, or the program crashes, or its user gives up.
Drop(d) ==
    /\ job[d] # Idle
    /\ SetJob(d, Idle)

\* A send to the public account that belongs to a CAMO account.
SendOrdinary(r) ==
    /\ HasRoom(Sender)
    /\ Publish(Sender, ordinary(r))
    /\ UNCHANGED job

Published == UNION {ToSet(chain[a]) : a \in Own}

\* The sender finds a payment on its chain, and nothing that notifies of it.
Recover ==
    \E p \in Payment :
        /\ \E b \in ToSet(chain[Sender]) : <<p, b>> \in MadeBy
        /\ \A b \in Published : <<p, b>> \notin NotifiedBy
        /\ Publish(Sender, notification(p))
        /\ UNCHANGED job

-----------------------------------------------------------------------------
(***************************************************************************)
(* The recipient.                                                          *)
(***************************************************************************)
\* Mutant: one block too many.
Read_PastEnd(a) ==
    /\ read[a] <= Len(chain[a])
    /\ read' = [read EXCEPT ![a] = @ + 1]
    /\ UNCHANGED <<chain, job, received, restarts>>

\* It hears of the blocks of a chain one after the other, as they are
\* confirmed, and of the chains at any pace.
Read(a) ==
    /\ read[a] < Len(chain[a])
    /\ read' = [read EXCEPT ![a] = @ + 1]
    /\ UNCHANGED <<chain, job, received, restarts>>

\* Every send to the account that is notified is read as a notification.
notifications(r) ==
    UNION {{chain[a][i] : i \in {j \in 1..read[a] : <<r, chain[a][j]>> \in ForSigner}} :
           a \in Own}

Receive(r, a, i) ==
    /\ \E b \in notifications(r) : <<<<r, b>>, chain[a][i]>> \in Unlocks
    /\ [by |-> r, account |-> a, place |-> i] \notin received
    /\ received' = received \cup {[by |-> r, account |-> a, place |-> i]}
    /\ UNCHANGED <<chain, job, read, restarts>>

\* What was read is lost, and is read again.
Restart ==
    /\ restarts < MaxRestarts
    /\ restarts' = restarts + 1
    /\ read' = [a \in Own |-> 0]
    /\ UNCHANGED <<chain, job, received>>

-----------------------------------------------------------------------------
ReceiveAny == \E r \in Recipient, a \in Own : \E i \in DOMAIN chain[a] : Receive(r, a, i)

Next ==
    \/ \E x \in Plan : Begin(x.by, x.to, x.notifier)
    \/ \E d \in Device : SendNotification(d)
    \/ \E d \in Device : SendPayment(d)
    \/ \E d \in Device : Drop(d)
    \/ \E r \in Recipient : SendOrdinary(r)
    \/ Recover
    \/ \E a \in Own : Read(a)
    \/ ReceiveAny
    \/ Restart

Spec == Init /\ [][Next]_vars

\* The network confirms and the recipient's wallet reads and receives; the
\* payer's, once in a while, looks for payments nobody was notified of.
Fairness ==
    /\ \A a \in Own : WF_vars(Read(a))
    /\ WF_vars(Recover)
    /\ WF_vars(ReceiveAny)

FairSpec == Spec /\ Fairness

-----------------------------------------------------------------------------
(***************************************************************************)
(* Properties.                                                             *)
(***************************************************************************)
IsPayment(b) == b.kind = "payment"

Job == [todo     : (SUBSET {"notify", "pay"}) \ {{}},
        payment  : Payment,
        notifier : Notifier,
        next     : Nat]

TypeOK ==
    /\ chain \in [Own -> Seq(Block)]
    /\ job \in [Device -> Job \cup {Idle}]
    /\ read \in [Own -> Nat]
    /\ \A a \in Own : read[a] <= Len(chain[a])
    /\ \A x \in received :
          x.by \in Recipient /\ x.account \in Own /\ x.place \in DOMAIN chain[x.account]
    /\ restarts \in 0..MaxRestarts

\* Two payments never meet on one account, whichever devices raced for the
\* frontier, gave up in between or began again: camo/mod.rs:246 "`sender_frontier`
\* is used to ensure that all generated keys are unique per-camo-payment".
AccountsUsedOnce ==
    \A i, j \in DOMAIN chain[Sender] :
        /\ IsPayment(chain[Sender][i]) /\ IsPayment(chain[Sender][j])
        /\ link_of(chain[Sender][i]) = link_of(chain[Sender][j])
        => i = j

\* The payments there are, and by whom the blocks were received.
Sent ==
    {chain[Sender][i].p : i \in {j \in DOMAIN chain[Sender] : IsPayment(chain[Sender][j])}}
SentAs(p) == [to |-> p.to, id |-> p.frontier]
ReceivedAs(x) ==
    [to |-> x.by, id |-> IF IsPayment(chain[x.account][x.place])
                         THEN chain[x.account][x.place].p.frontier ELSE -1]

Service == INSTANCE PaymentService
    WITH PaymentId <- Frontier,
         sent      <- {SentAs(p) : p \in Sent},
         received  <- {ReceivedAs(x) : x \in received}

\* A payment is received once, by the account it was made to, and nothing else
\* is taken for a payment: the two wallets do what PaymentService does.
ImplementsService == Service!Spec

\* No payment is lost: whatever crashed or restarted between the two blocks, in
\* whatever order they were published and read, its addressee receives it.
EveryPaymentReceived == Service!EveryPaymentReceived
=============================================================================
