-------------------------- MODULE CamoPaymentProofs -------------------------
(***************************************************************************)
(* Proofs about CamoPayment, for any number of devices, accounts, plans    *)
(* and blocks.                                                             *)
(***************************************************************************)
EXTENDS CamoPayment, TLAPS

(***************************************************************************)
(* The one-time accounts.                                                  *)
(***************************************************************************)
\* The summands of the keys of account r, and of the key of a payment.
MasterPart == blake2b("account", <<get_camo_spend_seed(RecipientSeed), 0>>)
SpendPart(r) == blake2b("first half", <<get_camo_view_seed(RecipientSeed), r>>)
SecretPart(secret) == blake2b("account", <<secret, 0>>)

\* blake2b does not collide.
LEMMA HashInjective ==
    ASSUME NEW t, NEW x, NEW u, NEW y, blake2b(t, x) = blake2b(u, y)
    PROVE  t = u /\ x = y
  BY DEF blake2b

LEMMA SignerSummands ==
    ASSUME NEW r
    PROVE  signer_account(account_of(r)) = times_G({MasterPart, SpendPart(r)})
  BY DEF signer_account, account_of, keys_to_account, points_to_account, keys_of,
         keys_from_seed, plus, get_account_scalar, partial_spend_key, blake2b_scalar,
         MasterPart, SpendPart, times_G

\* Who derives from a secret, and who pays to it, adds one summand.
LEMMA DerivedSummands ==
    ASSUME NEW r, NEW secret
    PROVE  /\ to_account(derive_key(keys_of(r), secret)) =
                 times_G({MasterPart, SpendPart(r), SecretPart(secret)})
           /\ derive_account(account_of(r), secret) =
                 times_G({MasterPart, SpendPart(r), SecretPart(secret)})
  <1>1. keys_of(r).private_spend = {MasterPart, SpendPart(r)}
    BY DEF keys_of, keys_from_seed, plus, get_account_scalar, partial_spend_key,
           blake2b_scalar, MasterPart, SpendPart
  <1>2. get_account_scalar(secret, 0) = {SecretPart(secret)}
    BY DEF get_account_scalar, blake2b_scalar, SecretPart
  <1>3. account_of(r).point_spend_key = times_G(keys_of(r).private_spend)
    BY DEF account_of, keys_to_account, points_to_account
  <1>4. plus(keys_of(r).private_spend, get_account_scalar(secret, 0)) =
           {MasterPart, SpendPart(r), SecretPart(secret)}
    BY <1>1, <1>2 DEF plus
  <1>. QED  BY <1>3, <1>4 DEF to_account, derive_key, derive_account, add_points, times_G

LEMMA PointInjective ==
    ASSUME NEW S, NEW T, times_G(S) = times_G(T)
    PROVE  S = T
  BY DEF times_G

LEMMA PartsDiffer ==
    ASSUME NEW r, NEW secret
    PROVE  /\ MasterPart # SpendPart(r)
           /\ SecretPart(secret) # SpendPart(r)
  <1>1. "account" # "first half"
    OBVIOUS
  <1>. QED  BY <1>1, HashInjective DEF MasterPart, SpendPart, SecretPart

LEMMA SpendPartInjective ==
    ASSUME NEW r, NEW s, SpendPart(r) = SpendPart(s)
    PROVE  r = s
  <1>1. <<get_camo_view_seed(RecipientSeed), r>> = <<get_camo_view_seed(RecipientSeed), s>>
    BY HashInjective DEF SpendPart
  <1>. QED  BY <1>1

LEMMA SecretPartInjective ==
    ASSUME NEW s, NEW t, SecretPart(s) = SecretPart(t)
    PROVE  s = t
  <1>1. <<s, 0>> = <<t, 0>>
    BY HashInjective DEF SecretPart
  <1>. QED  BY <1>1

\* A shared secret is no seed: nothing but its hash is a summand of a key.
LEMMA SecretIsNoSeed ==
    ASSUME NEW scalar, NEW point
    PROVE  SecretPart(ecdh(scalar, point)) # MasterPart
  <1>1. DOMAIN ecdh(scalar, point) = {"product"}
    BY DEF ecdh
  <1>2. DOMAIN get_camo_spend_seed(RecipientSeed) = {"tag", "inputs"}
    BY DEF get_camo_spend_seed, blake2b
  <1>3. "tag" \notin {"product"}
    OBVIOUS
  <1>4. ecdh(scalar, point) # get_camo_spend_seed(RecipientSeed)
    BY <1>1, <1>2, <1>3
  <1>5. MasterPart = SecretPart(get_camo_spend_seed(RecipientSeed))
    BY DEF MasterPart, SecretPart
  <1>. QED  BY <1>4, <1>5, SecretPartInjective

LEMMA SecretInjective ==
    ASSUME NEW p, NEW q, p.to = q.to, secret_of(p) = secret_of(q)
    PROVE  p.frontier = q.frontier
  <1>. DEFINE scalar(x) == payment_scalar(account_of(x.to), sender_key, block_hash(x.frontier))
              hash(x) == blake2b("payment", <<sender_key, block_hash(x.frontier),
                                              account_of(x.to).point_spend_key>>)
              view == partial_view_key(get_camo_view_seed(RecipientSeed), p.to)
  <1>1. \A x : scalar(x) = {hash(x)}
    BY DEF payment_scalar, blake2b_scalar
  <1>2. view = {blake2b("second half", <<get_camo_view_seed(RecipientSeed), p.to>>)}
    BY DEF partial_view_key, blake2b_scalar
  <1>3. \A x : hash(x) \notin view
    <2>1. "payment" # "second half"
      OBVIOUS
    <2>2. ASSUME NEW x, hash(x) \in view
          PROVE  FALSE
      <3>1. hash(x) = blake2b("second half", <<get_camo_view_seed(RecipientSeed), p.to>>)
        BY <2>2, <1>2
      <3>. QED  BY <3>1, <2>1 DEF blake2b
    <2>. QED  BY <2>2
  <1>4. account_of(p.to).point_view_key.times_G = view
    BY DEF account_of, keys_to_account, points_to_account, keys_of, keys_from_seed, times_G
  <1>5. \A x : x.to = p.to => secret_of(x).product = {scalar(x), view}
    BY <1>4 DEF secret_of, sender_secret, ecdh
  <1>6. {scalar(p), view} = {scalar(q), view}
    BY <1>5
  <1>7. scalar(p) # view /\ scalar(q) # view
    BY <1>1, <1>3
  <1>8. scalar(p) = scalar(q)
    BY <1>6, <1>7
  <1>9. hash(p) = hash(q)
    BY <1>1, <1>8
  <1>10. <<sender_key, block_hash(p.frontier), account_of(p.to).point_spend_key>> =
         <<sender_key, block_hash(q.frontier), account_of(q.to).point_spend_key>>
    BY <1>9, HashInjective
  <1>11. block_hash(p.frontier) = block_hash(q.frontier)
    BY <1>10
  <1>. QED  BY <1>11 DEF block_hash

\* Two payments that are made to one account are one payment.
LEMMA AccountDeterminesPayment ==
    ASSUME NEW p \in Payment, NEW q \in Payment,
           link_of(payment(p)) = link_of(payment(q))
    PROVE  p = q
  <1>1. \A x : link_of(payment(x)) =
               times_G({MasterPart, SpendPart(x.to), SecretPart(secret_of(x))})
    BY DerivedSummands DEF link_of, payment
  <1>2. {MasterPart, SpendPart(p.to), SecretPart(secret_of(p))} =
        {MasterPart, SpendPart(q.to), SecretPart(secret_of(q))}
    BY <1>1, PointInjective
  <1>3. SpendPart(p.to) = SpendPart(q.to)
    BY <1>2, PartsDiffer
  <1>4. p.to = q.to
    BY <1>3, SpendPartInjective
  <1>5. SecretPart(secret_of(p)) # MasterPart /\ SecretPart(secret_of(q)) # MasterPart
    BY SecretIsNoSeed DEF secret_of, sender_secret
  <1>6. SecretPart(secret_of(p)) = SecretPart(secret_of(q))
    BY <1>2, <1>5, PartsDiffer
  <1>7. p.frontier = q.frontier
    BY <1>4, <1>6, SecretPartInjective, SecretInjective
  <1>. QED  BY <1>4, <1>7 DEF Payment

\* Whatever is read as a notification unlocks payments to the reader only.
LEMMA UnlocksOwnPayments ==
    ASSUME NEW r, NEW b, NEW x \in Block, unlocks(r, b, x)
    PROVE  x.kind = "payment" /\ x.p.to = r
  <1>1. PICK secret : /\ \E scalar, point : secret = ecdh(scalar, point)
                      /\ derived_from(r, b) = to_account(derive_key(keys_of(r), secret))
    BY DEF derived_from, receiver_ecdh
  <1>2. link_of(x) = times_G({MasterPart, SpendPart(r), SecretPart(secret)})
    BY <1>1, DerivedSummands DEF unlocks
  <1>3. SecretPart(secret) # MasterPart
    BY <1>1, SecretIsNoSeed
  <1>4. ASSUME NEW s, link_of(x) = signer_account(account_of(s))
        PROVE  FALSE
    <2>1. {MasterPart, SpendPart(r), SecretPart(secret)} = {MasterPart, SpendPart(s)}
      BY <1>2, <1>4, SignerSummands, PointInjective
    <2>. QED  BY <2>1, <1>3, PartsDiffer
  <1>5. CASE x \in {payment(p) : p \in Payment}
    <2>1. PICK p \in Payment : x = payment(p)
      BY <1>5
    <2>2. link_of(x) =
             times_G({MasterPart, SpendPart(p.to), SecretPart(secret_of(p))})
      BY <2>1, DerivedSummands DEF link_of, payment
    <2>3. {MasterPart, SpendPart(p.to), SecretPart(secret_of(p))} =
          {MasterPart, SpendPart(r), SecretPart(secret)}
      BY <1>2, <2>2, PointInjective
    <2>4. SpendPart(p.to) = SpendPart(r)
      BY <2>3, PartsDiffer
    <2>. QED  BY <2>1, <2>4, SpendPartInjective DEF payment
  <1>6. CASE x \in {notification(p) : p \in Payment}
    <2>1. PICK p \in Payment : x = notification(p)
      BY <1>6
    <2>2. link_of(x) = signer_account(account_of(p.to))
      BY <2>1 DEF link_of, notification, notification_of, sender_notification,
                  create_notification, create_v1
    <2>. QED  BY <2>2, <1>4
  <1>7. CASE x \in {ordinary(s) : s \in Recipient}
    <2>1. PICK s \in Recipient : x = ordinary(s)
      BY <1>7
    <2>2. link_of(x) = signer_account(account_of(s))
      BY <2>1 DEF link_of, ordinary
    <2>. QED  BY <2>2, <1>4
  <1>. QED  BY <1>5, <1>6, <1>7 DEF Block

-----------------------------------------------------------------------------
(***************************************************************************)
(* The invariant: where a payment is in the sender's chain.                *)
(***************************************************************************)
PaymentAt(a, i) == i \in DOMAIN chain[a] /\ IsPayment(chain[a][i])

\* Only the sender pays; and a payment is the first block after the one its
\* secret was computed from, or the second, after its own notification.
ChainInv ==
    /\ \A a \in Own : \A i \in Nat : PaymentAt(a, i) => a = Sender
    /\ \A i \in Nat : PaymentAt(Sender, i) =>
          \/ i = chain[Sender][i].p.frontier + 1
          \/ /\ i = chain[Sender][i].p.frontier + 2
             /\ ~PaymentAt(Sender, i - 1)

\* A device that has still to pay has seen the sender's chain up to `next`.
JobInv ==
    \A d \in Device : "pay" \in job[d].todo =>
        /\ job[d].next <= Len(chain[Sender])
        /\ \/ job[d].next = job[d].payment.frontier
           \/ /\ job[d].next = job[d].payment.frontier + 1
              /\ ~PaymentAt(Sender, job[d].next)
              /\ "notify" \notin job[d].todo

IInv == TypeOK /\ ChainInv /\ JobInv

LEMMA PaymentFacts ==
    ASSUME NEW p \in Payment
    PROVE  /\ payment(p) \in Block /\ payment(p).p = p /\ IsPayment(payment(p))
           /\ notification(p) \in Block /\ ~IsPayment(notification(p))
           /\ p.frontier \in Nat
  <1>1. Room[Sender] \in Nat
    BY PaymentAssumption DEF Own
  <1>. QED  BY <1>1 DEF Payment, Frontier, Block, payment, notification, IsPayment

LEMMA OrdinaryFacts ==
    ASSUME NEW r \in Recipient
    PROVE  ordinary(r) \in Block /\ ~IsPayment(ordinary(r))
  BY DEF Block, ordinary, IsPayment

LEMMA BlockFacts ==
    ASSUME NEW b \in Block, IsPayment(b)
    PROVE  b.p \in Payment /\ b = payment(b.p)
  BY DEF Block, IsPayment, payment, notification, ordinary

\* What publishing does to the chain of a, and to the others.
LEMMA PublishFacts ==
    ASSUME TypeOK, NEW a \in Own, NEW b \in Block, Publish(a, b)
    PROVE  /\ chain' \in [Own -> Seq(Block)]
           /\ Len(chain'[a]) = Len(chain[a]) + 1
           /\ chain'[a][Len(chain[a]) + 1] = b
           /\ \A c \in Own : \A i \in DOMAIN chain[c] :
                 i \in DOMAIN chain'[c] /\ chain'[c][i] = chain[c][i]
           /\ \A c \in Own \ {a} : chain'[c] = chain[c]
           /\ \A c \in Own : Len(chain[c]) \in Nat /\ Len(chain[c]) <= Len(chain'[c])
           /\ \A i \in Nat : i \in DOMAIN chain'[a] =>
                 i \in DOMAIN chain[a] \/ i = Len(chain[a]) + 1
           /\ \A c \in Own : DOMAIN chain[c] = 1..Len(chain[c])
  <1>1. chain \in [Own -> Seq(Block)]
    BY DEF TypeOK
  <1>2. chain' = [chain EXCEPT ![a] = Append(chain[a], b)]
    BY DEF Publish
  <1>3. chain[a] \in Seq(Block) /\ chain'[a] = Append(chain[a], b)
    BY <1>1, <1>2
  <1>4. \A c \in Own \ {a} : chain'[c] = chain[c]
    BY <1>1, <1>2
  <1>5. Append(chain[a], b) \in Seq(Block)
    BY <1>3
  <1>6. chain' \in [Own -> Seq(Block)]
    BY <1>1, <1>2, <1>5
  <1>7. /\ Len(chain[a]) \in Nat /\ Len(chain'[a]) = Len(chain[a]) + 1
        /\ DOMAIN chain[a] = 1..Len(chain[a])
        /\ DOMAIN chain'[a] = 1..(Len(chain[a]) + 1)
        /\ chain'[a][Len(chain[a]) + 1] = b
        /\ \A i \in 1..Len(chain[a]) : chain'[a][i] = chain[a][i]
    BY <1>3
  <1>8. \A c \in Own : Len(chain[c]) \in Nat /\ DOMAIN chain[c] = 1..Len(chain[c])
    BY <1>1
  <1>9. ASSUME NEW c \in Own
        PROVE  /\ Len(chain[c]) <= Len(chain'[c])
               /\ \A i \in DOMAIN chain[c] :
                     i \in DOMAIN chain'[c] /\ chain'[c][i] = chain[c][i]
    <2>1. CASE c = a
      BY <2>1, <1>7
    <2>2. CASE c # a
      BY <2>2, <1>4, <1>8
    <2>. QED  BY <2>1, <2>2
  <1>10. \A i \in Nat : i \in DOMAIN chain'[a] =>
            i \in DOMAIN chain[a] \/ i = Len(chain[a]) + 1
    BY <1>7
  <1>. QED  BY <1>4, <1>6, <1>7, <1>8, <1>9, <1>10

LEMMA InitInv == Init => IInv
  <1>. SUFFICES ASSUME Init PROVE IInv
    OBVIOUS
  <1>1. Sender \in Own
    BY DEF Own
  <1>2. TypeOK
    BY PaymentAssumption DEF Init, TypeOK
  <1>3. ChainInv
    BY <1>1 DEF Init, ChainInv, PaymentAt
  <1>4. JobInv
    BY DEF Init, JobInv, Idle
  <1>. QED  BY <1>2, <1>3, <1>4 DEF IInv

-----------------------------------------------------------------------------
(***************************************************************************)
(* Every step keeps it.                                                    *)
(***************************************************************************)
\* A block that is no payment, on any account.
LEMMA PublishOther ==
    ASSUME IInv, NEW a \in Own, NEW b \in Block, Publish(a, b), ~IsPayment(b)
    PROVE  /\ ChainInv'
           /\ \A i \in Nat : PaymentAt(Sender, i)' <=> PaymentAt(Sender, i)
           /\ \A c \in Own : \A i \in Nat : PaymentAt(c, i)' => PaymentAt(c, i)
  <1>. USE DEF PaymentAt
  <1>1. /\ Sender \in Own
        /\ TypeOK
    BY DEF Own, IInv
  <1>2. \A c \in Own : \A i \in Nat : PaymentAt(c, i)' <=> PaymentAt(c, i)
    <2>. SUFFICES ASSUME NEW c \in Own, NEW i \in Nat
                  PROVE  PaymentAt(c, i)' <=> PaymentAt(c, i)
      OBVIOUS
    <2>1. CASE c = a
      BY <2>1, <1>1, PublishFacts
    <2>2. CASE c # a
      BY <2>2, <1>1, PublishFacts
    <2>. QED  BY <2>1, <2>2
  <1>3. \A i \in Nat : PaymentAt(Sender, i) => chain'[Sender][i] = chain[Sender][i]
    BY <1>1, PublishFacts
  <1>4. ASSUME NEW i \in Nat, PaymentAt(Sender, i)'
        PROVE  \/ i = chain'[Sender][i].p.frontier + 1
               \/ i = chain'[Sender][i].p.frontier + 2 /\ ~PaymentAt(Sender, i - 1)'
    <2>1. i >= 1
      BY <1>4, <1>1, PublishFacts
    <2>2. i - 1 \in Nat
      BY <2>1
    <2>3. PaymentAt(Sender, i) /\ chain'[Sender][i] = chain[Sender][i]
      BY <1>1, <1>2, <1>3, <1>4
    <2>. QED  BY <2>2, <2>3, <1>1, <1>2 DEF IInv, ChainInv
  <1>5. ChainInv'
    BY <1>2, <1>4 DEF IInv, ChainInv
  <1>. QED  BY <1>1, <1>2, <1>5

LEMMA TypeOfJob ==
    ASSUME TypeOK, NEW d \in Device, job[d] # Idle
    PROVE  job[d] \in Job
  BY DEF TypeOK

LEMMA AfterFacts ==
    ASSUME NEW j \in Job, NEW a \in Own, NEW step \in {"notify", "pay"}
    PROVE  /\ After(j, a, step) \in Job \cup {Idle}
           /\ step \notin After(j, a, step).todo
           /\ \A x \in After(j, a, step).todo :
                 /\ x \in j.todo
                 /\ After(j, a, step).payment = j.payment
                 /\ After(j, a, step).notifier = j.notifier
                 /\ After(j, a, step).next = IF a = Sender THEN j.next + 1 ELSE j.next
  <1>1. CASE j.todo = {step}
    BY <1>1 DEF After, Idle
  <1>2. CASE j.todo # {step}
    <2>1. /\ j.todo \in SUBSET {"notify", "pay"} /\ j.todo # {}
          /\ j.payment \in Payment /\ j.notifier \in Notifier /\ j.next \in Nat
      BY DEF Job
    <2>2. j.todo \ {step} \in SUBSET {"notify", "pay"} /\ j.todo \ {step} # {}
      BY <2>1, <1>2
    <2>3. (IF a = Sender THEN j.next + 1 ELSE j.next) \in Nat
      BY <2>1
    <2>4. After(j, a, step) \in Job
      BY <1>2, <2>1, <2>2, <2>3 DEF After, Job
    <2>. QED  BY <1>2, <2>4 DEF After
  <1>. QED  BY <1>1, <1>2

\* What a publishing step does to the types.
LEMMA PublishType ==
    ASSUME TypeOK, NEW a \in Own, NEW b \in Block, Publish(a, b),
           job' \in [Device -> Job \cup {Idle}]
    PROVE  TypeOK'
  <1>1. chain' \in [Own -> Seq(Block)]
    BY PublishFacts
  <1>2. \A c \in Own : read'[c] <= Len(chain'[c])
    <2>1. \A c \in Own : /\ read[c] <= Len(chain[c]) /\ Len(chain[c]) <= Len(chain'[c])
                         /\ read[c] \in Nat /\ Len(chain[c]) \in Nat
      BY PublishFacts DEF TypeOK
    <2>2. \A c \in Own : Len(chain'[c]) \in Nat
      BY <1>1
    <2>. QED  BY <2>1, <2>2 DEF Publish
  <1>3. \A x \in received' : /\ x.by \in Recipient /\ x.account \in Own
                             /\ x.place \in DOMAIN chain'[x.account]
    BY PublishFacts DEF TypeOK, Publish
  <1>. QED  BY <1>1, <1>2, <1>3 DEF TypeOK, Publish

\* JobInv for the devices whose job is as it was: their next block is refused,
\* or they have none to publish.
LEMMA OtherJobs ==
    ASSUME IInv, NEW a \in Own, NEW b \in Block, Publish(a, b),
           NEW d \in Device, job'[d] = job[d]
    PROVE  "pay" \in job'[d].todo =>
              /\ job'[d].next <= Len(chain'[Sender])
              /\ \/ job'[d].next = job'[d].payment.frontier
                 \/ /\ job'[d].next = job'[d].payment.frontier + 1
                    /\ ~PaymentAt(Sender, job[d].next)'
                    /\ "notify" \notin job'[d].todo
  <1>. SUFFICES ASSUME "pay" \in job[d].todo
                PROVE  /\ job[d].next <= Len(chain'[Sender])
                       /\ \/ job[d].next = job[d].payment.frontier
                          \/ /\ job[d].next = job[d].payment.frontier + 1
                             /\ ~PaymentAt(Sender, job[d].next)'
                             /\ "notify" \notin job[d].todo
    OBVIOUS
  <1>1. TypeOK /\ Sender \in Own
    BY DEF IInv, Own
  <1>2. job[d] \in Job
    BY <1>1, TypeOfJob DEF Idle
  <1>3. /\ job[d].next \in Nat /\ job[d].next <= Len(chain[Sender])
        /\ Len(chain[Sender]) \in Nat /\ Len(chain'[Sender]) \in Nat
        /\ Len(chain[Sender]) <= Len(chain'[Sender])
    <2>1. job[d].next \in Nat /\ job[d].next <= Len(chain[Sender])
      BY <1>2 DEF Job, IInv, JobInv
    <2>2. Len(chain[Sender]) \in Nat /\ Len(chain[Sender]) <= Len(chain'[Sender])
      BY <1>1, PublishFacts
    <2>3. chain'[Sender] \in Seq(Block)
      BY <1>1, PublishFacts
    <2>. QED  BY <2>1, <2>2, <2>3
  <1>4. ASSUME job[d].payment.frontier + 1 = job[d].next, ~PaymentAt(Sender, job[d].next)
        PROVE  ~PaymentAt(Sender, job[d].next)'
    <2>1. job[d].next \in DOMAIN chain[Sender]
      <3>1. job[d].payment.frontier \in Nat
        BY <1>2, PaymentFacts DEF Job
      <3>. QED  BY <1>1, <1>3, <1>4, <3>1, PublishFacts
    <2>2. chain'[Sender][job[d].next] = chain[Sender][job[d].next]
      BY <2>1, <1>1, PublishFacts
    <2>. QED  BY <2>1, <2>2, <1>4 DEF PaymentAt
  <1>5. \/ job[d].next = job[d].payment.frontier
        \/ /\ job[d].next = job[d].payment.frontier + 1
           /\ ~PaymentAt(Sender, job[d].next)
           /\ "notify" \notin job[d].todo
    BY DEF IInv, JobInv
  <1>6. job[d].next <= Len(chain'[Sender])
    BY <1>3
  <1>7. CASE job[d].next = job[d].payment.frontier
    BY <1>6, <1>7
  <1>8. CASE /\ job[d].next = job[d].payment.frontier + 1
             /\ ~PaymentAt(Sender, job[d].next)
             /\ "notify" \notin job[d].todo
    <2>1. ~PaymentAt(Sender, job[d].next)'
      BY <1>4, <1>8
    <2>. QED  BY <2>1, <1>6, <1>8
  <1>. QED  BY <1>5, <1>7, <1>8

LEMMA BeginInv ==
    ASSUME IInv, NEW d \in Device, NEW r \in Recipient, NEW n \in Notifier, Begin(d, r, n)
    PROVE  IInv'
  <1>. DEFINE j == [todo     |-> {"notify", "pay"},
                    payment  |-> [to |-> r, frontier |-> Len(chain[Sender])],
                    notifier |-> n,
                    next     |-> Len(chain[Sender])]
  <1>1. /\ TypeOK /\ Sender \in Own /\ chain' = chain /\ read' = read
        /\ received' = received /\ restarts' = restarts
        /\ job' = [job EXCEPT ![d] = j]
    BY DEF IInv, Own, Begin, SetJob
  <1>2. Len(chain[Sender]) \in Nat
    BY <1>1 DEF TypeOK
  <1>3. Len(chain[Sender]) \in Frontier
    <2>1. Room[Sender] \in Nat
      BY <1>1, PaymentAssumption
    <2>2. Len(chain[Sender]) < Room[Sender]
      BY DEF Begin, HasRoom
    <2>. QED  BY <1>2, <2>1, <2>2 DEF Frontier
  <1>4. j \in Job
    <2>1. j.payment \in Payment
      BY <1>3 DEF Payment
    <2>2. {"notify", "pay"} \in SUBSET {"notify", "pay"} /\ {"notify", "pay"} # {}
      OBVIOUS
    <2>. QED  BY <1>2, <2>1, <2>2 DEF Job
  <1>5. TypeOK'
    BY <1>1, <1>4 DEF TypeOK
  <1>6. ChainInv'
    BY <1>1 DEF IInv, ChainInv, PaymentAt
  <1>7. JobInv'
    <2>. SUFFICES ASSUME NEW e \in Device, "pay" \in job'[e].todo
                  PROVE  /\ job'[e].next <= Len(chain'[Sender])
                         /\ \/ job'[e].next = job'[e].payment.frontier
                            \/ /\ job'[e].next = job'[e].payment.frontier + 1
                               /\ ~PaymentAt(Sender, job[e].next)'
                               /\ "notify" \notin job'[e].todo
      BY DEF JobInv
    <2>1. CASE e = d
      <3>1. job'[e] = j
        BY <1>1, <2>1 DEF TypeOK
      <3>. QED  BY <1>1, <1>2, <3>1
    <2>2. CASE e # d
      <3>1. job'[e] = job[e]
        BY <1>1, <2>2 DEF TypeOK
      <3>. QED  BY <1>1, <3>1 DEF IInv, JobInv, PaymentAt
    <2>. QED  BY <2>1, <2>2
  <1>. QED  BY <1>5, <1>6, <1>7 DEF IInv

LEMMA DropInv ==
    ASSUME IInv, NEW d \in Device, Drop(d)
    PROVE  IInv'
  <1>1. /\ TypeOK /\ chain' = chain /\ read' = read
        /\ received' = received /\ restarts' = restarts
        /\ job' = [job EXCEPT ![d] = Idle]
    BY DEF IInv, Drop, SetJob
  <1>2. TypeOK'
    BY <1>1 DEF TypeOK
  <1>3. ChainInv'
    BY <1>1 DEF IInv, ChainInv, PaymentAt
  <1>4. \A e \in Device : job'[e] = job[e] \/ job'[e].todo = {}
    BY <1>1 DEF TypeOK, Idle
  <1>5. JobInv'
    BY <1>1, <1>4 DEF IInv, JobInv, PaymentAt
  <1>. QED  BY <1>2, <1>3, <1>5 DEF IInv

LEMMA SendNotificationInv ==
    ASSUME IInv, NEW d \in Device, SendNotification(d)
    PROVE  IInv'
  <1>. DEFINE a == job[d].notifier
              b == notification(job[d].payment)
  <1>1. /\ TypeOK /\ Sender \in Own /\ "notify" \in job[d].todo
        /\ Fits(d, a) /\ Publish(a, b)
        /\ job' = [job EXCEPT ![d] = After(job[d], a, "notify")]
    BY DEF IInv, Own, SendNotification
  <1>2. job[d] \in Job
    BY <1>1, TypeOfJob DEF Idle
  <1>3. a \in Own /\ b \in Block /\ ~IsPayment(b) /\ job[d].payment.frontier \in Nat
    BY <1>2, PaymentFacts DEF Job, Own
  <1>4. /\ job' \in [Device -> Job \cup {Idle}]
        /\ job'[d] = After(job[d], a, "notify")
        /\ \A e \in Device \ {d} : job'[e] = job[e]
    BY <1>1, <1>2, <1>3, AfterFacts DEF TypeOK
  <1>5. TypeOK'
    BY <1>1, <1>3, <1>4, PublishType
  <1>6. ChainInv'
    BY <1>1, <1>3, PublishOther
  <1>7. ASSUME "pay" \in job'[d].todo
        PROVE  /\ job'[d].next <= Len(chain'[Sender])
               /\ \/ job'[d].next = job'[d].payment.frontier
                  \/ /\ job'[d].next = job'[d].payment.frontier + 1
                     /\ ~PaymentAt(Sender, job[d].next)'
                     /\ "notify" \notin job'[d].todo
    <2>1. /\ "pay" \in job[d].todo /\ "notify" \notin job'[d].todo
          /\ job'[d].payment = job[d].payment
          /\ job'[d].next = IF a = Sender THEN job[d].next + 1 ELSE job[d].next
      BY <1>2, <1>3, <1>4, <1>7, AfterFacts
    <2>2. /\ job[d].next = job[d].payment.frontier
          /\ job[d].next <= Len(chain[Sender])
      BY <1>1, <2>1 DEF IInv, JobInv
    <2>3. /\ Len(chain[Sender]) \in Nat /\ Len(chain'[Sender]) \in Nat
          /\ Len(chain[Sender]) <= Len(chain'[Sender])
      <3>1. chain[Sender] \in Seq(Block) /\ chain'[Sender] \in Seq(Block)
        BY <1>1, <1>3, PublishFacts DEF TypeOK
      <3>. QED  BY <1>1, <1>3, <3>1, PublishFacts
    <2>4. CASE a # Sender
      BY <2>1, <2>2, <2>3, <2>4, <1>3
    <2>5. CASE a = Sender
      <3>1. job[d].next = Len(chain[Sender])
        BY <1>1, <2>5 DEF Fits
      <3>2. /\ Len(chain'[Sender]) = Len(chain[Sender]) + 1
            /\ chain'[Sender][Len(chain[Sender]) + 1] = b
        BY <1>1, <1>3, <2>5, PublishFacts
      <3>3. job'[d].next = Len(chain[Sender]) + 1
        BY <2>1, <2>5, <3>1
      <3>4. ~PaymentAt(Sender, job[d].next)'
        BY <3>2, <3>3, <1>3 DEF PaymentAt
      <3>. QED  BY <2>1, <2>2, <2>3, <3>1, <3>2, <3>3, <3>4
    <2>. QED  BY <2>4, <2>5
  <1>8. JobInv'
    <2>1. \A e \in Device \ {d} : "pay" \in job'[e].todo =>
              /\ job'[e].next <= Len(chain'[Sender])
              /\ \/ job'[e].next = job'[e].payment.frontier
                 \/ /\ job'[e].next = job'[e].payment.frontier + 1
                    /\ ~PaymentAt(Sender, job[e].next)'
                    /\ "notify" \notin job'[e].todo
      BY <1>1, <1>3, <1>4, OtherJobs
    <2>. QED  BY <2>1, <1>7 DEF JobInv
  <1>. QED  BY <1>5, <1>6, <1>8 DEF IInv

LEMMA SendPaymentInv ==
    ASSUME IInv, NEW d \in Device, SendPayment(d)
    PROVE  /\ IInv'
           /\ \A i \in Nat : PaymentAt(Sender, i) =>
                 chain[Sender][i].p # job[d].payment
  <1>. DEFINE p == job[d].payment
              b == payment(p)
              n == Len(chain[Sender])
  <1>1. /\ TypeOK /\ Sender \in Own /\ "pay" \in job[d].todo
        /\ job[d].next = n /\ Publish(Sender, b)
        /\ job' = [job EXCEPT ![d] = After(job[d], Sender, "pay")]
    BY DEF IInv, Own, SendPayment, Fits
  <1>2. job[d] \in Job
    BY <1>1, TypeOfJob DEF Idle
  <1>3. b \in Block /\ IsPayment(b) /\ b.p = p /\ p.frontier \in Nat
    BY <1>2, PaymentFacts DEF Job
  <1>4. /\ job' \in [Device -> Job \cup {Idle}]
        /\ "pay" \notin job'[d].todo
        /\ \A e \in Device \ {d} : job'[e] = job[e]
    BY <1>1, <1>2, AfterFacts DEF TypeOK
  <1>5. TypeOK'
    BY <1>1, <1>3, <1>4, PublishType
  <1>6. /\ n \in Nat /\ DOMAIN chain[Sender] = 1..n
        /\ chain'[Sender][n + 1] = b
        /\ \A i \in 1..n : chain'[Sender][i] = chain[Sender][i]
        /\ \A i \in Nat : i \in DOMAIN chain'[Sender] => i \in 1..(n + 1)
        /\ \A i \in 1..n : i \in DOMAIN chain'[Sender]
    BY <1>1, <1>3, PublishFacts
  <1>7. \/ n = p.frontier
        \/ n = p.frontier + 1 /\ ~PaymentAt(Sender, n)
    BY <1>1 DEF IInv, JobInv
  <1>8. \A i \in 1..n : PaymentAt(Sender, i)' <=> PaymentAt(Sender, i)
    BY <1>6 DEF PaymentAt
  <1>9. ASSUME NEW i \in Nat, PaymentAt(Sender, i)'
        PROVE  \/ i = chain'[Sender][i].p.frontier + 1
               \/ i = chain'[Sender][i].p.frontier + 2 /\ ~PaymentAt(Sender, i - 1)'
    <2>1. i \in 1..(n + 1)
      BY <1>6, <1>9 DEF PaymentAt
    <2>2. CASE i = n + 1
      <3>1. chain'[Sender][i].p = p
        BY <2>2, <1>3, <1>6
      <3>2. CASE n = p.frontier
        BY <3>1, <3>2, <2>2
      <3>3. CASE n = p.frontier + 1 /\ ~PaymentAt(Sender, n)
        <4>1. n \in 1..n /\ i - 1 = n
          BY <3>3, <2>2, <1>3, <1>6
        <4>2. ~PaymentAt(Sender, i - 1)'
          BY <3>3, <4>1, <1>8
        <4>. QED  BY <3>1, <3>3, <4>1, <4>2, <2>2, <1>3
      <3>. QED  BY <3>2, <3>3, <1>7
    <2>3. CASE i \in 1..n
      <3>1. PaymentAt(Sender, i) /\ chain'[Sender][i] = chain[Sender][i]
        BY <2>3, <1>6, <1>8, <1>9
      <3>2. i - 1 \in 1..n \/ i - 1 = 0
        BY <2>3, <1>6
      <3>3. ~PaymentAt(Sender, i - 1) => ~PaymentAt(Sender, i - 1)'
        <4>1. CASE i - 1 \in 1..n
          BY <4>1, <1>8
        <4>2. CASE i - 1 = 0
          BY <4>2, <1>6 DEF PaymentAt
        <4>. QED  BY <3>2, <4>1, <4>2
      <3>. QED  BY <3>1, <3>3 DEF IInv, ChainInv
    <2>. QED  BY <2>1, <2>2, <2>3, <1>6
  <1>10. ASSUME NEW a \in Own, NEW i \in Nat, PaymentAt(a, i)'
         PROVE  a = Sender
    <2>1. CASE a # Sender
      <3>1. PaymentAt(a, i)
        BY <2>1, <1>1, <1>3, <1>10, PublishFacts DEF PaymentAt
      <3>. QED  BY <3>1 DEF IInv, ChainInv
    <2>. QED  BY <2>1
  <1>11. ChainInv'
    <2>1. \A a \in Own : \A i \in Nat : PaymentAt(a, i)' => a = Sender
      BY <1>10
    <2>2. \A a \in Own : \A i \in DOMAIN chain'[a] : i \in Nat
      BY <1>5 DEF TypeOK
    <2>. QED  BY <2>1, <2>2, <1>9 DEF ChainInv
  <1>12. JobInv'
    <2>1. \A e \in Device \ {d} : "pay" \in job'[e].todo =>
              /\ job'[e].next <= Len(chain'[Sender])
              /\ \/ job'[e].next = job'[e].payment.frontier
                 \/ /\ job'[e].next = job'[e].payment.frontier + 1
                    /\ ~PaymentAt(Sender, job[e].next)'
                    /\ "notify" \notin job'[e].todo
      BY <1>1, <1>3, <1>4, OtherJobs
    <2>. QED  BY <2>1, <1>4 DEF JobInv
  <1>13. ASSUME NEW i \in Nat, PaymentAt(Sender, i), chain[Sender][i].p = p
         PROVE  FALSE
    <2>1. i \in 1..n
      BY <1>6, <1>13 DEF PaymentAt
    <2>2. \/ i = p.frontier + 1
          \/ i = p.frontier + 2
      BY <1>13 DEF IInv, ChainInv
    <2>3. n = p.frontier + 1 /\ i = n
      BY <2>1, <2>2, <1>3, <1>6, <1>7
    <2>. QED  BY <2>3, <1>3, <1>7, <1>13
  <1>. QED  BY <1>5, <1>11, <1>12, <1>13 DEF IInv

\* The steps that publish a block that is no payment, outside any job.
LEMMA OtherBlockInv ==
    ASSUME IInv, NEW b \in Block, ~IsPayment(b), Publish(Sender, b), job' = job
    PROVE  IInv'
  <1>1. TypeOK /\ Sender \in Own
    BY DEF IInv, Own
  <1>2. TypeOK'
    <2>1. job' \in [Device -> Job \cup {Idle}]
      BY <1>1 DEF TypeOK
    <2>. QED  BY <1>1, <2>1, PublishType
  <1>3. ChainInv'
    BY <1>1, PublishOther
  <1>4. JobInv'
    <2>1. \A d \in Device : "pay" \in job'[d].todo =>
              /\ job'[d].next <= Len(chain'[Sender])
              /\ \/ job'[d].next = job'[d].payment.frontier
                 \/ /\ job'[d].next = job'[d].payment.frontier + 1
                    /\ ~PaymentAt(Sender, job[d].next)'
                    /\ "notify" \notin job'[d].todo
      BY <1>1, OtherJobs
    <2>. QED  BY <2>1 DEF JobInv
  <1>. QED  BY <1>2, <1>3, <1>4 DEF IInv

\* The steps that leave the chains and the jobs alone.
LEMMA SameChainInv ==
    ASSUME IInv, chain' = chain, job' = job, TypeOK'
    PROVE  IInv'
  BY DEF IInv, ChainInv, JobInv, PaymentAt

LEMMA ReadInv ==
    ASSUME IInv, NEW a \in Own, Read(a)
    PROVE  IInv'
  <1>1. read' \in [Own -> Nat] /\ \A c \in Own : read'[c] <= Len(chain[c])
    <2>1. /\ read \in [Own -> Nat] /\ chain \in [Own -> Seq(Block)]
          /\ read[a] < Len(chain[a]) /\ read' = [read EXCEPT ![a] = read[a] + 1]
          /\ \A c \in Own : read[c] <= Len(chain[c])
      BY DEF IInv, TypeOK, Read
    <2>2. Len(chain[a]) \in Nat /\ read[a] \in Nat
      BY <2>1
    <2>3. read[a] + 1 <= Len(chain[a])
      BY <2>1, <2>2
    <2>. QED  BY <2>1, <2>2, <2>3
  <1>2. TypeOK'
    BY <1>1 DEF IInv, TypeOK, Read
  <1>. QED  BY <1>2, SameChainInv DEF Read

LEMMA ReceiveInv ==
    ASSUME IInv, NEW r \in Recipient, NEW a \in Own, NEW i \in DOMAIN chain[a],
           Receive(r, a, i)
    PROVE  IInv'
  <1>1. TypeOK'
    BY DEF IInv, TypeOK, Receive
  <1>. QED  BY <1>1, SameChainInv DEF Receive

LEMMA RestartInv ==
    ASSUME IInv, Restart
    PROVE  IInv'
  <1>1. \A a \in Own : 0 <= Len(chain[a])
    BY DEF IInv, TypeOK
  <1>2. restarts' \in 0..MaxRestarts
    BY PaymentAssumption DEF IInv, TypeOK, Restart
  <1>3. TypeOK'
    BY <1>1, <1>2 DEF IInv, TypeOK, Restart
  <1>. QED  BY <1>3, SameChainInv DEF Restart

LEMMA StepInv == IInv /\ [Next]_vars => IInv'
  <1>. SUFFICES ASSUME IInv, [Next]_vars PROVE IInv'
    OBVIOUS
  <1>1. ASSUME NEW x \in Plan, Begin(x.by, x.to, x.notifier)
        PROVE  IInv'
    <2>1. x.by \in Device /\ x.to \in Recipient /\ x.notifier \in Notifier
      BY PaymentAssumption
    <2>. QED  BY <1>1, <2>1, BeginInv
  <1>2. ASSUME NEW r \in Recipient, SendOrdinary(r)
        PROVE  IInv'
    BY <1>2, OrdinaryFacts, OtherBlockInv DEF SendOrdinary
  <1>3. CASE Recover
    BY <1>3, PaymentFacts, OtherBlockInv DEF Recover
  <1>4. CASE ReceiveAny
    BY <1>4, ReceiveInv DEF ReceiveAny
  <1>5. CASE UNCHANGED vars
    <2>1. TypeOK'
      BY <1>5 DEF IInv, TypeOK, vars
    <2>. QED  BY <1>5, <2>1, SameChainInv DEF vars
  <1>. QED  BY <1>1, <1>2, <1>3, <1>4, <1>5, SendNotificationInv, SendPaymentInv, DropInv,
               ReadInv, RestartInv DEF Next

LEMMA Invariance == Spec => []IInv
  BY InitInv, StepInv, PTL DEF Spec

-----------------------------------------------------------------------------
\* Every variable has its type, whatever is paid, refused, crashed and read again.
THEOREM TypeCorrect == Spec => []TypeOK
  <1>1. IInv => TypeOK
    BY DEF IInv
  <1>. QED  BY <1>1, Invariance, PTL

\* No one-time account is paid twice: the secret's frontier and the order of the
\* blocks in the sender's chain determine one place for the payment.
THEOREM AccountsNeverReused == Spec => []AccountsUsedOnce
  <1>1. ASSUME IInv PROVE AccountsUsedOnce
    <2>. SUFFICES ASSUME NEW i \in DOMAIN chain[Sender], NEW j \in DOMAIN chain[Sender],
                         IsPayment(chain[Sender][i]), IsPayment(chain[Sender][j]),
                         link_of(chain[Sender][i]) = link_of(chain[Sender][j])
                  PROVE  i = j
      BY DEF AccountsUsedOnce
    <2>1. chain[Sender] \in Seq(Block)
      BY <1>1 DEF IInv, TypeOK, Own
    <2>2. i \in Nat /\ j \in Nat /\ chain[Sender][i] \in Block /\ chain[Sender][j] \in Block
      BY <2>1
    <2>3. chain[Sender][i].p = chain[Sender][j].p /\ chain[Sender][i].p.frontier \in Nat
      BY <2>2, BlockFacts, AccountDeterminesPayment, PaymentFacts
    <2>4. \A k \in {i, j} : /\ PaymentAt(Sender, k) /\ k \in Nat
                            /\ chain[Sender][k].p = chain[Sender][i].p
      BY <2>2, <2>3 DEF PaymentAt
    <2>5. \A k \in {i, j} : \/ k = chain[Sender][i].p.frontier + 1
                            \/ /\ k = chain[Sender][i].p.frontier + 2
                               /\ ~PaymentAt(Sender, k - 1)
      BY <1>1, <2>4 DEF IInv, ChainInv
    <2>6. \A k, m \in {i, j} : k # m + 1
      <3>. SUFFICES ASSUME NEW k \in {i, j}, NEW m \in {i, j}, k = m + 1 PROVE FALSE
        OBVIOUS
      <3>1. k - 1 = m /\ k = chain[Sender][i].p.frontier + 2
        BY <2>3, <2>4, <2>5
      <3>2. ~PaymentAt(Sender, m)
        BY <3>1, <2>3, <2>5
      <3>. QED  BY <3>2, <2>4
    <2>. QED  BY <2>3, <2>4, <2>5, <2>6
  <1>. QED  BY <1>1, Invariance, PTL

-----------------------------------------------------------------------------
(***************************************************************************)
(* The two wallets do what PaymentService does.                            *)
(***************************************************************************)
LEMMA SentIsPayment ==
    ASSUME TypeOK
    PROVE  Sent \subseteq Payment
  <1>1. chain[Sender] \in Seq(Block)
    BY DEF TypeOK, Own
  <1>. QED  BY <1>1, BlockFacts DEF Sent

\* Chains only grow: a block that was received stays the block it was.
LEMMA ReceivedKept ==
    ASSUME IInv,
           \A c \in Own : \A i \in DOMAIN chain[c] : chain'[c][i] = chain[c][i]
    PROVE  \A x \in received : ReceivedAs(x)' = ReceivedAs(x)
  BY DEF IInv, TypeOK, ReceivedAs

LEMMA InitService == Init => Service!Init
  <1>1. Sender \in Own
    BY DEF Own
  <1>2. Init => Sent = {} /\ received = {}
    BY <1>1 DEF Init, Sent
  <1>. QED  BY <1>2 DEF Service!Init

\* A block that is no payment changes nothing the service sees.
LEMMA OtherBlockService ==
    ASSUME IInv, NEW a \in Own, NEW b \in Block, Publish(a, b), ~IsPayment(b)
    PROVE  UNCHANGED Service!vars
  <1>1. TypeOK /\ Sender \in Own /\ received' = received
    BY DEF IInv, Own, Publish
  <1>2. \A c \in Own : \A i \in DOMAIN chain[c] :
           i \in DOMAIN chain'[c] /\ chain'[c][i] = chain[c][i]
    BY <1>1, PublishFacts
  <1>3. \A i \in Nat : PaymentAt(Sender, i)' <=> PaymentAt(Sender, i)
    BY PublishOther
  <1>4. chain[Sender] \in Seq(Block) /\ chain'[Sender] \in Seq(Block)
    BY <1>1, PublishFacts DEF TypeOK
  <1>5. {j \in DOMAIN chain'[Sender] : IsPayment(chain'[Sender][j])} =
        {j \in DOMAIN chain[Sender] : IsPayment(chain[Sender][j])}
    BY <1>3, <1>4 DEF PaymentAt
  <1>6. Sent' = Sent
    BY <1>1, <1>2, <1>5 DEF Sent
  <1>7. \A x \in received : ReceivedAs(x)' = ReceivedAs(x)
    BY <1>2, ReceivedKept
  <1>. QED  BY <1>1, <1>6, <1>7 DEF Service!vars, SentAs

LEMMA SameChainService ==
    ASSUME IInv, chain' = chain, received' = received
    PROVE  UNCHANGED Service!vars
  <1>1. Sent' = Sent
    BY DEF Sent
  <1>2. \A x \in received : ReceivedAs(x)' = ReceivedAs(x)
    BY DEF ReceivedAs
  <1>. QED  BY <1>1, <1>2 DEF Service!vars, SentAs

LEMMA SendPaymentService ==
    ASSUME IInv, NEW d \in Device, SendPayment(d)
    PROVE  \E p \in Service!Payment : Service!Pay(p)
  <1>. DEFINE p == job[d].payment
              b == payment(p)
              n == Len(chain[Sender])
  <1>1. /\ TypeOK /\ Sender \in Own /\ "pay" \in job[d].todo
        /\ Publish(Sender, b) /\ received' = received
    BY DEF IInv, Own, SendPayment, Publish
  <1>2. p \in Payment
    BY <1>1, TypeOfJob DEF Idle, Job
  <1>3. b \in Block /\ IsPayment(b) /\ b.p = p
    BY <1>2, PaymentFacts
  <1>4. /\ n \in Nat /\ DOMAIN chain[Sender] = 1..n
        /\ chain'[Sender][n + 1] = b
        /\ \A c \in Own : \A i \in DOMAIN chain[c] : chain'[c][i] = chain[c][i]
        /\ Len(chain'[Sender]) = n + 1 /\ chain'[Sender] \in Seq(Block)
    BY <1>1, <1>3, PublishFacts
  <1>5. DOMAIN chain'[Sender] = 1..(n + 1)
    BY <1>4
  <1>6. Sent' = Sent \cup {p}
    <2>1. ASSUME NEW q
          PROVE  q \in Sent' <=> q \in Sent \/ q = p
      <3>1. q \in Sent' <=>
               \E i \in 1..(n + 1) : IsPayment(chain'[Sender][i]) /\ q = chain'[Sender][i].p
        BY <1>5 DEF Sent
      <3>2. q \in Sent <=>
               \E i \in 1..n : IsPayment(chain[Sender][i]) /\ q = chain[Sender][i].p
        BY <1>4 DEF Sent
      <3>3. \A i \in 1..n : chain'[Sender][i] = chain[Sender][i]
        BY <1>1, <1>4
      <3>4. \A i : i \in 1..(n + 1) <=> i \in 1..n \/ i = n + 1
        BY <1>4
      <3>. QED  BY <3>1, <3>2, <3>3, <3>4, <1>3, <1>4
    <2>. QED  BY <2>1
  <1>7. p \notin Sent
    <2>1. \A i \in Nat : PaymentAt(Sender, i) => chain[Sender][i].p # p
      BY SendPaymentInv
    <2>. QED  BY <2>1, <1>4 DEF PaymentAt, Sent
  <1>8. SentAs(p) \notin {SentAs(q) : q \in Sent}
    <2>1. ASSUME NEW q \in Payment, SentAs(p) = SentAs(q)
          PROVE  p = q
      <3>1. p.to = q.to /\ p.frontier = q.frontier
        BY <2>1 DEF SentAs
      <3>. QED  BY <3>1, <1>2 DEF Payment
    <2>. QED  BY <1>1, <1>7, <2>1, SentIsPayment
  <1>9. SentAs(p) \in Service!Payment
    BY <1>2 DEF SentAs, Payment, Service!Payment
  <1>10. {SentAs(q) : q \in Sent}' = {SentAs(q) : q \in Sent} \cup {SentAs(p)}
    BY <1>6 DEF SentAs
  <1>11. {ReceivedAs(x) : x \in received}' = {ReceivedAs(x) : x \in received}
    <2>1. \A x \in received : ReceivedAs(x)' = ReceivedAs(x)
      BY <1>4, ReceivedKept
    <2>. QED  BY <1>1, <2>1
  <1>12. Service!Pay(SentAs(p))
    BY <1>8, <1>10, <1>11 DEF Service!Pay
  <1>. QED  BY <1>9, <1>12

\* What a recipient receives was paid to it; and if its wallet comes back to it,
\* the service sees nothing new.
LEMMA ReceiveService ==
    ASSUME IInv, NEW r \in Recipient, NEW a \in Own, NEW i \in DOMAIN chain[a],
           Receive(r, a, i)
    PROVE  [\E p \in Service!Payment : Service!Receive(p)]_(Service!vars)
  <1>. DEFINE x == [by |-> r, account |-> a, place |-> i]
              p == chain[a][i].p
  <1>1. /\ TypeOK /\ Sender \in Own /\ chain' = chain
        /\ received' = received \cup {x}
    BY DEF IInv, Own, Receive
  <1>2. chain[a] \in Seq(Block) /\ chain[a][i] \in Block /\ i \in Nat
    BY <1>1 DEF TypeOK
  <1>3. \E b : unlocks(r, b, chain[a][i])
    BY DEF Receive, Unlocks, Pairs
  <1>4. IsPayment(chain[a][i]) /\ p.to = r
    BY <1>2, <1>3, UnlocksOwnPayments DEF IsPayment
  <1>5. a = Sender
    BY <1>2, <1>4 DEF IInv, ChainInv, PaymentAt
  <1>6. p \in Sent
    BY <1>4, <1>5 DEF Sent
  <1>7. ReceivedAs(x) = SentAs(p)
    BY <1>4 DEF ReceivedAs, SentAs
  <1>8. p \in Payment
    BY <1>2, <1>4, BlockFacts
  <1>9. SentAs(p) \in Service!Payment
    BY <1>8 DEF SentAs, Payment, Service!Payment
  <1>10. {SentAs(q) : q \in Sent}' = {SentAs(q) : q \in Sent}
    BY <1>1 DEF Sent, SentAs
  <1>11. {ReceivedAs(y) : y \in received}' =
         {ReceivedAs(y) : y \in received} \cup {SentAs(p)}
    <2>1. \A y : ReceivedAs(y)' = ReceivedAs(y)
      BY <1>1 DEF ReceivedAs
    <2>. QED  BY <1>1, <1>7, <2>1
  <1>12. CASE SentAs(p) \in {ReceivedAs(y) : y \in received}
    BY <1>10, <1>11, <1>12 DEF Service!vars
  <1>13. CASE SentAs(p) \notin {ReceivedAs(y) : y \in received}
    <2>1. Service!Receive(SentAs(p))
      BY <1>6, <1>10, <1>11, <1>13 DEF Service!Receive
    <2>. QED  BY <2>1, <1>9
  <1>. QED  BY <1>12, <1>13

LEMMA StepService == IInv /\ [Next]_vars => [Service!Next]_(Service!vars)
  <1>. SUFFICES ASSUME IInv, [Next]_vars PROVE [Service!Next]_(Service!vars)
    OBVIOUS
  <1>1. ASSUME NEW x \in Plan, Begin(x.by, x.to, x.notifier)
        PROVE  UNCHANGED Service!vars
    BY <1>1, SameChainService DEF Begin, SetJob
  <1>2. ASSUME NEW d \in Device, SendNotification(d)
        PROVE  UNCHANGED Service!vars
    <2>1. job[d] \in Job
      BY <1>2, TypeOfJob DEF IInv, SendNotification, Idle
    <2>2. job[d].notifier \in Own /\ job[d].payment \in Payment
      BY <2>1 DEF Job, Own
    <2>. QED  BY <1>2, <2>2, PaymentFacts, OtherBlockService DEF SendNotification
  <1>3. ASSUME NEW d \in Device, SendPayment(d)
        PROVE  Service!Next
    BY <1>3, SendPaymentService DEF Service!Next
  <1>4. ASSUME NEW d \in Device, Drop(d)
        PROVE  UNCHANGED Service!vars
    BY <1>4, SameChainService DEF Drop, SetJob
  <1>5. ASSUME NEW r \in Recipient, SendOrdinary(r)
        PROVE  UNCHANGED Service!vars
    BY <1>5, OrdinaryFacts, OtherBlockService DEF SendOrdinary, Own
  <1>6. CASE Recover
    <2>1. UNCHANGED Service!vars
      BY <1>6, PaymentFacts, OtherBlockService DEF Recover, Own
    <2>. QED  BY <2>1
  <1>7. ASSUME NEW a \in Own, Read(a)
        PROVE  UNCHANGED Service!vars
    BY <1>7, SameChainService DEF Read
  <1>8. ASSUME NEW r \in Recipient, NEW a \in Own, NEW i \in DOMAIN chain[a],
               Receive(r, a, i)
        PROVE  [Service!Next]_(Service!vars)
    BY <1>8, ReceiveService DEF Service!Next
  <1>9. CASE Restart
    BY <1>9, SameChainService DEF Restart
  <1>10. CASE UNCHANGED vars
    BY <1>10, SameChainService DEF vars
  <1>. QED  BY <1>1, <1>2, <1>3, <1>4, <1>5, <1>6, <1>7, <1>8, <1>9, <1>10
            DEF Next, ReceiveAny

\* The payer's devices and the recipient's wallet implement PaymentService: no
\* payment is received but by its addressee, and none before it was made.
THEOREM RefinesService == Spec => ImplementsService
  BY InitService, StepService, Invariance, PTL DEF Spec, ImplementsService, Service!Spec
=============================================================================
