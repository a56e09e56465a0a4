---------------------------- MODULE WalletProofs ----------------------------
(***************************************************************************)
(* What is proved of Wallet, for every curve, width and bound: the accounts *)
(* of blocks are those of points, a text that is accepted is the one that  *)
(* is printed, a signature passes only for what was signed, work is not    *)
(* lost by what it does not cover, a key that was kept signs as before, a  *)
(* block that was kept is read back as it was, and panics are known.       *)
(***************************************************************************)
EXTENDS Wallet, AddressProofs

\* A block has the fields of a block, whatever their values.
IsBlock(b) ==
    b = [block_type |-> b.block_type, account |-> b.account,
         previous |-> b.previous, representative |-> b.representative,
         balance |-> b.balance, link |-> b.link,
         signature |-> b.signature, work |-> b.work]

\* The block that is built, and the one that is kept.
BlocksAreBlocks ==
    /\ block # None => IsBlock(block)
    /\ kept # None => /\ IsBlock(kept.of) /\ IsBlock(kept.data)
                      /\ kept.data = write(kept.of, kept.form)

\* A signature is one of those that were made, or none.
Made(b) == \/ b.signature = DefaultSignature
           \/ \E s \in signed : s.signature = b.signature
SignaturesWereMade ==
    /\ \A s \in signed :
          \E b : \E signer :
             /\ IsBlock(b)
             /\ s.contents = Covered(b)
             /\ s.signature = sign_message(hash(b), signer)
    /\ block # None => Made(block)
    /\ kept # None => Made(kept.of)

\* The work of a block is enough for what it was done for.
Enough(of, b) ==
    check_work(IF of.previous = ZeroHash THEN of.account ELSE of.previous,
               Difficulty, b.work)
WorkIsEnough ==
    /\ block # None /\ worked # None => Enough(worked, block)
    /\ kept # None /\ kept.worked # None => Enough(kept.worked, kept.of)

\* The key in memory is the one in the file, unless it was clamped again.
KeyIsKept ==
    /\ key.how = "none" => key.scalar = None
    /\ key.how \notin {"none", "secret"} => key.scalar = file
    /\ key.scalar # None => file # None

-----------------------------------------------------------------------------
(***************************************************************************)
(* Blocks and their copies.                                                *)
(***************************************************************************)
LEMMA AsBytes ==
    ASSUME NEW b, IsBlock(b)
    PROVE  /\ as_bytes(b).block_type = b.block_type
           /\ as_bytes(b).account = b.account.compressed
           /\ as_bytes(b).previous = b.previous
           /\ as_bytes(b).representative = b.representative.compressed
           /\ as_bytes(b).balance = b.balance
           /\ as_bytes(b).link = b.link
           /\ as_bytes(b).signature = b.signature
           /\ as_bytes(b).work = b.work
  BY DEF IsBlock, as_bytes

\* The hash of a block is the tuple of what a signature covers.
LEMMA HashOfBlock ==
    ASSUME NEW b, IsBlock(b)
    PROVE  hash(b) = <<b.account.compressed, b.previous,
                       b.representative.compressed, b.balance, b.link>>
  BY AsBytes DEF hash, hash_block

LEMMA WriteOfBlock ==
    ASSUME NEW b, IsBlock(b), NEW form
    PROVE  /\ IsBlock(write(b, form))
           /\ write(b, form).signature = b.signature
           /\ write(b, form).work = b.work
  BY DEF IsBlock, write

\* What is read has the signature and the work that was written.
LEMMA ReadOfBlock ==
    ASSUME NEW data, IsBlock(data), NEW form, read(data, form).ok
    PROVE  /\ IsBlock(read(data, form).value)
           /\ read(data, form).value.signature = data.signature
           /\ read(data, form).value.work = data.work
  BY DEF IsBlock, read, Ok, Err, Panic

\* A change of a field leaves the signature and the work.
LEMMA EditOfBlock ==
    ASSUME NEW b, IsBlock(b), NEW e \in Edited(b)
    PROVE  /\ IsBlock(e)
           /\ e.signature = b.signature
           /\ e.work = b.work
  BY DEF IsBlock, Edited
-----------------------------------------------------------------------------
(***************************************************************************)
(* Accounts.  The three fields of a good one are of one point; it may be   *)
(* written with bytes that its point does not compress to.                 *)
(***************************************************************************)
Good(a) ==
    /\ a = [account |-> a.account, compressed |-> a.compressed, point |-> a.point]
    /\ IsAccount(a)

LEMMA PointOfBytes ==
    ASSUME NEW bytes
    PROVE  /\ decompress(bytes) # None => decompress(bytes) \in Point
           /\ bytes \notin DOMAIN Alias /\ decompress(bytes) # None
              => compress[decompress(bytes)] = bytes
  <1>1. CASE bytes \in DOMAIN Alias
    BY <1>1, CurveAssumption DEF decompress
  <1>2. CASE bytes \notin DOMAIN Alias
    BY <1>2 DEF decompress
  <1> QED BY <1>1, <1>2

LEMMA BytesOfPoint ==
    ASSUME NEW P \in Point
    PROVE  decompress(compress[P]) = P
  <1>1. compress[P] \notin DOMAIN Alias
    BY CurveAssumption
  <1>2. \A Q \in Point : compress[Q] = compress[P] => Q = P
    BY CurveAssumption
  <1> QED BY <1>1, <1>2 DEF decompress

LEMMA GoodFromPoint ==
    ASSUME NEW P \in Point
    PROVE  Good(account_from_point(P))
  <1>1. compress[P] \in 0..(2^KeyBits - 1)
    BY CurveAssumption
  <1>2. account_decode(account_encode(compress[P])) = Ok(compress[P])
    BY <1>1, KeyReadBack
  <1> QED BY <1>1, <1>2, BytesOfPoint DEF Good, IsAccount, account_from_point

LEMMA GoodFromText ==
    ASSUME NEW text \in NanoText, account_from_str(text).ok
    PROVE  Good(account_from_str(text).value)
  <1> DEFINE bytes == account_decode(text).value
  <1>1. account_decode(text).ok
    BY DEF account_from_str
  <1>2. account_decode(text) = Ok(bytes)
    BY <1>1 DEF account_decode, Ok, Err, Panic
  <1>3. bytes \in 0..(2^KeyBits - 1)
    <2>1. IsText(text)
      BY WalletAssumption DEF IsText
    <2> QED BY <1>1, <2>1, DecodeAccepts, PrintedOfAccepted
  <1>4. decompress(bytes) \in Point
    BY <1>1, PointOfBytes DEF account_from_str, account_from, Err
  <1>5. account_from_str(text).value =
            [account |-> text, compressed |-> bytes, point |-> decompress(bytes)]
    BY <1>1 DEF account_from_str, account_from, Ok, Err
  <1> HIDE DEF bytes
  <1> QED BY <1>2, <1>3, <1>4, <1>5 DEF Good, IsAccount

\* The text of a good account is read back as that account.
LEMMA ReadOfText ==
    ASSUME NEW a, Good(a)
    PROVE  account_from_str(a.account) = Ok(a)
  <1>1. a.point # None
    BY CurveAssumption DEF Good, IsAccount
  <1>2. account_from_str(a.account) = account_from(a.account, a.compressed)
    BY DEF Good, IsAccount, account_from_str, Ok
  <1> QED BY <1>1, <1>2 DEF Good, IsAccount, account_from

\* Serde gives an account of the same point, and the same bytes if the point
\* compresses to them.
LEMMA ReadOfBytes ==
    ASSUME NEW a, Good(a)
    PROVE  /\ Good(account_of_serde(serde_of_account(a)))
           /\ a.compressed \notin DOMAIN Alias
              => account_of_serde(serde_of_account(a)).compressed = a.compressed
  <1>1. account_of_serde(serde_of_account(a)) = account_from_point(a.point)
    BY DEF Good, IsAccount, account_of_serde, serde_of_account
  <1>2. a.compressed \notin DOMAIN Alias => compress[a.point] = a.compressed
    BY PointOfBytes, CurveAssumption DEF Good, IsAccount
  <1> QED BY <1>1, <1>2, GoodFromPoint DEF Good, IsAccount, account_from_point

LEMMA SecretIsScalar ==
    ASSUME NEW bytes \in Nat
    PROVE  scalar_from_secret(bytes) \in 0..(Order - 1)
  <1>1. clamp_integer(bytes) \in Int
    <2> DEFINE top == 2^(KeyBits - 2)
    <2>1. top \in Nat \ {0}
      <3>1. KeyBits - 2 \in Nat /\ KeyBits - 2 <= AddressBits
        BY WidthAssumption, CamoWidths, NanoWidths, Widths
      <3> QED BY <3>1, Powers
    <2>2. clamp_integer(bytes) = top + ((bytes % top) \div Cofactor) * Cofactor
      BY DEF clamp_integer
    <2> HIDE DEF top
    <2>3. bytes % top \in Int
      BY <2>1
    <2>4. (bytes % top) \div Cofactor \in Int
      BY <2>3, CurveAssumption
    <2> QED BY <2>1, <2>2, <2>4, CurveAssumption
  <1> QED BY <1>1, CurveAssumption DEF scalar_from_secret, from_bytes_mod_order

\* Keys are scalars, and blocks have the accounts of points.
GoodBlock(b) ==
    /\ IsBlock(b)
    /\ Good(b.account) /\ Good(b.representative)
    /\ b.balance \in Amount
    /\ b.work \in Nonce

KeysAreScalars ==
    /\ file \in Option(0..(Order - 1))
    /\ key.how \in {"none", "from_seed", "canonical", "secret"}
    /\ key.scalar \in Option(0..(Order - 1))

BlocksAreGood ==
    /\ block # None => GoodBlock(block)
    /\ kept # None => GoodBlock(kept.of) /\ kept.form \in {"json", "serde"}
    /\ \A a \in Typed : Good(a)

TypeInv ==
    /\ BlocksAreBlocks /\ KeysAreScalars /\ BlocksAreGood
    /\ edits \in 0..MaxEdits
    /\ panic \in BOOLEAN

\* A block with other accounts, or what stands for them.
Renamed(b, account, representative) ==
    [block_type |-> b.block_type, account |-> account,
     previous |-> b.previous, representative |-> representative,
     balance |-> b.balance, link |-> b.link,
     signature |-> b.signature, work |-> b.work]

LEMMA BytesAreBlock ==
    ASSUME NEW b, IsBlock(b)
    PROVE  as_bytes(b) = Renamed(b, b.account.compressed, b.representative.compressed)
  <1> DEFINE e == as_bytes(b)
  <1>1. IsBlock(e)
    <2>1. e = write(b, "serde")
      BY DEF as_bytes, write, serde_of_account
    <2> QED BY <2>1, WriteOfBlock
  <1>2. /\ e.block_type = b.block_type /\ e.account = b.account.compressed
        /\ e.previous = b.previous /\ e.representative = b.representative.compressed
        /\ e.balance = b.balance /\ e.link = b.link
        /\ e.signature = b.signature /\ e.work = b.work
    BY AsBytes
  <1> HIDE DEF e
  <1>3. e = Renamed(b, b.account.compressed, b.representative.compressed)
    BY <1>1, <1>2 DEF IsBlock, Renamed
  <1> QED BY <1>3 DEF e

LEMMA ReadOfGood ==
    ASSUME NEW b, GoodBlock(b), NEW form \in {"json", "serde"},
           read(write(b, form), form).ok
    PROVE  /\ GoodBlock(read(write(b, form), form).value)
           /\ form = "json" => read(write(b, form), form).value = b
           /\ {a.compressed : a \in {b.account, b.representative}} \cap DOMAIN Alias = {}
              => as_bytes(read(write(b, form), form).value) = as_bytes(b)
  <1> DEFINE data == write(b, form)
             out == read(data, form).value
  <1> SUFFICES /\ GoodBlock(out)
               /\ form = "json" => out = b
               /\ {a.compressed : a \in {b.account, b.representative}}
                     \cap DOMAIN Alias = {} => as_bytes(out) = as_bytes(b)
    OBVIOUS
  <1>0. read(data, form).ok
    OBVIOUS
  <1>1. /\ IsBlock(b) /\ IsBlock(data)
        /\ data.block_type = b.block_type /\ data.previous = b.previous
        /\ data.balance = b.balance /\ data.link = b.link
        /\ data.signature = b.signature /\ data.work = b.work
    BY WriteOfBlock DEF GoodBlock, IsBlock, write
  <1>2. CASE form = "json"
    <2>1. data.account = b.account.account /\ data.representative = b.representative.account
      BY <1>2 DEF GoodBlock, IsBlock, write
    <2>2. /\ account_from_str(data.account) = Ok(b.account)
          /\ account_from_str(data.representative) = Ok(b.representative)
      BY <2>1, ReadOfText DEF GoodBlock
    <2>3. out = [data EXCEPT !.account = b.account, !.representative = b.representative]
      <3> HIDE DEF data
      <3> QED BY <1>0, <1>2, <2>2 DEF read, Ok, Panic, Err
    <2>4. out = b
      <3> HIDE DEF data, out
      <3>1. out = [block_type |-> b.block_type, account |-> b.account,
                   previous |-> b.previous, representative |-> b.representative,
                   balance |-> b.balance, link |-> b.link,
                   signature |-> b.signature, work |-> b.work]
        BY <1>1, <2>3 DEF IsBlock
      <3> QED BY <1>1, <3>1 DEF IsBlock
    <2> HIDE DEF out
    <2> QED BY <2>4
  <1>3. CASE form = "serde"
    <2> DEFINE account == account_of_serde(serde_of_account(b.account))
               representative == account_of_serde(serde_of_account(b.representative))
    <2>1. /\ data.account = serde_of_account(b.account)
          /\ data.representative = serde_of_account(b.representative)
      BY <1>3 DEF GoodBlock, IsBlock, write
    <2>2. out = [data EXCEPT !.account = account, !.representative = representative]
      <3> HIDE DEF data
      <3> QED BY <1>3, <2>1 DEF read, Ok
    <2>3. Good(account) /\ Good(representative)
      BY ReadOfBytes DEF GoodBlock
    <2>4. out = Renamed(b, account, representative)
      <3> HIDE DEF data, out, account, representative
      <3>1. IsBlock(out)
        BY <1>1, <2>2 DEF IsBlock
      <3>2. /\ out.block_type = data.block_type /\ out.account = account
            /\ out.previous = data.previous /\ out.representative = representative
            /\ out.balance = data.balance /\ out.link = data.link
            /\ out.signature = data.signature /\ out.work = data.work
        BY <1>1, <2>2 DEF IsBlock
      <3> QED BY <1>1, <3>1, <3>2 DEF Renamed, IsBlock
    <2>5. GoodBlock(out)
      <3> HIDE DEF account, representative, out
      <3> QED BY <2>3, <2>4 DEF Renamed, GoodBlock, IsBlock
    <2>6. ASSUME {a.compressed : a \in {b.account, b.representative}}
                     \cap DOMAIN Alias = {}
          PROVE  as_bytes(out) = as_bytes(b)
      <3>1. /\ b.account.compressed \notin DOMAIN Alias
            /\ b.representative.compressed \notin DOMAIN Alias
        BY <2>6
      <3>2. /\ account.compressed = b.account.compressed
            /\ representative.compressed = b.representative.compressed
        BY <3>1, ReadOfBytes DEF GoodBlock
      <3> HIDE DEF account, representative, out
      <3>3. as_bytes(b) = Renamed(b, b.account.compressed, b.representative.compressed)
        BY <1>1, BytesAreBlock
      <3>4. as_bytes(out) = Renamed(out, out.account.compressed, out.representative.compressed)
        BY <2>5, BytesAreBlock DEF GoodBlock
      <3> QED BY <2>4, <3>2, <3>3, <3>4 DEF Renamed
    <2> HIDE DEF out
    <2> QED BY <1>3, <2>5, <2>6
  <1> QED BY <1>2, <1>3

-----------------------------------------------------------------------------
(***************************************************************************)
(* The steps, by what they do to the block.                                *)
(***************************************************************************)
\* Steps that leave the block, or end with none.
Elsewhere ==
    /\ block' = None \/ UNCHANGED <<block, worked>>
    /\ UNCHANGED <<signed, kept>>

LEMMA Steps ==
    ASSUME [Next]_vars
    PROVE  \/ Elsewhere
           \/ \E type, account, previous, representative :
                 NewBlock(type, account, previous, representative)
           \/ block # None /\ (\E b \in Edited(block) : Edit(b))
           \/ Sign
           \/ \E s \in signed : SetSignature(s.signature)
           \/ LocalWork(Difficulty)
           \/ \E form \in {"json", "serde"} : Keep(form)
           \/ Load
  <1>1. CASE \E seed_hash \in SeedHash : MakeKey(seed_hash)
    BY <1>1 DEF MakeKey, Elsewhere
  <1>2. CASE Restart \/ LoadKey \/ LoadKeyAsSecret
    BY <1>2 DEF Restart, LoadKey, LoadKeyAsSecret, Elsewhere
  <1>3. CASE \/ \E text \in NanoText : TypeNano(text)
             \/ \E text \in CamoText : TypeCamo(text)
    BY <1>3 DEF TypeNano, TypeCamo, Elsewhere
  <1>4. CASE UNCHANGED vars
    BY <1>4 DEF vars, Elsewhere
  <1> QED
    BY <1>1, <1>2, <1>3, <1>4 DEF Next

-----------------------------------------------------------------------------
(***************************************************************************)
(* Each invariant is inductive, given that blocks are blocks.              *)
(***************************************************************************)
LEMMA BlocksStayBlocks ==
    ASSUME BlocksAreBlocks, [Next]_vars
    PROVE  BlocksAreBlocks'
  <1>1. CASE Elsewhere
    BY <1>1 DEF Elsewhere, BlocksAreBlocks, IsBlock, write, serde_of_account
  <1>2. ASSUME NEW type, NEW account, NEW previous, NEW representative,
               NewBlock(type, account, previous, representative)
        PROVE  BlocksAreBlocks'
    BY <1>2 DEF NewBlock, BlocksAreBlocks, IsBlock
  <1>3. ASSUME block # None, NEW b \in Edited(block), Edit(b)
        PROVE  BlocksAreBlocks'
    <2>1. IsBlock(b)
      BY <1>3, EditOfBlock DEF BlocksAreBlocks
    <2> QED
      BY <1>3, <2>1 DEF Edit, BlocksAreBlocks, IsBlock
  <1>4. ASSUME NEW signature, SetSignature(signature)
        PROVE  BlocksAreBlocks'
    BY <1>4 DEF SetSignature, BlocksAreBlocks, IsBlock
  <1>5. CASE Sign
    BY <1>5 DEF Sign, BlocksAreBlocks, IsBlock
  <1>6. CASE LocalWork(Difficulty)
    BY <1>6 DEF LocalWork, BlocksAreBlocks, IsBlock
  <1>7. ASSUME NEW form, Keep(form)
        PROVE  BlocksAreBlocks'
    <2>1. IsBlock(write(block, form))
      BY <1>7, WriteOfBlock DEF Keep, BlocksAreBlocks
    <2> QED
      BY <1>7, <2>1 DEF Keep, BlocksAreBlocks, IsBlock
  <1>8. CASE Load
    <2>1. CASE ~read(kept.data, kept.form).ok
      BY <1>8, <2>1 DEF Load, BlocksAreBlocks, IsBlock
    <2>2. CASE read(kept.data, kept.form).ok
      <3>1. IsBlock(read(kept.data, kept.form).value)
        BY <1>8, <2>2, ReadOfBlock DEF Load, BlocksAreBlocks
      <3> QED
        BY <1>8, <2>2, <3>1 DEF Load, BlocksAreBlocks, IsBlock
    <2> QED BY <2>1, <2>2
  <1> QED
    BY <1>1, <1>2, <1>3, <1>4, <1>5, <1>6, <1>7, <1>8, Steps

LEMMA SignaturesStayMade ==
    ASSUME BlocksAreBlocks, SignaturesWereMade, [Next]_vars
    PROVE  SignaturesWereMade'
  <1>1. CASE Elsewhere
    BY <1>1 DEF Elsewhere, SignaturesWereMade, Made
  <1>2. ASSUME NEW type, NEW account, NEW previous, NEW representative,
               NewBlock(type, account, previous, representative)
        PROVE  SignaturesWereMade'
    BY <1>2 DEF NewBlock, SignaturesWereMade, Made
  <1>3. ASSUME block # None, NEW b \in Edited(block), Edit(b)
        PROVE  SignaturesWereMade'
    <2>1. b.signature = block.signature
      BY <1>3, EditOfBlock DEF BlocksAreBlocks
    <2> QED
      BY <1>3, <2>1 DEF Edit, SignaturesWereMade, Made
  <1>4. ASSUME NEW s \in signed, SetSignature(s.signature)
        PROVE  SignaturesWereMade'
    <2>1. block'.signature = s.signature
      BY <1>4 DEF SetSignature, BlocksAreBlocks, IsBlock
    <2> QED
      BY <1>4, <2>1 DEF SetSignature, SignaturesWereMade, Made
  <1>5. CASE Sign
    <2> DEFINE new == [signature |-> get_signature(block, key.scalar),
                       contents |-> Covered(block)]
    <2>1. block'.signature = new.signature
      BY <1>5 DEF Sign, BlocksAreBlocks, IsBlock
    <2>2. signed' = signed \cup {new}
      BY <1>5, <2>1 DEF Sign
    <2>3. \E b : \E signer :
             /\ IsBlock(b)
             /\ new.contents = Covered(b)
             /\ new.signature = sign_message(hash(b), signer)
      BY <1>5 DEF Sign, BlocksAreBlocks, get_signature
    <2>4. \A s \in signed' : \E b : \E signer :
             /\ IsBlock(b)
             /\ s.contents = Covered(b)
             /\ s.signature = sign_message(hash(b), signer)
      BY <2>2, <2>3 DEF SignaturesWereMade
    <2>5. UNCHANGED kept
      BY <1>5 DEF Sign
    <2> HIDE DEF new
    <2> QED
      BY <2>1, <2>2, <2>4, <2>5 DEF SignaturesWereMade, Made
  <1>6. CASE LocalWork(Difficulty)
    <2>1. block'.signature = block.signature
      BY <1>6 DEF LocalWork, BlocksAreBlocks, IsBlock
    <2> QED
      BY <1>6, <2>1 DEF LocalWork, SignaturesWereMade, Made
  <1>7. ASSUME NEW form, Keep(form)
        PROVE  SignaturesWereMade'
    BY <1>7 DEF Keep, SignaturesWereMade, Made
  <1>8. CASE Load
    <2>1. CASE ~read(kept.data, kept.form).ok
      BY <1>8, <2>1 DEF Load, SignaturesWereMade, Made
    <2>2. CASE read(kept.data, kept.form).ok
      <3>1. read(kept.data, kept.form).value.signature = kept.of.signature
        BY <1>8, <2>2, ReadOfBlock, WriteOfBlock DEF Load, BlocksAreBlocks
      <3> QED
        BY <1>8, <2>2, <3>1 DEF Load, SignaturesWereMade, Made
    <2> QED BY <2>1, <2>2
  <1> QED
    BY <1>1, <1>2, <1>3, <1>4, <1>5, <1>6, <1>7, <1>8, Steps

LEMMA WorkStaysEnough ==
    ASSUME BlocksAreBlocks, WorkIsEnough, [Next]_vars
    PROVE  WorkIsEnough'
  <1>1. CASE Elsewhere
    BY <1>1 DEF Elsewhere, WorkIsEnough, Enough
  <1>2. ASSUME NEW type, NEW account, NEW previous, NEW representative,
               NewBlock(type, account, previous, representative)
        PROVE  WorkIsEnough'
    BY <1>2 DEF NewBlock, WorkIsEnough, Enough
  <1>3. ASSUME block # None, NEW b \in Edited(block), Edit(b)
        PROVE  WorkIsEnough'
    <2>1. b.work = block.work
      BY <1>3, EditOfBlock DEF BlocksAreBlocks
    <2> QED
      BY <1>3, <2>1 DEF Edit, WorkIsEnough, Enough
  <1>4. ASSUME NEW signature, SetSignature(signature)
        PROVE  WorkIsEnough'
    <2>1. block'.work = block.work
      BY <1>4 DEF SetSignature, BlocksAreBlocks, IsBlock
    <2> QED
      BY <1>4, <2>1 DEF SetSignature, WorkIsEnough, Enough
  <1>5. CASE Sign
    <2>1. block'.work = block.work
      BY <1>5 DEF Sign, BlocksAreBlocks, IsBlock
    <2> QED
      BY <1>5, <2>1 DEF Sign, WorkIsEnough, Enough
  <1>6. CASE LocalWork(Difficulty)
    <2> DEFINE of == IF block.previous = ZeroHash THEN block.account.compressed
                     ELSE block.previous
    <2>1. work_hash(as_bytes(block)) = of
      BY <1>6, AsBytes DEF LocalWork, BlocksAreBlocks, work_hash
    <2>2. check_work(of, Difficulty, block'.work)
      BY <1>6, <2>1 DEF LocalWork, BlocksAreBlocks, IsBlock
    <2>3. worked' = [previous |-> block.previous, account |-> block.account.compressed]
      BY <1>6 DEF LocalWork
    <2>4. Enough(worked', block')
      BY <2>2, <2>3 DEF Enough
    <2>5. UNCHANGED kept
      BY <1>6 DEF LocalWork
    <2> HIDE DEF of
    <2> QED
      BY <2>4, <2>5 DEF WorkIsEnough, Enough
  <1>7. ASSUME NEW form, Keep(form)
        PROVE  WorkIsEnough'
    BY <1>7 DEF Keep, WorkIsEnough, Enough
  <1>8. CASE Load
    <2>1. CASE ~read(kept.data, kept.form).ok
      BY <1>8, <2>1 DEF Load, WorkIsEnough, Enough
    <2>2. CASE read(kept.data, kept.form).ok
      <3>1. read(kept.data, kept.form).value.work = kept.of.work
        BY <1>8, <2>2, ReadOfBlock, WriteOfBlock DEF Load, BlocksAreBlocks
      <3> QED
        BY <1>8, <2>2, <3>1 DEF Load, WorkIsEnough, Enough
    <2> QED BY <2>1, <2>2
  <1> QED
    BY <1>1, <1>2, <1>3, <1>4, <1>5, <1>6, <1>7, <1>8, Steps

LEMMA KeyStaysKept ==
    ASSUME KeyIsKept, [Next]_vars
    PROVE  KeyIsKept'
  <1>1. CASE \E seed_hash \in SeedHash : MakeKey(seed_hash)
    BY <1>1 DEF MakeKey, KeyIsKept
  <1>2. CASE Restart
    BY <1>2 DEF Restart, KeyIsKept
  <1>3. CASE LoadKey
    BY <1>3 DEF LoadKey, KeyIsKept, from_canonical_bytes, Ok, Err
  <1>4. CASE LoadKeyAsSecret
    BY <1>4 DEF LoadKeyAsSecret, KeyIsKept
  <1>5. ASSUME UNCHANGED <<file, key>>
        PROVE  KeyIsKept'
    BY <1>5 DEF KeyIsKept
  <1> QED
    BY <1>1, <1>2, <1>3, <1>4, <1>5
    DEF Next, vars, TypeNano, TypeCamo, NewBlock, Edit, Sign, SetSignature,
        LocalWork, Keep, Load
LEMMA KeysStayScalars ==
    ASSUME KeysAreScalars, [Next]_vars
    PROVE  KeysAreScalars'
  <1>1. ASSUME NEW seed_hash \in SeedHash, MakeKey(seed_hash)
        PROVE  KeysAreScalars'
    <2>1. seed_hash \in Nat
      BY WalletAssumption
    <2> QED BY <1>1, <2>1, SecretIsScalar DEF MakeKey, KeysAreScalars, Option
  <1>2. CASE Restart
    BY <1>2 DEF Restart, KeysAreScalars, Option
  <1>3. CASE LoadKey
    <2>1. file \in 0..(Order - 1) /\ key'.scalar = file /\ key'.how = "canonical"
      BY <1>3 DEF LoadKey, KeysAreScalars, Option, from_canonical_bytes, Ok, Err
    <2> QED BY <1>3, <2>1 DEF LoadKey, KeysAreScalars, Option
  <1>4. CASE LoadKeyAsSecret
    <2>1. file \in Nat
      BY <1>4, CurveAssumption DEF LoadKeyAsSecret, KeysAreScalars, Option
    <2> QED BY <1>4, <2>1, SecretIsScalar DEF LoadKeyAsSecret, KeysAreScalars, Option
  <1>5. ASSUME UNCHANGED <<file, key>>
        PROVE  KeysAreScalars'
    BY <1>5 DEF KeysAreScalars
  <1> QED
    BY <1>1, <1>2, <1>3, <1>4, <1>5
    DEF Next, vars, TypeNano, TypeCamo, NewBlock, Edit, Sign, SetSignature,
        LocalWork, Keep, Load

\* The accounts that a new block may be for, or name.
LEMMA OwnAccountsAreGood ==
    ASSUME KeysAreScalars, BlocksAreGood, HasKey, NEW a \in OwnAccount \cup Typed
    PROVE  Good(a)
  <1>1. key.scalar \in Point
    BY CurveAssumption DEF KeysAreScalars, HasKey, Option
  <1> QED
    BY <1>1, GoodFromPoint DEF OwnAccount, to_account, BlocksAreGood

LEMMA EditIsGood ==
    ASSUME NEW b, GoodBlock(b), NEW e \in Edited(b)
    PROVE  GoodBlock(e)
  <1>1. IsBlock(e) /\ e.work = b.work
    BY EditOfBlock DEF GoodBlock
  <1>2. /\ e.account \in {b.account, b.representative}
        /\ e.representative \in {b.account, b.representative}
        /\ e.balance \in Amount
    BY DEF GoodBlock, IsBlock, Edited
  <1> QED BY <1>1, <1>2 DEF GoodBlock

LEMMA BlocksStayGood ==
    ASSUME BlocksAreBlocks, KeysAreScalars, BlocksAreGood, [Next]_vars
    PROVE  BlocksAreGood'
  <1>1. ASSUME UNCHANGED <<block, kept, typed>>
        PROVE  BlocksAreGood'
    BY <1>1 DEF BlocksAreGood, GoodBlock, IsBlock, Good, IsAccount, Typed
  <1>2. CASE Restart
    BY <1>2 DEF Restart, BlocksAreGood, Typed, NothingTyped, GoodBlock, IsBlock, Good, IsAccount
  <1>3. ASSUME NEW text \in NanoText, TypeNano(text)
        PROVE  BlocksAreGood'
    <2>1. \A a \in Typed' : Good(a)
      BY <1>3, GoodFromText DEF TypeNano, Typed
    <2> QED BY <1>3, <2>1 DEF TypeNano, MayType, BlocksAreGood
  <1>4. ASSUME NEW text, TypeCamo(text)
        PROVE  BlocksAreGood'
    BY <1>4 DEF TypeCamo, MayType, BlocksAreGood, Typed
  <1>5. ASSUME HasKey, NEW type, NEW account \in OwnAccount, NEW previous,
               NEW representative \in {account} \cup Typed,
               NewBlock(type, account, previous, representative)
        PROVE  BlocksAreGood'
    <2>1. Good(account) /\ Good(representative)
      BY <1>5, OwnAccountsAreGood
    <2>2. MaxAmount \in Amount /\ 0 \in Nonce
      BY AmountAssumption, WalletAssumption DEF Amount
    <2>3. GoodBlock(block')
      BY <1>5, <2>1, <2>2 DEF NewBlock, GoodBlock, IsBlock
    <2> QED BY <1>5, <2>3 DEF NewBlock, BlocksAreGood, Typed, NothingTyped
  <1>6. ASSUME block # None, NEW b \in Edited(block), Edit(b)
        PROVE  BlocksAreGood'
    <2>1. GoodBlock(b)
      BY <1>6, EditIsGood DEF BlocksAreGood
    <2> QED BY <1>6, <2>1 DEF Edit, BlocksAreGood, Typed
  <1>7. ASSUME block # None, NEW signature, UNCHANGED <<kept, typed>>,
               block' = [block EXCEPT !.signature = signature]
        PROVE  BlocksAreGood'
    <2>1. GoodBlock(block')
      BY <1>7 DEF BlocksAreGood, GoodBlock, IsBlock
    <2> QED BY <1>7, <2>1 DEF BlocksAreGood, Typed
  <1>8. CASE LocalWork(Difficulty)
    <2>1. PICK work \in Nonce : block' = [block EXCEPT !.work = work]
      BY <1>8 DEF LocalWork
    <2>2. GoodBlock(block')
      BY <1>8, <2>1 DEF LocalWork, BlocksAreGood, GoodBlock, IsBlock
    <2> QED BY <1>8, <2>2 DEF LocalWork, BlocksAreGood, Typed
  <1>9. ASSUME NEW form \in {"json", "serde"}, Keep(form)
        PROVE  BlocksAreGood'
    BY <1>9 DEF Keep, BlocksAreGood, Typed
  <1>10. CASE Load
    <2>1. block' # None => GoodBlock(block')
      <3>1. kept # None /\ kept.data = write(kept.of, kept.form)
        BY <1>10 DEF Load, BlocksAreBlocks
      <3>2. GoodBlock(kept.of) /\ kept.form \in {"json", "serde"}
        BY <3>1 DEF BlocksAreGood
      <3>3. read(kept.data, kept.form).ok => GoodBlock(read(kept.data, kept.form).value)
        BY <3>1, <3>2, ReadOfGood
      <3> QED BY <1>10, <3>3 DEF Load
    <2> QED BY <1>10, <2>1 DEF Load, BlocksAreGood, Typed
  <1> QED
    BY <1>1, <1>2, <1>3, <1>4, <1>5, <1>6, <1>7, <1>8, <1>9, <1>10
    DEF Next, vars, MakeKey, LoadKey, LoadKeyAsSecret, Sign, SetSignature

-----------------------------------------------------------------------------
(***************************************************************************)
(* The theorems.                                                           *)
(***************************************************************************)
WalletInv == BlocksAreBlocks /\ SignaturesWereMade /\ WorkIsEnough /\ KeyIsKept

LEMMA WalletInvariant == Spec => []WalletInv
  <1>1. Init => WalletInv
    BY DEF Init, WalletInv, BlocksAreBlocks, SignaturesWereMade, WorkIsEnough, KeyIsKept
  <1>2. WalletInv /\ [Next]_vars => WalletInv'
    BY BlocksStayBlocks, SignaturesStayMade, WorkStaysEnough, KeyStaysKept DEF WalletInv
  <1> QED
    BY <1>1, <1>2, PTL DEF Spec

LEMMA TypeInvariant == Spec => []TypeInv
  <1>1. Init => TypeInv
    <2> SUFFICES ASSUME Init
                 PROVE  TypeInv
      OBVIOUS
    <2>1. BlocksAreBlocks /\ BlocksAreGood
      BY DEF Init, BlocksAreBlocks, BlocksAreGood, Typed, NothingTyped
    <2>2. KeysAreScalars
      BY DEF Init, KeysAreScalars, Option
    <2>3. edits \in 0..MaxEdits
      <3>1. edits = 0 /\ MaxEdits \in Nat
        BY WalletAssumption DEF Init
      <3> QED BY <3>1
    <2>4. panic \in BOOLEAN
      BY DEF Init
    <2> QED BY <2>1, <2>2, <2>3, <2>4 DEF TypeInv
  <1>2. TypeInv /\ [Next]_vars => TypeInv'
    <2> SUFFICES ASSUME TypeInv, [Next]_vars
                 PROVE  TypeInv'
      OBVIOUS
    <2>1. BlocksAreBlocks' /\ KeysAreScalars' /\ BlocksAreGood'
      BY BlocksStayBlocks, KeysStayScalars, BlocksStayGood DEF TypeInv
    <2>2. edits' \in 0..MaxEdits
      BY WalletAssumption
      DEF TypeInv, Next, vars, MakeKey, Restart, LoadKey, LoadKeyAsSecret, TypeNano,
          TypeCamo, NewBlock, Edit, Sign, SetSignature, LocalWork, Keep, Load
    <2>3. panic' \in BOOLEAN
      BY DEF TypeInv, Next, vars, MakeKey, Restart, LoadKey, LoadKeyAsSecret, TypeNano,
             TypeCamo, NewBlock, Edit, Sign, SetSignature, LocalWork, Keep, Load
    <2> QED BY <2>1, <2>2, <2>3 DEF TypeInv
  <1> QED
    BY <1>1, <1>2, PTL DEF Spec

\* The variables have their types, and the accounts of every block are those
\* of points (account.rs:85).
THEOREM TypeCorrect == Spec => []TypeOK
  <1>1. TypeInv => TypeOK
    BY DEF TypeInv, KeysAreScalars, BlocksAreGood, GoodBlock, Good, TypeOK
  <1> QED
    BY <1>1, TypeInvariant, PTL

\* What is kept is read back as it was (util.rs:77, account.rs:138).
THEOREM KeptIsReadBack == Spec => []ReadBackIsSame
  <1>1. TypeInv => ReadBackIsSame
    BY ReadOfGood DEF TypeInv, BlocksAreBlocks, BlocksAreGood, ReadBackIsSame
  <1> QED
    BY <1>1, TypeInvariant, PTL

\* Two good accounts with one text and one key are one account.
LEMMA SameAccount ==
    ASSUME NEW a, Good(a), NEW b, Good(b),
           a.account = b.account, a.compressed = b.compressed
    PROVE  a = b
  BY DEF Good, IsAccount

\* Following the rules is to have the balance and the representative of before.
LEMMA RulesFollowed ==
    ASSUME NEW b, GoodBlock(b), NEW previous, GoodBlock(previous)
    PROVE  follows_rules(b, previous) <=>
             /\ b.block_type = "epoch"
             /\ b.previous = hash(previous)
             /\ b.balance = previous.balance
             /\ b.representative = previous.representative
  <1>1. hash_block(as_bytes(previous)) = hash(previous)
    BY DEF hash
  <1> QED
    BY <1>1, AsBytes DEF follows_rules, follows_epoch_rules, GoodBlock

\* Two blocks of one hash have one balance and one representative's key.
LEMMA HashTells ==
    ASSUME NEW b, GoodBlock(b), NEW previous, GoodBlock(previous), hash(b) = hash(previous)
    PROVE  /\ b.balance = previous.balance
           /\ b.representative.compressed = previous.representative.compressed
  BY HashOfBlock DEF GoodBlock

LEMMA SameBytes ==
    ASSUME NEW b, GoodBlock(b), NEW previous, GoodBlock(previous),
           as_bytes(b) = as_bytes(previous)
    PROVE  hash(b) = hash(previous)
  BY DEF hash

\* An epoch block after the block that was kept, or after what is read back of it,
\* moves nothing (block.rs:99).
THEOREM EpochBlocksMoveNothing == Spec => []EpochRules
  <1>1. TypeInv => EpochRules
    <2> SUFFICES ASSUME TypeInv, block # None, kept # None,
                        block.block_type = "epoch", block.previous = hash(kept.of),
                        NEW previous \in {kept.of} \cup ReadBack
                 PROVE  LET changes == \/ block.balance # kept.of.balance
                                       \/ block.representative.compressed
                                             # kept.of.representative.compressed
                            texts   == block.representative.account
                                             = previous.representative.account
                        IN  /\ follows_rules(block, previous) => ~changes
                            /\ ~changes /\ texts /\ as_bytes(previous) = as_bytes(kept.of)
                               => follows_rules(block, previous)
      BY DEF EpochRules
    <2>1. GoodBlock(block) /\ GoodBlock(kept.of)
      BY DEF TypeInv, BlocksAreGood
    <2>2. GoodBlock(previous)
      <3>1. kept.data = write(kept.of, kept.form) /\ kept.form \in {"json", "serde"}
        BY DEF TypeInv, BlocksAreBlocks, BlocksAreGood
      <3>2. ASSUME previous \in ReadBack
            PROVE  GoodBlock(previous)
        <4>1. /\ read(kept.data, kept.form).ok
              /\ previous = read(kept.data, kept.form).value
          BY <3>2 DEF ReadBack
        <4> QED BY <2>1, <3>1, <4>1, ReadOfGood
      <3> QED BY <2>1, <3>2
    <2>3. ASSUME follows_rules(block, previous)
          PROVE  /\ block.balance = kept.of.balance
                 /\ block.representative.compressed = kept.of.representative.compressed
      <3>1. /\ block.balance = previous.balance
            /\ block.representative = previous.representative
            /\ hash(previous) = hash(kept.of)
        BY <2>1, <2>2, <2>3, RulesFollowed
      <3> QED BY <2>1, <2>2, <3>1, HashTells
    <2>4. ASSUME block.balance = kept.of.balance,
                 block.representative.compressed = kept.of.representative.compressed,
                 block.representative.account = previous.representative.account,
                 as_bytes(previous) = as_bytes(kept.of)
          PROVE  follows_rules(block, previous)
      <3>1. hash(previous) = hash(kept.of)
        BY <2>1, <2>2, <2>4, SameBytes
      <3>2. /\ previous.balance = kept.of.balance
            /\ previous.representative.compressed = kept.of.representative.compressed
        BY <2>1, <2>2, <3>1, HashTells
      <3>3. block.representative = previous.representative
        BY <2>1, <2>2, <2>4, <3>2, SameAccount DEF GoodBlock
      <3> QED BY <2>1, <2>2, <2>4, <3>1, <3>2, <3>3, RulesFollowed
    <2> QED
      BY <2>3, <2>4
  <1> QED
    BY <1>1, TypeInvariant, PTL

\* What a key signs is not what needs no key.
LEMMA NeverKeyless ==
    ASSUME NEW message, NEW signer, NEW R, NEW rest
    PROVE  sign_message(message, signer) # keyless(R, rest)
  <1>1. "signer" \in DOMAIN sign_message(message, signer)
    BY DEF sign_message
  <1>2. "signer" \notin DOMAIN keyless(R, rest)
    BY DEF keyless
  <1> QED BY <1>1, <1>2

\* Whatever is changed, kept, read back or put on another block, a signature
\* is valid only for what it was made for; and none at all, only for an account of
\* small order (block.rs:88, nanopy.rs:144).
THEOREM SignedIsApproved == Spec => []ValidMeansApproved
  <1>1. WalletInv /\ TypeInv => ValidMeansApproved
    <2> SUFFICES ASSUME WalletInv, TypeInv, block # None, block.block_type # "epoch",
                        has_valid_signature(as_bytes(block)),
                        ~(/\ block.signature = DefaultSignature
                          /\ block.account.point \in SmallOrder)
                 PROVE  \E s \in signed : /\ s.signature = block.signature
                                          /\ s.contents = Covered(block)
      BY DEF ValidMeansApproved
    <2>1. IsBlock(block)
      BY DEF WalletInv, BlocksAreBlocks
    <2>2. block.signature = sign_message(hash(block), block.account.compressed)
      <3>1. is_valid_signature(hash(block), block.signature, block.account.compressed)
        BY <2>1, AsBytes DEF has_valid_signature, Signer, hash
      <3>2. ~IsKeyless(hash(block), block.signature, block.account.compressed)
        <4> SUFFICES ASSUME IsKeyless(hash(block), block.signature,
                                      block.account.compressed)
                     PROVE  FALSE
          OBVIOUS
        <4>1. block.account.point \in SmallOrder
          <5>1. decompress(block.account.compressed) \in SmallOrder
            BY KeylessAssumption DEF IsKeyless
          <5> QED BY <5>1 DEF TypeInv, BlocksAreGood, GoodBlock, Good, IsAccount
        <4>2. PICK s \in signed : s.signature = block.signature
          BY <4>1 DEF WalletInv, SignaturesWereMade, Made
        <4>3. PICK message, signer : s.signature = sign_message(message, signer)
          BY DEF WalletInv, SignaturesWereMade
        <4>4. PICK R, rest : block.signature = keyless(R, rest)
          BY DEF IsKeyless
        <4> QED BY <4>2, <4>3, <4>4, NeverKeyless
      <3> QED BY <3>1, <3>2 DEF is_valid_signature
    <2>3. block.signature # DefaultSignature
      BY <2>2, NeverKeyless DEF DefaultSignature
    <2>4. PICK s \in signed : s.signature = block.signature
      BY <2>3 DEF WalletInv, SignaturesWereMade, Made
    <2>5. PICK b, signer : /\ IsBlock(b)
                           /\ s.contents = Covered(b)
                           /\ s.signature = sign_message(hash(b), signer)
      BY DEF WalletInv, SignaturesWereMade
    <2>6. hash(b) = hash(block)
      BY <2>2, <2>4, <2>5 DEF sign_message
    <2>7. Covered(b) = Covered(block)
      BY <2>1, <2>5, <2>6, HashOfBlock DEF Covered
    <2> QED
      BY <2>4, <2>5, <2>7
  <1> QED
    BY <1>1, WalletInvariant, TypeInvariant, PTL

\* Work is not lost by a change of what work_hash does not look at (block.rs:111).
THEOREM WorkIsNotLost == Spec => []WorkSurvivesEdits
  <1>1. WalletInv => WorkSurvivesEdits
    <2> SUFFICES ASSUME WalletInv, block # None, worked # None,
                        block.previous = worked.previous,
                        block.previous = ZeroHash =>
                            block.account.compressed = worked.account
                 PROVE  has_valid_work(as_bytes(block), Difficulty)
      BY DEF WorkSurvivesEdits
    <2>1. IsBlock(block) /\ Enough(worked, block)
      BY DEF WalletInv, BlocksAreBlocks, WorkIsEnough
    <2> QED
      BY <2>1, AsBytes DEF Enough, has_valid_work, work_hash
  <1> QED
    BY <1>1, WalletInvariant, PTL

\* A key that comes back from its file signs for the account it was made for; one
\* that was clamped again signs for it only if that made no difference (account.rs:60).
THEOREM KeptKeySigns == Spec => []OwnerCanSign
  <1>1. WalletInv /\ TypeInv => OwnerCanSign
    <2> DEFINE b == [block EXCEPT !.signature = get_signature(block, key.scalar)]
    <2> SUFFICES ASSUME WalletInv, TypeInv, HasKey,
                        block # None, block.block_type # "epoch",
                        block.account.compressed = compress[file]
                 PROVE  /\ key.how # "secret" => has_valid_signature(as_bytes(b))
                        /\ has_valid_signature(as_bytes(b)) => key.scalar = file
      BY DEF OwnerCanSign
    <2>1. IsBlock(block)
      BY DEF WalletInv, BlocksAreBlocks
    <2>2. /\ IsBlock(b)
          /\ b.block_type = block.block_type
          /\ b.account = block.account
          /\ b.signature = get_signature(block, key.scalar)
      BY <2>1 DEF IsBlock
    <2>3. hash(b) = hash(block)
      <3>1. /\ b.previous = block.previous
            /\ b.representative = block.representative
            /\ b.balance = block.balance
            /\ b.link = block.link
        BY <2>1 DEF IsBlock
      <3> HIDE DEF b
      <3> QED
        BY <2>1, <2>2, <3>1, HashOfBlock
    <2>4. get_signature(block, key.scalar) = sign_message(hash(block), compress[key.scalar])
      BY DEF get_signature, to_account, account_from_point
    <2> HIDE DEF b
    <2>5. has_valid_signature(as_bytes(b))
             <=> is_valid_signature(hash(block), b.signature, compress[file])
      BY <2>2, <2>3, AsBytes DEF has_valid_signature, Signer, hash
    <2>6. ~IsKeyless(hash(block), b.signature, compress[file])
      BY <2>2, <2>4, NeverKeyless DEF IsKeyless
    <2>7. has_valid_signature(as_bytes(b)) <=> compress[key.scalar] = compress[file]
      BY <2>2, <2>4, <2>5, <2>6 DEF is_valid_signature, sign_message
    <2>8. ASSUME compress[key.scalar] = compress[file]
          PROVE  key.scalar = file
      <3>1. key.scalar \in 0..(Order - 1)
        BY DEF TypeInv, KeysAreScalars, HasKey, Option
      <3>2. file \in 0..(Order - 1)
        BY DEF TypeInv, KeysAreScalars, Option, WalletInv, KeyIsKept, HasKey
      <3>3. {key.scalar, file} \subseteq Point
        BY <3>1, <3>2, CurveAssumption
      <3> QED BY <2>8, <3>3, CurveAssumption
    <2>9. key.how # "secret" => key.scalar = file
      BY DEF WalletInv, KeyIsKept, HasKey
    <2> QED BY <2>7, <2>8, <2>9
  <1> QED
    BY <1>1, WalletInvariant, TypeInvariant, PTL

-----------------------------------------------------------------------------
(***************************************************************************)
(* What is typed.                                                          *)
(***************************************************************************)
LEMMA NanoPanics ==
    ASSUME NEW text \in NanoText, account_from_str(text) = Panic
    PROVE  SplitsAt(text, Len(NanoPrefix)) /\ Wide \in ToSet(text)
  <1>1. account_decode(text) = Panic
    BY DEF account_from_str, account_from, Panic, Ok, Err
  <1>2. IsText(text)
    BY WalletAssumption DEF IsText
  <1> QED BY <1>1, <1>2, DecodePanics

\* A block in JSON with the accounts of points panics only for its signature.
LEMMA ReadPanics ==
    ASSUME NEW b, GoodBlock(b), NEW form \in {"json", "serde"},
           read(write(b, form), form) = Panic
    PROVE  form = "json" /\ b.signature = DefaultSignature
  <1> DEFINE data == write(b, form)
  <1>1. form = "json"
    BY DEF read, Panic, Ok, Err
  <1>2. /\ data.account = b.account.account
        /\ data.representative = b.representative.account
        /\ data.signature = b.signature
    BY <1>1 DEF GoodBlock, IsBlock, write
  <1>3. /\ account_from_str(data.account) = Ok(b.account)
        /\ account_from_str(data.representative) = Ok(b.representative)
    BY <1>2, ReadOfText DEF GoodBlock
  <1> HIDE DEF data
  <1>4. data.signature = DefaultSignature
    BY <1>1, <1>3 DEF read, Panic, Ok, Err, data
  <1> QED BY <1>1, <1>2, <1>4

LEMMA PanicsStayKnown ==
    ASSUME TypeInv, PanicsAreKnown, [Next]_vars
    PROVE  PanicsAreKnown'
  <1>1. ASSUME NEW text \in NanoText, TypeNano(text)
        PROVE  PanicsAreKnown'
    <2>1. /\ block' = None /\ typed'.as = "nano" /\ typed'.text = text
          /\ panic' => account_from_str(text) = Panic
      BY <1>1 DEF TypeNano, MayType
    <2> QED BY <2>1, NanoPanics DEF PanicsAreKnown, NothingTyped
  <1>2. ASSUME NEW text \in CamoText, TypeCamo(text)
        PROVE  PanicsAreKnown'
    <2>1. /\ block' = None /\ typed'.as = "camo" /\ typed'.text = text
          /\ panic' => camo_from_str(text) = Panic
      BY <1>2 DEF TypeCamo, MayType
    <2>2. IsText(text)
      BY WalletAssumption DEF IsText
    <2> QED BY <2>1, <2>2, CamoPanics DEF PanicsAreKnown, NothingTyped
  <1>3. CASE Load
    <2>1. /\ kept # None /\ UNCHANGED kept
          /\ panic' => read(kept.data, kept.form) = Panic
      BY <1>3 DEF Load
    <2>2. /\ kept.data = write(kept.of, kept.form)
          /\ GoodBlock(kept.of) /\ kept.form \in {"json", "serde"}
      BY <2>1 DEF TypeInv, BlocksAreBlocks, BlocksAreGood
    <2> QED BY <2>1, <2>2, ReadPanics DEF PanicsAreKnown
  <1>4. ASSUME ~panic' PROVE PanicsAreKnown'
    BY <1>4 DEF PanicsAreKnown
  <1>5. ASSUME UNCHANGED <<typed, block, kept, panic>>
        PROVE  PanicsAreKnown'
    BY <1>5 DEF PanicsAreKnown
  <1>6. ASSUME HasKey, UNCHANGED panic
        PROVE  ~panic'
    BY <1>6 DEF HasKey
  <1> QED
    BY <1>1, <1>2, <1>3, <1>4, <1>5, <1>6
    DEF Next, vars, MakeKey, Restart, LoadKey, LoadKeyAsSecret, NewBlock, Edit,
        Sign, SetSignature, LocalWork, Keep

\* No text and no block that was kept panics, but for those that are known to
\* (nanopy.rs:33, camo/mod.rs:267, 270, util.rs:85).
THEOREM PanicsAlwaysKnown == Spec => []PanicsAreKnown
  <1>1. Init => PanicsAreKnown
    BY DEF Init, PanicsAreKnown
  <1>2. TypeInv /\ PanicsAreKnown /\ [Next]_vars => PanicsAreKnown'
    BY PanicsStayKnown
  <1> QED
    BY <1>1, <1>2, TypeInvariant, PTL DEF Spec

LEMMA NanoTextIsPrinted ==
    ASSUME NEW text \in NanoText, account_from_str(text).ok
    PROVE  [text EXCEPT ![Len(NanoPrefix) + 1] = @ % 2^FirstCharBits]
             = link_as_account([link |-> account_from_str(text).value.compressed]).value.account
  <1> DEFINE bytes == account_decode(text).value
  <1>1. account_decode(text).ok /\ decompress(bytes) # None
        /\ account_from_str(text).value.compressed = bytes
    BY DEF account_from_str, account_from, Ok, Err
  <1>2. IsText(text)
    BY WalletAssumption DEF IsText
  <1> HIDE DEF bytes
  <1>3. link_as_account([link |-> bytes]).value.account = account_encode(bytes)
    BY <1>1 DEF link_as_account, account_from_bytes, account_from, Ok
  <1>4. Accepted(text, bytes)
    BY <1>1, DecodeAccepts DEF bytes
  <1> QED BY <1>1, <1>2, <1>3, <1>4, PrintedOfAccepted

\* Whoever mistypes an address is told so: a text that is accepted is the one
\* that is printed for what was read of it (nanopy.rs:43, addressv1.rs:71).
THEOREM TextsMeanOneAccount == Spec => []TextMeansOneAccount
  <1>1. Init => TextMeansOneAccount
    BY DEF Init, TextMeansOneAccount
  <1>2. TextMeansOneAccount /\ [Next]_vars => TextMeansOneAccount'
    <2> SUFFICES ASSUME TextMeansOneAccount, [Next]_vars
                 PROVE  TextMeansOneAccount'
      OBVIOUS
    <2>1. ASSUME NEW text \in NanoText, TypeNano(text)
          PROVE  TextMeansOneAccount'
      BY <2>1, NanoTextIsPrinted DEF TypeNano, TextMeansOneAccount
    <2>2. ASSUME NEW text \in CamoText, TypeCamo(text)
          PROVE  TextMeansOneAccount'
      <3>1. IsText(text)
        BY WalletAssumption DEF IsText
      <3>2. camo_from_str(text).ok =>
                LET of == camo_from_str(text).value
                IN  text = camo_encode(of.bits, of.spend, of.view)
        BY <3>1, CamoAccepts, PrintedOfCamo
      <3> QED BY <2>2, <3>2 DEF TypeCamo, TextMeansOneAccount
    <2>3. CASE typed' = NothingTyped
      BY <2>3 DEF TextMeansOneAccount
    <2>4. CASE UNCHANGED typed
      BY <2>4 DEF TextMeansOneAccount
    <2> QED
      BY <2>1, <2>2, <2>3, <2>4
      DEF Next, vars, MakeKey, Restart, LoadKey, LoadKeyAsSecret, NewBlock, Edit,
          Sign, SetSignature, LocalWork, Keep, Load
  <1> QED
    BY <1>1, <1>2, PTL DEF Spec
=============================================================================
