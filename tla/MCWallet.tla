------------------------------ MODULE MCWallet ------------------------------
(***************************************************************************)
(* Wallet on a curve of 13 multiples of G, with bytes of three bits and    *)
(* characters of two: a `nano_` address has a first character of one bit   *)
(* of padding and one of the key, as the real one has of four and one.     *)
(***************************************************************************)
EXTENDS Wallet

CONSTANTS n, c, us, K

WalletCompress == [P \in (0..12) \cup {K} |-> IF P = K THEN 63 ELSE (5 * P + 2) % 61]
WalletPoint == (0..12) \cup {K}
WalletSmall == {0, K}
WalletAlias == 61 :> K
\* 0, and K, which has the bytes 63 and 61.
WalletSmallKey == 2 :> 0 @@ 63 :> 1 @@ 61 :> 1
WalletR == {"neutral"}
WalletChallenge(R, account, message) == IF message[2] = ZeroHash THEN 0 ELSE 1
WalletChecksum(bytes) == (bytes * 3 + bytes \div 8 + bytes \div 64 + 1) % 8

\* A nonce is worth more for some hashes than for others.
WalletWork(of, nonce) ==
    IF ToString(of) = ToString(Frontier) THEN nonce
    ELSE IF ToString(of) = ToString(WalletCompress[3]) THEN (nonce + 1) % 3
    ELSE (nonce + 2) % 3

-----------------------------------------------------------------------------
WalletBytes == 0..63
Genesis == WalletCompress[9]
V2Signer == WalletCompress[10]
V2 == {SomeLink}
WalletNonces == 0..2
WalletSeeds == {0}
NPrefix == <<n, us>>
CPrefix == <<c, us>>

\* The point of the only key, scalar_from_secret(0).
Own == account_encode(WalletCompress[3])
Shop == account_encode(WalletCompress[4])

\* Nobody's: the neutral element, and the point of small order, with bytes that it
\* does not compress to.
Neutral == account_encode(WalletCompress[0])
Small == account_encode(61)

Slips(text, places) ==
    {[text EXCEPT ![i] = char] : i \in places, char \in (0..3) \cup {Wide}}

WalletNano ==
    {Shop, Neutral, Small, Tail(Shop), Append(Shop, 0)}
    \cup Slips(Shop, DOMAIN Shop \ {3}) \cup (Slips(Own, {3}) \ {Own})
    \cup {<<n, Wide>> \o SubSeq(Shop, 4, 7), SubSeq(Shop, 1, 1) \o <<Wide>> \o SubSeq(Shop, 3, 7)}

Camo == camo_encode(encode_to_bits({1}), WalletCompress[4], WalletCompress[7])
WalletCamo ==
    {Camo, SubSeq(Camo, 1, 3), <<c, us, 0, Wide>>, Tail(Camo), <<c>>,
     camo_encode(encode_to_bits({2}), WalletCompress[4], WalletCompress[7]),
     camo_encode(encode_to_bits({1, 3}), WalletCompress[4], WalletCompress[7]),
     camo_encode(encode_to_bits({1}), WalletCompress[0], WalletCompress[7])}
    \cup Slips(Camo, DOMAIN Camo)
=============================================================================
