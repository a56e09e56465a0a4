----------------------------- MODULE Addresses ------------------------------
(***************************************************************************)
(* Scalars, points and the text of `nano_` and `camo_` addresses           *)
(* (base32.rs, nanopy.rs, account.rs, secrets.rs, camo/addressv1.rs).      *)
(*                                                                         *)
(* A string of bytes is the number it is in big-endian, and so base32 is   *)
(* that number in another base.  A text is a sequence of characters: one   *)
(* of the alphabet is its value, the others are model values of one byte,  *)
(* but for Wide, which takes two.                                          *)
(***************************************************************************)
EXTENDS CamoVersions, SequencesExt

CONSTANTS
    ByteBits, CharBits,                 \* 8 and 5
    PadBytes, KeyBytes, ChecksumBytes,  \* 3, 32 and 5
    NanoPrefix, CamoPrefix,             \* "nano_" and "camo_"
    SampleChars,                        \* of a `camo_` address, 8
    Wide,                               \* a character of two bytes
    checksum(_),                        \* blake2b_checksum, reversed
    Order, Cofactor,                    \* of the curve
    Point,                              \* points, a multiple of G as the scalar
    SmallOrder,                         \* those of small order
    compress,                           \* the bytes of each point
    Alias                               \* bytes that decompress to a point too

KeyBits == KeyBytes * ByteBits
ChecksumBits == ChecksumBytes * ByteBits

\* Addresses fill their characters.
ASSUME WidthAssumption ==
    /\ {ByteBits, CharBits, KeyBytes} \subseteq Nat \ {0} /\ KeyBits >= 2
    /\ {PadBytes, ChecksumBytes, SampleChars} \subseteq Nat
    /\ ((PadBytes + KeyBytes + ChecksumBytes) * ByteBits) % CharBits = 0
    /\ ((1 + 2 * KeyBytes + ChecksumBytes) * ByteBits) % CharBits = 0

\* What a power is, as far as there are bits.
AddressBits == (PadBytes + 1 + 2 * KeyBytes + ChecksumBytes) * ByteBits
ASSUME PowerAssumption ==
    2^0 = 1 /\ \A bits \in 0..AddressBits : 2^(bits + 1) = 2 * 2^bits

ASSUME TextAssumption ==
    /\ \A prefix \in {NanoPrefix, CamoPrefix} : prefix \in Seq(ToSet(prefix) \ {Wide})
    /\ Wide \notin 0..(2^CharBits - 1)
    /\ \A bytes \in 0..(2^((1 + 2 * KeyBytes) * ByteBits) - 1) :
          checksum(bytes) \in 0..(2^ChecksumBits - 1)

ASSUME CurveAssumption ==
    /\ Order \in Nat \ {0} /\ 0..(Order - 1) \subseteq Point /\ None \notin Point
    /\ Cofactor \in Nat \ {0}
    /\ compress \in [Point -> 0..(2^KeyBits - 1)]
    /\ \A P, Q \in Point : compress[P] = compress[Q] => P = Q
    /\ Alias \in [DOMAIN Alias -> Point]
    /\ \A P \in Point : compress[P] \notin DOMAIN Alias

Ok(value)  == [ok |-> TRUE,  value |-> value]
Err(error) == [ok |-> FALSE, value |-> error]
Panic == Err("panic")

-----------------------------------------------------------------------------
(***************************************************************************)
(* Scalars.                                                                *)
(***************************************************************************)
\* clamp_integer: a multiple of the cofactor between two powers of two.
clamp_integer(bytes) ==
    2^(KeyBits - 2) + ((bytes % 2^(KeyBits - 2)) \div Cofactor) * Cofactor

from_bytes_mod_order(bytes) == bytes % Order

\* Mutant: clamped, but not reduced.
scalar_from_secret_Unreduced(bytes) == clamp_integer(bytes)

\* Scalar::from 32 bytes, and so blake2b_scalar and Key::from bytes.
scalar_from_secret(bytes) == from_bytes_mod_order(clamp_integer(bytes))

\* Mutant: the bytes are clamped like those of a seed.
from_canonical_bytes_Clamps(bytes) ==
    IF bytes < Order THEN Ok(scalar_from_secret(bytes)) ELSE Err("InvalidCurvePoint")

from_canonical_bytes(bytes) ==
    IF bytes < Order THEN Ok(bytes) ELSE Err("InvalidCurvePoint")

\* The bytes of a point need not be those it compresses to.
decompress(bytes) ==
    IF bytes \in DOMAIN Alias THEN Alias[bytes]
    ELSE IF \E P \in Point : compress[P] = bytes
    THEN CHOOSE P \in Point : compress[P] = bytes
    ELSE None

try_point_from_slice(bytes) ==
    IF decompress(bytes) \in SmallOrder \cup {None} THEN Err("InvalidCurvePoint")
    ELSE Ok(decompress(bytes))

-----------------------------------------------------------------------------
(***************************************************************************)
(* Text.                                                                   *)
(***************************************************************************)
base32_encode(bytes, chars) ==
    [i \in 1..chars |-> (bytes \div 2^(CharBits * (chars - i))) % 2^CharBits]

\* The number, or None if a character is not of the alphabet.
base32_decode(text) ==
    IF ToSet(text) \subseteq 0..(2^CharBits - 1)
    THEN FoldLeft(LAMBDA bits, char : bits * 2^CharBits + char, 0, text)
    ELSE None

byte_length(text) == Len(text) + Cardinality({i \in DOMAIN text : text[i] = Wide})

\* Slicing panics past the end, and inside a character.
SplitsAt(text, bytes) ==
    ~ \E chars \in 0..Len(text) : byte_length(SubSeq(text, 1, chars)) = bytes

Body(text, prefix) == SubSeq(text, Len(prefix) + 1, Len(text))

-----------------------------------------------------------------------------
(***************************************************************************)
(* `nano_` addresses: padding, key and checksum.  The characters that hold *)
(* nothing but padding are left out, and one holds some of it.             *)
(***************************************************************************)
NanoChars == ((PadBytes + KeyBytes + ChecksumBytes) * ByteBits) \div CharBits
PadChars == (PadBytes * ByteBits) \div CharBits
NanoLength == Len(NanoPrefix) + NanoChars - PadChars

\* The bits of the first character that hold the key.
FirstCharBits == CharBits - ((PadBytes * ByteBits) % CharBits)

account_encode(key) ==
    NanoPrefix \o SubSeq(base32_encode(key * 2^ChecksumBits + checksum(key), NanoChars),
                         PadChars + 1, NanoChars)

\* Mutant: the checksum is not compared.
account_decode_NoChecksum(text) ==
    LET data == base32_decode(Body(text, NanoPrefix))
    IN  IF byte_length(text) # NanoLength THEN Err("InvalidAddressLength")
        ELSE IF SplitsAt(text, Len(NanoPrefix)) THEN Panic
        ELSE IF ~IsPrefix(NanoPrefix, text) THEN Err("InvalidAddressPrefix")
        ELSE IF data = None THEN Err("InvalidBase32")
        ELSE Ok((data \div 2^ChecksumBits) % 2^KeyBits)

account_decode(text) ==
    LET data == base32_decode(Body(text, NanoPrefix))
        key  == (data \div 2^ChecksumBits) % 2^KeyBits
    IN  IF byte_length(text) # NanoLength THEN Err("InvalidAddressLength")
        ELSE IF SplitsAt(text, Len(NanoPrefix)) THEN Panic
        ELSE IF ~IsPrefix(NanoPrefix, text) THEN Err("InvalidAddressPrefix")
        ELSE IF data = None THEN Err("InvalidBase32")
        ELSE IF data % 2^ChecksumBits # checksum(key) THEN Err("InvalidAddressChecksum")
        ELSE Ok(key)

(***************************************************************************)
(* Account: three fields, all public, and compared all three.              *)
(***************************************************************************)
account_from(text, bytes) ==
    IF decompress(bytes) = None THEN Err("InvalidCurvePoint")
    ELSE Ok([account |-> text, compressed |-> bytes, point |-> decompress(bytes)])

\* From text: the text is kept.
account_from_str(text) ==
    LET bytes == account_decode(text)
    IN  IF bytes.ok THEN account_from(text, bytes.value) ELSE bytes

account_from_bytes(bytes) == account_from(account_encode(bytes), bytes)

account_from_point(P) ==
    [account |-> account_encode(compress[P]), compressed |-> compress[P], point |-> P]

to_account(key) == account_from_point(key)

\* What is read back has the bytes that the point compresses to.
serde_of_account(a) == a.compressed
account_of_serde(bytes) == account_from_point(decompress(bytes))

-----------------------------------------------------------------------------
(***************************************************************************)
(* `camo_` addresses: versions, two keys and checksum, without padding.    *)
(***************************************************************************)
CamoChars == ((1 + 2 * KeyBytes + ChecksumBytes) * ByteBits) \div CharBits
CamoLength == Len(CamoPrefix) + CamoChars
SampleEnd == Len(CamoPrefix) + SampleChars

camo_encode(bits, spend, view) ==
    LET data == (bits * 2^KeyBits + spend) * 2^KeyBits + view
    IN  CamoPrefix \o base32_encode(data * 2^ChecksumBits + checksum(data), CamoChars)

\* Mutant: the checksum is not compared.
account_from_data_NoChecksum(text, data) ==
    LET bytes == data \div 2^ChecksumBits
        spend == (bytes \div 2^KeyBits) % 2^KeyBits
        view  == bytes % 2^KeyBits
    IN  IF byte_length(text) # CamoLength THEN Err("InvalidAddressLength")
        ELSE IF ~try_point_from_slice(spend).ok THEN try_point_from_slice(spend)
        ELSE IF ~try_point_from_slice(view).ok THEN try_point_from_slice(view)
        ELSE Ok([account |-> text, bits |-> bytes \div 2^(2 * KeyBits),
                 spend |-> spend, view |-> view])

account_from_data(text, data) ==
    LET bytes == data \div 2^ChecksumBits
        spend == (bytes \div 2^KeyBits) % 2^KeyBits
        view  == bytes % 2^KeyBits
    IN  IF byte_length(text) # CamoLength THEN Err("InvalidAddressLength")
        ELSE IF data % 2^ChecksumBits # checksum(bytes) THEN Err("InvalidAddressChecksum")
        ELSE IF ~try_point_from_slice(spend).ok THEN try_point_from_slice(spend)
        ELSE IF ~try_point_from_slice(view).ok THEN try_point_from_slice(view)
        ELSE Ok([account |-> text, bits |-> bytes \div 2^(2 * KeyBits),
                 spend |-> spend, view |-> view])

\* The versions in the first characters decide what the rest is read as.
version_of_sample(text) ==
    base32_decode(SubSeq(text, Len(CamoPrefix) + 1, SampleEnd))
        \div 2^(SampleChars * CharBits - ByteBits)

camo_body(text) ==
    LET data == base32_decode(Body(text, CamoPrefix))
    IN  IF data = None THEN Err("InvalidBase32") ELSE account_from_data(text, data)

\* Mutant: the text is sliced whatever its length.
camo_from_str_NoLengthCheck(text) ==
    IF SplitsAt(text, Len(CamoPrefix)) THEN Panic
    ELSE IF ~IsPrefix(CamoPrefix, text) THEN Err("InvalidAddressPrefix")
    ELSE IF SplitsAt(text, SampleEnd) THEN Panic
    ELSE camo_body(text)

camo_from_str(text) ==
    IF byte_length(text) < SampleEnd THEN Err("InvalidAddressLength")
    ELSE IF SplitsAt(text, Len(CamoPrefix)) THEN Panic
    ELSE IF ~IsPrefix(CamoPrefix, text) THEN Err("InvalidAddressPrefix")
    ELSE IF SplitsAt(text, SampleEnd) THEN Panic
    ELSE IF base32_decode(SubSeq(text, Len(CamoPrefix) + 1, SampleEnd)) = None
    THEN Err("InvalidBase32")
    ELSE IF highest_supported_version(decode_from_bits(version_of_sample(text)))
            \notin {1, 2}
    THEN Err("IncompatibleCamoVersions")
    ELSE camo_body(text)
=============================================================================
