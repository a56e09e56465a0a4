---------------------------- MODULE CamoVersions ----------------------------
(***************************************************************************)
(* The versions of the CAMO protocol that an account signals and those     *)
(* that this software supports (src/src/camo/version.rs): eight flags, as  *)
(* the set of the versions that are on, and the byte that encodes them.    *)
(***************************************************************************)
EXTENDS Naturals, FiniteSetsExt

CONSTANTS
    LastVersion,  \* the highest version a byte has a bit for, 8
    Supported,    \* ALL_SUPPORTED_CAMO_VERSIONS
    None          \* Option::None

\* ALL_POSSIBLE_CAMO_VERSIONS: the values of CamoVersion.
Version == 1..LastVersion

ASSUME VersionAssumption ==
    /\ LastVersion \in Nat
    /\ Supported \subseteq Version
    /\ None \notin Nat

Option(S) == S \cup {None}

-----------------------------------------------------------------------------
empty == {}

\* Mutant: the flag of the version below.
force_enable_version_OffByOne(versions, v) == versions \cup {v - 1}

force_enable_version(versions, v) == versions \cup {v}

enable_version(versions, v) ==
    IF v \in Supported THEN force_enable_version(versions, v) ELSE versions

disable_version(versions, v) == versions \ {v}

supports_version(versions, v) == v \in Supported /\ v \in versions

\* The versions of a set are looked through from the highest down.
highest(versions) == IF versions = {} THEN None ELSE Max(versions)
highest_supported_version(versions) ==
    highest({v \in Version : supports_version(versions, v)})

\* Bit v - 1 of the byte says whether version v is on.
encode_to_bits(versions) == MapThenSumSet(LAMBDA v : 2^(v - 1), versions)
decode_from_bits(bits) == {v \in Version : (bits \div 2^(v - 1)) % 2 = 1}

\* version_bits! and encode_to_bits are inverse, for all 256 bytes.
ASSUME BitsAssumption ==
    /\ \A versions \in SUBSET Version :
          decode_from_bits(encode_to_bits(versions)) = versions
    /\ \A bits \in 0..(2^LastVersion - 1) :
          encode_to_bits(decode_from_bits(bits)) = bits
=============================================================================
