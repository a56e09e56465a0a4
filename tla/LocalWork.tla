----------------------------- MODULE LocalWork ------------------------------
(***************************************************************************)
(* get_local_work (src/src/nanopy.rs): the search for proof of work on the *)
(* local CPU, one iteration of its two loops per step.                     *)
(*                                                                         *)
(* The nonce lies in front of the hash in ONE buffer and is counted up in  *)
(* place, the least significant byte first.  Nothing stops the carry where *)
(* the nonce ends: after the last nonce it runs into the hash.             *)
(*                                                                         *)
(* blake2b is any function: `good` is the set of buffers whose blake2b     *)
(* value, reversed, reaches the difficulty.                                *)
(***************************************************************************)
EXTENDS Naturals

CONSTANTS
    Base,        \* values of a byte (256)
    NonceBytes,  \* bytes of a nonce (8)
    HashBytes,   \* bytes of a hash (32)
    Goods        \* the values `good` may have

ASSUME WidthAssumption ==
    Base \in Nat \ {0, 1} /\ NonceBytes \in Nat \ {0} /\ HashBytes \in Nat

Byte  == 0..(Base - 1)
Width == NonceBytes + HashBytes
Data  == [1..Width -> Byte]
Nonce == [1..NonceBytes -> Byte]
Hash  == [1..HashBytes -> Byte]

ASSUME GoodAssumption == \A good \in Goods : good \subseteq Data

VARIABLES
    good,   \* what reaches the difficulty
    hash,   \* the argument block_hash
    data,   \* the buffer
    i,      \* index of the byte being counted up
    pc,     \* "try", "carry", "returned" or "panicked"
    work    \* the work that is returned, and nothing of interest before that

vars == <<good, hash, data, i, pc, work>>

\* A nonce in front of a hash.
Buffer(nonce, h) ==
    [j \in 1..Width |-> IF j <= NonceBytes THEN nonce[j] ELSE h[j - NonceBytes]]

-----------------------------------------------------------------------------
\* Mutant: the work is returned in the order of the buffer.
work_of_Unreversed(buffer) == [j \in 1..NonceBytes |-> buffer[j]]

\* Work is the nonce with its bytes reversed, as the node writes it ...
work_of(buffer) == [j \in 1..NonceBytes |-> buffer[NonceBytes + 1 - j]]

\* ... and is reversed again to be checked.
check_work(h, w) ==
    Buffer([j \in 1..NonceBytes |-> w[NonceBytes + 1 - j]], h) \in good

-----------------------------------------------------------------------------
Init ==
    /\ good \in Goods
    /\ hash \in Hash
    /\ data = Buffer([j \in 1..NonceBytes |-> 0], hash)
    /\ i = 1
    /\ pc = "try"
    /\ work = work_of(data)

Found ==
    /\ pc = "try"
    /\ data \in good
    /\ work' = work_of(data)
    /\ pc' = "returned"
    /\ UNCHANGED <<good, hash, data, i>>

\* Mutant: the index of the byte is left where the last carry ended.
NotFound_KeepsIndex ==
    /\ pc = "try"
    /\ data \notin good
    /\ pc' = "carry"
    /\ UNCHANGED <<good, hash, data, i, work>>

NotFound ==
    /\ pc = "try"
    /\ data \notin good
    /\ i' = 1
    /\ pc' = "carry"
    /\ UNCHANGED <<good, hash, data, work>>

\* Mutant: a byte that wraps does not carry.
CountUp_NoCarry ==
    /\ pc = "carry" /\ i <= Width
    /\ data' = [data EXCEPT ![i] = (@ + 1) % Base]
    /\ pc' = "try"
    /\ UNCHANGED <<good, hash, i, work>>

\* Mutant: the addition does not wrap.
CountUp_NoWrap ==
    /\ pc = "carry" /\ i <= Width
    /\ data' = [data EXCEPT ![i] = @ + 1]
    /\ IF data'[i] # 0 THEN pc' = "try" /\ UNCHANGED i
                       ELSE pc' = pc /\ i' = i + 1
    /\ UNCHANGED <<good, hash, work>>

\* data[i].wrapping_add(1), and on to the next byte if that gives 0.
CountUp ==
    /\ pc = "carry" /\ i <= Width
    /\ data' = [data EXCEPT ![i] = (@ + 1) % Base]
    /\ IF data'[i] # 0 THEN pc' = "try" /\ UNCHANGED i
                       ELSE pc' = pc /\ i' = i + 1
    /\ UNCHANGED <<good, hash, work>>

\* Every byte wrapped: the index is out of bounds.
Overrun ==
    /\ pc = "carry" /\ i > Width
    /\ pc' = "panicked"
    /\ UNCHANGED <<good, hash, data, i, work>>

Next == Found \/ NotFound \/ CountUp \/ Overrun

Spec == Init /\ [][Next]_vars

\* The loop runs on its own thread and never blocks.
FairSpec == Spec /\ WF_vars(Next)

-----------------------------------------------------------------------------
TypeOK ==
    /\ good \in Goods /\ hash \in Hash /\ data \in Data /\ work \in Nonce
    /\ i \in 1..(Width + 1)
    /\ pc \in {"try", "carry", "returned", "panicked"}

\* block.rs:210-216 (test create_work): the work found for a hash passes
\* check_work for that hash.  It holds as long as there is such work: the
\* search that runs out of nonces goes on with other hashes.
SomeWorkExists == \E nonce \in Nonce : Buffer(nonce, hash) \in good

LocalWorkIsValid ==
    SomeWorkExists /\ pc = "returned" => check_work(hash, work)

\* A search that can succeed returns.
WorkIsFound == SomeWorkExists ~> pc = "returned"

-----------------------------------------------------------------------------
(***************************************************************************)
(* Why: no nonce is skipped.  Nonces are compared from the last byte.      *)
(***************************************************************************)
EqualFrom(k, nonce, d) == \A j \in k..NonceBytes : nonce[j] = d[j]
BelowFrom(k, nonce, d) ==
    \E m \in k..NonceBytes : nonce[m] < d[m] /\ EqualFrom(m + 1, nonce, d)

\* The nonces the search is done with.
Tried(nonce) ==
    \/ pc = "try" /\ BelowFrom(1, nonce, data)
    \/ pc = "carry" /\ (EqualFrom(i, nonce, data) \/ BelowFrom(i, nonce, data))

\* While there is work to be found: every nonce tried failed, the hash in
\* the buffer is the hash asked for, and the carry stays inside the nonce.
SearchInv ==
    SomeWorkExists =>
        /\ \A nonce \in Nonce : Tried(nonce) => Buffer(nonce, hash) \notin good
        /\ \A j \in 1..HashBytes : data[NonceBytes + j] = hash[j]
        /\ pc = "carry" => i <= NonceBytes /\ \A j \in 1..(i - 1) : data[j] = 0
        /\ pc = "returned" => data \in good /\ work = work_of(data)
        /\ pc # "panicked"
=============================================================================
