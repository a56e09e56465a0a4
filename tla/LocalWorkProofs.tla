-------------------------- MODULE LocalWorkProofs ---------------------------
(***************************************************************************)
(* Theorems about LocalWork, for every width of bytes, nonce and hash and  *)
(* every hash function.                                                    *)
(***************************************************************************)
EXTENDS LocalWork, TLAPS

\* The widths, as the steps below use them.
LEMMA Widths ==
    /\ Base \in Nat /\ Base >= 2
    /\ NonceBytes \in Nat /\ NonceBytes >= 1 /\ HashBytes \in Nat
    /\ Width \in Nat /\ Width = NonceBytes + HashBytes /\ Width >= NonceBytes
BY WidthAssumption DEF Width

LEMMA BufferTyped ==
    ASSUME NEW nonce \in Nonce, NEW h \in Hash
    PROVE  Buffer(nonce, h) \in Data
<1> SUFFICES ASSUME NEW j \in 1..Width
             PROVE  (IF j <= NonceBytes THEN nonce[j] ELSE h[j - NonceBytes]) \in Byte
  BY DEF Buffer, Data
<1>1. CASE j <= NonceBytes
  BY <1>1, Widths DEF Nonce
<1>2. CASE ~(j <= NonceBytes)
  <2>1. j - NonceBytes \in 1..HashBytes
    BY <1>2, Widths
  <2> QED BY <1>2, <2>1 DEF Hash
<1> QED BY <1>1, <1>2

LEMMA WorkTyped ==
    ASSUME NEW d \in Data
    PROVE  work_of(d) \in Nonce
<1> SUFFICES ASSUME NEW j \in 1..NonceBytes
             PROVE  d[NonceBytes + 1 - j] \in Byte
  BY DEF work_of, Nonce
<1>1. NonceBytes + 1 - j \in 1..Width
  BY Widths
<1> QED BY <1>1 DEF Data

\* The variables keep their types (the code: bytes that wrap, an index that
\* stops at the buffer's end).
THEOREM TypeCorrect == Spec => []TypeOK
<1>1. Init => TypeOK
  <2> SUFFICES ASSUME Init PROVE TypeOK
    OBVIOUS
  <2>1. [j \in 1..NonceBytes |-> 0] \in Nonce
    BY Widths DEF Nonce, Byte
  <2>2. data \in Data
    BY <2>1, BufferTyped DEF Init
  <2>3. work \in Nonce
    BY <2>2, WorkTyped DEF Init
  <2> QED BY <2>2, <2>3, Widths DEF Init, TypeOK
<1>2. TypeOK /\ [Next]_vars => TypeOK'
  <2> SUFFICES ASSUME TypeOK, [Next]_vars PROVE TypeOK'
    OBVIOUS
  <2>1. CASE Found
    BY <2>1, WorkTyped DEF Found, TypeOK
  <2>2. CASE NotFound
    BY <2>2, Widths DEF NotFound, TypeOK
  <2>3. CASE CountUp
    <3>1. i \in 1..Width
      BY <2>3, Widths DEF CountUp, TypeOK
    <3>2. data[i] \in Nat /\ (data[i] + 1) % Base \in Byte
      BY <3>1, Widths DEF TypeOK, Data, Byte
    <3>3. data' \in Data
      BY <2>3, <3>2 DEF CountUp, TypeOK, Data
    <3>4. i' \in 1..(Width + 1) /\ pc' \in {"try", "carry"}
      BY <2>3, <3>1, Widths DEF CountUp
    <3> QED BY <2>3, <3>3, <3>4 DEF CountUp, TypeOK
  <2>4. CASE Overrun
    BY <2>4 DEF Overrun, TypeOK
  <2>5. CASE UNCHANGED vars
    BY <2>5 DEF vars, TypeOK
  <2> QED BY <2>1, <2>2, <2>3, <2>4, <2>5 DEF Next
<1> QED BY <1>1, <1>2, PTL DEF Spec

-----------------------------------------------------------------------------
\* A buffer is the nonce it begins with, in front of the hash it ends with.
LEMMA BufferOf ==
    ASSUME NEW d \in Data, NEW nonce \in Nonce, NEW h \in Hash,
           \A j \in 1..NonceBytes : nonce[j] = d[j],
           \A j \in 1..HashBytes : d[NonceBytes + j] = h[j]
    PROVE  Buffer(nonce, h) = d
<1>1. ASSUME NEW j \in 1..Width
      PROVE  (IF j <= NonceBytes THEN nonce[j] ELSE h[j - NonceBytes]) = d[j]
  <2>1. CASE j <= NonceBytes
    BY <2>1, Widths
  <2>2. CASE ~(j <= NonceBytes)
    <3>1. /\ j - NonceBytes \in 1..HashBytes
          /\ NonceBytes + (j - NonceBytes) = j
      BY <2>2, Widths
    <3> QED BY <2>2, <3>1
  <2> QED BY <2>1, <2>2
<1>2. d = [j \in 1..Width |-> d[j]]
  BY DEF Data
<1> QED BY <1>1, <1>2 DEF Buffer

\* Work cut from the buffer passes check_work if the buffer is good.
LEMMA WorkChecks ==
    ASSUME TypeOK, data \in good, work = work_of(data),
           \A j \in 1..HashBytes : data[NonceBytes + j] = hash[j]
    PROVE  check_work(hash, work)
<1> DEFINE nonce == [j \in 1..NonceBytes |-> work[NonceBytes + 1 - j]]
<1>1. \A j \in 1..NonceBytes : nonce[j] = data[j]
  <2> SUFFICES ASSUME NEW j \in 1..NonceBytes
               PROVE  work[NonceBytes + 1 - j] = data[j]
    OBVIOUS
  <2>1. /\ NonceBytes + 1 - j \in 1..NonceBytes
        /\ NonceBytes + 1 - (NonceBytes + 1 - j) = j
    BY Widths
  <2> QED BY <2>1 DEF work_of
<1>2. nonce \in Nonce
  <2>1. \A j \in 1..NonceBytes : data[j] \in Byte
    BY Widths DEF TypeOK, Data
  <2> HIDE DEF nonce
  <2>2. nonce = [j \in 1..NonceBytes |-> nonce[j]]
    BY DEF nonce
  <2> QED BY <1>1, <2>1, <2>2 DEF Nonce
<1>3. Buffer(nonce, hash) = data
  BY <1>1, <1>2, BufferOf DEF TypeOK
<1> QED BY <1>3 DEF check_work

\* A nonce below a buffer with zeros before k, and k not zero, is below the
\* buffer as it was before it was counted up at k, or is the same from k on.
LEMMA CountUpTries ==
    ASSUME TypeOK, CountUp, i \in 1..NonceBytes,
           \A j \in 1..(i - 1) : data[j] = 0,
           NEW nonce \in Nonce, Tried(nonce)'
    PROVE  Tried(nonce)
<1>1. /\ pc = "carry" /\ data[i] \in 0..(Base - 1)
      /\ i \in 1..Width
      /\ \A j \in 1..Width : data'[j] = IF j = i THEN (data[i] + 1) % Base ELSE data[j]
  BY Widths DEF CountUp, TypeOK, Data, Byte
<1>2. nonce[i] \in 0..(Base - 1)
  BY DEF Nonce, Byte
<1>3. CASE data'[i] # 0
  <2>1. pc' = "try" /\ data'[i] = data[i] + 1
    BY <1>1, <1>3, Widths DEF CountUp
  <2>2. PICK m \in 1..NonceBytes :
          nonce[m] < data'[m] /\ \A j \in (m + 1)..NonceBytes : nonce[j] = data'[j]
    BY <2>1 DEF Tried, BelowFrom, EqualFrom
  <2>3. CASE m < i
    <3>1. data'[m] = 0 /\ nonce[m] \in Nat
      BY <2>3, <1>1, Widths DEF Nonce, Byte
    <3> QED BY <3>1, <2>2
  <2>4. CASE m = i
    <3>1. \A j \in (i + 1)..NonceBytes : nonce[j] = data[j]
      BY <2>2, <2>4, <1>1, Widths
    <3>2. nonce[i] = data[i] \/ nonce[i] < data[i]
      BY <2>2, <2>4, <2>1, <1>1, <1>2, Widths
    <3>3. CASE nonce[i] = data[i]
      <4>1. EqualFrom(i, nonce, data)
        BY <3>1, <3>3 DEF EqualFrom
      <4> QED BY <4>1, <1>1 DEF Tried
    <3>4. CASE nonce[i] < data[i]
      <4>1. BelowFrom(i, nonce, data)
        BY <3>1, <3>4 DEF BelowFrom, EqualFrom
      <4> QED BY <4>1, <1>1 DEF Tried
    <3> QED BY <3>2, <3>3, <3>4
  <2>5. CASE m > i
    <3>1. /\ m \in i..NonceBytes /\ nonce[m] < data[m]
          /\ \A j \in (m + 1)..NonceBytes : nonce[j] = data[j]
      BY <2>2, <2>5, <1>1, Widths
    <3>2. BelowFrom(i, nonce, data)
      BY <3>1 DEF BelowFrom, EqualFrom
    <3> QED BY <3>2, <1>1 DEF Tried
  <2> QED BY <2>3, <2>4, <2>5
<1>4. CASE data'[i] = 0
  <2>1. pc' = "carry" /\ i' = i + 1
    BY <1>1, <1>4 DEF CountUp
  <2>2. data[i] = Base - 1
    BY <1>1, <1>4, Widths
  <2>3. CASE EqualFrom(i + 1, nonce, data')
    <3>1. \A j \in (i + 1)..NonceBytes : nonce[j] = data[j]
      BY <2>3, <1>1, Widths DEF EqualFrom
    <3>2. CASE nonce[i] = data[i]
      <4>1. EqualFrom(i, nonce, data)
        BY <3>1, <3>2 DEF EqualFrom
      <4> QED BY <4>1, <1>1 DEF Tried
    <3>3. CASE nonce[i] < data[i]
      <4>1. BelowFrom(i, nonce, data)
        BY <3>1, <3>3 DEF BelowFrom, EqualFrom
      <4> QED BY <4>1, <1>1 DEF Tried
    <3> QED BY <3>2, <3>3, <1>2, <2>2, Widths
  <2>4. CASE BelowFrom(i + 1, nonce, data')
    <3>1. PICK m \in (i + 1)..NonceBytes :
            nonce[m] < data'[m] /\ \A j \in (m + 1)..NonceBytes : nonce[j] = data'[j]
      BY <2>4 DEF BelowFrom, EqualFrom
    <3>2. /\ m \in i..NonceBytes /\ nonce[m] < data[m]
          /\ \A j \in (m + 1)..NonceBytes : nonce[j] = data[j]
      BY <3>1, <1>1, Widths
    <3>3. BelowFrom(i, nonce, data)
      BY <3>2 DEF BelowFrom, EqualFrom
    <3> QED BY <3>3, <1>1 DEF Tried
  <2> QED BY <2>1, <2>3, <2>4 DEF Tried
<1> QED BY <1>3, <1>4

-----------------------------------------------------------------------------
\* SearchInv holds: no nonce is passed over and the carry stays inside the
\* nonce as long as there is work to be found (both loops of get_local_work).
THEOREM SearchIsExhaustive == Spec => []SearchInv
<1>1. Init => SearchInv
  <2> SUFFICES ASSUME Init PROVE SearchInv
    OBVIOUS
  <2> DEFINE zero == [j \in 1..NonceBytes |-> 0]
  <2>1. \A j \in 1..NonceBytes : data[j] = 0
    BY Widths DEF Init, Buffer
  <2>2. ASSUME NEW nonce \in Nonce PROVE ~Tried(nonce)
    <3>1. \A j \in 1..NonceBytes : nonce[j] \in Nat
      BY DEF Nonce, Byte
    <3>2. ~BelowFrom(1, nonce, data)
      BY <2>1, <3>1 DEF BelowFrom
    <3> QED BY <3>2 DEF Init, Tried
  <2>3. \A j \in 1..HashBytes : data[NonceBytes + j] = hash[j]
    <3> SUFFICES ASSUME NEW j \in 1..HashBytes
                 PROVE  data[NonceBytes + j] = hash[j]
      OBVIOUS
    <3>1. /\ NonceBytes + j \in 1..Width /\ ~(NonceBytes + j <= NonceBytes)
          /\ (NonceBytes + j) - NonceBytes = j
      BY Widths
    <3> QED BY <3>1 DEF Init, Buffer
  <2> QED BY <2>2, <2>3 DEF Init, SearchInv
<1>2. TypeOK /\ SearchInv /\ [Next]_vars => SearchInv'
  <2> SUFFICES ASSUME TypeOK, SearchInv, [Next]_vars, SomeWorkExists'
               PROVE  SearchInv'
    BY DEF SearchInv
  <2>1. SomeWorkExists /\ good' = good /\ hash' = hash
    BY DEF Next, Found, NotFound, CountUp, Overrun, vars, SomeWorkExists
  <2>2. /\ \A nonce \in Nonce : Tried(nonce) => Buffer(nonce, hash) \notin good
        /\ \A j \in 1..HashBytes : data[NonceBytes + j] = hash[j]
        /\ pc = "carry" => i <= NonceBytes /\ \A j \in 1..(i - 1) : data[j] = 0
        /\ pc = "returned" => data \in good /\ work = work_of(data)
        /\ pc # "panicked"
    BY <2>1 DEF SearchInv
  <2>3. CASE Found
    <3>1. pc' = "returned" /\ UNCHANGED <<data, i>> /\ data \in good /\ work' = work_of(data)
      BY <2>3 DEF Found
    <3>2. \A nonce : ~Tried(nonce)'
      BY <3>1 DEF Tried
    <3> QED BY <2>1, <2>2, <3>1, <3>2 DEF SearchInv
  <2>4. CASE NotFound
    <3>1. pc = "try" /\ pc' = "carry" /\ i' = 1 /\ data' = data /\ data \notin good
      BY <2>4 DEF NotFound
    <3>2. ASSUME NEW nonce \in Nonce, Tried(nonce)'
          PROVE  Buffer(nonce, hash) \notin good
      <4>1. EqualFrom(1, nonce, data) \/ BelowFrom(1, nonce, data)
        BY <3>1, <3>2 DEF Tried
      <4>2. CASE EqualFrom(1, nonce, data)
        <5>1. Buffer(nonce, hash) = data
          BY <4>2, <2>2, BufferOf DEF EqualFrom, TypeOK
        <5> QED BY <5>1, <3>1
      <4>3. CASE BelowFrom(1, nonce, data)
        BY <4>3, <3>1, <2>2 DEF Tried
      <4> QED BY <4>1, <4>2, <4>3
    <3>3. i' <= NonceBytes /\ \A j \in 1..(i' - 1) : data'[j] = 0
      BY <3>1, Widths
    <3> QED BY <2>1, <2>2, <3>1, <3>2, <3>3 DEF SearchInv
  <2>5. CASE CountUp
    <3>1. /\ pc = "carry" /\ i \in 1..NonceBytes /\ i \in 1..Width
          /\ \A j \in 1..(i - 1) : data[j] = 0
          /\ \A j \in 1..Width : data'[j] = IF j = i THEN (data[i] + 1) % Base ELSE data[j]
          /\ pc' \in {"try", "carry"}
      BY <2>5, <2>2, Widths DEF CountUp, TypeOK, Data
    <3>2. \A nonce \in Nonce : Tried(nonce)' => Buffer(nonce, hash) \notin good
      BY <2>2, <2>5, <3>1, CountUpTries
    <3>3. ASSUME NEW j \in 1..HashBytes PROVE data'[NonceBytes + j] = hash[j]
      <4>1. NonceBytes + j \in 1..Width /\ NonceBytes + j # i
        BY <3>1, Widths
      <4> QED BY <4>1, <3>1, <2>2
    <3>4. ASSUME pc' = "carry"
          PROVE  i' <= NonceBytes /\ \A j \in 1..(i' - 1) : data'[j] = 0
      <4>1. i' = i + 1 /\ data'[i] = 0
        BY <2>5, <3>1, <3>4 DEF CountUp
      <4>2. \A j \in 1..(i' - 1) : data'[j] = 0
        BY <4>1, <3>1, Widths
      <4>3. CASE i' = NonceBytes + 1
        <5>1. ASSUME NEW nonce \in Nonce PROVE Tried(nonce)'
          BY <3>4, <4>3, Widths DEF Tried, EqualFrom
        <5> QED BY <5>1, <3>2, <2>1 DEF SomeWorkExists
      <4> QED BY <4>1, <4>2, <4>3, <3>1, Widths
    <3> QED BY <2>1, <3>1, <3>2, <3>3, <3>4 DEF SearchInv
  <2>6. CASE Overrun
    <3>1. i > Width /\ pc = "carry"
      BY <2>6 DEF Overrun
    <3> QED BY <3>1, <2>2, Widths DEF TypeOK
  <2>7. CASE UNCHANGED vars
    BY <2>1, <2>2, <2>7 DEF vars, SearchInv, Tried
  <2> QED BY <2>3, <2>4, <2>5, <2>6, <2>7 DEF Next
<1> QED BY <1>1, <1>2, TypeCorrect, PTL DEF Spec

\* The work get_local_work returns passes check_work, whatever the widths and
\* the hash function, if there is such work at all.
THEOREM LocalWorkAlwaysValid == Spec => []LocalWorkIsValid
<1>1. TypeOK /\ SearchInv => LocalWorkIsValid
  BY WorkChecks DEF SearchInv, LocalWorkIsValid
<1> QED BY <1>1, TypeCorrect, SearchIsExhaustive, PTL
=============================================================================
