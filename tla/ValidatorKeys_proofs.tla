------------------------ MODULE ValidatorKeys_proofs ------------------------
(* Proofs of the properties of ValidatorKeys, for networks of any size. *)
EXTENDS ValidatorKeys, TLAPS

\* Multiplying by a number of keys keeps the order.
LEMMA TimesMonotone ==
    ASSUME NEW a \in Nat, NEW b \in Nat, NEW c \in Nat, a <= b
    PROVE  a * c <= b * c
OBVIOUS

----------------------------------------------------------------------------
(* Numbers of the width.                                                   *)

\* A number is a multiple of the limit and a remainder, which is of the width.
LEMMA Divided ==
    ASSUME NEW a \in Nat
    PROVE  /\ a % UintLimit \in UInt32
           /\ \E q \in Int : a = q * UintLimit + (a % UintLimit)
<1>1. UintLimit \in Nat \ {0}
  BY KeysAssumption
<1>2. a % UintLimit \in 0..UintLimit - 1 /\ a \div UintLimit \in Int
  BY <1>1
<1>3. a = (a \div UintLimit) * UintLimit + (a % UintLimit)
  BY <1>1, <1>2
<1> QED
  BY <1>2, <1>3 DEF UInt32

\* There is only one such remainder.
LEMMA OneRemainder ==
    ASSUME NEW a \in Nat, NEW q \in Int, NEW r \in UInt32, a = q * UintLimit + r
    PROVE  a % UintLimit = r
BY KeysAssumption DEF UInt32

\* A number of the width is its own remainder.
LEMMA Within == ASSUME NEW a \in UInt32 PROVE a % UintLimit = a
BY KeysAssumption DEF UInt32

\* A sum that wraps around at every step is the sum that wraps around once.
LEMMA WrappedSum ==
    ASSUME NEW a \in Nat, NEW k \in Nat
    PROVE  UintSum(a % UintLimit, k) = (a + k) % UintLimit
<1> DEFINE m == a % UintLimit
           b == m + k
           r == b % UintLimit
<1>0. UintLimit \in Nat \ {0} /\ m \in Nat
  BY KeysAssumption, Divided DEF UInt32
<1> PICK q \in Int : a = q * UintLimit + m
  BY Divided
<1>1. b \in Nat /\ a + k \in Nat
  BY <1>0
<1> PICK q1 \in Int : b = q1 * UintLimit + r
  BY <1>1, Divided
<1>2. r \in UInt32 /\ r \in Int
  BY <1>1, Divided, KeysAssumption DEF UInt32
<1>3. q * UintLimit + q1 * UintLimit = (q + q1) * UintLimit /\ q + q1 \in Int
      /\ q * UintLimit \in Int /\ q1 * UintLimit \in Int
  BY <1>0
<1>4. a + k = q * UintLimit + b
  <2> HIDE DEF m
  <2> QED
    BY <1>0, <1>3
<1> HIDE DEF r
<1>5. a + k = (q + q1) * UintLimit + r
  <2> HIDE DEF b
  <2> QED
    BY <1>1, <1>2, <1>3, <1>4
<1>6. (a + k) % UintLimit = r
  BY <1>1, <1>2, <1>3, <1>5, OneRemainder
<1> QED
  BY <1>6 DEF UintSum, r

\* If the keys of the network fit, no index wraps around.
LEMMA AllKeysFit ==
    ASSUME NEW n \in Nat, NEW k \in Nat, NEW i \in 0..n, n * k < UintLimit
    PROVE  i * k \in Nat /\ i * k <= n * k /\ (i * k) % UintLimit = i * k
<1>1. i \in Nat /\ i <= n /\ i * k \in Nat /\ n * k \in Nat /\ UintLimit \in Nat
  BY KeysAssumption
<1>2. i * k <= n * k
  BY <1>1, TimesMonotone
<1>3. i * k \in UInt32
  BY <1>1, <1>2 DEF UInt32
<1> QED
  BY <1>1, <1>2, <1>3, Within

----------------------------------------------------------------------------
(* The invariant.                                                          *)

\* No range has been cut yet.
LEMMA KeysInit == Init => KeysInv
<1> SUFFICES ASSUME Init PROVE KeysInv
  OBVIOUS
<1>1. /\ Len(ranges) = 0 /\ ranges \in Seq(KeyRange) /\ keys \in UInt32 /\ keys \in Nat
      /\ 0 \in UInt32 /\ 0 * keys = 0 /\ (0 + 1) * keys = keys
  BY KeysAssumption DEF Init, UInt32
<1>2. TypeOK
  BY <1>1, KeysAssumption DEF Init, TypeOK
<1>3. startIndex = (Len(ranges) * keys) % UintLimit
  BY <1>1, Within DEF Init
<1>4. stopIndex = ((Len(ranges) + 1) * keys) % UintLimit
  BY <1>1, Within DEF Init
<1>5. \A key \in UInt32 : ~(key < startIndex)
  BY KeysAssumption DEF Init, UInt32
<1>6. FullUnlessWrapped
  BY <1>1, KeysAssumption DEF FullUnlessWrapped
<1> QED
  BY <1>1, <1>2, <1>3, <1>4, <1>5, <1>6 DEF KeysInv

\* The range that is cut next begins where the last one ended.
LEMMA KeysStep == KeysInv /\ [Next]_vars => KeysInv'
<1> SUFFICES ASSUME KeysInv, [Next]_vars PROVE KeysInv'
  OBVIOUS
<1>1. CASE UNCHANGED vars
  BY <1>1 DEF KeysInv, TypeOK, Holds, KeysFit, Full, FullUnlessWrapped, vars
<1>2. CASE GenerateKeystores
  <2> DEFINE L == Len(ranges)
             new == [min |-> startIndex, max |-> stopIndex]
  <2>0. /\ nodes \in Nat /\ keys \in Nat /\ L \in Nat /\ L < nodes
        /\ slots \in UInt32 /\ nodes \in 1..MaxNodes /\ keys \in UInt32
        /\ startIndex \in UInt32 /\ stopIndex \in UInt32
        /\ ranges \in Seq(KeyRange) /\ new \in KeyRange
        /\ slots' = slots /\ nodes' = nodes /\ keys' = keys
    BY <1>2, KeysAssumption DEF GenerateKeystores, KeysInv, TypeOK, KeyRange, UInt32
  <2>1. /\ ranges' \in Seq(KeyRange) /\ Len(ranges') = L + 1
        /\ \A i \in 1..L : ranges'[i] = ranges[i]
        /\ ranges'[L + 1] = new
    BY <1>2, <2>0 DEF GenerateKeystores
  <2>2. /\ startIndex' = stopIndex /\ stopIndex' = UintSum(stopIndex, keys)
        /\ startIndex = (L * keys) % UintLimit
        /\ stopIndex = ((L + 1) * keys) % UintLimit
    BY <1>2 DEF GenerateKeystores, KeysInv
  <2>3. stopIndex' = ((L + 2) * keys) % UintLimit
    <3>1. (L + 1) * keys \in Nat /\ (L + 1) * keys + keys = (L + 2) * keys
      BY <2>0
    <3>2. UintSum(((L + 1) * keys) % UintLimit, keys) = ((L + 1) * keys + keys) % UintLimit
      BY <2>0, <3>1, WrappedSum
    <3> QED
      BY <2>2, <3>1, <3>2
  <2>4. stopIndex' \in UInt32
    <3>1. (L + 2) * keys \in Nat
      BY <2>0
    <3> QED
      BY <2>3, <3>1, Divided
  <2>5. TypeOK'
    BY <2>0, <2>1, <2>2, <2>4 DEF TypeOK
  <2>6. /\ startIndex' = (Len(ranges') * keys') % UintLimit
        /\ stopIndex' = ((Len(ranges') + 1) * keys') % UintLimit
    <3>1. Len(ranges') + 1 = L + 2
      BY <2>0, <2>1
    <3> QED
      BY <2>0, <2>1, <2>2, <2>3, <3>1
  <2>7. ASSUME NEW i \in 1..Len(ranges')
        PROVE  /\ ranges'[i].min = ((i - 1) * keys') % UintLimit
               /\ ranges'[i].max = (i * keys') % UintLimit
    <3>1. CASE i \in 1..L
      BY <3>1, <2>0, <2>1 DEF KeysInv
    <3>2. CASE i = L + 1
      <4>1. /\ ranges'[i].min = (L * keys) % UintLimit
            /\ ranges'[i].max = ((L + 1) * keys) % UintLimit
        BY <3>2, <2>1, <2>2
      <4>2. i - 1 = L
        BY <3>2, <2>0
      <4> QED
        BY <4>1, <4>2, <3>2, <2>0
    <3> QED
      BY <3>1, <3>2, <2>0, <2>1
  <2>8. ASSUME KeysFit', NEW key \in UInt32
        PROVE  (key < startIndex') <=> (\E i \in 1..Len(ranges') : Holds(ranges'[i], key))
    <3>1. (key < startIndex) <=> (\E i \in 1..L : Holds(ranges[i], key))
      BY <2>0, <2>8 DEF KeysInv, KeysFit
    <3>2. (\E i \in 1..Len(ranges') : Holds(ranges'[i], key))
             <=> (\E i \in 1..L : Holds(ranges[i], key)) \/ Holds(new, key)
      <4>1. 1..Len(ranges') = 1..L \cup {L + 1}
        BY <2>0, <2>1
      <4> QED
        BY <4>1, <2>1
    <3>3. Holds(new, key) <=> startIndex <= key /\ key < stopIndex
      BY DEF Holds
    <3>4. startIndex <= stopIndex
      <4>1. nodes * keys < UintLimit /\ L \in 0..nodes /\ L + 1 \in 0..nodes
        BY <2>0, <2>8 DEF KeysFit
      <4>2. startIndex = L * keys /\ stopIndex = (L + 1) * keys
        BY <2>0, <2>2, <4>1, AllKeysFit
      <4>3. L * keys <= (L + 1) * keys
        BY <2>0, TimesMonotone
      <4> QED
        BY <4>2, <4>3
    <3>5. key \in Int /\ startIndex \in Int /\ stopIndex \in Int
      BY <2>0, KeysAssumption DEF UInt32
    <3>6. (key < startIndex') <=> (key < startIndex \/ (startIndex <= key /\ key < stopIndex))
      BY <2>2, <3>4, <3>5
    <3> QED
      BY <3>1, <3>2, <3>3, <3>6
  <2>9. FullUnlessWrapped'
    <3> DEFINE full(r) == r.max - r.min = keys
    <3>1. (\A i \in 1..Len(ranges') : full(ranges'[i])) <=> Len(ranges') * keys < UintLimit
      <4>1. (\A i \in 1..Len(ranges') : full(ranges'[i]))
               <=> (\A i \in 1..L : full(ranges[i])) /\ full(new)
        <5>1. 1..Len(ranges') = 1..L \cup {L + 1}
          BY <2>0, <2>1
        <5> QED
          BY <5>1, <2>1
      <4>2. (\A i \in 1..L : full(ranges[i])) <=> L * keys < UintLimit
        BY DEF KeysInv, FullUnlessWrapped, Full
      <4>3. /\ L * keys \in Nat /\ (L + 1) * keys = L * keys + keys
            /\ UintLimit \in Nat /\ Len(ranges') = L + 1
            /\ startIndex \in Int /\ stopIndex \in Int /\ stopIndex < UintLimit
        BY <2>0, <2>1, KeysAssumption DEF UInt32
      <4>4. L * keys < UintLimit => startIndex = L * keys
        BY <2>2, <4>3, Within DEF UInt32
      <4>5. (L + 1) * keys < UintLimit => stopIndex = (L + 1) * keys
        <5>1. (L + 1) * keys < UintLimit => (L + 1) * keys \in UInt32
          BY <2>0, <4>3 DEF UInt32
        <5> QED
          BY <5>1, <2>2, Within
      <4>6. full(new) <=> stopIndex - startIndex = keys
        OBVIOUS
      <4> HIDE DEF L, new, full
      <4> QED
        BY <2>0, <4>1, <4>2, <4>3, <4>4, <4>5, <4>6
    <3> QED
      BY <3>1, <2>0 DEF FullUnlessWrapped, Full
  <2> QED
    BY <2>5, <2>6, <2>7, <2>8, <2>9 DEF KeysInv, Holds, KeysFit
<1> QED
  BY <1>1, <1>2 DEF Next

\* The ranges follow one another: the invariant holds in every state of every
\* network that the validation accepts.
THEOREM KeysInvHolds == Spec => []KeysInv
BY KeysInit, KeysStep, PTL DEF Spec

----------------------------------------------------------------------------
(* What it gives.                                                          *)

\* Whatever the number of keys and wherever they wrap around, the keystores end
\* at the number of validators that genesis registers.
THEOREM RangesEndAtTotalHolds == Spec => []RangesEndAtTotal
<1>1. KeysInv => RangesEndAtTotal
  <2> SUFFICES ASSUME KeysInv, Len(ranges) = nodes
               PROVE  ranges[nodes].max = TotalKeys
    BY DEF RangesEndAtTotal
  <2>1. nodes \in 1..Len(ranges) /\ nodes \in Nat /\ keys \in Nat
    BY KeysAssumption DEF KeysInv, TypeOK, UInt32
  <2>2. ranges[nodes].max = (nodes * keys) % UintLimit
    BY <2>1 DEF KeysInv
  <2>3. nodes * keys = keys * nodes
    BY <2>1
  <2> QED
    BY <2>2, <2>3 DEF TotalKeys
<1> QED
  BY <1>1, KeysInvHolds, PTL

\* Every node has its number of keys exactly as long as no index wraps around.
THEOREM FullUnlessWrappedHolds == Spec => []FullUnlessWrapped
<1>1. KeysInv => FullUnlessWrapped
  BY DEF KeysInv
<1> QED
  BY <1>1, KeysInvHolds, PTL

\* No two nodes are given the same key, for any number of nodes and of keys
\* per node whose product the width holds.
THEOREM NoKeyTwiceHolds == Spec => []NoKeyTwice
<1>1. KeysInv => NoKeyTwice
  <2> SUFFICES ASSUME KeysInv, KeysFit,
                      NEW i \in 1..Len(ranges), NEW j \in 1..Len(ranges),
                      NEW key \in UInt32,
                      Holds(ranges[i], key), Holds(ranges[j], key)
               PROVE  i = j
    BY DEF NoKeyTwice
  <2>1. /\ nodes \in Nat /\ keys \in Nat /\ key \in Nat
        /\ i \in Nat /\ i \in 0..nodes /\ i - 1 \in 0..nodes /\ i - 1 \in Nat
        /\ j \in Nat /\ j \in 0..nodes /\ j - 1 \in 0..nodes /\ j - 1 \in Nat
        /\ nodes * keys < UintLimit
    <3>1. nodes \in Nat /\ keys \in Nat /\ key \in Nat
      BY KeysAssumption DEF KeysInv, TypeOK, UInt32
    <3>2. Len(ranges) \in Nat /\ Len(ranges) <= nodes
      BY DEF KeysInv, TypeOK
    <3> QED
      BY <3>1, <3>2 DEF KeysFit
  <2>2. /\ ranges[i].min = (i - 1) * keys /\ ranges[i].max = i * keys
        /\ ranges[j].min = (j - 1) * keys /\ ranges[j].max = j * keys
    BY <2>1, AllKeysFit DEF KeysInv
  <2>3. /\ (i - 1) * keys \in Nat /\ i * keys \in Nat
        /\ (j - 1) * keys \in Nat /\ j * keys \in Nat
    BY <2>1
  <2>4. /\ (i - 1) * keys <= key /\ key < i * keys
        /\ (j - 1) * keys <= key /\ key < j * keys
    BY <2>2 DEF Holds
  <2>5. ~(i <= j - 1)
    <3> SUFFICES ASSUME i <= j - 1 PROVE FALSE
      OBVIOUS
    <3>1. i * keys <= (j - 1) * keys
      BY <2>1, TimesMonotone
    <3> QED
      BY <3>1, <2>1, <2>3, <2>4
  <2>6. ~(j <= i - 1)
    <3> SUFFICES ASSUME j <= i - 1 PROVE FALSE
      OBVIOUS
    <3>1. j * keys <= (i - 1) * keys
      BY <2>1, TimesMonotone
    <3> QED
      BY <3>1, <2>1, <2>3, <2>4
  <2> QED
    BY <2>1, <2>5, <2>6
<1> QED
  BY <1>1, KeysInvHolds, PTL

\* The keys handed out are exactly those of the validators that the CL genesis
\* registers, if the width holds their number.
THEOREM KeysMatchGenesisHolds == Spec => []KeysMatchGenesis
<1>1. KeysInv => KeysMatchGenesis
  <2> SUFFICES ASSUME KeysInv, KeysFit, Len(ranges) = nodes, NEW key \in UInt32
               PROVE  (key < TotalKeys) <=> (\E i \in 1..nodes : Holds(ranges[i], key))
    BY DEF KeysMatchGenesis
  <2>1. nodes \in Nat /\ keys \in Nat
    BY KeysAssumption DEF KeysInv, TypeOK, UInt32
  <2>2. keys * nodes = nodes * keys
    BY <2>1
  <2>3. startIndex = TotalKeys
    BY <2>2 DEF KeysInv, TotalKeys
  <2> QED
    BY <2>3 DEF KeysInv
<1> QED
  BY <1>1, KeysInvHolds, PTL
=============================================================================
