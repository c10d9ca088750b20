------------------------ MODULE Availability_proofs ------------------------
(***************************************************************************)
(* Proofs about Availability: however many clients there are and whatever  *)
(* the constants of their launchers, none is given up on too early, and no *)
(* wait for an EL client takes longer than it may.                         *)
(***************************************************************************)
EXTENDS Availability, TLAPS

\* The products the invariant is about are numbers, and grow as they should.
LEMMA Products ==
    ASSUME NEW k \in Nat, NEW p \in Nat
    PROVE  k * p \in Nat /\ (k + 1) * p = k * p + p /\ (k + 1) - 1 = k
  BY SMT

\* A product is monotone in how often something is done.
LEMMA Monotone ==
    ASSUME NEW j \in Nat, NEW k \in Nat, NEW p \in Nat, j <= k
    PROVE  j * p <= k * p
  <1>1. PICK d \in Nat : k = j + d
    BY SMT
  <1>2. k * p = j * p + d * p /\ d * p \in Nat /\ j * p \in Nat
    BY <1>1, SMT
  <1> QED
    BY <1>2, SMT

\* The tables of the launchers are of numbers.
LEMMA TableTypes ==
    ASSUME NEW n \in Clients
    PROVE  /\ Retries(n) \in Nat \ {0} /\ Pause(n) \in Nat
           /\ Expected(n) = Retries(n)
  <1>1. CASE IsEl(n)
    <2>1. Types[n] \in ELTypes
      BY <1>1, AvailabilityAssumption, SMT DEF Types, Clients, IsEl
    <2>2. Retries(n) \in Nat \ {0} /\ Expected(n) = Retries(n)
      <3>1. CASE Types[n] = "geth"
        <4>1. PrefundedKeys * PerKeyImport \in Nat
          BY AvailabilityAssumption, Products
        <4>2. GethRetries \in Nat \ {0}
          <5>1. GethInit \in Nat /\ GethInit > 0 /\ GethStart \in Nat
            BY AvailabilityAssumption
          <5> DEFINE keys == PrefundedKeys * PerKeyImport
          <5>2. keys \in Nat
            BY <4>1
          <5>3. GethRetries = GethInit + keys + GethStart
            BY DEF GethRetries
          <5> HIDE DEF keys
          <5> QED
            BY <5>1, <5>2, <5>3, SMT
        <4>3. Retries(n) = GethRetries
          BY <3>1, SMT DEF Retries, CLTypes
        <4>4. Expected(n) = GethRetries
          BY <3>1, SMT DEF Expected, GethRetries
        <4> QED
          BY <4>2, <4>3, <4>4
      <3>2. CASE Types[n] = "erigon"
        <4>1. ErigonInit \in Nat /\ ErigonInit > 0 /\ ErigonStart \in Nat
          BY AvailabilityAssumption
        <4>2. Retries(n) = ErigonInit + ErigonStart /\ Expected(n) = Retries(n)
          BY <3>2, SMT DEF Retries, Expected, CLTypes
        <4> QED
          BY <4>1, <4>2, SMT
      <3>3. CASE Types[n] \in {"nethermind", "besu"}
        <4>1. \A t \in {"nethermind", "besu"} : NodeInfoRetries[t] \in Nat \ {0}
          BY AvailabilityAssumption
        <4>2. Retries(n) = NodeInfoRetries[Types[n]]
          BY <3>3, SMT DEF Retries, CLTypes
        <4>3. Expected(n) = Retries(n)
          BY <3>3, SMT DEF Expected
        <4> QED
          BY <3>3, <4>1, <4>2, <4>3
      <3> QED
        BY <2>1, <3>1, <3>2, <3>3 DEF ELTypes
    <2> QED
      BY <1>1, <2>2, AvailabilityAssumption DEF Pause
  <1>2. CASE ~IsEl(n)
    <2>1. Types[n] \in CLTypes
      BY <1>2, AvailabilityAssumption, SMT DEF Types, Clients, IsEl
    <2>2. HealthRetries[Types[n]] \in Nat \ {0} /\ HealthPause[Types[n]] \in Nat
      BY <2>1, AvailabilityAssumption
    <2> QED
      BY <1>2, <2>1, <2>2 DEF Retries, Expected, Pause, CLTypes
  <1> QED
    BY <1>1, <1>2

\* The clock outlasts the pauses of a wait, and the pauses of fewer requests.
LEMMA Pauses ==
    ASSUME NEW n \in Clients, NEW k \in Nat, k <= Retries(n)
    PROVE  k * Pause(n) \in Nat /\ k * Pause(n) <= Horizon
  <1>1. Retries(n) \in Nat /\ Pause(n) \in Nat /\ Horizon \in Nat
    BY TableTypes, AvailabilityAssumption
  <1>2. k * Pause(n) \in Nat /\ Retries(n) * Pause(n) \in Nat
    BY <1>1, Products
  <1>3. k * Pause(n) <= Retries(n) * Pause(n)
    BY <1>1, Monotone
  <1>4. Retries(n) * Pause(n) <= Horizon
    BY HorizonAssumption
  <1> DEFINE some == k * Pause(n)
             all  == Retries(n) * Pause(n)
  <1>5. some \in Nat /\ all \in Nat /\ some <= all /\ all <= Horizon
    BY <1>2, <1>3, <1>4
  <1> HIDE DEF some, all
  <1>6. some <= Horizon
    BY <1>1, <1>5, SMT
  <1> QED
    BY <1>5, <1>6 DEF some

----------------------------------------------------------------------------
(* The invariant.                                                          *)

\* The invariant holds before anything has been launched.
LEMMA InitAvailability == Init => AvailabilityInv
  <1> SUFFICES ASSUME Init PROVE AvailabilityInv
    OBVIOUS
  <1>1. 1 \in Clients /\ Horizon \in Nat
    BY AvailabilityAssumption, SMT DEF Clients, Types
  <1>2. TypeOK
    BY <1>1 DEF Init, TypeOK, Stages
  <1>3. TriesInv /\ PatientInv /\ BoundedInv
    BY DEF Init, TriesInv, PatientInv, BoundedInv
  <1> QED
    BY <1>2, <1>3 DEF AvailabilityInv

\* Every step keeps the variables within their types.
LEMMA TypesKept == TypeOK /\ TriesInv /\ [Next]_vars => TypeOK'
  <1> SUFFICES ASSUME TypeOK, TriesInv, [Next]_vars PROVE TypeOK'
    OBVIOUS
  <1> USE DEF TypeOK, Stages
  <1>1. /\ Horizon \in Nat /\ RequestTimeout \in Nat
        /\ Pause(node) \in Nat /\ Len(Types) \in Nat
        /\ Clients = 1..Len(Types)
    BY TableTypes, AvailabilityAssumption DEF Clients, Types
  <1>2. CASE Launch
    BY <1>1, <1>2 DEF Launch
  <1>3. CASE LaunchFails \/ GiveUp \/ IdentityFails \/ HealthAnswered
    BY <1>3 DEF LaunchFails, GiveUp, IdentityFails, HealthAnswered
  <1>4. CASE Ask
    BY <1>1, <1>4 DEF Ask
  <1>5. CASE RequestFails
    BY <1>1, <1>5 DEF RequestFails
  <1>6. CASE NodeInfoAnswered \/ IdentityAnswered
    <2>1. node' \in Clients /\ stage' \in Stages
      BY <1>1, <1>6 DEF NodeInfoAnswered, IdentityAnswered, NextClient
    <2> QED
      BY <1>6, <2>1 DEF NodeInfoAnswered, IdentityAnswered
  <1>7. CASE \E n \in Clients : ComeUp(n) \/ Stop(n)
    BY <1>7 DEF ComeUp, Stop, wait
  <1>8. CASE Tick
    BY <1>1, <1>8 DEF Tick
  <1>9. CASE UNCHANGED vars
    BY <1>9 DEF vars, wait
  <1> QED
    BY <1>2, <1>3, <1>4, <1>5, <1>6, <1>7, <1>8, <1>9 DEF Next

\* Every step keeps the requests within their number, and a pause within its
\* length.
LEMMA TriesKept == TypeOK /\ TriesInv /\ [Next]_vars => TriesInv'
  <1> SUFFICES ASSUME TypeOK, TriesInv, [Next]_vars PROVE TriesInv'
    OBVIOUS
  <1> USE DEF TypeOK, TriesInv
  <1>1. /\ Horizon \in Nat /\ RequestTimeout \in Nat
        /\ Pause(node) \in Nat /\ Retries(node) \in Nat \ {0}
    BY TableTypes, AvailabilityAssumption
  <1>2. CASE Launch
    BY <1>1, <1>2 DEF Launch
  <1>3. CASE LaunchFails \/ GiveUp \/ IdentityFails \/ HealthAnswered
    BY <1>3 DEF LaunchFails, GiveUp, IdentityFails, HealthAnswered
  <1>4. CASE Ask
    BY <1>1, <1>4 DEF Ask
  <1>5. CASE RequestFails
    BY <1>1, <1>5 DEF RequestFails
  <1>6. CASE NodeInfoAnswered \/ IdentityAnswered
    BY <1>6 DEF NodeInfoAnswered, IdentityAnswered, NextClient
  <1>7. CASE \E n \in Clients : ComeUp(n) \/ Stop(n)
    BY <1>7 DEF ComeUp, Stop, wait
  <1>8. CASE Tick
    BY <1>1, <1>8 DEF Tick
  <1>9. CASE UNCHANGED vars
    BY <1>9 DEF vars, wait
  <1> QED
    BY <1>2, <1>3, <1>4, <1>5, <1>6, <1>7, <1>8, <1>9 DEF Next

\* Every step keeps the requests a pause apart.
LEMMA PatientKept ==
    TypeOK /\ TriesInv /\ PatientInv /\ [Next]_vars => PatientInv'
  <1> SUFFICES ASSUME TypeOK, TriesInv, PatientInv, [Next]_vars PROVE PatientInv'
    OBVIOUS
  <1> USE DEF TypeOK, TriesInv, PatientInv
  <1>1. /\ Horizon \in Nat /\ RequestTimeout \in Nat
        /\ Pause(node) \in Nat /\ Retries(node) \in Nat \ {0}
    BY TableTypes, AvailabilityAssumption
  <1> DEFINE paused == tries * Pause(node)
  <1>2. paused \in Nat /\ (tries + 1) * Pause(node) = paused + Pause(node)
    BY <1>1, Products
  <1>3. tries <= Retries(node) => paused <= Horizon
    BY Pauses
  <1>4. tries > 0 => (tries - 1) * Pause(node) = paused - Pause(node)
    <2>1. SUFFICES ASSUME tries > 0
                   PROVE  (tries - 1) * Pause(node) = paused - Pause(node)
      OBVIOUS
    <2>2. tries - 1 \in Nat /\ (tries - 1) + 1 = tries
      BY <2>1
    <2>3. /\ (tries - 1) * Pause(node) \in Nat
          /\ ((tries - 1) + 1) * Pause(node) = (tries - 1) * Pause(node) + Pause(node)
      BY <1>1, <2>2, Products
    <2> QED
      BY <1>1, <1>2, <2>2, <2>3
  <1>5. 0 * Pause(node) = 0 /\ (tries + 1) - 1 = tries
    BY <1>1
  <1>6. CASE Launch
    BY <1>1, <1>5, <1>6 DEF Launch
  <1>7. CASE LaunchFails \/ GiveUp \/ IdentityFails \/ HealthAnswered
    BY <1>7 DEF LaunchFails, GiveUp, IdentityFails, HealthAnswered
  <1>8. CASE NodeInfoAnswered \/ IdentityAnswered
    BY <1>8 DEF NodeInfoAnswered, IdentityAnswered, NextClient
  <1>9. CASE Ask
    <2>1. /\ stage = "pause" /\ left = 0 /\ stage' = "asking" /\ asked' = elapsed
          /\ UNCHANGED <<node, tries, serving, upAt>>
      BY <1>9 DEF Ask
    <2>2. elapsed >= paused
      BY <2>1
    <2> QED
      BY <2>1, <2>2
  <1>10. CASE RequestFails
    <2>1. /\ stage = "asking" /\ stage' = "pause" /\ tries' = tries + 1
          /\ left' = Pause(node) /\ UNCHANGED <<node, elapsed, serving, upAt>>
          /\ node \in serving => ~(upAt <= asked)
      BY <1>10 DEF RequestFails, Prompt
    <2>2. asked >= paused /\ asked <= elapsed
      BY <2>1
    <2>3. elapsed' + left' >= tries' * Pause(node')
      <3>1. elapsed >= paused
        BY <1>2, <2>2
      <3>2. tries' * Pause(node') = paused + Pause(node)
        BY <1>2, <2>1
      <3> HIDE DEF paused
      <3> QED
        BY <1>1, <1>2, <2>1, <3>1, <3>2
    <2>4. node \in serving => upAt >= (tries' - 1) * Pause(node)
      <3>1. (tries' - 1) * Pause(node) = paused
        BY <1>5, <2>1
      <3> HIDE DEF paused
      <3> QED
        BY <1>2, <2>1, <2>2, <3>1
    <2> QED
      BY <2>1, <2>3, <2>4
  <1>11. ASSUME NEW n \in Clients, ComeUp(n)
         PROVE  PatientInv'
    <2>1. /\ UNCHANGED <<node, stage, tries, left, asked, elapsed>>
          /\ serving' = serving \cup {n}
          /\ upAt' = IF n = node THEN elapsed ELSE upAt
      BY <1>11 DEF ComeUp, wait
    <2>2. ASSUME stage \in {"pause", "asking"}, tries > 0
          PROVE  elapsed >= (tries - 1) * Pause(node)
      <3>1. (tries - 1) * Pause(node) = paused - Pause(node)
        BY <1>4, <2>2
      <3>2. CASE stage = "pause"
        <4>1. elapsed + left >= paused /\ left <= Pause(node)
          BY <3>2
        <4> HIDE DEF paused
        <4> QED
          BY <1>1, <1>2, <3>1, <4>1
      <3>3. CASE stage = "asking"
        <4>1. elapsed >= asked /\ asked >= paused
          BY <3>3
        <4> HIDE DEF paused
        <4> QED
          BY <1>1, <1>2, <3>1, <4>1
      <3> QED
        BY <2>2, <3>2, <3>3
    <2> QED
      BY <2>1, <2>2
  <1>12. ASSUME NEW n \in Clients, Stop(n)
         PROVE  PatientInv'
    BY <1>12 DEF Stop, wait
  <1>13. CASE Tick
    <2>1. /\ UNCHANGED <<node, stage, tries, asked, serving, upAt>>
          /\ elapsed' = IF elapsed < Horizon THEN elapsed + 1 ELSE elapsed
          /\ left' = IF left > 0 THEN left - 1 ELSE 0
      BY <1>13 DEF Tick
    <2>2. ASSUME stage = "pause"
          PROVE  elapsed' + left' >= paused
      <3>1. elapsed + left >= paused /\ paused <= Horizon
        BY <1>3, <2>2
      <3> HIDE DEF paused
      <3> QED
        BY <1>1, <1>2, <2>1, <3>1
    <2> QED
      BY <2>1, <2>2
  <1>14. CASE UNCHANGED vars
    BY <1>14 DEF vars, wait
  <1> QED
    BY <1>6, <1>7, <1>8, <1>9, <1>10, <1>11, <1>12, <1>13, <1>14 DEF Next

\* Every step keeps the wait for an EL client within what its requests so far
\* may have taken.
LEMMA BoundedKept ==
    TypeOK /\ TriesInv /\ BoundedInv /\ [Next]_vars => BoundedInv'
  <1> SUFFICES ASSUME TypeOK, TriesInv, BoundedInv, [Next]_vars PROVE BoundedInv'
    OBVIOUS
  <1> USE DEF TypeOK, TriesInv, BoundedInv
  <1>1. /\ Horizon \in Nat /\ RequestTimeout \in Nat /\ Pause(node) \in Nat
        /\ RequestTimeout + Pause(node) \in Nat
    BY TableTypes, AvailabilityAssumption
  <1> DEFINE spent == tries * (RequestTimeout + Pause(node))
  <1>2. /\ spent \in Nat
        /\ (tries + 1) * (RequestTimeout + Pause(node))
              = spent + (RequestTimeout + Pause(node))
    BY <1>1, Products
  <1>3. CASE Launch
    <2>1. /\ stage' = "pause" /\ elapsed' = 0 /\ left' = 0 /\ tries' = 0
          /\ node' = node
      BY <1>3 DEF Launch
    <2>2. 0 * (RequestTimeout + Pause(node)) = 0
      BY <1>1
    <2> QED
      BY <2>1, <2>2
  <1>4. CASE LaunchFails \/ GiveUp \/ IdentityFails \/ HealthAnswered
    BY <1>4 DEF LaunchFails, GiveUp, IdentityFails, HealthAnswered
  <1>5. CASE NodeInfoAnswered \/ IdentityAnswered
    BY <1>5 DEF NodeInfoAnswered, IdentityAnswered, NextClient
  <1>6. CASE Ask
    <2>1. /\ stage = "pause" /\ left = 0 /\ stage' = "asking"
          /\ IsEl(node) => left' = RequestTimeout
          /\ UNCHANGED <<node, tries, elapsed>>
      BY <1>6 DEF Ask
    <2>2. ASSUME IsEl(node)
          PROVE  elapsed' + left' <= spent + RequestTimeout
      <3>1. elapsed + left <= spent
        BY <2>1, <2>2
      <3> HIDE DEF spent
      <3> QED
        BY <1>1, <1>2, <2>1, <2>2, <3>1
    <2> QED
      BY <2>1, <2>2
  <1>7. CASE RequestFails
    <2>1. /\ stage = "asking" /\ stage' = "pause" /\ tries' = tries + 1
          /\ left' = Pause(node) /\ UNCHANGED <<node, elapsed>>
      BY <1>7 DEF RequestFails
    <2>2. ASSUME IsEl(node)
          PROVE  elapsed' + left' <= tries' * (RequestTimeout + Pause(node))
      <3>1. elapsed + left <= spent + RequestTimeout
        BY <2>1, <2>2
      <3>2. tries' * (RequestTimeout + Pause(node))
               = spent + (RequestTimeout + Pause(node))
        BY <1>2, <2>1
      <3> HIDE DEF spent
      <3> QED
        BY <1>1, <1>2, <2>1, <3>1, <3>2
    <2> QED
      BY <2>1, <2>2
  <1>8. CASE \E n \in Clients : ComeUp(n) \/ Stop(n)
    BY <1>8 DEF ComeUp, Stop, wait
  <1>9. CASE Tick
    <2>1. /\ UNCHANGED <<node, stage, tries>>
          /\ elapsed' = IF elapsed < Horizon THEN elapsed + 1 ELSE elapsed
          /\ left' = IF left > 0 THEN left - 1 ELSE 0
          /\ IsEl(node) => left > 0
      BY <1>9 DEF Tick, MayPass
    <2>2. ASSUME IsEl(node)
          PROVE  elapsed' + left' <= elapsed + left
      BY <1>1, <2>1, <2>2
    <2>3. ASSUME IsEl(node), stage = "pause"
          PROVE  elapsed' + left' <= spent
      <3>1. elapsed + left <= spent
        BY <2>3
      <3> HIDE DEF spent
      <3> QED
        BY <1>1, <1>2, <2>1, <2>2, <2>3, <3>1
    <2>4. ASSUME IsEl(node), stage = "asking"
          PROVE  elapsed' + left' <= spent + RequestTimeout
      <3>1. elapsed + left <= spent + RequestTimeout
        BY <2>4
      <3> HIDE DEF spent
      <3> QED
        BY <1>1, <1>2, <2>1, <2>2, <2>4, <3>1
    <2> QED
      BY <2>1, <2>3, <2>4
  <1>10. CASE UNCHANGED vars
    BY <1>10 DEF vars, wait
  <1> QED
    BY <1>3, <1>4, <1>5, <1>6, <1>7, <1>8, <1>9, <1>10 DEF Next

----------------------------------------------------------------------------
(* The theorems.                                                           *)

\* The invariant of the waits holds in every state of every execution.
THEOREM AvailabilityInvHolds == Spec => []AvailabilityInv
  <1>1. AvailabilityInv /\ [Next]_vars => AvailabilityInv'
    BY TypesKept, TriesKept, PatientKept, BoundedKept DEF AvailabilityInv
  <1> QED
    BY InitAvailability, <1>1, PTL DEF Spec

\* No launcher gives up on a client that serves and began to in time, for all
\* retries and pauses.
THEOREM NotGivenUpEarlyHolds == Spec => []NotGivenUpEarly
  <1>1. AvailabilityInv => NotGivenUpEarly
    <2> SUFFICES ASSUME AvailabilityInv, stage = "pause", tries = Retries(node),
                        node \in serving
                 PROVE  upAt >= (Expected(node) - 1) * Pause(node)
      BY DEF NotGivenUpEarly
    <2>1. node \in Clients
      BY DEF AvailabilityInv, TypeOK
    <2>2. Retries(node) > 0 /\ Expected(node) = Retries(node)
      BY <2>1, TableTypes
    <2> QED
      BY <2>2 DEF AvailabilityInv, PatientInv
  <1> QED
    BY <1>1, AvailabilityInvHolds, PTL

\* The wait for an EL client is bounded by its requests' timeouts and pauses,
\* for all of them.
THEOREM ElWaitBoundedHolds == Spec => []ElWaitBounded
  <1>1. AvailabilityInv => ElWaitBounded
    <2> SUFFICES ASSUME AvailabilityInv, IsEl(node), stage \in {"pause", "asking"}
                 PROVE  elapsed <= Expected(node) * (RequestTimeout + Pause(node))
      BY DEF ElWaitBounded
    <2>1. /\ node \in Clients /\ elapsed \in Nat /\ left \in Nat /\ tries \in Nat
      BY AvailabilityAssumption DEF AvailabilityInv, TypeOK
    <2>2. /\ Retries(node) \in Nat /\ Expected(node) = Retries(node)
          /\ RequestTimeout \in Nat /\ Pause(node) \in Nat
          /\ RequestTimeout + Pause(node) \in Nat
      BY <2>1, TableTypes, AvailabilityAssumption
    <2> DEFINE round == RequestTimeout + Pause(node)
               spent == tries * round
               all   == Retries(node) * round
    <2>3. spent \in Nat /\ all \in Nat /\ (tries + 1) * round = spent + round
      BY <2>1, <2>2, Products
    <2>4. CASE stage = "pause"
      <3>1. spent <= all
        BY <2>1, <2>2, <2>4, Monotone DEF AvailabilityInv, TriesInv
      <3>2. elapsed + left <= spent
        BY <2>4 DEF AvailabilityInv, BoundedInv
      <3> HIDE DEF spent, all
      <3>3. elapsed <= all
        BY <2>1, <2>3, <3>1, <3>2
      <3> QED
        BY <2>2, <3>3 DEF all
    <2>5. CASE stage = "asking"
      <3>1. (tries + 1) * round <= all
        <4>1. tries + 1 \in Nat /\ tries + 1 <= Retries(node)
          BY <2>1, <2>2, <2>5 DEF AvailabilityInv, TriesInv
        <4> QED
          BY <2>2, <4>1, Monotone
      <3>2. elapsed + left <= spent + RequestTimeout
        BY <2>5 DEF AvailabilityInv, BoundedInv
      <3>3. spent + round <= all
        BY <2>3, <3>1
      <3>4. round = RequestTimeout + Pause(node)
        OBVIOUS
      <3> HIDE DEF round, spent, all
      <3>5. elapsed <= all
        BY <2>1, <2>2, <2>3, <3>2, <3>3, <3>4
      <3> QED
        BY <2>2, <3>5 DEF all, round
    <2> QED
      BY <2>4, <2>5
  <1> QED
    BY <1>1, AvailabilityInvHolds, PTL
=============================================================================
