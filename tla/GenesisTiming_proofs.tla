------------------------ MODULE GenesisTiming_proofs ------------------------
(***************************************************************************)
(* Proofs about GenesisTiming, for every number of nodes, every allowance  *)
(* every length of slot and epoch, and every width of the numbers.         *)
(***************************************************************************)
EXTENDS GenesisTiming, TLAPS

\* The allowance for the nodes, as the proofs compute with it: natural numbers,
\* one node's share at a time.
LEMMA Shares ==
    /\ Nodes * StartupTime \in Nat
    /\ \A k \in 0..Nodes : (Nodes - k) * StartupTime \in Nat
    /\ \A k \in 0..Nodes - 1 :
          (Nodes - k) * StartupTime = (Nodes - (k + 1)) * StartupTime + StartupTime
    /\ (Nodes - Nodes) * StartupTime = 0 /\ (Nodes - 0) * StartupTime = Nodes * StartupTime
<1>1. \A a, b \in Nat : a * b \in Nat /\ (a + 1) * b = a * b + b /\ 0 * b = 0
  OBVIOUS
<1>2. Nodes \in Nat /\ StartupTime \in Nat
  BY TimingAssumption
<1>3. ASSUME NEW k \in 0..Nodes - 1
      PROVE  (Nodes - k) * StartupTime = (Nodes - (k + 1)) * StartupTime + StartupTime
  <2>1. Nodes - (k + 1) \in Nat /\ Nodes - k = (Nodes - (k + 1)) + 1
    BY <1>2
  <2> QED
    BY <1>1, <1>2, <2>1
<1>4. ASSUME NEW k \in 0..Nodes
      PROVE  (Nodes - k) * StartupTime \in Nat
  <2>1. Nodes - k \in Nat
    BY <1>2
  <2> QED
    BY <1>1, <1>2, <2>1
<1>5. Nodes - Nodes = 0 /\ Nodes - 0 = Nodes
  BY <1>2
<1> QED
  BY <1>1, <1>2, <1>3, <1>4, <1>5

\* Seconds are in the order of their nanoseconds.
LEMMA ScaledOrder ==
    ASSUME NEW a \in Int, NEW b \in Int, NEW c \in Nat \ {0}
    PROVE  a <= b <=> a * c <= b * c
<1>1. a <= b => a * c <= b * c
  OBVIOUS
<1>2. b + 1 <= a => (b + 1) * c <= a * c
  OBVIOUS
<1>3. (b + 1) * c = b * c + c /\ a * c \in Int /\ b * c \in Int
  OBVIOUS
<1> QED
  BY <1>1, <1>2, <1>3

\* The width of the numbers, and the longest time there is to tell.
LEMMA Widths ==
    /\ IntLimit \in Nat \ {0} /\ UintLimit = 2 * IntLimit /\ Second \in Nat \ {0}
    /\ LatestGenesis \in Nat /\ MaxTime \in Nat /\ MaxTime <= LatestGenesis
    /\ LatestGenesis * Second \in Nat /\ LatestGenesis * Second < IntLimit
<1>1. LatestGenesis \in Nat /\ MaxTime \in Nat /\ MaxTime <= LatestGenesis
  BY TimingAssumption, Shares DEF LatestGenesis
<1>2. LatestGenesis * Second < IntLimit
  BY TimingAssumption DEF LatestGenesis
<1>3. \A a, b \in Nat : a * b \in Nat
  OBVIOUS
<1>4. LatestGenesis * Second \in Nat
  BY <1>1, <1>3, TimingAssumption
<1> QED
  BY <1>1, <1>2, <1>4, TimingAssumption DEF UintLimit

\* A conversion gives an integer; of one that an int64 holds, wrapped around or
\* not, it gives that integer.
LEMMA SignedIsExact ==
    ASSUME NEW x \in Int
    PROVE  /\ AsSigned(x) \in Int
           /\ -IntLimit <= x /\ x < IntLimit
                 => AsSigned(x) = x /\ AsSigned(x % UintLimit) = x
<1>1. IntLimit \in Nat \ {0} /\ UintLimit = 2 * IntLimit
  BY Widths
<1>2. AsSigned(x) \in Int
  BY <1>1 DEF AsSigned
<1>3. ASSUME -IntLimit <= x, x < IntLimit
      PROVE  AsSigned(x) = x /\ AsSigned(x % UintLimit) = x
  BY <1>1, <1>3 DEF AsSigned
<1> QED
  BY <1>2, <1>3

\* A Duration is an integer, and exact if an int64 holds the nanoseconds.
LEMMA DurationIsExact ==
    ASSUME NEW x \in Int
    PROVE  /\ Duration(x) \in Int
           /\ (/\ -IntLimit <= x /\ x < IntLimit
               /\ -IntLimit <= x * Second /\ x * Second < IntLimit)
                 => Duration(x) = x * Second /\ Duration(x % UintLimit) = x * Second
<1>1. AsSigned(x) \in Int /\ AsSigned(x) * Second \in Int /\ x * Second \in Int
  BY SignedIsExact, Widths
<1>2. Duration(x) \in Int
  BY <1>1, SignedIsExact DEF Duration
<1>3. ASSUME -IntLimit <= x, x < IntLimit, -IntLimit <= x * Second, x * Second < IntLimit
      PROVE  Duration(x) = x * Second /\ Duration(x % UintLimit) = x * Second
  <2>1. AsSigned(x) = x /\ AsSigned(x % UintLimit) = x
    BY <1>3, SignedIsExact
  <2>2. AsSigned(x * Second) = x * Second
    BY <1>1, <1>3, SignedIsExact
  <2> QED
    BY <2>1, <2>2 DEF Duration
<1> QED
  BY <1>2, <1>3

\* The difference of two times, wrapped around and read as signed, is their
\* difference (module.go, where the sleep until genesis is computed).
LEMMA SleepIsExact ==
    ASSUME now \in Times, genesis \in Nat, genesis <= LatestGenesis
    PROVE  now * Second + SleepTime = genesis * Second
<1> PICK d : d = genesis - now
  OBVIOUS
<1>1. now \in Nat /\ now <= LatestGenesis /\ d \in Int
  BY Widths DEF Times
<1>3. \A a \in Nat, c \in Nat \ {0} : a <= a * c /\ (-a) * c = -(a * c)
  OBVIOUS
<1>4. -LatestGenesis <= d /\ d <= LatestGenesis
  BY <1>1, Widths
<1>5. -(LatestGenesis * Second) <= d * Second /\ d * Second <= LatestGenesis * Second
  <2>1. -LatestGenesis \in Int /\ LatestGenesis \in Int
    BY Widths
  <2>2. (-LatestGenesis) * Second <= d * Second /\ d * Second <= LatestGenesis * Second
    BY <1>1, <1>4, <2>1, Widths, ScaledOrder
  <2> QED
    BY <1>3, <2>2, Widths
<1>6. LatestGenesis <= LatestGenesis * Second
  BY <1>3, Widths
<1>7. d * Second \in Int
  BY <1>1, Widths
<1>8. Duration(d % UintLimit) = d * Second
  <2>1. -IntLimit <= d /\ d < IntLimit
    BY <1>1, <1>4, <1>6, Widths
  <2>2. -IntLimit <= d * Second /\ d * Second < IntLimit
    BY <1>5, <1>7, Widths
  <2> QED
    BY <1>1, <2>1, <2>2, DurationIsExact
<1>9. now * Second + (genesis - now) * Second = genesis * Second
  BY <1>1, Widths
<1> QED
  BY <1>8, <1>9 DEF SleepTime, Minus

\* The timeout is a number of nanoseconds, if not always the intended one.
LEMMA TimeoutIsWhole ==
    /\ WaitedTooLongEpoch * SlotsPerEpoch * SecondsPerSlot \in Nat
    /\ Duration(TimeoutSeconds) \in Int
<1>1. \A a, b \in Nat : a * b \in Nat
  OBVIOUS
<1>2. WaitedTooLongEpoch * SlotsPerEpoch * SecondsPerSlot \in Nat
  BY <1>1, TimingAssumption
     DEF WaitedTooLongEpoch, FinalizedEpochTolerance, FirstHeadEpochWhereFinalizedEpochIsPossible
<1>3. \A a \in Nat : a % UintLimit \in Int
  BY Widths
<1> QED
  BY <1>2, <1>3, DurationIsExact DEF TimeoutSeconds

----------------------------------------------------------------------------
(* The invariant.                                                          *)

\* The invariant holds before anything has been done.
LEMMA InitTiming == Init => TimingInv
<1>1. LatestGenesis \in Nat
  BY TimingAssumption, Shares DEF LatestGenesis
<1> QED
  BY <1>1, TimingAssumption
     DEF Init, TimingInv, TypeOK, Times, Stages, GenesisInv, ForkmonAfterGenesis,
         AfterSleep, BudgetInv, BudgetSuffices, DeadlineInv

\* Every step keeps the variables in their types.
LEMMA NextTypes == TypeOK /\ GenesisInv /\ BudgetInv /\ [Next]_vars => TypeOK'
<1> SUFFICES ASSUME TypeOK, GenesisInv, BudgetInv, [Next]_vars
             PROVE  TypeOK'
  OBVIOUS
<1> USE TimingAssumption DEF TypeOK, Times, Stages
<1>1. CASE ChooseGenesis
  BY <1>1, Shares DEF ChooseGenesis, GenesisAfter
<1>2. CASE BeginSleep
  <2>1. now * Second + SleepTime = genesis * Second
    BY SleepIsExact DEF GenesisInv
  <2>2. genesis * Second \in Nat
    BY Widths
  <2> QED
    BY <1>2, <2>1, <2>2 DEF BeginSleep
<1>3. CASE BeginWait
  <2>1. Duration(TimeoutSeconds) \in Int
    BY TimeoutIsWhole
  <2>2. now * Second \in Nat
    BY Widths
  <2> QED
    BY <1>3, <2>1, <2>2 DEF BeginWait
<1>4. CASE LaunchNode \/ PollFails \/ PollGivesUp
  BY <1>4, SMTT(30) DEF LaunchNode, PollFails, PollGivesUp
<1>5. CASE PollAnswers
  BY <1>5 DEF PollAnswers, Overrun, BudgetInv
<1>6. CASE GenerateData \/ LaunchForkmon \/ AskForEpoch \/ EpochAnswered \/ TimeOut
  BY <1>6, SMTT(30) DEF GenerateData, Overrun, LaunchForkmon, AskForEpoch, EpochAnswered, TimeOut
<1>7. CASE Fail \/ Tick \/ UNCHANGED vars
  BY <1>7, SMTT(30) DEF Fail, Tick, vars
<1>8. ASSUME NEW n \in 1..Nodes, Finalize(n)
      PROVE  TypeOK'
  <2>1. epoch' = [epoch EXCEPT ![n] = 1] /\ epoch \in [1..Nodes -> {0, 1}]
    BY <1>8 DEF Finalize
  <2>2. epoch' \in [1..Nodes -> {0, 1}]
    BY <2>1
  <2> QED
    BY <1>8, <2>2 DEF Finalize
<1> QED
  BY <1>1, <1>2, <1>3, <1>4, <1>5, <1>6, <1>7, <1>8 DEF Next

\* Forkmon waits for genesis: the sleep ends exactly then, or has ended.
LEMMA NextGenesis == TypeOK /\ GenesisInv /\ [Next]_vars => GenesisInv'
<1> SUFFICES ASSUME TypeOK, GenesisInv, [Next]_vars
             PROVE  GenesisInv'
  OBVIOUS
<1>0. MaxTime \in Nat /\ now \in Nat /\ now <= MaxTime /\ genesis \in Nat
  BY TimingAssumption DEF TypeOK, Times
<1> USE DEF GenesisInv, ForkmonAfterGenesis, AfterSleep
<1>1. CASE ChooseGenesis
  <2>1. genesis' <= LatestGenesis
    BY <1>0, <1>1, TimingAssumption, Shares DEF ChooseGenesis, GenesisAfter, LatestGenesis
  <2> QED
    BY <1>1, <2>1 DEF ChooseGenesis
<1>2. CASE BeginSleep
  <2>1. now * Second + SleepTime = genesis * Second
    BY <1>0, SleepIsExact DEF TypeOK
  <2> QED
    BY <1>2, <2>1 DEF BeginSleep, LatestGenesis
<1>3. CASE LaunchForkmon
  <2>1. now * Second >= genesis * Second
    BY <1>3 DEF LaunchForkmon, Reached
  <2>2. now >= genesis
    BY <1>0, <2>1, ScaledOrder, Widths
  <2> QED
    BY <1>0, <1>3, <2>2 DEF LaunchForkmon, LatestGenesis
<1>7. CASE Tick
  BY <1>0, <1>7 DEF Tick, LatestGenesis
<1>4. CASE LaunchNode \/ PollFails \/ PollAnswers \/ PollGivesUp \/ GenerateData
  BY <1>4 DEF LaunchNode, PollFails, PollAnswers, PollGivesUp, GenerateData, LatestGenesis
<1>5. CASE BeginWait \/ AskForEpoch \/ EpochAnswered \/ TimeOut
  BY <1>5 DEF BeginWait, AskForEpoch, EpochAnswered, TimeOut, LatestGenesis
<1>6. CASE Fail \/ (\E n \in 1..Nodes : Finalize(n)) \/ UNCHANGED vars
  BY <1>6 DEF Fail, Finalize, vars, LatestGenesis
<1> QED
  BY <1>1, <1>2, <1>3, <1>4, <1>5, <1>6, <1>7 DEF Next

\* While all keep to their allowances, those of the nodes still to be launched
\* fit in before genesis.
LEMMA NextBudget == TypeOK /\ BudgetInv /\ [Next]_vars => BudgetInv'
<1> SUFFICES ASSUME TypeOK, BudgetInv, [Next]_vars
             PROVE  BudgetInv'
  OBVIOUS
<1>0. /\ now \in Nat /\ since \in Nat /\ genesis \in Nat /\ up \in 0..Nodes /\ Nodes \in Nat
      /\ GenerationTime \in Nat /\ StartupTime \in Nat /\ Nodes >= 1 /\ overruns \in Nat
  BY TimingAssumption DEF TypeOK, Times
<1> USE DEF BudgetInv, BudgetSuffices
<1>1. CASE ChooseGenesis
  BY <1>0, <1>1, Shares DEF ChooseGenesis, GenesisAfter
<1>2. CASE GenerateData
  <2>1. up = 0 /\ up' = 0 /\ since' = now /\ genesis' = genesis /\ stage' = "launch"
    BY <1>2 DEF GenerateData
  <2>2. overruns' = 0 => overruns = 0 /\ now <= since + GenerationTime
    BY <1>0, <1>2 DEF GenerateData, Overrun
  <2>3. overruns' = 0 => now + Nodes * StartupTime <= genesis
    BY <1>0, <1>2, <2>2, Shares DEF GenerateData
  <2> QED
    BY <1>0, <1>2, <2>1, <2>3, Shares DEF GenerateData
<1>3. CASE PollAnswers
  <2>1. /\ up < Nodes /\ up' = up + 1 /\ since' = now /\ genesis' = genesis
        /\ now' = now /\ stage' = IF up + 1 = Nodes THEN "tools" ELSE "launch"
    BY <1>3 DEF PollAnswers
  <2>2. overruns' = 0 => overruns = 0 /\ now <= since + StartupTime
    BY <1>0, <1>3 DEF PollAnswers, Overrun
  <2>3. (Nodes - up) * StartupTime = (Nodes - (up + 1)) * StartupTime + StartupTime
    BY <1>0, <2>1, Shares
  <2>4. (Nodes - (up + 1)) * StartupTime \in Nat
    BY <1>0, <2>1, Shares
  <2>5. overruns' = 0 => now + (Nodes - (up + 1)) * StartupTime <= genesis
    BY <1>0, <1>3, <2>2, <2>3, <2>4 DEF PollAnswers
  <2> QED
    BY <1>0, <2>1, <2>4, <2>5
<1>4. CASE LaunchNode \/ PollFails \/ PollGivesUp
  BY <1>4 DEF LaunchNode, PollFails, PollGivesUp
<1>5. CASE BeginSleep \/ LaunchForkmon \/ BeginWait \/ AskForEpoch
  BY <1>5 DEF BeginSleep, LaunchForkmon, BeginWait, AskForEpoch
<1>6. CASE \/ EpochAnswered \/ TimeOut \/ Fail \/ UNCHANGED vars
            \/ \E n \in 1..Nodes : Finalize(n)
  BY <1>6 DEF EpochAnswered, TimeOut, Fail, Finalize, vars
<1>7. CASE Tick
  BY <1>0, <1>7 DEF Tick
<1> QED
  BY <1>1, <1>2, <1>3, <1>4, <1>5, <1>6, <1>7 DEF Next

\* The deadline is set once genesis has passed, and is not passed over early.
LEMMA NextDeadline == TypeOK /\ GenesisInv /\ DeadlineInv /\ [Next]_vars => DeadlineInv'
<1> SUFFICES ASSUME TypeOK, GenesisInv, DeadlineInv, [Next]_vars
             PROVE  DeadlineInv'
  OBVIOUS
<1>0. /\ now \in Nat /\ deadline \in Int /\ genesis \in Nat
      /\ now * Second \in Nat /\ genesis * Second \in Nat
  BY TimingAssumption, Widths DEF TypeOK, Times
<1> PICK wait : wait = Duration(TimeoutSeconds)
  OBVIOUS
<1>w. wait \in Int
  BY TimeoutIsWhole
<1>1. CASE BeginWait
  <2>1. now >= genesis
    BY <1>1 DEF BeginWait, GenesisInv, ForkmonAfterGenesis, AfterSleep
  <2>2. now * Second >= genesis * Second
    BY <1>0, <2>1, ScaledOrder, Widths
  <2>3. now * Second + wait >= genesis * Second + wait
    BY <1>0, <1>w, <2>2
  <2>4. /\ deadline' = now * Second + wait /\ genesis' = genesis
        /\ stage' = "finalization"
    BY <1>1 DEF BeginWait
  <2>5. deadline' >= genesis' * Second + Duration(TimeoutSeconds)
    BY <2>3, <2>4
  <2> QED
    BY <2>4, <2>5 DEF DeadlineInv
<1>2. CASE AskForEpoch \/ EpochAnswered \/ TimeOut
  BY <1>2 DEF AskForEpoch, EpochAnswered, TimeOut, DeadlineInv, Reached
<1>3. CASE Tick
  <2>1. now' * Second >= now * Second
    BY <1>0, <1>3, ScaledOrder, Widths DEF Tick
  <2>2. now' * Second \in Nat
    BY <1>0, <1>3, Widths DEF Tick
  <2> QED
    BY <1>0, <1>3, <2>1, <2>2 DEF Tick, DeadlineInv, Reached
<1>4. CASE ChooseGenesis \/ GenerateData \/ LaunchNode \/ PollFails \/ PollAnswers
  BY <1>4 DEF ChooseGenesis, GenerateData, LaunchNode, PollFails, PollAnswers, DeadlineInv
<1>5. CASE \/ PollGivesUp \/ BeginSleep \/ LaunchForkmon \/ Fail \/ UNCHANGED vars
            \/ \E n \in 1..Nodes : Finalize(n)
  BY <1>5 DEF PollGivesUp, BeginSleep, LaunchForkmon, Fail, Finalize, vars, DeadlineInv, Reached
<1> QED
  BY <1>1, <1>2, <1>3, <1>4, <1>5 DEF Next

\* The times that Execute and LaunchParticipantNetwork compute stand in the
\* relations of TimingInv in every state, whatever the durations.
THEOREM TimingInvHolds == Spec => []TimingInv
<1>1. TimingInv /\ [Next]_vars => TimingInv'
  BY NextTypes, NextGenesis, NextBudget, NextDeadline DEF TimingInv
<1> QED
  BY <1>1, InitTiming, PTL DEF Spec

----------------------------------------------------------------------------
(* What it gives.                                                          *)

\* Forkmon is never launched before genesis, whatever the steps before took.
THEOREM ForkmonAfterGenesisHolds == Spec => []ForkmonAfterGenesis
<1>1. TimingInv => ForkmonAfterGenesis
  BY DEF TimingInv, GenesisInv
<1> QED
  BY <1>1, TimingInvHolds, PTL

\* The sleep until genesis never outlasts it.
THEOREM SleepIsShortHolds == Spec => []SleepIsShort
<1>1. TimingInv => SleepIsShort
  BY DEF TimingInv, TypeOK, GenesisInv, SleepIsShort
<1> QED
  BY <1>1, TimingInvHolds, PTL

\* The allowances for generation and start-up suffice for any number of nodes.
THEOREM BudgetSufficesHolds == Spec => []BudgetSuffices
<1>1. TimingInv => BudgetSuffices
  BY DEF TimingInv, BudgetInv
<1> QED
  BY <1>1, TimingInvHolds, PTL

\* A chain whose epochs are no longer than the parameters say has had its five
\* epochs when the wait for a finalized one is given up, unless the timeout was
\* too long for a Duration.
THEOREM TimeOutIsLateHolds ==
    ASSUME ChainSlotsPerEpoch <= SlotsPerEpoch, TimeoutFits
    PROVE  Spec => []TimeOutIsLate
<1> DEFINE length == 5 * SlotsPerEpoch * SecondsPerSlot
<1>1. WaitedTooLongEpoch = 5
  BY DEF WaitedTooLongEpoch, FinalizedEpochTolerance,
         FirstHeadEpochWhereFinalizedEpochIsPossible
<1>2. \A a, b \in Nat : a * b \in Nat
  OBVIOUS
<1>3. /\ SlotsPerEpoch \in Nat /\ ChainSlotsPerEpoch \in Nat /\ SecondsPerSlot \in Nat
      /\ length \in Nat /\ length * Second \in Nat /\ length * Second < IntLimit
  BY <1>1, <1>2, TimingAssumption DEF TimeoutFits
<1>4. Duration(TimeoutSeconds) = length * Second
  <2>1. TimeoutSeconds = length % UintLimit
    BY <1>1 DEF TimeoutSeconds
  <2>2. \A a \in Nat, c \in Nat \ {0} : a <= a * c
    OBVIOUS
  <2>3. length <= length * Second
    BY <1>3, <2>2, Widths
  <2> HIDE DEF length
  <2>4. /\ length \in Int /\ -IntLimit <= length /\ length < IntLimit
        /\ -IntLimit <= length * Second
    BY <1>3, <2>3, Widths
  <2> QED
    BY <1>3, <2>1, <2>4, DurationIsExact
<1>5. 5 * ChainSlotsPerEpoch * SecondsPerSlot <= length
  <2>1. \A a, b, c \in Nat : a <= b => 5 * a * c <= 5 * b * c
    OBVIOUS
  <2> QED
    BY <1>3, <2>1
<1>6. TimingInv => TimeOutIsLate
  <2> HIDE DEF length
  <2> SUFFICES ASSUME TimingInv, stage = "timedOut"
               PROVE  now >= genesis + 5 * ChainSlotsPerEpoch * SecondsPerSlot
    BY DEF TimeOutIsLate
  <2>1. /\ now \in Nat /\ deadline \in Int /\ genesis \in Nat
        /\ now * Second >= deadline
        /\ deadline >= genesis * Second + length * Second
    BY <1>4, TimingAssumption DEF TimingInv, TypeOK, Times, DeadlineInv, Reached
  <2>2. (genesis + length) * Second = genesis * Second + length * Second
    BY <1>3, <2>1, Widths
  <2>3. now * Second \in Nat /\ genesis * Second \in Nat /\ genesis + length \in Nat
    BY <1>3, <2>1, Widths
  <2>4. now >= genesis + length
    <3>1. (genesis + length) * Second <= now * Second
      BY <1>3, <2>1, <2>2, <2>3
    <3> QED
      BY <3>1, <2>1, <2>3, ScaledOrder, Widths
  <2>5. 5 * ChainSlotsPerEpoch * SecondsPerSlot \in Nat
    BY <1>2, <1>3
  <2> QED
    BY <1>3, <1>5, <2>1, <2>4, <2>5
<1> QED
  BY <1>6, TimingInvHolds, PTL
=============================================================================
