--------------------------- MODULE GenesisTiming ---------------------------
(***************************************************************************)
(* The clock in an execution: the genesis time chosen for the consensus    *)
(* layer (participant_network.go), the polls for the CL nodes' health, the *)
(* sleep until genesis and the wait for a finalized epoch (module.go).     *)
(* Every step may take any time, so the clock may advance between any two. *)
(* The chain is external: it finalizes its first epoch when it does.       *)
(***************************************************************************)
EXTENDS Integers

CONSTANTS
    Nodes,              \* participants
    GenerationTime,     \* clGenesisDataGenerationTime
    StartupTime,        \* clNodeStartupTime
    MaxRetries,         \* maxNumHealthcheckRetries
    RetryPause,         \* timeBetweenHealthcheckRetries
    CheckPause,         \* timeBetweenFinalizedEpochChecks
    SlotsPerEpoch,      \* as the parameters have it
    SecondsPerSlot,
    ChainSlotsPerEpoch, \* as the chain has it
    Second,             \* time.Second: the nanoseconds in a second
    IntLimit,           \* 2^63: a time.Duration is an int64 of nanoseconds
    MaxTime             \* bound on the clock

Times     == 0..MaxTime
UintLimit == 2 * IntLimit

\* The clock stays within what an int64 of nanoseconds can tell.  Nothing of the
\* kind is assumed of the slots, which the validation does not bound.
ASSUME TimingAssumption ==
    /\ Nodes \in Nat \ {0} /\ MaxRetries \in Nat \ {0}
    /\ GenerationTime \in Nat /\ StartupTime \in Nat
    /\ RetryPause \in Nat /\ CheckPause \in Nat
    /\ SlotsPerEpoch \in Nat \ {0} /\ SecondsPerSlot \in Nat \ {0}
    /\ ChainSlotsPerEpoch \in Nat \ {0}
    /\ MaxTime \in Nat /\ Second \in Nat \ {0} /\ IntLimit \in Nat
    /\ (MaxTime + GenerationTime + Nodes * StartupTime) * Second < IntLimit

VARIABLES
    now,        \* the clock, in seconds
    stage,      \* what the execution is doing
    genesis,    \* clGenesisTimestamp
    up,         \* CL nodes that are up
    tries,      \* health polls of the node in hand that failed
    wakes,      \* when the present sleep ends, in nanoseconds
    deadline,   \* of the wait for a finalized epoch, in nanoseconds
    epoch,      \* the finalized epoch each CL node would report
    since,      \* when the present generation or start-up began
    overruns    \* how many took longer than the code allows for (history)

vars == <<now, stage, genesis, up, tries, wakes, deadline, epoch, since, overruns>>

Reached(time) == now * Second >= time

Stages == {"choose", "generate", "launch", "poll", "tools", "sleep", "forkmon",
           "finalization", "asking", "succeeded", "timedOut", "failed"}

Init ==
    /\ now = 0 /\ stage = "choose" /\ genesis = 0 /\ up = 0 /\ tries = 0
    /\ wakes = 0 /\ deadline = 0 /\ since = 0 /\ overruns = 0
    /\ epoch = [n \in 1..Nodes |-> 0]

----------------------------------------------------------------------------
(* Launching the CL nodes.                                                 *)

\* Faulty: the boot node is left out of the count.
GenesisAfterPeers(t) == t + GenerationTime + (Nodes - 1) * StartupTime

\* The time for the genesis data to be generated, and for each node to start.
GenesisAfter(t) == t + GenerationTime + Nodes * StartupTime

\* 1 if what began at since has taken longer than is allowed for.
Overrun(allowance) == IF now - since <= allowance THEN 0 ELSE 1

ChooseGenesis ==
    /\ stage = "choose"
    /\ genesis' = GenesisAfter(now)
    /\ stage' = "generate" /\ since' = now
    /\ UNCHANGED <<now, up, tries, wakes, deadline, epoch, overruns>>

GenerateData ==
    /\ stage = "generate"
    /\ stage' = "launch" /\ since' = now
    /\ overruns' = overruns + Overrun(GenerationTime)
    /\ UNCHANGED <<now, genesis, up, tries, wakes, deadline, epoch>>

LaunchNode ==
    /\ stage = "launch"
    /\ stage' = "poll" /\ tries' = 0 /\ wakes' = now * Second
    /\ UNCHANGED <<now, genesis, up, deadline, epoch, since, overruns>>

\* A health request that got no answer, or one of an unknown status.
PollFails ==
    /\ stage = "poll" /\ Reached(wakes) /\ tries < MaxRetries
    /\ tries' = tries + 1 /\ wakes' = (now + RetryPause) * Second
    /\ UNCHANGED <<now, stage, genesis, up, deadline, epoch, since, overruns>>

\* The node answered, whatever it said of its health.
PollAnswers ==
    /\ stage = "poll" /\ Reached(wakes) /\ tries < MaxRetries
    /\ up' = up + 1
    /\ stage' = IF up + 1 = Nodes THEN "tools" ELSE "launch"
    /\ since' = now /\ overruns' = overruns + Overrun(StartupTime)
    /\ UNCHANGED <<now, genesis, tries, wakes, deadline, epoch>>

PollGivesUp ==
    /\ stage = "poll" /\ Reached(wakes) /\ tries = MaxRetries
    /\ stage' = "failed"
    /\ UNCHANGED <<now, genesis, up, tries, wakes, deadline, epoch, since, overruns>>

----------------------------------------------------------------------------
(* Numbers of 64 bits.  A conversion keeps the bits, a product the lower    *)
(* ones.                                                                   *)

\* Faulty: the number stays unsigned.
AsUnsigned(x) == x % UintLimit

\* What an int64 holds of a number.
AsSigned(x) == ((x + IntLimit) % UintLimit) - IntLimit

\* time.Duration(seconds) * time.Second
Duration(seconds) == AsSigned(AsSigned(seconds) * Second)

----------------------------------------------------------------------------
(* Waiting for genesis.  The difference of two uint64 wraps around when    *)
(* genesis has passed, which the test for a negative one that follows does *)
(* not see; read as an int64, it is negative, and time.Sleep returns.      *)

Minus(a, b) == (a - b) % UintLimit

\* Faulty: the difference is taken the wrong way around.
SleepTimeReversed == Duration(Minus(now, genesis))

SleepTime == Duration(Minus(genesis, now))

BeginSleep ==
    /\ stage = "tools"
    /\ stage' = "sleep" /\ wakes' = now * Second + SleepTime
    /\ UNCHANGED <<now, genesis, up, tries, deadline, epoch, since, overruns>>

LaunchForkmon ==
    /\ stage = "sleep" /\ Reached(wakes)
    /\ stage' = "forkmon"
    /\ UNCHANGED <<now, genesis, up, tries, wakes, deadline, epoch, since, overruns>>

----------------------------------------------------------------------------
(* Waiting for a finalized epoch.                                          *)

FirstHeadEpochWhereFinalizedEpochIsPossible == 4
FinalizedEpochTolerance == 0

\* Faulty: the wait ends as the epoch begins, not as it has been entered.
WaitedLongEnoughEpoch ==
    FirstHeadEpochWhereFinalizedEpochIsPossible + FinalizedEpochTolerance

\* The epoch whose beginning is too late for there to be none finalized.
WaitedTooLongEpoch ==
    FirstHeadEpochWhereFinalizedEpochIsPossible + 1 + FinalizedEpochTolerance

TimeoutSeconds == (WaitedTooLongEpoch * SlotsPerEpoch * SecondsPerSlot) % UintLimit

\* The deadline is in the past if the timeout is too long for a Duration.
BeginWait ==
    /\ stage = "forkmon"
    /\ deadline' = now * Second + Duration(TimeoutSeconds)
    /\ stage' = "finalization" /\ wakes' = now * Second
    /\ UNCHANGED <<now, genesis, up, tries, epoch, since, overruns>>

AskForEpoch ==
    /\ stage = "finalization" /\ Reached(wakes) /\ ~Reached(deadline)
    /\ stage' = "asking"
    /\ UNCHANGED <<now, genesis, up, tries, wakes, deadline, epoch, since, overruns>>

\* The first CL node's answer.
EpochAnswered ==
    /\ stage = "asking"
    /\ stage' = IF epoch[1] > 0 THEN "succeeded" ELSE "finalization"
    /\ wakes' = IF epoch[1] > 0 THEN wakes ELSE (now + CheckPause) * Second
    /\ UNCHANGED <<now, genesis, up, tries, deadline, epoch, since, overruns>>

TimeOut ==
    /\ stage = "finalization" /\ Reached(wakes) /\ Reached(deadline)
    /\ stage' = "timedOut"
    /\ UNCHANGED <<now, genesis, up, tries, wakes, deadline, epoch, since, overruns>>

\* Any other error on the way.
Fail ==
    /\ stage \notin {"succeeded", "timedOut", "failed"}
    /\ stage' = "failed"
    /\ UNCHANGED <<now, genesis, up, tries, wakes, deadline, epoch, since, overruns>>

\* The chain finalizes two epochs behind its head at the earliest.  Each node
\* that was launched sees it when it does, if it is on that chain.
Finalize(n) ==
    /\ n <= up \/ (n = up + 1 /\ stage = "poll")
    /\ now >= genesis + 2 * ChainSlotsPerEpoch * SecondsPerSlot
    /\ epoch[n] = 0 /\ epoch' = [epoch EXCEPT ![n] = 1]
    /\ UNCHANGED <<now, stage, genesis, up, tries, wakes, deadline, since, overruns>>

Tick ==
    /\ now < MaxTime /\ now' = now + 1
    /\ UNCHANGED <<stage, genesis, up, tries, wakes, deadline, epoch, since, overruns>>

Next ==
    \/ ChooseGenesis \/ GenerateData \/ LaunchNode
    \/ PollFails \/ PollAnswers \/ PollGivesUp
    \/ BeginSleep \/ LaunchForkmon
    \/ BeginWait \/ AskForEpoch \/ EpochAnswered \/ TimeOut
    \/ Fail \/ Tick
    \/ \E n \in 1..Nodes : Finalize(n)

Spec == Init /\ [][Next]_vars
----------------------------------------------------------------------------
(* Properties.                                                             *)

TypeOK ==
    /\ now \in Times /\ stage \in Stages /\ genesis \in Nat
    /\ up \in 0..Nodes /\ tries \in 0..MaxRetries
    /\ wakes \in Nat /\ deadline \in Int /\ since \in Times
    /\ epoch \in [1..Nodes -> {0, 1}] /\ overruns \in Nat

AfterSleep == {"forkmon", "finalization", "asking", "succeeded", "timedOut"}

\* Forkmon, which never comes back to a node that once answered with an error,
\* is not launched before genesis, however late or early the nodes were up.
ForkmonAfterGenesis == stage \in AfterSleep => now >= genesis

\* Execute sleeps for no longer than it must: it wakes by genesis, or at once
\* if genesis has passed, though the difference of the times has wrapped.
SleepIsShort == stage = "sleep" => wakes <= genesis * Second \/ Reached(wakes)

\* As long as no step takes longer than the code allows for, the CL nodes are
\* all up by genesis: the allowances add up.
BudgetSuffices ==
    overruns = 0 /\ stage = "tools" => since <= genesis

\* What TimeOutIsLate takes besides a chain whose epochs are no longer than the
\* parameters have them: a timeout that a Duration holds.
TimeoutFits ==
    WaitedTooLongEpoch * SlotsPerEpoch * SecondsPerSlot * Second < IntLimit

\* The wait for a finalized epoch is given up only when the chain has entered
\* the epoch by which there should be one.
TimeOutIsLate ==
    stage = "timedOut" =>
        now >= genesis + 5 * ChainSlotsPerEpoch * SecondsPerSlot

\* As the documents have it, an execution that waits for finalization returns
\* when the CL nodes have finalized an epoch.
AllFinalized == stage = "succeeded" => \A n \in 1..Nodes : epoch[n] > 0

----------------------------------------------------------------------------
(* The inductive invariant behind them.                                    *)

LatestGenesis == MaxTime + GenerationTime + Nodes * StartupTime

GenesisInv ==
    /\ genesis <= LatestGenesis
    /\ stage = "sleep" => wakes = genesis * Second
    /\ ForkmonAfterGenesis

\* What is left of the allowances before genesis.
BudgetInv ==
    /\ since <= now
    /\ stage \in {"launch", "poll"} => up < Nodes
    /\ stage \in {"choose", "generate"} => up = 0
    /\ overruns = 0 /\ stage = "generate"
          => since + GenerationTime + Nodes * StartupTime <= genesis
    /\ overruns = 0 /\ stage \in {"launch", "poll"}
          => since + (Nodes - up) * StartupTime <= genesis
    /\ BudgetSuffices

DeadlineInv ==
    /\ stage \in {"finalization", "asking", "timedOut"}
          => deadline >= genesis * Second + Duration(TimeoutSeconds)
    /\ stage = "timedOut" => Reached(deadline)

TimingInv == TypeOK /\ GenesisInv /\ BudgetInv /\ DeadlineInv
=============================================================================
