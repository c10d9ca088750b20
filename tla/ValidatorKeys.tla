--------------------------- MODULE ValidatorKeys ---------------------------
(***************************************************************************)
(* The validator keys: GenerateCLValidatorKeystores cuts the keys derived  *)
(* from the mnemonic into one range per node, and GenerateCLGenesisData    *)
(* registers as many validators, counted from the first, as there are      *)
(* keys.  Two functions that never see each other's numbers compute them,  *)
(* each in uint32, for any network that the validation accepts: it         *)
(* computes the number of keys in uint32 too.                              *)
(***************************************************************************)
EXTENDS Integers, Sequences

CONSTANTS
    MaxNodes,   \* bound on the number of nodes
    UintLimit   \* 2^32

\* The participants are fewer than the width tells, the keys need not be.
ASSUME KeysAssumption ==
    /\ MaxNodes \in Nat /\ UintLimit \in Nat \ {0}
    /\ MaxNodes < UintLimit

VARIABLES
    slots,      \* SlotsPerEpoch
    nodes,      \* numNodes
    keys,       \* numValidatorsPerNode
    startIndex, \* of the range for the next node
    stopIndex,  \* and one past its end
    ranges      \* the commands so far: --source-min and --source-max

vars == <<slots, nodes, keys, startIndex, stopIndex, ranges>>

UInt32   == 0..UintLimit - 1
KeyRange == [min : UInt32, max : UInt32]

\* Enough keys for two epochs, as DeserializeAndValidateParams counts them.
Accepted == (nodes * keys) % UintLimit >= (2 * slots) % UintLimit

Init ==
    /\ slots \in UInt32 \ {0} /\ nodes \in 1..MaxNodes /\ keys \in UInt32
    /\ Accepted
    /\ startIndex = 0 /\ stopIndex = keys /\ ranges = <<>>

\* Faulty: the ranges are taken to include both their ends.
UintSumAndOne(a, b) == (a + b + 1) % UintLimit

UintSum(a, b) == (a + b) % UintLimit

\* Faulty: the ranges all begin at the first key.
GenerateFromFirst ==
    /\ Len(ranges) < nodes
    /\ ranges' = Append(ranges, [min |-> startIndex, max |-> stopIndex])
    /\ stopIndex' = UintSum(stopIndex, keys)
    /\ UNCHANGED <<slots, nodes, keys, startIndex>>

GenerateKeystores ==
    /\ Len(ranges) < nodes
    /\ ranges' = Append(ranges, [min |-> startIndex, max |-> stopIndex])
    /\ startIndex' = stopIndex
    /\ stopIndex' = UintSum(stopIndex, keys)
    /\ UNCHANGED <<slots, nodes, keys>>

Next == GenerateKeystores

Spec == Init /\ [][Next]_vars

\* Faulty: the product is computed in more bits than the indices.
WideTotal == keys * nodes

\* totalNumberOfValidatorKeys.
TotalKeys == (keys * nodes) % UintLimit
----------------------------------------------------------------------------
(* Properties.                                                             *)

\* The types of the variables.
TypeOK ==
    /\ slots \in UInt32 /\ nodes \in 1..MaxNodes /\ keys \in UInt32
    /\ startIndex \in UInt32 /\ stopIndex \in UInt32
    /\ ranges \in Seq(KeyRange) /\ Len(ranges) <= nodes

Holds(r, key) == r.min <= key /\ key < r.max

\* The keys of the network can be counted in the width, which nothing sees to.
KeysFit == nodes * keys < UintLimit

\* No key is given to two nodes, whose validators would be slashed for it,
\* unless the keys are too many to count.
NoKeyTwice ==
    KeysFit =>
        \A i, j \in 1..Len(ranges) : \A key \in UInt32 :
            Holds(ranges[i], key) /\ Holds(ranges[j], key) => i = j

\* The nodes have exactly the keys that genesis has validators for, unless the
\* keys are too many to count: a validator without a key would miss its duties,
\* a key without one would be of no use.
KeysMatchGenesis ==
    KeysFit /\ Len(ranges) = nodes =>
        \A key \in UInt32 :
            (key < TotalKeys) <=> (\E i \in 1..nodes : Holds(ranges[i], key))

\* In any network the last range ends where genesis stops registering: the sum
\* of one function and the product of the other wrap around alike.
RangesEndAtTotal == Len(ranges) = nodes => ranges[nodes].max = TotalKeys

Full(r) == r.max - r.min = keys

\* The nodes have their number of keys, as params.go has it, exactly as long as
\* no index has wrapped around: a network whose keys do wrap is refused by
\* neither the validation nor the generation of the keystores.
FullUnlessWrapped ==
    (\A i \in 1..Len(ranges) : Full(ranges[i])) <=> Len(ranges) * keys < UintLimit

\* The inductive invariant behind them: the ranges follow one another, and as
\* long as nothing wraps around they leave no gap up to startIndex and are full.
KeysInv ==
    /\ TypeOK
    /\ startIndex = (Len(ranges) * keys) % UintLimit
    /\ stopIndex = ((Len(ranges) + 1) * keys) % UintLimit
    /\ \A i \in 1..Len(ranges) : /\ ranges[i].min = ((i - 1) * keys) % UintLimit
                                  /\ ranges[i].max = (i * keys) % UintLimit
    /\ KeysFit =>
          \A key \in UInt32 :
              (key < startIndex) <=> (\E i \in 1..Len(ranges) : Holds(ranges[i], key))
    /\ FullUnlessWrapped
=============================================================================
