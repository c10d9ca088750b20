-------------------------- MODULE ParamsValidation --------------------------
(***************************************************************************)
(* DeserializeAndValidateParams, step by step: the document that a caller  *)
(* writes is laid over the default parameters, its participants are        *)
(* checked and completed one after another, then the network's parameters  *)
(* are checked.  A document may leave parts out (Absent), or write them as *)
(* null, which makes the pointer nil that the decoder fills in.  An image  *)
(* is blank, one name, or a pair as Prysm wants it.  Lists of extra flags  *)
(* and the wording of errors are left out.                                 *)
(***************************************************************************)
EXTENDS Launchers

CONSTANTS
    Texts,          \* the strings that a caller may write
    Documents,      \* what the module may be passed
    Absent, Null

----------------------------------------------------------------------------
(* Parameters.                                                             *)

ELImages == {"", "elImage"}
CLImages == {"", "clImage", "beaconImage,validatorImage"}
ClientLogLevels == {"error", "warn", "info", "debug", "trace"}

ParticipantParams ==
    [el : Texts, cl : Texts, elImage : ELImages, clImage : CLImages, mevBoost : BOOLEAN]

NetworkParams ==
    [networkId : Texts, depositContract : Texts, mnemonic : Texts,
     secondsPerSlot : Nat, slotsPerEpoch : Nat, keysPerNode : Nat]

Participants  == Seq(ParticipantParams \cup {Null})
ExecuteParams ==
    [participants : Participants, network : NetworkParams \cup {Null}, level : Texts]

\* A document may write some fields of the network only.
NetworkPart ==
    [networkId : Texts \cup {Absent}, depositContract : Texts \cup {Absent},
     mnemonic : Texts \cup {Absent}, secondsPerSlot : Nat \cup {Absent},
     slotsPerEpoch : Nat \cup {Absent}, keysPerNode : Nat \cup {Absent}]

Document ==
    [participants : Participants \cup {Absent}, network : NetworkPart \cup {Absent, Null},
     level : Texts \cup {Absent}]

\* Nothing that is written is mistaken for what is not.
ASSUME DocumentsAssumption ==
    /\ Documents \subseteq Document
    /\ Null \notin ParticipantParams \cup NetworkParams \cup NetworkPart
    /\ Absent \notin Participants \cup NetworkPart \cup Texts \cup Nat \cup {Null}
    /\ {"geth", "lighthouse", "3151908", "0x4242", "giant issue", "info"} \subseteq Texts

DefaultElImages == [type \in ELTypes |-> "elImage"]
DefaultClImages == [type \in CLTypes |-> IF type = "prysm" THEN "beaconImage,validatorImage"
                                                           ELSE "clImage"]

DefaultParams ==
    [participants |-> << [el |-> "geth", cl |-> "lighthouse", elImage |-> "", clImage |-> "",
                          mevBoost |-> FALSE] >>,
     network      |-> [networkId |-> "3151908", depositContract |-> "0x4242",
                       mnemonic |-> "giant issue", secondsPerSlot |-> 12,
                       slotsPerEpoch |-> 32, keysPerNode |-> 64],
     level        |-> "info"]

\* yaml.Unmarshal lays a mapping over the structure that is there.
OverlaidNetwork(part) ==
    [field \in DOMAIN DefaultParams.network |->
        IF part[field] = Absent THEN DefaultParams.network[field] ELSE part[field]]

\* The Prysm launcher takes the beacon node's and the validator's from a pair.
IsImagePair(image) == image = "beaconImage,validatorImage"

----------------------------------------------------------------------------
(* The call.                                                               *)

VARIABLES
    document,   \* what was passed to the module
    params,     \* paramsObj
    idx,        \* the participant in hand, counted from one
    stage       \* the check that is next, or how the call ended

vars == <<document, params, idx, stage>>

N      == Len(params.participants)
InHand == params.participants[idx]

Init ==
    /\ document \in Documents
    /\ params = DefaultParams /\ idx = 1 /\ stage = "deserialize"

Goto(s) == stage' = s /\ UNCHANGED <<document, params, idx>>

\* A list replaces the default one; null makes a pointer nil.
Deserialize ==
    /\ stage = "deserialize"
    /\ params' = [participants |-> IF document.participants = Absent
                                   THEN DefaultParams.participants ELSE document.participants,
                  network |-> IF document.network = Absent THEN DefaultParams.network
                              ELSE IF document.network = Null THEN Null
                              ELSE OverlaidNetwork(document.network),
                  level |-> IF document.level = Absent THEN DefaultParams.level
                                                       ELSE document.level]
    /\ stage' = "level"
    /\ UNCHANGED <<document, idx>>

\* The document is not YAML, or a field of another type.
FailToDeserialize == stage = "deserialize" /\ Goto("malformed")

CheckLevel ==
    /\ stage = "level"
    /\ Goto(IF params.level \in ClientLogLevels /\ N > 0 THEN "participants" ELSE "rejected")

\* Faulty: Besu is taken to mine.
NotMiningNethermind(type) == type = "nethermind"

NotMining(type) == type \in {"nethermind", "besu"}

\* Faulty: the images are written to the copies that "range" makes.
CompleteCopy(p) == p

Complete(p) ==
    [el |-> p.el, cl |-> p.cl, mevBoost |-> p.mevBoost,
     elImage |-> IF p.elImage = "" THEN DefaultElImages[p.el] ELSE p.elImage,
     clImage |-> IF p.clImage = "" THEN DefaultClImages[p.cl] ELSE p.clImage]

CheckParticipant ==
    /\ stage = "participants" /\ InHand # Null
    /\ \/ /\ idx = 1 /\ NotMining(InHand.el)
          /\ Goto("rejected")
       \/ /\ ~(idx = 1 /\ NotMining(InHand.el))
          /\ ~(InHand.el \in ELTypes /\ InHand.cl \in CLTypes)
          /\ Goto("rejected")
       \/ /\ ~(idx = 1 /\ NotMining(InHand.el))
          /\ InHand.el \in ELTypes /\ InHand.cl \in CLTypes
          /\ params' = [params EXCEPT !.participants[idx] = Complete(InHand)]
          /\ idx' = idx + 1
          /\ stage' = IF idx = N THEN "network" ELSE "participants"
          /\ UNCHANGED document

\* A nil pointer is dereferenced.
Panic ==
    /\ \/ stage = "participants" /\ InHand = Null
       \/ stage = "network" /\ params.network = Null
    /\ Goto("panicked")

Blank(text) == text \in {"", " "}

CheckNetwork ==
    LET network == params.network IN
    /\ stage = "network" /\ network # Null
    /\ Goto(IF \/ Blank(network.networkId) \/ Blank(network.depositContract)
               \/ network.secondsPerSlot = 0 \/ network.slotsPerEpoch = 0
            THEN "rejected" ELSE "validators")

\* Faulty: one epoch's validators are taken to be enough.
RequiredForOneEpoch(network) == network.slotsPerEpoch % UintLimit

\* The products are those of uint32.
Required(network) == (2 * network.slotsPerEpoch) % UintLimit
Actual(network)   == (N * network.keysPerNode) % UintLimit

CheckValidators ==
    LET network == params.network IN
    /\ stage = "validators"
    /\ Goto(IF Actual(network) < Required(network) \/ Blank(network.mnemonic)
            THEN "rejected" ELSE "peering")

\* Faulty: only the second client is looked at if there are more than two.
CheckPeeringOfMore ==
    /\ stage = "peering"
    /\ Goto(IF N > 2 /\ params.participants[2].el = "nethermind" THEN "rejected" ELSE "accepted")

\* Nethermind must be neither the first nor the second EL client.
CheckPeering ==
    /\ stage = "peering"
    /\ Goto(IF \E i \in 1..N \cap {1, 2} : params.participants[i].el = "nethermind"
            THEN "rejected" ELSE "accepted")

Next == \/ Deserialize \/ FailToDeserialize \/ CheckLevel \/ CheckParticipant \/ Panic
        \/ CheckNetwork \/ CheckValidators \/ CheckPeering

Spec == Init /\ [][Next]_vars
----------------------------------------------------------------------------
(* Properties.                                                             *)

Final  == {"malformed", "accepted", "rejected", "panicked"}
Stages == Final \cup {"deserialize", "level", "participants", "network", "validators", "peering"}

TypeOK ==
    /\ document \in Document /\ params \in ExecuteParams
    /\ idx \in Nat \ {0} /\ stage \in Stages

\* What was asked for, before it was completed.
Written == IF document.participants = Absent THEN DefaultParams.participants
                                             ELSE document.participants

Passed(p, i) == /\ p # Null /\ p.el \in ELTypes /\ p.cl \in CLTypes
                /\ i = 1 => ~NotMining(p.el)

\* The loop has completed the participants before the one in hand, all of which
\* passed, and no other.
LoopInv ==
    /\ stage \notin {"deserialize", "malformed"} =>
          /\ N = Len(Written)
          /\ \A i \in 1..N : /\ i < idx => /\ Passed(Written[i], i)
                                          /\ params.participants[i] = Complete(Written[i])
                             /\ i >= idx => params.participants[i] = Written[i]
    /\ stage \in {"deserialize", "level"} => idx = 1
    /\ stage = "participants" => idx <= N
    /\ stage \in {"network", "validators", "peering", "accepted"} => N > 0 /\ idx = N + 1

\* What the checks that were passed have shown.
ChecksInv ==
    /\ stage \in {"participants", "network", "validators", "peering", "accepted"} =>
          params.level \in ClientLogLevels
    /\ stage \in {"validators", "peering", "accepted"} =>
          /\ params.network # Null
          /\ ~Blank(params.network.networkId) /\ ~Blank(params.network.depositContract)
          /\ params.network.secondsPerSlot # 0 /\ params.network.slotsPerEpoch # 0
    /\ stage \in {"peering", "accepted"} =>
          Actual(params.network) >= Required(params.network) /\ ~Blank(params.network.mnemonic)
    /\ stage = "accepted" =>
          \A i \in 1..N \cap {1, 2} : params.participants[i].el # "nethermind"

HasNull(p) == p.network = Null \/ \E i \in DOMAIN p.participants : p.participants[i] = Null

\* The parameters as ModuleParams and the executions have them.
AsRequest(p) ==
    [participants   |-> [i \in DOMAIN p.participants |->
                            [el |-> p.participants[i].el, cl |-> p.participants[i].cl,
                             mevBoost |-> p.participants[i].mevBoost]],
     slotsPerEpoch  |-> p.network.slotsPerEpoch,
     secondsPerSlot |-> p.network.secondsPerSlot,
     keysPerNode    |-> p.network.keysPerNode,
     textOk         |-> p.level \in ClientLogLevels
                        /\ ~\E text \in {p.network.networkId, p.network.depositContract,
                                         p.network.mnemonic} : Blank(text)]

\* The checks of the code, made in its order on parameters it completes as it
\* goes, accept exactly what ModuleParams says is valid; but a null participant
\* or network that is reached before another error ends in a panic.
AgreesWithValid ==
    /\ stage = "accepted" => ~HasNull(params) /\ Valid(AsRequest(params))
    /\ stage = "rejected" => HasNull(params) \/ ~Valid(AsRequest(params))
    /\ stage = "panicked" => HasNull(params)

\* The inductive invariant behind the properties.
ValidationInv == TypeOK /\ LoopInv /\ ChecksInv /\ AgreesWithValid

\* Every accepted participant has the images that were written for it, or else
\* its own client's default: Prysm's pair for Prysm, one name for the others.
ImagesChosen ==
    stage = "accepted" => \A i \in 1..N :
        LET p == params.participants[i] IN
        /\ p.elImage = IF Written[i].elImage # "" THEN Written[i].elImage
                                                 ELSE DefaultElImages[p.el]
        /\ p.clImage = IF Written[i].clImage # "" THEN Written[i].clImage
                                                 ELSE DefaultClImages[p.cl]

\* What is accepted has two epochs' validators, one for every slot, if the number
\* of those slots is within the width: the other product, where it wraps, only
\* makes the check refuse more.
EnoughUnlessWrapped ==
    stage = "accepted" /\ 2 * params.network.slotsPerEpoch < UintLimit =>
        N * params.network.keysPerNode >= 2 * params.network.slotsPerEpoch

\* What the launchers refuse of a participant, in its place in the list.
LauncherRefuses(p, i) ==
    ElLauncher(p.el).needs > i - 1 \/ (p.cl = "prysm" /\ ~IsImagePair(p.clImage))

\* What the validation lets pass and a launcher then refuses, with containers
\* running, is an Erigon client that comes first, a Besu client that comes
\* second, or a single image that was written for Prysm, and nothing else.
RefusedLate ==
    stage = "accepted" => \A i \in 1..N :
        LET p == params.participants[i] IN
        LauncherRefuses(p, i) <=> \/ i = 1 /\ p.el = "erigon"
                                  \/ i = 2 /\ p.el = "besu"
                                  \/ p.cl = "prysm" /\ Written[i].clImage = "clImage"

\* What is accepted has two epochs' validators, one for every slot, as the error
\* message of the check says.
EnoughValidators ==
    stage = "accepted" => N * params.network.keysPerNode >= 2 * params.network.slotsPerEpoch
=============================================================================
