----------------------- MODULE ParamsValidation_proofs -----------------------
(* Proofs about ParamsValidation, for any documents and any width. *)
EXTENDS ParamsValidation, TLAPS

\* The default parameters are parameters.
LEMMA DefaultsTyped ==
    /\ DefaultParams \in ExecuteParams
    /\ DefaultParams.participants \in Participants
    /\ DefaultParams.network \in NetworkParams
    /\ DefaultParams.level \in Texts
<1> DEFINE node == [el |-> "geth", cl |-> "lighthouse", elImage |-> "", clImage |-> "",
                    mevBoost |-> FALSE]
<1>0. "geth" \in Texts /\ "lighthouse" \in Texts
  BY DocumentsAssumption
<1>1. node \in ParticipantParams
  BY <1>0 DEF ParticipantParams, ELImages, CLImages
<1>2. DefaultParams.participants \in Participants
  <2>1. DefaultParams.participants = <<node>>
    BY DEF DefaultParams
  <2> HIDE DEF node
  <2> QED
    BY <1>1, <2>1 DEF Participants
<1>3. DefaultParams.network \in NetworkParams
  BY DocumentsAssumption DEF DefaultParams, NetworkParams
<1>4. DefaultParams.level \in Texts
  BY DocumentsAssumption DEF DefaultParams
<1>5. DefaultParams = [participants |-> DefaultParams.participants,
                       network |-> DefaultParams.network, level |-> DefaultParams.level]
  BY DEF DefaultParams
<1> QED
  BY <1>2, <1>3, <1>4, <1>5 DEF ExecuteParams

\* What is written of a network, laid over the default, is a network.
LEMMA OverlaidTyped ==
    ASSUME NEW part \in NetworkPart
    PROVE  OverlaidNetwork(part) \in NetworkParams
<1> DEFINE net == OverlaidNetwork(part)
<1>1. DOMAIN DefaultParams.network =
         {"networkId", "depositContract", "mnemonic",
          "secondsPerSlot", "slotsPerEpoch", "keysPerNode"}
  BY DEF DefaultParams
<1>2. /\ net.networkId \in Texts /\ net.depositContract \in Texts /\ net.mnemonic \in Texts
      /\ net.secondsPerSlot \in Nat /\ net.slotsPerEpoch \in Nat /\ net.keysPerNode \in Nat
  BY <1>1, DefaultsTyped DEF OverlaidNetwork, NetworkPart, NetworkParams
<1>3. net = [networkId |-> net.networkId, depositContract |-> net.depositContract,
             mnemonic |-> net.mnemonic, secondsPerSlot |-> net.secondsPerSlot,
             slotsPerEpoch |-> net.slotsPerEpoch, keysPerNode |-> net.keysPerNode]
  BY <1>1 DEF OverlaidNetwork
<1> QED
  BY <1>2, <1>3 DEF NetworkParams

\* Completing a participant that passed keeps it one, with the same types.
LEMMA CompleteTyped ==
    ASSUME NEW p \in ParticipantParams, p.el \in ELTypes, p.cl \in CLTypes
    PROVE  /\ Complete(p) \in ParticipantParams
           /\ Complete(p).el = p.el /\ Complete(p).cl = p.cl
           /\ Complete(p).elImage = IF p.elImage = "" THEN DefaultElImages[p.el] ELSE p.elImage
           /\ Complete(p).clImage = IF p.clImage = "" THEN DefaultClImages[p.cl] ELSE p.clImage
           /\ Complete(p) # Null
<1>1. DefaultElImages[p.el] \in ELImages /\ DefaultClImages[p.cl] \in CLImages
  BY DEF DefaultElImages, DefaultClImages, ELImages, CLImages
<1>2. Complete(p) \in ParticipantParams
  BY <1>1 DEF Complete, ParticipantParams
<1> QED
  BY <1>1, <1>2, DocumentsAssumption DEF Complete, ParticipantParams

\* The participants that were asked for are a list of participants.
LEMMA WrittenTyped == document \in Document => Written \in Participants
BY DefaultsTyped DEF Document, Written

\* Documents hold nothing else than what they may.
LEMMA DocumentsTyped == Documents \subseteq Document
BY DocumentsAssumption

\* The call begins with the defaults.
LEMMA ValidationInit == Init => ValidationInv
BY DefaultsTyped, DocumentsTyped
   DEF Init, ValidationInv, TypeOK, LoopInv, ChecksInv, AgreesWithValid, Stages, Final

\* The document was decoded.
LEMMA DeserializeStep == ValidationInv /\ Deserialize => ValidationInv'
<1> SUFFICES ASSUME ValidationInv, Deserialize PROVE ValidationInv'
  OBVIOUS
<1>1. document \in Document /\ document' = document /\ idx' = idx /\ idx = 1
      /\ stage' = "level"
  BY DEF ValidationInv, TypeOK, LoopInv, Deserialize
<1>2. params'.participants = Written /\ Written \in Participants
  BY <1>1, WrittenTyped DEF Deserialize, Written
<1>3. params'.network \in NetworkParams \cup {Null}
  BY <1>1, DefaultsTyped, OverlaidTyped DEF Deserialize, Document
<1>4. params'.level \in Texts
  BY <1>1, DefaultsTyped DEF Deserialize, Document
<1>5. params' = [participants |-> params'.participants, network |-> params'.network,
                 level |-> params'.level]
  BY DEF Deserialize
<1>6. params' \in ExecuteParams
  BY <1>2, <1>3, <1>4, <1>5 DEF ExecuteParams
<1>7. TypeOK'
  BY <1>1, <1>6 DEF TypeOK, ValidationInv, Stages
<1>8. Written' = Written
  BY <1>1 DEF Written
<1>9. LoopInv'
  BY <1>1, <1>2, <1>8 DEF LoopInv, N
<1>10. ChecksInv' /\ AgreesWithValid'
  BY <1>1 DEF ChecksInv, AgreesWithValid
<1> QED
  BY <1>7, <1>9, <1>10 DEF ValidationInv

\* The parameters, read as a request, have the participants they have.
LEMMA RequestOf ==
    ASSUME params \in ExecuteParams
    PROVE  LET r == AsRequest(params) IN
           /\ N \in Nat /\ DOMAIN params.participants = 1..N
           /\ DOMAIN r.participants = 1..N /\ Len(r.participants) = N
           /\ \A i \in 1..N : /\ r.participants[i].el = params.participants[i].el
                             /\ r.participants[i].cl = params.participants[i].cl
           /\ r.participants = <<>> <=> N = 0
<1> DEFINE r == AsRequest(params)
           ps == params.participants
<1>1. ps \in Seq(ParticipantParams \cup {Null})
  BY DEF ExecuteParams, Participants
<1>2. N \in Nat /\ DOMAIN ps = 1..N
  BY <1>1 DEF N
<1>3. r.participants = [i \in 1..N |-> [el |-> ps[i].el, cl |-> ps[i].cl,
                                       mevBoost |-> ps[i].mevBoost]]
  BY <1>2 DEF AsRequest
<1>4. DOMAIN r.participants = 1..N /\ Len(r.participants) = N
  BY <1>2, <1>3
<1>5. \A i \in 1..N : r.participants[i].el = ps[i].el /\ r.participants[i].cl = ps[i].cl
  BY <1>3
<1>6. r.participants = <<>> <=> N = 0
  BY <1>2, <1>3, <1>4, SMTT(30)
<1> QED
  BY <1>2, <1>4, <1>5, <1>6

\* What it is for the parameters to be valid.
ValidParams ==
    /\ params.level \in ClientLogLevels /\ N > 0
    /\ ~Blank(params.network.networkId) /\ ~Blank(params.network.depositContract)
    /\ ~Blank(params.network.mnemonic)
    /\ ~NotMining(params.participants[1].el)
    /\ \A i \in 1..N : /\ params.participants[i].el \in ELTypes
                      /\ params.participants[i].cl \in CLTypes
    /\ N >= 2 => params.participants[2].el # "nethermind"
    /\ params.network.secondsPerSlot # 0 /\ params.network.slotsPerEpoch # 0
    /\ Actual(params.network) >= Required(params.network)

\* And that this is what ModuleParams calls valid.
LEMMA ValidMeans ==
    ASSUME params \in ExecuteParams
    PROVE  Valid(AsRequest(params)) <=> ValidParams
<1> DEFINE r == AsRequest(params)
<1>1. r.textOk <=> /\ params.level \in ClientLogLevels
                   /\ ~Blank(params.network.networkId)
                   /\ ~Blank(params.network.depositContract)
                   /\ ~Blank(params.network.mnemonic)
  BY DEF AsRequest
<1>2. ParticipantsValid(r) <=>
         /\ N > 0 /\ ~NotMining(params.participants[1].el)
         /\ \A i \in 1..N : /\ params.participants[i].el \in ELTypes
                           /\ params.participants[i].cl \in CLTypes
         /\ N >= 2 => params.participants[2].el # "nethermind"
  BY RequestOf DEF ParticipantsValid, NumParticipants, NotMining
<1>3. NumbersValid(r) <=>
         /\ params.network.secondsPerSlot # 0 /\ params.network.slotsPerEpoch # 0
         /\ Actual(params.network) >= Required(params.network)
  <2>1. /\ r.secondsPerSlot = params.network.secondsPerSlot
        /\ r.slotsPerEpoch = params.network.slotsPerEpoch
        /\ r.keysPerNode = params.network.keysPerNode
    BY DEF AsRequest
  <2>2. NumParticipants(r) = N
    BY RequestOf DEF NumParticipants
  <2>3. RequiredValidators(r) = Required(params.network)
        /\ ActualValidators(r) = Actual(params.network)
    BY <2>1, <2>2 DEF RequiredValidators, ActualValidators, Required, Actual
  <2> QED
    BY <2>1, <2>3 DEF NumbersValid
<1> QED
  BY <1>1, <1>2, <1>3 DEF Valid, ValidParams

\* A step that only says which check is next changes none of the parameters.
LEMMA GotoKeeps ==
    ASSUME ValidationInv, NEW s \in Stages, Goto(s)
    PROVE  /\ TypeOK' /\ stage' = s /\ idx' = idx /\ params' = params
           /\ N' = N /\ Written' = Written
           /\ HasNull(params') <=> HasNull(params)
BY DEF ValidationInv, TypeOK, Goto, N, Written, HasNull

\* Nothing is claimed of a document that was not decoded.
LEMMA FailToDeserializeStep == ValidationInv /\ FailToDeserialize => ValidationInv'
<1> SUFFICES ASSUME ValidationInv, FailToDeserialize PROVE ValidationInv'
  OBVIOUS
<1>1. Goto("malformed") /\ "malformed" \in Stages
  BY DEF FailToDeserialize, Stages, Final
<1>2. TypeOK' /\ stage' = "malformed"
  BY <1>1, GotoKeeps
<1> QED
  BY <1>2 DEF ValidationInv, LoopInv, ChecksInv, AgreesWithValid

\* The log level, and that there is a participant.
LEMMA CheckLevelStep == ValidationInv /\ CheckLevel => ValidationInv'
<1> SUFFICES ASSUME ValidationInv, CheckLevel PROVE ValidationInv'
  OBVIOUS
<1> DEFINE s == IF params.level \in ClientLogLevels /\ N > 0 THEN "participants" ELSE "rejected"
<1>1. stage = "level" /\ Goto(s) /\ s \in Stages
  BY DEF CheckLevel, Stages, Final
<1>2. TypeOK' /\ stage' = s /\ idx' = idx /\ params' = params /\ N' = N /\ Written' = Written
  BY <1>1, GotoKeeps
<1>3. idx = 1 /\ N \in Nat /\ params \in ExecuteParams
  BY <1>1, RequestOf DEF ValidationInv, LoopInv, TypeOK
<1>4. LoopInv'
  BY <1>1, <1>2, <1>3 DEF ValidationInv, LoopInv
<1>5. ChecksInv'
  BY <1>1, <1>2 DEF ChecksInv
<1>6. stage' = "rejected" => ~ValidParams
  BY <1>2, <1>3 DEF ValidParams
<1>7. AgreesWithValid'
  BY <1>2, <1>3, <1>6, ValidMeans DEF AgreesWithValid
<1> QED
  BY <1>2, <1>4, <1>5, <1>7 DEF ValidationInv

\* A participant that fails its checks is one that makes the request invalid; one
\* that passes is completed, and the loop goes on with the next.
LEMMA CheckParticipantStep == ValidationInv /\ CheckParticipant => ValidationInv'
<1> SUFFICES ASSUME ValidationInv, CheckParticipant PROVE ValidationInv'
  OBVIOUS
<1> DEFINE p == params.participants[idx]
<1>1. /\ stage = "participants" /\ idx \in 1..N /\ N \in Nat /\ params \in ExecuteParams
      /\ N = Len(Written) /\ p = Written[idx] /\ p # Null /\ InHand = p
      /\ document \in Document
  BY RequestOf DEF CheckParticipant, ValidationInv, LoopInv, TypeOK, InHand
<1>2. CASE Goto("rejected") /\ ~Passed(p, idx)
  <2>1. TypeOK' /\ stage' = "rejected" /\ idx' = idx /\ params' = params
        /\ N' = N /\ Written' = Written
    BY <1>2, GotoKeeps DEF Stages, Final
  <2>2. LoopInv'
    BY <1>1, <2>1 DEF ValidationInv, LoopInv
  <2>3. ChecksInv'
    BY <2>1 DEF ChecksInv
  <2>4. ~ValidParams
    BY <1>1, <1>2 DEF ValidParams, Passed
  <2>5. AgreesWithValid'
    BY <1>1, <2>1, <2>4, ValidMeans DEF AgreesWithValid
  <2> QED
    BY <2>1, <2>2, <2>3, <2>5 DEF ValidationInv
<1>3. CASE /\ Passed(p, idx)
           /\ params' = [params EXCEPT !.participants[idx] = Complete(p)]
           /\ idx' = idx + 1
           /\ stage' = IF idx = N THEN "network" ELSE "participants"
           /\ UNCHANGED document
  <2>1. params.participants \in Seq(ParticipantParams \cup {Null})
        /\ DOMAIN params.participants = 1..N /\ p \in ParticipantParams
    BY <1>1, RequestOf DEF ExecuteParams, Participants
  <2>2. Complete(p) \in ParticipantParams
    BY <1>3, <2>1, CompleteTyped DEF Passed
  <2>3. /\ params'.participants = [params.participants EXCEPT ![idx] = Complete(p)]
        /\ params'.network = params.network /\ params'.level = params.level
    BY <1>1, <1>3 DEF ExecuteParams
  <2>4. /\ params'.participants \in Seq(ParticipantParams \cup {Null})
        /\ Len(params'.participants) = N
        /\ \A i \in 1..N : params'.participants[i] =
                              IF i = idx THEN Complete(p) ELSE params.participants[i]
    BY <1>1, <2>1, <2>2, <2>3 DEF N
  <2>5. params' \in ExecuteParams
    BY <1>1, <1>3, <2>4 DEF ExecuteParams, Participants
  <2>6. N' = N /\ Written' = Written
    BY <1>3, <2>4 DEF N, Written
  <2>7. TypeOK'
    BY <1>1, <1>3, <2>5 DEF TypeOK, Stages
  <2>8. LoopInv'
    <3>1. N' = Len(Written)'
      BY <1>1, <2>6
    <3>2. ASSUME NEW i \in 1..N
          PROVE  /\ i < idx' => /\ Passed(Written[i], i)
                                /\ params'.participants[i] = Complete(Written[i])
                 /\ i >= idx' => params'.participants[i] = Written[i]
      BY <1>1, <1>3, <2>4 DEF ValidationInv, LoopInv
    <3>3. stage' = "participants" => idx' <= N
      BY <1>1, <1>3
    <3>4. stage' = "network" => N > 0 /\ idx' = N + 1
      BY <1>1, <1>3
    <3> QED
      BY <1>3, <2>6, <3>1, <3>2, <3>3, <3>4 DEF LoopInv, Passed
  <2>9. ChecksInv'
    BY <1>1, <1>3, <2>3 DEF ValidationInv, ChecksInv
  <2>10. AgreesWithValid'
    BY <1>3 DEF AgreesWithValid
  <2> QED
    BY <2>7, <2>8, <2>9, <2>10 DEF ValidationInv
<1> QED
  BY <1>1, <1>2, <1>3 DEF CheckParticipant, Passed

\* There was a null to dereference.
LEMMA PanicStep == ValidationInv /\ Panic => ValidationInv'
<1> SUFFICES ASSUME ValidationInv, Panic PROVE ValidationInv'
  OBVIOUS
<1>1. Goto("panicked") /\ "panicked" \in Stages /\ stage \in {"participants", "network"}
  BY DEF Panic, Stages, Final
<1>2. TypeOK' /\ stage' = "panicked" /\ idx' = idx /\ params' = params
      /\ N' = N /\ Written' = Written /\ (HasNull(params') <=> HasNull(params))
  BY <1>1, GotoKeeps
<1>3. N \in Nat /\ DOMAIN params.participants = 1..N /\ idx \in Nat \ {0}
  BY RequestOf DEF ValidationInv, TypeOK
<1>4. HasNull(params)
  BY <1>3 DEF Panic, HasNull, InHand, ValidationInv, LoopInv
<1>5. LoopInv'
  BY <1>1, <1>2 DEF ValidationInv, LoopInv
<1>6. ChecksInv' /\ AgreesWithValid'
  BY <1>2, <1>4 DEF ChecksInv, AgreesWithValid
<1> QED
  BY <1>2, <1>5, <1>6 DEF ValidationInv

\* The network's parameters.
LEMMA CheckNetworkStep == ValidationInv /\ CheckNetwork => ValidationInv'
<1> SUFFICES ASSUME ValidationInv, CheckNetwork PROVE ValidationInv'
  OBVIOUS
<1> DEFINE net == params.network
           bad == \/ Blank(net.networkId) \/ Blank(net.depositContract)
                  \/ net.secondsPerSlot = 0 \/ net.slotsPerEpoch = 0
           s   == IF bad THEN "rejected" ELSE "validators"
<1>1. stage = "network" /\ net # Null /\ Goto(s) /\ s \in Stages /\ params \in ExecuteParams
  BY DEF CheckNetwork, Stages, Final, ValidationInv, TypeOK
<1>2. TypeOK' /\ stage' = s /\ idx' = idx /\ params' = params /\ N' = N /\ Written' = Written
  BY <1>1, GotoKeeps
<1>3. LoopInv'
  BY <1>1, <1>2 DEF ValidationInv, LoopInv
<1>4. ChecksInv'
  BY <1>1, <1>2 DEF ValidationInv, ChecksInv
<1>5. bad => ~ValidParams
  BY DEF ValidParams
<1>6. AgreesWithValid'
  BY <1>1, <1>2, <1>5, ValidMeans DEF AgreesWithValid
<1> QED
  BY <1>2, <1>3, <1>4, <1>6 DEF ValidationInv

\* The number of validators, and the mnemonic.
LEMMA CheckValidatorsStep == ValidationInv /\ CheckValidators => ValidationInv'
<1> SUFFICES ASSUME ValidationInv, CheckValidators PROVE ValidationInv'
  OBVIOUS
<1> DEFINE net == params.network
           bad == Actual(net) < Required(net) \/ Blank(net.mnemonic)
           s   == IF bad THEN "rejected" ELSE "peering"
<1>1. stage = "validators" /\ net # Null /\ Goto(s) /\ s \in Stages /\ params \in ExecuteParams
  BY DEF CheckValidators, Stages, Final, ValidationInv, TypeOK, ChecksInv
<1>2. TypeOK' /\ stage' = s /\ idx' = idx /\ params' = params /\ N' = N /\ Written' = Written
  BY <1>1, GotoKeeps
<1>3. net \in NetworkParams /\ N \in Nat /\ UintLimit \in Nat \ {0}
  BY <1>1, RequestOf, UintLimitAssumption DEF ExecuteParams
<1>4. Actual(net) \in Nat /\ Required(net) \in Nat
  BY <1>3 DEF Actual, Required, NetworkParams
<1>5. Actual(net)' = Actual(net) /\ Required(net)' = Required(net)
  BY <1>2 DEF Actual, Required
<1>6. LoopInv'
  BY <1>1, <1>2 DEF ValidationInv, LoopInv
<1>7. ChecksInv'
  BY <1>1, <1>2, <1>4, <1>5 DEF ValidationInv, ChecksInv
<1>8. bad => ~ValidParams
  BY <1>4 DEF ValidParams
<1>9. AgreesWithValid'
  BY <1>1, <1>2, <1>8, ValidMeans DEF AgreesWithValid
<1> QED
  BY <1>2, <1>6, <1>7, <1>9 DEF ValidationInv

\* Nethermind as one of the first two: by now all else is known to be valid.
LEMMA CheckPeeringStep == ValidationInv /\ CheckPeering => ValidationInv'
<1> SUFFICES ASSUME ValidationInv, CheckPeering PROVE ValidationInv'
  OBVIOUS
<1> DEFINE net == params.network
           bad == \E i \in 1..N \cap {1, 2} : params.participants[i].el = "nethermind"
           s   == IF bad THEN "rejected" ELSE "accepted"
<1>1. stage = "peering" /\ Goto(s) /\ s \in Stages /\ params \in ExecuteParams
      /\ document \in Document
  BY DEF CheckPeering, Stages, Final, ValidationInv, TypeOK
<1>2. TypeOK' /\ stage' = s /\ idx' = idx /\ params' = params /\ N' = N /\ Written' = Written
      /\ (HasNull(params') <=> HasNull(params))
  BY <1>1, GotoKeeps
<1>3. Actual(net)' = Actual(net) /\ Required(net)' = Required(net)
  BY <1>2 DEF Actual, Required
<1>4. LoopInv'
  BY <1>1, <1>2 DEF ValidationInv, LoopInv
<1>5. ChecksInv'
  BY <1>1, <1>2, <1>3 DEF ValidationInv, ChecksInv
<1>6. N \in Nat /\ N > 0 /\ idx = N + 1 /\ N = Len(Written)
      /\ DOMAIN params.participants = 1..N
  BY <1>1, RequestOf DEF ValidationInv, LoopInv
<1>7. ASSUME NEW i \in 1..N
      PROVE  /\ params.participants[i] # Null
             /\ params.participants[i].el \in ELTypes /\ params.participants[i].cl \in CLTypes
             /\ i = 1 => ~NotMining(params.participants[i].el)
  <2>1. /\ Written[i] \in ParticipantParams \cup {Null} /\ Passed(Written[i], i)
        /\ params.participants[i] = Complete(Written[i])
    BY <1>1, <1>6, WrittenTyped DEF ValidationInv, LoopInv, Participants
  <2> QED
    BY <2>1, CompleteTyped DEF Passed
<1>8. ~HasNull(params)
  BY <1>1, <1>6, <1>7 DEF HasNull, ValidationInv, ChecksInv
<1>9. bad => ~ValidParams
  BY <1>6 DEF ValidParams, NotMining
<1>10. ~bad => ValidParams
  BY <1>1, <1>6, <1>7 DEF ValidParams, ValidationInv, ChecksInv
<1>11. AgreesWithValid'
  BY <1>1, <1>2, <1>8, <1>9, <1>10, ValidMeans DEF AgreesWithValid
<1> QED
  BY <1>2, <1>4, <1>5, <1>11 DEF ValidationInv

\* Every step keeps the invariant.
LEMMA ValidationStep == ValidationInv /\ [Next]_vars => ValidationInv'
<1> SUFFICES ASSUME ValidationInv, [Next]_vars PROVE ValidationInv'
  OBVIOUS
<1>1. CASE UNCHANGED vars
  <2>1. N' = N /\ Written' = Written
    BY <1>1 DEF vars, N, Written
  <2>2. Actual(params.network)' = Actual(params.network)
        /\ Required(params.network)' = Required(params.network)
    BY <1>1, <2>1 DEF vars, Actual, Required
  <2> QED
    BY <1>1, <2>1, <2>2
       DEF vars, ValidationInv, TypeOK, LoopInv, ChecksInv, AgreesWithValid, HasNull
<1>2. CASE Next
  BY <1>2, DeserializeStep, FailToDeserializeStep, CheckLevelStep, CheckParticipantStep,
     PanicStep, CheckNetworkStep, CheckValidatorsStep, CheckPeeringStep DEF Next
<1> QED
  BY <1>1, <1>2

\* The inductive invariant holds of every call.
THEOREM ValidationInvHolds == Spec => []ValidationInv
BY ValidationInit, ValidationStep, PTL DEF Spec

\* The code accepts exactly what ModuleParams calls valid.
THEOREM AgreesWithValidHolds == Spec => []AgreesWithValid
<1>1. ValidationInv => AgreesWithValid
  BY DEF ValidationInv
<1> QED
  BY ValidationInvHolds, <1>1, PTL

\* In accepted parameters every participant is the one that was written,
\* completed.
LEMMA AcceptedCompleted ==
    ASSUME ValidationInv, stage = "accepted", NEW i \in 1..N
    PROVE  /\ N \in Nat
           /\ Written[i] \in ParticipantParams
           /\ Written[i].el \in ELTypes /\ Written[i].cl \in CLTypes
           /\ params.participants[i] = Complete(Written[i])
           /\ i = 1 => ~NotMining(Written[i].el)
<1>1. params \in ExecuteParams /\ document \in Document
  BY DEF ValidationInv, TypeOK
<1>2. N \in Nat /\ N = Len(Written) /\ idx = N + 1
  BY <1>1, RequestOf DEF ValidationInv, LoopInv
<1> QED
  BY <1>1, <1>2, WrittenTyped DEF ValidationInv, LoopInv, Passed, Participants

\* Every accepted participant has the images that were written or its default's.
THEOREM ImagesChosenHolds == Spec => []ImagesChosen
<1>1. ValidationInv => ImagesChosen
  <2> SUFFICES ASSUME ValidationInv, stage = "accepted", NEW i \in 1..N
               PROVE  LET p == params.participants[i] IN
                      /\ p.elImage = IF Written[i].elImage # "" THEN Written[i].elImage
                                                               ELSE DefaultElImages[p.el]
                      /\ p.clImage = IF Written[i].clImage # "" THEN Written[i].clImage
                                                               ELSE DefaultClImages[p.cl]
    BY DEF ImagesChosen
  <2> DEFINE p == params.participants[i]
             w == Written[i]
  <2>1. /\ w \in ParticipantParams /\ w.el \in ELTypes /\ w.cl \in CLTypes
        /\ p = Complete(w)
    BY AcceptedCompleted
  <2>2. /\ p.el = w.el /\ p.cl = w.cl
        /\ p.elImage = IF w.elImage = "" THEN DefaultElImages[w.el] ELSE w.elImage
        /\ p.clImage = IF w.clImage = "" THEN DefaultClImages[w.cl] ELSE w.clImage
    BY <2>1, CompleteTyped
  <2> QED
    BY <2>2
<1> QED
  BY ValidationInvHolds, <1>1, PTL

\* A product taken modulo the width is no more than the product.
LEMMA ModuloIsLess == ASSUME NEW a \in Nat, NEW w \in Nat \ {0} PROVE a % w <= a
OBVIOUS

\* A number below the width is what it is modulo the width.
LEMMA ModuloBelow == ASSUME NEW a \in Nat, NEW w \in Nat \ {0}, a < w PROVE a % w = a
OBVIOUS

\* What is accepted has enough validators unless the required number wrapped.
THEOREM EnoughUnlessWrappedHolds == Spec => []EnoughUnlessWrapped
<1>1. ValidationInv => EnoughUnlessWrapped
  <2> DEFINE net == params.network
  <2> SUFFICES ASSUME ValidationInv, stage = "accepted", 2 * net.slotsPerEpoch < UintLimit
               PROVE  N * net.keysPerNode >= 2 * net.slotsPerEpoch
    BY DEF EnoughUnlessWrapped
  <2>1. params \in ExecuteParams /\ net # Null /\ Actual(net) >= Required(net)
    BY DEF ValidationInv, TypeOK, ChecksInv
  <2>2. net.keysPerNode \in Nat /\ net.slotsPerEpoch \in Nat /\ N \in Nat
        /\ UintLimit \in Nat \ {0}
    BY <2>1, RequestOf, UintLimitAssumption DEF ExecuteParams, NetworkParams
  <2>3. N * net.keysPerNode \in Nat /\ 2 * net.slotsPerEpoch \in Nat
    BY <2>2
  <2>4. Actual(net) <= N * net.keysPerNode
    BY <2>2, <2>3, ModuloIsLess DEF Actual
  <2>5. Required(net) = 2 * net.slotsPerEpoch
    BY <2>2, <2>3, ModuloBelow DEF Required
  <2>6. Actual(net) \in Nat
    BY <2>2, <2>3 DEF Actual
  <2> QED
    BY <2>1, <2>3, <2>4, <2>5, <2>6
<1> QED
  BY ValidationInvHolds, <1>1, PTL

\* What passes the validation and a launcher refuses is known exactly.
THEOREM RefusedLateHolds == Spec => []RefusedLate
<1>1. ValidationInv => RefusedLate
  <2> SUFFICES ASSUME ValidationInv, stage = "accepted", NEW i \in 1..N
               PROVE  LET p == params.participants[i] IN
                      LauncherRefuses(p, i) <=> \/ i = 1 /\ p.el = "erigon"
                                                \/ i = 2 /\ p.el = "besu"
                                                \/ p.cl = "prysm" /\ Written[i].clImage = "clImage"
    BY DEF RefusedLate
  <2> DEFINE p == params.participants[i]
             w == Written[i]
  <2>1. /\ N \in Nat /\ i \in Nat /\ w \in ParticipantParams
        /\ w.el \in ELTypes /\ w.cl \in CLTypes /\ p = Complete(w)
        /\ i = 1 => ~NotMining(w.el)
    BY AcceptedCompleted
  <2>2. /\ p.el = w.el /\ p.cl = w.cl
        /\ p.clImage = IF w.clImage = "" THEN DefaultClImages[w.cl] ELSE w.clImage
    BY <2>1, CompleteTyped
  <2>3. w.clImage \in CLImages
    BY <2>1 DEF ParticipantParams
  <2>4. p.cl = "prysm" => (IsImagePair(p.clImage) <=> w.clImage # "clImage")
    BY <2>1, <2>2, <2>3 DEF DefaultClImages, CLImages, IsImagePair, CLTypes
  <2>5. i \in {1, 2} => p.el # "nethermind"
    BY <2>1 DEF ValidationInv, ChecksInv
  <2>6. ElLauncher(p.el).needs > i - 1 <=> \/ i = 1 /\ p.el = "erigon"
                                           \/ i = 2 /\ p.el = "besu"
    <3>1. CASE p.el = "geth"
      BY <2>1, <3>1 DEF ElLauncher, Geth
    <3>2. CASE p.el = "erigon"
      BY <2>1, <3>2 DEF ElLauncher, Erigon
    <3>3. CASE p.el = "nethermind"
      <4>1. i # 1 /\ i # 2
        BY <2>1, <2>5, <3>3
      <4> QED
        BY <2>1, <3>3, <4>1 DEF ElLauncher, Nethermind
    <3>4. CASE p.el = "besu"
      <4>1. i # 1
        BY <2>1, <2>2, <3>4 DEF NotMining
      <4> QED
        BY <2>1, <3>4, <4>1 DEF ElLauncher, Besu
    <3> QED
      BY <2>1, <2>2, <3>1, <3>2, <3>3, <3>4 DEF ELTypes
  <2> QED
    BY <2>4, <2>6 DEF LauncherRefuses
<1> QED
  BY ValidationInvHolds, <1>1, PTL
=============================================================================
