---------------------- MODULE ModuleExecution_theorems ----------------------
(***************************************************************************)
(* What the invariant of ModuleExecution gives: the properties of the      *)
(* enclave and of the executions, for every set of executions, every set   *)
(* of requests and any length of run; and what a step does to the enclave: *)
(* it takes away only the data generator of the execution that steps, and  *)
(* is a step, or a stutter, of NetworkClaim.                               *)
(***************************************************************************)
EXTENDS ModuleExecution_proofs

----------------------------------------------------------------------------
(* Properties that are parts of the invariant.                             *)

\* The variables keep their types.
THEOREM TypeCorrect == Spec => []TypeOK
<1>1. Inv => TypeOK
  BY DEF Inv
<1> QED
  BY <1>1, InvHolds, PTL

\* No launcher is handed the address of a node that is gone, belongs to another
\* execution or has not yet come up.
THEOREM PeersAreUsable == Spec => []PeersUsable
<1>1. Inv => PeersUsable
  BY DEF Inv, EnclaveInv
<1> QED
  BY <1>1, InvHolds, PTL

\* The EL network is up before the first CL container is there.
THEOREM ElNetworkIsFirst == Spec => []ElNetworkFirst
<1>1. Inv => ElNetworkFirst
  BY DEF Inv, EnclaveInv
<1> QED
  BY <1>1, InvHolds, PTL

----------------------------------------------------------------------------
(* One network.                                                            *)

\* The owner of the first EL client owns every lasting service.
LEMMA OneOwner == Inv => OneNetwork
<1> SUFFICES ASSUME Inv, NEW s \in NetworkServices, NEW t \in NetworkServices
             PROVE  s.owner = t.owner
  BY DEF OneNetwork
<1> QED
  BY DEF Inv, EnclaveInv, Claimed, UniqueIds, Owns

\* Two executions never leave parts of two networks in one enclave.
THEOREM OneNetworkHolds == Spec => []OneNetwork
BY InvHolds, OneOwner, PTL

\* A participant's services: which of them hold its keys.
LEMMA KeyServices ==
    ASSUME Inv, NEW s \in services, HasKeys(s)
    PROVE  /\ s \in NetworkServices
           /\ \E i \in Nat :
                 \/ s.id = <<"cl", i>> /\ Node(s.owner, i).cl \notin Split
                 \/ s.id = <<"clValidator", i>> /\ Node(s.owner, i).cl \in Split
<1>1. s.id[1] \in {"cl", "clValidator"} /\ s \in NetworkServices
  BY DEF HasKeys, NetworkServices, IsGenerator
<1>2. s.id \in WholeNetwork(request[s.owner])
  BY <1>1 DEF Inv, EnclaveInv, Claimed
<1>3. s.id \notin ToolServices
  BY <1>1 DEF ToolServices, ToolId, Tools
<1>4. PICK i \in 0..NumParticipants(request[s.owner]) - 1 :
            s.id \in NodeServices(request[s.owner], i)
  BY <1>2, <1>3 DEF WholeNetwork, ParticipantServices
<1>5. i \in Nat
  <2>1. request[s.owner] \in Request
    BY ExecutionAssumption DEF Inv, TypeOK, Service
  <2>2. NumParticipants(request[s.owner]) \in Nat
    BY <2>1 DEF NumParticipants, Request
  <2> QED
    BY <2>2
<1>6. \/ s.id = <<"cl", i>> /\ Node(s.owner, i).cl \notin Split
      \/ s.id = <<"clValidator", i>> /\ Node(s.owner, i).cl \in Split
  BY <1>1, <1>4 DEF NodeServices, ElId, MevBoostId, ValidatorId, BeaconId, Node
<1> QED
  BY <1>1, <1>5, <1>6

\* The validator keys of a participant are never in two containers.
LEMMA KeysOnce == Inv => KeysRunOnce
<1> SUFFICES ASSUME Inv, NEW s \in services, NEW t \in services,
                    HasKeys(s), HasKeys(t), s.id[2] = t.id[2]
             PROVE  s = t
  BY DEF KeysRunOnce
<1>1. s.owner = t.owner
  BY KeyServices, OneOwner DEF OneNetwork
<1>2. PICK i \in Nat :
            \/ s.id = <<"cl", i>> /\ Node(s.owner, i).cl \notin Split
            \/ s.id = <<"clValidator", i>> /\ Node(s.owner, i).cl \in Split
  BY KeyServices
<1>3. PICK j \in Nat :
            \/ t.id = <<"cl", j>> /\ Node(t.owner, j).cl \notin Split
            \/ t.id = <<"clValidator", j>> /\ Node(t.owner, j).cl \in Split
  BY KeyServices
<1>4. s.id = t.id
  BY <1>1, <1>2, <1>3
<1> QED
  BY <1>4 DEF Inv, EnclaveInv, UniqueIds

\* No validator of the network can be slashed for keys run twice.
THEOREM KeysRunOnceHolds == Spec => []KeysRunOnce
BY InvHolds, KeysOnce, PTL

----------------------------------------------------------------------------
(* What a successful execution leaves.                                     *)

\* A lasting service belongs to a participant or is a tool.
LEMMA Clients ==
    ASSUME Inv, NEW e \in Execs, stage[e] \in AfterCls, NEW id \in WholeNetwork(request[e]),
           IsClient(id)
    PROVE  id \in answered
<1>1. id \in ParticipantServices(request[e])
  BY DEF WholeNetwork, ToolServices, ToolId, Tools, IsClient
<1>2. PICK i \in 0..N(e) - 1 : id \in NodeServices(request[e], i)
  BY <1>1 DEF ParticipantServices, N
<1>3. id = ElId(i) \/ id = BeaconId(Node(e, i).cl, i)
  BY <1>2 DEF NodeServices, ValidatorId, MevBoostId, IsClient, Node
<1>4. N(e) \in Nat /\ Live(e) /\ Len(clCtxs[e]) = N(e)
  BY ElsUp DEF Inv, ExecutionInv, Counted
<1>5. CASE id = ElId(i)
  BY <1>5, ElsUp
<1>6. CASE id = BeaconId(Node(e, i).cl, i)
  <2>1. i + 1 \in 1..Len(clCtxs[e]) /\ (i + 1) - 1 = i
    BY <1>4
  <2> QED
    BY <2>1, <1>4, <1>6, ClsUp
<1> QED
  BY <1>3, <1>5, <1>6

\* The builder of a network has everything the participants asked for, and the
\* tools if it was asked for them and has reported success.
LEMMA AllThere ==
    ASSUME Inv, NEW e \in Execs, stage[e] = "succeeded", NEW id \in WholeNetwork(request[e])
    PROVE  Owns(e, id) /\ id[1] # "generator"
<1>0. /\ stage[e] \in AfterCls /\ Live(e) /\ N(e) \in Nat /\ ExecutionInv(e)
      /\ Len(clCtxs[e]) = N(e)
  BY ElsUp DEF AfterCls, Inv, ExecutionInv, Counted
<1>1. CASE id \in ParticipantServices(request[e])
  <2>1. PICK i \in 0..N(e) - 1 : id \in NodeServices(request[e], i)
    BY <1>1 DEF ParticipantServices, N
  <2>2. i + 1 \in 1..Len(clCtxs[e]) /\ (i + 1) - 1 = i
    BY <1>0
  <2>3. \A j \in NodeServices(request[e], (i + 1) - 1) : Owns(e, j)
    BY <1>0, <2>2 DEF ExecutionInv, ClCtxsSound
  <2> QED
    BY <2>1, <2>2, <2>3, NodeServicesLast
<1>2. CASE request[e].additional /\ id \in ToolServices
  <2>1. PICK tool \in Tools \cup {"verifier"} : id = ToolId(tool)
    BY <1>2 DEF ToolServices
  <2>2. ToolsBefore(e) = Tools \cup {"verifier"}
    BY <1>2 DEF ToolsBefore, At
  <2>3. Owns(e, id)
    BY <1>0, <2>1, <2>2 DEF ExecutionInv, ToolsInHand
  <2> QED
    BY <2>1, <2>3 DEF ToolId, Tools
<1> QED
  BY <1>1, <1>2 DEF WholeNetwork

\* A successful execution holds what it asked for, by what it relied on.
LEMMA Complete == Inv => SuccessIsComplete
<1> SUFFICES ASSUME Inv, NEW e \in Execs, stage[e] = "succeeded"
             PROVE  /\ {s.id : s \in NetworkServices} = WholeNetwork(request[e])
                    /\ \A s \in NetworkServices :
                          s.owner = e /\ (IsClient(s.id) => s.id \in answered)
  BY DEF SuccessIsComplete, IsClient
<1>1. stage[e] \in AfterCls /\ Owns(e, ElId(0))
  BY ElsUp DEF AfterCls
<1>2. ASSUME NEW s \in NetworkServices
      PROVE  s.owner = e /\ s.id \in WholeNetwork(request[e])
  <2>1. PICK first \in services : first.id = ElId(0) /\ first.owner = e
    BY <1>1 DEF Owns
  <2>2. first \in NetworkServices
    BY <2>1 DEF NetworkServices, IsGenerator, ElId
  <2>3. s.owner = e
    BY <2>1, <2>2, OneOwner DEF OneNetwork
  <2> QED
    BY <2>3 DEF Inv, EnclaveInv, Claimed
<1>3. ASSUME NEW id \in WholeNetwork(request[e])
      PROVE  \E s \in NetworkServices : s.id = id
  BY AllThere DEF Owns, NetworkServices, IsGenerator
<1>4. {s.id : s \in NetworkServices} = WholeNetwork(request[e])
  BY <1>2, <1>3
<1>5. ASSUME NEW s \in NetworkServices
      PROVE  s.owner = e /\ (IsClient(s.id) => s.id \in answered)
  BY <1>1, <1>2, Clients
<1> QED
  BY <1>4, <1>5

\* Success is reported only of the whole network, every client of it up.
THEOREM SuccessIsCompleteHolds == Spec => []SuccessIsComplete
BY InvHolds, Complete, PTL
----------------------------------------------------------------------------
(* The steps outside data generation.                                      *)

Generates(e) == LaunchGenerator(e) \/ RunGenerator(e) \/ RemoveGenerator(e)

\* All that matters here of such a step: it adds at most one service, of its
\* own, does not fail when it adds one, reports success only past the EL
\* clients, and enters data generation at its beginning.
Lasting(e, s, p) ==
    /\ stage[e] \notin Final /\ Goto(e, s, p)
    /\ \/ services' = services
       \/ /\ s \notin {"failed", "panicked"}
          /\ \E n \in Service : n.owner = e /\ services' = services \cup {n}
    /\ s = "succeeded" => stage[e] \in {"cl"} \cup AfterCls
    /\ s \in GeneratorStages => p = "launch"

\* A step that asks for a service is of this kind.
LEMMA AddsLasting ==
    ASSUME Inv, NEW e \in Execs, NEW id, NEW peers, NEW s \in Stages, NEW p \in Phases,
           AddService(e, id, peers, s, p), services' \in SUBSET Service,
           stage[e] \notin Final, s \notin GeneratorStages \cup {"failed", "panicked"},
           s = "succeeded" => stage[e] \in AfterCls
    PROVE  \E t \in Stages, q \in Phases : Lasting(e, t, q)
<1>1. CASE /\ Goto(e, s, p)
           /\ services' = services \cup {[id |-> id, owner |-> e, peers |-> peers]}
  <2> PICK n : n = [id |-> id, owner |-> e, peers |-> peers]
    OBVIOUS
  <2>1. n \in Service /\ n.owner = e /\ services' = services \cup {n}
    BY <1>1
  <2> QED
    BY <1>1, <2>1 DEF Lasting
<1>2. CASE Goto(e, "failed", "launch") /\ services' = services
  <2>1. "failed" \in Stages /\ "launch" \in Phases
    BY DEF Stages, Final, Phases
  <2> QED
    BY <1>2, <2>1 DEF Lasting, GeneratorStages
<1> QED
  BY <1>1, <1>2 DEF AddService

\* A step of an execution adds at most one lasting service and removes none.
LEMMA StepLasting ==
    ASSUME Inv, NEW e \in Execs, Step(e), ~Generates(e)
    PROVE  /\ request' = request /\ genTime' = genTime
           /\ \E s \in Stages, p \in Phases : Lasting(e, s, p)
<1>0. /\ services' \in SUBSET Service
      /\ \A s \in Stages, p \in Phases : s \in Stages /\ p \in Phases
  BY StepInv DEF Inv, TypeOK
<1> USE DEF Stages, Phases, Final, GeneratorStages, Tools
<1>1. CASE Start(e)
  BY <1>1 DEF Start, Lasting
<1>2. CASE Abort(e)
  BY <1>2 DEF Abort, Running, Lasting
<1>3. CASE UploadPrefundedKeys(e)
  BY <1>3, SMTT(30) DEF UploadPrefundedKeys, Lasting
<1>4. CASE LaunchEl(e)
  <2>1. /\ AddService(e, ElId(ElIndex(e)), ElPeers(ElType(e), elCtxs[e]), "el", "wait")
        /\ stage[e] = "el" /\ request' = request /\ genTime' = genTime
    BY <1>4 DEF LaunchEl, At
  <2> QED
    BY <1>0, <2>1, AddsLasting
<1>5. CASE RejectEl(e)
  <2>1. PICK s \in {"failed", "panicked"} : Goto(e, s, "launch")
    BY <1>5, ElLoop, LauncherFacts DEF RejectEl, At
  <2> QED
    BY <1>5, <2>1 DEF RejectEl, At, Lasting
<1>6. CASE ElAnswers(e)
  BY <1>6, SMTT(30) DEF ElAnswers, At, Lasting
<1>7. CASE LaunchMevBoost(e)
  <2>1. /\ AddService(e, MevBoostId(ClIndex(e)), {}, "cl", "launch")
        /\ stage[e] = "cl" /\ request' = request /\ genTime' = genTime
    BY <1>7 DEF LaunchMevBoost, At
  <2> QED
    BY <1>0, <2>1, AddsLasting, SMTT(30)
<1>8. CASE LaunchBeacon(e)
  <2>1. /\ AddService(e, ClBeacon(e), BeaconPeers(e), "cl", "health")
        /\ stage[e] = "cl" /\ request' = request /\ genTime' = genTime
    BY <1>8 DEF LaunchBeacon, At
  <2> QED
    BY <1>0, <2>1, AddsLasting
<1>9. CASE BeaconAnswers(e)
  BY <1>9 DEF BeaconAnswers, At, Lasting
<1>10. CASE ReadIdentity(e)
  BY <1>10, SMTT(30) DEF ReadIdentity, At, Lasting
<1>11. CASE LaunchValidator(e)
  <2> PICK p : p = IF ClType(e) \in ValidatorFirst THEN "identity" ELSE "finish"
    OBVIOUS
  <2>1. /\ AddService(e, ValidatorId(ClIndex(e)), {ClBeacon(e)}, "cl", p)
        /\ p \in Phases
        /\ stage[e] = "cl" /\ request' = request /\ genTime' = genTime
    BY <1>11 DEF LaunchValidator, At
  <2> QED
    BY <1>0, <2>1, AddsLasting, SMTT(30)
<1>12. CASE FinishNode(e)
  <2>1. /\ stage[e] = "cl" /\ services' = services
        /\ request' = request /\ genTime' = genTime
    BY <1>12 DEF FinishNode, At
  <2>2. PICK s \in {"cl", "spammer", "succeeded"}, p \in {"mevBoost", "launch"} : Goto(e, s, p)
    BY <1>12 DEF FinishNode, FirstClPhase
  <2> QED
    BY <2>1, <2>2 DEF Lasting
<1>13. CASE LaunchTool(e)
  <2> PICK id, peers, next : /\ id = ToolId(stage[e])
                             /\ peers = ToolPeers(e, stage[e]) /\ next = AfterTool(stage[e])
    OBVIOUS
  <2>1. /\ AddService(e, id, peers, next, "launch")
        /\ stage[e] \in Tools /\ request' = request /\ genTime' = genTime
    BY <1>13 DEF LaunchTool
  <2>2. next \in {"genesisWait", "prometheus", "grafana", "verifier"}
    BY <2>1 DEF AfterTool
  <2> QED
    BY <1>0, <2>1, <2>2, AddsLasting, SMTT(30)
<1>14. CASE GenesisOccurs(e)
  BY <1>14 DEF GenesisOccurs, Lasting
<1>15. CASE LaunchVerifier(e)
  <2> PICK id, peers, s, p :
        /\ id = ToolId("verifier")
        /\ peers = Elements(elCtxs[e]) \cup Elements(clCtxs[e])
        /\ s = CASE request[e].verify -> "verifier"
                 [] ~request[e].verify /\ request[e].finalize -> "finalization"
                 [] OTHER -> "succeeded"
        /\ p = IF request[e].verify THEN "run" ELSE "launch"
    OBVIOUS
  <2>1. /\ AddService(e, id, peers, s, p) /\ stage[e] = "verifier"
        /\ request' = request /\ genTime' = genTime
    BY <1>15 DEF LaunchVerifier, At
  <2>2. s \in {"verifier", "finalization", "succeeded"} /\ p \in {"run", "launch"}
    OBVIOUS
  <2> QED
    BY <1>0, <2>1, <2>2, AddsLasting DEF AfterCls
<1>16. CASE VerifierPasses(e) \/ EpochFinalized(e)
  BY <1>16 DEF VerifierPasses, EpochFinalized, At, Lasting, AfterCls
<1> QED
  BY <1>1, <1>2, <1>3, <1>4, <1>5, <1>6, <1>7, <1>8, <1>9, <1>10, <1>11, <1>12, <1>13,
     <1>14, <1>15, <1>16 DEF Step, Advance, Generates

----------------------------------------------------------------------------
(* Who removes what.                                                       *)

\* A step of one execution that removes nothing leaves the generators of the
\* others in hand.
LEMMA OthersGenerate ==
    ASSUME GeneratorsInHand, NEW e \in Execs, services \subseteq services',
           \A f \in Execs \ {e} : /\ stage'[f] = stage[f] /\ phase'[f] = phase[f]
                                  /\ genTime'[f] = genTime[f],
           GeneratorInHand(e)'
    PROVE  GeneratorsInHand'
BY DEF GeneratorsInHand, GeneratorInHand, Owns

\* A step keeps the generators that other executions are using.
LEMMA StepGenerators ==
    ASSUME Inv, GeneratorsInHand, NEW e \in Execs, Step(e)
    PROVE  /\ GeneratorsInHand'
           /\ \A s \in services \ services' :
                 IsGenerator(s) /\ phase[s.owner] \in {"remove", "undo"}
<1>0. TypeOK
  BY DEF Inv
<1>1. CASE ~Generates(e)
  <2>1. genTime' = genTime
    BY <1>1, StepLasting
  <2>2. PICK s \in Stages, p \in Phases : Lasting(e, s, p)
    BY <1>1, StepLasting
  <2>3. services \subseteq services'
    BY <2>2 DEF Lasting
  <2>4. /\ stage'[e] = s /\ phase'[e] = p
        /\ \A f \in Execs \ {e} : stage'[f] = stage[f] /\ phase'[f] = phase[f]
    BY <1>0, <2>2, Goes DEF Lasting
  <2>5. GeneratorInHand(e)'
    BY <2>2, <2>4 DEF Lasting, GeneratorInHand
  <2> QED
    BY <2>1, <2>3, <2>4, <2>5, OthersGenerate
<1>2. CASE LaunchGenerator(e)
  <2> PICK id, s : id = GeneratorId(now) /\ s = stage[e]
    OBVIOUS
  <2>1. /\ AddService(e, id, {}, s, "run") /\ s \in Stages
        /\ genTime' = [genTime EXCEPT ![e] = now] /\ genTime'[e] = now
        /\ "launch" \in Phases /\ "run" \in Phases /\ "failed" \in Stages
    BY <1>0, <1>2 DEF LaunchGenerator, Stages, Final, Phases, TypeOK
  <2>2. CASE /\ Goto(e, s, "run")
             /\ services' = services \cup {[id |-> id, owner |-> e, peers |-> {}]}
    <3> PICK n : n = [id |-> id, owner |-> e, peers |-> {}]
      OBVIOUS
    <3>1. n \in services' /\ n.id = GeneratorId(genTime'[e]) /\ n.owner = e
          /\ services \subseteq services'
      BY <2>1, <2>2
    <3>2. GeneratorInHand(e)'
      BY <3>1 DEF GeneratorInHand, Owns, GeneratorId
    <3>3. \A f \in Execs \ {e} : /\ stage'[f] = stage[f] /\ phase'[f] = phase[f]
                                 /\ genTime'[f] = genTime[f]
      BY <1>0, <2>1, <2>2, Goes DEF TypeOK
    <3> QED
      BY <3>1, <3>2, <3>3, OthersGenerate
  <2>3. CASE Goto(e, "failed", "launch") /\ services' = services
    <3>1. /\ stage'[e] = "failed"
          /\ \A f \in Execs \ {e} : /\ stage'[f] = stage[f] /\ phase'[f] = phase[f]
                                    /\ genTime'[f] = genTime[f]
      BY <1>0, <2>1, <2>3, Goes DEF TypeOK
    <3>2. GeneratorInHand(e)'
      BY <3>1 DEF GeneratorInHand, GeneratorStages
    <3> QED
      BY <2>3, <3>1, <3>2, OthersGenerate
  <2> QED
    BY <2>1, <2>2, <2>3 DEF AddService
<1>3. CASE RunGenerator(e)
  <2>1. PICK outcome \in {"remove", "undo"} : Goto(e, stage[e], outcome)
    BY <1>3 DEF RunGenerator
  <2>2. /\ services' = services /\ genTime' = genTime /\ stage[e] \in GeneratorStages
        /\ phase[e] = "run" /\ stage[e] \in Stages /\ outcome \in Phases
    BY <1>3 DEF RunGenerator, Stages, Phases
  <2>3. /\ stage'[e] = stage[e] /\ phase'[e] = outcome
        /\ \A f \in Execs \ {e} : stage'[f] = stage[f] /\ phase'[f] = phase[f]
    BY <1>0, <2>1, <2>2, Goes
  <2>4. GeneratorInHand(e)'
    BY <2>2, <2>3 DEF GeneratorsInHand, GeneratorInHand, Owns
  <2> QED
    BY <2>2, <2>3, <2>4, OthersGenerate
<1>4. CASE RemoveGenerator(e)
  <2>1. /\ genTime' = genTime /\ phase[e] \in {"remove", "undo"}
        /\ Owns(e, GeneratorId(genTime[e]))
    BY <1>4 DEF RemoveGenerator, GeneratorsInHand, GeneratorInHand
  <2>2. \A t \in services : t.id = GeneratorId(genTime[e]) => t.owner = e
    BY <2>1 DEF Inv, EnclaveInv, UniqueIds, Owns
  <2>3. \A t \in services \ services' : t.id = GeneratorId(genTime[e])
    BY <1>4 DEF RemoveGenerator
  <2>4. PICK s \in Stages, p \in Phases :
            Goto(e, s, p) /\ ~(s \in GeneratorStages /\ p \in {"run", "remove", "undo"})
    <3> USE DEF RemoveGenerator, Stages, GeneratorStages, Phases, Final
    <3>1. CASE phase[e] = "undo"
      BY <1>4, <3>1
    <3>2. CASE phase[e] = "remove" /\ stage[e] = "keystores"
      BY <1>4, <3>2
    <3>3. CASE phase[e] = "remove" /\ stage[e] = "elGenesis"
      BY <1>4, <3>3
    <3>4. CASE phase[e] = "remove" /\ stage[e] = "clGenesis"
      <4>1. FirstClPhase(e, 0) \in {"mevBoost", "launch"}
        BY DEF FirstClPhase
      <4> QED
        BY <1>4, <3>4, <4>1
    <3> QED
      BY <1>4, <3>1, <3>2, <3>3, <3>4
  <2>5. /\ stage'[e] = s /\ phase'[e] = p
        /\ \A f \in Execs \ {e} : stage'[f] = stage[f] /\ phase'[f] = phase[f]
    BY <1>0, <2>4, Goes
  <2>6. ASSUME NEW f \in Execs, GeneratorInHand(f)
        PROVE  GeneratorInHand(f)'
    <3>1. CASE f = e
      BY <3>1, <2>4, <2>5 DEF GeneratorInHand
    <3>2. CASE f # e /\ ~Owns(f, GeneratorId(genTime[f]))
      BY <2>5, <2>6, <3>2, <2>1 DEF GeneratorInHand
    <3>3. CASE f # e /\ Owns(f, GeneratorId(genTime[f]))
      <4>1. PICK t \in services : t.id = GeneratorId(genTime[f]) /\ t.owner = f
        BY <3>3 DEF Owns
      <4>2. t \in services'
        BY <4>1, <3>3, <2>2, <2>3
      <4> QED
        BY <4>1, <4>2, <2>1 DEF GeneratorInHand, Owns, GeneratorId
    <3> QED
      BY <3>1, <3>2, <3>3
  <2> QED
    BY <2>1, <2>2, <2>3, <2>6 DEF GeneratorsInHand, IsGenerator, GeneratorId
<1> QED
  BY <1>1, <1>2, <1>3, <1>4 DEF Generates

\* The whole inductive invariant: what each execution relies on, and that the
\* data generator it is using is there and is its own.
THEOREM FullInvHolds == Spec => []FullInv
<1>1. Init => GeneratorsInHand
  BY DEF Init, GeneratorsInHand, GeneratorInHand, GeneratorStages
<1>2. Inv /\ GeneratorsInHand /\ [Next]_vars => GeneratorsInHand'
  <2>1. Tick \/ UNCHANGED vars => UNCHANGED <<services, stage, phase, genTime>>
    BY DEF Tick, vars, progress
  <2> QED
    BY <2>1, StepGenerators DEF Next, GeneratorsInHand, GeneratorInHand, Owns
<1>3. FullInv <=> Inv /\ GeneratorsInHand
  BY DEF FullInv
<1> QED
  BY <1>1, <1>2, <1>3, InvHolds, PTL DEF Spec

\* No execution removes a node, or the generator another one is using.
THEOREM OnlySpentGeneratorsRemovedHolds == Spec => OnlySpentGeneratorsRemoved
<1>1. FullInv /\ [Next]_vars =>
        [\A s \in services \ services' :
            IsGenerator(s) /\ phase[s.owner] \in {"remove", "undo"}]_vars
  <2>1. Tick => services' = services
    BY DEF Tick
  <2> QED
    BY <2>1, StepGenerators DEF FullInv, Next
<1> QED
  BY <1>1, FullInvHolds, PTL DEF Spec, OnlySpentGeneratorsRemoved

----------------------------------------------------------------------------
(* Refinement.                                                             *)

\* What a participant asks for are service IDs.
LEMMA NodeServicesTyped ==
    ASSUME NEW r, NEW i \in Nat
    PROVE  NodeServices(r, i) \subseteq ServiceId
BY DEF NodeServices, ElId, BeaconId, ValidatorId, MevBoostId, ServiceId, Kinds

\* What a request asks for is made of services.
LEMMA WholeNetworkTyped ==
    ASSUME NEW r \in Request
    PROVE  WholeNetwork(r) \in SUBSET ServiceId
<1>1. NumParticipants(r) \in Nat
  BY DEF NumParticipants, Request
<1>2. ParticipantServices(r) \subseteq ServiceId
  <2> SUFFICES ASSUME NEW i \in 0..NumParticipants(r) - 1
               PROVE  NodeServices(r, i) \subseteq ServiceId
    BY DEF ParticipantServices
  <2> QED
    BY <1>1, NodeServicesTyped
<1>3. ToolServices \subseteq ServiceId
  BY DEF ToolServices, ToolId, Tools, ServiceId, Kinds
<1> QED
  BY <1>2, <1>3 DEF WholeNetwork

\* No network has been claimed before any execution was started.
LEMMA InitRefines == Init => Claim!Init
<1> SUFFICES ASSUME Init
             PROVE  Claim!Init
  OBVIOUS
<1>1. Wanted \in [Execs -> SUBSET ServiceId]
  BY WholeNetworkTyped, ExecutionAssumption DEF Init, Wanted
<1>2. Builder = {} /\ Network = {}
  BY DEF Init, Builder, Network, NetworkServices
<1>3. Outcome = [e \in Execs |-> "pending"]
  BY DEF Init, Outcome, Final
<1> QED
  BY <1>1, <1>2, <1>3 DEF Claim!Init

\* Who has the first EL client is the builder.
LEMMA TheBuilder ==
    ASSUME Inv, NEW e \in Execs
    PROVE  /\ Owns(e, ElId(0)) => Builder = {e}
           /\ Free(ElId(0)) => Builder = {}
<1>1. ASSUME Owns(e, ElId(0))
      PROVE  Builder = {e}
  <2>1. PICK s \in services : s.id = ElId(0) /\ s.owner = e
    BY <1>1 DEF Owns
  <2>2. {t \in services : t.id = ElId(0)} = {s}
    BY <2>1 DEF Inv, EnclaveInv, UniqueIds
  <2> QED
    BY <2>1, <2>2 DEF Builder
<1>2. ASSUME Free(ElId(0))
      PROVE  Builder = {}
  BY <1>2 DEF Builder, Free
<1> QED
  BY <1>1, <1>2

\* While the enclave has no builder it has no network either.
LEMMA Unclaimed ==
    ASSUME Inv, NEW s \in NetworkServices
    PROVE  Builder = {s.owner}
<1>1. s.owner \in Execs /\ Owns(s.owner, ElId(0))
  BY DEF Inv, TypeOK, EnclaveInv, Claimed, NetworkServices, Service
<1> QED
  BY <1>1, TheBuilder

\* The outcome of an execution follows its stage.
LEMMA Outcomes ==
    ASSUME TypeOK, NEW e \in Execs, NEW s, NEW p, Goto(e, s, p), stage[e] \notin Final
    PROVE  /\ Outcome[e] = "pending"
           /\ s \notin Final => Outcome' = Outcome
           /\ s = "succeeded" => Outcome' = [Outcome EXCEPT ![e] = "succeeded"]
           /\ s \in {"failed", "panicked"} => Outcome' = [Outcome EXCEPT ![e] = "failed"]
<1>1. stage'[e] = s /\ \A f \in Execs \ {e} : stage'[f] = stage[f]
  BY DEF Goto, TypeOK
<1> QED
  BY <1>1 DEF Outcome, Final

\* A step outside data generation is a step of the claim, or none.
LEMMA LastingRefines ==
    ASSUME Inv, Inv', NEW e \in Execs, NEW s \in Stages, NEW p \in Phases, Lasting(e, s, p),
           request' = request
    PROVE  Claim!Next \/ UNCHANGED Claim!vars
<1>0. /\ TypeOK /\ Wanted' = Wanted /\ Goto(e, s, p) /\ stage[e] \notin Final
      /\ stage'[e] = s
  BY Goes DEF Lasting, Inv, Wanted
<1>1. Network' \in SUBSET ServiceId /\ Network \subseteq Network'
  BY DEF Lasting, Inv, TypeOK, Service, Network, NetworkServices
<1>2. CASE s = "succeeded"
  <2>1. Owns(e, ElId(0))
    BY <1>2, ElsUp DEF Lasting
  <2>2. Owns(e, ElId(0))' /\ Builder = {e}
    BY <2>1, TheBuilder DEF Lasting, Owns
  <2>3. Builder' = {e}
    <3> PICK b : b = Builder'
      OBVIOUS
    <3>1. \E t \in services' : t.id = ElId(0) /\ t.owner = e
      BY <2>2 DEF Owns
    <3>2. PICK t \in services' : t.id = ElId(0) /\ t.owner = e
      BY <3>1
    <3>3. {u \in services' : u.id = ElId(0)} = {t}
      BY <3>2 DEF Inv, EnclaveInv, UniqueIds
    <3> QED
      BY <3>2, <3>3 DEF Builder
  <2>4. Network' = Wanted[e]
    <3>1. SuccessIsComplete'
      BY Complete, PTL
    <3>2. Network' = WholeNetwork(request'[e])
      BY <1>0, <1>2, <3>1 DEF SuccessIsComplete, Network, WholeNetwork
    <3> QED
      BY <3>2 DEF Wanted
  <2>5. Outcome[e] = "pending" /\ Outcome' = [Outcome EXCEPT ![e] = "succeeded"]
    BY <1>0, <1>2, Outcomes
  <2> QED
    BY <1>0, <1>1, <2>2, <2>3, <2>4, <2>5 DEF Claim!Next, Claim!Succeed
<1>3. CASE s \in {"failed", "panicked"}
  <2>1. services' = services
    BY <1>3 DEF Lasting
  <2>2. Builder' = Builder /\ Network' = Network
    BY <2>1 DEF Builder, Network, NetworkServices
  <2>3. Outcome[e] = "pending" /\ Outcome' = [Outcome EXCEPT ![e] = "failed"]
    BY <1>0, <1>3, Outcomes
  <2> QED
    BY <1>0, <2>2, <2>3 DEF Claim!Next, Claim!Fail
<1>4. CASE s \notin Final /\ services' = services
  <2>1. Builder' = Builder /\ Network' = Network
    BY <1>4 DEF Builder, Network, NetworkServices
  <2>2. Outcome' = Outcome
    BY <1>0, <1>4, Outcomes
  <2> QED
    BY <1>0, <2>1, <2>2 DEF Claim!vars
<1>5. ASSUME s \notin Final, NEW n \in Service, n.owner = e, services' = services \cup {n}
      PROVE  Claim!Next \/ UNCHANGED Claim!vars
  <2>1. Outcome[e] = "pending" /\ Outcome' = Outcome
    BY <1>0, <1>5, Outcomes
  <2>2. CASE IsGenerator(n)
    <3>1. NetworkServices' = NetworkServices
      BY <1>5, <2>2 DEF NetworkServices, IsGenerator
    <3>2. {t \in services' : t.id = ElId(0)} = {t \in services : t.id = ElId(0)}
      BY <1>5, <2>2 DEF IsGenerator, ElId
    <3>3. Builder' = Builder /\ Network' = Network
      BY <3>1, <3>2 DEF Builder, Network
    <3> QED
      BY <1>0, <2>1, <3>3 DEF Claim!vars
  <2>3. CASE ~IsGenerator(n)
    <3>1. \E t \in services' : t.id = ElId(0) /\ t.owner = e
      BY <1>5, <2>3 DEF Inv, EnclaveInv, Claimed, NetworkServices, IsGenerator, Owns
    <3>2. PICK t \in services' : t.id = ElId(0) /\ t.owner = e
      BY <3>1
    <3>3. {u \in services' : u.id = ElId(0)} = {t}
      BY <3>2 DEF Inv, EnclaveInv, UniqueIds
    <3>4. Builder' = {e}
      BY <3>2, <3>3 DEF Builder
    <3>5. Builder \subseteq {e}
      BY <1>5, <3>2, <3>3 DEF Builder
    <3> QED
      BY <1>0, <1>1, <2>1, <3>4, <3>5 DEF Claim!Next, Claim!Build
  <2> QED
    BY <2>2, <2>3
<1> QED
  BY <1>2, <1>3, <1>4, <1>5 DEF Lasting, Final

\* A step of data generation is none, or the failure of the execution.
LEMMA GeneratesRefines ==
    ASSUME Inv, NEW e \in Execs, Generates(e)
    PROVE  Claim!Next \/ UNCHANGED Claim!vars
<1>0. /\ TypeOK /\ request' = request /\ stage[e] \in GeneratorStages
      /\ stage[e] \notin Final /\ Wanted' = Wanted
  BY DEF Inv, Generates, LaunchGenerator, RunGenerator, RemoveGenerator, GeneratorStages,
         Final, Wanted
<1>1. NetworkServices' = NetworkServices
  <2>1. CASE LaunchGenerator(e)
    <3> PICK id, s : id = GeneratorId(now) /\ s = stage[e]
      OBVIOUS
    <3>1. id[1] = "generator" /\ AddService(e, id, {}, s, "run")
      BY <2>1 DEF LaunchGenerator, GeneratorId
    <3> QED
      BY <3>1 DEF AddService, NetworkServices, IsGenerator
  <2>2. CASE RunGenerator(e)
    BY <2>2 DEF RunGenerator, NetworkServices
  <2>3. CASE RemoveGenerator(e)
    BY <2>3 DEF RemoveGenerator, NetworkServices, IsGenerator, GeneratorId
  <2> QED
    BY <2>1, <2>2, <2>3 DEF Generates
<1>2. Network' = Network
  BY <1>1 DEF Network
<1>3. Builder' = Builder
  <2>1. \A t : t \in services /\ t.id = ElId(0) <=> t \in services' /\ t.id = ElId(0)
    BY <1>1 DEF NetworkServices, IsGenerator, ElId
  <2>2. {t \in services' : t.id = ElId(0)} = {t \in services : t.id = ElId(0)}
    BY <2>1
  <2> QED
    BY <2>2 DEF Builder
<1>4. \E s, p : Goto(e, s, p) /\ s # "succeeded" /\ s # "panicked"
  <2>1. CASE LaunchGenerator(e)
    BY <2>1 DEF LaunchGenerator, AddService, GeneratorStages
  <2>2. CASE RunGenerator(e)
    BY <2>2 DEF RunGenerator, GeneratorStages
  <2>3. CASE RemoveGenerator(e)
    BY <2>3 DEF RemoveGenerator, GeneratorStages
  <2> QED
    BY <2>1, <2>2, <2>3 DEF Generates
<1>5. PICK s, p : Goto(e, s, p) /\ s # "succeeded" /\ s # "panicked"
  BY <1>4
<1>6. CASE s = "failed"
  <2>1. Outcome[e] = "pending" /\ Outcome' = [Outcome EXCEPT ![e] = "failed"]
    BY <1>0, <1>5, <1>6, Outcomes
  <2> QED
    BY <1>0, <1>2, <1>3, <2>1 DEF Claim!Next, Claim!Fail
<1>7. CASE s # "failed"
  <2>1. Outcome' = Outcome
    BY <1>0, <1>5, <1>7, Outcomes DEF Final
  <2> QED
    BY <1>0, <1>2, <1>3, <2>1 DEF Claim!vars
<1> QED
  BY <1>6, <1>7

\* Whatever the executions do and wherever they fail, the enclave gets one
\* network, from one execution, and success is reported of nothing less.
THEOREM Refines == Spec => ClaimSpec
<1>1. ASSUME Inv, Inv', [Next]_vars
      PROVE  [Claim!Next]_Claim!vars
  <2>1. CASE Tick \/ UNCHANGED vars
    BY <2>1 DEF Tick, vars, progress, Claim!vars, Wanted, Builder, Network, NetworkServices,
                Outcome
  <2>2. ASSUME NEW e \in Execs, Step(e), ~Generates(e)
        PROVE  Claim!Next \/ UNCHANGED Claim!vars
    BY <1>1, <2>2, StepLasting, LastingRefines
  <2>3. ASSUME NEW e \in Execs, Generates(e)
        PROVE  Claim!Next \/ UNCHANGED Claim!vars
    BY <1>1, <2>3, GeneratesRefines
  <2> QED
    BY <1>1, <2>1, <2>2, <2>3 DEF Next
<1> QED
  BY <1>1, InitRefines, InvHolds, PTL DEF Spec, ClaimSpec, Claim!Spec
=============================================================================
