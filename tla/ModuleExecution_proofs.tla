----------------------- MODULE ModuleExecution_proofs -----------------------
(***************************************************************************)
(* Proofs about ModuleExecution, for every set of executions and requests. *)
(***************************************************************************)
EXTENDS ModuleExecutionInv, TLAPS

----------------------------------------------------------------------------
(* Facts about validated parameters.                                       *)

\* A validated request has a participant, and each of its participants names
\* clients the module has launchers for (params_deserializer.go).
LEMMA ValidNodes ==
    ASSUME NEW r \in Request, Valid(r)
    PROVE  /\ NumParticipants(r) \in Nat /\ NumParticipants(r) >= 1
           /\ \A i \in 0..NumParticipants(r) - 1 :
                 /\ r.participants[i + 1] \in Participant
                 /\ r.participants[i + 1].el \in ELTypes
                 /\ r.participants[i + 1].cl \in CLTypes
                 /\ r.participants[i + 1].mevBoost \in BOOLEAN
<1>1. r.participants \in Seq(Participant)
  BY DEF Request
<1>2. r.participants # <<>>
  BY DEF Valid, ParticipantsValid
<1>3. Len(r.participants) \in Nat /\ Len(r.participants) >= 1
  BY <1>1, <1>2
<1>4. ASSUME NEW i \in 0..Len(r.participants) - 1
      PROVE  /\ i + 1 \in 1..Len(r.participants)
             /\ r.participants[i + 1] \in Participant
  BY <1>1, <1>3
<1> QED
  BY <1>3, <1>4 DEF Valid, ParticipantsValid, NumParticipants, Participant

\* The same, of the participants of an execution that is under way.
LEMMA LiveNodes ==
    ASSUME TypeOK, NEW e \in Execs, Checked(e), Live(e)
    PROVE  /\ N(e) \in Nat /\ N(e) >= 1
           /\ \A i \in 0..N(e) - 1 : /\ Node(e, i).el \in ELTypes
                                     /\ Node(e, i).cl \in CLTypes
                                     /\ Node(e, i).mevBoost \in BOOLEAN
<1>1. request[e] \in Request /\ Valid(request[e])
  BY ExecutionAssumption DEF TypeOK, Checked
<1> QED
  BY <1>1, ValidNodes DEF N, Node

\* What the proofs need to know of the launchers.
LEMMA LauncherFacts ==
    /\ \A type \in ELTypes :
          /\ ElLauncher(type).peers \in Nat /\ ElLauncher(type).needs \in Nat
          /\ ElLauncher(type).lacking \in {"failed", "panicked"}
    /\ ValidatorFirst \subseteq Split
    /\ ValidatorMetrics \subseteq Split
BY DEF ELTypes, ElLauncher, Geth, Erigon, Nethermind, Besu, CLTypes, ClLauncher, Lighthouse,
       Teku, Nimbus, Prysm, Lodestar, Split, ValidatorFirst, ValidatorMetrics

----------------------------------------------------------------------------
(* Executions that do not act.                                             *)

Keeps == /\ request' = request
         /\ services' \in SUBSET Service
         /\ \A s \in services : ~IsGenerator(s) => s \in services'
         /\ answered \subseteq answered'

Same(f) == /\ stage'[f] = stage[f] /\ phase'[f] = phase[f]
           /\ elCtxs'[f] = elCtxs[f] /\ clCtxs'[f] = clCtxs[f]

\* What an execution has launched for good stays its own.
LEMMA OwnsLasts ==
    ASSUME Keeps, NEW f, NEW id, id[1] # "generator", Owns(f, id)
    PROVE  Owns(f, id)'
BY DEF Keeps, Owns, IsGenerator

\* A node whose services are all there keeps them when none is removed.
LEMMA NodeServicesLast ==
    ASSUME NEW r, NEW i, NEW id \in NodeServices(r, i)
    PROVE  id[1] # "generator"
BY DEF NodeServices, ElId, BeaconId, ValidatorId, MevBoostId

\* The steps of others leave what an execution relies on in place.
LEMMA OthersKeep ==
    ASSUME Keeps, NEW f, Same(f), ExecutionInv(f)
    PROVE  ExecutionInv(f)'
<1> USE DEF Keeps, Same, N, Node, ElIndex, ClIndex, ClType, ClBeacon, At
<1>1. Checked(f)' /\ Counted(f)' /\ (Live(f)' <=> Live(f))
  BY DEF ExecutionInv, Checked, Counted, Live
<1>2. ElCtxsSound(f)'
  BY <1>1, OwnsLasts DEF ExecutionInv, ElCtxsSound, ElId
<1>3. ClCtxsSound(f)'
  BY <1>1, OwnsLasts, NodeServicesLast DEF ExecutionInv, ClCtxsSound
<1>4. ElInHand(f)'
  BY OwnsLasts DEF ExecutionInv, ElInHand, ElId
<1>5. ClInHand(f)'
  BY OwnsLasts DEF ExecutionInv, ClInHand, MevBoostId, ValidatorId, BeaconId
<1>6. ToolsInHand(f)'
  BY OwnsLasts DEF ExecutionInv, ToolsInHand, ToolsBefore, ToolId, Tools
<1> QED
  BY <1>1, <1>2, <1>3, <1>4, <1>5, <1>6 DEF ExecutionInv

----------------------------------------------------------------------------
(* The enclave, under the three ways its registry can change.              *)

IsClient(id) == id[1] \in {"el", "cl", "clBeacon"}

\* A step that leaves the registry alone keeps what holds of the enclave.
LEMMA EnclaveUnchanged ==
    ASSUME EnclaveInv, services' = services, request' = request,
           answered \subseteq answered'
    PROVE  EnclaveInv'
<1> USE DEF EnclaveInv, Owns, N
<1>1. UniqueIds' /\ PeersLast'
  BY DEF UniqueIds, PeersLast
<1>2. Claimed'
  BY DEF Claimed, NetworkServices, IsGenerator
<1>3. PeersUsable'
  BY DEF PeersUsable
<1>4. ElNetworkFirst'
  BY DEF ElNetworkFirst
<1> QED
  BY <1>1, <1>2, <1>3, <1>4

\* What an execution must be sure of when it asks for a service.
MayAdd(e, id, peers) ==
    /\ id \in ServiceId /\ peers \in SUBSET ServiceId
    /\ id[1] # "generator" => /\ id = ElId(0) \/ Owns(e, ElId(0))
                              /\ id \in WholeNetwork(request[e])
    /\ \A q \in peers : /\ q[1] # "generator" /\ Owns(e, q)
                        /\ IsClient(q) => q \in answered
    /\ id[1] \in {"cl", "clBeacon", "clValidator", "mevBoost"} =>
           \A i \in 0..N(e) - 1 : ElId(i) \in answered

\* A new service keeps the enclave sound if its adder holds the first EL client
\* or is about to, and writes only addresses of usable services of its own.
LEMMA EnclaveAdds ==
    ASSUME EnclaveInv, services \in SUBSET Service, request' = request,
           answered' = answered,
           NEW e \in Execs, NEW id, NEW peers, MayAdd(e, id, peers), Free(id),
           services' = services \cup {[id |-> id, owner |-> e, peers |-> peers]}
    PROVE  EnclaveInv' /\ Keeps
<1> DEFINE new == [id |-> id, owner |-> e, peers |-> peers]
<1>0. /\ new \in Service /\ new.id = id /\ new.owner = e /\ new.peers = peers
      /\ services' = services \cup {new}
  BY DEF Service, MayAdd
<1>p. \A q \in peers : /\ q[1] # "generator" /\ Owns(e, q)
                       /\ IsClient(q) => q \in answered
  BY DEF MayAdd
<1> HIDE DEF new
<1>1. Keeps
  BY <1>0 DEF Keeps
<1>2. \A f, p : Owns(f, p) => Owns(f, p)'
  BY <1>0 DEF Owns
<1>3. UniqueIds'
  BY <1>0 DEF EnclaveInv, UniqueIds, Free
<1>4. Claimed'
  <2> SUFFICES ASSUME NEW s \in services', s.id[1] # "generator"
               PROVE  Owns(s.owner, ElId(0))' /\ s.id \in WholeNetwork(request[s.owner])'
    BY DEF Claimed, NetworkServices, IsGenerator
  <2>1. CASE s \in services
    BY <2>1, <1>2 DEF EnclaveInv, Claimed, NetworkServices, IsGenerator, WholeNetwork
  <2>2. CASE s = new
    <3>1. Owns(e, id)'
      BY <1>0 DEF Owns
    <3>2. Owns(e, ElId(0))'
      BY <2>2, <3>1, <1>0, <1>2 DEF ElId, MayAdd
    <3> QED
      BY <2>2, <3>2, <1>0 DEF WholeNetwork, MayAdd
  <2> QED
    BY <2>1, <2>2, <1>0
<1>5. PeersLast'
  BY <1>0, <1>p DEF EnclaveInv, PeersLast
<1>6. PeersUsable'
  <2> SUFFICES ASSUME NEW s \in services', NEW p \in s.peers
               PROVE  Owns(s.owner, p)' /\ (IsClient(p) => p \in answered)
    BY DEF PeersUsable, Owns, IsClient
  <2>1. CASE s \in services
    BY <2>1, <1>2 DEF EnclaveInv, PeersUsable, Owns, IsClient
  <2>2. CASE s = new
    BY <2>2, <1>0, <1>2, <1>p
  <2> QED
    BY <2>1, <2>2, <1>0
<1>7. ElNetworkFirst'
  <2> SUFFICES ASSUME NEW s \in services', IsConsensus(s), NEW i \in 0..N(s.owner) - 1
               PROVE  ElId(i) \in answered
    BY DEF ElNetworkFirst, N
  <2>1. CASE s \in services
    BY <2>1 DEF EnclaveInv, ElNetworkFirst
  <2>2. CASE s = new
    BY <2>2, <1>0 DEF IsConsensus, MayAdd
  <2> QED
    BY <2>1, <2>2, <1>0
<1> QED
  BY <1>1, <1>3, <1>4, <1>5, <1>6, <1>7 DEF EnclaveInv

\* Taking a data generator away hurts nobody: no one keeps its address.
LEMMA EnclaveRemoves ==
    ASSUME EnclaveInv, services \in SUBSET Service, request' = request,
           answered' = answered, NEW t,
           services' = {s \in services : s.id # GeneratorId(t)}
    PROVE  EnclaveInv' /\ Keeps
<1>1. Keeps
  BY DEF Keeps, IsGenerator, GeneratorId
<1>2. \A f, p : p[1] # "generator" /\ Owns(f, p) => Owns(f, p)'
  BY <1>1, OwnsLasts
<1>3. UniqueIds' /\ PeersLast'
  BY DEF EnclaveInv, UniqueIds, PeersLast
<1>4. Claimed'
  BY <1>2 DEF EnclaveInv, Claimed, NetworkServices, IsGenerator, ElId, WholeNetwork
<1>5. PeersUsable'
  <2> SUFFICES ASSUME NEW s \in services, NEW p \in s.peers
               PROVE  Owns(s.owner, p)' /\ (IsClient(p) => p \in answered)
    BY DEF PeersUsable, Owns, IsClient
  <2>1. Owns(s.owner, p) /\ p[1] # "generator"
    BY DEF EnclaveInv, PeersUsable, PeersLast, Owns
  <2> QED
    BY <2>1, <1>2 DEF EnclaveInv, PeersUsable, IsClient
<1>6. ElNetworkFirst'
  BY DEF EnclaveInv, ElNetworkFirst, N
<1> QED
  BY <1>1, <1>3, <1>4, <1>5, <1>6 DEF EnclaveInv

----------------------------------------------------------------------------
(* One execution's step: what is left to show for each action.             *)

\* What Goto does to the stage and phase of one execution and of the others.
LEMMA Goes ==
    ASSUME TypeOK, NEW e \in Execs, NEW s \in Stages, NEW p \in Phases, Goto(e, s, p)
    PROVE  /\ stage' \in [Execs -> Stages] /\ phase' \in [Execs -> Phases]
           /\ stage'[e] = s /\ phase'[e] = p
           /\ \A f \in Execs \ {e} : stage'[f] = stage[f] /\ phase'[f] = phase[f]
BY DEF TypeOK, Goto

\* An execution that has failed relies on nothing.
LEMMA FailedRelies ==
    ASSUME NEW e \in Execs, stage'[e] \in {"failed", "panicked"}
    PROVE  ExecutionInv(e)'
BY DEF ExecutionInv, Checked, Counted, ElCtxsSound, ClCtxsSound, ElInHand, ClInHand,
       ToolsInHand, ToolsBefore, Live, At, BeforeEls, AfterCls, Tools

\* The acting execution and the enclave are what is left to look at.
LEMMA Combine ==
    ASSUME Inv, NEW e \in Execs, Keeps, \A f \in Execs \ {e} : Same(f),
           TypeOK', ExecutionInv(e)', EnclaveInv'
    PROVE  Inv'
<1>1. \A f \in Execs \ {e} : ExecutionInv(f)'
  BY OthersKeep DEF Inv
<1> QED
  BY <1>1 DEF Inv

\* A step that leaves the enclave and the contexts alone.
LEMMA QuietStep ==
    ASSUME Inv, NEW e \in Execs, NEW s \in Stages, NEW p \in Phases, Goto(e, s, p),
           UNCHANGED <<request, services, answered, now, genTime, elCtxs, clCtxs>>
    PROVE  /\ TypeOK' /\ EnclaveInv' /\ Keeps
           /\ \A f \in Execs \ {e} : Same(f)
           /\ stage'[e] = s /\ phase'[e] = p
<1>1. TypeOK /\ EnclaveInv
  BY DEF Inv
<1>2. EnclaveInv' /\ Keeps
  BY <1>1, EnclaveUnchanged DEF Keeps, TypeOK
<1> QED
  BY <1>1, <1>2, Goes DEF TypeOK, Same

\* An error return gives up whatever the execution relied on.
LEMMA StepAbort ==
    ASSUME Inv, NEW e \in Execs, Abort(e)
    PROVE  Inv'
BY QuietStep, FailedRelies, Combine DEF Abort, Stages, Final, Phases

\* Only validated parameters get past DeserializeAndValidateParams.
LEMMA StepStart ==
    ASSUME Inv, NEW e \in Execs, Start(e)
    PROVE  Inv'
<1>1. CASE ~Valid(request[e])
  BY <1>1, QuietStep, FailedRelies, Combine DEF Start, Stages, Final, Phases
<1>2. CASE Valid(request[e])
  <2>1. Goto(e, "keystores", "launch")
    BY <1>2 DEF Start
  <2>2. /\ TypeOK' /\ EnclaveInv' /\ Keeps /\ \A f \in Execs \ {e} : Same(f)
        /\ stage'[e] = "keystores"
    BY <2>1, QuietStep DEF Start, Stages, GeneratorStages, Phases
  <2>3. elCtxs[e] = <<>> /\ clCtxs[e] = <<>>
    BY DEF Inv, ExecutionInv, Counted, Start, BeforeEls
  <2>4. ExecutionInv(e)'
    BY <1>2, <2>2, <2>3 DEF Start, ExecutionInv, Checked, Counted, ElCtxsSound, ClCtxsSound,
       ElInHand, ClInHand, ToolsInHand, ToolsBefore, Live, At, BeforeEls, AfterCls, Tools
  <2> QED
    BY <2>2, <2>4, Combine
<1> QED
  BY <1>1, <1>2

\* Between the stages of data generation the contexts stay as they are.
LEMMA GenerationRelies ==
    ASSUME Inv, NEW e \in Execs, stage[e] \in GeneratorStages \cup {"upload"},
           Keeps, request' = request, elCtxs' = elCtxs, clCtxs' = clCtxs,
           \/ stage'[e] = stage[e]
           \/ stage[e] = "keystores" /\ stage'[e] = "elGenesis"
           \/ stage[e] = "elGenesis" /\ stage'[e] = "upload"
           \/ stage[e] = "upload" /\ stage'[e] = "el" /\ phase'[e] = "launch"
           \/ stage[e] = "clGenesis" /\ stage'[e] = "cl" /\ phase'[e] = FirstClPhase(e, 0)
    PROVE  ExecutionInv(e)'
<1>1. /\ Live(e) /\ Live(e)' /\ ExecutionInv(e) /\ TypeOK
      /\ stage'[e] \in GeneratorStages \cup {"upload", "el", "cl"}
  BY DEF Inv, Live, GeneratorStages
<1>2. N(e) \in Nat /\ N(e) >= 1 /\ N(e)' = N(e)
  BY <1>1, LiveNodes DEF ExecutionInv, N
<1>3. Checked(e)' /\ Counted(e)'
  BY <1>1, <1>2 DEF ExecutionInv, Checked, Counted, GeneratorStages, BeforeEls, AfterCls,
     Tools, FirstClPhase, ClPhases
<1>4. clCtxs[e] = <<>>
  BY <1>1 DEF ExecutionInv, Counted, GeneratorStages, BeforeEls
<1>5. ElCtxsSound(e)'
  BY <1>1, OwnsLasts DEF ExecutionInv, ElCtxsSound, ElId, Keeps
<1>6. ClCtxsSound(e)'
  BY <1>1, <1>4 DEF ClCtxsSound
<1>7. ElInHand(e)'
  BY <1>1 DEF ElInHand, At, GeneratorStages
<1>8. ClInHand(e)'
  BY <1>1, <1>4 DEF ClInHand, FirstClPhase, ClIndex, Node, GeneratorStages
<1>9. ToolsInHand(e)'
  BY <1>1 DEF ToolsInHand, ToolsBefore, At, GeneratorStages, AfterCls, Tools
<1> QED
  BY <1>3, <1>5, <1>6, <1>7, <1>8, <1>9 DEF ExecutionInv

\* Uploading the prefunded keys begins the loop over the EL clients.
LEMMA StepUpload ==
    ASSUME Inv, NEW e \in Execs, UploadPrefundedKeys(e)
    PROVE  Inv'
<1>1. /\ TypeOK' /\ EnclaveInv' /\ Keeps /\ \A f \in Execs \ {e} : Same(f)
      /\ stage'[e] = "el" /\ phase'[e] = "launch"
  BY QuietStep DEF UploadPrefundedKeys, Stages, Phases
<1>2. ExecutionInv(e)'
  BY <1>1, GenerationRelies DEF UploadPrefundedKeys
<1> QED
  BY <1>1, <1>2, Combine

\* Running a generator's commands launches and removes nothing.
LEMMA StepRunGenerator ==
    ASSUME Inv, NEW e \in Execs, RunGenerator(e)
    PROVE  Inv'
<1>1. PICK outcome \in {"remove", "undo"} : Goto(e, stage[e], outcome)
  BY DEF RunGenerator
<1>2. /\ TypeOK' /\ EnclaveInv' /\ Keeps /\ \A f \in Execs \ {e} : Same(f)
      /\ stage'[e] = stage[e]
  BY <1>1, QuietStep DEF RunGenerator, Stages, Phases
<1>3. ExecutionInv(e)'
  BY <1>2, GenerationRelies DEF RunGenerator
<1> QED
  BY <1>2, <1>3, Combine

\* The deferred removal takes away a generator and nothing that lasts.
LEMMA StepRemoveGenerator ==
    ASSUME Inv, NEW e \in Execs, RemoveGenerator(e)
    PROVE  Inv'
<1>0. TypeOK /\ EnclaveInv /\ ExecutionInv(e)
  BY DEF Inv
<1>1. EnclaveInv' /\ Keeps
  <2>1. CASE services' = services
    BY <2>1, <1>0, EnclaveUnchanged DEF RemoveGenerator, Keeps, TypeOK
  <2>2. CASE services' = {s \in services : s.id # GeneratorId(genTime[e])}
    BY <2>2, <1>0, EnclaveRemoves DEF RemoveGenerator, TypeOK
  <2> QED
    BY <2>1, <2>2 DEF RemoveGenerator
<1>2. FirstClPhase(e, 0) \in {"mevBoost", "launch"}
  BY DEF FirstClPhase
<1>3. PICK s \in Stages, p \in Phases :
        /\ Goto(e, s, p)
        /\ \/ s = "failed"
           \/ stage[e] = "keystores" /\ s = "elGenesis"
           \/ stage[e] = "elGenesis" /\ s = "upload"
           \/ stage[e] = "clGenesis" /\ s = "cl" /\ p = FirstClPhase(e, 0)
  <2>1. CASE phase[e] = "undo"
    BY <2>1 DEF RemoveGenerator, Stages, Final, Phases
  <2>2. CASE phase[e] = "remove" /\ stage[e] = "keystores"
    BY <2>2 DEF RemoveGenerator, Stages, GeneratorStages, Phases
  <2>3. CASE phase[e] = "remove" /\ stage[e] = "elGenesis"
    BY <2>3 DEF RemoveGenerator, Stages, Phases
  <2>4. CASE phase[e] = "remove" /\ stage[e] = "clGenesis"
    BY <2>4, <1>2 DEF RemoveGenerator, Stages, Phases
  <2> QED
    BY <2>1, <2>2, <2>3, <2>4 DEF RemoveGenerator, GeneratorStages
<1>4. stage'[e] = s /\ phase'[e] = p /\ TypeOK' /\ \A f \in Execs \ {e} : Same(f)
  BY <1>0, <1>1, <1>3, Goes DEF RemoveGenerator, TypeOK, Same, Keeps
<1>5. ExecutionInv(e)'
  <2>1. CASE s = "failed"
    BY <2>1, <1>4, FailedRelies
  <2>2. CASE s # "failed"
    BY <2>2, <1>1, <1>3, <1>4, GenerationRelies DEF RemoveGenerator
  <2> QED
    BY <2>1, <2>2
<1> QED
  BY <1>1, <1>4, <1>5, Combine

\* A step that asks the enclave for a service: it is added, or the step fails.
LEMMA AddStep ==
    ASSUME Inv, NEW e \in Execs, NEW id, NEW peers, MayAdd(e, id, peers),
           NEW s \in Stages, NEW p \in Phases, AddService(e, id, peers, s, p),
           UNCHANGED <<request, answered, now, elCtxs, clCtxs>>,
           genTime' \in [Execs -> Nat]
    PROVE  /\ TypeOK' /\ EnclaveInv' /\ Keeps
           /\ \A f \in Execs \ {e} : Same(f)
           /\ \/ stage'[e] = "failed"
              \/ stage'[e] = s /\ phase'[e] = p /\ Owns(e, id)'
<1>0. TypeOK /\ EnclaveInv /\ services \in SUBSET Service
  BY DEF Inv, TypeOK
<1>1. CASE /\ Free(id) /\ Goto(e, s, p)
           /\ services' = services \cup {[id |-> id, owner |-> e, peers |-> peers]}
  <2>1. EnclaveInv' /\ Keeps
    BY <1>0, <1>1, EnclaveAdds
  <2> DEFINE new == [id |-> id, owner |-> e, peers |-> peers]
  <2>2. Owns(e, id)'
    <3>1. new \in services' /\ new.id = id /\ new.owner = e
      BY <1>1
    <3> QED
      BY <3>1 DEF Owns
  <2> QED
    BY <2>1, <2>2, <1>0, <1>1, Goes DEF TypeOK, Same, Keeps
<1>2. CASE Goto(e, "failed", "launch") /\ services' = services
  <2>1. EnclaveInv' /\ Keeps
    BY <1>0, <1>2, EnclaveUnchanged DEF Keeps
  <2>2. "failed" \in Stages /\ "launch" \in Phases
    BY DEF Stages, Final, Phases
  <2> QED
    BY <2>1, <2>2, <1>0, <1>2, Goes DEF TypeOK, Same
<1> QED
  BY <1>1, <1>2 DEF AddService

\* Launching a generator adds a service no network is made of.
LEMMA StepLaunchGenerator ==
    ASSUME Inv, NEW e \in Execs, LaunchGenerator(e)
    PROVE  Inv'
<1>0. PICK id, s : id = GeneratorId(now) /\ s = stage[e]
  OBVIOUS
<1>1. /\ id \in ServiceId /\ id[1] = "generator"
      /\ s \in Stages /\ "run" \in Phases /\ genTime' \in [Execs -> Nat]
  BY <1>0 DEF Inv, TypeOK, LaunchGenerator, GeneratorId, ServiceId, Kinds, Phases
<1>a. /\ AddService(e, id, {}, s, "run")
      /\ UNCHANGED <<request, answered, now, elCtxs, clCtxs>>
  BY <1>0 DEF LaunchGenerator
<1>2. /\ TypeOK' /\ EnclaveInv' /\ Keeps /\ \A f \in Execs \ {e} : Same(f)
      /\ stage'[e] = "failed" \/ stage'[e] = s
  <2>1. MayAdd(e, id, {})
    BY <1>1 DEF MayAdd
  <2> QED
    BY <1>1, <1>a, <2>1, AddStep
<1>3. ExecutionInv(e)'
  BY <1>0, <1>2, FailedRelies, GenerationRelies DEF LaunchGenerator
<1> QED
  BY <1>2, <1>3, Combine

----------------------------------------------------------------------------
(* The EL clients.                                                         *)

\* An execution in its EL loop.
LEMMA ElLoop ==
    ASSUME Inv, NEW e \in Execs, stage[e] = "el"
    PROVE  /\ ElIndex(e) \in Nat /\ ElIndex(e) < N(e) /\ N(e) \in Nat
           /\ ElType(e) \in ELTypes
           /\ ElId(ElIndex(e)) \in ServiceId
           /\ ElId(ElIndex(e)) \in WholeNetwork(request[e])
           /\ elCtxs[e] \in Seq(ServiceId) /\ clCtxs[e] = <<>>
           /\ \A i \in 1..Len(elCtxs[e]) :
                 /\ elCtxs[e][i] = ElId(i - 1) /\ elCtxs[e][i] \in answered
                 /\ Owns(e, elCtxs[e][i])
<1>1. TypeOK /\ ExecutionInv(e) /\ Live(e)
  BY DEF Inv, Live
<1>2. /\ N(e) \in Nat /\ \A i \in 0..N(e) - 1 : Node(e, i).el \in ELTypes
  BY <1>1, LiveNodes DEF ExecutionInv
<1>3. ElIndex(e) \in 0..N(e) - 1
  BY <1>1, <1>2 DEF ExecutionInv, Counted, ElIndex, TypeOK
<1>4. ElId(ElIndex(e)) \in NodeServices(request[e], ElIndex(e))
  BY DEF NodeServices
<1>5. ElId(ElIndex(e)) \in WholeNetwork(request[e])
  BY <1>3, <1>4 DEF WholeNetwork, ParticipantServices, N
<1>6. clCtxs[e] = <<>>
  BY <1>1 DEF ExecutionInv, Counted
<1>7. ElId(ElIndex(e)) \in ServiceId
  BY <1>2, <1>3 DEF ElId, ServiceId, Kinds
<1>8. \A i \in 1..Len(elCtxs[e]) : /\ elCtxs[e][i] = ElId(i - 1)
                                  /\ elCtxs[e][i] \in answered /\ Owns(e, elCtxs[e][i])
  BY <1>1 DEF ExecutionInv, ElCtxsSound
<1> QED
  BY <1>1, <1>2, <1>3, <1>5, <1>6, <1>7, <1>8 DEF ElType, TypeOK

\* An EL client is added with the enodes of clients that have answered.
LEMMA StepLaunchEl ==
    ASSUME Inv, NEW e \in Execs, LaunchEl(e)
    PROVE  Inv'
<1> PICK id, peers : id = ElId(ElIndex(e)) /\ peers = ElPeers(ElType(e), elCtxs[e])
  OBVIOUS
<1>0. stage[e] = "el" /\ EnoughPeers(ElType(e), elCtxs[e])
  BY DEF LaunchEl, At
<1>1. \A q \in peers : \E i \in 1..Len(elCtxs[e]) : q = elCtxs[e][i]
  BY <1>0, ElLoop DEF ElPeers
<1>2. \A q \in peers : /\ q \in ServiceId /\ q[1] # "generator" /\ Owns(e, q)
                       /\ q \in answered
  BY <1>0, <1>1, ElLoop DEF ElId
<1>3. id = ElId(0) \/ Owns(e, ElId(0))
  BY <1>0, ElLoop DEF ElIndex
<1>4. id[1] = "el"
  BY DEF ElId
<1>5. /\ AddService(e, id, peers, "el", "wait")
      /\ UNCHANGED <<request, answered, now, elCtxs, clCtxs>>
  BY DEF LaunchEl
<1>6. "el" \in Stages /\ "wait" \in Phases /\ genTime' \in [Execs -> Nat]
  BY DEF Stages, Phases, LaunchEl, Inv, TypeOK
<1>7. id \in ServiceId /\ peers \in SUBSET ServiceId /\ id \in WholeNetwork(request[e])
  BY <1>0, <1>2, ElLoop
<1>a. MayAdd(e, id, peers)
  BY <1>2, <1>3, <1>4, <1>7 DEF MayAdd
<1>8. /\ TypeOK' /\ EnclaveInv' /\ Keeps /\ \A f \in Execs \ {e} : Same(f)
      /\ \/ stage'[e] = "failed"
         \/ stage'[e] = "el" /\ phase'[e] = "wait" /\ Owns(e, id)'
  BY <1>5, <1>6, <1>a, AddStep
<1>9. ASSUME stage'[e] = "el", phase'[e] = "wait", Owns(e, id)'
      PROVE  ExecutionInv(e)'
  <2>1. ExecutionInv(e) /\ Live(e) /\ Live(e)' /\ elCtxs' = elCtxs /\ clCtxs' = clCtxs
        /\ request' = request /\ answered' = answered
    BY <1>0, <1>9 DEF Inv, Live, LaunchEl
  <2>2. Checked(e)' /\ Counted(e)'
    BY <2>1, <1>0, <1>9 DEF ExecutionInv, Checked, Counted, N, BeforeEls, AfterCls, Tools
  <2>3. ElCtxsSound(e)'
    BY <2>1, <1>8, OwnsLasts DEF ExecutionInv, ElCtxsSound, ElId
  <2>4. ClCtxsSound(e)' /\ ClInHand(e)'
    BY <2>1, <1>0, <1>9, ElLoop DEF ClCtxsSound, ClInHand
  <2>5. ElInHand(e)' /\ ToolsInHand(e)'
    BY <2>1, <1>9 DEF ElInHand, At, ElIndex, ToolsInHand, ToolsBefore, AfterCls, Tools
  <2> QED
    BY <2>2, <2>3, <2>4, <2>5 DEF ExecutionInv
<1> QED
  BY <1>8, <1>9, FailedRelies, Combine

\* A launcher that lacks peers ends the execution.
LEMMA StepRejectEl ==
    ASSUME Inv, NEW e \in Execs, RejectEl(e)
    PROVE  Inv'
<1>1. PICK s \in {"failed", "panicked"} : Goto(e, s, "launch")
  BY ElLoop, LauncherFacts DEF RejectEl, At
<1> QED
  BY <1>1, QuietStep, FailedRelies, Combine DEF RejectEl, Stages, Final, Phases

\* The client in hand has answered and becomes a context.
LEMMA StepElAnswers ==
    ASSUME Inv, NEW e \in Execs, ElAnswers(e)
    PROVE  Inv'
<1> DEFINE id == ElId(ElIndex(e))
           last == ElIndex(e) + 1 = N(e)
<1>0. stage[e] = "el" /\ phase[e] = "wait" /\ Owns(e, id)
  BY DEF ElAnswers, At, Inv, ExecutionInv, ElInHand
<1>1. TypeOK /\ EnclaveInv /\ ExecutionInv(e)
  BY DEF Inv
<1>2. /\ request' = request /\ services' = services /\ answered' = answered \cup {id}
      /\ elCtxs' = [elCtxs EXCEPT ![e] = Append(elCtxs[e], id)] /\ clCtxs' = clCtxs
  BY DEF ElAnswers
<1>3. id \in ServiceId /\ ElIndex(e) \in Nat /\ N(e) \in Nat /\ ElIndex(e) < N(e)
      /\ clCtxs[e] = <<>> /\ elCtxs[e] \in Seq(ServiceId)
  BY <1>0, ElLoop
<1>4. /\ stage' \in [Execs -> Stages] /\ phase' \in [Execs -> Phases]
      /\ stage'[e] = (IF last THEN "clGenesis" ELSE "el") /\ phase'[e] = "launch"
      /\ \A f \in Execs \ {e} : stage'[f] = stage[f] /\ phase'[f] = phase[f]
  BY <1>1, Goes DEF ElAnswers, Stages, GeneratorStages, Phases
<1>5. EnclaveInv' /\ Keeps
  BY <1>1, <1>2, EnclaveUnchanged DEF Keeps, TypeOK
<1>6. /\ elCtxs'[e] = Append(elCtxs[e], id) /\ elCtxs'[e] \in Seq(ServiceId)
      /\ Len(elCtxs'[e]) = ElIndex(e) + 1
      /\ \A i \in 1..ElIndex(e) : elCtxs'[e][i] = elCtxs[e][i]
      /\ elCtxs'[e][ElIndex(e) + 1] = id
  BY <1>1, <1>2, <1>3 DEF TypeOK, ElIndex
<1>7. TypeOK' /\ \A f \in Execs \ {e} : Same(f)
  BY <1>1, <1>2, <1>3, <1>4, <1>6 DEF TypeOK, Same, ElAnswers
<1> HIDE DEF id
<1>8. ExecutionInv(e)'
  <2>1. Live(e) /\ Live(e)' /\ N(e)' = N(e)
    BY <1>0, <1>2, <1>4 DEF Live, N
  <2>2. Checked(e)' /\ Counted(e)'
    BY <2>1, <1>1, <1>2, <1>3, <1>4, <1>6
       DEF ExecutionInv, Checked, Counted, BeforeEls, AfterCls, Tools
  <2>3. ElCtxsSound(e)'
    <3> SUFFICES ASSUME NEW i \in 1..ElIndex(e) + 1
                 PROVE  /\ elCtxs'[e][i] = ElId(i - 1)
                        /\ Owns(e, ElId(i - 1)) /\ ElId(i - 1) \in answered'
      BY <1>2, <1>3, <1>6 DEF ElCtxsSound, Owns
    <3>1. CASE i \in 1..ElIndex(e)
      BY <3>1, <2>1, <1>1, <1>2, <1>6 DEF ExecutionInv, ElCtxsSound, ElIndex
    <3>2. CASE i = ElIndex(e) + 1
      BY <3>2, <1>0, <1>2, <1>3, <1>6 DEF id
    <3> QED
      BY <3>1, <3>2, <1>3
  <2>4. ClCtxsSound(e)' /\ ClInHand(e)'
    BY <1>2, <1>3, <1>4 DEF ClCtxsSound, ClInHand
  <2>5. ElInHand(e)' /\ ToolsInHand(e)'
    BY <1>4 DEF ElInHand, At, ToolsInHand, ToolsBefore, AfterCls, Tools
  <2> QED
    BY <2>2, <2>3, <2>4, <2>5 DEF ExecutionInv
<1> QED
  BY <1>5, <1>7, <1>8, Combine

----------------------------------------------------------------------------
(* The CL nodes.                                                           *)

\* The beacon node of a participant is one of the services it asks for.
LEMMA BeaconFacts ==
    ASSUME NEW type, NEW i \in Nat
    PROVE  /\ BeaconId(type, i) \in ServiceId
           /\ BeaconId(type, i)[1] \in {"cl", "clBeacon"}
BY DEF BeaconId, ServiceId, Kinds

\* An execution that holds all its EL contexts.
LEMMA ElsUp ==
    ASSUME Inv, NEW e \in Execs, stage[e] \in {"cl"} \cup AfterCls
    PROVE  /\ Live(e) /\ N(e) \in Nat /\ N(e) >= 1 /\ Len(elCtxs[e]) = N(e)
           /\ Owns(e, ElId(0))
           /\ \A i \in 0..N(e) - 1 : /\ elCtxs[e][i + 1] = ElId(i)
                                     /\ ElId(i) \in answered /\ Owns(e, ElId(i))
<1>1. TypeOK /\ ExecutionInv(e) /\ Live(e)
  BY DEF Inv, Live, AfterCls, Tools
<1>2. N(e) \in Nat /\ N(e) >= 1 /\ Len(elCtxs[e]) = N(e)
  BY <1>1, LiveNodes DEF ExecutionInv, Counted
<1>3. \A i \in 0..N(e) - 1 : /\ elCtxs[e][i + 1] = ElId(i)
                             /\ ElId(i) \in answered /\ Owns(e, ElId(i))
  <2> SUFFICES ASSUME NEW i \in 0..N(e) - 1
               PROVE  /\ elCtxs[e][i + 1] = ElId(i)
                      /\ ElId(i) \in answered /\ Owns(e, ElId(i))
    OBVIOUS
  <2>1. i + 1 \in 1..Len(elCtxs[e]) /\ (i + 1) - 1 = i
    BY <1>2
  <2> QED
    BY <2>1, <1>1 DEF ExecutionInv, ElCtxsSound
<1> QED
  BY <1>1, <1>2, <1>3

\* An execution's CL contexts.
LEMMA ClsUp ==
    ASSUME Inv, NEW e \in Execs, Live(e), NEW i \in 1..Len(clCtxs[e])
    PROVE  /\ clCtxs[e][i] = BeaconId(Node(e, i - 1).cl, i - 1)
           /\ clCtxs[e][i] \in answered /\ Owns(e, clCtxs[e][i])
           /\ clCtxs[e][i] \in ServiceId /\ clCtxs[e][i][1] # "generator"
<1>1. /\ clCtxs[e][i] = BeaconId(Node(e, i - 1).cl, i - 1)
      /\ clCtxs[e][i] \in answered
      /\ \A id \in NodeServices(request[e], i - 1) : Owns(e, id)
  BY DEF Inv, ExecutionInv, ClCtxsSound
<1>2. BeaconId(Node(e, i - 1).cl, i - 1) \in NodeServices(request[e], i - 1)
  BY DEF NodeServices, Node
<1>3. i - 1 \in Nat
  BY DEF Inv, TypeOK
<1> QED
  BY <1>1, <1>2, <1>3, BeaconFacts

\* How far the loop over the CL nodes has come, and what it may rely on.
LEMMA ClLoop ==
    ASSUME Inv, NEW e \in Execs, stage[e] = "cl"
    PROVE  /\ ClIndex(e) \in Nat /\ ClIndex(e) < N(e) /\ phase[e] \in ClPhases
           /\ ClType(e) \in CLTypes /\ Node(e, ClIndex(e)).mevBoost \in BOOLEAN
           /\ clCtxs[e] \in Seq(ServiceId)
           /\ NodeServices(request[e], ClIndex(e)) \subseteq WholeNetwork(request[e])
           /\ ClBeacon(e) \in NodeServices(request[e], ClIndex(e))
<1>1. TypeOK /\ ExecutionInv(e) /\ Live(e) /\ N(e) \in Nat
  BY ElsUp DEF Inv
<1>2. ClIndex(e) \in 0..N(e) - 1 /\ phase[e] \in ClPhases /\ clCtxs[e] \in Seq(ServiceId)
  BY <1>1 DEF ExecutionInv, Counted, ClIndex, TypeOK
<1>3. ClType(e) \in CLTypes /\ Node(e, ClIndex(e)).mevBoost \in BOOLEAN
  BY <1>1, <1>2, LiveNodes DEF ExecutionInv, ClType
<1>4. NodeServices(request[e], ClIndex(e)) \subseteq WholeNetwork(request[e])
  BY <1>2 DEF WholeNetwork, ParticipantServices, N
<1>5. ClBeacon(e) \in NodeServices(request[e], ClIndex(e))
  BY DEF NodeServices, ClBeacon, ClType, Node
<1> QED
  BY <1>1, <1>2, <1>3, <1>4, <1>5

\* Within a node only what is known of that node changes.
LEMMA ClStays ==
    ASSUME Inv, NEW e \in Execs, stage[e] = "cl", stage'[e] = "cl",
           phase'[e] \in ClPhases, Keeps,
           elCtxs' = elCtxs, clCtxs' = clCtxs, ClInHand(e)'
    PROVE  ExecutionInv(e)'
<1>1. ExecutionInv(e) /\ Live(e) /\ Live(e)' /\ request' = request
  BY DEF Inv, Live, Keeps
<1>2. Checked(e)' /\ Counted(e)'
  BY <1>1 DEF ExecutionInv, Checked, Counted, N, BeforeEls, AfterCls, Tools
<1>3. ElCtxsSound(e)'
  BY <1>1, OwnsLasts DEF ExecutionInv, ElCtxsSound, ElId, Keeps
<1>4. ClCtxsSound(e)'
  BY <1>1, OwnsLasts, NodeServicesLast DEF ExecutionInv, ClCtxsSound, Node, Keeps
<1>5. ElInHand(e)' /\ ToolsInHand(e)'
  BY DEF ElInHand, At, ToolsInHand, ToolsBefore, AfterCls, Tools
<1> QED
  BY <1>2, <1>3, <1>4, <1>5 DEF ExecutionInv

\* The sidecar is added before its node, by the owner of the network.
LEMMA StepLaunchMevBoost ==
    ASSUME Inv, NEW e \in Execs, LaunchMevBoost(e)
    PROVE  Inv'
<1> PICK id : id = MevBoostId(ClIndex(e))
  OBVIOUS
<1>1. /\ stage[e] = "cl" /\ phase[e] = "mevBoost" /\ "launch" \in Phases
      /\ genTime' \in [Execs -> Nat] /\ "cl" \in Stages
      /\ AddService(e, id, {}, "cl", "launch")
      /\ UNCHANGED <<request, answered, now, elCtxs, clCtxs>>
  BY DEF LaunchMevBoost, At, Inv, TypeOK, Phases
<1>2. Node(e, ClIndex(e)).mevBoost
  BY <1>1 DEF Inv, ExecutionInv, ClInHand
<1>3. id \in NodeServices(request[e], ClIndex(e))
  BY <1>2 DEF NodeServices, Node
<1>4. /\ id \in ServiceId /\ id[1] = "mevBoost" /\ id \in WholeNetwork(request[e])
  BY <1>1, <1>3, ClLoop DEF MevBoostId, ServiceId, Kinds
<1>5. Owns(e, ElId(0)) /\ \A i \in 0..N(e) - 1 : ElId(i) \in answered
  BY <1>1, ElsUp
<1>a. MayAdd(e, id, {})
  BY <1>4, <1>5 DEF MayAdd
<1>6. /\ TypeOK' /\ EnclaveInv' /\ Keeps /\ \A f \in Execs \ {e} : Same(f)
      /\ \/ stage'[e] = "failed"
         \/ stage'[e] = "cl" /\ phase'[e] = "launch" /\ Owns(e, id)'
  BY <1>1, <1>a, AddStep
<1>7. ASSUME stage'[e] = "cl", phase'[e] = "launch", Owns(e, id)'
      PROVE  ExecutionInv(e)'
  <2>1. ClInHand(e)'
    BY <1>1, <1>7 DEF ClInHand, ClIndex, Node
  <2> QED
    BY <2>1, <1>1, <1>6, <1>7, ClStays DEF ClPhases
<1> QED
  BY <1>6, <1>7, FailedRelies, Combine

\* A beacon node is added with the addresses of services that can be used.
LEMMA StepLaunchBeacon ==
    ASSUME Inv, NEW e \in Execs, LaunchBeacon(e)
    PROVE  Inv'
<1> PICK id, peers : id = ClBeacon(e) /\ peers = BeaconPeers(e)
  OBVIOUS
<1>1. /\ stage[e] = "cl" /\ phase[e] = "launch" /\ "health" \in Phases
      /\ genTime' \in [Execs -> Nat] /\ "cl" \in Stages
      /\ AddService(e, id, peers, "cl", "health")
      /\ UNCHANGED <<request, answered, now, elCtxs, clCtxs>>
  BY DEF LaunchBeacon, At, Inv, TypeOK, Phases
<1>2. /\ id \in ServiceId /\ id[1] \in {"cl", "clBeacon"}
      /\ id \in WholeNetwork(request[e])
  BY <1>1, ClLoop, BeaconFacts DEF ClBeacon
<1>3. Owns(e, ElId(0)) /\ \A i \in 0..N(e) - 1 : ElId(i) \in answered
  BY <1>1, ElsUp
<1>4. ASSUME NEW q \in peers
      PROVE  /\ q \in ServiceId /\ q[1] # "generator" /\ Owns(e, q)
             /\ IsClient(q) => q \in answered
  <2>1. CASE q = elCtxs[e][ClIndex(e) + 1]
    <3>1. ClIndex(e) \in 0..N(e) - 1 /\ ClIndex(e) \in Nat
      BY <1>1, ClLoop, ElsUp
    <3>2. q = ElId(ClIndex(e)) /\ q \in answered /\ Owns(e, q)
      BY <1>1, <2>1, <3>1, ElsUp
    <3> QED
      BY <3>1, <3>2 DEF ElId, ServiceId, Kinds
  <2>2. CASE 1 \in DOMAIN clCtxs[e] /\ q = clCtxs[e][1]
    <3>1. 1 \in 1..Len(clCtxs[e]) /\ Live(e)
      BY <1>1, <2>2, ClLoop, ElsUp
    <3> QED
      BY <2>2, <3>1, ClsUp
  <2>3. CASE q = MevBoostId(ClIndex(e)) /\ Node(e, ClIndex(e)).mevBoost
    <3>1. Owns(e, q)
      BY <1>1, <2>3 DEF Inv, ExecutionInv, ClInHand
    <3> QED
      BY <1>1, <2>3, <3>1, ClLoop DEF MevBoostId, ServiceId, Kinds, IsClient
  <2> QED
    BY <2>1, <2>2, <2>3 DEF BeaconPeers
<1>5. MayAdd(e, id, peers)
  BY <1>2, <1>3, <1>4 DEF MayAdd
<1>6. /\ TypeOK' /\ EnclaveInv' /\ Keeps /\ \A f \in Execs \ {e} : Same(f)
      /\ \/ stage'[e] = "failed"
         \/ stage'[e] = "cl" /\ phase'[e] = "health" /\ Owns(e, id)'
  BY <1>1, <1>5, AddStep
<1>7. ASSUME stage'[e] = "cl", phase'[e] = "health", Owns(e, id)'
      PROVE  ExecutionInv(e)'
  <2>1. Node(e, ClIndex(e)).mevBoost => Owns(e, MevBoostId(ClIndex(e)))'
    BY <1>1, <1>6, OwnsLasts DEF Inv, ExecutionInv, ClInHand, MevBoostId, ClIndex
  <2>2. ClInHand(e)'
    BY <1>1, <1>7, <2>1 DEF ClInHand, ClIndex, Node, ClBeacon, ClType
  <2> QED
    BY <2>2, <1>1, <1>6, <1>7, ClStays DEF ClPhases
<1> QED
  BY <1>6, <1>7, FailedRelies, Combine

\* The beacon node in hand has answered its health poll.
LEMMA StepBeaconAnswers ==
    ASSUME Inv, NEW e \in Execs, BeaconAnswers(e)
    PROVE  Inv'
<1>0. /\ stage[e] = "cl" /\ phase[e] = "health" /\ "cl" \in Stages
      /\ "validator" \in Phases /\ "identity" \in Phases
      /\ request' = request /\ services' = services /\ clCtxs' = clCtxs /\ elCtxs' = elCtxs
      /\ answered' = answered \cup {ClBeacon(e)}
  BY DEF BeaconAnswers, At, Stages, Phases
<1>1. TypeOK /\ EnclaveInv /\ ExecutionInv(e)
  BY DEF Inv
<1>2. ClBeacon(e) \in ServiceId /\ Owns(e, ClBeacon(e))
  BY <1>0, <1>1, ClLoop, BeaconFacts DEF ClBeacon, ExecutionInv, ClInHand
<1>3. PICK p \in {"validator", "identity"} :
        /\ Goto(e, "cl", p)
        /\ p = IF ClType(e) \in ValidatorFirst THEN "validator" ELSE "identity"
  BY DEF BeaconAnswers
<1>4. /\ stage' \in [Execs -> Stages] /\ phase' \in [Execs -> Phases]
      /\ stage'[e] = "cl" /\ phase'[e] = p
      /\ \A f \in Execs \ {e} : stage'[f] = stage[f] /\ phase'[f] = phase[f]
  BY <1>0, <1>1, <1>3, Goes
<1>5. EnclaveInv' /\ Keeps
  BY <1>0, <1>1, EnclaveUnchanged DEF Keeps, TypeOK
<1>6. TypeOK' /\ \A f \in Execs \ {e} : Same(f)
  BY <1>0, <1>1, <1>2, <1>4 DEF BeaconAnswers, TypeOK, Same
<1>7. ClInHand(e)'
  BY <1>0, <1>1, <1>2, <1>3, <1>4, LauncherFacts
     DEF ClInHand, ExecutionInv, ClBeacon, ClType, ClIndex, Node, Owns
<1>8. ExecutionInv(e)'
  BY <1>0, <1>4, <1>5, <1>7, ClStays DEF ClPhases
<1> QED
  BY <1>5, <1>6, <1>8, Combine

\* Reading the identity changes no service, and ends or precedes the validator.
LEMMA StepReadIdentity ==
    ASSUME Inv, NEW e \in Execs, ReadIdentity(e)
    PROVE  Inv'
<1>0. /\ stage[e] = "cl" /\ phase[e] = "identity" /\ "cl" \in Stages
      /\ "validator" \in Phases /\ "finish" \in Phases
      /\ UNCHANGED <<request, services, answered, elCtxs, clCtxs>>
  BY DEF ReadIdentity, At, Stages, Phases
<1>1. PICK p \in {"validator", "finish"} :
        /\ Goto(e, "cl", p)
        /\ p = IF ClType(e) \in Split \ ValidatorFirst THEN "validator" ELSE "finish"
  BY DEF ReadIdentity
<1>2. /\ TypeOK' /\ EnclaveInv' /\ Keeps /\ \A f \in Execs \ {e} : Same(f)
      /\ stage'[e] = "cl" /\ phase'[e] = p
  BY <1>0, <1>1, QuietStep DEF ReadIdentity
<1>3. ClType(e) \in CLTypes
  BY <1>0, ClLoop, SMTT(30)
<1>4. ClInHand(e)'
  BY <1>0, <1>1, <1>2, <1>3
     DEF Inv, ClInHand, ExecutionInv, ClBeacon, ClType, ClIndex, Node, Owns
<1>5. ExecutionInv(e)'
  BY <1>0, <1>2, <1>4, ClStays DEF ClPhases
<1> QED
  BY <1>2, <1>5, Combine

\* The validator is added to a beacon node that has answered.
LEMMA StepLaunchValidator ==
    ASSUME Inv, NEW e \in Execs, LaunchValidator(e)
    PROVE  Inv'
<1> PICK id, peers, p :
        /\ id = ValidatorId(ClIndex(e)) /\ peers = {ClBeacon(e)}
        /\ p = IF ClType(e) \in ValidatorFirst THEN "identity" ELSE "finish"
  OBVIOUS
<1>1. /\ stage[e] = "cl" /\ phase[e] = "validator" /\ p \in Phases
      /\ genTime' \in [Execs -> Nat] /\ "cl" \in Stages
      /\ AddService(e, id, peers, "cl", p)
      /\ UNCHANGED <<request, answered, now, elCtxs, clCtxs>>
  BY DEF LaunchValidator, At, Inv, TypeOK, Phases
<1>2. /\ ClType(e) \in Split /\ Owns(e, ClBeacon(e)) /\ ClBeacon(e) \in answered
      /\ ClBeacon(e) \in ServiceId /\ ClBeacon(e)[1] # "generator"
  BY <1>1, ClLoop, BeaconFacts DEF Inv, ExecutionInv, ClInHand, ClBeacon
<1>3. id \in NodeServices(request[e], ClIndex(e))
  BY <1>2 DEF NodeServices, ClType, Node
<1>4. /\ id \in ServiceId /\ id[1] = "clValidator" /\ id \in WholeNetwork(request[e])
  BY <1>1, <1>3, ClLoop DEF ValidatorId, ServiceId, Kinds
<1>5. Owns(e, ElId(0)) /\ \A i \in 0..N(e) - 1 : ElId(i) \in answered
  BY <1>1, ElsUp
<1>6. MayAdd(e, id, peers)
  BY <1>2, <1>4, <1>5 DEF MayAdd
<1>7. /\ TypeOK' /\ EnclaveInv' /\ Keeps /\ \A f \in Execs \ {e} : Same(f)
      /\ \/ stage'[e] = "failed"
         \/ stage'[e] = "cl" /\ phase'[e] = p /\ Owns(e, id)'
  BY <1>1, <1>6, AddStep
<1>8. ASSUME stage'[e] = "cl", phase'[e] = p, Owns(e, id)'
      PROVE  ExecutionInv(e)'
  <2>1. Owns(e, ClBeacon(e))'
    BY <1>1, <1>2, <1>7, OwnsLasts DEF ClBeacon, ClType, ClIndex, Node
  <2>2. Node(e, ClIndex(e)).mevBoost => Owns(e, MevBoostId(ClIndex(e)))'
    BY <1>1, <1>7, OwnsLasts, SMTT(30) DEF Inv, ExecutionInv, ClInHand, MevBoostId, ClIndex
  <2>3. ClInHand(e)'
    BY <1>1, <1>2, <1>8, <2>1, <2>2
       DEF ClInHand, ClBeacon, ClType, ClIndex, Node
  <2> QED
    BY <2>3, <1>1, <1>7, <1>8, ClStays DEF ClPhases
<1> QED
  BY <1>7, <1>8, FailedRelies, Combine

\* Everything the participant asked for is there when its context is appended.
LEMMA StepFinishNode ==
    ASSUME Inv, NEW e \in Execs, FinishNode(e)
    PROVE  Inv'
<1> PICK id, k : id = ClBeacon(e) /\ k = ClIndex(e)
  OBVIOUS
<1>0. /\ stage[e] = "cl" /\ phase[e] = "finish"
      /\ UNCHANGED <<request, services, answered, now, genTime, elCtxs>>
      /\ clCtxs' = [clCtxs EXCEPT ![e] = Append(clCtxs[e], id)]
  BY DEF FinishNode, At
<1>1. TypeOK /\ EnclaveInv /\ ExecutionInv(e) /\ Live(e)
  BY <1>0 DEF Inv, Live
<1>2. /\ id \in ServiceId /\ id = BeaconId(Node(e, k).cl, k) /\ id \in answered
      /\ k \in Nat /\ k < N(e) /\ N(e) \in Nat /\ clCtxs[e] \in Seq(ServiceId)
      /\ k = Len(clCtxs[e]) /\ Len(elCtxs[e]) = N(e)
      /\ ClType(e) \in CLTypes
  BY <1>0, <1>1, ClLoop, ElsUp, BeaconFacts DEF ClBeacon, ClType, ClIndex, ExecutionInv, ClInHand
<1>3. PICK s \in {"cl", "spammer", "succeeded"}, p \in {"mevBoost", "launch"} :
        /\ Goto(e, s, p)
        /\ s = "cl" => k + 1 # N(e) /\ p = FirstClPhase(e, k + 1)
        /\ s # "cl" => k + 1 = N(e)
        /\ s = "spammer" => request[e].additional
        /\ s = "succeeded" => ~request[e].additional
  BY DEF FinishNode, FirstClPhase
<1>4. s \in Stages /\ p \in Phases
  BY DEF Stages, Tools, Final, Phases
<1>5. /\ stage' \in [Execs -> Stages] /\ phase' \in [Execs -> Phases]
      /\ stage'[e] = s /\ phase'[e] = p
      /\ \A f \in Execs \ {e} : stage'[f] = stage[f] /\ phase'[f] = phase[f]
  BY <1>1, <1>3, <1>4, Goes
<1>6. EnclaveInv' /\ Keeps
  BY <1>0, <1>1, EnclaveUnchanged DEF Keeps, TypeOK
<1>7. /\ clCtxs'[e] = Append(clCtxs[e], id) /\ clCtxs'[e] \in Seq(ServiceId)
      /\ Len(clCtxs'[e]) = k + 1
      /\ \A i \in 1..k : clCtxs'[e][i] = clCtxs[e][i]
      /\ clCtxs'[e][k + 1] = id
  BY <1>0, <1>1, <1>2 DEF TypeOK
<1>8. TypeOK' /\ \A f \in Execs \ {e} : Same(f)
  BY <1>0, <1>1, <1>2, <1>5, <1>7 DEF TypeOK, Same
<1>9. ExecutionInv(e)'
  <2>1. Live(e)' /\ N(e)' = N(e)
    BY <1>0, <1>5 DEF Live, N
  <2>2. Checked(e)' /\ Counted(e)'
    BY <2>1, <1>0, <1>1, <1>2, <1>3, <1>5, <1>7
       DEF ExecutionInv, Checked, Counted, BeforeEls, AfterCls, Tools, ClPhases
  <2>3. ElCtxsSound(e)'
    BY <1>0, <1>1, <1>6, OwnsLasts DEF ExecutionInv, ElCtxsSound, ElId
  <2>4. \A i \in NodeServices(request[e], k) : Owns(e, i)
    <3> SUFFICES ASSUME NEW i \in NodeServices(request[e], k)
                 PROVE  Owns(e, i)
      OBVIOUS
    <3>1. CASE i = ElId(k)
      BY <3>1, <1>0, <1>2, ElsUp
    <3>2. CASE i = id
      BY <3>2, <1>0, <1>1 DEF ExecutionInv, ClInHand
    <3>3. CASE i = ValidatorId(k) /\ Node(e, k).cl \in Split
      BY <3>3, <1>0, <1>1 DEF ExecutionInv, ClInHand, ClType
    <3>4. CASE i = MevBoostId(k) /\ Node(e, k).mevBoost
      BY <3>4, <1>0, <1>1 DEF ExecutionInv, ClInHand
    <3> QED
      BY <3>1, <3>2, <3>3, <3>4, <1>2 DEF NodeServices, Node
  <2>5. ClCtxsSound(e)'
    <3> SUFFICES ASSUME NEW i \in 1..k + 1
                 PROVE  /\ clCtxs'[e][i] = BeaconId(Node(e, i - 1).cl, i - 1)
                        /\ clCtxs'[e][i] \in answered
                        /\ \A j \in NodeServices(request[e], i - 1) : Owns(e, j)
      BY <1>0, <1>2, <1>7, SMTT(30) DEF ClCtxsSound, Owns, Node
    <3>1. CASE i \in 1..k
      BY <3>1, <1>1, <1>2, <1>7 DEF ExecutionInv, ClCtxsSound
    <3>2. CASE i = k + 1
      <4>1. i - 1 = k
        BY <3>2, <1>2
      <4> QED
        BY <3>2, <4>1, <1>2, <1>7, <2>4
    <3> QED
      BY <3>1, <3>2, <1>2
  <2>6. ElInHand(e)'
    BY <1>5 DEF ElInHand, At
  <2>7. ClInHand(e)'
    BY <1>0, <1>3, <1>5, <1>7 DEF ClInHand, FirstClPhase, ClIndex, Node
  <2>8. ToolsInHand(e)'
    BY <1>0, <1>3, <1>5 DEF ToolsInHand, ToolsBefore, At, AfterCls, Tools
  <2> QED
    BY <2>2, <2>3, <2>5, <2>6, <2>7, <2>8 DEF ExecutionInv
<1> QED
  BY <1>6, <1>8, <1>9, Combine

----------------------------------------------------------------------------
(* The additional services and the waits.                                  *)

\* Past the CL nodes only what is known of the tools changes.
LEMMA ToolStays ==
    ASSUME Inv, NEW e \in Execs, stage[e] \in AfterCls, stage'[e] \in AfterCls, Keeps,
           elCtxs' = elCtxs, clCtxs' = clCtxs, ToolsInHand(e)'
    PROVE  ExecutionInv(e)'
<1>1. ExecutionInv(e) /\ Live(e) /\ Live(e)' /\ request' = request
  BY DEF Inv, Live, AfterCls, Tools, Keeps
<1>2. Checked(e)' /\ Counted(e)'
  BY <1>1 DEF ExecutionInv, Checked, Counted, N, BeforeEls, AfterCls, Tools
<1>3. ElCtxsSound(e)'
  BY <1>1, OwnsLasts DEF ExecutionInv, ElCtxsSound, ElId, Keeps
<1>4. ClCtxsSound(e)'
  BY <1>1, OwnsLasts, NodeServicesLast DEF ExecutionInv, ClCtxsSound, Node, Keeps
<1>5. ElInHand(e)' /\ ClInHand(e)'
  BY DEF ElInHand, At, ClInHand, AfterCls, Tools
<1> QED
  BY <1>1, <1>2, <1>3, <1>4, <1>5 DEF ExecutionInv

\* Every service an execution's contexts name may be peered with.
LEMMA ContextsUsable ==
    ASSUME Inv, NEW e \in Execs, stage[e] \in AfterCls,
           NEW q \in Elements(elCtxs[e]) \cup Elements(clCtxs[e])
    PROVE  /\ q \in ServiceId /\ q[1] # "generator" /\ Owns(e, q) /\ q \in answered
<1>0. /\ elCtxs[e] \in Seq(ServiceId) /\ clCtxs[e] \in Seq(ServiceId) /\ Live(e)
      /\ ExecutionInv(e)
  BY ElsUp DEF Inv, TypeOK
<1>1. CASE q \in Elements(elCtxs[e])
  <2>1. PICK i \in 1..Len(elCtxs[e]) : q = elCtxs[e][i]
    BY <1>0, <1>1 DEF Elements
  <2>2. q = ElId(i - 1) /\ Owns(e, q) /\ q \in answered /\ q \in ServiceId
    BY <1>0, <2>1 DEF ExecutionInv, ElCtxsSound
  <2> QED
    BY <2>2 DEF ElId
<1>2. CASE q \in Elements(clCtxs[e])
  <2>1. PICK i \in 1..Len(clCtxs[e]) : q = clCtxs[e][i]
    BY <1>0, <1>2 DEF Elements
  <2> QED
    BY <2>1, <1>0, ClsUp
<1> QED
  BY <1>1, <1>2

\* The validator container of a participant whose launcher splits the node.
LEMMA ValidatorUp ==
    ASSUME Inv, NEW e \in Execs, stage[e] \in AfterCls, NEW i \in 0..N(e) - 1,
           Node(e, i).cl \in Split
    PROVE  /\ ValidatorId(i) \in ServiceId /\ ValidatorId(i)[1] = "clValidator"
           /\ Owns(e, ValidatorId(i))
<1>1. ExecutionInv(e) /\ Live(e) /\ N(e) \in Nat /\ Len(clCtxs[e]) = N(e)
  BY ElsUp DEF Inv, ExecutionInv, Counted
<1>2. i \in Nat /\ i + 1 \in 1..Len(clCtxs[e]) /\ (i + 1) - 1 = i
  BY <1>1
<1>3. \A id \in NodeServices(request[e], i) : Owns(e, id)
  BY <1>1, <1>2 DEF ExecutionInv, ClCtxsSound
<1>4. ValidatorId(i) \in NodeServices(request[e], i)
  BY DEF NodeServices, Node
<1> QED
  BY <1>2, <1>3, <1>4 DEF ValidatorId, ServiceId, Kinds

\* What a tool is given the addresses of may be peered with.
LEMMA ToolPeersUsable ==
    ASSUME Inv, NEW e \in Execs, NEW tool \in Tools, stage[e] = tool,
           NEW q \in ToolPeers(e, tool)
    PROVE  /\ q \in ServiceId /\ q[1] # "generator" /\ Owns(e, q)
           /\ IsClient(q) => q \in answered
<1>0. /\ stage[e] \in AfterCls /\ N(e) \in Nat /\ N(e) >= 1 /\ Len(elCtxs[e]) = N(e)
      /\ elCtxs[e] \in Seq(ServiceId) /\ ExecutionInv(e)
  BY ElsUp DEF AfterCls, Inv, TypeOK
<1>1. CASE q \in Elements(elCtxs[e]) \cup Elements(clCtxs[e])
  BY <1>0, <1>1, ContextsUsable
<1>2. CASE tool = "spammer"
  <2>1. q = elCtxs[e][1] /\ 1 \in DOMAIN elCtxs[e]
    BY <1>0, <1>2 DEF ToolPeers
  <2> QED
    BY <2>1, <1>1 DEF Elements
<1>3. CASE tool = "forkmon"
  BY <1>1, <1>3 DEF ToolPeers
<1>4. CASE tool = "prometheus"
  <2>1. CASE q \in Elements(clCtxs[e])
    BY <2>1, <1>1
  <2>2. ASSUME NEW i \in 0..N(e) - 1, Node(e, i).cl \in Split, q = ValidatorId(i)
        PROVE  q \in ServiceId /\ q[1] = "clValidator" /\ Owns(e, q)
    BY <2>2, <1>0, ValidatorUp
  <2> QED
    BY <2>1, <2>2, <1>4, LauncherFacts DEF ToolPeers, MetricsTargets, IsClient
<1>5. CASE tool = "grafana"
  <2>1. q = ToolId("prometheus")
    BY <1>5 DEF ToolPeers
  <2>2. Owns(e, q)
    BY <2>1, <1>0, <1>5 DEF ExecutionInv, ToolsInHand, ToolsBefore, At
  <2> QED
    BY <2>1, <2>2 DEF ToolId, ServiceId, Kinds, IsClient
<1> QED
  BY <1>2, <1>3, <1>4, <1>5 DEF Tools

\* An execution may add a tool it was asked for.
LEMMA MayAddTool ==
    ASSUME Inv, NEW e \in Execs, stage[e] \in AfterCls \ {"succeeded"},
           NEW tool \in Tools \cup {"verifier"}, NEW peers,
           \A q \in peers : /\ q \in ServiceId /\ q[1] # "generator" /\ Owns(e, q)
                            /\ IsClient(q) => q \in answered
    PROVE  MayAdd(e, ToolId(tool), peers)
<1>1. request[e].additional /\ Owns(e, ElId(0))
  BY ElsUp DEF Inv, ExecutionInv, ToolsInHand
<1>2. ToolId(tool) \in WholeNetwork(request[e])
  BY <1>1 DEF WholeNetwork, ToolServices
<1>3. /\ ToolId(tool) \in ServiceId
      /\ ToolId(tool)[1] \notin {"cl", "clBeacon", "clValidator", "mevBoost"}
  BY DEF ToolId, ServiceId, Kinds, Tools
<1> QED
  BY <1>1, <1>2, <1>3 DEF MayAdd

\* An additional service is added with the addresses of the whole network.
LEMMA StepLaunchTool ==
    ASSUME Inv, NEW e \in Execs, LaunchTool(e)
    PROVE  Inv'
<1> PICK tool, id, peers, next :
        /\ tool = stage[e] /\ id = ToolId(stage[e])
        /\ peers = ToolPeers(e, stage[e]) /\ next = AfterTool(stage[e])
  OBVIOUS
<1>1. /\ tool \in Tools /\ stage[e] = tool /\ stage[e] \in AfterCls \ {"succeeded"}
      /\ genTime' \in [Execs -> Nat] /\ "launch" \in Phases
      /\ AddService(e, id, peers, next, "launch")
      /\ UNCHANGED <<request, answered, now, elCtxs, clCtxs>>
  BY DEF LaunchTool, AfterCls, Inv, TypeOK, Phases, Tools
<1>2. /\ next \in Stages /\ next \in AfterCls \ {"succeeded"}
      /\ tool = "spammer" => next = "genesisWait"
      /\ tool = "forkmon" => next = "prometheus"
      /\ tool = "prometheus" => next = "grafana"
      /\ tool = "grafana" => next = "verifier"
  BY <1>1 DEF AfterTool, Tools, Stages, AfterCls
<1>3. MayAdd(e, id, peers)
  BY <1>1, ToolPeersUsable, MayAddTool
<1>4. /\ TypeOK' /\ EnclaveInv' /\ Keeps /\ \A f \in Execs \ {e} : Same(f)
      /\ \/ stage'[e] = "failed"
         \/ stage'[e] = next /\ phase'[e] = "launch" /\ Owns(e, id)'
  BY <1>1, <1>2, <1>3, AddStep
<1>5. ASSUME stage'[e] = next, phase'[e] = "launch", Owns(e, id)'
      PROVE  ExecutionInv(e)'
  <2>1. \A t \in ToolsBefore(e) : Owns(e, ToolId(t))'
    BY <1>1, <1>4, OwnsLasts
       DEF Inv, ExecutionInv, ToolsInHand, ToolsBefore, ToolId, At, Tools
  <2>2. ToolsBefore(e)' \subseteq ToolsBefore(e) \cup {tool}
    BY <1>1, <1>2, <1>5 DEF ToolsBefore, At, Tools
  <2>3. request[e].additional
    BY <1>1 DEF Inv, ExecutionInv, ToolsInHand
  <2>4. ToolsInHand(e)'
    BY <2>1, <2>2, <2>3, <1>1, <1>2, <1>5 DEF ToolsInHand, ToolId
  <2> QED
    BY <2>4, <1>1, <1>2, <1>4, <1>5, ToolStays
<1> QED
  BY <1>4, <1>5, FailedRelies, Combine

\* Sleeping until genesis changes nothing but the stage.
LEMMA StepGenesisOccurs ==
    ASSUME Inv, NEW e \in Execs, GenesisOccurs(e)
    PROVE  Inv'
<1>1. /\ TypeOK' /\ EnclaveInv' /\ Keeps /\ \A f \in Execs \ {e} : Same(f)
      /\ stage'[e] = "forkmon" /\ phase'[e] = "launch"
  BY QuietStep DEF GenesisOccurs, Stages, Tools, Phases
<1>2. ToolsInHand(e)'
  BY <1>1 DEF GenesisOccurs, Inv, ExecutionInv, ToolsInHand, ToolsBefore, At, Owns, AfterCls,
              Tools
<1>3. ExecutionInv(e)'
  BY <1>1, <1>2, ToolStays DEF GenesisOccurs, AfterCls, Tools
<1> QED
  BY <1>1, <1>3, Combine

\* The verifier is added last, with the addresses of all clients.
LEMMA StepLaunchVerifier ==
    ASSUME Inv, NEW e \in Execs, LaunchVerifier(e)
    PROVE  Inv'
<1> PICK id, peers, s, p :
        /\ id = ToolId("verifier")
        /\ peers = Elements(elCtxs[e]) \cup Elements(clCtxs[e])
        /\ s = CASE request[e].verify -> "verifier"
                 [] ~request[e].verify /\ request[e].finalize -> "finalization"
                 [] OTHER -> "succeeded"
        /\ p = IF request[e].verify THEN "run" ELSE "launch"
  OBVIOUS
<1>1. /\ stage[e] = "verifier" /\ phase[e] = "launch"
      /\ stage[e] \in AfterCls \ {"succeeded"}
      /\ genTime' \in [Execs -> Nat]
      /\ AddService(e, id, peers, s, p)
      /\ UNCHANGED <<request, answered, now, elCtxs, clCtxs>>
  BY DEF LaunchVerifier, At, AfterCls, Inv, TypeOK, Tools
<1>2. /\ s \in Stages /\ s \in {"verifier", "finalization", "succeeded"}
      /\ p \in Phases /\ p \in {"run", "launch"}
      /\ s = "verifier" => p = "run"
  BY DEF Stages, Final, Phases
<1>3. MayAdd(e, id, peers)
  BY <1>1, ContextsUsable, MayAddTool
<1>4. /\ TypeOK' /\ EnclaveInv' /\ Keeps /\ \A f \in Execs \ {e} : Same(f)
      /\ \/ stage'[e] = "failed"
         \/ stage'[e] = s /\ phase'[e] = p /\ Owns(e, id)'
  BY <1>1, <1>2, <1>3, AddStep
<1>5. ASSUME stage'[e] = s, phase'[e] = p, Owns(e, id)'
      PROVE  ExecutionInv(e)'
  <2>1. \A t \in Tools : Owns(e, ToolId(t))'
    BY <1>1, <1>4, OwnsLasts
       DEF Inv, ExecutionInv, ToolsInHand, ToolsBefore, ToolId, At, Tools
  <2>2. ToolsBefore(e)' \subseteq Tools \cup {"verifier"}
    BY <1>2, <1>5 DEF ToolsBefore, At, Tools
  <2>3. request[e].additional
    BY <1>1 DEF Inv, ExecutionInv, ToolsInHand
  <2>4. ToolsInHand(e)'
    BY <2>1, <2>2, <2>3, <1>1, <1>2, <1>5 DEF ToolsInHand
  <2> QED
    BY <2>4, <1>1, <1>2, <1>4, <1>5, ToolStays DEF AfterCls
<1> QED
  BY <1>4, <1>5, FailedRelies, Combine

\* The two waits that end an execution successfully.
LEMMA StepPasses ==
    ASSUME Inv, NEW e \in Execs, VerifierPasses(e) \/ EpochFinalized(e)
    PROVE  Inv'
<1>0. /\ At(e, "verifier", "run") \/ stage[e] = "finalization"
      /\ stage[e] \in AfterCls \ {"succeeded"}
      /\ Goto(e, "succeeded", "launch")
      /\ UNCHANGED <<request, services, answered, now, genTime, elCtxs, clCtxs>>
  BY DEF VerifierPasses, EpochFinalized, At, AfterCls, Tools
<1>1. /\ TypeOK' /\ EnclaveInv' /\ Keeps /\ \A f \in Execs \ {e} : Same(f)
      /\ stage'[e] = "succeeded" /\ phase'[e] = "launch"
  BY <1>0, QuietStep DEF Stages, Final, Phases
<1>2. ToolsInHand(e)'
  BY <1>0, <1>1 DEF Inv, ExecutionInv, ToolsInHand, ToolsBefore, At, Owns, AfterCls, Tools
<1>3. ExecutionInv(e)'
  BY <1>0, <1>1, <1>2, ToolStays DEF AfterCls
<1> QED
  BY <1>1, <1>3, Combine

----------------------------------------------------------------------------
(* The invariant.                                                          *)

\* Nothing is in the enclave and no execution has begun.
LEMMA InitInv == Init => Inv
<1> SUFFICES ASSUME Init
             PROVE  Inv
  OBVIOUS
<1>1. TypeOK
  BY DEF Init, TypeOK, Stages, Phases
<1>2. ASSUME NEW e \in Execs
      PROVE  ExecutionInv(e)
  <2>1. /\ stage[e] = "idle" /\ ~Live(e)
        /\ elCtxs[e] = <<>> /\ clCtxs[e] = <<>>
    BY DEF Init, Live
  <2> QED
    BY <2>1 DEF ExecutionInv, Checked, Counted, ElCtxsSound, ClCtxsSound, ElInHand,
       ClInHand, ToolsInHand, ToolsBefore, At, BeforeEls, AfterCls, Tools
<1>3. EnclaveInv
  BY DEF Init, EnclaveInv, UniqueIds, Claimed, NetworkServices, PeersLast, PeersUsable,
         ElNetworkFirst
<1> QED
  BY <1>1, <1>2, <1>3 DEF Inv

\* Time and stuttering touch nothing the invariant speaks of.
LEMMA IdleStep ==
    ASSUME Inv, Tick \/ UNCHANGED vars
    PROVE  Inv'
<1>1. UNCHANGED <<request, services, answered, stage, phase, genTime, elCtxs, clCtxs>>
  BY DEF Tick, vars, progress
<1>2. TypeOK /\ EnclaveInv
  BY DEF Inv
<1>3. EnclaveInv' /\ Keeps
  BY <1>1, <1>2, EnclaveUnchanged DEF Keeps, TypeOK
<1>4. TypeOK'
  BY <1>1, <1>2 DEF TypeOK, Tick, vars
<1>5. \A f \in Execs : ExecutionInv(f)'
  BY <1>1, <1>3, OthersKeep DEF Inv, Same
<1> QED
  BY <1>3, <1>4, <1>5 DEF Inv

\* A step of an execution, whichever it is, keeps the invariant.
LEMMA StepInv ==
    ASSUME Inv, NEW e \in Execs, Step(e)
    PROVE  Inv'
BY StepStart, StepAbort, StepLaunchGenerator, StepRunGenerator, StepRemoveGenerator,
   StepUpload, StepLaunchEl, StepRejectEl, StepElAnswers, StepLaunchMevBoost,
   StepLaunchBeacon, StepBeaconAnswers, StepReadIdentity, StepLaunchValidator,
   StepFinishNode, StepLaunchTool, StepGenesisOccurs, StepLaunchVerifier, StepPasses
   DEF Step, Advance

\* However many executions run against the enclave and wherever they fail,
\* each finds what it launched and nothing else in the state it relies on.
THEOREM InvHolds == Spec => []Inv
<1>1. Inv /\ [Next]_vars => Inv'
  BY StepInv, IdleStep DEF Next
<1> QED
  BY <1>1, InitInv, PTL DEF Spec
=============================================================================
