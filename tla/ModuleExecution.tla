-------------------------- MODULE ModuleExecution --------------------------
(***************************************************************************)
(* Executions of the module against one enclave: Execute (module.go) and   *)
(* LaunchParticipantNetwork (participant_network.go) with every launcher   *)
(* they call.  Each execution is sequential; several may run against the   *)
(* same enclave, at once or one after another, and share its registry of   *)
(* services.  The enclave itself is external: it refuses a service ID that *)
(* is taken, keeps every service until it is removed, and any call to it   *)
(* may fail.                                                               *)
(***************************************************************************)
EXTENDS Launchers

CONSTANTS
    Execs,      \* the executions
    Requests,   \* the parameters they may be called with
    MaxTime     \* bound on the clock, in seconds

ASSUME ExecutionAssumption == Requests \subseteq Request /\ MaxTime \in Nat

VARIABLES
    request,    \* request[e]: the parameters of execution e
    services,   \* the enclave's registry
    answered,   \* services whose API has answered an availability poll
    now,        \* the clock, in seconds
    stage,      \* stage[e]: how far e has come
    phase,      \* phase[e]: the step within the stage
    genTime,    \* genTime[e]: the second in the name of e's data generator
    elCtxs,     \* elCtxs[e]: allElClientContexts
    clCtxs      \* clCtxs[e]: allClClientContexts

progress == <<stage, phase>>
vars == <<request, services, answered, now, progress, genTime, elCtxs, clCtxs>>

----------------------------------------------------------------------------
(* Services.  An ID is a kind and an index: the participant's, or the time *)
(* for a data generator.  A service records which execution added it and   *)
(* the services whose addresses its configuration contains, or the command *)
(* that is run in it (the synchronous verifier's).                         *)

Kinds == {"generator", "el", "mevBoost", "cl", "clBeacon", "clValidator",
          "spammer", "forkmon", "prometheus", "grafana", "verifier"}

ServiceId == Kinds \X Nat
Service   == [id : ServiceId, owner : Execs, peers : SUBSET ServiceId]

GeneratorId(t) == <<"generator", t>>
ElId(i)        == <<"el", i>>
MevBoostId(i)  == <<"mevBoost", i>>
ValidatorId(i) == <<"clValidator", i>>
ToolId(tool)   == <<tool, 0>>

BeaconId(type, i) == IF type \in Split THEN <<"clBeacon", i>> ELSE <<"cl", i>>

Free(id)        == \A s \in services : s.id # id
IsGenerator(s)  == s.id[1] = "generator"
NetworkServices == {s \in services : ~IsGenerator(s)}

----------------------------------------------------------------------------
(* Stages, in the order of the code.                                       *)

GeneratorStages == {"keystores", "elGenesis", "clGenesis"}
Tools           == {"spammer", "forkmon", "prometheus", "grafana"}
Final           == {"succeeded", "failed", "panicked"}
Stages          == GeneratorStages \cup Tools \cup Final \cup
                   {"idle", "upload", "el", "cl", "genesisWait", "verifier",
                    "finalization"}
Phases          == {"launch", "run", "remove", "undo", "wait", "mevBoost",
                    "health", "identity", "validator", "finish"}

Running(e) == stage[e] \notin Final \cup {"idle"}
At(e, s, p) == stage[e] = s /\ phase[e] = p

Goto(e, s, p) == /\ stage' = [stage EXCEPT ![e] = s]
                 /\ phase' = [phase EXCEPT ![e] = p]

\* Faulty: a taken ID is taken for the service asked for, as a retry might.
AddOrAdopt(e, id, peers, s, p) ==
    /\ services' = IF Free(id)
                   THEN services \cup {[id |-> id, owner |-> e, peers |-> peers]}
                   ELSE services
    /\ Goto(e, s, p)

\* enclaveCtx.AddService: e goes on to stage s and phase p, or returns the
\* error when the ID is taken.
AddService(e, id, peers, s, p) ==
    \/ /\ Free(id)
       /\ services' = services \cup {[id |-> id, owner |-> e, peers |-> peers]}
       /\ Goto(e, s, p)
    \/ /\ ~Free(id)
       /\ Goto(e, "failed", "launch")
       /\ UNCHANGED services

N(e)       == NumParticipants(request[e])
Node(e, i) == request[e].participants[i + 1]
Elements(seq) == {seq[i] : i \in DOMAIN seq}

Init ==
    /\ request \in [Execs -> Requests]
    /\ services = {} /\ answered = {} /\ now = 0
    /\ stage = [e \in Execs |-> "idle"]
    /\ phase = [e \in Execs |-> "launch"]
    /\ genTime = [e \in Execs |-> 0]
    /\ elCtxs = [e \in Execs |-> <<>>]
    /\ clCtxs = [e \in Execs |-> <<>>]

----------------------------------------------------------------------------
(* Parameters, and the data generated before anything is launched.         *)

Start(e) ==
    /\ stage[e] = "idle"
    /\ Goto(e, IF Valid(request[e]) THEN "keystores" ELSE "failed", "launch")
    /\ UNCHANGED <<request, services, answered, now, genTime, elCtxs, clCtxs>>

\* LaunchPrelaunchDataGenerator: the service is named after the clock.
LaunchGenerator(e) ==
    /\ stage[e] \in GeneratorStages /\ phase[e] = "launch"
    /\ AddService(e, GeneratorId(now), {}, stage[e], "run")
    /\ genTime' = [genTime EXCEPT ![e] = now]
    /\ UNCHANGED <<request, answered, now, elCtxs, clCtxs>>

\* The commands run in the generator and the artifacts stored out of it: one
\* that fails ends the generation, and the deferred removal still runs.
RunGenerator(e) ==
    /\ stage[e] \in GeneratorStages /\ phase[e] = "run"
    /\ \E outcome \in {"remove", "undo"} : Goto(e, stage[e], outcome)
    /\ UNCHANGED <<request, services, answered, now, genTime, elCtxs, clCtxs>>

FirstClPhase(e, i) == IF Node(e, i).mevBoost THEN "mevBoost" ELSE "launch"

\* Faulty: the removal names the generator after the clock again.
RemoveLatestGenerator(e) ==
    /\ stage[e] \in GeneratorStages /\ phase[e] \in {"remove", "undo"}
    /\ services' = {s \in services : s.id # GeneratorId(now)}
    /\ Goto(e, "failed", "launch")
    /\ UNCHANGED <<request, answered, now, genTime, elCtxs, clCtxs>>

\* The deferred RemoveService.  Its failure is only logged.
RemoveGenerator(e) ==
    /\ stage[e] \in GeneratorStages /\ phase[e] \in {"remove", "undo"}
    /\ services' \in {services,
                      {s \in services : s.id # GeneratorId(genTime[e])}}
    /\ \/ phase[e] = "undo" /\ Goto(e, "failed", "launch")
       \/ /\ phase[e] = "remove"
          /\ CASE stage[e] = "keystores" -> Goto(e, "elGenesis", "launch")
               [] stage[e] = "elGenesis" -> Goto(e, "upload", "launch")
               [] stage[e] = "clGenesis" -> Goto(e, "cl", FirstClPhase(e, 0))
    /\ UNCHANGED <<request, answered, now, genTime, elCtxs, clCtxs>>

\* The prefunded Geth keys, uploaded once the EL genesis data is there.
UploadPrefundedKeys(e) ==
    /\ stage[e] = "upload"
    /\ Goto(e, "el", "launch")
    /\ UNCHANGED <<request, services, answered, now, genTime, elCtxs, clCtxs>>

----------------------------------------------------------------------------
(* Execution-layer clients, one after another.                             *)

ElIndex(e) == Len(elCtxs[e])
ElType(e)  == Node(e, ElIndex(e)).el

\* getContainerConfig demands some of the clients launched so far, and writes
\* the enode of the first one or two into the new client's flags.
EnoughPeers(type, ctxs) == Len(ctxs) >= ElLauncher(type).needs
ElPeers(type, ctxs) == {ctxs[i] : i \in DOMAIN ctxs \cap 1..ElLauncher(type).peers}

\* Faulty: the IDs of the EL clients are made distinct per execution.
LaunchElStamped(e) ==
    /\ At(e, "el", "launch")
    /\ EnoughPeers(ElType(e), elCtxs[e])
    /\ AddService(e, ElId(N(e) * genTime[e] + ElIndex(e)), ElPeers(ElType(e), elCtxs[e]),
                  "el", "wait")
    /\ UNCHANGED <<request, answered, now, genTime, elCtxs, clCtxs>>

LaunchEl(e) ==
    /\ At(e, "el", "launch")
    /\ EnoughPeers(ElType(e), elCtxs[e])
    /\ AddService(e, ElId(ElIndex(e)), ElPeers(ElType(e), elCtxs[e]), "el", "wait")
    /\ UNCHANGED <<request, answered, now, genTime, elCtxs, clCtxs>>

\* Faulty: Besu and Nethermind wait for peers that are never going to come.
RejectErigonOnly(e) ==
    /\ At(e, "el", "launch")
    /\ ~EnoughPeers(ElType(e), elCtxs[e]) /\ ElType(e) = "erigon"
    /\ Goto(e, "panicked", "launch")
    /\ UNCHANGED <<request, services, answered, now, genTime, elCtxs, clCtxs>>

\* Besu and Nethermind return an error, Erigon indexes an empty slice.
RejectEl(e) ==
    /\ At(e, "el", "launch")
    /\ ~EnoughPeers(ElType(e), elCtxs[e])
    /\ Goto(e, ElLauncher(ElType(e)).lacking, "launch")
    /\ UNCHANGED <<request, services, answered, now, genTime, elCtxs, clCtxs>>

\* Faulty: the loop ends one client early.
ElAnswersEarly(e) ==
    LET id == ElId(ElIndex(e)) IN
    /\ At(e, "el", "wait")
    /\ answered' = answered \cup {id}
    /\ elCtxs' = [elCtxs EXCEPT ![e] = Append(@, id)]
    /\ Goto(e, IF ElIndex(e) + 2 >= N(e) THEN "clGenesis" ELSE "el", "launch")
    /\ UNCHANGED <<request, services, now, genTime, clCtxs>>

\* WaitForELClientAvailability returned and the context is appended.
ElAnswers(e) ==
    LET id == ElId(ElIndex(e)) IN
    /\ At(e, "el", "wait")
    /\ answered' = answered \cup {id}
    /\ elCtxs' = [elCtxs EXCEPT ![e] = Append(@, id)]
    /\ Goto(e, IF ElIndex(e) + 1 = N(e) THEN "clGenesis" ELSE "el", "launch")
    /\ UNCHANGED <<request, services, now, genTime, clCtxs>>

----------------------------------------------------------------------------
(* Consensus-layer nodes, one after another, each paired with the EL       *)
(* client of its index and a mev-boost sidecar when the participant has    *)
(* builder parameters.                                                     *)

ClIndex(e) == Len(clCtxs[e])
ClType(e)  == Node(e, ClIndex(e)).cl
ClBeacon(e) == BeaconId(ClType(e), ClIndex(e))

LaunchMevBoost(e) ==
    /\ At(e, "cl", "mevBoost")
    /\ AddService(e, MevBoostId(ClIndex(e)), {}, "cl", "launch")
    /\ UNCHANGED <<request, answered, now, genTime, elCtxs, clCtxs>>

\* Faulty: the sidecar's address is written whether there is a sidecar or not.
BeaconPeersBoosted(e) ==
    {elCtxs[e][ClIndex(e) + 1], MevBoostId(ClIndex(e))}
        \cup {clCtxs[e][i] : i \in {1} \cap DOMAIN clCtxs[e]}

\* The first node boots the network, the others use its ENR.  The Nimbus
\* launcher leaves the sidecar out.
BeaconPeers(e) ==
    {elCtxs[e][ClIndex(e) + 1]}
        \cup {clCtxs[e][i] : i \in {1} \cap DOMAIN clCtxs[e]}
        \cup (IF Node(e, ClIndex(e)).mevBoost /\ ClType(e) \in Boosted
              THEN {MevBoostId(ClIndex(e))} ELSE {})

LaunchBeacon(e) ==
    /\ At(e, "cl", "launch")
    /\ AddService(e, ClBeacon(e), BeaconPeers(e), "cl", "health")
    /\ UNCHANGED <<request, answered, now, genTime, elCtxs, clCtxs>>

\* The health poll answered.  The Lighthouse launcher adds the validator
\* before it asks for the node's identity, the others after.
BeaconAnswers(e) ==
    /\ At(e, "cl", "health")
    /\ answered' = answered \cup {ClBeacon(e)}
    /\ Goto(e, "cl", IF ClType(e) \in ValidatorFirst THEN "validator" ELSE "identity")
    /\ UNCHANGED <<request, services, now, genTime, elCtxs, clCtxs>>

\* Faulty: the Lodestar launcher returns once its beacon node is up.
ReadIdentityAndReturn(e) ==
    /\ At(e, "cl", "identity")
    /\ Goto(e, "cl", IF ClType(e) \in Split \ {"lighthouse", "lodestar"}
                     THEN "validator" ELSE "finish")
    /\ UNCHANGED <<request, services, answered, now, genTime, elCtxs, clCtxs>>

ReadIdentity(e) ==
    /\ At(e, "cl", "identity")
    /\ Goto(e, "cl", IF ClType(e) \in Split \ ValidatorFirst THEN "validator" ELSE "finish")
    /\ UNCHANGED <<request, services, answered, now, genTime, elCtxs, clCtxs>>

LaunchValidator(e) ==
    /\ At(e, "cl", "validator")
    /\ AddService(e, ValidatorId(ClIndex(e)), {ClBeacon(e)}, "cl",
                  IF ClType(e) \in ValidatorFirst THEN "identity" ELSE "finish")
    /\ UNCHANGED <<request, answered, now, genTime, elCtxs, clCtxs>>

\* The launcher returns a context, which is appended.  After the last node
\* Execute goes on to the additional services or returns "{}".
FinishNode(e) ==
    LET last == ClIndex(e) + 1 = N(e) IN
    /\ At(e, "cl", "finish")
    /\ clCtxs' = [clCtxs EXCEPT ![e] = Append(@, ClBeacon(e))]
    /\ \/ ~last /\ Goto(e, "cl", FirstClPhase(e, ClIndex(e) + 1))
       \/ last /\ request[e].additional /\ Goto(e, "spammer", "launch")
       \/ last /\ ~request[e].additional /\ Goto(e, "succeeded", "launch")
    /\ UNCHANGED <<request, services, answered, now, genTime, elCtxs>>

----------------------------------------------------------------------------
(* The additional services, and the waits at the end of Execute.           *)

\* The contexts name the beacon nodes' metrics and some the validators'.
MetricsTargets(e) ==
    Elements(clCtxs[e]) \cup
    {ValidatorId(i) : i \in {j \in 0..N(e) - 1 :
                             Node(e, j).cl \in ValidatorMetrics}}

ToolPeers(e, tool) ==
    CASE tool = "spammer"    -> {elCtxs[e][1]}
      [] tool = "forkmon"    -> Elements(clCtxs[e])
      [] tool = "prometheus" -> MetricsTargets(e)
      [] tool = "grafana"    -> {ToolId("prometheus")}

AfterTool(tool) == CASE tool = "spammer"    -> "genesisWait"
                     [] tool = "forkmon"    -> "prometheus"
                     [] tool = "prometheus" -> "grafana"
                     [] tool = "grafana"    -> "verifier"

LaunchTool(e) ==
    /\ stage[e] \in Tools
    /\ AddService(e, ToolId(stage[e]), ToolPeers(e, stage[e]), AfterTool(stage[e]), "launch")
    /\ UNCHANGED <<request, answered, now, genTime, elCtxs, clCtxs>>

\* Execute slept until the CL genesis time.
GenesisOccurs(e) ==
    /\ stage[e] = "genesisWait"
    /\ Goto(e, "forkmon", "launch")
    /\ UNCHANGED <<request, services, answered, now, genTime, elCtxs, clCtxs>>

\* The verifier is run to its end, or started and left to itself.
LaunchVerifier(e) ==
    /\ At(e, "verifier", "launch")
    /\ AddService(e, ToolId("verifier"), Elements(elCtxs[e]) \cup Elements(clCtxs[e]),
                  CASE request[e].verify -> "verifier"
                    [] ~request[e].verify /\ request[e].finalize -> "finalization"
                    [] OTHER -> "succeeded",
                  IF request[e].verify THEN "run" ELSE "launch")
    /\ UNCHANGED <<request, answered, now, genTime, elCtxs, clCtxs>>

\* The synchronous verification exited with 0.
VerifierPasses(e) ==
    /\ At(e, "verifier", "run")
    /\ Goto(e, "succeeded", "launch")
    /\ UNCHANGED <<request, services, answered, now, genTime, elCtxs, clCtxs>>

\* The first CL node reported a finalized epoch before the deadline.
EpochFinalized(e) ==
    /\ stage[e] = "finalization"
    /\ Goto(e, "succeeded", "launch")
    /\ UNCHANGED <<request, services, answered, now, genTime, elCtxs, clCtxs>>

\* The other error returns of Execute and of what it calls, at whatever step:
\* a call to the enclave failed or its answer was lost, a container did not
\* have the port it should, a poll ran out of retries, a verification did not
\* pass; and the module's container was killed, which skips the deferred
\* removal too.  Nothing that was launched is taken down.
Abort(e) ==
    /\ Running(e)
    /\ Goto(e, "failed", "launch")
    /\ UNCHANGED <<request, services, answered, now, genTime, elCtxs, clCtxs>>

Tick == /\ now < MaxTime
        /\ now' = now + 1
        /\ UNCHANGED <<request, services, answered, progress, genTime, elCtxs, clCtxs>>

\* A step of the execution's own, once it was started.
Advance(e) ==
    \/ LaunchGenerator(e) \/ RunGenerator(e) \/ RemoveGenerator(e)
    \/ UploadPrefundedKeys(e) \/ LaunchEl(e) \/ RejectEl(e) \/ ElAnswers(e)
    \/ LaunchMevBoost(e) \/ LaunchBeacon(e) \/ BeaconAnswers(e)
    \/ ReadIdentity(e) \/ LaunchValidator(e) \/ FinishNode(e)
    \/ LaunchTool(e) \/ GenesisOccurs(e) \/ LaunchVerifier(e)
    \/ VerifierPasses(e) \/ EpochFinalized(e)

Step(e) == Start(e) \/ Advance(e) \/ Abort(e)

Next == Tick \/ \E e \in Execs : Step(e)

Spec == Init /\ [][Next]_vars

\* Where an execution waits for an answer that nothing in the code bounds: a
\* request to a beacon node (http.Get without a timeout) and the verifier's
\* command.  The polls of the EL clients have a timeout and a retry count.
AwaitsAnswer(e) ==
    \/ stage[e] = "cl" /\ phase[e] \in {"health", "identity"}
    \/ At(e, "verifier", "run")
    \/ stage[e] = "finalization"

\* Execute runs on by itself wherever it does not wait for such an answer.
\* Nothing makes a caller start an execution, or a call fail.
FairSpec == Spec /\ \A e \in Execs : WF_vars(Advance(e) /\ ~AwaitsAnswer(e))
----------------------------------------------------------------------------
(* Properties.                                                             *)

\* The types of the variables.
TypeOK ==
    /\ request \in [Execs -> Requests]
    /\ services \in SUBSET Service
    /\ answered \in SUBSET ServiceId
    /\ now \in Nat
    /\ stage \in [Execs -> Stages]
    /\ phase \in [Execs -> Phases]
    /\ genTime \in [Execs -> Nat]
    /\ elCtxs \in [Execs -> Seq(ServiceId)]
    /\ clCtxs \in [Execs -> Seq(ServiceId)]

\* An enclave never holds pieces of two networks.  Executions do not look at
\* what the enclave contains and undo nothing when they fail, so all that keeps
\* a second one from adding to the remains of a first is that both must take
\* the service ID of the first EL client before any other lasting one.
OneNetwork == \A s, t \in NetworkServices : s.owner = t.owner

\* No two services run the validator keys of the same participant index, be
\* they one container or a pair, of one execution or of two that were given
\* the same mnemonic: validators that share keys are slashed.
HasKeys(s) == s.id[1] \in {"cl", "clValidator"}
KeysRunOnce ==
    \A s, t \in services : HasKeys(s) /\ HasKeys(t) /\ s.id[2] = t.id[2] => s = t

\* An address in a service's configuration belongs to a service of the same
\* execution that is still there, and, if it is a client's, to one that had
\* answered an availability poll.  (mev-boost and Prometheus are not polled.)
PeersUsable ==
    \A s \in services : \A p \in s.peers :
        /\ \E t \in services : t.id = p /\ t.owner = s.owner
        /\ p[1] \in {"el", "cl", "clBeacon"} => p \in answered

\* The services a request asks for.
NodeServices(r, i) ==
    LET node == r.participants[i + 1] IN
    {ElId(i), BeaconId(node.cl, i)}
        \cup (IF node.cl \in Split THEN {ValidatorId(i)} ELSE {})
        \cup (IF node.mevBoost THEN {MevBoostId(i)} ELSE {})

ParticipantServices(r) == UNION {NodeServices(r, i) : i \in 0..NumParticipants(r) - 1}

ToolServices == {ToolId(t) : t \in Tools \cup {"verifier"}}

WholeNetwork(r) ==
    ParticipantServices(r) \cup (IF r.additional THEN ToolServices ELSE {})

\* When Execute returns without an error the enclave holds exactly the network
\* that was asked for, all of it this execution's, and every client of it had
\* answered.
SuccessIsComplete ==
    \A e \in Execs : stage[e] = "succeeded" =>
        /\ {s.id : s \in NetworkServices} = WholeNetwork(request[e])
        /\ \A s \in NetworkServices :
              /\ s.owner = e
              /\ s.id[1] \in {"el", "cl", "clBeacon"} => s.id \in answered

\* No CL node is launched before every EL client of its network has answered:
\* the EL network is up first.
IsConsensus(s) == s.id[1] \in {"cl", "clBeacon", "clValidator", "mevBoost"}
ElNetworkFirst ==
    \A s \in services : IsConsensus(s) =>
        \A i \in 0..N(s.owner) - 1 : ElId(i) \in answered

\* A service is removed only if it is the data generator of an execution that
\* is through with it: no execution takes down a node, or the generator that
\* another one is using.
OnlySpentGeneratorsRemoved ==
    [][\A s \in services \ services' :
          IsGenerator(s) /\ phase[s.owner] \in {"remove", "undo"}]_vars

\* An execution that runs ends, or waits for an answer that never comes.
Ends == \A e \in Execs :
          <>[](stage[e] \in Final \cup {"idle"} \/ AwaitsAnswer(e))

\* What the executions do to the enclave is what NetworkClaim promises.
Wanted  == [e \in Execs |-> WholeNetwork(request[e])]
Builder == {s.owner : s \in {t \in services : t.id = ElId(0)}}
Network == {s.id : s \in NetworkServices}
Outcome == [e \in Execs |-> IF stage[e] = "succeeded" THEN "succeeded"
                             ELSE IF stage[e] \in Final THEN "failed" ELSE "pending"]

Claim == INSTANCE NetworkClaim WITH
    Nodes <- ServiceId, wanted <- Wanted, builder <- Builder,
    network <- Network, outcome <- Outcome

ClaimSpec == Claim!Spec

\* An EL client that has none before it is launched as a bootnode, as the
\* interface of the EL launchers promises: no launch ends in a panic.
NoPanic == \A e \in Execs : stage[e] # "panicked"
=============================================================================
