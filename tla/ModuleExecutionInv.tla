------------------------- MODULE ModuleExecutionInv -------------------------
(***************************************************************************)
(* The inductive invariant of ModuleExecution: what each execution may     *)
(* rely on at the point it has reached, and what holds of every service in *)
(* the enclave, whoever added it.                                          *)
(***************************************************************************)
EXTENDS ModuleExecution

Owns(e, id) == \E s \in services : s.id = id /\ s.owner = e

BeforeEls == {"idle", "keystores", "elGenesis", "upload"}
AfterCls  == Tools \cup {"genesisWait", "verifier", "finalization", "succeeded"}
ClPhases  == {"mevBoost", "launch", "health", "identity", "validator", "finish"}

Live(e) == stage[e] \notin {"idle", "failed", "panicked"}

\* Only validated parameters get past Start.
Checked(e) == Live(e) => Valid(request[e])

\* How many contexts an execution holds at each stage.
Counted(e) ==
    /\ stage[e] \in BeforeEls => elCtxs[e] = <<>>
    /\ stage[e] \in BeforeEls \cup {"el", "clGenesis"} => clCtxs[e] = <<>>
    /\ stage[e] = "el" => Len(elCtxs[e]) < N(e) /\ phase[e] \in {"launch", "wait"}
    /\ stage[e] \in {"clGenesis", "cl"} \cup AfterCls => Len(elCtxs[e]) = N(e)
    /\ stage[e] = "cl" => Len(clCtxs[e]) < N(e) /\ phase[e] \in ClPhases
    /\ stage[e] \in AfterCls => Len(clCtxs[e]) = N(e)

\* A context stands for the execution's own client of that index, which has
\* answered; behind a CL context is everything its participant asked for.
ElCtxsSound(e) == Live(e) =>
    \A i \in 1..Len(elCtxs[e]) :
        /\ elCtxs[e][i] = ElId(i - 1)
        /\ Owns(e, ElId(i - 1)) /\ ElId(i - 1) \in answered

ClCtxsSound(e) == Live(e) =>
    \A i \in 1..Len(clCtxs[e]) :
        /\ clCtxs[e][i] = BeaconId(Node(e, i - 1).cl, i - 1)
        /\ clCtxs[e][i] \in answered
        /\ \A id \in NodeServices(request[e], i - 1) : Owns(e, id)

\* What has been launched of the client or node in hand.
ElInHand(e) == At(e, "el", "wait") => Owns(e, ElId(ElIndex(e)))

ClInHand(e) == stage[e] = "cl" =>
    /\ phase[e] # "mevBoost" /\ Node(e, ClIndex(e)).mevBoost
          => Owns(e, MevBoostId(ClIndex(e)))
    /\ phase[e] = "mevBoost" => Node(e, ClIndex(e)).mevBoost
    /\ phase[e] \in {"health", "identity", "validator", "finish"} => Owns(e, ClBeacon(e))
    /\ phase[e] \in {"identity", "validator", "finish"} => ClBeacon(e) \in answered
    /\ phase[e] = "validator" => ClType(e) \in Split
    /\ phase[e] = "finish" /\ ClType(e) \in Split => Owns(e, ValidatorId(ClIndex(e)))
    /\ phase[e] = "identity" /\ ClType(e) \in ValidatorFirst
          => Owns(e, ValidatorId(ClIndex(e)))

ToolsBefore(e) ==
    CASE stage[e] \in {"genesisWait", "forkmon"} -> {"spammer"}
      [] stage[e] = "prometheus" -> {"spammer", "forkmon"}
      [] stage[e] = "grafana" -> {"spammer", "forkmon", "prometheus"}
      [] At(e, "verifier", "launch") -> Tools
      [] stage[e] = "finalization" \/ At(e, "verifier", "run") -> Tools \cup {"verifier"}
      [] stage[e] = "succeeded" /\ request[e].additional -> Tools \cup {"verifier"}
      [] OTHER -> {}

ToolsInHand(e) ==
    /\ \A t \in ToolsBefore(e) : Owns(e, ToolId(t))
    /\ stage[e] \in AfterCls \ {"succeeded"} => request[e].additional
    /\ stage[e] = "verifier" => phase[e] \in {"launch", "run"}

ExecutionInv(e) ==
    /\ Checked(e) /\ Counted(e)
    /\ ElCtxsSound(e) /\ ClCtxsSound(e)
    /\ ElInHand(e) /\ ClInHand(e) /\ ToolsInHand(e)

UniqueIds == \A s, t \in services : s.id = t.id => s = t

\* Whoever has a lasting service in the enclave also has the first EL client,
\* and was asked to launch that service.
Claimed ==
    \A s \in NetworkServices :
        Owns(s.owner, ElId(0)) /\ s.id \in WholeNetwork(request[s.owner])

PeersLast == \A s \in services : \A p \in s.peers : p[1] # "generator"

EnclaveInv == UniqueIds /\ Claimed /\ PeersLast /\ PeersUsable /\ ElNetworkFirst

Inv == TypeOK /\ (\A e \in Execs : ExecutionInv(e)) /\ EnclaveInv

\* The generator an execution is using, and will ask to have removed, is its own.
GeneratorInHand(e) ==
    stage[e] \in GeneratorStages /\ phase[e] \in {"run", "remove", "undo"}
        => Owns(e, GeneratorId(genTime[e]))

GeneratorsInHand == \A e \in Execs : GeneratorInHand(e)

FullInv == Inv /\ GeneratorsInHand
=============================================================================
