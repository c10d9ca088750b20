------------------------ MODULE NetworkFiles_proofs ------------------------
(***************************************************************************)
(* That every address in a container's configuration is of a container of  *)
(* the network and of a port it opens, for any list of participants.       *)
(***************************************************************************)
EXTENDS NetworkFilesInv, FiniteSetTheorems, SequenceTheorems, TLAPS

----------------------------------------------------------------------------
(* The network.                                                            *)

\* The participants' types are known ones, and there is one at least.
LEMMA NetworkType ==
    ASSUME network \in Networks
    PROVE  /\ N \in Nat \ {0}
           /\ \A n \in 1..N : network[n].el \in ELTypes /\ network[n].cl \in CLTypes
<1>1. /\ network \in Seq([el : ELTypes, cl : CLTypes, mevBoost : BOOLEAN])
      /\ network # <<>>
    BY FilesAssumption DEF FilesAssumption
<1>2. N \in Nat \ {0}
    BY <1>1 DEF N
<1>3. \A n \in 1..N : network[n] \in [el : ELTypes, cl : CLTypes, mevBoost : BOOLEAN]
    BY <1>1, ElementOfSeq DEF N
<1> QED
    BY <1>2, <1>3

\* The EL client's ports that are put into its context are among those it opens.
LEMMA ElOpens ==
    ASSUME NEW type \in ELTypes, NEW data, NEW keys
    PROVE  ElPorts(type) \subseteq ElConfig(type, data, keys).opens
BY DEF ELTypes, ElPorts, RpcPort, EnginePort, ElConfig, GethConfig, ErigonConfig,
       NethermindConfig, BesuConfig

\* So are a beacon node's, for health, metrics and its own validator.
LEMMA BeaconOpens ==
    ASSUME NEW type \in CLTypes, NEW data, NEW keys
    PROVE  BeaconPorts(type) \subseteq BeaconConfig(type, data, keys).opens
BY DEF CLTypes, BeaconPorts, HttpPort, BeaconMetricsPort, BeaconConfig, LighthouseBeacon,
       LodestarBeacon, PrysmBeacon, TekuNode, NimbusNode

\* So is a validator's, for metrics, if it has any.
LEMMA ValidatorOpens ==
    ASSUME NEW type \in Split, NEW data, NEW keys, NEW pass
    PROVE  ValidatorPorts(type) \subseteq ValidatorConfig(type, data, keys, pass).opens
<1>1. type \in {"lighthouse", "lodestar", "prysm"}
    BY DEF Split, CLTypes, ClLauncher, Lighthouse, Teku, Nimbus, Prysm, Lodestar
<1>2. ValidatorMetrics = {"lighthouse", "prysm"}
    BY DEF ValidatorMetrics, CLTypes, ClLauncher, Lighthouse, Teku, Nimbus, Prysm, Lodestar
<1> QED
    BY <1>1, <1>2 DEF ValidatorPorts, ValidatorMetricsPort, ValidatorConfig,
       LighthouseValidator, LodestarValidator, PrysmValidator

----------------------------------------------------------------------------
(* Containers are only added.                                              *)

LEMMA ProvidesGrows ==
    ASSUME containers \subseteq containers', NEW kind, NEW n, NEW ports,
           Provides(kind, n, ports)
    PROVE  Provides(kind, n, ports)'
BY DEF Provides

\* What a new container asks for is provided, so that all addresses stay open.
LEMMA AddressesStayOpen ==
    ASSUME AddressesOpen, NEW c, containers' = containers \cup {c},
           \A a \in c.asks : Provides(a.kind, a.node, {a.port})'
    PROVE  AddressesOpen'
BY DEF AddressesOpen, Provides

\* A container changes nothing for the other kinds.
LEMMA OthersCount ==
    ASSUME NEW c, containers' = containers \cup {c}, NEW kind, c.kind # kind
    PROVE  Launched(kind)' = Launched(kind) /\ Count(kind)' = Count(kind)
BY DEF Launched, Count

\* The next client of a layer is one more.
LEMMA OneMore ==
    ASSUME NumbersInv, NEW kind \in {"el", "beacon"}, NEW c,
           containers' = containers \cup {c}, c.kind = kind, c.node = NodeInHand(kind)
    PROVE  /\ Count(kind) \in Nat
           /\ Count(kind)' = Count(kind) + 1
           /\ Launched(kind)' = Launched(kind) \cup {c}
<1>1. IsFiniteSet(Launched(kind))
    BY FS_Subset DEF NumbersInv, Launched
<1>2. Count(kind) \in Nat
    BY <1>1, FS_CardinalityType DEF Count
<1>3. Launched(kind)' = Launched(kind) \cup {c}
    BY DEF Launched
<1>4. c \notin Launched(kind)
    BY <1>2 DEF NumbersInv, NodeInHand
<1> QED
    BY <1>1, <1>2, <1>3, <1>4, FS_AddElement DEF Count

\* The numbers are natural.
LEMMA CountsNat ==
    ASSUME NumbersInv
    PROVE  Count("el") \in Nat /\ Count("beacon") \in Nat
<1>1. IsFiniteSet(Launched("el")) /\ IsFiniteSet(Launched("beacon"))
    BY FS_Subset DEF NumbersInv, Launched
<1> QED
    BY <1>1, FS_CardinalityType DEF Count

----------------------------------------------------------------------------
(* The steps.                                                              *)

\* Nothing has been launched at first.
LEMMA InitNetworkInv == Init => NetworkInv
<1> SUFFICES ASSUME Init PROVE NetworkInv
    OBVIOUS
<1>1. \A kind : Launched(kind) = {} /\ Count(kind) = 0
    BY FS_EmptySet DEF Init, Launched, Count
<1>2. N \in Nat \ {0}
    BY NetworkType DEF Init
<1>3. NumbersInv
    BY <1>1, <1>2, FS_EmptySet DEF Init, NumbersInv
<1>4. PortsInv
    BY <1>1 DEF PortsInv
<1>5. StageInv
    BY <1>1, <1>2 DEF Init, StageInv, BeforeEl, BeforeCl, Validating, NextTool
<1>6. AddressesOpen
    BY DEF Init, AddressesOpen
<1> QED
    BY <1>3, <1>4, <1>5, <1>6 DEF Init, NetworkInv

\* Steps that launch nothing: those of the generators, failures, and none.
FilesStage ==
    \/ stage \in BeforeEl /\ stage' \in BeforeEl \cup {"el"}
    \/ stage \in BeforeCl /\ stage' \in BeforeCl \cup {"beacon"}
    \/ stage' = "failed"
    \/ stage' = stage

LEMMA FilesStep ==
    ASSUME NetworkInv, UNCHANGED <<network, containers>>, FilesStage
    PROVE  NetworkInv'
<1>1. \A kind : Launched(kind)' = Launched(kind) /\ Count(kind)' = Count(kind)
    BY DEF Launched, Count
<1>2. \A kind, n, ports : Provides(kind, n, ports)' = Provides(kind, n, ports)
    BY DEF Provides
<1>3. N \in Nat \ {0} /\ N' = N
    BY NetworkType DEF NetworkInv, N
<1>4. NumbersInv'
    BY <1>1, <1>3 DEF NetworkInv, NumbersInv
<1>5. PortsInv'
    BY <1>1, <1>2 DEF NetworkInv, PortsInv
<1>6. StageInv'
  <2>1. CASE stage \in BeforeEl /\ stage' \in BeforeEl \cup {"el"}
    <3>1. containers = {} /\ Launched("beacon") = {} /\ Count("el") = 0 /\ Count("beacon") = 0
        BY <2>1, FS_EmptySet DEF NetworkInv, StageInv, Launched, Count
    <3> QED
        BY <1>1, <1>3, <2>1, <3>1 DEF StageInv, BeforeEl, BeforeCl, Validating, NextTool
  <2>2. CASE stage \in BeforeCl /\ stage' \in BeforeCl \cup {"beacon"}
    <3>1. Launched("beacon") = {} /\ Count("el") = N /\ Count("beacon") = 0
        BY <2>2, FS_EmptySet DEF NetworkInv, StageInv, Count
    <3> QED
        BY <1>1, <1>3, <2>2, <3>1 DEF StageInv, BeforeEl, BeforeCl, Validating, NextTool
  <2>3. CASE stage' = "failed"
        BY <2>3 DEF StageInv, BeforeEl, BeforeCl, NextTool
  <2>4. CASE stage' = stage
    <3>1. Validating' = Validating
        BY <1>1, <2>4 DEF Validating
    <3> QED
        BY <1>1, <1>2, <1>3, <2>4, <3>1 DEF NetworkInv, StageInv
  <2> QED
      BY <2>1, <2>2, <2>3, <2>4 DEF FilesStage
<1>7. AddressesOpen'
    BY DEF NetworkInv, AddressesOpen
<1> QED
    BY <1>4, <1>5, <1>6, <1>7 DEF NetworkInv

LEMMA LaunchElKeeps ==
    ASSUME NetworkInv, LaunchEl
    PROVE  NetworkInv'
<1>1. PICK n : n = NodeInHand("el")
    OBVIOUS
<1> DEFINE config == ElConfig(network[n].el, el, prefunded.artifact)
<1>2. PICK c : c = Container("el", n, config, {})
    OBVIOUS
<1>3. c.kind = "el" /\ c.node = n /\ c.asks = {} /\ c.config = config
    BY <1>2 DEF Container
<1>4. /\ containers' = containers \cup {c}
      /\ stage = "el" /\ stage' = IF n = N THEN "clConfig" ELSE "el"
      /\ network' = network /\ N' = N
    BY <1>1, <1>2 DEF LaunchEl, N
<1> HIDE DEF config
<1>5. /\ Count("el") \in Nat /\ Count("el")' = n /\ n = Count("el") + 1
      /\ Launched("el")' = Launched("el") \cup {c}
    BY <1>1, <1>3, <1>4, OneMore DEF NetworkInv, NodeInHand
<1>6. /\ Launched("beacon")' = Launched("beacon") /\ Count("beacon")' = Count("beacon")
      /\ Launched("mevBoost")' = Launched("mevBoost")
    BY <1>3, <1>4, OthersCount
<1>7. N \in Nat /\ Count("el") < N /\ Launched("beacon") = {}
    BY <1>4, NetworkType DEF NetworkInv, StageInv
<1>8. n \in 1..N /\ Count("beacon") = 0
    BY <1>5, <1>7, FS_EmptySet DEF Count
<1>9. NumbersInv'
  <2>1. IsFiniteSet(containers')
      BY <1>4, FS_AddElement DEF NetworkInv, NumbersInv
  <2>2. \A d \in Launched("el") : d.node \in 1..Count("el")
      BY DEF NetworkInv, NumbersInv
  <2> QED
      BY <1>3, <1>4, <1>5, <1>6, <1>7, <1>8, <2>1, <2>2 DEF NumbersInv
<1>10. PortsInv'
  <2>1. ElPorts(network[n].el) \subseteq c.config.opens
      BY <1>3, <1>8, ElOpens, NetworkType DEF NetworkInv, config
  <2>2. Provides("el", n, ElPorts(network[n].el))'
      BY <1>3, <1>4, <2>1 DEF Provides
  <2>3. \A m \in 1..Count("el") : Provides("el", m, ElPorts(network[m].el))'
      BY <1>4 DEF NetworkInv, PortsInv, Provides
  <2> QED
      BY <1>4, <1>5, <1>6, <1>8, <2>2, <2>3 DEF NetworkInv, PortsInv
<1>11. StageInv'
    BY <1>4, <1>5, <1>6, <1>7, <1>8
    DEF StageInv, BeforeEl, BeforeCl, Validating, NextTool
<1>12. AddressesOpen'
    BY <1>3, <1>4, AddressesStayOpen DEF NetworkInv
<1> QED
    BY <1>4, <1>9, <1>10, <1>11, <1>12 DEF NetworkInv

\* A sidecar's port is open, and none of the other clients is touched.
LEMMA LaunchSidecarKeeps ==
    ASSUME NetworkInv, LaunchSidecar
    PROVE  NetworkInv'
<1>1. PICK c : c = Container("mevBoost", NodeInHand("beacon"), SidecarConfig, {})
    OBVIOUS
<1>2. /\ containers' = containers \cup {c}
      /\ stage = "beacon" /\ stage' = stage /\ network' = network /\ N' = N
    BY <1>1 DEF LaunchSidecar, N
<1>3. c.kind = "mevBoost" /\ c.asks = {} /\ c.config = SidecarConfig
    BY <1>1 DEF Container
<1>4. MevBoostPort \in c.config.opens
    BY <1>3 DEF SidecarConfig, BareConfig
<1>5. \A kind \in {"el", "beacon"} :
          Launched(kind)' = Launched(kind) /\ Count(kind)' = Count(kind)
    BY <1>2, <1>3, OthersCount
<1>6. \A kind, m, ports : Provides(kind, m, ports) => Provides(kind, m, ports)'
    BY <1>2, ProvidesGrows
<1>7. NumbersInv'
  <2>1. IsFiniteSet(containers')
      BY <1>2, FS_AddElement DEF NetworkInv, NumbersInv
  <2> QED
      BY <1>2, <1>5, <2>1 DEF NetworkInv, NumbersInv
<1>8. PortsInv'
  <2>1. Launched("mevBoost")' \subseteq Launched("mevBoost") \cup {c}
      BY <1>2 DEF Launched
  <2> QED
      BY <1>2, <1>4, <1>5, <1>6, <2>1 DEF NetworkInv, PortsInv
<1>9. StageInv'
    BY <1>2, <1>5, <1>6
    DEF NetworkInv, StageInv, BeforeEl, BeforeCl, Validating, NextTool
<1>10. AddressesOpen'
    BY <1>2, <1>3, AddressesStayOpen DEF NetworkInv
<1> QED
    BY <1>2, <1>7, <1>8, <1>9, <1>10 DEF NetworkInv

\* The EL client in hand is there with its ports, and so is a sidecar.
LEMMA LaunchBeaconKeeps ==
    ASSUME NetworkInv, LaunchBeacon
    PROVE  NetworkInv'
<1>1. PICK n : n = NodeInHand("beacon")
    OBVIOUS
<1> DEFINE config == BeaconConfig(network[n].cl, cl, keystores[n])
<1>2. PICK c : c = Container("beacon", n, config, BeaconAsks(n, network[n]))
    OBVIOUS
<1>3. c.kind = "beacon" /\ c.node = n /\ c.asks = BeaconAsks(n, network[n]) /\ c.config = config
    BY <1>2 DEF Container
<1>4. /\ containers' = containers \cup {c}
      /\ stage = "beacon" /\ network' = network /\ N' = N
      /\ stage' \in IF network[n].cl \in Split THEN {"validator"} ELSE AfterNode(n)
      /\ network[n].mevBoost => \E d \in Launched("mevBoost") : d.node = n
    BY <1>1, <1>2 DEF LaunchBeacon, N
<1> HIDE DEF config
<1>5. /\ Count("beacon") \in Nat /\ Count("beacon")' = n /\ n = Count("beacon") + 1
      /\ Launched("beacon")' = Launched("beacon") \cup {c}
    BY <1>1, <1>3, <1>4, OneMore DEF NetworkInv, NodeInHand
<1>6. /\ Launched("el")' = Launched("el") /\ Count("el")' = Count("el")
      /\ Launched("mevBoost")' = Launched("mevBoost")
    BY <1>3, <1>4, OthersCount
<1>7. N \in Nat /\ Count("beacon") < N /\ Count("el") = N
    BY <1>4, NetworkType DEF NetworkInv, StageInv
<1>8. n \in 1..N /\ network[n].cl \in CLTypes
    BY <1>5, <1>7, NetworkType DEF NetworkInv
<1>9. \A kind, m, ports : Provides(kind, m, ports) => Provides(kind, m, ports)'
    BY <1>4, ProvidesGrows
<1>10. NumbersInv'
  <2>1. IsFiniteSet(containers')
      BY <1>4, FS_AddElement DEF NetworkInv, NumbersInv
  <2>2. /\ \A d \in Launched("beacon") : d.node \in 1..Count("beacon")
        /\ \A d \in Launched("el") : d.node \in 1..Count("el")
      BY DEF NetworkInv, NumbersInv
  <2> QED
      BY <1>3, <1>4, <1>5, <1>6, <1>7, <1>8, <2>1, <2>2 DEF NumbersInv
<1>11. PortsInv'
  <2>1. BeaconPorts(network[n].cl) \subseteq c.config.opens
      BY <1>3, <1>8, BeaconOpens DEF config
  <2>2. Provides("beacon", n, BeaconPorts(network[n].cl))'
      BY <1>3, <1>4, <2>1 DEF Provides
  <2>3. \A m \in 1..Count("beacon") : Provides("beacon", m, BeaconPorts(network[m].cl))'
      BY <1>4 DEF NetworkInv, PortsInv, Provides
  <2> QED
      BY <1>4, <1>5, <1>6, <1>8, <1>9, <2>2, <2>3 DEF NetworkInv, PortsInv
<1>12. StageInv'
  <2>1. /\ stage' \in {"validator", "beacon", "spammer", "done"}
        /\ stage' = "validator" => network[n].cl \in Split
        /\ stage' # "validator" => network[n].cl \notin Split
        /\ stage' = "beacon" => n < N
        /\ stage' = "spammer" => ~(n < N)
      BY <1>4 DEF AfterNode
  <2>2. \A m \in 1..Count("beacon") : network[m].cl \in Split =>
            Provides("validator", m, ValidatorPorts(network[m].cl))'
      BY <1>4, <1>9 DEF NetworkInv, StageInv, Validating
  <2>3. /\ Validating' \subseteq 1..n
        /\ stage' = "validator" => Validating' = 1..Count("beacon")
      BY <1>5 DEF Validating
  <2>4. \A m \in Validating' : network[m].cl \in Split =>
            Provides("validator", m, ValidatorPorts(network[m].cl))'
      BY <1>5, <2>1, <2>2, <2>3
  <2> QED
      BY <1>4, <1>5, <1>6, <1>7, <1>8, <2>1, <2>4 DEF StageInv, BeforeEl, BeforeCl, NextTool
<1>13. \A a \in c.asks : Provides(a.kind, a.node, {a.port})'
  <2>1. Provides("el", n, ElPorts(network[n].el))
      BY <1>7, <1>8 DEF NetworkInv, PortsInv
  <2>2. /\ Provides("el", n, {EnginePort(network[n].el)})
        /\ Provides("el", n, {RpcPort(network[n].el)})
      BY <2>1 DEF Provides, ElPorts
  <2>3. network[n].mevBoost => Provides("mevBoost", n, {MevBoostPort})
      BY <1>4 DEF NetworkInv, PortsInv, Provides, Launched
  <2>4. \A a \in c.asks : Provides(a.kind, a.node, {a.port})
      BY <1>3, <2>2, <2>3 DEF BeaconAsks, EngineAddress, Address
  <2> QED
      BY <1>9, <2>4
<1>14. AddressesOpen'
    BY <1>4, <1>13, AddressesStayOpen DEF NetworkInv
<1> QED
    BY <1>4, <1>10, <1>11, <1>12, <1>14 DEF NetworkInv

\* The validator's beacon node is there with its ports.
LEMMA LaunchValidatorKeeps ==
    ASSUME NetworkInv, LaunchValidator
    PROVE  NetworkInv'
<1>1. PICK n : n = Count("beacon")
    OBVIOUS
<1> DEFINE config == ValidatorConfig(network[n].cl, cl, keystores[n], password)
<1>2. PICK c : c = Container("validator", n, config, ValidatorAsks(n, network[n]))
    OBVIOUS
<1>3. /\ c.kind = "validator" /\ c.node = n /\ c.asks = ValidatorAsks(n, network[n])
      /\ c.config = config
    BY <1>2 DEF Container
<1>4. /\ containers' = containers \cup {c}
      /\ stage = "validator" /\ network' = network /\ N' = N /\ stage' \in AfterNode(n)
    BY <1>1, <1>2 DEF LaunchValidator, N
<1> HIDE DEF config
<1>5. /\ \A kind \in {"el", "beacon"} :
            Launched(kind)' = Launched(kind) /\ Count(kind)' = Count(kind)
      /\ Launched("mevBoost")' = Launched("mevBoost")
    BY <1>3, <1>4, OthersCount
<1>6. \A kind, m, ports : Provides(kind, m, ports) => Provides(kind, m, ports)'
    BY <1>4, ProvidesGrows
<1>7. N \in Nat /\ n \in 1..N /\ Count("el") = N
    BY <1>1, <1>4, NetworkType, CountsNat DEF NetworkInv, NumbersInv, StageInv
<1>8. network[n].cl \in CLTypes
    BY <1>7, NetworkType DEF NetworkInv
<1>9. NumbersInv'
  <2>1. IsFiniteSet(containers')
      BY <1>4, FS_AddElement DEF NetworkInv, NumbersInv
  <2> QED
      BY <1>4, <1>5, <2>1 DEF NetworkInv, NumbersInv
<1>10. PortsInv'
    BY <1>4, <1>5, <1>6 DEF NetworkInv, PortsInv
<1>11. network[n].cl \in Split => Provides("validator", n, ValidatorPorts(network[n].cl))'
  <2>1. network[n].cl \in Split => ValidatorPorts(network[n].cl) \subseteq c.config.opens
      BY <1>3, ValidatorOpens DEF config
  <2> QED
      BY <1>3, <1>4, <2>1 DEF Provides
<1>12. StageInv'
  <2>1. /\ stage' \in {"beacon", "spammer", "done"}
        /\ stage' = "beacon" => n < N
        /\ stage' = "spammer" => ~(n < N)
      BY <1>4 DEF AfterNode
  <2>2. \A m \in 1..(n - 1) : network[m].cl \in Split =>
            Provides("validator", m, ValidatorPorts(network[m].cl))'
      BY <1>1, <1>4, <1>6 DEF NetworkInv, StageInv, Validating
  <2>3. Validating' = 1..n
      BY <1>1, <1>5, <2>1 DEF Validating
  <2>4. \A m \in Validating' : network[m].cl \in Split =>
            Provides("validator", m, ValidatorPorts(network[m].cl))'
      BY <1>7, <1>11, <2>2, <2>3
  <2> QED
      BY <1>1, <1>4, <1>5, <1>7, <2>1, <2>4 DEF StageInv, BeforeEl, BeforeCl, NextTool
<1>13. \A a \in c.asks : Provides(a.kind, a.node, {a.port})'
  <2>1. Provides("beacon", n, BeaconPorts(network[n].cl))
      BY <1>1, <1>7 DEF NetworkInv, PortsInv
  <2>2. Provides("beacon", n, {HttpPort(network[n].cl)}) /\ Provides("beacon", n, {4000})
      BY <2>1 DEF Provides, BeaconPorts
  <2> QED
      BY <1>3, <1>6, <2>2 DEF ValidatorAsks, Address
<1>14. AddressesOpen'
    BY <1>4, <1>13, AddressesStayOpen DEF NetworkInv
<1> QED
    BY <1>4, <1>9, <1>10, <1>12, <1>14 DEF NetworkInv

\* The order of the additional services.
LEMMA ToolOrder ==
    ASSUME NEW tool \in DOMAIN NextTool
    PROVE  /\ tool \in {"spammer", "forkmon", "prometheus", "grafana", "verifier"}
           /\ NextTool[tool] \in {"forkmon", "prometheus", "grafana", "verifier", "done"}
           /\ NextTool[tool] = "grafana" => tool = "prometheus"
BY DEF NextTool

\* The only metrics of validators are those of containers of their own.
LEMMA MetricsOfSplit == ValidatorMetrics \subseteq Split
BY DEF ValidatorMetrics, Split, CLTypes, ClLauncher, Lighthouse, Teku, Nimbus, Prysm, Lodestar

\* When every client is there, so is what the additional services ask for.
LEMMA ToolProvided ==
    ASSUME NetworkInv, stage \in DOMAIN NextTool, NEW a \in ToolAsks(stage, network)
    PROVE  Provides(a.kind, a.node, {a.port})
<1>1. stage \in {"spammer", "forkmon", "prometheus", "grafana", "verifier"}
    BY ToolOrder
<1>2. /\ N \in Nat \ {0} /\ Count("el") = N /\ Count("beacon") = N
      /\ DOMAIN network = 1..N
  <2>1. network \in Seq([el : ELTypes, cl : CLTypes, mevBoost : BOOLEAN])
      BY FilesAssumption DEF NetworkInv, FilesAssumption
  <2> QED
      BY <2>1, NetworkType DEF NetworkInv, StageInv, N
<1>3. \A n \in 1..N : Provides("el", n, {RpcPort(network[n].el)})
  <2>1. \A n \in 1..N : Provides("el", n, ElPorts(network[n].el))
      BY <1>2 DEF NetworkInv, PortsInv
  <2> QED
      BY <2>1 DEF Provides, ElPorts
<1>4. \A n \in 1..N : /\ Provides("beacon", n, {HttpPort(network[n].cl)})
                      /\ Provides("beacon", n, {BeaconMetricsPort(network[n].cl)})
  <2>1. \A n \in 1..N : Provides("beacon", n, BeaconPorts(network[n].cl))
      BY <1>2 DEF NetworkInv, PortsInv
  <2> QED
      BY <2>1 DEF Provides, BeaconPorts
<1>5. \A n \in 1..N : network[n].cl \in ValidatorMetrics =>
          Provides("validator", n, {ValidatorMetricsPort(network[n].cl)})
  <2>1. \A n \in 1..N : network[n].cl \in Split =>
            Provides("validator", n, ValidatorPorts(network[n].cl))
      BY <1>1, <1>2 DEF NetworkInv, StageInv, Validating
  <2> QED
      BY <2>1, MetricsOfSplit DEF Provides, ValidatorPorts
<1>6. CASE stage = "spammer"
    <2>1. a = Address("el", 1, RpcPort(network[1].el))
        BY <1>6 DEF ToolAsks
    <2> QED
        BY <1>2, <1>3, <2>1 DEF Address
<1>7. CASE stage = "forkmon"
    <2>1. PICK n \in 1..N : a = Address("beacon", n, HttpPort(network[n].cl))
        BY <1>2, <1>7 DEF ToolAsks, EveryHttp
    <2> QED
        BY <1>4, <2>1 DEF Address
<1>8. CASE stage = "prometheus"
    <2>1. PICK n \in 1..N : a \in Metrics(n, network[n])
        BY <1>2, <1>8 DEF ToolAsks
    <2>2. CASE a = Address("beacon", n, BeaconMetricsPort(network[n].cl))
        BY <1>4, <2>2 DEF Address
    <2>3. CASE /\ network[n].cl \in ValidatorMetrics
               /\ a = Address("validator", n, ValidatorMetricsPort(network[n].cl))
        BY <1>5, <2>3 DEF Address
    <2> QED
        BY <2>1, <2>2, <2>3 DEF Metrics
<1>9. CASE stage = "grafana"
    <2>1. a = Address("prometheus", 0, 9090)
        BY <1>9 DEF ToolAsks
    <2> QED
        BY <1>9, <2>1 DEF NetworkInv, StageInv, Address
<1>10. CASE stage = "verifier"
    <2>1. a \in EveryRpc(network) \cup EveryHttp(network)
        BY <1>10 DEF ToolAsks
    <2>2. PICK n \in 1..N : \/ a = Address("el", n, RpcPort(network[n].el))
                            \/ a = Address("beacon", n, HttpPort(network[n].cl))
        BY <1>2, <2>1 DEF EveryRpc, EveryHttp
    <2>3. CASE a = Address("el", n, RpcPort(network[n].el))
        BY <1>3, <2>3 DEF Address
    <2>4. CASE a = Address("beacon", n, HttpPort(network[n].cl))
        BY <1>4, <2>4 DEF Address
    <2> QED
        BY <2>2, <2>3, <2>4
<1> QED
    BY <1>1, <1>6, <1>7, <1>8, <1>9, <1>10

LEMMA LaunchToolKeeps ==
    ASSUME NetworkInv, LaunchTool
    PROVE  NetworkInv'
<1>1. PICK tool \in DOMAIN NextTool : tool = stage
    BY DEF LaunchTool
<1> DEFINE config == ToolConfig(tool, NewArtifact)
<1>2. PICK c : c = Container(tool, 0, config, ToolAsks(tool, network))
    OBVIOUS
<1>3. c.kind = tool /\ c.node = 0 /\ c.asks = ToolAsks(tool, network) /\ c.config = config
    BY <1>2 DEF Container
<1>4. /\ containers' = containers \cup {c}
      /\ stage' = NextTool[tool] /\ network' = network /\ N' = N
    BY <1>1, <1>2 DEF LaunchTool, N
<1>5. /\ tool \in {"spammer", "forkmon", "prometheus", "grafana", "verifier"}
      /\ stage' \in {"forkmon", "prometheus", "grafana", "verifier", "done"}
      /\ stage' = "grafana" => tool = "prometheus"
    BY <1>4, ToolOrder
<1>6. tool = "prometheus" => 9090 \in c.config.opens
    BY <1>3 DEF ToolConfig, PrometheusConfig
<1> HIDE DEF config
<1>7. /\ \A kind \in {"el", "beacon"} :
            Launched(kind)' = Launched(kind) /\ Count(kind)' = Count(kind)
      /\ Launched("mevBoost")' = Launched("mevBoost")
    BY <1>3, <1>4, <1>5, OthersCount
<1>8. \A kind, m, ports : Provides(kind, m, ports) => Provides(kind, m, ports)'
    BY <1>4, ProvidesGrows
<1>9. NumbersInv'
  <2>1. IsFiniteSet(containers')
      BY <1>4, FS_AddElement DEF NetworkInv, NumbersInv
  <2> QED
      BY <1>4, <1>7, <2>1 DEF NetworkInv, NumbersInv
<1>10. PortsInv'
    BY <1>4, <1>7, <1>8 DEF NetworkInv, PortsInv
<1>11. StageInv'
  <2>1. Count("el") = N /\ Count("beacon") = N
      BY <1>1 DEF NetworkInv, StageInv
  <2>2. stage' = "grafana" => Provides("prometheus", 0, {9090})'
      BY <1>3, <1>4, <1>5, <1>6 DEF Provides
  <2>3. Validating = 1..Count("beacon") /\ Validating' = 1..Count("beacon")
      BY <1>1, <1>5, <1>7 DEF Validating
  <2>4. \A m \in Validating' : network[m].cl \in Split =>
            Provides("validator", m, ValidatorPorts(network[m].cl))'
    <3>1. \A m \in Validating : network[m].cl \in Split =>
              Provides("validator", m, ValidatorPorts(network[m].cl))
        BY <1>1, <1>5 DEF NetworkInv, StageInv
    <3> QED
        BY <1>4, <1>8, <2>3, <3>1
  <2> QED
      BY <1>4, <1>5, <1>7, <2>1, <2>2, <2>4 DEF StageInv, BeforeEl, BeforeCl
<1>12. \A a \in c.asks : Provides(a.kind, a.node, {a.port})'
    BY <1>1, <1>3, <1>8, ToolProvided
<1>13. AddressesOpen'
    BY <1>4, <1>12, AddressesStayOpen DEF NetworkInv
<1> QED
    BY <1>4, <1>9, <1>10, <1>11, <1>13 DEF NetworkInv

----------------------------------------------------------------------------
(* The theorems.                                                           *)

\* One step after another keeps the invariant.
LEMMA NetworkStep == NetworkInv /\ [Next]_vars => NetworkInv'
<1> SUFFICES ASSUME NetworkInv, [Next]_vars PROVE NetworkInv'
    OBVIOUS
<1>1. CASE \/ GenerateKeystores \/ StoreKeys \/ WritePassword \/ StorePassword
           \/ LaunchElGenerator \/ GenerateElGenesis \/ GenerateJwt \/ StoreEl
           \/ UploadPrefundedKeys
  <2>1. UNCHANGED <<network, containers>>
      BY <1>1 DEF GenerateKeystores, StoreKeys, WritePassword, StorePassword,
         LaunchElGenerator, GenerateElGenesis, GenerateJwt, StoreEl, UploadPrefundedKeys,
         results
  <2>2. /\ GenerateKeystores => stage = "keystores" /\ stage' = "storeKeys"
        /\ StoreKeys => stage = "storeKeys" /\ stage' \in {"storeKeys", "password"}
        /\ WritePassword => stage = "password" /\ stage' = "storePassword"
        /\ StorePassword => stage = "storePassword" /\ stage' = "elConfig"
      BY DEF GenerateKeystores, StoreKeys, WritePassword, StorePassword
  <2>3. /\ LaunchElGenerator => stage = "elConfig" /\ stage' = "elGenesis"
        /\ GenerateElGenesis => stage = "elGenesis" /\ stage' \in {"elGenesis", "jwt"}
        /\ GenerateJwt => stage = "jwt" /\ stage' = "storeEl"
        /\ StoreEl => stage = "storeEl" /\ stage' = "upload"
        /\ UploadPrefundedKeys => stage = "upload" /\ stage' = "el"
      BY DEF LaunchElGenerator, GenerateElGenesis, GenerateJwt, StoreEl, UploadPrefundedKeys
  <2>4. FilesStage
      BY <1>1, <2>2, <2>3 DEF FilesStage, BeforeEl
  <2> QED
      BY <2>1, <2>4, FilesStep
<1>2. CASE \/ LaunchClGenerator \/ CopyToOutput \/ WriteDynamicFile
           \/ GenerateClGenesis \/ StoreCl
  <2>1. UNCHANGED <<network, containers>>
      BY <1>2 DEF LaunchClGenerator, CopyToOutput, WriteDynamicFile, GenerateClGenesis,
         StoreCl, results
  <2>2. FilesStage
      BY <1>2 DEF FilesStage, BeforeCl, LaunchClGenerator, CopyToOutput, WriteDynamicFile,
         GenerateClGenesis, StoreCl
  <2> QED
      BY <2>1, <2>2, FilesStep
<1>3. CASE Fail \/ UNCHANGED vars
  <2>1. UNCHANGED <<network, containers>> /\ FilesStage
      BY <1>3 DEF Fail, vars, FilesStage, results
  <2> QED
      BY <2>1, FilesStep
<1>4. CASE LaunchEl
    BY <1>4, LaunchElKeeps
<1>5. CASE LaunchSidecar
    BY <1>5, LaunchSidecarKeeps
<1>6. CASE LaunchBeacon
    BY <1>6, LaunchBeaconKeeps
<1>7. CASE LaunchValidator
    BY <1>7, LaunchValidatorKeeps
<1>8. CASE LaunchTool
    BY <1>8, LaunchToolKeeps
<1> QED
    BY <1>1, <1>2, <1>3, <1>4, <1>5, <1>6, <1>7, <1>8 DEF Next

\* The containers are those the stage calls for, with the ports that others are
\* told of, whatever participants are launched and wherever the launch fails.
THEOREM NetworkInvHolds == Spec => []NetworkInv
BY InitNetworkInv, NetworkStep, PTL DEF Spec

\* Every address in a configuration is of a container of the network and of a port
\* it opens, for any list of participants.
THEOREM AddressesOpenHolds == Spec => []AddressesOpen
<1>1. NetworkInv => AddressesOpen
    BY DEF NetworkInv
<1> QED
    BY <1>1, NetworkInvHolds, PTL
=============================================================================
