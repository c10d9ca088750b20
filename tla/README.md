# A formal model of the Ethereum merge module

The Kurtosis module in `src/kurtosis-module` sets up, in a Kurtosis enclave, a
testnet of paired execution-layer (EL) and consensus-layer (CL) clients with
monitoring services around it. It is a sequential program, but a hard one to
test: one run starts dozens of containers over many minutes, can fail at any of
its steps and then takes nothing down, waits for clients written by others, and
may share its enclave with another run. These specifications model that
program. TLC checks them on small instances; TLAPS proves most of the safety
properties for every value of the constants.

## Inventory

| Part | State | Operations | Interacts with |
|---|---|---|---|
| `Execute` (`impl/module.go`) | progress, EL and CL contexts | validate, launch network, spammer, sleep until genesis, forkmon, Prometheus, Grafana, verifier, wait for finalization | everything below |
| Parameters (`module_io/`) | the parameter object | deserialize over defaults, complete and check participants, check the network | read by `Execute` |
| Participant network (`participant_network.go`) | EL, CL and mev-boost contexts, CL genesis time | keystores, EL genesis, upload, EL loop, CL genesis, CL loop | generators, launchers |
| EL launchers (`el/*`) | none | build configuration with peers, files and ports, add service, poll `admin_nodeInfo` | enclave, EL client |
| REST clients (`el_rest_client`, `cl_client_rest_client`) | none | one request, with a timeout (EL) or without (CL) | clients |
| CL launchers (`cl/*`) | none | add beacon node, poll health, read identity, add validator | enclave, CL client |
| mev-boost (`mev_boost/`) | none | add service | enclave |
| Data generators (`prelaunch_data_generator/*`) | a temporary service and its disk | add, run commands, store artifacts, remove (deferred); return paths within the artifacts | enclave, launchers |
| Additional services (spammer, forkmon, Prometheus, Grafana, verifier) | none | add service, run the synchronous verification | enclave |
| Enclave (external) | registry of services | `AddService`, `RemoveService`, commands, artifacts | all |

What is hard here: the order in which addresses become known and are used; a
failure after some containers are up; a second execution, at the same time or as
a retry, against what the first left; service names derived from the clock;
unsigned arithmetic on times and on numbers of validators; polls, allowances and
deadlines that are set apart from one another; requests without a timeout;
clients that stop and come back; pointers that a document sets to nil;
participants that the validation passes and a launcher refuses; paths, ports and
indices that one function computes and another uses, with nothing in between to
check that they fit before a container fails to start.

What makes each part correct: an execution that succeeds leaves exactly what was
asked for (`Execute`); no configuration names a service that is not there or not
up, EL before CL (participant network, launchers); generators are removed by
their users only, keys are split without overlap and match genesis (unless there
are more than a `uint32` counts), and every container finds its own files and both layers one genesis and one secret
(generators, launchers); the checks accept what they should and complete what
they accept (parameters); no client is given up on that is in time, and no wait
for an EL client goes on for ever (availability); forkmon after genesis, bounded
sleep, long enough deadline unless its timeout overflows (the clock); one network per enclave whatever runs in it (all together).

The hazards, each at its line with the properties aimed at it, are in
`PROJECT.json`.

## Modules

| Module | Models |
|---|---|
| `ModuleParams` | a request and what the validation accepts |
| `Launchers` | how the four EL and five CL launchers differ |
| `NetworkClaim` | abstract: what the module promises about an enclave |
| `ModuleExecution` | executions against an enclave, step by step |
| `ModuleExecutionInv` | its inductive invariant |
| `MCModuleExecution` | its instances for TLC |
| `ModuleExecution_proofs`, `_theorems` | invariance; the safety theorems and the refinement |
| `GenesisTiming`, `GenesisTiming_proofs` | the clock in an execution, and proofs |
| `ValidatorKeys`, `ValidatorKeys_proofs` | keystore ranges against the CL genesis, and proofs |
| `ParamsValidation`, `ParamsValidation_proofs` | `DeserializeAndValidateParams`, check by check, and proofs |
| `ContainerConfigs` | the launchers' container configurations: mounts, paths, ports, addresses |
| `NetworkFiles` | the files from generators through artifacts into containers |
| `NetworkFilesInv` | its inductive invariants |
| `NetworkFiles_proofs`, `NetworkFiles_contents` | proofs about addresses; proofs about files |
| `Availability`, `Availability_proofs` | the launchers' waits for their clients, and proofs |
| `MCParamsValidation`, `MCNetworkFiles`, `MCAvailability` | instances for TLC |

`ModuleExecution` EXTENDS `Launchers`, which EXTENDS `ModuleParams`; it
INSTANCEs `NetworkClaim`. The other modules each zoom in on what it abstracts:
in it genesis simply occurs (`GenesisTiming`), the keys of a node are known by
its index (`ValidatorKeys`), a request is valid or not (`ParamsValidation`,
which EXTENDS `Launchers` and proves that the code's checks amount to
`ModuleParams`' `Valid`), a configuration is the addresses of services
(`ContainerConfigs`, and `NetworkFiles`, which EXTENDS it), and a client answers
or the execution aborts (`Availability`).

### ModuleExecution and the code

Each execution `e` has a `stage` (which part of `Execute` or
`LaunchParticipantNetwork` it is in) and a `phase` (which step of a launcher).
`elCtxs[e]` and `clCtxs[e]` are `allElClientContexts` and
`allClClientContexts`; `genTime[e]` is the second that names the data generator
in use. `services` is the enclave's registry: ID, owner and the services whose
addresses the configuration has. `answered` is history: which services answered
a poll. The executions' loops have no index variable; the number of contexts is
the index, as in the code `idx` always equals it.

| Action | Code |
|---|---|
| `Start` | `DeserializeAndValidateParams` and its error return |
| `LaunchGenerator`, `RunGenerator`, `RemoveGenerator` | `LaunchPrelaunchDataGenerator`, the commands, the deferred `RemoveService`, for keystores, EL genesis and CL genesis |
| `UploadPrefundedKeys` | `UploadFiles` |
| `LaunchEl`, `RejectEl`, `ElAnswers` | an EL launcher: `AddService`, an error or panic for want of peers, `WaitForELClientAvailability` |
| `LaunchMevBoost` | `MEVBoostLauncher.Launch` |
| `LaunchBeacon`, `BeaconAnswers`, `ReadIdentity`, `LaunchValidator`, `FinishNode` | a CL launcher, in its own order |
| `LaunchTool`, `GenesisOccurs` | the additional services and the sleep between them |
| `LaunchVerifier`, `VerifierPasses`, `EpochFinalized` | the end of `Execute` |
| `Abort` | every other error return, a lost answer, the death of the module |
| `Tick` | the clock, which generator names are made of |

A call to the enclave is one step: it takes effect, or the ID is taken and the
code returns the error. A call that took effect and whose answer was lost is the
step followed by `Abort`. A crash is an `Abort` that skips the deferred removal:
`Abort` is enabled in every phase. A retry is another execution that starts
later; nothing is kept in memory between the two. Two executions may also
overlap, as the enclave does not prevent it.

### GenesisTiming and the code

Time passes between any two steps. `genesis` is `clGenesisTimestamp`;
`tries`, `wakes` are the health poll's count and its `time.Sleep`; `deadline`
that of `waitUntilFirstFinalizedEpoch`. `since` and `overruns` are history: did
every step keep to the time the code allows it. The clock and `genesis` are in
seconds, `wakes` and `deadline` in nanoseconds, `Second` to the second. `Minus` and
`AsSigned` are the unsigned difference, which wraps, and the cast to `int64`;
`Duration` is `time.Duration(x) * time.Second`, an `int64` of nanoseconds that
overflows if there are too many. The sleep's never does while the clock itself is
told in nanoseconds (`TimingAssumption`), the timeout's may (`TimeoutSeconds`, whose
slots the validation does not bound), and then `deadline` is in the past. The
chain's genesis is taken to be `clGenesisTimestamp`, as `module.go` takes it and as
the template's `MIN_GENESIS_TIME` has it; whether the generator of the CL genesis
(not in this repository) adds the template's `GENESIS_DELAY` of 300 seconds
(`config.yaml.tmpl:12`) is not modelled: if it did, forkmon would be launched
before genesis, and the wait would be shorter by as much. The chain is external: each node comes to a first finalized epoch at some time or never,
`epoch[n]`, and need not do so with the others, as nodes on a fork do not; the
code asks the first only. That node is up when the wait begins. `Fail` stands for
every other error.

### ValidatorKeys and the code

One `GenerateKeystores` per turn of the loop in
`GenerateCLValidatorKeystores`; `TotalKeys` is `totalNumberOfValidatorKeys`. The
networks it begins with are all that the validation accepts (`Accepted`): their
keys are compared with the required ones after both products have wrapped around
in `uint32`, so there may be more keys than the width counts, or, if the required
ones wrap to none, no keys at all.

### ParamsValidation and the code

One action per check of `DeserializeAndValidateParams`, in its order: `Deserialize`
is `yaml.Unmarshal` over `GetDefaultExecuteParams`; `CheckLevel`;
`CheckParticipant` one turn of the loop, which also writes the default images
into the participant in hand; `CheckNetwork`, `CheckValidators`, `CheckPeering`
what follows. A document may leave any part out (`Absent`) or write null for a
participant or the network (`Null`), which makes the pointer nil; `Panic` is the
dereference of it. `Required` and `Actual` are the products in `uint32`.
Blank strings stand for all that `strings.TrimSpace` makes empty, and an image is
a name or the pair `beacon,validator` that the Prysm launcher splits. What does not
split into two names that are not blank (`a,b,c` or `a,`) is refused by that launcher
as a single name is, and counts as one.

### ContainerConfigs, NetworkFiles and the code

A path is the sequence of its names, so `path.Join` is `\o`, `path.Base` is `Base`
and `path.Dir` is `Dir`. A file's content is known by the tool that made it, the
node it is for, and the contents it was made of, and a text that is written as it
stands by the text (`Text`): enough to tell whose keys, which secret, and which
genesis of which configuration. `Stored` is
`StoreServiceFiles`: an artifact of a directory holds the directory itself, with
its base name, which is what each generator's returned paths begin with.
`Mounted` is what a container sees of its artifacts. `ContainerConfigs` has for
each client what its launcher's `getContainerConfig` mounts (`mounts`), the paths it
writes into the command line (`reads`), the ports it opens (`opens`), and who is
told of whom (`BeaconAsks`, `ValidatorAsks`, `ToolAsks`).

`NetworkFiles` has one action per command or call: `GenerateKeystores`,
`StoreKeys`, `WritePassword`, `StorePassword` (validator keystores);
`LaunchElGenerator`, `GenerateElGenesis`, `GenerateJwt`, `StoreEl` (EL genesis);
`UploadPrefundedKeys`; `LaunchEl`; `LaunchClGenerator`, `CopyToOutput`,
`WriteDynamicFile`, `GenerateClGenesis`, `StoreCl` (CL genesis); `LaunchSidecar`,
`LaunchBeacon`, `LaunchValidator`; `LaunchTool`. The two maps that the code ranges
over, the EL genesis commands by client and the CL generator's files by content,
are gone through in any order (`todo`). `Fail` is any error return, at any
point. `deposit` matters because the CL generator's map is keyed by content: a
deposit contract that is written like the block's number takes that entry.

### Availability and the code

`node` is the client in hand, EL clients first; `tries`, `left` and `asked` belong to
the wait in hand (`WaitForELClientAvailability`,
`WaitForBeaconClientAvailability`, and Nimbus' own). `Ask`, `RequestFails`,
`NodeInfoAnswered`, `HealthAnswered`, `GiveUp` are its turns; `IdentityAnswered`
and `IdentityFails` the single request after it. `Retries` is each launcher's
number of requests: for Geth and Erigon the seconds they are expected to take,
used as a count. Time is counted from the start of the wait and passes only in
pauses and requests. A client (`ComeUp`, `Stop`) may serve, stop and come
back whenever it likes, and may take a connection and not answer: an EL request
then ends with its timeout, a CL request with nothing. `upAt` is history.

## Runs

| Run | Question | States |
|---|---|---|
| `one` | does one execution do what it should, and end? | 11 thousand |
| `shared` | what may two executions do to one another? | 218 thousand |
| `bootnode` | does an EL client without peers start as a bootnode? (no) | |
| `timing_matching` | do times and allowances work out? | 1.6 million |
| `timing_preset` | and if the chain's epochs are not the parameters'? (no) | |
| `timing_overflow` | and if the timeout is too long for a `Duration`? (no) | |
| `timing_nodes` | has every node finalized when `Execute` says so? (no) | |
| `keys_ranges` | are the keys split, and do they match genesis? | 2 thousand |
| `params_all` | what is accepted, completed, refused later? | 12 thousand |
| `params_wrapped` | are there always two epochs' validators? (no) | |
| `files_pairs` | does every container find its files and addresses, and is what it finds right? | 7 thousand |
| `availability` | do the waits give every client its time, and end? | 86 thousand |

Bounds. `one` has five participant lists of up to three nodes, which between them
use every client type, the sidecar with and without a client that uses it, each
position that a launcher treats differently (first, second, third) and lists
that are refused; times four combinations of the flags. Three participants is
the length at which all of the launchers' demands on peers (none, one, two) can
be met and missed. `shared` has two executions, each with one of two requests
for two participants, one whose validators are in the same container as the
beacon node and one where they are not, for all the pairs of services that may
meet; two ticks make generators of the same and of different seconds.
`timing_matching` has two CL nodes with two tries each and a clock of 18
seconds: more than genesis (5) plus the wait (5 epochs of 2 slots), so both
start-ups that are late and ones that are on time reach every outcome. The
numbers in the code are different, the order relations between them are not:
a poll may take longer or shorter than the allowance, and the pauses straddle
the deadlines. A second has two nanoseconds and an `int64` goes to 64, which holds
every time of the run (46 at most) and the timeout (20); in `timing_overflow` the
slots are so long that it does not hold the timeout (80). `keys_ranges` has all
networks of up to 5 nodes that the validation accepts, with every number of keys
and of slots of a width of 16 instead of 2^32: networks whose keys fit, and ones
whose keys wrap around up to four times.
`params_all` has all lists of up to two of nine participants (with every kind of
error a participant can have, and null), with each of a dozen network parts, and
all lists of three with the default part: the loop treats the first participant,
and the peering check the first two, differently from the rest. The width is 256
instead of 2^32, with parts on both sides of each wrap-around. `files_pairs` has
networks of three nodes in which every EL client is paired with every CL client,
with and without the sidecar; files of a node depend on its index and its own
two types only, and three nodes tell the first, the last and one in between
apart. Both values of the deposit contract are those the map can confuse.
`availability` has two EL clients whose counts differ (Geth 3, Erigon 2), with a
timeout longer than the pause as in the code, and two CL clients whose counts
and pauses differ, so that a wait can end at, before and after the last request,
and a client can stop and return between any two; `Horizon` (10) bounds the clock
of a wait, which stops there, and is beyond the longest bounded wait (9).
`timing_nodes` is `timing_matching` with the question about all nodes.

Deadlock is not checked: an execution that has ended does nothing more.

Every property has a mutant, an operator marked *Faulty* in the module, which is
the corresponding definition with a plausible bug: an adopted service ID, a
missing validator, a loop that ends early, a boot node not counted, defaults
written into a copy, a secret generated twice, one client's stale port, a retry
that is not counted. TLC finds the property violated with each.

### Fairness

`Ends` (run `one`): weak fairness of `Advance(e)` where `e` is
not waiting for an answer that nothing bounds. Go runs a goroutine that can run;
the sleeps are finite; EL polls have a timeout per request and a number of
retries, so they end in an answer or an error. Calls to the enclave are assumed
to return. It is not assumed that a CL client answers (`http.Get` has no timeout)
or that the verifier's command exits, so `Ends` says: an execution ends or waits
for one of these for good. No fairness is put on `Start`, `Abort` or `Tick`.

`ElWaitsEnd` and `WaitsEndUnlessHung` (run `availability`): weak fairness of the
launcher's own steps (`Launch` or its failure, `Ask` or `GiveUp`), of the clock,
and of the end of a request to an EL client, which has a timeout of its own
(`el_client_rest_client.go:24`). None is put on the end of a request to a CL
client, which has none (`cl_client_rest_client.go`), nor on the clients: they may
flap for ever, and the waits for EL clients end all the same.

### What the failing runs show

`bootnode`: the Erigon launcher reads `existingElClients[0]` unconditionally
(`erigon_launcher.go:140`) although the interface says that an empty list
makes a bootnode (`el_client_launcher.go:14`), and the validation lets Erigon
be first. The run ends in an index out of range after the validator keys and the
EL genesis have been generated.

`timing_preset`: `slotsPerEpoch` (`params.go:177`, "Number of slots in an epoch on
the Beacon chain") reaches the deadline and forkmon but not the CL genesis, whose
template has the mainnet preset. If it is smaller than the preset's 32, the
wait is over before the epoch its comment (`module.go:234`) names. The
validation warns about other values, and the default is 32.

`timing_overflow`: the timeout of that wait is `time.Duration(timeoutSeconds) *
time.Second` (`module.go:237`), which overflows above 9223372036 seconds. The
validation has no upper bound for slots or epochs: with `secondsPerSlot` 100000000,
or with 2^31 slots of 12 seconds, the timeout is negative and the wait ends at
once, although it should end as the chain enters the fifth epoch
(`module.go:234`).

`timing_nodes`: only the first CL context is asked for a finalized epoch
(`module.go:204`, which a comment admits), while the README of the module promises
to block until *the Beacon nodes* finalize. `Execute` may succeed with others
that have finalized none.

`params_wrapped`: twice the slots per epoch is a product in `uint32`
(`params_deserializer.go:113`). With 2^31 slots it is zero, and any number of
validators is enough. `EnoughUnlessWrapped` is the other half: this product is
the only way, the other one (validators) may wrap only to its own disadvantage.

### What the passing runs show to be conditional

`keys_ranges`: the actual number of validators is a product in `uint32` too
(`params_deserializer.go:114`). Two participants with 2^31+32 keys each count as 64,
enough for 32 slots per epoch, and are accepted. The second node's range is from
2147483680 to 64; with a third such participant, the first and the third range
overlap. `params.go:180` has it that each node gets this number of keys;
`FullUnlessWrapped` says exactly when it does not. `NoKeyTwice` and
`KeysMatchGenesis` except such networks; `RangesEndAtTotal` does not.

`one`, `shared`: a comment (`participant_network.go:99`) and the architecture
document (`architecture.md:67`) say that all EL clients mine before a CL client is
started. The code waits for `admin_nodeInfo` only, which is what `ElNetworkFirst`
states; the changelog records that mining was dropped.

## Proofs

The theorems are about every value of the constants that the named assumptions
admit: any set of executions, requests, documents and networks of the right type,
any number of participants, any times, counts and width. Where a property has a
condition of its own, the theorem has it too: `TimeOutIsLate` needs a chain
whose epochs are no longer than the parameters' and a timeout that fits; `NoKeyTwice`
and `KeysMatchGenesis` speak of networks whose keys fit the width;
`EnoughUnlessWrapped` of slots whose double does.

`ModuleExecution`. `OneNetwork` is not inductive: that another execution cannot
add a service follows from how far the first has come and what it may rely on.
`Inv` is the conjunction of types, of what each execution relies on at its stage
(`ExecutionInv`: how many contexts it has; that a context stands for its own
client, which has answered; what has been launched of the node in hand; which
tools are there) and of what holds of the enclave (`EnclaveInv`). Its heart is
`Claimed`: whoever has a lasting service in the enclave also has `el-client-0`,
which one execution only can have since IDs are unique (`UniqueIds`). The first
lasting service of an execution is that one, and it fails if the ID is taken.
`ModuleExecution_proofs` shows that `Inv` is inductive, with one lemma per
action, over lemmas about what adding and removing a service does
(`EnclaveAdds`, `EnclaveRemoves`). `ModuleExecution_theorems` derives
`PeersUsable`, `ElNetworkFirst`, `OneNetwork`, `KeysRunOnce` and
`SuccessIsComplete`. It then adds that each generator in
use is its user's (`FullInv`), derives `OnlySpentGeneratorsRemoved`, and shows
that `ModuleExecution` implements `NetworkClaim`: the builder is the owner of
`el-client-0`, the network the lasting services, and failure and panic both count
as failed.

`GenesisTiming`. `TimingInv` adds to the properties what is left of the
allowances at each point (`BudgetInv`) and what `wakes` and `deadline` are
(`GenesisInv`, `DeadlineInv`), the latter with the timeout as it comes out of the
conversion, overflow or not. That the sleep is exact rests on one lemma about
remainders (`DurationIsExact`). `TimeOutIsLate` holds under two assumptions, stated in
the theorem: `ChainSlotsPerEpoch <= SlotsPerEpoch`, which `timing_preset` shows to be
needed, and `TimeoutFits`, for which `timing_overflow` does.

`ValidatorKeys`. `KeysInv`: each index is the remainder of a multiple of the keys,
since a sum that wraps around at every step is one that wraps around once
(`WrappedSum`); the ranges follow one another, are full as long as nothing wraps, and
if the keys fit the width they cover all keys below `startIndex`. Nothing is assumed of the number of keys: the
theorems are about every network that the validation accepts.

`ParamsValidation`. `ValidationInv` says how far the loop has come, what it has
written (`LoopInv`: the participants before the index passed and are completed,
the others are as written) and what the checks passed so far have shown
(`ChecksInv`). From it follow `AgreesWithValid`, which ties the sequence of checks to
the predicate `Valid` that the executions use; `ImagesChosen`; `EnoughUnlessWrapped`,
where the wrapped number of validators is at most the true one; and `RefusedLate`,
that exactly three cases pass the validation and are refused by a launcher.

`NetworkFiles`. `NetworkInv` says that the clients of a layer are those of the first
nodes, as many as there are containers (`NumbersInv`), that each has the ports open
that its context and others' flags name (`PortsInv`), and what has been launched by
the time of each stage (`StageInv`). `AddressesOpen` is kept because containers are
only added and each new one asks for what the invariant provides
(`AddressesStayOpen`, with one lemma per action that launches something).

None of the properties about files is inductive: what a container reads depends on
what was in its artifacts when they were stored, that on the generator's disk, and
that on earlier artifacts. `ContentsInv` says all of it, and each property follows
from it alone:

- `ResultsInv`: which results there are at each stage, and that each names an
  artifact that holds exactly the files it is taken for (`KeysStored`, `ElStored`,
  `ClStored`, ...), with the paths in it that the code returns;
- `DiskInv`: the generator's disk at each stage. Half way through the two maps it is
  what has been written so far, which `todo` determines whatever the order was;
- `Configured(c)`: a container's configuration is the one its launcher makes for its
  own node, over artifacts that hold what they should. It stays true because an
  artifact is never changed or removed (`Grows`);
- `ValidatorDue`: a validator container comes only where the client has one.

`NetworkFiles_contents` shows it inductive with one lemma per action
(`ContentsStep` puts them together), using `NetworkInv` for the node in hand: the
clients launched so far are those of the first nodes, so the next is given its own
node's keystores. What a container sees is then worked out once for each client type
(the lemmas whose names end in `Sees`), over one fact about mounts (`ReadThrough`): if mount
points begin with different names, a path below one of them reads what the rest of
the path reads in the artifact mounted there. That nodes' keystores stay apart on the
generator's one disk rests on `NodeDirname` being injective (`FilesAssumption`), as
it is in the code, which makes it of the index. TLC checks `ContentsInv` too.

`Availability`. `TriesInv` bounds the count, `PatientInv` says that failed requests are
a pause apart each and that a client which serves though the last of them failed
began to after it, and `BoundedInv` what the requests so far can have taken.
`NotGivenUpEarly` follows from the second and `ElWaitBounded` from the third.

Assumptions on constants: `UintLimitAssumption`, `ExecutionAssumption`,
`DocumentsAssumption`, `FilesAssumption` (types, and what tells the absent and the
null from the written), `TimingAssumption` (an `int64` holds the nanoseconds from
1970 to genesis, as it does until the year 2262), `KeysAssumption` (fewer
participants than a `uint32` counts), `AvailabilityAssumption` (types; counts and the timeout are not zero), `HorizonAssumption` (the clock of a wait does
not stop before its pauses have passed). TLC evaluates each in a run.

Only model-checked: liveness (`Ends`, `ElWaitsEnd`, `WaitsEndUnlessHung`), which the
prover does not reach. Every invariant and action property that a passing run
checks is proved, and so is the refinement.

## Not modelled

The program's start (`main.go`, the executor and its configuration). The encodings
of YAML beyond what is left out or null, JSON and REST, the text of templates and
log levels, and the command-line flags that name neither a peer, a file nor a
port. What the tools in the generators compute: a content is known by what it was
made of. What the clients do beyond serving, answering, stopping and
finalizing; the blocks of a chain and its forks as such. IP addresses and the
network between containers. Removal of services by anyone but the module. What is
left out and why is listed per part in `PROJECT.json`.

## Plan

Done, in this order: parameters, launchers, execution with its abstract
specification, proofs; timing; keys; the validation check by check; files,
artifacts and addresses; the availability waits; finalization per node; proofs about
the files. Left:

1. One specification of `Execute` with the clock, of which `ModuleExecution`,
   `GenesisTiming` and `Availability` are all abstractions.
