---------------------------- MODULE ModuleParams ----------------------------
(***************************************************************************)
(* The parameters of one execution of the module and what                  *)
(* module_io/params_deserializer.go accepts.  A request is the parameter   *)
(* object after YAML was laid over the defaults: its participants, the     *)
(* numbers the checks compute with, and its flags.  The strings that must  *)
(* not be blank (network id, deposit contract, mnemonic) and the log level *)
(* that must be a known one are the single field textOk.                   *)
(***************************************************************************)
EXTENDS Naturals, Sequences

CONSTANT UintLimit      \* 2^32: the checks compute in uint32

ASSUME UintLimitAssumption == UintLimit \in Nat \ {0}

ELTypes == {"geth", "erigon", "nethermind", "besu"}
CLTypes == {"lighthouse", "teku", "nimbus", "prysm", "lodestar"}

\* Participants as a caller may write them: a type is any string.
Participant == [el : STRING, cl : STRING, mevBoost : BOOLEAN]

Request == [participants   : Seq(Participant),
            slotsPerEpoch  : Nat,
            secondsPerSlot : Nat,
            keysPerNode    : Nat,
            textOk         : BOOLEAN,
            additional     : BOOLEAN,    \* launchAdditionalServices
            verify         : BOOLEAN,    \* waitForVerifications
            finalize       : BOOLEAN]    \* waitForFinalization

NumParticipants(r) == Len(r.participants)

RequiredValidators(r) == (2 * r.slotsPerEpoch) % UintLimit
ActualValidators(r)   == (NumParticipants(r) * r.keysPerNode) % UintLimit

ParticipantsValid(r) ==
    /\ r.participants # <<>>
    /\ r.participants[1].el \notin {"nethermind", "besu"}
    /\ \A i \in 1..NumParticipants(r) :
          /\ r.participants[i].el \in ELTypes
          /\ r.participants[i].cl \in CLTypes
    /\ NumParticipants(r) >= 2 => r.participants[2].el # "nethermind"

NumbersValid(r) ==
    /\ r.secondsPerSlot # 0
    /\ r.slotsPerEpoch # 0
    /\ ActualValidators(r) >= RequiredValidators(r)

\* DeserializeAndValidateParams returns the parameters and no error.
Valid(r) == r.textOk /\ ParticipantsValid(r) /\ NumbersValid(r)
=============================================================================
