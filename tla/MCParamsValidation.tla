------------------------- MODULE MCParamsValidation -------------------------
(* Documents for ParamsValidation. *)
EXTENDS ParamsValidation

P(el, cl, elImage, clImage) ==
    [el |-> el, cl |-> cl, elImage |-> elImage, clImage |-> clImage, mevBoost |-> FALSE]

SomeParticipants == {
    P("geth", "lighthouse", "", ""), P("erigon", "prysm", "", ""),
    P("besu", "teku", "", ""), P("geth", "prysm", "elImage", "clImage"),
    P("nethermind", "teku", "", "clImage"), P("geth", "nimbus", "elImage", ""),
    P("parity", "lodestar", "", ""), P("geth", "grandine", "", ""), Null}

SomeTexts == {"geth", "erigon", "besu", "nethermind", "parity", "lighthouse", "prysm", "teku",
              "nimbus", "lodestar", "grandine", "3151908", "0x4242", "giant issue", "",
              " ", "info", "verbose"}

Lists   == UNION {[1..n -> SomeParticipants] : n \in 0..2}
Triples == [1..3 -> SomeParticipants]

Nothing == [field \in DOMAIN DefaultParams.network |-> Absent]

\* Parts that are blank, zero, too few, or wrap around with 256 for 2^32.
Parts == {
    Nothing,
    [Nothing EXCEPT !.networkId = ""], [Nothing EXCEPT !.depositContract = " "],
    [Nothing EXCEPT !.mnemonic = ""], [Nothing EXCEPT !.secondsPerSlot = 0],
    [Nothing EXCEPT !.slotsPerEpoch = 0, !.keysPerNode = 1],
    [Nothing EXCEPT !.slotsPerEpoch = 4, !.keysPerNode = 7],
    [Nothing EXCEPT !.slotsPerEpoch = 4, !.keysPerNode = 4],
    [Nothing EXCEPT !.keysPerNode = 128], [Nothing EXCEPT !.slotsPerEpoch = 127]}

Wrapping == {[Nothing EXCEPT !.slotsPerEpoch = 128, !.keysPerNode = 1]}

Doc(participants, network, level) ==
    [participants |-> participants, network |-> network, level |-> level]

SomeDocuments ==
    {Doc(list, network, Absent) :
        list \in Lists \cup {Absent}, network \in Parts \cup Wrapping \cup {Absent, Null}}
    \cup {Doc(list, Absent, Absent) : list \in Triples}
    \cup {Doc(Absent, Absent, level) : level \in {"info", "verbose"}}
=============================================================================
