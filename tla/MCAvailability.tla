--------------------------- MODULE MCAvailability ---------------------------
(* Instances of Availability for TLC. *)
EXTENDS Availability

GethAndErigon == <<"geth", "erigon">>
LighthouseAndPrysm == <<"lighthouse", "prysm">>

NodeInfoTries == [type \in {"nethermind", "besu"} |->
                     IF type = "besu" THEN 2 ELSE 3]

HealthTries == [type \in CLTypes |->
                   IF type \in {"lighthouse", "nimbus"} THEN 2 ELSE 3]
HealthPauses == [type \in CLTypes |->
                    IF type \in {"lighthouse", "nimbus"} THEN 1 ELSE 2]
=============================================================================
