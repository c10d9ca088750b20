---------------------------- MODULE Availability ----------------------------
(***************************************************************************)
(* The launchers' waits for their clients to answer: those of the EL       *)
(* clients, one after another, then those of the CL clients, each a loop   *)
(* of requests and pauses (el_availability_waiter.go,                      *)
(* cl_availability_waiter.go, nimbus_launcher.go) over the REST clients.   *)
(* Time is counted from the start of the wait in hand, and passes only in  *)
(* pauses and requests.  The clients are external: each may come to serve  *)
(* its API, stop and come back, whenever it likes.                         *)
(***************************************************************************)
EXTENDS ModuleParams

CONSTANTS
    ElTypes, ClTypes,   \* the clients, by participant
    PrefundedKeys,      \* len(prefundedAccountInfo)
    GethInit, PerKeyImport, GethStart,  \* what geth is expected to take,
    ErigonInit, ErigonStart,            \* and erigon, in seconds
    NodeInfoRetries,    \* getNodeInfoMaxRetries, of the other EL launchers
    NodeInfoPause,      \* getNodeInfoTimeBetweenRetries
    HealthRetries,      \* maxNumHealthcheckRetries, by CL launcher
    HealthPause,        \* timeBetweenHealthcheckRetries
    RequestTimeout,     \* rpcRequestTimeout
    Horizon             \* bound on the clock, which stops there

ASSUME AvailabilityAssumption ==
    /\ ElTypes \in Seq(ELTypes) /\ ClTypes \in Seq(CLTypes)
    /\ Len(ElTypes) > 0 /\ Len(ClTypes) = Len(ElTypes)
    /\ PrefundedKeys \in Nat /\ GethInit \in Nat \ {0}
    /\ PerKeyImport \in Nat /\ GethStart \in Nat
    /\ ErigonInit \in Nat \ {0} /\ ErigonStart \in Nat
    /\ NodeInfoRetries \in [{"nethermind", "besu"} -> Nat \ {0}]
    /\ HealthRetries \in [CLTypes -> Nat \ {0}]
    /\ NodeInfoPause \in Nat /\ HealthPause \in [CLTypes -> Nat]
    /\ RequestTimeout \in Nat \ {0} /\ Horizon \in Nat

VARIABLES
    node,       \* the client in hand: the EL clients come first
    stage,      \* what the launcher is doing with it
    tries,      \* requests that failed
    left,       \* seconds left of the pause, or until the request times out
    elapsed,    \* seconds since the wait began
    asked,      \* when the present request was made
    serving,    \* clients whose API answers
    upAt        \* when the client in hand began to serve

wait == <<node, stage, tries, left, asked>>
vars == <<wait, elapsed, serving, upAt>>

Types   == ElTypes \o ClTypes
Clients == 1..Len(Types)
IsEl(n) == n <= Len(ElTypes)

Stages == {"launch", "pause", "asking", "identity", "done", "failed"}

\* Faulty: the keys' import is not allowed for.
GethRetriesWithoutKeys == GethInit + GethStart

GethRetries == GethInit + PrefundedKeys * PerKeyImport + GethStart

\* The requests a launcher makes before it gives up, and the pause after each.
Retries(n) ==
    CASE Types[n] = "geth"                   -> GethRetries
      [] Types[n] = "erigon"                 -> ErigonInit + ErigonStart
      [] Types[n] \in {"nethermind", "besu"} -> NodeInfoRetries[Types[n]]
      [] Types[n] \in CLTypes                -> HealthRetries[Types[n]]

Pause(n) == IF IsEl(n) THEN NodeInfoPause ELSE HealthPause[Types[n]]

\* The clock runs for as long as the pauses of a wait.
ASSUME HorizonAssumption ==
    \A n \in Clients : Horizon >= Retries(n) * Pause(n)

Init ==
    /\ node = 1 /\ stage = "launch" /\ tries = 0 /\ left = 0 /\ elapsed = 0
    /\ asked = 0 /\ serving = {} /\ upAt = 0

----------------------------------------------------------------------------
(* The launchers.                                                          *)

\* AddService returned; the wait begins.
Launch ==
    /\ stage = "launch"
    /\ stage' = "pause" /\ tries' = 0 /\ left' = 0 /\ elapsed' = 0 /\ upAt' = 0
    /\ UNCHANGED <<node, asked, serving>>

LaunchFails ==
    /\ stage = "launch"
    /\ stage' = "failed"
    /\ UNCHANGED <<node, tries, left, elapsed, asked, serving, upAt>>

\* GetNodeInfo, of a client with a timeout, or GetHealth, of one without.
Ask ==
    /\ stage = "pause" /\ left = 0 /\ tries < Retries(node)
    /\ stage' = "asking" /\ asked' = elapsed
    /\ left' = IF IsEl(node) THEN RequestTimeout ELSE 0
    /\ UNCHANGED <<node, tries, elapsed, serving, upAt>>

\* A client that serves when it is asked, and still does, answers in time.
Prompt == node \in serving /\ upAt <= asked

\* Faulty: a refusal is not counted.
RequestFailsUncounted ==
    /\ stage = "asking" /\ ~Prompt
    /\ stage' = "pause" /\ left' = Pause(node)
    /\ UNCHANGED <<node, tries, elapsed, asked, serving, upAt>>

\* The connection is refused or times out, or what comes is not an answer:
\* of an EL client not the node's info, of a CL client not a status the health
\* endpoint may have.
RequestFails ==
    /\ stage = "asking" /\ ~Prompt
    /\ stage' = "pause" /\ tries' = tries + 1 /\ left' = Pause(node)
    /\ UNCHANGED <<node, elapsed, asked, serving, upAt>>

\* Faulty: one client too many is looked for.
NextClientAndOneMore ==
    IF node > Len(Types)
    THEN stage' = "done" /\ UNCHANGED node
    ELSE stage' = "launch" /\ node' = node + 1

\* The launcher is done with the client.
NextClient ==
    IF node = Len(Types)
    THEN stage' = "done" /\ UNCHANGED node
    ELSE stage' = "launch" /\ node' = node + 1

NodeInfoAnswered ==
    /\ stage = "asking" /\ IsEl(node) /\ node \in serving
    /\ NextClient
    /\ UNCHANGED <<tries, left, elapsed, asked, serving, upAt>>

\* Faulty: a client that is not ready is asked again.
HealthAnsweredNotReady ==
    /\ stage = "asking" /\ ~IsEl(node) /\ node \in serving
    /\ stage' = "pause" /\ left' = Pause(node)
    /\ UNCHANGED <<node, tries, elapsed, asked, serving, upAt>>

\* Whatever the client says of its health.
HealthAnswered ==
    /\ stage = "asking" /\ ~IsEl(node) /\ node \in serving
    /\ stage' = "identity"
    /\ UNCHANGED <<node, tries, left, elapsed, asked, serving, upAt>>

GiveUp ==
    /\ stage = "pause" /\ left = 0 /\ tries = Retries(node)
    /\ stage' = "failed"
    /\ UNCHANGED <<node, tries, left, elapsed, asked, serving, upAt>>

\* GetNodeIdentity, once: any status but 200 is an error, and a client that is
\* not ready may answer the one before with another.
IdentityAnswered ==
    /\ stage = "identity" /\ node \in serving
    /\ NextClient
    /\ UNCHANGED <<tries, left, elapsed, asked, serving, upAt>>

IdentityFails ==
    /\ stage = "identity"
    /\ stage' = "failed"
    /\ UNCHANGED <<node, tries, left, elapsed, asked, serving, upAt>>

----------------------------------------------------------------------------
(* The clients and the clock.                                              *)

Started(n) == n < node \/ (n = node /\ stage # "launch")

ComeUp(n) ==
    /\ Started(n) /\ n \notin serving
    /\ serving' = serving \cup {n}
    /\ upAt' = IF n = node THEN elapsed ELSE upAt
    /\ UNCHANGED <<wait, elapsed>>

Stop(n) ==
    /\ n \in serving
    /\ serving' = serving \ {n}
    /\ UNCHANGED <<wait, elapsed, upAt>>

\* Faulty: a request that was made has no timeout.
MayPassForever ==
    \/ stage = "pause" /\ left > 0
    \/ stage = "asking"

\* Time passes in a pause, or in a request that may still wait.
MayPass ==
    \/ stage \in {"pause", "asking"} /\ left > 0
    \/ stage = "asking" /\ ~IsEl(node)

Tick ==
    /\ MayPass
    /\ elapsed' = IF elapsed < Horizon THEN elapsed + 1 ELSE elapsed
    /\ left' = IF left > 0 THEN left - 1 ELSE 0
    /\ UNCHANGED <<node, stage, tries, asked, serving, upAt>>

----------------------------------------------------------------------------
Next ==
    \/ Launch \/ LaunchFails \/ Ask \/ RequestFails
    \/ NodeInfoAnswered \/ HealthAnswered \/ GiveUp
    \/ IdentityAnswered \/ IdentityFails
    \/ \E n \in Clients : ComeUp(n) \/ Stop(n)
    \/ Tick

\* Every request to an EL client ends; one to a CL client may not.
Fairness ==
    /\ WF_vars(Launch \/ LaunchFails)
    /\ WF_vars(Ask \/ GiveUp)
    /\ WF_vars(IsEl(node) /\ (RequestFails \/ NodeInfoAnswered))
    /\ WF_vars(Tick)

Spec     == Init /\ [][Next]_vars
FairSpec == Spec /\ Fairness

----------------------------------------------------------------------------
(* Properties.                                                             *)

TypeOK ==
    /\ node \in Clients /\ stage \in Stages /\ tries \in Nat /\ left \in Nat
    /\ elapsed \in 0..Horizon /\ asked \in 0..Horizon /\ upAt \in 0..Horizon
    /\ serving \subseteq Clients

\* What a client may take before it serves, if its launcher is not to give up
\* on it: the seconds that are expected of it, up to its last request.
Expected(n) ==
    CASE Types[n] = "geth"   -> GethInit + PrefundedKeys * PerKeyImport + GethStart
      [] Types[n] = "erigon" -> ErigonInit + ErigonStart
      [] Types[n] \notin {"geth", "erigon"} -> Retries(n)

\* No launcher gives up on a client that serves and began to, however often it
\* stopped before, by the launcher's last request: one pause before the time
\* the constants of the launcher allow.
NotGivenUpEarly ==
    stage = "pause" /\ tries = Retries(node) /\ node \in serving
        => upAt >= (Expected(node) - 1) * Pause(node)

\* The wait for an EL client takes no longer than its requests and pauses
\* may, though a client may take connections and not answer them.
ElWaitBounded ==
    IsEl(node) /\ stage \in {"pause", "asking"}
        => elapsed <= Expected(node) * (RequestTimeout + Pause(node))

\* The launching of the EL clients ends: every client answers, or the
\* execution fails, even if clients stop and come back for ever.
ElWaitsEnd == <>(stage = "failed" \/ ~IsEl(node))

\* The launching of the CL clients ends, too, unless one request that was
\* made to one of them never returns.
WaitsEndUnlessHung ==
    \/ <>(stage \in {"done", "failed"})
    \/ <>[](~IsEl(node) /\ stage \in {"asking", "identity"})

----------------------------------------------------------------------------
(* The inductive invariant behind NotGivenUpEarly and ElWaitBounded.       *)

TriesInv ==
    /\ stage = "pause" => tries <= Retries(node) /\ left <= Pause(node)
    /\ stage = "asking" => tries < Retries(node) /\ asked <= elapsed

\* The requests so far are a pause apart, each, so that a client which serves
\* though the last of them failed began to after it was made.
PatientInv ==
    /\ stage = "pause" => elapsed + left >= tries * Pause(node)
    /\ stage = "asking" => asked >= tries * Pause(node)
    /\ stage \in {"pause", "asking"} /\ tries > 0 /\ node \in serving
          => upAt >= (tries - 1) * Pause(node)

\* What the requests so far have taken, and the present one or pause may.
BoundedInv ==
    IsEl(node) =>
        /\ stage = "pause"
              => elapsed + left <= tries * (RequestTimeout + Pause(node))
        /\ stage = "asking"
              => elapsed + left <= tries * (RequestTimeout + Pause(node))
                                       + RequestTimeout

AvailabilityInv == TypeOK /\ TriesInv /\ PatientInv /\ BoundedInv
=============================================================================
