---------------------------- MODULE ProvingQueue ----------------------------
(***************************************************************************)
(* Proofs made by the server (provingService.ts): a request is identified  *)
(* by its hash, waits in a queue in memory, and is proved in the           *)
(* background; who ends a proof takes the head off the queue and starts    *)
(* the next one.  The server stops its services, and so empties the queue, *)
(* before it stops answering requests, and may be restarted.               *)
(***************************************************************************)
EXTENDS Naturals, Sequences, FiniteSets

CONSTANTS ProofRequest,  \* requests, each standing for its hash
          Provable       \* those of a type that the service has a package for

\* A hash is a SHA-256: there is a bounded number of them.
ASSUME ProofAssumption == IsFiniteSet(ProofRequest) /\ Provable \subseteq ProofRequest

VARIABLES
    proofQueue,   \* queue
    proofStatus,  \* pendingPCDResponse: the status of each hash
    proving,      \* the calls of serverProve that await a proof
    stopped,      \* the service was stopped, and the server is about to end
    dropped       \* history: the requests that stop() took off the queue

proofVars == <<proofQueue, proofStatus, proving, stopped, dropped>>

PendingPCDStatus == {"none", "queued", "proving", "complete", "error"}

\* isSettledPendingPCDStatus.
Settled == {"none", "complete", "error"}

ProofTypeOK ==
    /\ proofQueue \in Seq(ProofRequest)
    /\ Len(proofQueue) <= Cardinality(ProofRequest)
    /\ proofStatus \in [ProofRequest -> PendingPCDStatus]
    /\ proving \subseteq Provable
    /\ stopped \in BOOLEAN
    /\ dropped \subseteq ProofRequest

ProofInit ==
    /\ proofQueue = <<>>
    /\ proofStatus = [p \in ProofRequest |-> "none"]
    /\ proving = {}
    /\ stopped = FALSE
    /\ dropped = {}

\* The requests that have no package end as soon as they start: the first
\* proof to await among q is of the first request from place n on.
Pending(q) == {n \in 1 .. Len(q) : q[n] \in Provable}
Place(q) == CHOOSE n \in Pending(q) : \A k \in Pending(q) : n <= k

\* serverProve of the head of q, and of those that follow while they fail at
\* once; others are the proofs that go on meanwhile.
ServeProofs(q, status, others) ==
    LET n == IF Pending(q) = {} THEN Len(q) + 1 ELSE Place(q)
        failed == {q[k] : k \in 1 .. n - 1}
        started == {q[k] : k \in {n} \cap Pending(q)}
    IN /\ proofQueue' = SubSeq(q, n, Len(q))
       /\ proving' = others \cup started
       /\ proofStatus' = [p \in ProofRequest |->
                            IF p \in failed THEN "error"
                            ELSE IF p \in started THEN "proving" ELSE status[p]]

-----------------------------------------------------------------------------
\* Variant: every request is proved at once.
EnqueueAndProve(p) ==
    /\ proofStatus[p] = "none" /\ p \in Provable
    /\ proofQueue' = Append(proofQueue, p)
    /\ proving' = proving \cup {p}
    /\ proofStatus' = [proofStatus EXCEPT ![p] = "proving"]
    /\ UNCHANGED <<stopped, dropped>>

\* enqueueProofRequest of a request not seen before.  One that was, finished,
\* failed or waiting, is answered with its status and changes nothing.
Enqueue(p) ==
    /\ proofStatus[p] = "none"
    /\ IF proofQueue = <<>>
       THEN ServeProofs(<<p>>, proofStatus, proving)
       ELSE /\ proofQueue' = Append(proofQueue, p)
            /\ proofStatus' = [proofStatus EXCEPT ![p] = "queued"]
            /\ UNCHANGED proving
    /\ UNCHANGED <<stopped, dropped>>

\* Variant: the next proof waits for the next request.
FinishOnly(p, outcome) ==
    /\ p \in proving
    /\ proving' = proving \ {p}
    /\ proofStatus' = [proofStatus EXCEPT ![p] = outcome]
    /\ proofQueue' = IF proofQueue = <<>> THEN <<>> ELSE Tail(proofQueue)
    /\ UNCHANGED <<stopped, dropped>>

\* serverProve after its await: note the outcome, shift the queue, and prove
\* its new head.
FinishProof(p, outcome) ==
    LET q == IF proofQueue = <<>> THEN <<>> ELSE Tail(proofQueue)
        status == [proofStatus EXCEPT ![p] = outcome]
    IN /\ p \in proving
       /\ IF q # <<>> /\ status[Head(q)] # "proving"
          THEN ServeProofs(q, status, proving \ {p})
          ELSE /\ proofQueue' = q
               /\ proofStatus' = status
               /\ proving' = proving \ {p}
       /\ UNCHANGED <<stopped, dropped>>

\* stop(), while proofs run on and requests still come in.
StopProving ==
    /\ ~ stopped
    /\ stopped' = TRUE
    /\ dropped' = {proofQueue[n] : n \in 1 .. Len(proofQueue)} \ proving
    /\ proofQueue' = <<>>
    /\ UNCHANGED <<proofStatus, proving>>

\* The process ends, stopped or not, and another starts with an empty memory.
RestartProving ==
    /\ proofQueue' = <<>>
    /\ proofStatus' = [p \in ProofRequest |-> "none"]
    /\ proving' = {}
    /\ stopped' = FALSE
    /\ dropped' = {}

ProofNext ==
    \/ StopProving \/ RestartProving
    \/ \E p \in ProofRequest :
          Enqueue(p) \/ \E outcome \in {"complete", "error"} : FinishProof(p, outcome)

ProofSpec == ProofInit /\ [][ProofNext]_proofVars

-----------------------------------------------------------------------------
(* "Proofs are executed one a time", from a start of the server until its   *)
(* shutdown: there is one proof while requests wait, that of the head of    *)
(* the queue, and none that waits twice or is already done.                 *)
ProofsTakeTurns ==
    ~ stopped =>
       /\ proving = IF proofQueue = <<>> THEN {} ELSE {Head(proofQueue)}
       /\ \A p \in ProofRequest :
             Cardinality({n \in 1 .. Len(proofQueue) : proofQueue[n] = p})
               = IF proofStatus[p] \in Settled THEN 0 ELSE 1

(* Again and again no accepted request waits or is being proved: each comes *)
(* to an end, also one that was accepted after stop() took the running      *)
(* proof off the queue, except those that stop() itself took off the queue. *)
ProofsEnd ==
    []<>(\A p \in ProofRequest : proofStatus[p] \in Settled \/ p \in dropped)
=============================================================================
