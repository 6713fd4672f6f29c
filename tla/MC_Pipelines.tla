---------------------------- MODULE MC_Pipelines ----------------------------
(* Instances for TLC of the parts of the generic issuance service: the      *)
(* executor with one pipeline, the check-in of tickets, and the provider of *)
(* Semaphore groups; and of the proving service.  A behaviour is one of one *)
(* of them, chosen at first, while the others stay as they are.             *)
EXTENDS PipelineExecutor, TicketCheckIn, SemaphoreGroups, ProvingQueue, TLC

CONSTANTS r1, r2,          \* requests: edits, scans, polls or proofs
          l1, l2, s1, s2,  \* loads and slots
          t1, t2,          \* tickets
          u1, m1, m2,      \* a user and his addresses
          c1, c2           \* commitments

VARIABLE part

partVars == <<pipelineVars, checkInVars, groupVars, proofVars, part>>

PipelinesInit ==
    /\ part \in {"executor", "checkIn", "groups", "proving"}
    /\ PipelineInit /\ CheckInInit /\ GroupInit /\ ProofInit
    /\ part # "executor" => cachedLoad = NoCachedLoad

Executor(A) == /\ part = "executor" /\ A
               /\ UNCHANGED <<checkInVars, groupVars, proofVars, part>>
CheckIn(A) == /\ part = "checkIn" /\ A
              /\ UNCHANGED <<pipelineVars, groupVars, proofVars, part>>
Groups(A) == /\ part = "groups" /\ A
             /\ UNCHANGED <<pipelineVars, checkInVars, proofVars, part>>
Proving(A) == /\ part = "proving" /\ A
              /\ UNCHANGED <<pipelineVars, checkInVars, groupVars, part>>

PipelinesNext == \/ Executor(PipelineNext) \/ CheckIn(CheckInNext)
                 \/ Groups(GroupNext) \/ Proving(ProofNext)

\* Fairness.  A behaviour is of one part, so that one condition on a disjunction
\* of an action of each part stands for a condition on each of them.
\*   Proofs end.
ProofGoesOn(p) == Proving(\E outcome \in {"complete", "error"} : FinishProof(p, outcome))

\*   Requests are answered, and clients poll again and again.
RequestGoesOn(r) ==
    \/ ProofGoesOn(r)
    \/ Executor(SaveEdit(r) \/ CommitEdit(r))
    \/ CheckIn(ScanGoesOn(r))
    \/ Groups(PollGroupFeed(r) \/ SaveConsumer(r))

\*   The executor passes its loop: it loads the pipeline and replaces the instance.
LoopGoesOn == Executor(PassGoesOn) \/ CheckIn(StartTicketLoad) \/ Groups(LoadTickets)
SlotGoesOn ==
    \/ Executor(RestartGoesOn("loop")) \/ CheckIn(ReplaceInstance)
    \/ Groups(ReplaceProvider)

\*   Loads, and the queues of an instance, are worked off.
LoadTaskGoesOn(l, i) ==
    \/ ProofGoesOn(l)
    \/ Executor(LoadGoesOn(l))
    \/ CheckIn(FetchTickets(i) \/ SaveTickets(i))
    \/ Groups(ChangeGroup(i) \/ AddHistoryEntry(i))

PipelinesSpec ==
    /\ PipelinesInit /\ [][PipelinesNext]_partVars
    /\ \A r \in {r1, r2} : /\ WF_partVars(RequestGoesOn(r))
                           /\ WF_partVars(Executor(RestartGoesOn(r)))
    /\ WF_partVars(LoopGoesOn) /\ WF_partVars(SlotGoesOn)
    /\ WF_partVars(LoadTaskGoesOn(l1, 0)) /\ WF_partVars(LoadTaskGoesOn(l2, 1))
    /\ SF_partVars(Groups(StartProvider))

-----------------------------------------------------------------------------
\* Constants.
ThreeVersions == <<{"uncached"}, {"paused"}, {}>>
TwoAddresses == u1 :> <<m1, m2>>
OneIdentity == u1 :> c1
OneUser == r1 :> u1 @@ r2 :> u1

-----------------------------------------------------------------------------
(* Type correctness of every part.                                          *)
PipelinesTypeOK == PipelineTypeOK /\ CheckInTypeOK /\ GroupTypeOK /\ ProofTypeOK

(* PipelineSettles, of the executor.                                        *)
ExecutorSettles == <>[](part = "executor" => PipelineIsSettled)

(* GroupsCatchUp, of the provider of groups.                                *)
ProviderCatchesUp == <>[](part = "groups" => GroupIsCurrent)
=============================================================================
