-------------------------- MODULE PipelineExecutor --------------------------
(***************************************************************************)
(* One pipeline of the generic issuance service: its definition in the     *)
(* database, the slots of PipelineExecutorSubservice with the instances    *)
(* that run it, the atoms and the summary that loads leave in memory, and  *)
(* the last good load on disk.                                             *)
(*                                                                         *)
(* A loop loads every slot, then reads the definitions again and replaces  *)
(* every instance.  Editors change, delete or reset the pipeline in        *)
(* transactions meanwhile, each of which restarts it in memory before it   *)
(* commits; and a load that timed out goes on by itself.  Nothing keeps    *)
(* these from interleaving at every await.                                 *)
(***************************************************************************)
EXTENDS Naturals, Sequences, SequencesExt

CONSTANTS PipelineEditor,  \* requests of editors that may be in flight
          SlotObject,      \* PipelineSlot objects
          LoadTask,        \* loads that may be in flight
          PipelineOptions, \* which of "paused", "uncached" each version sets
          StoredVersion,   \* the version that is there when the server starts
          MaxDisturbances, \* bounds: edits that overlap, deletions, resets of the cache,
                           \*   and loads, starts and commits that fail or time out;
          MaxRefreshFaults \*   failures of the loop's own queries

ASSUME PipelineAssumption ==
    /\ PipelineOptions \in Seq(SUBSET {"paused", "uncached"})
    /\ StoredVersion \in 1 .. Len(PipelineOptions)
    /\ "loop" \notin PipelineEditor /\ SlotObject # {} /\ "none" \notin SlotObject
    /\ MaxDisturbances \in Nat /\ MaxRefreshFaults \in Nat

VARIABLES
    definition,     \* the committed version of the definition, 0 none
    edit,           \* where each editor's request stands
    slots,          \* pipelineSlots, in their order
    slotObject,     \* the contents of each slot object
    restart,        \* where each call of restartPipeline stands
    pass,           \* where the loop stands
    task,           \* where each load stands
    atoms,          \* InMemoryPipelineAtomDB: the version they are from, 0 none
    summary,        \* the last load summary
    cachedLoad,     \* LocalFileService: the load that is kept on disk
    calm,           \* history: no request since the loop last began to refresh
    pipelineBudget  \* counters of the bounds

pipelineVars == <<definition, edit, slots, slotObject, restart, pass, task, atoms,
                  summary, cachedLoad, calm, pipelineBudget>>

Versions == 0 .. Len(PipelineOptions)
Restarter == PipelineEditor \cup {"loop"}
NoSlot == "none"

\* made: the version of the instance, 0 if there is none.
SlotContents == [definition : Versions, made : Versions, stopped : BOOLEAN]
EmptySlot == [definition |-> 0, made |-> 0, stopped |-> FALSE]

\* found: the slot that was there at first; own: what the transaction wrote.
Edit == [at : {"idle", "checked", "saved"}, found : SlotObject \cup {NoSlot},
         own : Versions]
NoEdit == [at |-> "idle", found |-> NoSlot, own |-> 0]

Restart == [at : {"idle", "owner", "starting"}, slot : SlotObject \cup {NoSlot},
            version : Versions]
NoRestart == [at |-> "idle", slot |-> NoSlot, version |-> 0]

Pass == [at : {"waiting", "loading", "refreshing", "starting", "restarting", "dead"},
         todo : SUBSET SlotObject, slot : SlotObject \cup {NoSlot}, version : Versions]

\* made: the version of the instance that loads; held: its slot still holds it;
\* orphan: the load timed out, and nobody awaits it.
Task == [at : {"idle", "begun", "fetching", "saving", "reporting"},
         slot : SlotObject \cup {NoSlot}, made : Versions, aborted : BOOLEAN,
         held : BOOLEAN, orphan : BOOLEAN, cached : BOOLEAN, version : Versions]
NoTask == [at |-> "idle", slot |-> NoSlot, made |-> 0, aborted |-> FALSE,
           held |-> FALSE, orphan |-> FALSE, cached |-> FALSE, version |-> 0]

PipelineTypeOK ==
    /\ definition \in Versions
    /\ edit \in [PipelineEditor -> Edit]
    /\ slots \in Seq(SlotObject)
    /\ slotObject \in [SlotObject -> SlotContents]
    /\ restart \in [Restarter -> Restart]
    /\ pass \in Pass
    /\ task \in [LoadTask -> Task]
    /\ atoms \in Versions
    /\ summary \in {"none", "success", "failure"}
    /\ cachedLoad \in [there : BOOLEAN, atoms : Versions]
    /\ calm \in BOOLEAN
    /\ pipelineBudget \in [edits : Versions, disturbances : 0 .. MaxDisturbances,
                           refresh : 0 .. MaxRefreshFaults]

NoCachedLoad == [there |-> FALSE, atoms |-> 0]
Waiting == [at |-> "waiting", todo |-> {}, slot |-> NoSlot, version |-> 0]

\* start has instantiated the pipeline; an earlier run may have left a cached load.
PipelineInit ==
    LET first == CHOOSE s \in SlotObject : TRUE IN
    /\ definition = StoredVersion
    /\ edit = [e \in PipelineEditor |-> NoEdit]
    /\ slots = <<first>>
    /\ slotObject = [s \in SlotObject |->
         IF s = first
         THEN [definition |-> StoredVersion, made |-> StoredVersion, stopped |-> FALSE]
         ELSE EmptySlot]
    /\ restart = [r \in Restarter |-> NoRestart]
    /\ pass = Waiting
    /\ task = [l \in LoadTask |-> NoTask]
    /\ atoms = 0 /\ summary = "none"
    /\ cachedLoad \in {NoCachedLoad, [there |-> TRUE, atoms |-> 0]}
    /\ calm = TRUE
    /\ pipelineBudget = [edits |-> StoredVersion, disturbances |-> 0, refresh |-> 0]

Options(v) == IF v = 0 THEN {} ELSE PipelineOptions[v]
FirstSlot == IF slots = <<>> THEN NoSlot ELSE slots[1]

\* An object that is in use nowhere, as a new one is.
FreshSlots ==
    {s \in SlotObject : /\ ~ Contains(slots, s) /\ s # pass.slot /\ s \notin pass.todo
                        /\ \A r \in Restarter : restart[r].slot # s
                        /\ \A l \in LoadTask : task[l].slot # s
                        /\ \A e \in PipelineEditor : edit[e].found # s}
NewSlot == CHOOSE s \in FreshSlots : TRUE

UseBudget(counter, max) ==
    /\ pipelineBudget[counter] < max
    /\ pipelineBudget' = [pipelineBudget EXCEPT ![counter] = @ + 1]
Disturbance == UseBudget("disturbances", MaxDisturbances)

EditorRests(e) == edit[e].at = "idle" /\ restart[e].at = "idle"
\* Which of the requests a new one is, makes no difference.
IsNextEditor(e) == EditorRests(e) /\ e = CHOOSE x \in PipelineEditor : EditorRests(x)

\* The instances of these slots are stopped: loads by them find the signal.
Stopped(objects, which) == [s \in SlotObject |->
    IF s \in which THEN [objects[s] EXCEPT !.stopped = TRUE] ELSE objects[s]]
Aborted(which) == [l \in LoadTask |->
    IF task[l].slot \in which /\ task[l].held THEN [task[l] EXCEPT !.aborted = TRUE]
                                              ELSE task[l]]
\* Another instance takes the slot; a load by the former one is out of its reach.
Released(s) == [l \in LoadTask |->
    IF task[l].slot = s THEN [task[l] EXCEPT !.held = FALSE] ELSE task[l]]

-----------------------------------------------------------------------------
\* restartPipeline reads the definition: without one, the slots are dropped.
ReadToRestart(r, version) ==
    IF version = 0
    THEN slots' = <<>> /\ UNCHANGED restart
    ELSE /\ restart' = [restart EXCEPT ![r] = [at |-> "owner", slot |-> FirstSlot,
                                               version |-> version]]
         /\ UNCHANGED slots

\* The owner is read: a new slot is pushed, or the instance of the one that was
\* found is stopped.
StopForRestart(r) ==
    /\ restart[r].at = "owner"
    /\ \/ /\ restart[r].slot = NoSlot /\ FreshSlots # {}
          /\ slots' = Append(slots, NewSlot)
          /\ slotObject' = [slotObject EXCEPT ![NewSlot] =
                              [EmptySlot EXCEPT !.definition = restart[r].version]]
          /\ restart' = [restart EXCEPT ![r].at = "starting", ![r].slot = NewSlot]
          /\ UNCHANGED task
       \/ /\ restart[r].slot # NoSlot
          /\ slotObject' = Stopped(slotObject, {restart[r].slot})
          /\ task' = Aborted({restart[r].slot})
          /\ restart' = [restart EXCEPT ![r].at = "starting"]
          /\ UNCHANGED slots
    /\ UNCHANGED <<definition, edit, pass, atoms, summary, cachedLoad, calm,
                   pipelineBudget>>

\* instantiatePipeline returns.
FinishRestart(r) ==
    LET s == restart[r].slot
        v == restart[r].version IN
    /\ restart[r].at = "starting"
    /\ slotObject' = [slotObject EXCEPT ![s] = [definition |-> v, made |-> v,
                                                 stopped |-> FALSE]]
    /\ task' = Released(s)
    /\ restart' = [restart EXCEPT ![r] = NoRestart]
    /\ pass' = IF r = "loop" THEN Waiting ELSE pass
    /\ UNCHANGED <<definition, edit, slots, atoms, summary, cachedLoad, calm,
                   pipelineBudget>>

\* A query or the start of the instance fails: the slot keeps what it has.
RestartFails(r) ==
    /\ restart[r].at # "idle" /\ Disturbance
    /\ restart' = [restart EXCEPT ![r] = NoRestart]
    /\ pass' = IF r = "loop" THEN Waiting ELSE pass
    /\ calm' = FALSE
    /\ UNCHANGED <<definition, edit, slots, slotObject, task, atoms, summary,
                   cachedLoad>>

-----------------------------------------------------------------------------
\* upsertPipelineDefinition: the version that is edited is current, and the slot
\* is looked up.
CheckEdit(e) ==
    /\ IsNextEditor(e)
    /\ pipelineBudget.edits < Len(PipelineOptions)
    /\ LET overlaps == IF \E x \in PipelineEditor : ~ EditorRests(x) THEN 1 ELSE 0 IN
         /\ pipelineBudget.disturbances + overlaps <= MaxDisturbances
         /\ pipelineBudget' = [pipelineBudget EXCEPT !.edits = @ + 1,
                                                     !.disturbances = @ + overlaps]
    /\ edit' = [edit EXCEPT ![e] =
         [at |-> "checked", own |-> pipelineBudget.edits + 1,
          found |-> IF definition = 0 THEN NoSlot ELSE FirstSlot]]
    /\ calm' = FALSE
    /\ UNCHANGED <<definition, slots, slotObject, restart, pass, task, atoms, summary,
                   cachedLoad>>

\* The row is locked until the transaction that wrote it ends.
RowIsFree == \A e \in PipelineEditor : edit[e].at # "saved"

\* What becomes of the slot, the atoms and the summary once a version is saved.
TidyUp(found, v) ==
    IF found = NoSlot THEN UNCHANGED <<slotObject, task, atoms, summary>>
    ELSE IF summary = "failure" THEN
         summary' = "none" /\ UNCHANGED <<slotObject, task, atoms>>
    ELSE /\ IF "paused" \in Options(v)
            THEN slotObject' = Stopped(slotObject, {found}) /\ task' = Aborted({found})
            ELSE UNCHANGED <<slotObject, task>>
         /\ IF "uncached" \in Options(v)
            THEN summary' = "none" /\ atoms' = 0
            ELSE IF "paused" \notin Options(v) /\ cachedLoad.there
            THEN summary' = "success" /\ atoms' = cachedLoad.atoms
            ELSE UNCHANGED <<summary, atoms>>

\* The definition is saved, and the pipeline restarted from what was saved; the
\* restart is not awaited.
SaveEdit(e) ==
    /\ edit[e].at = "checked" /\ RowIsFree
    /\ edit' = [edit EXCEPT ![e].at = "saved"]
    /\ TidyUp(edit[e].found, edit[e].own)
    /\ ReadToRestart(e, edit[e].own)
    /\ UNCHANGED <<definition, pass, cachedLoad, calm, pipelineBudget>>

\* deletePipelineDefinition.
DeletePipeline(e) ==
    /\ IsNextEditor(e)
    /\ definition # 0 /\ RowIsFree
    /\ Disturbance
    /\ edit' = [edit EXCEPT ![e].at = "saved"]
    /\ summary' = "none" /\ atoms' = 0
    /\ ReadToRestart(e, 0)
    /\ cachedLoad' = NoCachedLoad
    /\ calm' = FALSE
    /\ UNCHANGED <<definition, slotObject, pass, task>>

CommitEdit(e) ==
    /\ edit[e].at = "saved"
    /\ definition' = edit[e].own
    /\ edit' = [edit EXCEPT ![e] = NoEdit]
    /\ UNCHANGED <<slots, slotObject, restart, pass, task, atoms, summary, cachedLoad,
                   calm, pipelineBudget>>

\* The transaction is rolled back; what it did in memory stays.
RollBackEdit(e) ==
    /\ edit[e].at # "idle" /\ Disturbance
    /\ edit' = [edit EXCEPT ![e] = NoEdit]
    /\ UNCHANGED <<definition, slots, slotObject, restart, pass, task, atoms, summary,
                   cachedLoad, calm>>

\* clearPipelineCache.
ClearCache(e) ==
    /\ IsNextEditor(e) /\ definition # 0
    /\ Disturbance
    /\ cachedLoad' = NoCachedLoad
    /\ summary' = "none" /\ atoms' = 0
    /\ ReadToRestart(e, definition)
    /\ calm' = FALSE
    /\ UNCHANGED <<definition, edit, slotObject, pass, task>>

-----------------------------------------------------------------------------
\* performAllPipelineLoads: one load for each slot.
BeginPass ==
    /\ pass.at = "waiting"
    /\ pass' = [pass EXCEPT !.at = "loading", !.todo = ToSet(slots)]
    /\ UNCHANGED <<definition, edit, slots, slotObject, restart, task, atoms, summary,
                   cachedLoad, calm, pipelineBudget>>

\* The cached load is read, and applied if there was no load before.
StartLoad(l, s) ==
    LET cached == /\ cachedLoad.there
                  /\ "uncached" \notin Options(slotObject[s].definition) IN
    /\ pass.at = "loading" /\ s \in pass.todo
    /\ task[l] = NoTask /\ l = CHOOSE x \in LoadTask : task[x] = NoTask
    /\ pass' = [pass EXCEPT !.todo = @ \ {s}]
    /\ task' = [task EXCEPT ![l] = [NoTask EXCEPT
         !.at = "begun", !.slot = s, !.cached = cached,
         !.version = IF cached THEN cachedLoad.atoms ELSE 0]]
    /\ IF cached /\ summary = "none"
       THEN summary' = "success" /\ atoms' = cachedLoad.atoms
       ELSE UNCHANGED <<summary, atoms>>
    /\ UNCHANGED <<definition, edit, slots, slotObject, restart, cachedLoad, calm,
                   pipelineBudget>>

\* What a load leaves behind that did not succeed.
LoadIsBad(l) ==
    /\ summary' = "failure"
    /\ atoms' = IF task[l].cached THEN task[l].version
                ELSE IF "uncached" \in Options(slotObject[task[l].slot].definition) THEN 0
                ELSE atoms

\* performPipelineLoad takes the instance, unless the pipeline is paused.
RunInstance(l) ==
    LET slot == slotObject[task[l].slot] IN
    /\ task[l].at = "begun"
    /\ "paused" \notin Options(slot.definition)
    /\ IF slot.made = 0
       THEN LoadIsBad(l) /\ task' = [task EXCEPT ![l] = NoTask]
       ELSE /\ task' = [task EXCEPT ![l].at = "fetching", ![l].made = slot.made,
                                    ![l].aborted = slot.stopped, ![l].held = TRUE]
            /\ UNCHANGED <<summary, atoms>>
    /\ UNCHANGED <<definition, edit, slots, slotObject, restart, pass, cachedLoad,
                   calm, pipelineBudget>>

\* A paused pipeline is given its cached load, which is then cached again.
SkipPaused(l) ==
    /\ task[l].at = "begun"
    /\ "paused" \in Options(slotObject[task[l].slot].definition)
    /\ summary' = "success"
    /\ IF task[l].cached
       THEN /\ atoms' = task[l].version
            /\ cachedLoad' = [there |-> TRUE, atoms |-> task[l].version]
       ELSE UNCHANGED <<atoms, cachedLoad>>
    /\ task' = [task EXCEPT ![l] = NoTask]
    /\ UNCHANGED <<definition, edit, slots, slotObject, restart, pass, calm,
                   pipelineBudget>>

\* The data are there; the load of an instance that was stopped ends in AbortError.
FetchAtoms(l) ==
    /\ task[l].at = "fetching"
    /\ task' = [task EXCEPT ![l] = IF @.aborted THEN NoTask ELSE [@ EXCEPT !.at = "saving"]]
    /\ UNCHANGED <<definition, edit, slots, slotObject, restart, pass, atoms, summary,
                   cachedLoad, calm, pipelineBudget>>

\* Variant: atoms are only saved where there are none.
SaveFirstAtoms(l) ==
    /\ task[l].at = "saving"
    /\ atoms' = IF atoms = 0 THEN task[l].made ELSE atoms
    /\ task' = [task EXCEPT ![l] = IF @.orphan THEN NoTask ELSE [@ EXCEPT !.at = "reporting"]]
    /\ UNCHANGED <<definition, edit, slots, slotObject, restart, pass, summary,
                   cachedLoad, calm, pipelineBudget>>

\* db.clear, db.save and markAsLoaded.
SaveAtoms(l) ==
    /\ task[l].at = "saving"
    /\ atoms' = task[l].made
    /\ task' = [task EXCEPT ![l] = IF @.orphan THEN NoTask ELSE [@ EXCEPT !.at = "reporting"]]
    /\ UNCHANGED <<definition, edit, slots, slotObject, restart, pass, summary,
                   cachedLoad, calm, pipelineBudget>>

\* The summary is saved, and the atoms of the moment cached with it.
ReportLoad(l) ==
    /\ task[l].at = "reporting"
    /\ summary' = "success"
    /\ cachedLoad' = [there |-> TRUE, atoms |-> atoms]
    /\ task' = [task EXCEPT ![l] = NoTask]
    /\ UNCHANGED <<definition, edit, slots, slotObject, restart, pass, atoms, calm,
                   pipelineBudget>>

\* The provider, a query or the update of the Semaphore groups fails.
LoadFails(l) ==
    /\ task[l].at # "idle" /\ Disturbance
    /\ IF task[l].orphan \/ task[l].at = "begun" THEN UNCHANGED <<summary, atoms>>
                                                 ELSE LoadIsBad(l)
    /\ task' = [task EXCEPT ![l] = NoTask]
    /\ UNCHANGED <<definition, edit, slots, slotObject, restart, pass, cachedLoad,
                   calm>>

\* PIPELINE_LOAD_TIMEOUT_MS: the loop goes on, and so does the load.
LoadTimesOut(l) ==
    /\ task[l].at \in {"fetching", "saving"} /\ ~ task[l].orphan /\ Disturbance
    /\ LoadIsBad(l)
    /\ task' = [task EXCEPT ![l].orphan = TRUE]
    /\ UNCHANGED <<definition, edit, slots, slotObject, restart, pass, cachedLoad,
                   calm>>

-----------------------------------------------------------------------------
LoadsAreDone == /\ pass.at = "loading" /\ pass.todo = {}
                /\ \A l \in LoadTask : task[l].at = "idle" \/ task[l].orphan

\* loadAndInstantiatePipelines reads the definitions, and stops every instance.
ReadDefinitions ==
    /\ LoadsAreDone
    /\ definition # 0 /\ slots = <<>> => FreshSlots # {}
    /\ pass' = [at |-> "refreshing", todo |-> {}, version |-> definition,
                slot |-> IF definition = 0 THEN NoSlot
                         ELSE IF slots = <<>> THEN NewSlot ELSE FirstSlot]
    /\ slotObject' = IF definition # 0 /\ slots = <<>>
                     THEN [slotObject EXCEPT ![NewSlot] = EmptySlot]
                     ELSE Stopped(slotObject, ToSet(slots))
    /\ task' = Aborted(ToSet(slots))
    /\ calm' = \A e \in PipelineEditor : EditorRests(e)
    /\ UNCHANGED <<definition, edit, slots, restart, atoms, summary, cachedLoad,
                   pipelineBudget>>

\* The owner is read, and the slot, old or new, given the definition.
AssignDefinition ==
    /\ pass.at = "refreshing"
    /\ pass' = [pass EXCEPT !.at = "starting"]
    /\ slotObject' = IF pass.slot = NoSlot THEN slotObject
                     ELSE [slotObject EXCEPT ![pass.slot].definition = pass.version]
    /\ UNCHANGED <<definition, edit, slots, restart, task, atoms, summary, cachedLoad,
                   calm, pipelineBudget>>

\* Variant: the slots that others made meanwhile are kept.
ReplaceSlotsOf(list) ==
    IF list = <<>> \/ definition = 0
    THEN UNCHANGED <<slots, restart>> /\ pass' = Waiting
    ELSE /\ slots' = list
         /\ pass' = [Waiting EXCEPT !.at = "restarting"]
         /\ restart' = [restart EXCEPT !["loop"] = [at |-> "owner", slot |-> list[1],
                                                   version |-> definition]]

\* What pipelineSlots becomes, and what the loop restarts then: it reads the
\* definition of each slot once more.
ReplaceSlots(list) ==
    IF list = <<>> \/ definition = 0
    THEN slots' = <<>> /\ pass' = Waiting /\ UNCHANGED restart
    ELSE /\ slots' = list
         /\ pass' = [Waiting EXCEPT !.at = "restarting"]
         /\ restart' = [restart EXCEPT !["loop"] = [at |-> "owner", slot |-> list[1],
                                                   version |-> definition]]

\* The instance is there, or its start failed, which is logged.
InstallSlots ==
    LET s == pass.slot IN
    /\ pass.at = "starting"
    /\ IF s = NoSlot
       THEN ReplaceSlots(<<>>) /\ UNCHANGED <<slotObject, task, calm, pipelineBudget>>
       ELSE /\ ReplaceSlots(<<s>>)
            /\ \/ /\ slotObject' = [slotObject EXCEPT ![s].made = pass.version,
                                                      ![s].stopped = FALSE]
                  /\ task' = Released(s)
                  /\ UNCHANGED <<calm, pipelineBudget>>
               \/ Disturbance /\ calm' = FALSE /\ UNCHANGED <<slotObject, task>>
    /\ UNCHANGED <<definition, edit, atoms, summary, cachedLoad>>

\* No try surrounds these queries: if one fails, no further pass is scheduled,
\* although the comment on the class has the algorithm go back to step one.
RefreshFails ==
    /\ LoadsAreDone \/ pass.at = "refreshing"
    /\ UseBudget("refresh", MaxRefreshFaults)
    /\ pass' = [Waiting EXCEPT !.at = "dead"]
    /\ UNCHANGED <<definition, edit, slots, slotObject, restart, task, atoms, summary,
                   cachedLoad, calm>>

LoadGoesOn(l) == \/ \E s \in SlotObject : StartLoad(l, s)
                 \/ RunInstance(l) \/ SkipPaused(l) \/ FetchAtoms(l) \/ SaveAtoms(l)
                 \/ ReportLoad(l)
RestartGoesOn(r) == StopForRestart(r) \/ FinishRestart(r)
PassGoesOn == BeginPass \/ ReadDefinitions \/ AssignDefinition \/ InstallSlots

PipelineNext ==
    \/ \E e \in PipelineEditor :
         \/ CheckEdit(e) \/ SaveEdit(e) \/ DeletePipeline(e) \/ CommitEdit(e)
         \/ RollBackEdit(e) \/ ClearCache(e)
    \/ \E r \in Restarter : StopForRestart(r) \/ FinishRestart(r) \/ RestartFails(r)
    \/ \E l \in LoadTask :
         \/ \E s \in SlotObject : StartLoad(l, s)
         \/ RunInstance(l) \/ SkipPaused(l) \/ FetchAtoms(l) \/ SaveAtoms(l)
         \/ ReportLoad(l) \/ LoadFails(l) \/ LoadTimesOut(l)
    \/ BeginPass \/ ReadDefinitions \/ AssignDefinition \/ InstallSlots \/ RefreshFails

PipelineSpec == PipelineInit /\ [][PipelineNext]_pipelineVars

-----------------------------------------------------------------------------
SlotIsCurrent ==
    IF definition = 0 THEN slots = <<>>
    ELSE /\ Len(slots) = 1
         /\ slotObject[FirstSlot].definition = definition
         /\ slotObject[FirstSlot].made = definition

(* One pass of the loop repairs what overlapping restarts, deletions and    *)
(* transactions that were rolled back left in memory: there is one slot for *)
(* a definition, with an instance of it that runs, and none without.        *)
LoopRepairs ==
    calm /\ pass.at \in {"waiting", "loading"} =>
       /\ SlotIsCurrent
       /\ definition # 0 => ~ slotObject[FirstSlot].stopped

PipelineIsSettled ==
    \/ pass.at = "dead"
    \/ /\ SlotIsCurrent
       /\ definition = 0 \/ "paused" \in Options(definition) \/ atoms = definition

(* Once editors rest, and while the loop goes on, the slot and, unless it   *)
(* is paused, the atoms of a pipeline are those of its committed            *)
(* definition, whatever loads that timed out, failed or were aborted write  *)
(* meanwhile.                                                               *)
PipelineSettles == <>[]PipelineIsSettled
=============================================================================
