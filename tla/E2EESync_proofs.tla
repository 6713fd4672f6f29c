-------------------------- MODULE E2EESync_proofs --------------------------
(***************************************************************************)
(* Proofs about E2EESync, for any tabs, browsers, objects and bounds.      *)
(***************************************************************************)
EXTENDS E2EESync, TLAPS

(* The phases in which a tab holds a version that the server has stored.   *)
Holding == {"loaded", "merged", "saved", "noted", "accepted", "acknowledged"}

(* The phases in which a tab holds no version at all.                      *)
Pausing == {"idle", "stalled", "download", "feeds", "refused"}

(* What a tab holds between the server's answer and its use is genuine:    *)
(* sync_status and AppState are filled from nothing else.                  *)
HeldIsGenuine == \A t \in Tab : job[t].at \in Holding => Genuine(job[t].ver)

-----------------------------------------------------------------------------
(* Types of the operators: what each returns, and the fields of records. *)

(* addAll yields a set of items. *)
LEMMA UpsertType == \A S, T \in SUBSET Item : Upsert(S, T) \in SUBSET Item
  BY DEF Upsert, Ids

(* A phase, a version and a content make a job. *)
LEMMA WorkType ==
  \A p \in Phase, v \in Version, S \in SUBSET Item : Work(p, v, S) \in Job
  BY DEF Work, Job

(* So does a phase alone. *)
LEMMA EmptyType == \A p \in Phase : Empty(p) \in Job
<1>1. [rev |-> 0, items |-> {}] \in Version
  BY DEF Version
<1>2. QED
  BY <1>1, WorkType DEF Empty

(* The server's history stays a nonempty sequence of contents. *)
LEMMA AppendContent ==
  ASSUME NEW h \in Seq(SUBSET Item), NEW S \in SUBSET Item
  PROVE  Append(h, S) \in Seq(SUBSET Item) /\ Append(h, S) # <<>>
<1>1. Append(h, S) \in Seq(SUBSET Item) /\ Len(Append(h, S)) = Len(h) + 1
  OBVIOUS
<1>2. Len(h) + 1 # 0
  OBVIOUS
<1>3. QED
  BY <1>1, <1>2

(* What a job is made of. *)
LEMMA JobFields ==
  \A j \in Job : j.at \in Phase /\ j.ver \in Version /\ j.new \in SUBSET Item
  BY DEF Job

(* What a version is made of. *)
LEMMA VersionFields == \A v \in Version : v.rev \in Nat /\ v.items \in SUBSET Item
  BY DEF Version

(* A version known after login has a revision. *)
LEMMA KnownFields == \A v \in Known : v.rev \in Nat \ {0} /\ v.items \in SUBSET Item
  BY DEF Known

(* The flags and phases the actions name are flags and phases. *)
LEMMA Names ==
  /\ "downloadedPCDs" \in Flag /\ "loadedIssuedPCDs" \in Flag
  /\ "completedFirstSync" \in Flag /\ "extraDownloadRequested" \in Flag
  /\ "extraSubscriptionFetchRequested" \in Flag
  /\ "idle" \in Phase /\ "stalled" \in Phase /\ "download" \in Phase
  /\ "loaded" \in Phase /\ "merged" \in Phase /\ "saved" \in Phase
  /\ "noted" \in Phase /\ "feeds" \in Phase /\ "upload" \in Phase
  /\ "accepted" \in Phase /\ "refused" \in Phase /\ "acknowledged" \in Phase
  BY DEF Flag, Phase

(* What an EXCEPT with a field in its path makes of a job, and of a disk. *)
LEMMA MoveJob ==
  ASSUME job \in [Tab -> Job], NEW t \in Tab, NEW p \in Phase
  PROVE  /\ [job EXCEPT ![t].at = p]
              = [job EXCEPT ![t] = Work(p, job[t].ver, job[t].new)]
         /\ [job EXCEPT ![t].at = p] \in [Tab -> Job]
<1>1. job[t] \in Job
  OBVIOUS
<1>2. [job[t] EXCEPT !.at = p] = Work(p, job[t].ver, job[t].new)
  BY <1>1 DEF Job, Work
<1>3. Work(p, job[t].ver, job[t].new) \in Job
  BY <1>1 DEF Job, Work
<1>4. QED
  BY <1>2, <1>3

\* A browser that stores its collection keeps its sync status.
LEMMA SavePCDs ==
  ASSUME disk \in [Device -> Saved], NEW d \in Device, NEW S \in SUBSET Item
  PROVE  /\ [disk EXCEPT ![d].pcds = S]
              = [disk EXCEPT ![d] = [pcds |-> S, status |-> disk[d].status]]
         /\ [disk EXCEPT ![d].pcds = S] \in [Device -> Saved]
<1>1. disk[d] \in Saved
  OBVIOUS
<1>2. [disk[d] EXCEPT !.pcds = S] = [pcds |-> S, status |-> disk[d].status]
  BY <1>1 DEF Saved
<1>3. [pcds |-> S, status |-> disk[d].status] \in Saved
  BY <1>1 DEF Saved
<1>4. QED
  BY <1>2, <1>3

\* A browser that stores its sync status keeps its collection.
LEMMA SaveStatus ==
  ASSUME disk \in [Device -> Saved], NEW d \in Device, NEW v \in Known
  PROVE  /\ [disk EXCEPT ![d].status = v]
              = [disk EXCEPT ![d] = [pcds |-> disk[d].pcds, status |-> v]]
         /\ [disk EXCEPT ![d].status = v] \in [Device -> Saved]
<1>1. disk[d] \in Saved
  OBVIOUS
<1>2. [disk[d] EXCEPT !.status = v] = [pcds |-> disk[d].pcds, status |-> v]
  BY <1>1 DEF Saved
<1>3. [pcds |-> disk[d].pcds, status |-> v] \in Saved
  BY <1>1 DEF Saved
<1>4. QED
  BY <1>2, <1>3

(* A version that the server has stored is one a tab may remember. *)
LEMMA HeldType ==
  ASSUME TypeOK, HeldIsGenuine, NEW t \in Tab, job[t].at \in Holding
  PROVE  job[t].ver \in Known
<1>1. job[t].ver \in Version /\ job[t].ver.rev # 0
  BY JobFields DEF TypeOK, HeldIsGenuine, Genuine
<1>2. QED
  BY <1>1 DEF Version, Known

-----------------------------------------------------------------------------
(* Type correctness. *)

(* Everything has its type after the login. *)
LEMMA InitType == Init => TypeOK
<1> SUFFICES ASSUME Init PROVE TypeOK
  OBVIOUS
<1>1. Original \subseteq Item
  BY SyncAssumption DEF SyncAssumption
<1>2. Empty("idle") \in Job
  BY EmptyType, Names
<1>3. history \in Seq(SUBSET Item) /\ history # <<>>
  BY <1>1 DEF Init
<1>4. [rev |-> 1, items |-> Original] \in Known
  BY <1>1 DEF Known
<1>5. disk \in [Device -> Saved]
  BY <1>1, <1>4 DEF Init, Saved
<1>6. edits \in 0..MaxEdits /\ reloads \in 0..MaxReloads /\ faults \in 0..MaxFaults
  BY SyncAssumption DEF Init, SyncAssumption
<1>7. QED
  BY <1>1, <1>2, <1>3, <1>4, <1>5, <1>6 DEF Init, TypeOK

(* Every step keeps the types: one step of the proof per action. *)
LEMMA StepType ==
  ASSUME TypeOK, HeldIsGenuine, [Next]_vars
  PROVE  TypeOK'
<1> USE SyncAssumption, UpsertType, EmptyType, Names DEF SyncAssumption, TypeOK, budget
<1>1. ASSUME NEW t \in Tab, SkipSync(t) PROVE TypeOK'
  <2>1. due' \in [Tab -> BOOLEAN] /\ skipped' \in [Tab -> BOOLEAN]
    BY <1>1 DEF SkipSync
  <2>2. QED
    BY <1>1, <2>1 DEF SkipSync
<1>2. ASSUME NEW t \in Tab, StartDownload(t) PROVE TypeOK'
  <2>1. job' \in [Tab -> Job]
    BY <1>2 DEF StartDownload
  <2>2. due' \in [Tab -> BOOLEAN] /\ skipped' \in [Tab -> BOOLEAN]
    BY <1>2 DEF StartDownload
  <2>3. QED
    BY <1>2, <2>1, <2>2 DEF StartDownload
<1>3. ASSUME NEW t \in Tab, StartFeeds(t) PROVE TypeOK'
  <2>1. job' \in [Tab -> Job]
    BY <1>3 DEF StartFeeds
  <2>2. QED
    BY <1>3, <2>1 DEF StartFeeds
<1>4. ASSUME NEW t \in Tab, StartUpload(t) PROVE TypeOK'
  <2>1. [rev |-> known[t].rev, items |-> mem[t]] \in Version
    BY KnownFields DEF Version
  <2>2. job' \in [Tab -> Job]
    BY <1>4, <2>1, WorkType DEF StartUpload
  <2>3. due' \in [Tab -> BOOLEAN] /\ skipped' \in [Tab -> BOOLEAN]
    BY <1>4 DEF StartUpload
  <2>4. QED
    BY <1>4, <2>2, <2>3 DEF StartUpload
<1>5. ASSUME NEW t \in Tab, Settle(t) PROVE TypeOK'
  <2>1. flags' \in [Tab -> SUBSET Flag]
    BY <1>5 DEF Settle
  <2>2. job' \in [Tab -> Job]
    BY <1>5 DEF Settle
  <2>3. due' \in [Tab -> BOOLEAN] /\ skipped' \in [Tab -> BOOLEAN]
    BY <1>5 DEF Settle
  <2>4. QED
    BY <1>5, <2>1, <2>2, <2>3 DEF Settle
<1>6. ASSUME NEW t \in Tab, ServeLoad(t) PROVE TypeOK'
  <2>1. [rev |-> Len(history), items |-> history[Len(history)]] \in Version
    BY DEF Version
  <2>2. job' \in [Tab -> Job]
    BY <1>6, <2>1, WorkType DEF ServeLoad
  <2>3. QED
    BY <1>6, <2>2 DEF ServeLoad
<1>7. ASSUME NEW t \in Tab, ServeUnchanged(t) PROVE TypeOK'
  <2>1. flags' \in [Tab -> SUBSET Flag]
    BY <1>7 DEF ServeUnchanged, EndDownload, FinishWithChanges
  <2>2. job' \in [Tab -> Job]
    BY <1>7 DEF ServeUnchanged, EndDownload, FinishWithChanges
  <2>3. due' \in [Tab -> BOOLEAN] /\ skipped' \in [Tab -> BOOLEAN]
    BY <1>7 DEF ServeUnchanged, EndDownload, FinishWithChanges
  <2>4. QED
    BY <1>7, <2>1, <2>2, <2>3 DEF ServeUnchanged, EndDownload, FinishWithChanges
<1>8. ASSUME NEW t \in Tab, MergeDownload(t) PROVE TypeOK'
  <2>1. job[t].ver \in Version /\ job[t].new \in SUBSET Item
    BY JobFields
  <2>2. job[t].ver.items \in SUBSET Item
    BY <2>1, VersionFields
  <2>3. job' \in [Tab -> Job]
    BY <1>8, <2>1, <2>2, WorkType DEF MergeDownload, Merge
  <2>4. QED
    BY <1>8, <2>3 DEF MergeDownload
<1>9. ASSUME NEW t \in Tab, SaveDownload(t) PROVE TypeOK'
  <2>1. job[t].ver \in Version /\ job[t].new \in SUBSET Item
    BY JobFields
  <2>2. DeviceOf[t] \in Device
    OBVIOUS
  <2>3. [disk EXCEPT ![DeviceOf[t]].pcds = job[t].new] \in [Device -> Saved]
    BY <2>1, <2>2, SavePCDs
  <2>4. disk' \in [Device -> Saved]
    BY <1>9, <2>3 DEF SaveDownload
  <2>5. [job EXCEPT ![t].at = "saved"] \in [Tab -> Job]
    BY MoveJob
  <2>6. job' \in [Tab -> Job]
    BY <1>9, <2>5 DEF SaveDownload
  <2>7. QED
    BY <1>9, <2>4, <2>6 DEF SaveDownload
<1>10. ASSUME NEW t \in Tab, NoteDownload(t) PROVE TypeOK'
  <2>1. job[t].ver \in Known
    BY <1>10, HeldType DEF NoteDownload, Holding
  <2>2. DeviceOf[t] \in Device
    OBVIOUS
  <2>3. [disk EXCEPT ![DeviceOf[t]].status = job[t].ver] \in [Device -> Saved]
    BY <2>1, <2>2, SaveStatus
  <2>4. disk' \in [Device -> Saved]
    BY <1>10, <2>3 DEF NoteDownload
  <2>5. [job EXCEPT ![t].at = "noted"] \in [Tab -> Job]
    BY MoveJob
  <2>6. job' \in [Tab -> Job]
    BY <1>10, <2>5 DEF NoteDownload
  <2>7. QED
    BY <1>10, <2>4, <2>6 DEF NoteDownload
<1>11. ASSUME NEW t \in Tab, ApplyDownload(t) PROVE TypeOK'
  <2>1. job[t].ver \in Known
    BY <1>11, HeldType DEF ApplyDownload, EndDownload, FinishWithChanges, Holding
  <2>2. job[t].ver \in Version /\ job[t].new \in SUBSET Item
    BY JobFields
  <2>3. mem' \in [Tab -> SUBSET Item]
    BY <1>11, <2>2 DEF ApplyDownload, EndDownload, FinishWithChanges
  <2>4. known' \in [Tab -> Known]
    BY <1>11, <2>1 DEF ApplyDownload, EndDownload, FinishWithChanges
  <2>5. flags' \in [Tab -> SUBSET Flag]
    BY <1>11 DEF ApplyDownload, EndDownload, FinishWithChanges
  <2>6. job' \in [Tab -> Job]
    BY <1>11 DEF ApplyDownload, EndDownload, FinishWithChanges
  <2>7. due' \in [Tab -> BOOLEAN] /\ skipped' \in [Tab -> BOOLEAN]
    BY <1>11 DEF ApplyDownload, EndDownload, FinishWithChanges
  <2>8. QED
    BY <1>11, <2>3, <2>4, <2>5, <2>6, <2>7 DEF ApplyDownload, EndDownload, FinishWithChanges
<1>12. ASSUME NEW t \in Tab, FeedsReturn(t) PROVE TypeOK'
  <2>1. Upsert(mem[t], Issued) \in SUBSET Item
    OBVIOUS
  <2>2. DeviceOf[t] \in Device
    OBVIOUS
  <2>3. [disk EXCEPT ![DeviceOf[t]].pcds = Upsert(mem[t], Issued)] \in [Device -> Saved]
    BY <2>1, <2>2, SavePCDs
  <2>4. mem' \in [Tab -> SUBSET Item]
    BY <1>12, <2>1 DEF FeedsReturn, EndFeeds, FinishWithChanges
  <2>5. disk' \in [Device -> Saved]
    BY <1>12, <2>3 DEF FeedsReturn, EndFeeds, FinishWithChanges
  <2>6. flags' \in [Tab -> SUBSET Flag]
    BY <1>12 DEF FeedsReturn, EndFeeds, FinishWithChanges
  <2>7. job' \in [Tab -> Job]
    BY <1>12 DEF FeedsReturn, EndFeeds, FinishWithChanges
  <2>8. due' \in [Tab -> BOOLEAN] /\ skipped' \in [Tab -> BOOLEAN]
    BY <1>12 DEF FeedsReturn, EndFeeds, FinishWithChanges
  <2>9. QED
    BY <1>12, <2>4, <2>5, <2>6, <2>7, <2>8 DEF FeedsReturn, EndFeeds, FinishWithChanges
<1>13. ASSUME NEW t \in Tab, ServeSave(t) PROVE TypeOK'
  <2>1. job[t].ver \in Version /\ job[t].new \in SUBSET Item
    BY JobFields
  <2>2. job[t].ver.items \in SUBSET Item
    BY <2>1, VersionFields
  <2>3. /\ Append(history, job[t].ver.items) \in Seq(SUBSET Item)
        /\ Append(history, job[t].ver.items) # <<>>
    BY <2>2, AppendContent
  <2>4. history' \in Seq(SUBSET Item) /\ history' # <<>>
    BY <1>13, <2>3 DEF ServeSave
  <2>5. [rev |-> Len(history) + 1, items |-> job[t].ver.items] \in Version
    BY <2>2 DEF Version
  <2>6. job' \in [Tab -> Job]
    BY <1>13, <2>5, WorkType DEF ServeSave
  <2>7. QED
    BY <1>13, <2>4, <2>6 DEF ServeSave
<1>14. ASSUME NEW t \in Tab, NoteUpload(t) PROVE TypeOK'
  <2>1. job[t].ver \in Known
    BY <1>14, HeldType DEF NoteUpload, Holding
  <2>2. DeviceOf[t] \in Device
    OBVIOUS
  <2>3. [disk EXCEPT ![DeviceOf[t]].status = job[t].ver] \in [Device -> Saved]
    BY <2>1, <2>2, SaveStatus
  <2>4. disk' \in [Device -> Saved]
    BY <1>14, <2>3 DEF NoteUpload
  <2>5. [job EXCEPT ![t].at = "acknowledged"] \in [Tab -> Job]
    BY MoveJob
  <2>6. job' \in [Tab -> Job]
    BY <1>14, <2>5 DEF NoteUpload
  <2>7. QED
    BY <1>14, <2>4, <2>6 DEF NoteUpload
<1>15. ASSUME NEW t \in Tab, ApplyUpload(t) PROVE TypeOK'
  <2>1. job[t].ver \in Known
    BY <1>15, HeldType DEF ApplyUpload, FinishWithChanges, Holding
  <2>2. known' \in [Tab -> Known]
    BY <1>15, <2>1 DEF ApplyUpload, FinishWithChanges
  <2>3. job' \in [Tab -> Job]
    BY <1>15 DEF ApplyUpload, FinishWithChanges
  <2>4. due' \in [Tab -> BOOLEAN] /\ skipped' \in [Tab -> BOOLEAN]
    BY <1>15 DEF ApplyUpload, FinishWithChanges
  <2>5. QED
    BY <1>15, <2>2, <2>3, <2>4 DEF ApplyUpload, FinishWithChanges
<1>16. ASSUME NEW t \in Tab, UploadRefused(t) PROVE TypeOK'
  <2>1. flags' \in [Tab -> SUBSET Flag]
    BY <1>16 DEF UploadRefused, FinishWithChanges, FinishWithoutChanges
  <2>2. job' \in [Tab -> Job]
    BY <1>16 DEF UploadRefused, FinishWithChanges, FinishWithoutChanges
  <2>3. due' \in [Tab -> BOOLEAN] /\ skipped' \in [Tab -> BOOLEAN]
    BY <1>16 DEF UploadRefused, FinishWithChanges, FinishWithoutChanges
  <2>4. QED
    BY <1>16, <2>1, <2>2, <2>3 DEF UploadRefused, FinishWithChanges, FinishWithoutChanges
<1>17. ASSUME NEW t \in Tab, DownloadFails(t) PROVE TypeOK'
  <2>1. flags' \in [Tab -> SUBSET Flag]
    BY <1>17 DEF DownloadFails, EndDownload, FinishWithChanges
  <2>2. job' \in [Tab -> Job]
    BY <1>17 DEF DownloadFails, EndDownload, FinishWithChanges
  <2>3. due' \in [Tab -> BOOLEAN] /\ skipped' \in [Tab -> BOOLEAN]
    BY <1>17 DEF DownloadFails, EndDownload, FinishWithChanges
  <2>4. edits' \in 0..MaxEdits /\ reloads' \in 0..MaxReloads /\ faults' \in 0..MaxFaults
    BY <1>17 DEF DownloadFails, EndDownload, FinishWithChanges
  <2>5. QED
    BY <1>17, <2>1, <2>2, <2>3, <2>4 DEF DownloadFails, EndDownload, FinishWithChanges
<1>18. ASSUME NEW t \in Tab, FeedsFail(t) PROVE TypeOK'
  <2>1. flags' \in [Tab -> SUBSET Flag]
    BY <1>18 DEF FeedsFail, EndFeeds, FinishWithChanges
  <2>2. job' \in [Tab -> Job]
    BY <1>18 DEF FeedsFail, EndFeeds, FinishWithChanges
  <2>3. due' \in [Tab -> BOOLEAN] /\ skipped' \in [Tab -> BOOLEAN]
    BY <1>18 DEF FeedsFail, EndFeeds, FinishWithChanges
  <2>4. edits' \in 0..MaxEdits /\ reloads' \in 0..MaxReloads /\ faults' \in 0..MaxFaults
    BY <1>18 DEF FeedsFail, EndFeeds, FinishWithChanges
  <2>5. QED
    BY <1>18, <2>1, <2>2, <2>3, <2>4 DEF FeedsFail, EndFeeds, FinishWithChanges
<1>19. ASSUME NEW t \in Tab, UploadFails(t) PROVE TypeOK'
  <2>1. job[t].ver \in Version /\ job[t].new \in SUBSET Item
    BY JobFields
  <2>2. orphans' \subseteq Version
    BY <1>19, <2>1 DEF UploadFails, FinishWithChanges, FinishWithoutChanges
  <2>3. flags' \in [Tab -> SUBSET Flag]
    BY <1>19 DEF UploadFails, FinishWithChanges, FinishWithoutChanges
  <2>4. job' \in [Tab -> Job]
    BY <1>19 DEF UploadFails, FinishWithChanges, FinishWithoutChanges
  <2>5. due' \in [Tab -> BOOLEAN] /\ skipped' \in [Tab -> BOOLEAN]
    BY <1>19 DEF UploadFails, FinishWithChanges, FinishWithoutChanges
  <2>6. edits' \in 0..MaxEdits /\ reloads' \in 0..MaxReloads /\ faults' \in 0..MaxFaults
    BY <1>19 DEF UploadFails, FinishWithChanges, FinishWithoutChanges
  <2>7. QED
    BY <1>19, <2>2, <2>3, <2>4, <2>5, <2>6 DEF UploadFails, FinishWithChanges, FinishWithoutChanges
<1>20. ASSUME NEW t \in Tab, ServeSaveTwice(t) PROVE TypeOK'
  <2>1. job[t].ver \in Version /\ job[t].new \in SUBSET Item
    BY JobFields
  <2>2. job[t].ver.items \in SUBSET Item
    BY <2>1, VersionFields
  <2>3. history' \in Seq(SUBSET Item) /\ history' # <<>>
    BY <1>20, <2>2, AppendContent DEF ServeSaveTwice
  <2>4. job' \in [Tab -> Job]
    BY <1>20 DEF ServeSaveTwice
  <2>5. edits' \in 0..MaxEdits /\ reloads' \in 0..MaxReloads /\ faults' \in 0..MaxFaults
    BY <1>20 DEF ServeSaveTwice
  <2>6. QED
    BY <1>20, <2>3, <2>4, <2>5 DEF ServeSaveTwice
<1>21. ASSUME NEW t \in Tab, Poll(t) PROVE TypeOK'
  <2>1. flags' \in [Tab -> SUBSET Flag]
    BY <1>21 DEF Poll
  <2>2. due' \in [Tab -> BOOLEAN] /\ skipped' \in [Tab -> BOOLEAN]
    BY <1>21 DEF Poll
  <2>3. QED
    BY <1>21, <2>1, <2>2 DEF Poll
<1>22. ASSUME NEW t \in Tab, Reload(t) PROVE TypeOK'
  <2>1. job[t].ver \in Version /\ job[t].new \in SUBSET Item
    BY JobFields
  <2>2. disk[DeviceOf[t]] \in Saved
    OBVIOUS
  <2>3. orphans' \subseteq Version
    BY <1>22, <2>1 DEF Reload, FinishWithChanges
  <2>4. mem' \in [Tab -> SUBSET Item]
    BY <1>22, <2>2 DEF Reload, FinishWithChanges, Saved
  <2>5. known' \in [Tab -> Known]
    BY <1>22, <2>2 DEF Reload, FinishWithChanges, Saved
  <2>6. flags' \in [Tab -> SUBSET Flag]
    BY <1>22 DEF Reload, FinishWithChanges
  <2>7. job' \in [Tab -> Job]
    BY <1>22 DEF Reload, FinishWithChanges
  <2>8. due' \in [Tab -> BOOLEAN] /\ skipped' \in [Tab -> BOOLEAN]
    BY <1>22 DEF Reload, FinishWithChanges
  <2>9. edits' \in 0..MaxEdits /\ reloads' \in 0..MaxReloads /\ faults' \in 0..MaxFaults
    BY <1>22 DEF Reload, FinishWithChanges
  <2>10. QED
    BY <1>22, <2>3, <2>4, <2>5, <2>6, <2>7, <2>8, <2>9 DEF Reload, FinishWithChanges
<1>23. ASSUME NEW t \in Tab, NEW i \in Item, AddItem(t, i) PROVE TypeOK'
  <2>1. Upsert(mem[t], {i}) \in SUBSET Item
    OBVIOUS
  <2>2. DeviceOf[t] \in Device
    OBVIOUS
  <2>3. [disk EXCEPT ![DeviceOf[t]].pcds = Upsert(mem[t], {i})] \in [Device -> Saved]
    BY <2>1, <2>2, SavePCDs
  <2>4. mem' \in [Tab -> SUBSET Item]
    BY <1>23, <2>1 DEF AddItem, Edit
  <2>5. disk' \in [Device -> Saved]
    BY <1>23, <2>3 DEF AddItem, Edit
  <2>6. due' \in [Tab -> BOOLEAN] /\ skipped' \in [Tab -> BOOLEAN]
    BY <1>23 DEF AddItem, Edit
  <2>7. edits' \in 0..MaxEdits /\ reloads' \in 0..MaxReloads /\ faults' \in 0..MaxFaults
    BY <1>23 DEF AddItem, Edit
  <2>8. QED
    BY <1>23, <2>4, <2>5, <2>6, <2>7 DEF AddItem, Edit
<1>24. ASSUME NEW t \in Tab, NEW i \in Item, RemoveItem(t, i) PROVE TypeOK'
  <2>1. DeviceOf[t] \in Device
    OBVIOUS
  <2>2. mem[t] \ {i} \in SUBSET Item
    OBVIOUS
  <2>3. [disk EXCEPT ![DeviceOf[t]].pcds = mem[t] \ {i}] \in [Device -> Saved]
    BY <2>1, <2>2, SavePCDs
  <2>4. mem' \in [Tab -> SUBSET Item]
    BY <1>24, <2>2 DEF RemoveItem, Edit
  <2>5. disk' \in [Device -> Saved]
    BY <1>24, <2>3 DEF RemoveItem, Edit
  <2>6. due' \in [Tab -> BOOLEAN] /\ skipped' \in [Tab -> BOOLEAN]
    BY <1>24 DEF RemoveItem, Edit
  <2>7. edits' \in 0..MaxEdits /\ reloads' \in 0..MaxReloads /\ faults' \in 0..MaxFaults
    BY <1>24 DEF RemoveItem, Edit
  <2>8. removed' \subseteq Id
    BY <1>24 DEF RemoveItem, Edit
  <2>9. QED
    BY <1>24, <2>4, <2>5, <2>6, <2>7, <2>8 DEF RemoveItem, Edit
<1>25. ASSUME NEW r \in orphans, ServeOrphan(r) PROVE TypeOK'
  <2>1. r.items \in SUBSET Item
    BY VersionFields
  <2>2. history' \in Seq(SUBSET Item) /\ history' # <<>>
    BY <1>25, <2>1, AppendContent DEF ServeOrphan, clientVars
  <2>3. QED
    BY <1>25, <2>2 DEF ServeOrphan, clientVars
<1>26. CASE UNCHANGED vars
  BY <1>26 DEF vars
<1>27. QED
  BY <1>1, <1>2, <1>3, <1>4, <1>5, <1>6, <1>7, <1>8, <1>9, <1>10, <1>11, <1>12, <1>13, <1>14, <1>15, <1>16, <1>17, <1>18, <1>19, <1>20, <1>21, <1>22, <1>23, <1>24, <1>25, <1>26 DEF Next, SyncStep, Fault

-----------------------------------------------------------------------------
(* Which actions change what. *)

(* AppState's revision and hash change in three ways. *)
LEMMA KnownChange ==
  ASSUME [Next]_vars, known' # known
  PROVE  \E t \in Tab : ApplyDownload(t) \/ ApplyUpload(t) \/ Reload(t)
  BY DEF Next, SyncStep, Fault, vars, SkipSync, StartDownload, StartFeeds,
         StartUpload, Settle, ServeLoad, ServeUnchanged, MergeDownload,
         SaveDownload, NoteDownload, FeedsReturn, ServeSave, NoteUpload,
         UploadRefused, DownloadFails, FeedsFail, UploadFails, ServeSaveTwice,
         Poll, AddItem, RemoveItem, Edit, ServeOrphan, clientVars

(* Who writes to browser storage. *)
LEMMA DiskChange ==
  ASSUME [Next]_vars, disk' # disk
  PROVE  \E t \in Tab : \/ NoteDownload(t) \/ NoteUpload(t)
                        \/ SaveDownload(t) \/ FeedsReturn(t)
                        \/ \E i \in Item : AddItem(t, i) \/ RemoveItem(t, i)
  BY DEF Next, SyncStep, Fault, vars, SkipSync, StartDownload, StartFeeds,
         StartUpload, Settle, ServeLoad, ServeUnchanged, MergeDownload,
         ApplyDownload, ServeSave, ApplyUpload, UploadRefused, DownloadFails,
         FeedsFail, UploadFails, ServeSaveTwice, Poll, Reload, ServeOrphan,
         clientVars

(* What is written to browser storage: a status, or a collection. *)
LEMMA DiskWrite ==
  ASSUME TypeOK, [Next]_vars, disk' # disk
  PROVE  \E t \in Tab :
           \/ NoteDownload(t) \/ NoteUpload(t)
           \/ \E S \in SUBSET Item : disk' = [disk EXCEPT ![DeviceOf[t]].pcds = S]
<1>1. PICK t \in Tab :
        \/ NoteDownload(t) \/ NoteUpload(t)
        \/ SaveDownload(t) \/ FeedsReturn(t)
        \/ \E i \in Item : AddItem(t, i) \/ RemoveItem(t, i)
  BY DiskChange
<1>2. CASE SaveDownload(t)
  BY <1>2, JobFields DEF SaveDownload, TypeOK
<1>3. CASE FeedsReturn(t)
  BY <1>3, UpsertType, SyncAssumption DEF FeedsReturn, TypeOK, SyncAssumption
<1>4. CASE \E i \in Item : AddItem(t, i) \/ RemoveItem(t, i)
  <2>1. PICK i \in Item : AddItem(t, i) \/ RemoveItem(t, i)
    BY <1>4
  <2>2. /\ Upsert(mem[t], {i}) \in SUBSET Item
        /\ mem[t] \ {i} \in SUBSET Item
    BY UpsertType DEF TypeOK
  <2>3. \E S \in SUBSET Item : disk' = [disk EXCEPT ![DeviceOf[t]].pcds = S]
    BY <2>1, <2>2 DEF AddItem, RemoveItem, Edit
  <2>4. QED
    BY <2>3
<1>5. QED
  BY <1>1, <1>2, <1>3, <1>4

(* The server stores content for a matching revision only. *)
LEMMA HistoryChange ==
  ASSUME [Next]_vars, history' # history
  PROVE  \/ \E t \in Tab : \/ ServeSave(t) /\ job[t].ver.rev = Len(history)
                        \/ ServeSaveTwice(t)
         \/ \E r \in orphans : ServeOrphan(r) /\ r.rev = Len(history)
  BY DEF Next, SyncStep, Fault, vars, SkipSync, StartDownload, StartFeeds,
         StartUpload, Settle, ServeLoad, ServeUnchanged, MergeDownload,
         SaveDownload, NoteDownload, ApplyDownload, FeedsReturn, ServeSave,
         NoteUpload, ApplyUpload, UploadRefused, DownloadFails, FeedsFail,
         UploadFails, Poll, Reload, AddItem, RemoveItem, Edit, ServeOrphan,
         clientVars

(* How a job moves on: with its version, with a new one, or to nothing. *)
LEMMA JobFrame ==
  ASSUME [Next]_vars, job' # job
  PROVE  \E t \in Tab :
           \/ SaveDownload(t) \/ NoteDownload(t) \/ NoteUpload(t)
           \/ ServeLoad(t) \/ MergeDownload(t) \/ ServeSave(t) \/ StartUpload(t)
           \/ \E p \in Pausing : job' = [job EXCEPT ![t] = Empty(p)]
  BY DEF Pausing, Next, SyncStep, Fault, vars, SkipSync, StartDownload,
               StartFeeds, Settle, ServeUnchanged, ApplyDownload, FeedsReturn,
               ApplyUpload, UploadRefused, DownloadFails, FeedsFail,
               UploadFails, ServeSaveTwice, Poll, Reload, AddItem, RemoveItem,
               Edit, ServeOrphan, clientVars, FinishWithChanges,
               FinishWithoutChanges

(* What Work puts where. *)
LEMMA WorkFields ==
  \A p, v, S : Work(p, v, S).at = p /\ Work(p, v, S).ver = v /\ Work(p, v, S).new = S
  BY DEF Work

(* A tab comes to hold a version by a download or an accepted upload. *)
LEMMA HeldChange ==
  ASSUME TypeOK, [Next]_vars, NEW t \in Tab, job'[t].at \in Holding
  PROVE  \/ job[t].at \in Holding /\ job'[t].ver = job[t].ver
         \/ ServeLoad(t)
         \/ ServeSave(t) /\ job[t].ver.rev = Len(history)
<1> USE DEF TypeOK
<1>0. CASE job'[t] = job[t]
  BY <1>0
<1>1. CASE job'[t] # job[t]
  <2>1. PICK u \in Tab :
           \/ SaveDownload(u) \/ NoteDownload(u) \/ NoteUpload(u)
           \/ ServeLoad(u) \/ MergeDownload(u) \/ ServeSave(u) \/ StartUpload(u)
           \/ \E p \in Pausing : job' = [job EXCEPT ![u] = Empty(p)]
    BY <1>1, JobFrame
  <2>2. CASE SaveDownload(u) \/ NoteDownload(u) \/ NoteUpload(u)
    <3>1. PICK p \in Phase : job' = [job EXCEPT ![u] = Work(p, job[u].ver, job[u].new)]
      BY <2>2, MoveJob, Names DEF SaveDownload, NoteDownload, NoteUpload
    <3>2. u = t /\ job'[t] = Work(p, job[t].ver, job[t].new)
      BY <1>1, <3>1
    <3>3. job[t].at \in Holding
      BY <2>2, <3>2 DEF SaveDownload, NoteDownload, NoteUpload, Holding
    <3>4. QED
      BY <3>2, <3>3, WorkFields
  <2>3. CASE MergeDownload(u)
    <3>1. PICK S : job' = [job EXCEPT ![u] = Work("merged", job[u].ver, S)]
      BY <2>3 DEF MergeDownload
    <3>2. u = t /\ job'[t] = Work("merged", job[t].ver, S)
      BY <1>1, <3>1
    <3>3. job[t].at \in Holding
      BY <2>3, <3>2 DEF MergeDownload, Holding
    <3>4. QED
      BY <3>2, <3>3, WorkFields
  <2>4. CASE ServeLoad(u)
    BY <1>1, <2>4 DEF ServeLoad
  <2>5. CASE ServeSave(u)
    <3>1. u = t
      BY <1>1, <2>5 DEF ServeSave
    <3>2. CASE job[t].ver.rev = Len(history)
      BY <2>5, <3>1, <3>2
    <3>3. CASE job[t].ver.rev # Len(history)
      <4>1. job'[t] = Empty("refused")
        BY <2>5, <3>1, <3>3 DEF ServeSave
      <4>2. QED
        BY <4>1, WorkFields DEF Empty, Holding
    <3>4. QED
      BY <3>2, <3>3
  <2>6. CASE StartUpload(u)
    <3>1. PICK v : job'[t] = Work("upload", v, {})
      BY <1>1, <2>6 DEF StartUpload
    <3>2. QED
      BY <3>1, WorkFields DEF Holding
  <2>7. CASE \E p \in Pausing : job' = [job EXCEPT ![u] = Empty(p)]
    <3>1. PICK p \in Pausing : job'[t] = Empty(p)
      BY <1>1, <2>7
    <3>2. QED
      BY <3>1, WorkFields DEF Empty, Pausing, Holding
  <2>8. QED
    BY <2>1, <2>2, <2>3, <2>4, <2>5, <2>6, <2>7
<1>2. QED
  BY <1>0, <1>1

-----------------------------------------------------------------------------
(* What tabs and browsers know of the server is true. *)

(* The server appends: what was stored at a revision stays. *)
LEMMA HistoryStep ==
  ASSUME TypeOK, [Next]_vars, history' # history
  PROVE  \E v \in Version : v.rev = Len(history) /\ history' = Append(history, v.items)
<1>1. CASE \E t \in Tab : \/ ServeSave(t) /\ job[t].ver.rev = Len(history)
                          \/ ServeSaveTwice(t)
  BY <1>1, JobFields DEF TypeOK, ServeSave, ServeSaveTwice
<1>2. CASE \E r \in orphans : ServeOrphan(r) /\ r.rev = Len(history)
  BY <1>2 DEF TypeOK, ServeOrphan
<1>3. QED
  BY <1>1, <1>2, HistoryChange

(* What names a stored version does so ever after. *)
LEMMA GenuineStays ==
  ASSUME TypeOK, [Next]_vars, NEW v, Genuine(v)
  PROVE  v.rev \in 1..Len(history') /\ v.items = history'[v.rev]
<1>1. CASE history' = history
  BY <1>1 DEF Genuine
<1>2. CASE history' # history
  <2>1. PICK w \in Version : history' = Append(history, w.items)
    BY <1>2, HistoryStep
  <2>2. history \in Seq(SUBSET Item) /\ w.items \in SUBSET Item
    BY VersionFields DEF TypeOK
  <2>3. /\ Len(history') = Len(history) + 1
        /\ \A n \in 1..Len(history) : history'[n] = history[n]
    BY <2>1, <2>2
  <2>4. QED
    BY <2>2, <2>3 DEF Genuine
<1>3. QED
  BY <1>1, <1>2

(* A step keeps what tabs hold genuine. *)
LEMMA StepHeld ==
  ASSUME TypeOK, HeldIsGenuine, [Next]_vars
  PROVE  HeldIsGenuine'
<1> SUFFICES ASSUME NEW t \in Tab, job'[t].at \in Holding
             PROVE  /\ job'[t].ver.rev \in 1..Len(history')
                    /\ job'[t].ver.items = history'[job'[t].ver.rev]
  BY DEF HeldIsGenuine, Genuine, Holding
<1>1. CASE job[t].at \in Holding /\ job'[t].ver = job[t].ver
  BY <1>1, GenuineStays DEF HeldIsGenuine
<1>2. CASE ServeLoad(t)
  <2>1. job'[t].ver = [rev |-> Len(history), items |-> history[Len(history)]]
    BY <1>2, WorkFields DEF ServeLoad, TypeOK
  <2>2. history' = history /\ Len(history) \in 1..Len(history)
    BY <1>2 DEF ServeLoad, TypeOK
  <2>3. QED
    BY <2>1, <2>2
<1>3. CASE ServeSave(t) /\ job[t].ver.rev = Len(history)
  <2>1. job'[t].ver = [rev |-> Len(history) + 1, items |-> job[t].ver.items]
    BY <1>3, WorkFields DEF ServeSave, TypeOK
  <2>2. history' = Append(history, job[t].ver.items)
    BY <1>3 DEF ServeSave
  <2>3. history \in Seq(SUBSET Item) /\ job[t].ver.items \in SUBSET Item
    BY JobFields, VersionFields DEF TypeOK
  <2>4. QED
    BY <2>1, <2>2, <2>3
<1>4. QED
  BY <1>1, <1>2, <1>3, HeldChange

(* A step keeps what tabs and browsers remember genuine. *)
LEMMA StepKnown ==
  ASSUME TypeOK, HeldIsGenuine, KnownRevisionIsGenuine, [Next]_vars
  PROVE  KnownRevisionIsGenuine'
<1>1. ASSUME NEW t \in Tab
      PROVE  \E v : Genuine(v) /\ known'[t] = v
  <2>1. CASE known'[t] = known[t]
    BY <2>1 DEF KnownRevisionIsGenuine
  <2>2. CASE known'[t] # known[t]
    <3>1. PICK u \in Tab : ApplyDownload(u) \/ ApplyUpload(u) \/ Reload(u)
      BY <2>2, KnownChange
    <3>2. CASE ApplyDownload(u) \/ ApplyUpload(u)
      <4>1. job[u].at \in Holding /\ known'[t] = job[u].ver
        BY <2>2, <3>2 DEF ApplyDownload, ApplyUpload, Holding, TypeOK
      <4>2. QED
        BY <4>1 DEF HeldIsGenuine
    <3>3. CASE Reload(u)
      <4>1. known'[t] = disk[DeviceOf[u]].status /\ DeviceOf[u] \in Device
        BY <2>2, <3>3, SyncAssumption DEF Reload, TypeOK, SyncAssumption
      <4>2. QED
        BY <4>1 DEF KnownRevisionIsGenuine
    <3>4. QED
      BY <3>1, <3>2, <3>3
  <2>3. QED
    BY <2>1, <2>2
<1>2. ASSUME NEW d \in Device
      PROVE  \E v : Genuine(v) /\ disk'[d].status = v
  <2>1. CASE disk'[d].status = disk[d].status
    BY <2>1 DEF KnownRevisionIsGenuine
  <2>2. CASE disk'[d].status # disk[d].status
    <3>1. PICK u \in Tab :
            \/ NoteDownload(u) \/ NoteUpload(u)
            \/ \E S \in SUBSET Item : disk' = [disk EXCEPT ![DeviceOf[u]].pcds = S]
      BY <2>2, DiskWrite
    <3>2. DeviceOf[u] \in Device
      BY SyncAssumption DEF SyncAssumption
    <3>3. CASE NoteDownload(u) \/ NoteUpload(u)
      <4>1. /\ job[u].at \in Holding
            /\ disk' = [disk EXCEPT ![DeviceOf[u]].status = job[u].ver]
        BY <3>3 DEF NoteDownload, NoteUpload, Holding
      <4>2. disk' = [disk EXCEPT ![DeviceOf[u]] =
                       [pcds |-> disk[DeviceOf[u]].pcds, status |-> job[u].ver]]
        BY <3>2, <4>1, HeldType, SaveStatus DEF TypeOK
      <4>3. disk'[d].status = job[u].ver
        BY <2>2, <4>2 DEF TypeOK
      <4>4. QED
        BY <4>1, <4>3 DEF HeldIsGenuine
    <3>4. CASE \E S \in SUBSET Item : disk' = [disk EXCEPT ![DeviceOf[u]].pcds = S]
      <4>1. PICK S \in SUBSET Item :
              disk' = [disk EXCEPT ![DeviceOf[u]] =
                         [pcds |-> S, status |-> disk[DeviceOf[u]].status]]
        BY <3>2, <3>4, SavePCDs DEF TypeOK
      <4>2. disk'[d].status = disk[d].status
        BY <4>1 DEF TypeOK
      <4>3. QED
        BY <2>2, <4>2
    <3>5. QED
      BY <3>1, <3>3, <3>4
  <2>3. QED
    BY <2>1, <2>2
<1>3. QED
  BY <1>1, <1>2, GenuineStays DEF KnownRevisionIsGenuine, Genuine

(* After the login all is genuine. *)
LEMMA InitKnown == Init => HeldIsGenuine /\ KnownRevisionIsGenuine
<1> SUFFICES ASSUME Init PROVE HeldIsGenuine /\ KnownRevisionIsGenuine
  OBVIOUS
<1>1. Len(history) = 1 /\ history[1] = Original
  BY DEF Init
<1>2. HeldIsGenuine
  BY WorkFields DEF Init, HeldIsGenuine, Holding, Empty
<1>3. KnownRevisionIsGenuine
  BY <1>1, SyncAssumption DEF Init, KnownRevisionIsGenuine, Genuine, SyncAssumption
<1>4. QED
  BY <1>2, <1>3

(* No update is missed. *)

(* The phases of an upload. *)
Uploading == {"upload", "accepted", "refused", "acknowledged"}

(* What was asked of a tab during its upload is followed by another round: *)
(* a sync is scheduled, or one was skipped.                                *)
Watches(t) ==
    job[t].at \in Uploading /\ (WantsDownload(t) \/ WantsFeeds(t))
        => due[t] \/ skipped[t]

UploadWatches == \A t \in Tab : Watches(t)

(* NothingForgotten, of one tab. *)
Remembers(t) ==
    Resting(t) /\ ~due[t] =>
        /\ ~WantsDownload(t) /\ ~WantsFeeds(t)
        /\ WantsUpload(t) => job[t].at = "stalled"

(* A tab with a sync scheduled has forgotten nothing. *)
LEMMA DueIsEnough ==
  ASSUME NEW t \in Tab, due'[t]
  PROVE  Remembers(t)' /\ Watches(t)'
  BY DEF Remembers, Watches

(* The steps of one tab leave the sync state of the others alone. *)
LEMMA OtherTabs ==
  ASSUME TypeOK, NEW u \in Tab, NEW t \in Tab, t # u,
         \/ SyncStep(u) \/ SkipSync(u) \/ Fault(u) \/ Poll(u) \/ Reload(u)
         \/ \E i \in Item : AddItem(u, i) \/ RemoveItem(u, i)
  PROVE  /\ mem'[t] = mem[t] /\ known'[t] = known[t] /\ flags'[t] = flags[t]
         /\ job'[t] = job[t] /\ due'[t] = due[t] /\ skipped'[t] = skipped[t]
<1> USE DEF TypeOK, FinishWithChanges, FinishWithoutChanges
<1>1. CASE StartDownload(u) \/ StartFeeds(u) \/ StartUpload(u) \/ Settle(u)
  BY <1>1 DEF StartDownload, StartFeeds, StartUpload, Settle
<1>2. CASE ServeLoad(u) \/ ServeUnchanged(u) \/ MergeDownload(u)
  BY <1>2 DEF ServeLoad, ServeUnchanged, MergeDownload, EndDownload
<1>3. CASE SaveDownload(u) \/ NoteDownload(u) \/ NoteUpload(u)
  BY <1>3 DEF SaveDownload, NoteDownload, NoteUpload
<1>4. CASE ApplyDownload(u) \/ FeedsReturn(u) \/ ApplyUpload(u)
  BY <1>4 DEF ApplyDownload, FeedsReturn, ApplyUpload, EndDownload, EndFeeds
<1>5. CASE ServeSave(u) \/ UploadRefused(u)
  BY <1>5 DEF ServeSave, UploadRefused
<1>6. CASE Fault(u)
  BY <1>6 DEF Fault, DownloadFails, FeedsFail, UploadFails, ServeSaveTwice,
              EndDownload, EndFeeds
<1>7. CASE SkipSync(u) \/ Poll(u) \/ Reload(u)
  BY <1>7 DEF SkipSync, Poll, Reload
<1>8. CASE \E i \in Item : AddItem(u, i) \/ RemoveItem(u, i)
  BY <1>8 DEF AddItem, RemoveItem, Edit
<1>9. QED
  BY <1>1, <1>2, <1>3, <1>4, <1>5, <1>6, <1>7, <1>8 DEF SyncStep

(* The steps after which the tab has a sync scheduled. *)
LEMMA Schedules ==
  ASSUME TypeOK, NEW t \in Tab,
         \/ ServeUnchanged(t) \/ ApplyDownload(t) \/ FeedsReturn(t)
         \/ ApplyUpload(t) \/ DownloadFails(t) \/ FeedsFail(t)
         \/ Poll(t) \/ Reload(t)
         \/ \E i \in Item : AddItem(t, i) \/ RemoveItem(t, i)
  PROVE  due'[t]
  BY DEF TypeOK, ServeUnchanged, ApplyDownload, FeedsReturn, ApplyUpload,
         DownloadFails, FeedsFail, Poll, Reload, AddItem, RemoveItem, Edit,
         FinishWithChanges

(* The steps after which the tab downloads or polls its feeds. *)
LEMMA Fetches ==
  ASSUME TypeOK, NEW t \in Tab,
         \/ StartDownload(t) \/ StartFeeds(t) \/ ServeLoad(t) \/ MergeDownload(t)
         \/ SaveDownload(t) \/ NoteDownload(t)
  PROVE  ~Resting(t)' /\ job'[t].at \notin Uploading
<1> USE DEF Resting, Uploading, TypeOK
<1>1. CASE StartDownload(t) \/ StartFeeds(t)
  BY <1>1, WorkFields DEF StartDownload, StartFeeds, Empty
<1>2. CASE ServeLoad(t) \/ MergeDownload(t)
  BY <1>2, WorkFields DEF ServeLoad, MergeDownload
<1>3. CASE SaveDownload(t) \/ NoteDownload(t)
  <2>1. PICK p \in {"saved", "noted"} :
           job' = [job EXCEPT ![t] = Work(p, job[t].ver, job[t].new)]
    BY <1>3, MoveJob, Names DEF SaveDownload, NoteDownload
  <2>2. QED
    BY <2>1, WorkFields
<1>4. QED
  BY <1>1, <1>2, <1>3

(* The steps that go on with an upload keep what it watches. *)
LEMMA UploadGoesOn ==
  ASSUME TypeOK, NEW t \in Tab, Watches(t),
         \/ ServeSave(t) \/ ServeSaveTwice(t) \/ NoteUpload(t)
  PROVE  Remembers(t)' /\ Watches(t)'
<1>1. /\ flags'[t] = flags[t] /\ due'[t] = due[t] /\ skipped'[t] = skipped[t]
      /\ job[t].at \in Uploading
  BY DEF ServeSave, ServeSaveTwice, NoteUpload, Uploading
<1>2. job'[t].at \in {"accepted", "refused", "acknowledged"}
  <2>1. CASE ServeSave(t) \/ ServeSaveTwice(t)
    BY <2>1, WorkFields DEF ServeSave, ServeSaveTwice, TypeOK, Empty
  <2>2. CASE NoteUpload(t)
    BY <2>2, MoveJob, Names, WorkFields DEF NoteUpload, TypeOK
  <2>3. QED
    BY <2>1, <2>2
<1>3. ~Resting(t)'
  BY <1>2 DEF Resting
<1>4. WantsDownload(t)' = WantsDownload(t) /\ WantsFeeds(t)' = WantsFeeds(t)
  BY <1>1 DEF WantsDownload, WantsFeeds
<1>5. Watches(t)'
  BY <1>1, <1>4 DEF Watches
<1>6. QED
  BY <1>3, <1>5 DEF Remembers

(* An upload starts when nothing else is wanted. *)
LEMMA UploadStarts ==
  ASSUME TypeOK, NEW t \in Tab, StartUpload(t)
  PROVE  Remembers(t)' /\ Watches(t)'
<1>1. job'[t].at = "upload" /\ flags' = flags
  BY WorkFields DEF StartUpload, TypeOK
<1>2. ~WantsDownload(t) /\ ~WantsFeeds(t)
  BY DEF StartUpload
<1>3. ~WantsDownload(t)' /\ ~WantsFeeds(t)'
  BY <1>1, <1>2 DEF WantsDownload, WantsFeeds
<1>4. ~Resting(t)'
  BY <1>1 DEF Resting
<1>5. QED
  BY <1>3, <1>4 DEF Remembers, Watches

(* A round that finds nothing to do stops the loop only if it sees that    *)
(* the first sync was complete before.                                     *)
LEMMA SettledIsDone ==
  ASSUME TypeOK, NEW t \in Tab, Settle(t)
  PROVE  Remembers(t)' /\ Watches(t)'
<1>1. CASE due'[t]
  BY <1>1, DueIsEnough
<1>2. CASE ~due'[t]
  <2>1. "completedFirstSync" \in flags[t]
    BY <1>2 DEF Settle, TypeOK
  <2>2. flags'[t] = flags[t] /\ mem' = mem /\ known' = known /\ job'[t].at = "idle"
    BY <2>1, WorkFields DEF Settle, TypeOK, Empty
  <2>3. ~WantsDownload(t) /\ ~WantsFeeds(t) /\ ~WantsUpload(t)
    BY DEF Settle
  <2>4. ~WantsDownload(t)' /\ ~WantsFeeds(t)' /\ ~WantsUpload(t)'
    BY <2>2, <2>3 DEF WantsDownload, WantsFeeds, WantsUpload
  <2>5. QED
    BY <2>4 DEF Remembers, Watches
<1>3. QED
  BY <1>1, <1>2

(* An upload that ends without a change of state has missed no request. *)
LEMMA UploadEnds ==
  ASSUME TypeOK, NEW t \in Tab, Watches(t), UploadRefused(t) \/ UploadFails(t)
  PROVE  Remembers(t)' /\ Watches(t)'
<1>1. CASE due'[t]
  BY <1>1, DueIsEnough
<1>2. CASE ~due'[t]
  <2>1. flags'[t] = flags[t] /\ job[t].at \in Uploading
    BY <1>2 DEF UploadRefused, UploadFails, FinishWithChanges, TypeOK, Uploading
  <2>2. ~due[t] /\ ~skipped[t]
    BY <1>2, <2>1 DEF UploadRefused, UploadFails, FinishWithoutChanges, TypeOK
  <2>3. ~WantsDownload(t) /\ ~WantsFeeds(t)
    BY <2>1, <2>2 DEF Watches
  <2>4. CASE UploadRefused(t)
    <3>1. {"completedFirstSync", "extraDownloadRequested"} \subseteq flags'[t]
      BY <2>4 DEF UploadRefused, TypeOK
    <3>2. QED
      BY <2>1, <2>3, <3>1 DEF WantsDownload
  <2>5. CASE UploadFails(t)
    <3>1. job'[t].at = "stalled"
      BY <2>1, <2>5, WorkFields DEF UploadFails, FinishWithoutChanges, TypeOK, Empty
    <3>2. ~WantsDownload(t)' /\ ~WantsFeeds(t)'
      BY <2>1, <2>3 DEF WantsDownload, WantsFeeds
    <3>3. QED
      BY <3>1, <3>2 DEF Remembers, Watches
  <2>6. QED
    BY <2>4, <2>5
<1>3. QED
  BY <1>1, <1>2

(* A skipped dispatch is remembered. *)
LEMMA SkippedIsNoted ==
  ASSUME TypeOK, NEW t \in Tab, SkipSync(t)
  PROVE  Remembers(t)' /\ Watches(t)'
<1>1. ~Resting(t) /\ job' = job /\ skipped'[t]
  BY DEF SkipSync, TypeOK
<1>2. ~Resting(t)'
  BY <1>1 DEF Resting
<1>3. QED
  BY <1>1, <1>2 DEF Remembers, Watches

(* What a tab watches and remembers depends on its own sync state alone. *)
LEMMA TabFrame ==
  ASSUME NEW t \in Tab, Remembers(t), Watches(t),
         mem'[t] = mem[t], known'[t] = known[t], flags'[t] = flags[t],
         job'[t] = job[t], due'[t] = due[t], skipped'[t] = skipped[t]
  PROVE  Remembers(t)' /\ Watches(t)'
<1>1. /\ WantsDownload(t)' = WantsDownload(t) /\ WantsFeeds(t)' = WantsFeeds(t)
      /\ WantsUpload(t)' = WantsUpload(t) /\ Resting(t)' = Resting(t)
  BY DEF WantsDownload, WantsFeeds, WantsUpload, Resting
<1>2. Watches(t)'
  BY <1>1 DEF Watches
<1>3. Remembers(t)'
  BY <1>1 DEF Remembers
<1>4. QED
  BY <1>2, <1>3

(* A step of the system makes no tab forget. *)
LEMMA StepRemembers ==
  ASSUME TypeOK, NothingForgotten, UploadWatches, [Next]_vars
  PROVE  NothingForgotten' /\ UploadWatches'
<1>0. \A t \in Tab : Remembers(t) /\ Watches(t)
  BY DEF NothingForgotten, UploadWatches, Remembers
<1>1. ASSUME NEW t \in Tab
      PROVE  Remembers(t)' /\ Watches(t)'
  <2>1. CASE UNCHANGED vars
    BY <1>0, <2>1, TabFrame DEF vars
  <2>2. CASE \E r \in orphans : ServeOrphan(r)
    BY <1>0, <2>2, TabFrame DEF ServeOrphan, clientVars
  <2>3. ASSUME NEW u \in Tab,
               \/ SyncStep(u) \/ SkipSync(u) \/ Fault(u) \/ Poll(u) \/ Reload(u)
               \/ \E i \in Item : AddItem(u, i) \/ RemoveItem(u, i)
        PROVE  Remembers(t)' /\ Watches(t)'
    <3>1. CASE t # u
      <4>1. /\ mem'[t] = mem[t] /\ known'[t] = known[t] /\ flags'[t] = flags[t]
            /\ job'[t] = job[t] /\ due'[t] = due[t] /\ skipped'[t] = skipped[t]
        BY <2>3, <3>1, OtherTabs
      <4>2. QED
        BY <1>0, <4>1, TabFrame
    <3>2. CASE t = u
      <4>1. CASE \/ StartDownload(t) \/ StartFeeds(t) \/ ServeLoad(t)
                 \/ MergeDownload(t) \/ SaveDownload(t) \/ NoteDownload(t)
        <5>1. ~Resting(t)' /\ job'[t].at \notin Uploading
          BY <4>1, Fetches
        <5>2. QED
          BY <5>1 DEF Remembers, Watches
      <4>2. CASE StartUpload(t)
        BY <4>2, UploadStarts
      <4>3. CASE Settle(t)
        BY <4>3, SettledIsDone
      <4>4. CASE \/ ServeSave(t) \/ ServeSaveTwice(t) \/ NoteUpload(t)
        BY <1>0, <4>4, UploadGoesOn
      <4>5. CASE \/ UploadRefused(t) \/ UploadFails(t)
        BY <1>0, <4>5, UploadEnds
      <4>6. CASE SkipSync(t)
        BY <4>6, SkippedIsNoted
      <4>7. CASE \/ ServeUnchanged(t) \/ ApplyDownload(t) \/ FeedsReturn(t)
                 \/ ApplyUpload(t) \/ DownloadFails(t) \/ FeedsFail(t)
                 \/ Poll(t) \/ Reload(t)
                 \/ \E i \in Item : AddItem(t, i) \/ RemoveItem(t, i)
        <5>1. due'[t]
          BY <4>7, Schedules
        <5>2. QED
          BY <5>1, DueIsEnough
      <4>8. QED
        BY <2>3, <3>2, <4>1, <4>2, <4>3, <4>4, <4>5, <4>6, <4>7 DEF SyncStep, Fault
    <3>3. QED
      BY <3>1, <3>2
  <2>4. QED
    BY <2>1, <2>2, <2>3 DEF Next
<1>2. QED
  BY <1>1 DEF NothingForgotten, UploadWatches, Remembers

(* After the login every tab has a sync scheduled. *)
LEMMA InitRemembers == Init => NothingForgotten /\ UploadWatches
<1>1. Init => \A t \in Tab : due[t]
  BY DEF Init
<1>2. QED
  BY <1>1 DEF NothingForgotten, UploadWatches, Watches

-----------------------------------------------------------------------------
(* The invariant that is inductive: the types and what tabs know depend on *)
(* what they hold between a request and its use.                           *)
SyncInv == TypeOK /\ HeldIsGenuine /\ KnownRevisionIsGenuine

(* The invariant holds in every run. *)
LEMMA SyncInvariant == Spec => []SyncInv
<1>1. Init => SyncInv
  BY InitType, InitKnown DEF SyncInv
<1>2. SyncInv /\ [Next]_vars => SyncInv'
  BY StepType, StepHeld, StepKnown DEF SyncInv
<1>3. QED
  BY <1>1, <1>2, PTL DEF Spec

(* Every variable of the tabs, the browsers and the server keeps its type; *)
(* in particular no tab ever remembers a missing revision (revision 0).    *)
THEOREM TypeCorrect == Spec => []TypeOK
<1>1. SyncInv => TypeOK
  BY DEF SyncInv
<1>2. QED
  BY <1>1, SyncInvariant, PTL

(* serverStorageRevision and serverStorageHash, in memory and in           *)
(* sync_status, always name one version that the server stored.            *)
THEOREM KnownIsGenuine == Spec => []KnownRevisionIsGenuine
<1>1. SyncInv => KnownRevisionIsGenuine
  BY DEF SyncInv
<1>2. QED
  BY <1>1, SyncInvariant, PTL

(* skippedSyncUpdates and the dispatches after each round make sure that a *)
(* tab at rest, with no sync scheduled, has nothing left to download, poll *)
(* or upload, unless its last upload failed.                               *)
THEOREM NothingIsForgotten == Spec => []NothingForgotten
<1>1. Init => NothingForgotten /\ UploadWatches
  BY InitRemembers
<1>2. TypeOK /\ NothingForgotten /\ UploadWatches /\ [Next]_vars
        => NothingForgotten' /\ UploadWatches'
  BY StepRemembers
<1>3. QED
  BY <1>1, <1>2, TypeCorrect, PTL DEF Spec
=============================================================================
