----------------------- MODULE VaultRefinement_proofs -----------------------
(***************************************************************************)
(* End-to-end encrypted sync implements the shared vault, for any tabs,    *)
(* browsers, objects and bounds, provided that pages do not reload or that *)
(* each browser has one tab and no edit falls into the commit of a         *)
(* download.  The runs sync_edit_in_commit and sync_shared_browser show    *)
(* that the provisos are needed.                                           *)
(***************************************************************************)
EXTENDS E2EESync_proofs

Injective == \A t, u \in Tab : DeviceOf[t] = DeviceOf[u] => t = u

ReloadsAreSafe == MaxReloads = 0 \/ (QuietCommit /\ Injective)

(* The uploads that may still reach the server.                            *)
Proposals == orphans \cup {job[t].ver : t \in {u \in Tab : job[u].at = "upload"}}

(* The proofs about the vault, read for the server's history.              *)
Proofs == INSTANCE SharedVault_proofs WITH versions <- history,
                                           proposals <- Proposals

-----------------------------------------------------------------------------
(* The invariant, in parts. *)

(* A tab's collection lacks nothing of the version the tab knows, so that  *)
(* uploading it over that version loses nothing.                           *)
TabCarries == \A t \in Tab : Ids(history[known[t].rev]) \ removed \subseteq Ids(mem[t])

(* What a tab downloads is no older than what it knows.                    *)
DownloadIsNewer ==
  \A t \in Tab : job[t].at \in {"loaded", "merged", "saved", "noted"}
                   => known[t].rev <= job[t].ver.rev

(* A merged content lacks nothing of the downloaded one.                   *)
MergeKeepsRemote ==
  \A t \in Tab : Committing(t) => Ids(job[t].ver.items) \subseteq Ids(job[t].new)

(* Nor of the local one, if nobody edits that meanwhile.                   *)
MergeKeepsLocal ==
  QuietCommit =>
    \A t \in Tab : Committing(t) => Ids(mem[t]) \ removed \subseteq Ids(job[t].new)

(* While an upload is on its way the tab only adds to what it sent.        *)
TabKeepsUpload ==
  \A t \in Tab : job[t].at \in {"upload", "accepted", "acknowledged"}
                   => Ids(job[t].ver.items) \ removed \subseteq Ids(mem[t])

(* Browser storage is what the tab has, except between the writes and the  *)
(* end of a download or an upload, when it is ahead of the tab.            *)
DiskStatus(t) ==
  IF job[t].at \in {"noted", "acknowledged"} THEN job[t].ver ELSE known[t]

DiskPCDs(t) == IF job[t].at \in {"saved", "noted"} THEN job[t].new ELSE mem[t]

DiskFollows ==
  QuietCommit /\ Injective =>
    \A t \in Tab : disk[DeviceOf[t]] = [pcds |-> DiskPCDs(t), status |-> DiskStatus(t)]

TabInv == /\ TabCarries /\ DownloadIsNewer /\ MergeKeepsRemote
          /\ MergeKeepsLocal /\ TabKeepsUpload /\ DiskFollows

VaultInv == SyncInv /\ Proofs!VaultInv /\ TabInv

-----------------------------------------------------------------------------
(* Ids, and what each step does to them. *)

(* addAll loses no id of either side.                                      *)
LEMMA UpsertIds ==
  \A S, T : Ids(S) \subseteq Ids(Upsert(S, T)) /\ Ids(T) \subseteq Ids(Upsert(S, T))
  BY DEF Ids, Upsert

(* Deleting an item takes no other id away.                                *)
LEMMA DeleteIds == \A S, i : Ids(S) \ {IdOf[i]} \subseteq Ids(S \ {i})
  BY DEF Ids

(* Only a user's removal changes what counts as removed.                   *)
LEMMA RemovedChange ==
  ASSUME [Next]_vars, removed' # removed
  PROVE  \E t \in Tab, i \in Item : RemoveItem(t, i)
  BY DEF Next, SyncStep, Fault, vars, SkipSync, StartDownload, StartFeeds,
         StartUpload, Settle, ServeLoad, ServeUnchanged, MergeDownload,
         SaveDownload, NoteDownload, ApplyDownload, FeedsReturn, ServeSave,
         NoteUpload, ApplyUpload, UploadRefused, DownloadFails, FeedsFail,
         UploadFails, ServeSaveTwice, Poll, Reload, AddItem, ServeOrphan

(* What was once removed stays on record.                                  *)
LEMMA RemovedGrows == [Next]_vars => removed \subseteq removed'
  BY RemovedChange DEF RemoveItem

(* What the server holds at a revision stays there.                        *)
LEMMA StoredStays ==
  ASSUME TypeOK, [Next]_vars, NEW n \in 1..Len(history)
  PROVE  n \in 1..Len(history') /\ history'[n] = history[n]
<1>1. CASE history' = history
  BY <1>1
<1>2. CASE history' # history
  <2>1. PICK w \in Version : history' = Append(history, w.items)
    BY <1>2, HistoryStep
  <2>2. history \in Seq(SUBSET Item) /\ w.items \in SUBSET Item
    BY VersionFields DEF TypeOK
  <2>3. QED
    BY <2>1, <2>2
<1>3. QED
  BY <1>1, <1>2

(* Which actions change a tab's collection.                                *)
LEMMA MemChange ==
  ASSUME [Next]_vars, mem' # mem
  PROVE  \E t \in Tab : \/ ApplyDownload(t) \/ Reload(t) \/ FeedsReturn(t)
                        \/ \E i \in Item : AddItem(t, i) \/ RemoveItem(t, i)
  BY DEF Next, SyncStep, Fault, vars, SkipSync, StartDownload, StartFeeds,
         StartUpload, Settle, ServeLoad, ServeUnchanged, MergeDownload,
         SaveDownload, NoteDownload, ServeSave, NoteUpload, ApplyUpload,
         UploadRefused, DownloadFails, FeedsFail, UploadFails, ServeSaveTwice,
         Poll, ServeOrphan, clientVars

(* All but the end of a download and a reload keep its ids.                *)
LEMMA MemStep ==
  ASSUME TypeOK, [Next]_vars, NEW t \in Tab
  PROVE  \/ Ids(mem[t]) \ removed' \subseteq Ids(mem'[t])
         \/ ApplyDownload(t) \/ Reload(t)
<1> USE DEF TypeOK
<1>1. CASE mem'[t] = mem[t]
  BY <1>1
<1>2. CASE mem'[t] # mem[t]
  <2>1. PICK u \in Tab : \/ ApplyDownload(u) \/ Reload(u) \/ FeedsReturn(u)
                         \/ \E i \in Item : AddItem(u, i) \/ RemoveItem(u, i)
    BY <1>2, MemChange
  <2>2. u = t
    BY <1>2, <2>1 DEF ApplyDownload, Reload, FeedsReturn, AddItem, RemoveItem, Edit
  <2>3. CASE FeedsReturn(t)
    <3>1. mem'[t] = Upsert(mem[t], Issued)
      BY <2>3 DEF FeedsReturn
    <3>2. QED
      BY <3>1, UpsertIds
  <2>4. ASSUME NEW i \in Item, AddItem(t, i)
        PROVE  Ids(mem[t]) \ removed' \subseteq Ids(mem'[t])
    <3>1. mem'[t] = Upsert(mem[t], {i})
      BY <2>4 DEF AddItem, Edit
    <3>2. QED
      BY <3>1, UpsertIds
  <2>5. ASSUME NEW i \in Item, RemoveItem(t, i)
        PROVE  Ids(mem[t]) \ removed' \subseteq Ids(mem'[t])
    <3>1. mem'[t] = mem[t] \ {i} /\ IdOf[i] \in removed'
      BY <2>5 DEF RemoveItem, Edit
    <3>2. QED
      BY <3>1, DeleteIds
  <2>6. QED
    BY <2>1, <2>2, <2>3, <2>4, <2>5
<1>3. QED
  BY <1>1, <1>2

(* What moves a tab's own job.                                             *)
LEMMA JobStep ==
  ASSUME TypeOK, [Next]_vars, NEW t \in Tab, job'[t] # job[t]
  PROVE  \/ SaveDownload(t) \/ NoteDownload(t) \/ NoteUpload(t)
         \/ ServeLoad(t) \/ MergeDownload(t) \/ ServeSave(t) \/ StartUpload(t)
         \/ job'[t].at \in Pausing
<1> USE DEF TypeOK
<1>1. PICK u \in Tab :
        \/ SaveDownload(u) \/ NoteDownload(u) \/ NoteUpload(u)
        \/ ServeLoad(u) \/ MergeDownload(u) \/ ServeSave(u) \/ StartUpload(u)
        \/ \E p \in Pausing : job' = [job EXCEPT ![u] = Empty(p)]
  BY JobFrame
<1>2. u = t
  BY <1>1 DEF SaveDownload, NoteDownload, NoteUpload, ServeLoad, MergeDownload,
              ServeSave, StartUpload
<1>3. QED
  BY <1>1, <1>2, WorkFields DEF Empty

(* The end of a download or an upload, or a reload, tells a tab a revision. *)
LEMMA KnownStep ==
  ASSUME TypeOK, [Next]_vars, NEW t \in Tab, known'[t] # known[t]
  PROVE  (ApplyDownload(t) \/ ApplyUpload(t) \/ Reload(t)) /\ job'[t] = Empty("idle")
<1>1. PICK u \in Tab : ApplyDownload(u) \/ ApplyUpload(u) \/ Reload(u)
  BY KnownChange
<1>2. u = t
  BY <1>1 DEF ApplyDownload, ApplyUpload, Reload, TypeOK
<1>3. QED
  BY <1>1, <1>2 DEF ApplyDownload, ApplyUpload, Reload, TypeOK, FinishWithChanges

(* The job each of these actions leaves.                                   *)
LEMMA JobMoves ==
  ASSUME TypeOK, NEW t \in Tab
  PROVE  /\ SaveDownload(t) => /\ job[t].at = "merged" /\ job'[t].at = "saved"
                               /\ job'[t].ver = job[t].ver /\ job'[t].new = job[t].new
         /\ NoteDownload(t) => /\ job[t].at = "saved" /\ job'[t].at = "noted"
                               /\ job'[t].ver = job[t].ver /\ job'[t].new = job[t].new
         /\ NoteUpload(t) => /\ job[t].at = "accepted" /\ job'[t].at = "acknowledged"
                             /\ job'[t].ver = job[t].ver
         /\ ServeLoad(t) => job'[t].at = "loaded" /\ job'[t].ver.rev = Len(history)
         /\ MergeDownload(t) => /\ job[t].at = "loaded" /\ job'[t].at = "merged"
                                /\ job'[t].ver = job[t].ver
         /\ ServeSave(t) => /\ job[t].at = "upload"
                            /\ \/ job'[t].at = "refused"
                               \/ /\ job'[t].at = "accepted"
                                  /\ job'[t].ver.items = job[t].ver.items
         /\ StartUpload(t) => /\ job'[t].at = "upload"
                              /\ job'[t].ver = [rev |-> known[t].rev, items |-> mem[t]]
<1> USE DEF TypeOK
<1>1. \A p \in Phase :
        job' = [job EXCEPT ![t].at = p] => job'[t] = Work(p, job[t].ver, job[t].new)
  <2> SUFFICES ASSUME NEW p \in Phase, job' = [job EXCEPT ![t].at = p]
               PROVE  job'[t] = Work(p, job[t].ver, job[t].new)
    OBVIOUS
  <2>1. job' = [job EXCEPT ![t] = Work(p, job[t].ver, job[t].new)]
    BY MoveJob
  <2>2. QED
    BY <2>1
<1>2. SaveDownload(t) => /\ job[t].at = "merged" /\ job'[t].at = "saved"
                         /\ job'[t].ver = job[t].ver /\ job'[t].new = job[t].new
  BY <1>1, Names, WorkFields DEF SaveDownload
<1>3. NoteDownload(t) => /\ job[t].at = "saved" /\ job'[t].at = "noted"
                         /\ job'[t].ver = job[t].ver /\ job'[t].new = job[t].new
  BY <1>1, Names, WorkFields DEF NoteDownload
<1>4. NoteUpload(t) => /\ job[t].at = "accepted" /\ job'[t].at = "acknowledged"
                       /\ job'[t].ver = job[t].ver
  BY <1>1, Names, WorkFields DEF NoteUpload
<1>5. ServeLoad(t) => job'[t].at = "loaded" /\ job'[t].ver.rev = Len(history)
  BY WorkFields DEF ServeLoad
<1>6. MergeDownload(t) => /\ job[t].at = "loaded" /\ job'[t].at = "merged"
                          /\ job'[t].ver = job[t].ver
  BY WorkFields DEF MergeDownload
<1>7. ServeSave(t) => /\ job[t].at = "upload"
                      /\ \/ job'[t].at = "refused"
                         \/ /\ job'[t].at = "accepted"
                            /\ job'[t].ver.items = job[t].ver.items
  BY WorkFields DEF ServeSave, Empty
<1>8. StartUpload(t) => /\ job'[t].at = "upload"
                        /\ job'[t].ver = [rev |-> known[t].rev, items |-> mem[t]]
  BY WorkFields DEF StartUpload
<1>9. QED
  BY <1>2, <1>3, <1>4, <1>5, <1>6, <1>7, <1>8

(* Nothing but an action of the sync itself, or a reload, ends a commit.   *)
LEMMA CommitEnds ==
  ASSUME TypeOK, [Next]_vars, NEW t \in Tab,
         job[t].at \in {"merged", "saved", "noted", "acknowledged"}, job'[t] # job[t]
  PROVE  \/ SaveDownload(t) \/ NoteDownload(t)
         \/ ApplyDownload(t) \/ ApplyUpload(t) \/ Reload(t)
<1> USE DEF TypeOK
<1>1. PICK u \in Tab : \/ SyncStep(u) \/ SkipSync(u) \/ Fault(u) \/ Poll(u) \/ Reload(u)
                       \/ \E i \in Item : AddItem(u, i) \/ RemoveItem(u, i)
  BY DEF Next, ServeOrphan, clientVars, vars
<1>2. u = t
  <2>1. CASE SyncStep(u)
    BY <2>1, JobStep, JobMoves DEF SyncStep, StartDownload, StartFeeds, StartUpload, Settle,
       ServeLoad, ServeUnchanged, MergeDownload, SaveDownload, NoteDownload,
       ApplyDownload, FeedsReturn, ServeSave, NoteUpload, ApplyUpload,
       UploadRefused, FinishWithChanges, FinishWithoutChanges
  <2>2. CASE Fault(u)
    BY <2>2 DEF Fault, DownloadFails, FeedsFail, UploadFails, ServeSaveTwice,
       FinishWithChanges, FinishWithoutChanges
  <2>3. CASE SkipSync(u) \/ Poll(u) \/ \E i \in Item : AddItem(u, i) \/ RemoveItem(u, i)
    BY <2>3 DEF SkipSync, Poll, AddItem, RemoveItem, Edit
  <2>4. CASE Reload(u)
    BY <2>4 DEF Reload, FinishWithChanges
  <2>5. QED
    BY <1>1, <2>1, <2>2, <2>3, <2>4
<1>3. CASE SyncStep(t)
  BY <1>3 DEF SyncStep, StartDownload, StartFeeds, StartUpload, Settle, Ready,
     Resting, ServeLoad, ServeUnchanged, MergeDownload, FeedsReturn, ServeSave,
     NoteUpload, UploadRefused
<1>4. CASE Fault(t)
  BY <1>4 DEF Fault, DownloadFails, FeedsFail, UploadFails, ServeSaveTwice
<1>5. CASE SkipSync(t) \/ Poll(t) \/ \E i \in Item : AddItem(t, i) \/ RemoveItem(t, i)
  BY <1>5 DEF SkipSync, Poll, AddItem, RemoveItem, Edit
<1>6. QED
  BY <1>1, <1>2, <1>3, <1>4, <1>5

-----------------------------------------------------------------------------
(* Every step keeps each part of the invariant. *)

(* A download is no older than what the tab knows, when answered and after. *)
LEMMA StepNewer ==
  ASSUME SyncInv, DownloadIsNewer, [Next]_vars
  PROVE  DownloadIsNewer'
<1> USE DEF SyncInv
<1> SUFFICES ASSUME NEW t \in Tab, job'[t].at \in {"loaded", "merged", "saved", "noted"}
             PROVE  known'[t].rev <= job'[t].ver.rev
  BY DEF DownloadIsNewer
<1>1. known'[t] = known[t]
  BY KnownStep, WorkFields DEF Empty
<1>2. CASE job'[t].ver = job[t].ver /\ job[t].at \in {"loaded", "merged", "saved", "noted"}
  BY <1>1, <1>2 DEF DownloadIsNewer
<1>3. CASE ServeLoad(t)
  <2>1. job'[t].ver.rev = Len(history)
    BY <1>3, JobMoves
  <2>2. known[t].rev \in 1..Len(history)
    BY DEF KnownRevisionIsGenuine, Genuine
  <2>3. QED
    BY <1>1, <2>1, <2>2
<1>4. CASE job'[t] = job[t]
  BY <1>2, <1>4
<1>5. CASE SaveDownload(t) \/ NoteDownload(t) \/ MergeDownload(t)
  BY <1>2, <1>5, JobMoves
<1>6. CASE NoteUpload(t) \/ ServeSave(t) \/ StartUpload(t) \/ job'[t].at \in Pausing
  BY <1>6, JobMoves DEF Pausing
<1>7. QED
  BY <1>3, <1>4, <1>5, <1>6, JobStep

(* mergeStorage keeps the ids of the downloaded side.                      *)
LEMMA StepKeepsRemote ==
  ASSUME SyncInv, MergeKeepsRemote, [Next]_vars
  PROVE  MergeKeepsRemote'
<1> USE DEF SyncInv
<1> SUFFICES ASSUME NEW t \in Tab, job'[t].at \in {"merged", "saved", "noted"}
             PROVE  Ids(job'[t].ver.items) \subseteq Ids(job'[t].new)
  BY DEF MergeKeepsRemote, Committing
<1>1. CASE Committing(t) /\ job'[t].ver = job[t].ver /\ job'[t].new = job[t].new
  BY <1>1 DEF MergeKeepsRemote
<1>2. CASE MergeDownload(t)
  <2>1. PICK S : /\ job'[t] = Work("merged", job[t].ver, S)
                 /\ S \in {job[t].ver.items, Upsert(mem[t], job[t].ver.items)}
    BY <1>2 DEF MergeDownload, Merge, TypeOK
  <2>2. QED
    BY <2>1, UpsertIds, WorkFields
<1>3. CASE job'[t] = job[t]
  BY <1>1, <1>3 DEF Committing
<1>4. CASE SaveDownload(t) \/ NoteDownload(t)
  BY <1>1, <1>4, JobMoves DEF Committing
<1>5. CASE NoteUpload(t) \/ ServeLoad(t) \/ ServeSave(t) \/ StartUpload(t) \/ job'[t].at \in Pausing
  BY <1>5, JobMoves DEF Pausing
<1>6. QED
  BY <1>2, <1>3, <1>4, <1>5, JobStep

(* mergeStorage keeps those of the local side, which stays as it was merged *)
(* because QuietCommit lets no edit fall into a commit.                     *)
LEMMA StepKeepsLocal ==
  ASSUME SyncInv, Proofs!Retained, DownloadIsNewer, MergeKeepsLocal, [Next]_vars
  PROVE  MergeKeepsLocal'
<1> USE DEF SyncInv
<1> SUFFICES ASSUME QuietCommit, NEW t \in Tab,
                    job'[t].at \in {"merged", "saved", "noted"}
             PROVE  Ids(mem'[t]) \ removed' \subseteq Ids(job'[t].new)
  BY DEF MergeKeepsLocal, Committing
<1>1. removed \subseteq removed'
  BY RemovedGrows
<1>2. CASE MergeDownload(t)
  <2>1. /\ job[t].at = "loaded" /\ mem' = mem
        /\ \E S : /\ job'[t] = Work("merged", job[t].ver, S)
                  /\ \/ S = job[t].ver.items /\ mem[t] \in {job[t].ver.items, known[t].items}
                     \/ S = Upsert(mem[t], job[t].ver.items)
    BY <1>2 DEF MergeDownload, Merge, TypeOK
  <2>2. Ids(known[t].items) \ removed \subseteq Ids(job[t].ver.items)
    <3>1. /\ known[t].rev \in 1..Len(history) /\ known[t].items = history[known[t].rev]
          /\ job[t].ver.rev \in 1..Len(history)
          /\ job[t].ver.items = history[job[t].ver.rev]
      BY <2>1 DEF KnownRevisionIsGenuine, HeldIsGenuine, Holding, Genuine
    <3>2. known[t].rev <= job[t].ver.rev
      BY <2>1 DEF DownloadIsNewer
    <3>3. QED
      BY <3>1, <3>2 DEF Proofs!Retained, Proofs!Carries, Proofs!Ids, Ids
  <2>3. QED
    BY <1>1, <2>1, <2>2, UpsertIds, WorkFields
<1>3. CASE ~MergeDownload(t)
  <2>1. Committing(t) /\ job'[t].new = job[t].new
    <3>1. CASE job'[t] = job[t]
      BY <3>1 DEF Committing
    <3>2. CASE SaveDownload(t) \/ NoteDownload(t)
      BY <3>2, JobMoves DEF Committing
    <3>3. CASE \/ NoteUpload(t) \/ ServeLoad(t) \/ ServeSave(t) \/ StartUpload(t)
               \/ job'[t].at \in Pausing
      BY <3>3, JobMoves DEF Pausing
    <3>4. QED
      BY <1>3, <3>1, <3>2, <3>3, JobStep
  <2>2. Ids(mem[t]) \ removed \subseteq Ids(job[t].new)
    BY <2>1 DEF MergeKeepsLocal
  <2>3. mem'[t] = mem[t]
    <3>1. SUFFICES ASSUME mem'[t] # mem[t] PROVE FALSE
      OBVIOUS
    <3>2. PICK u \in Tab : \/ ApplyDownload(u) \/ Reload(u) \/ FeedsReturn(u)
                           \/ \E i \in Item : AddItem(u, i) \/ RemoveItem(u, i)
      BY <3>1, MemChange
    <3>3. u = t
      BY <3>1, <3>2 DEF ApplyDownload, Reload, FeedsReturn, AddItem, RemoveItem, Edit, TypeOK
    <3>4. CASE ApplyDownload(t) \/ Reload(t)
      <4>1. job'[t] = Empty("idle")
        BY <3>4 DEF ApplyDownload, Reload, FinishWithChanges, TypeOK
      <4>2. QED
        BY <4>1, WorkFields DEF Empty
    <3>5. CASE FeedsReturn(t)
      BY <2>1, <3>5 DEF FeedsReturn, Committing
    <3>6. CASE \E i \in Item : AddItem(t, i) \/ RemoveItem(t, i)
      BY <2>1, <3>6 DEF AddItem, RemoveItem, Edit
    <3>7. QED
      BY <3>2, <3>3, <3>4, <3>5, <3>6
  <2>4. QED
    BY <1>1, <2>1, <2>2, <2>3
<1>4. QED
  BY <1>2, <1>3

(* Between sending a content and noting its revision, the tab only adds.    *)
LEMMA StepKeepsUpload ==
  ASSUME SyncInv, TabKeepsUpload, [Next]_vars
  PROVE  TabKeepsUpload'
<1> USE DEF SyncInv
<1> SUFFICES ASSUME NEW t \in Tab, job'[t].at \in {"upload", "accepted", "acknowledged"}
             PROVE  Ids(job'[t].ver.items) \ removed' \subseteq Ids(mem'[t])
  BY DEF TabKeepsUpload
<1>1. removed \subseteq removed'
  BY RemovedGrows
<1>2. Ids(mem[t]) \ removed' \subseteq Ids(mem'[t])
  <2>1. ~ApplyDownload(t) /\ ~Reload(t)
    BY WorkFields DEF ApplyDownload, Reload, FinishWithChanges, Empty, TypeOK
  <2>2. QED
    BY <2>1, MemStep
<1>3. CASE /\ job[t].at \in {"upload", "accepted", "acknowledged"}
           /\ job'[t].ver.items = job[t].ver.items
  BY <1>1, <1>2, <1>3 DEF TabKeepsUpload
<1>4. CASE StartUpload(t)
  <2>1. job'[t].ver = [rev |-> known[t].rev, items |-> mem[t]]
    BY <1>4, JobMoves
  <2>2. job'[t].ver.items = mem[t]
    BY <2>1
  <2>3. QED
    BY <1>2, <2>2
<1>5. CASE job'[t] = job[t]
  BY <1>3, <1>5
<1>6. CASE NoteUpload(t)
  BY <1>3, <1>6, JobMoves
<1>7. CASE ServeSave(t)
  BY <1>3, <1>7, JobMoves
<1>8. CASE \/ SaveDownload(t) \/ NoteDownload(t) \/ MergeDownload(t) \/ ServeLoad(t)
           \/ job'[t].at \in Pausing
  BY <1>8, JobMoves DEF Pausing
<1>9. QED
  BY <1>4, <1>5, <1>6, <1>7, <1>8, JobStep

(* What the tab knows is the base of its next upload: here a reload must   *)
(* find browser storage as the tab left it.                                *)
LEMMA StepCarries ==
  ASSUME SyncInv, Proofs!Retained, TabInv, ReloadsAreSafe, [Next]_vars
  PROVE  TabCarries'
<1> USE DEF SyncInv
<1> SUFFICES ASSUME NEW t \in Tab
             PROVE  Ids(history'[known'[t].rev]) \ removed' \subseteq Ids(mem'[t])
  BY DEF TabCarries
<1>1. removed \subseteq removed'
  BY RemovedGrows
<1>2. ASSUME NEW v, Genuine(v) PROVE history'[v.rev] = v.items
  BY <1>2, GenuineStays
<1>3. Genuine(known[t])
  BY DEF KnownRevisionIsGenuine
<1>4. Ids(known[t].items) \ removed \subseteq Ids(mem[t])
  BY <1>3 DEF TabInv, TabCarries, Genuine
<1>5. CASE ApplyDownload(t)
  <2>1. /\ job[t].at = "noted" /\ mem'[t] = job[t].new /\ known'[t] = job[t].ver
    BY <1>5 DEF ApplyDownload, TypeOK
  <2>2. Ids(job[t].ver.items) \subseteq Ids(job[t].new)
    BY <2>1 DEF TabInv, MergeKeepsRemote, Committing
  <2>3. Genuine(job[t].ver)
    BY <2>1 DEF HeldIsGenuine, Holding
  <2>4. QED
    BY <1>2, <2>1, <2>2, <2>3
<1>6. CASE ApplyUpload(t)
  <2>1. /\ job[t].at = "acknowledged" /\ mem' = mem /\ known'[t] = job[t].ver
    BY <1>6 DEF ApplyUpload, TypeOK
  <2>2. Ids(job[t].ver.items) \ removed \subseteq Ids(mem[t])
    BY <2>1 DEF TabInv, TabKeepsUpload
  <2>3. Genuine(job[t].ver)
    BY <2>1 DEF HeldIsGenuine, Holding
  <2>4. QED
    BY <1>1, <1>2, <2>1, <2>2, <2>3
<1>7. CASE Reload(t)
  <2>1. QuietCommit /\ Injective
    BY <1>7, SyncAssumption DEF Reload, ReloadsAreSafe, TypeOK, SyncAssumption
  <2>2. disk[DeviceOf[t]] = [pcds |-> DiskPCDs(t), status |-> DiskStatus(t)]
    BY <2>1 DEF TabInv, DiskFollows
  <2>3. mem'[t] = disk[DeviceOf[t]].pcds /\ known'[t] = disk[DeviceOf[t]].status
    BY <1>7 DEF Reload, TypeOK
  <2>4. mem'[t] = DiskPCDs(t) /\ known'[t] = DiskStatus(t)
    BY <2>2, <2>3
  <2>5. CASE job[t].at = "noted"
    <3>1. mem'[t] = job[t].new /\ known'[t] = job[t].ver
      BY <2>4, <2>5 DEF DiskPCDs, DiskStatus
    <3>2. Ids(job[t].ver.items) \subseteq Ids(job[t].new) /\ Genuine(job[t].ver)
      BY <2>5 DEF TabInv, MergeKeepsRemote, Committing, HeldIsGenuine, Holding
    <3>3. QED
      BY <1>2, <3>1, <3>2
  <2>6. CASE job[t].at = "saved"
    <3>1. mem'[t] = job[t].new /\ known'[t] = known[t]
      BY <2>4, <2>6 DEF DiskPCDs, DiskStatus
    <3>2. Ids(known[t].items) \ removed \subseteq Ids(job[t].ver.items)
      <4>1. Genuine(job[t].ver) /\ known[t].rev <= job[t].ver.rev
        BY <2>6 DEF TabInv, DownloadIsNewer, HeldIsGenuine, Holding
      <4>2. QED
        BY <1>3, <4>1 DEF Genuine, Proofs!Retained, Proofs!Carries, Proofs!Ids, Ids
    <3>3. Ids(job[t].ver.items) \subseteq Ids(job[t].new)
      BY <2>6 DEF TabInv, MergeKeepsRemote, Committing
    <3>4. QED
      BY <1>1, <1>2, <1>3, <3>1, <3>2, <3>3
  <2>7. CASE job[t].at = "acknowledged"
    <3>1. mem'[t] = mem[t] /\ known'[t] = job[t].ver
      BY <2>4, <2>7 DEF DiskPCDs, DiskStatus
    <3>2. Ids(job[t].ver.items) \ removed \subseteq Ids(mem[t]) /\ Genuine(job[t].ver)
      BY <2>7 DEF TabInv, TabKeepsUpload, HeldIsGenuine, Holding
    <3>3. QED
      BY <1>1, <1>2, <3>1, <3>2
  <2>8. CASE job[t].at \notin {"saved", "noted", "acknowledged"}
    <3>1. mem'[t] = mem[t] /\ known'[t] = known[t]
      BY <2>4, <2>8 DEF DiskPCDs, DiskStatus
    <3>2. QED
      BY <1>1, <1>2, <1>3, <1>4, <3>1
  <2>9. QED
    BY <2>5, <2>6, <2>7, <2>8
<1>8. CASE ~ApplyDownload(t) /\ ~ApplyUpload(t) /\ ~Reload(t)
  <2>1. known'[t] = known[t]
    BY <1>8, KnownStep
  <2>2. Ids(mem[t]) \ removed' \subseteq Ids(mem'[t])
    BY <1>8, MemStep
  <2>3. QED
    BY <1>1, <1>2, <1>3, <1>4, <2>1, <2>2
<1>9. QED
  BY <1>5, <1>6, <1>7, <1>8

(* Each write to browser storage, and each update of the tab, keeps the    *)
(* two together as DiskFollows says.                                       *)
LEMMA StepDisk ==
  ASSUME SyncInv, DiskFollows, [Next]_vars
  PROVE  DiskFollows'
<1> USE DEF SyncInv
<1> SUFFICES ASSUME QuietCommit, Injective, NEW t \in Tab
             PROVE  disk'[DeviceOf[t]] = [pcds |-> DiskPCDs(t)', status |-> DiskStatus(t)']
  BY DEF DiskFollows
<1>1. /\ disk[DeviceOf[t]] = [pcds |-> DiskPCDs(t), status |-> DiskStatus(t)]
      /\ DeviceOf[t] \in Device
  BY SyncAssumption DEF DiskFollows, SyncAssumption
<1>2. ASSUME NEW S \in SUBSET Item, disk' = [disk EXCEPT ![DeviceOf[t]].pcds = S]
      PROVE  disk'[DeviceOf[t]] = [pcds |-> S, status |-> DiskStatus(t)]
  <2>1. disk' = [disk EXCEPT ![DeviceOf[t]] = [pcds |-> S, status |-> disk[DeviceOf[t]].status]]
    BY <1>1, <1>2, SavePCDs DEF TypeOK
  <2>2. disk[DeviceOf[t]].status = DiskStatus(t)
    BY <1>1
  <2>3. QED
    BY <1>1, <2>1, <2>2 DEF TypeOK
<1>3. ASSUME NEW v \in Known, disk' = [disk EXCEPT ![DeviceOf[t]].status = v]
      PROVE  disk'[DeviceOf[t]] = [pcds |-> DiskPCDs(t), status |-> v]
  <2>1. disk' = [disk EXCEPT ![DeviceOf[t]] = [pcds |-> disk[DeviceOf[t]].pcds, status |-> v]]
    BY <1>1, <1>3, SaveStatus DEF TypeOK
  <2>2. disk[DeviceOf[t]].pcds = DiskPCDs(t)
    BY <1>1
  <2>3. QED
    BY <1>1, <2>1, <2>2 DEF TypeOK
<1>4. CASE SaveDownload(t)
  <2>1. /\ job[t].at = "merged" /\ job'[t].at = "saved" /\ job'[t].ver = job[t].ver
        /\ job'[t].new = job[t].new /\ known' = known
        /\ disk' = [disk EXCEPT ![DeviceOf[t]].pcds = job[t].new]
    BY <1>4, JobMoves DEF SaveDownload
  <2>2. disk'[DeviceOf[t]] = [pcds |-> job[t].new, status |-> DiskStatus(t)]
    BY <1>2, <2>1, JobFields DEF TypeOK
  <2>3. DiskPCDs(t)' = job[t].new /\ DiskStatus(t)' = DiskStatus(t)
    BY <2>1 DEF DiskPCDs, DiskStatus
  <2>4. QED
    BY <2>2, <2>3
<1>5. CASE NoteDownload(t)
  <2>1. /\ job[t].at = "saved" /\ job'[t].at = "noted" /\ job'[t].ver = job[t].ver
        /\ job'[t].new = job[t].new
        /\ disk' = [disk EXCEPT ![DeviceOf[t]].status = job[t].ver]
    BY <1>5, JobMoves DEF NoteDownload
  <2>2. disk'[DeviceOf[t]] = [pcds |-> DiskPCDs(t), status |-> job[t].ver]
    BY <1>3, <2>1, HeldType DEF Holding
  <2>3. DiskPCDs(t)' = DiskPCDs(t) /\ DiskStatus(t)' = job[t].ver
    BY <2>1 DEF DiskPCDs, DiskStatus
  <2>4. QED
    BY <2>2, <2>3
<1>6. CASE NoteUpload(t)
  <2>1. /\ job[t].at = "accepted" /\ job'[t].at = "acknowledged" /\ mem' = mem
        /\ job'[t].ver = job[t].ver
        /\ disk' = [disk EXCEPT ![DeviceOf[t]].status = job[t].ver]
    BY <1>6, JobMoves DEF NoteUpload
  <2>2. disk'[DeviceOf[t]] = [pcds |-> DiskPCDs(t), status |-> job[t].ver]
    BY <1>3, <2>1, HeldType DEF Holding
  <2>3. DiskPCDs(t)' = DiskPCDs(t) /\ DiskStatus(t)' = job[t].ver
    BY <2>1 DEF DiskPCDs, DiskStatus
  <2>4. QED
    BY <2>2, <2>3
<1>7. CASE FeedsReturn(t)
  <2>1. /\ job[t].at = "feeds" /\ job'[t].at = "idle" /\ known' = known
        /\ mem'[t] = Upsert(mem[t], Issued)
        /\ disk' = [disk EXCEPT ![DeviceOf[t]].pcds = Upsert(mem[t], Issued)]
    BY <1>7, WorkFields DEF FeedsReturn, FinishWithChanges, Empty, TypeOK
  <2>2. Upsert(mem[t], Issued) \in SUBSET Item
    BY UpsertType, SyncAssumption DEF TypeOK, SyncAssumption
  <2>3. disk'[DeviceOf[t]] = [pcds |-> Upsert(mem[t], Issued), status |-> DiskStatus(t)]
    BY <1>2, <2>1, <2>2
  <2>4. DiskPCDs(t)' = Upsert(mem[t], Issued) /\ DiskStatus(t)' = DiskStatus(t)
    BY <2>1 DEF DiskPCDs, DiskStatus
  <2>5. QED
    BY <2>3, <2>4
<1>8. ASSUME NEW i \in Item, AddItem(t, i) \/ RemoveItem(t, i)
      PROVE  disk'[DeviceOf[t]] = [pcds |-> DiskPCDs(t)', status |-> DiskStatus(t)']
  <2>1. PICK S \in SUBSET Item : Edit(t, S)
    BY <1>8, UpsertType DEF AddItem, RemoveItem, TypeOK
  <2>2. /\ job[t].at \notin {"merged", "saved", "noted"} /\ job' = job
        /\ known' = known /\ mem'[t] = S
        /\ disk' = [disk EXCEPT ![DeviceOf[t]].pcds = S]
    BY <2>1 DEF Edit, Committing, TypeOK
  <2>3. disk'[DeviceOf[t]] = [pcds |-> S, status |-> DiskStatus(t)]
    BY <1>2, <2>2
  <2>4. DiskPCDs(t)' = S /\ DiskStatus(t)' = DiskStatus(t)
    BY <2>2 DEF DiskPCDs, DiskStatus
  <2>5. QED
    BY <2>3, <2>4
<1>9. CASE ApplyDownload(t)
  <2>1. /\ job[t].at = "noted" /\ job'[t].at = "idle" /\ disk' = disk
        /\ mem'[t] = job[t].new /\ known'[t] = job[t].ver
    BY <1>9, WorkFields DEF ApplyDownload, FinishWithChanges, Empty, TypeOK
  <2>2. /\ DiskPCDs(t)' = DiskPCDs(t) /\ DiskStatus(t)' = DiskStatus(t)
    BY <2>1 DEF DiskPCDs, DiskStatus
  <2>3. QED
    BY <1>1, <2>1, <2>2
<1>10. CASE ApplyUpload(t)
  <2>1. /\ job[t].at = "acknowledged" /\ job'[t].at = "idle" /\ disk' = disk
        /\ mem' = mem /\ known'[t] = job[t].ver
    BY <1>10, WorkFields DEF ApplyUpload, FinishWithChanges, Empty, TypeOK
  <2>2. /\ DiskPCDs(t)' = DiskPCDs(t) /\ DiskStatus(t)' = DiskStatus(t)
    BY <2>1 DEF DiskPCDs, DiskStatus
  <2>3. QED
    BY <1>1, <2>1, <2>2
<1>11. CASE Reload(t)
  <2>1. /\ job'[t].at = "idle" /\ disk' = disk
        /\ mem'[t] = disk[DeviceOf[t]].pcds /\ known'[t] = disk[DeviceOf[t]].status
    BY <1>11, WorkFields DEF Reload, FinishWithChanges, Empty, TypeOK
  <2>2. /\ DiskPCDs(t)' = disk[DeviceOf[t]].pcds
        /\ DiskStatus(t)' = disk[DeviceOf[t]].status
    BY <2>1 DEF DiskPCDs, DiskStatus
  <2>3. QED
    BY <1>1, <2>1, <2>2
<1>12. CASE /\ ~SaveDownload(t) /\ ~NoteDownload(t) /\ ~NoteUpload(t)
            /\ ~FeedsReturn(t) /\ ~ApplyDownload(t) /\ ~ApplyUpload(t) /\ ~Reload(t)
            /\ \A i \in Item : ~AddItem(t, i) /\ ~RemoveItem(t, i)
  <2>1. known'[t] = known[t]
    BY <1>12, KnownStep
  <2>2. mem'[t] = mem[t]
    <3>1. CASE mem' # mem
      <4>1. PICK u \in Tab : /\ u # t
                             /\ \/ ApplyDownload(u) \/ Reload(u) \/ FeedsReturn(u)
                                \/ \E i \in Item : AddItem(u, i) \/ RemoveItem(u, i)
        BY <1>12, <3>1, MemChange
      <4>2. QED
        BY <4>1 DEF ApplyDownload, Reload, FeedsReturn, AddItem, RemoveItem, Edit, TypeOK
    <3>2. QED
      BY <3>1
  <2>3. disk'[DeviceOf[t]] = disk[DeviceOf[t]]
    <3>1. CASE disk' # disk
      <4>1. PICK u \in Tab : /\ u # t
                             /\ \/ NoteDownload(u) \/ NoteUpload(u)
                                \/ SaveDownload(u) \/ FeedsReturn(u)
                                \/ \E i \in Item : AddItem(u, i) \/ RemoveItem(u, i)
        BY <1>12, <3>1, DiskChange
      <4>2. DeviceOf[u] # DeviceOf[t]
        BY <4>1 DEF Injective
      <4>3. CASE NoteDownload(u) \/ NoteUpload(u)
        <5>1. /\ disk' = [disk EXCEPT ![DeviceOf[u]].status = job[u].ver]
              /\ job[u].ver \in Known /\ DeviceOf[u] \in Device
          BY <4>3, HeldType, SyncAssumption DEF NoteDownload, NoteUpload, Holding, SyncAssumption
        <5>2. disk' = [disk EXCEPT ![DeviceOf[u]] =
                         [pcds |-> disk[DeviceOf[u]].pcds, status |-> job[u].ver]]
          BY <5>1, SaveStatus DEF TypeOK
        <5>3. QED
          BY <1>1, <4>2, <5>2 DEF TypeOK
      <4>4. CASE ~NoteDownload(u) /\ ~NoteUpload(u)
        <5>1. PICK S \in SUBSET Item : disk' = [disk EXCEPT ![DeviceOf[u]].pcds = S]
          <6>1. CASE SaveDownload(u)
            BY <6>1, JobFields DEF SaveDownload, TypeOK
          <6>2. CASE FeedsReturn(u)
            BY <6>2, UpsertType, SyncAssumption DEF FeedsReturn, TypeOK, SyncAssumption
          <6>3. ASSUME NEW i \in Item, AddItem(u, i) \/ RemoveItem(u, i)
                PROVE  \E S \in SUBSET Item : disk' = [disk EXCEPT ![DeviceOf[u]].pcds = S]
            <7>1. PICK S \in SUBSET Item : Edit(u, S)
              BY <6>3, UpsertType DEF AddItem, RemoveItem, TypeOK
            <7>2. QED
              BY <7>1 DEF Edit
          <6>4. QED
            BY <4>1, <4>4, <6>1, <6>2, <6>3
        <5>2. DeviceOf[u] \in Device
          BY SyncAssumption DEF SyncAssumption
        <5>3. disk' = [disk EXCEPT ![DeviceOf[u]] =
                         [pcds |-> S, status |-> disk[DeviceOf[u]].status]]
          BY <5>1, <5>2, SavePCDs DEF TypeOK
        <5>4. QED
          BY <1>1, <4>2, <5>3 DEF TypeOK
      <4>5. QED
        BY <4>3, <4>4
    <3>2. QED
      BY <3>1
  <2>4. \/ job'[t] = job[t]
        \/ /\ job[t].at \notin {"saved", "noted", "acknowledged"}
           /\ job'[t].at \notin {"saved", "noted", "acknowledged"}
    BY <1>12, JobStep, JobMoves, CommitEnds DEF Pausing
  <2>5. DiskPCDs(t)' = DiskPCDs(t) /\ DiskStatus(t)' = DiskStatus(t)
    BY <2>1, <2>2, <2>4 DEF DiskPCDs, DiskStatus
  <2>6. QED
    BY <1>1, <2>3, <2>5
<1>13. QED
  BY <1>4, <1>5, <1>6, <1>7, <1>8, <1>9, <1>10, <1>11, <1>12

-----------------------------------------------------------------------------
(* Every step of the sync is a step of the vault. *)

(* A request outlives its sender by a failure or a reload.                 *)
LEMMA OrphanChange ==
  ASSUME [Next]_vars, orphans' # orphans
  PROVE  \/ \E t \in Tab : UploadFails(t) \/ Reload(t)
         \/ \E r \in orphans : ServeOrphan(r)
  BY DEF Next, SyncStep, Fault, vars, SkipSync, StartDownload, StartFeeds,
         StartUpload, Settle, ServeLoad, ServeUnchanged, MergeDownload,
         SaveDownload, NoteDownload, ApplyDownload, FeedsReturn, ServeSave,
         NoteUpload, ApplyUpload, UploadRefused, DownloadFails, FeedsFail,
         ServeSaveTwice, Poll, AddItem, RemoveItem, Edit

(* Only StartUpload proposes something.                                    *)
LEMMA ProposalsShrink ==
  ASSUME TypeOK, [Next]_vars, \A t \in Tab : ~StartUpload(t)
  PROVE  Proposals' \subseteq Proposals
<1>1. ASSUME NEW t \in Tab, job'[t].at = "upload"
      PROVE  job[t].at = "upload" /\ job'[t] = job[t]
  BY <1>1, JobStep, JobMoves DEF Pausing
<1>2. orphans' \subseteq Proposals
  BY OrphanChange DEF Proposals, UploadFails, Reload, ServeOrphan
<1>3. QED
  BY <1>1, <1>2 DEF Proposals

(* What the server stores is a proposal made from its latest version.      *)
LEMMA Appended ==
  ASSUME TypeOK, [Next]_vars, history' # history
  PROVE  \E p \in Proposals : p.rev = Len(history) /\ history' = Append(history, p.items)
<1>1. ASSUME NEW t \in Tab,
             \/ ServeSave(t) /\ job[t].ver.rev = Len(history)
             \/ ServeSaveTwice(t)
      PROVE  /\ job[t].ver \in Proposals /\ job[t].ver.rev = Len(history)
             /\ history' = Append(history, job[t].ver.items)
  BY <1>1 DEF ServeSave, ServeSaveTwice, Proposals
<1>2. ASSUME NEW r \in orphans, ServeOrphan(r), r.rev = Len(history)
      PROVE  r \in Proposals /\ history' = Append(history, r.items)
  BY <1>2 DEF ServeOrphan, Proposals
<1>3. QED
  BY <1>1, <1>2, HistoryChange

(* Starting an upload proposes, a removal removes, what the server stores is *)
(* accepted, and everything else is nothing to the vault, or drops.         *)
LEMMA StepVault ==
  ASSUME SyncInv, TabCarries, [Next]_vars
  PROVE  Vault!VaultNext
<1> USE DEF SyncInv
<1>1. CASE \E t \in Tab : StartUpload(t)
  <2>1. PICK t \in Tab : StartUpload(t)
    BY <1>1
  <2>2. known[t].rev \in 1..Len(history) /\ mem[t] \in SUBSET Item
    BY DEF KnownRevisionIsGenuine, Genuine, TypeOK
  <2>3. Vault!Carries(mem[t], known[t].rev)
    BY DEF TabCarries, Vault!Carries, Vault!Ids, Ids
  <2>4. Proposals' = Proposals \cup {[rev |-> known[t].rev, items |-> mem[t]]}
    <3>1. /\ job[t].at # "upload" /\ job'[t].at = "upload" /\ orphans' = orphans
          /\ job'[t].ver = [rev |-> known[t].rev, items |-> mem[t]]
          /\ \A u \in Tab \ {t} : job'[u] = job[u]
      BY <2>1, JobMoves DEF StartUpload, Ready, Resting, TypeOK
    <3>2. QED
      BY <3>1 DEF Proposals
  <2>5. history' = history /\ removed' = removed
    BY <2>1 DEF StartUpload
  <2>6. \E n \in 1..Len(history), S \in SUBSET Item : Vault!Propose(n, S)
    BY <2>2, <2>3, <2>4, <2>5 DEF Vault!Propose, Proposals
  <2>7. QED
    BY <2>6, Zenon DEF Vault!VaultNext
<1>2. CASE \E t \in Tab, i \in Item : RemoveItem(t, i)
  <2>1. PICK t \in Tab, i \in Item : RemoveItem(t, i)
    BY <1>2
  <2>2. /\ IdOf[i] \in Id /\ removed' = removed \cup {IdOf[i]}
        /\ history' = history /\ job' = job /\ orphans' = orphans
    BY <2>1, SyncAssumption DEF RemoveItem, Edit, SyncAssumption
  <2>3. Vault!Remove(IdOf[i])
    BY <2>2 DEF Vault!Remove
  <2>4. QED
    BY <2>2, <2>3 DEF Vault!VaultNext
<1>3. CASE /\ \A t \in Tab : ~StartUpload(t)
           /\ \A t \in Tab, i \in Item : ~RemoveItem(t, i)
  <2>1. Proposals' \subseteq Proposals /\ removed' = removed
    BY <1>3, ProposalsShrink, RemovedChange
  <2>2. CASE history' = history
    <3>1. Vault!Drop
      BY <2>1, <2>2 DEF Vault!Drop, Proposals
    <3>2. QED
      BY <3>1 DEF Vault!VaultNext
  <2>3. CASE history' # history
    <3>1. PICK p \in Proposals : p.rev = Len(history) /\ history' = Append(history, p.items)
      BY <2>3, Appended
    <3>2. Vault!Accept(p)
      BY <2>1, <3>1 DEF Vault!Accept, Proposals
    <3>3. QED
      BY <3>1, <3>2 DEF Vault!VaultNext, Proposals
  <2>4. QED
    BY <2>2, <2>3
<1>4. QED
  BY <1>1, <1>2, <1>3

(* The two readings of the vault, with and without its proofs, are one.    *)
LEMMA SameVault == Vault!VaultNext => Proofs!VaultNext
  BY DEF Vault!VaultNext, Proofs!VaultNext, Vault!Remove, Proofs!Remove,
         Vault!Propose, Proofs!Propose, Vault!Accept, Proofs!Accept,
         Vault!Drop, Proofs!Drop, Vault!Carries, Proofs!Carries, Vault!Ids,
         Proofs!Ids, Proposals

-----------------------------------------------------------------------------
(* The invariant, and what follows from it. *)

(* The invariant holds after the login, and the vault starts as it should.  *)
LEMMA InitVault == Init => VaultInv /\ Vault!VaultInit
<1> SUFFICES ASSUME Init PROVE VaultInv /\ Vault!VaultInit
  OBVIOUS
<1>1. SyncInv
  BY InitType, InitKnown DEF SyncInv
<1>2. /\ history = <<Original>> /\ history[1] = Original /\ removed = {}
      /\ \A t \in Tab : /\ job[t].at = "idle" /\ mem[t] = Original
                        /\ known[t] = [rev |-> 1, items |-> Original]
  BY WorkFields DEF Init, Empty
<1>3. Proposals = {}
  BY <1>2 DEF Proposals, Init
<1>4. Proofs!VaultInit /\ Vault!VaultInit
  BY <1>2, <1>3 DEF Proofs!VaultInit, Vault!VaultInit, Proposals
<1>5. Proofs!VaultInv
  BY <1>4, SyncAssumption, Proofs!InitVault DEF SyncAssumption
<1>6. TabCarries
  BY <1>2 DEF TabCarries
<1>7. DownloadIsNewer /\ MergeKeepsRemote /\ MergeKeepsLocal /\ TabKeepsUpload
  BY <1>2 DEF DownloadIsNewer, MergeKeepsRemote, MergeKeepsLocal, TabKeepsUpload, Committing
<1>8. DiskFollows
  <2>1. \A d \in Device : disk[d] = [pcds |-> Original, status |-> [rev |-> 1, items |-> Original]]
    BY DEF Init
  <2>2. \A t \in Tab : DiskPCDs(t) = mem[t] /\ DiskStatus(t) = known[t]
    BY <1>2 DEF DiskPCDs, DiskStatus
  <2>3. QED
    BY <1>2, <2>1, <2>2, SyncAssumption DEF DiskFollows, SyncAssumption
<1>9. QED
  BY <1>1, <1>4, <1>5, <1>6, <1>7, <1>8 DEF VaultInv, TabInv

(* Every step keeps the invariant, and is one of the vault.                 *)
LEMMA StepInv ==
  ASSUME ReloadsAreSafe, VaultInv, [Next]_vars
  PROVE  VaultInv' /\ Vault!VaultNext
<1> USE DEF VaultInv
<1>1. SyncInv'
  BY StepType, StepHeld, StepKnown DEF SyncInv
<1>2. Vault!VaultNext
  BY StepVault DEF TabInv
<1>3. Proofs!VaultInv'
  BY <1>2, SameVault, Proofs!StepVault
<1>4. Proofs!Retained
  BY DEF Proofs!VaultInv
<1>5. TabInv'
  BY <1>4, StepCarries, StepNewer, StepKeepsRemote, StepKeepsLocal, StepKeepsUpload,
     StepDisk DEF TabInv
<1>6. QED
  BY <1>1, <1>2, <1>3, <1>5

(* The server's copy under sync, with uploads delayed, repeated or lost,   *)
(* edits at any time, devices that race and pages that go away, behaves    *)
(* like the shared vault: each version is a proposal made from the version *)
(* before it and keeps all its objects that no user removed.               *)
THEOREM SyncImplementsVault ==
  ASSUME ReloadsAreSafe
  PROVE  Spec => VaultSpec
<1>1. Init => VaultInv /\ Vault!VaultInit
  BY InitVault
<1>2. VaultInv /\ [Next]_vars => VaultInv' /\ [Vault!VaultNext]_Vault!vaultVars
  BY StepInv
<1>3. QED
  BY <1>1, <1>2, PTL DEF Spec, VaultSpec, Vault!VaultSpec

(* No upload takes an object from the server that no user removed: the     *)
(* promise of mergeStorage together with the check of the revision.        *)
THEOREM ServerKeepsObjects ==
  ASSUME ReloadsAreSafe
  PROVE  Spec => NothingLostFromServer
<1>1. Init => VaultInv
  BY InitVault
<1>2. VaultInv /\ [Next]_vars => VaultInv'
  BY StepInv
<1>3. ASSUME VaultInv, [Next]_vars
      PROVE  Ids(history[Len(history)]) \ removed \subseteq Ids(history'[Len(history')])
  <2> USE <1>3 DEF VaultInv, SyncInv
  <2>1. VaultInv'
    BY StepInv
  <2>2. removed \subseteq removed'
    BY RemovedGrows
  <2>3. Len(history) \in 1..Len(history)
    BY DEF TypeOK
  <2>4. Len(history) \in 1..Len(history') /\ history'[Len(history)] = history[Len(history)]
    BY <2>3, StoredStays
  <2>5. CASE history' = history
    BY <2>5
  <2>6. CASE history' # history
    <3>1. PICK p \in Proposals : p.rev = Len(history) /\ history' = Append(history, p.items)
      BY <2>6, Appended
    <3>2. Ids(history[Len(history)]) \ removed \subseteq Ids(p.items)
      BY <3>1 DEF Proofs!VaultInv, Proofs!Honest, Proofs!Carries, Proofs!Ids, Ids
    <3>3. p.items \in SUBSET Item /\ history \in Seq(SUBSET Item)
      BY DEF Proofs!VaultInv, Proofs!Honest
    <3>4. history'[Len(history')] = p.items
      BY <3>1, <3>3
    <3>5. QED
      BY <3>2, <3>4
  <2>7. QED
    BY <2>5, <2>6
<1>4. QED
  BY <1>1, <1>2, <1>3, PTL DEF Spec, NothingLostFromServer

(* No download, merge, reload or answer of a feed takes an object from a   *)
(* tab that no user removed.                                               *)
THEOREM TabKeepsObjects ==
  ASSUME ReloadsAreSafe, QuietCommit
  PROVE  Spec => NothingLostFromTab
<1>1. Init => VaultInv
  BY InitVault
<1>2. VaultInv /\ [Next]_vars => VaultInv'
  BY StepInv
<1>3. ASSUME VaultInv, [Next]_vars
      PROVE  \A t \in Tab : Ids(mem[t]) \ removed' \subseteq Ids(mem'[t])
  <2> SUFFICES ASSUME NEW t \in Tab
               PROVE  Ids(mem[t]) \ removed' \subseteq Ids(mem'[t])
    OBVIOUS
  <2> USE <1>3 DEF VaultInv, SyncInv
  <2>1. removed \subseteq removed'
    BY RemovedGrows
  <2>2. Committing(t) => Ids(mem[t]) \ removed \subseteq Ids(job[t].new)
    BY DEF TabInv, MergeKeepsLocal
  <2>3. CASE ApplyDownload(t)
    <3>1. Committing(t) /\ mem'[t] = job[t].new
      BY <2>3 DEF ApplyDownload, Committing, TypeOK
    <3>2. QED
      BY <2>1, <2>2, <3>1
  <2>4. CASE Reload(t)
    <3>1. Injective
      BY <2>4, SyncAssumption DEF Reload, ReloadsAreSafe, TypeOK, SyncAssumption
    <3>2. disk[DeviceOf[t]] = [pcds |-> DiskPCDs(t), status |-> DiskStatus(t)]
      BY <3>1 DEF TabInv, DiskFollows
    <3>3. mem'[t] = DiskPCDs(t)
      BY <2>4, <3>2 DEF Reload, TypeOK
    <3>4. DiskPCDs(t) = mem[t] \/ (Committing(t) /\ DiskPCDs(t) = job[t].new)
      BY DEF DiskPCDs, Committing
    <3>5. QED
      BY <2>1, <2>2, <3>3, <3>4
  <2>5. QED
    BY <2>3, <2>4, MemStep
<1>4. QED
  BY <1>1, <1>2, <1>3, PTL DEF Spec, NothingLostFromTab
=============================================================================
