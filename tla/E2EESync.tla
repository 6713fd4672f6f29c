------------------------------ MODULE E2EESync ------------------------------
(***************************************************************************)
(* End-to-end encrypted sync between the tabs of one account and the       *)
(* passport server: the sync loop of the client (sync and doSync in        *)
(* dispatch.ts, download, merge and upload in useSyncE2EEStorage.tsx), the *)
(* local edits that run between its awaits, the browser storage it saves   *)
(* to (localstorage.ts), the server's compare-and-swap on the revision     *)
(* (e2eeService.ts, queries/e2ee.ts), requests that fail or whose answer   *)
(* is lost, and tabs that reload at any point.                             *)
(*                                                                         *)
(* A content (PCDs and subscriptions) is a set of items.  Two items with   *)
(* one id are two values of one object.  The storage hash is modelled by   *)
(* the content it hashes.  All tabs are logged in with the same key.       *)
(***************************************************************************)
EXTENDS Naturals, Sequences, FiniteSets

CONSTANTS Tab,        \* browser tabs that run the app
          Device,     \* browsers: the tabs of one share its storage
          DeviceOf,   \* the browser of each tab
          Item, Id,   \* values of objects, and ids of objects
          IdOf,       \* the id of each item
          Original,   \* the content the tabs logged in with
          Issued,     \* what the feeds issue, one item per id
          MaxEdits,   \* bound: local edits
          MaxReloads, \* bound: reloads of a tab
          MaxFaults,  \* bound: failed requests and lost answers
          QuietCommit, \* TRUE: no edit while a download is being committed
          PatientPoll  \* TRUE: a poll comes only between two rounds of sync

ASSUME SyncAssumption ==
    /\ DeviceOf \in [Tab -> Device]
    /\ IdOf \in [Item -> Id]
    /\ Original \subseteq Item
    /\ Issued \subseteq Item
    /\ \A i, j \in Issued : IdOf[i] = IdOf[j] => i = j
    /\ MaxEdits \in Nat /\ MaxReloads \in Nat /\ MaxFaults \in Nat
    /\ QuietCommit \in BOOLEAN /\ PatientPoll \in BOOLEAN

VARIABLES
    history,   \* server: the contents the row has held; its revision is the length
    orphans,   \* upload requests whose sender has stopped waiting
    mem,       \* AppState.pcds and subscriptions of each tab
    known,     \* AppState.serverStorageRevision and serverStorageHash
    flags,     \* the fields of AppState's sync state that are true
    disk,      \* browser storage of each device: the collection and sync_status
    job,       \* where each tab's sync() stands, and the data it holds there
    due,       \* a sync dispatch is scheduled (setTimeout)
    skipped,   \* skippedSyncUpdates > 0
    removed,   \* history variable: ids some user removed
    edits, reloads, faults   \* counters of the bounds

clientVars == <<mem, known, flags, disk, job, due, skipped>>
budget == <<edits, reloads, faults>>
vars == <<history, orphans, mem, known, flags, disk, job, due, skipped,
          removed, edits, reloads, faults>>

Ids(S) == {IdOf[i] : i \in S}

\* addAll with upsert: the items of T replace those of S with their ids.
Upsert(S, T) == T \cup {i \in S : IdOf[i] \notin Ids(T)}

\* mergeStorage: everything remote, and what is local only.
Merge(local, remote) == Upsert(local, remote)

Version == [rev : Nat, items : SUBSET Item]

\* What a tab or a device remembers of the server after login.
Known == [rev : Nat \ {0}, items : SUBSET Item]

Saved == [pcds : SUBSET Item, status : Known]

Flag == {"downloadedPCDs", "loadedIssuedPCDs", "completedFirstSync",
         "extraDownloadRequested", "extraSubscriptionFetchRequested"}

Phase == {"idle", "stalled",                                \* not in doSync
          "download", "loaded", "merged", "saved", "noted", \* downloading
          "feeds",                                          \* polling feeds
          "upload", "accepted", "refused", "acknowledged"}  \* uploading

Job == [at : Phase, ver : Version, new : SUBSET Item]

\* A phase, the version it downloads or uploads, and the content to commit.
Work(phase, ver, new) == [at |-> phase, ver |-> ver, new |-> new]

Empty(phase) == Work(phase, [rev |-> 0, items |-> {}], {})

\* sync() is not running in t; "stalled" if its last upload failed for good.
Resting(t) == job[t].at \in {"idle", "stalled"}

\* The collection of t is about to be replaced by a content already computed.
Committing(t) == job[t].at \in {"merged", "saved", "noted"}

-----------------------------------------------------------------------------
\* Logged in: loadAfterLogin saved and set the downloaded storage.
Init ==
    /\ history = <<Original>>
    /\ orphans = {}
    /\ mem = [t \in Tab |-> Original]
    /\ known = [t \in Tab |-> [rev |-> 1, items |-> Original]]
    /\ flags = [t \in Tab |-> {}]
    /\ disk = [d \in Device |->
                 [pcds |-> Original, status |-> [rev |-> 1, items |-> Original]]]
    /\ job = [t \in Tab |-> Empty("idle")]
    /\ due = [t \in Tab |-> TRUE]
    /\ skipped = [t \in Tab |-> FALSE]
    /\ removed = {}
    /\ edits = 0 /\ reloads = 0 /\ faults = 0

-----------------------------------------------------------------------------
(* sync(): the re-entrancy guard, and what follows doSync().               *)

\* doSync() returned state changes: update() schedules another sync.
FinishWithChanges(t, phase) ==
    /\ job' = [job EXCEPT ![t] = Empty(phase)]
    /\ due' = [due EXCEPT ![t] = TRUE]
    /\ skipped' = [skipped EXCEPT ![t] = FALSE]

\* Variant: the skipped dispatches are not remembered.
ForgetSkipped(t, phase) ==
    /\ job' = [job EXCEPT ![t] = Empty(phase)]
    /\ skipped' = [skipped EXCEPT ![t] = FALSE]
    /\ UNCHANGED due

\* doSync() returned undefined: sync again only if a dispatch was skipped.
FinishWithoutChanges(t, phase) ==
    /\ job' = [job EXCEPT ![t] = Empty(phase)]
    /\ due' = [due EXCEPT ![t] = @ \/ skipped[t]]
    /\ skipped' = [skipped EXCEPT ![t] = FALSE]

\* A dispatched sync finds another one running.
SkipSync(t) ==
    /\ due[t] /\ ~Resting(t)
    /\ due' = [due EXCEPT ![t] = FALSE]
    /\ skipped' = [skipped EXCEPT ![t] = TRUE]
    /\ UNCHANGED <<history, orphans, mem, known, flags, disk, job, removed, budget>>

WantsDownload(t) == \/ "downloadedPCDs" \notin flags[t]
                    \/ {"completedFirstSync", "extraDownloadRequested"} \subseteq flags[t]

WantsFeeds(t) ==
    \/ "loadedIssuedPCDs" \notin flags[t]
    \/ {"completedFirstSync", "extraSubscriptionFetchRequested"} \subseteq flags[t]

WantsUpload(t) == mem[t] # known[t].items

\* A dispatched sync may enter doSync().
Ready(t) == due[t] /\ Resting(t)

StartDownload(t) ==
    /\ Ready(t) /\ WantsDownload(t)
    /\ due' = [due EXCEPT ![t] = FALSE]
    /\ job' = [job EXCEPT ![t] = Empty("download")]
    /\ UNCHANGED <<history, orphans, mem, known, flags, disk, skipped, removed,
                   budget>>

\* update({loadingIssuedPCDs: true}) schedules a sync, which will be skipped.
StartFeeds(t) ==
    /\ Ready(t) /\ ~WantsDownload(t) /\ WantsFeeds(t)
    /\ job' = [job EXCEPT ![t] = Empty("feeds")]
    /\ UNCHANGED <<history, orphans, mem, known, flags, disk, due, skipped,
                   removed, budget>>

\* The request carries the revision the tab knows and the serialized content.
StartUpload(t) ==
    /\ Ready(t) /\ ~WantsDownload(t) /\ ~WantsFeeds(t) /\ WantsUpload(t)
    /\ due' = [due EXCEPT ![t] = FALSE]
    /\ job' = [job EXCEPT ![t] =
                  Work("upload", [rev |-> known[t].rev, items |-> mem[t]], {})]
    /\ UNCHANGED <<history, orphans, mem, known, flags, disk, skipped, removed,
                   budget>>

\* Nothing to upload: the first time, the first sync is complete.
Settle(t) ==
    /\ Ready(t) /\ ~WantsDownload(t) /\ ~WantsFeeds(t) /\ ~WantsUpload(t)
    /\ flags' = [flags EXCEPT ![t] = @ \cup {"completedFirstSync"}]
    /\ due' = [due EXCEPT ![t] = "completedFirstSync" \notin flags[t]]
    /\ job' = [job EXCEPT ![t] = Empty("idle")]
    /\ UNCHANGED <<history, orphans, mem, known, disk, skipped, removed, budget>>

-----------------------------------------------------------------------------
(* Download, merge and commit: downloadAndMergeStorage().                  *)

EndDownload(t) == [flags EXCEPT ![t] = (@ \cup {"downloadedPCDs"})
                                         \ {"extraDownloadRequested"}]

\* handleLoad: the row, if its revision is not the one the tab knows.
ServeLoad(t) ==
    /\ job[t].at = "download" /\ known[t].rev # Len(history)
    /\ job' = [job EXCEPT ![t] =
                  Work("loaded",
                       [rev |-> Len(history), items |-> history[Len(history)]], {})]
    /\ UNCHANGED <<history, orphans, mem, known, flags, disk, due, skipped,
                   removed, budget>>

\* handleLoad sends no blob, and the tab takes "no changes".
ServeUnchanged(t) ==
    /\ job[t].at = "download" /\ known[t].rev = Len(history)
    /\ flags' = EndDownload(t)
    /\ FinishWithChanges(t, "idle")
    /\ UNCHANGED <<history, orphans, mem, known, disk, removed, budget>>

DownloadFails(t) ==
    /\ job[t].at \in {"download", "loaded"}
    /\ faults < MaxFaults /\ faults' = faults + 1
    /\ flags' = EndDownload(t)
    /\ FinishWithChanges(t, "idle")
    /\ UNCHANGED <<history, orphans, mem, known, disk, removed, edits, reloads>>

\* Variant: local changes are never merged.
TakeRemote(t) ==
    /\ job[t].at = "loaded"
    /\ job' = [job EXCEPT ![t] = Work("merged", job[t].ver, job[t].ver.items)]
    /\ UNCHANGED <<history, orphans, mem, known, flags, disk, due, skipped,
                   removed, budget>>

\* The new content: merged if both sides changed, else the downloaded one.
MergeDownload(t) ==
    LET remote == job[t].ver.items
        new == IF mem[t] \in {remote, known[t].items} THEN remote
                                                      ELSE Merge(mem[t], remote)
    IN /\ job[t].at = "loaded"
       /\ job' = [job EXCEPT ![t] = Work("merged", job[t].ver, new)]
       /\ UNCHANGED <<history, orphans, mem, known, flags, disk, due, skipped,
                      removed, budget>>

\* Variant: the merged collection stays in memory.
SkipSavingPCDs(t) ==
    /\ job[t].at = "merged"
    /\ job' = [job EXCEPT ![t].at = "saved"]
    /\ UNCHANGED <<history, orphans, mem, known, flags, disk, due, skipped,
                   removed, budget>>

\* savePCDs and saveSubscriptions of the new content.
SaveDownload(t) ==
    /\ job[t].at = "merged"
    /\ disk' = [disk EXCEPT ![DeviceOf[t]].pcds = job[t].new]
    /\ job' = [job EXCEPT ![t].at = "saved"]
    /\ UNCHANGED <<history, orphans, mem, known, flags, due, skipped, removed,
                   budget>>

\* savePersistentSyncStatus of what was downloaded.
NoteDownload(t) ==
    /\ job[t].at = "saved"
    /\ disk' = [disk EXCEPT ![DeviceOf[t]].status = job[t].ver]
    /\ job' = [job EXCEPT ![t].at = "noted"]
    /\ UNCHANGED <<history, orphans, mem, known, flags, due, skipped, removed,
                   budget>>

\* sync() applies the state changes: the new content replaces the tab's.
ApplyDownload(t) ==
    /\ job[t].at = "noted"
    /\ mem' = [mem EXCEPT ![t] = job[t].new]
    /\ known' = [known EXCEPT ![t] = job[t].ver]
    /\ flags' = EndDownload(t)
    /\ FinishWithChanges(t, "idle")
    /\ UNCHANGED <<history, orphans, disk, removed, budget>>

-----------------------------------------------------------------------------
(* Feeds: each result is applied to the live collection and saved.         *)

EndFeeds(t) == [flags EXCEPT ![t] = (@ \cup {"loadedIssuedPCDs"})
                                      \ {"extraSubscriptionFetchRequested"}]

FeedsReturn(t) ==
    /\ job[t].at = "feeds"
    /\ mem' = [mem EXCEPT ![t] = Upsert(@, Issued)]
    /\ disk' = [disk EXCEPT ![DeviceOf[t]].pcds = Upsert(mem[t], Issued)]
    /\ flags' = EndFeeds(t)
    /\ FinishWithChanges(t, "idle")
    /\ UNCHANGED <<history, orphans, known, removed, budget>>

FeedsFail(t) ==
    /\ job[t].at = "feeds"
    /\ faults < MaxFaults /\ faults' = faults + 1
    /\ flags' = EndFeeds(t)
    /\ FinishWithChanges(t, "idle")
    /\ UNCHANGED <<history, orphans, mem, known, disk, removed, edits, reloads>>

-----------------------------------------------------------------------------
(* Upload: handleSave with the known revision, and the client's handling   *)
(* of its answer.                                                          *)

\* Variant: the revision is not compared.
SaveAnyRevision(t) ==
    /\ job[t].at = "upload"
    /\ history' = Append(history, job[t].ver.items)
    /\ job' = [job EXCEPT ![t] =
                  Work("accepted",
                       [rev |-> Len(history) + 1, items |-> job[t].ver.items], {})]
    /\ UNCHANGED <<orphans, mem, known, flags, disk, due, skipped, removed, budget>>

\* updateEncryptedStorage: one UPDATE ... WHERE revision = knownRevision.
ServeSave(t) ==
    /\ job[t].at = "upload"
    /\ IF job[t].ver.rev = Len(history)
       THEN /\ history' = Append(history, job[t].ver.items)
            /\ job' = [job EXCEPT ![t] =
                          Work("accepted", [rev |-> Len(history) + 1,
                                            items |-> job[t].ver.items], {})]
       ELSE /\ job' = [job EXCEPT ![t] = Empty("refused")]
            /\ UNCHANGED history
    /\ UNCHANGED <<orphans, mem, known, flags, disk, due, skipped, removed, budget>>

\* The connection drops after the UPDATE committed: execQueryWithRetry runs it
\* again, nothing matches any more, and the answer is a conflict.
ServeSaveTwice(t) ==
    /\ job[t].at = "upload" /\ job[t].ver.rev = Len(history)
    /\ faults < MaxFaults /\ faults' = faults + 1
    /\ history' = Append(history, job[t].ver.items)
    /\ job' = [job EXCEPT ![t] = Empty("refused")]
    /\ UNCHANGED <<orphans, mem, known, flags, disk, due, skipped, removed, edits,
                   reloads>>

\* A request whose sender has given up reaches the server all the same.
ServeOrphan(r) ==
    /\ orphans' = orphans \ {r}
    /\ history' = IF r.rev = Len(history) THEN Append(history, r.items) ELSE history
    /\ UNCHANGED <<clientVars, removed, budget>>

\* savePersistentSyncStatus of what was uploaded.
NoteUpload(t) ==
    /\ job[t].at = "accepted"
    /\ disk' = [disk EXCEPT ![DeviceOf[t]].status = job[t].ver]
    /\ job' = [job EXCEPT ![t].at = "acknowledged"]
    /\ UNCHANGED <<history, orphans, mem, known, flags, due, skipped, removed,
                   budget>>

\* Variant: the revision the server returned is dropped.
DropRevision(t) ==
    /\ job[t].at = "acknowledged"
    /\ known' = [known EXCEPT ![t] = [rev |-> 0, items |-> job[t].ver.items]]
    /\ FinishWithChanges(t, "idle")
    /\ UNCHANGED <<history, orphans, mem, flags, disk, removed, budget>>

\* Variant: the hash is taken of the collection as it is after the upload.
HashAfterUpload(t) ==
    /\ job[t].at = "acknowledged"
    /\ known' = [known EXCEPT ![t] = [rev |-> job[t].ver.rev, items |-> mem[t]]]
    /\ FinishWithChanges(t, "idle")
    /\ UNCHANGED <<history, orphans, mem, flags, disk, removed, budget>>

\* sync() applies the state changes: what the tab knows is what it uploaded.
ApplyUpload(t) ==
    /\ job[t].at = "acknowledged"
    /\ known' = [known EXCEPT ![t] = job[t].ver]
    /\ FinishWithChanges(t, "idle")
    /\ UNCHANGED <<history, orphans, mem, flags, disk, removed, budget>>

\* Conflict: ask for a download.  Nothing changes if it is already asked for.
UploadRefused(t) ==
    /\ job[t].at = "refused"
    /\ flags' = [flags EXCEPT
                   ![t] = @ \cup {"completedFirstSync", "extraDownloadRequested"}]
    /\ IF flags'[t] = flags[t] THEN FinishWithoutChanges(t, "idle")
                               ELSE FinishWithChanges(t, "idle")
    /\ UNCHANGED <<history, orphans, mem, known, disk, removed, budget>>

\* Any other failure: the request, or its answer, is late or lost.  It is tried
\* again at once only if this was the first sync.
UploadFails(t) ==
    /\ job[t].at \in {"upload", "accepted", "refused"}
    /\ faults < MaxFaults /\ faults' = faults + 1
    /\ orphans' = IF job[t].at = "upload" THEN orphans \cup {job[t].ver} ELSE orphans
    /\ flags' = [flags EXCEPT ![t] = @ \cup {"completedFirstSync"}]
    /\ IF flags'[t] = flags[t] THEN FinishWithoutChanges(t, "stalled")
                               ELSE FinishWithChanges(t, "idle")
    /\ UNCHANGED <<history, mem, known, disk, removed, edits, reloads>>

-----------------------------------------------------------------------------
(* What runs between the awaits of sync(): local edits, the background     *)
(* poll, and the reload of a tab.                                          *)

\* addPCDs, removePCD and the other edits: the live collection is changed in
\* place, saved, and update() schedules a sync.
Edit(t, content) ==
    /\ edits < MaxEdits /\ edits' = edits + 1
    /\ QuietCommit => ~Committing(t)
    /\ mem' = [mem EXCEPT ![t] = content]
    /\ disk' = [disk EXCEPT ![DeviceOf[t]].pcds = content]
    /\ due' = [due EXCEPT ![t] = TRUE]
    /\ UNCHANGED <<history, orphans, known, flags, job, skipped, reloads, faults>>

AddItem(t, i) == /\ i \notin mem[t]
                 /\ Edit(t, Upsert(mem[t], {i}))
                 /\ UNCHANGED removed

RemoveItem(t, i) == /\ i \in mem[t]
                    /\ Edit(t, mem[t] \ {i})
                    /\ removed' = removed \cup {IdOf[i]}

\* Variant: only the feeds are polled.
PollFeedsOnly(t) ==
    /\ "completedFirstSync" \in flags[t]
    /\ PatientPoll => Resting(t) /\ ~due[t]
    /\ flags' = [flags EXCEPT ![t] = @ \cup {"extraSubscriptionFetchRequested"}]
    /\ due' = [due EXCEPT ![t] = TRUE]
    /\ UNCHANGED <<history, orphans, mem, known, disk, job, skipped, removed, budget>>

\* doPollServerUpdates, every minute once the first sync is complete.
Poll(t) ==
    /\ "completedFirstSync" \in flags[t]
    /\ PatientPoll => Resting(t) /\ ~due[t]
    /\ flags' = [flags EXCEPT ![t] = @ \cup {"extraDownloadRequested",
                                             "extraSubscriptionFetchRequested"}]
    /\ due' = [due EXCEPT ![t] = TRUE]
    /\ UNCHANGED <<history, orphans, mem, known, disk, job, skipped, removed, budget>>

\* The page goes away, whatever it was doing, and loadInitialState() starts
\* again from the browser's storage.
Reload(t) ==
    /\ reloads < MaxReloads /\ reloads' = reloads + 1
    /\ orphans' = IF job[t].at = "upload" THEN orphans \cup {job[t].ver} ELSE orphans
    /\ mem' = [mem EXCEPT ![t] = disk[DeviceOf[t]].pcds]
    /\ known' = [known EXCEPT ![t] = disk[DeviceOf[t]].status]
    /\ flags' = [flags EXCEPT ![t] = {}]
    /\ FinishWithChanges(t, "idle")
    /\ UNCHANGED <<history, disk, removed, edits, faults>>

-----------------------------------------------------------------------------
SyncStep(t) == \/ StartDownload(t) \/ StartFeeds(t) \/ StartUpload(t) \/ Settle(t)
               \/ ServeLoad(t) \/ ServeUnchanged(t) \/ MergeDownload(t)
               \/ SaveDownload(t) \/ NoteDownload(t) \/ ApplyDownload(t)
               \/ FeedsReturn(t) \/ ServeSave(t) \/ NoteUpload(t)
               \/ ApplyUpload(t) \/ UploadRefused(t)

Fault(t) == \/ DownloadFails(t) \/ FeedsFail(t) \/ UploadFails(t)
            \/ ServeSaveTwice(t)

Next == \/ \E t \in Tab : \/ SyncStep(t) \/ SkipSync(t) \/ Fault(t)
                          \/ Poll(t) \/ Reload(t)
                          \/ \E i \in Item : AddItem(t, i) \/ RemoveItem(t, i)
        \/ \E r \in orphans : ServeOrphan(r)

Spec == Init /\ [][Next]_vars

\* Timers fire, requests are answered, promises resolve, and the page stays
\* visible so that it polls.
Fairness == \A t \in Tab : WF_vars(SyncStep(t)) /\ WF_vars(Poll(t))

FairSpec == Spec /\ Fairness

-----------------------------------------------------------------------------
TypeOK ==
    /\ history \in Seq(SUBSET Item) /\ history # <<>>
    /\ orphans \subseteq Version
    /\ mem \in [Tab -> SUBSET Item]
    /\ known \in [Tab -> Known]
    /\ flags \in [Tab -> SUBSET Flag]
    /\ disk \in [Device -> Saved]
    /\ job \in [Tab -> Job]
    /\ due \in [Tab -> BOOLEAN]
    /\ skipped \in [Tab -> BOOLEAN]
    /\ removed \subseteq Id
    /\ edits \in 0..MaxEdits /\ reloads \in 0..MaxReloads /\ faults \in 0..MaxFaults

\* A revision a tab or a device remembers goes with the content the server held
\* at that revision: the revision lets the server detect conflicts and the hash
\* lets the client detect its own changes, so a pair that does not match
\* would overwrite another device's upload or hide a local change.
Genuine(v) == v.rev \in 1..Len(history) /\ v.items = history[v.rev]

KnownRevisionIsGenuine ==
    /\ \A t \in Tab : Genuine(known[t])
    /\ \A d \in Device : Genuine(disk[d].status)

\* No update is missed: a tab with no sync running and none scheduled has
\* nothing left to do, unless its last upload failed and waits for the next
\* poll.  This is what skippedSyncUpdates and the re-dispatches are for.
NothingForgotten ==
    \A t \in Tab : Resting(t) /\ ~due[t] =>
        /\ ~WantsDownload(t) /\ ~WantsFeeds(t)
        /\ WantsUpload(t) => job[t].at = "stalled"

\* No step takes an object out of a tab's collection except a removal that some
\* user made: downloads and merges only add and replace.
NothingLostFromTab ==
    [][\A t \in Tab : Ids(mem[t]) \ removed' \subseteq Ids(mem'[t])]_vars

\* No upload takes an object out of the server's copy that no user removed.
NothingLostFromServer ==
    [][Ids(history[Len(history)]) \ removed \subseteq Ids(history'[Len(history')])]_vars

\* The server's copy implements the shared vault.
Vault == INSTANCE SharedVault WITH
    versions <- history,
    proposals <- orphans \cup {job[t].ver : t \in {u \in Tab : job[u].at = "upload"}}

VaultSpec == Vault!VaultSpec

\* Once the users stop editing, all tabs come to hold the server's content.
Converged == \A t \in Tab : mem[t] = history[Len(history)]
Converges == <>[]Converged
=============================================================================
