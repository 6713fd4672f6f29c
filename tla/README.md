# Zupass: specifications, model checking and proofs

Zupass keeps a user's *PCDs* (tickets, proofs, identities) in the browser. A
passport server stores an end-to-end encrypted copy of the collection, so that
several devices share it, and providers issue PCDs into folders of the collection
through *feeds*. This directory models the parts of that system in which several
actors change shared state at once: the sync of the collection, the change of the
password that encrypts it, and the feeds that write into it; and, on the server, the
accounts, the rate limiter, the faucet of frogs, the links of POAPs, the queue of proofs, and the
pipelines that issue tickets, check them in and keep groups of their holders.

## 1. The system

### Components, their state and their operations

| Component (sources) | State | Operations |
|---|---|---|
| Sync engine of the client (`dispatch.ts`, `useSyncE2EEStorage.tsx`) | `AppState`: collection, subscriptions, known revision and hash of the server's copy, flags of the sync state | `sync`/`doSync`: download and merge, poll feeds, upload; local edits; state changes re-dispatch `sync` |
| Encrypted storage on the server (`e2eeService.ts`, `queries/e2ee.ts`) | one row per account: blob key, blob, revision | load, save if the revision matches, move the row to another key |
| Browser storage (`localstorage.ts`) | collection, subscriptions, sync status, user, key; shared by the tabs of a browser | single writes, each awaited; read on load |
| Background jobs (`backgroundJobs.ts`, `user.ts`) | - | every minute: poll the user, ask for a download and a poll of the feeds |
| Change of password (`password.ts`, `ChangePasswordModal.tsx`, `broadcastChannel.ts`) | salt of the user on the server, in the browser and in each tab | re-encrypt and move the row, save salt and key, tell the other tabs |
| Collection (`PCDCollection.ts`, `permissions.ts`, `actions.ts`) | PCDs, folder of each | add, upsert, remove, delete folder, replace in folder, append; under permissions |
| Subscriptions (`SubscriptionManager.ts`) | subscriptions with permissions, errors, ended flags | subscribe, unsubscribe, poll all or one, validate, grant permissions |
| Feed hosts (`issuanceService.ts`, pipelines) | what each feed issues, and the folder it issues into | answer a poll with actions |
| Accounts (`userService.ts`, `emailTokenService.ts`, `saveUser.ts`) | rows of users with their addresses, one token per address | send and check tokens, create and reset accounts, add, change and remove addresses, upgrade the identity, delete |
| Rate limiter (`rateLimitService.ts`, `queries/rateLimit.ts`) | a bucket of tokens per user and action | take a token, prune unused buckets |
| Executor of the pipelines ("Podbox": `PipelineExecutorSubservice.ts`, `performPipelineLoad.ts`, `PipelineSubservice.ts`) | definitions and summaries, slots with running instances, atoms in memory, the last good load on disk | load every slot, refresh the definitions, restart; edit, delete, clear |
| Check-in (`PretixPipeline.ts`, `LemonadePipeline.ts`, CSV ticket pipelines) | the map of pending check-ins of an instance, atoms, rows of check-ins | scan a ticket, load the tickets |
| Groups (`SemaphoreGroupProvider.ts`) | groups in memory, their history and the consumers in the database, a queue of updates | update a group, append to the history |
| FrogCrypto (`frogcryptoService.ts`, `queries/frogcrypto.ts`) | time of the last poll per user and feed, score per user | reserve a frog, score, give a turn back |
| POAPs (`poapService.ts`, `queries/poap.ts`) | links, each with the ticket that claimed it | find or claim the link of a ticket |
| Proofs (`provingService.ts`) | a queue, the status of each request | enqueue, prove, stop |
| Semaphore groups of users, caches, syncs of past events | rows and values of their own | not modelled; reasons in `PROJECT.json` |
| Zupoll, example clients and servers, libraries for PODs, GPCs and cryptography, PCD packages, user interface | - | not modelled; reasons in `PROJECT.json` |

### Interactions

`sync()` runs as one asynchronous function per tab, guarded by `syncInProgress`;
between its awaits run edits, polls, messages of other tabs and the reload of the
page. Tabs of one browser share the stored collection, salt, key and sync status.
Devices meet only at the server's row, whose revision decides every conflict. Feeds
change the live collection of a tab in place, and the next `sync()` uploads it.

The server is one process in which requests interleave at every await. They meet in rows
of the database, which most handlers read and write without a transaction or without a
lock on what they read; in maps and queues in memory, which a replaced instance leaves
behind; and the executor's loop, which loads and replaces every pipeline again and again, works against
all of them.

### Hard behaviours, and what correctness means

- **Lost objects.** Merges, replaced collections, stale files and lost answers must
  never make an object disappear that no user removed
  (`NothingLostFromTab`, `NothingLostFromServer`, `VaultSpec`).
- **Wrong bookkeeping.** The revision guards the server, the hash tells a tab that it
  has changes; a pair that never existed defeats both (`KnownRevisionIsGenuine`).
- **Missed updates.** `sync()` calls that find another one running are dropped; a tab
  at rest must have nothing to do (`NothingForgotten`) and tabs must agree in the end
  (`Converges`).
- **Keys.** Server and browser change the key in many steps, any of which may be
  lost, repeated or interrupted (`AccountOpens`, `NoPhantomKey`, `StaleSessionEnds`).
- **Confinement and staleness of feeds.** Actions are applied long after they were
  permitted, and one action of several may fail (`FeedsStayInFolders`, `FeedsCatchUp`).
- **Stale rows.** A handler overwrites a whole row with one that it read before it awaited
  something (`KeysBelongTogether`, `EmailListBounds`, `EmailsAreConfirmed`).
- **Limits under overlap.** Cooldowns, rations, rates and links are counted by several
  requests at once, in any order, and repeated (`FrogsAreApart`, `FrogsAreRationed`,
  `RateIsBounded`, `WaitersAreServed`, `ClaimsDoNotCollide`, `RedirectsAreFinal`).
- **Memory that is replaced under its users.** Restarts, deletions and loads in flight
  must leave one slot per definition and its atoms (`LoopRepairs`, `ExecutorSettles`); what
  a door was told must not outlive its reason, nor be forgotten too early
  (`PendingIsFounded`, `LoadKeepsNews`, `PendingSettles`); a group must come to
  be that of the ticket holders (`ProviderCatchesUp`).
- **A queue that must drain** (`ProofsTakeTurns`, `ProofsEnd`).

`PROJECT.json` lists the hazards at their lines.

## 2. The modules

| Module | Models |
|---|---|
| `SharedVault` | abstract: one collection as a sequence of versions, extended only from its latest one, by contents that lack nothing they should carry |
| `E2EESync` | the sync loop, the server's row, the browser storage, faults and reloads |
| `PasswordChange` | the change of the password, across server, browser storage and tabs |
| `FeedFolders` | subscriptions, polls, permissions, folders, and the user's edits |
| `Accounts` | users, their addresses, identities and tokens, under overlapping requests |
| `RateLimit` | one bucket of the rate limiter, with requests applied late or twice |
| `FrogFaucet` | polls of frog feeds, with cooldowns, free rolls and scores |
| `PoapClaims` | claims of POAP links by the holders of tickets |
| `PipelineExecutor` | one pipeline: loop, loads, restarts, edits, the cached load |
| `TicketCheckIn` | scans of tickets against loads and replaced instances |
| `SemaphoreGroups` | one group of a pipeline, its history and its updates |
| `ProvingQueue` | the queue of proofs made by the server |
| `MC_*` | values of the constants for TLC; `MC_Services` and `MC_Pipelines` also join modules that share no state: a behaviour is of one of them |
| `VaultRefinement_proofs` | theorems: `E2EESync` implements `SharedVault` |
| `Services_proofs`, `Pipelines_proofs` | theorems about the modules that `MC_Services` and `MC_Pipelines` join, each part alone and all together |
| other `*_proofs` | theorems about the module they extend |

### E2EESync

One variable per place the code keeps data: `history` (the row; the revision is its
length), `mem`, `known`, `flags` (`AppState` of each tab), `disk` (the storage of each
browser), `job` (where `sync()` stands: one phase per await of `doSync`, with the data
held in local variables), `due` (a scheduled dispatch) and `skipped`
(`skippedSyncUpdates`). Every await of the code is a boundary between two actions:
`StartDownload`, `ServeLoad`, `MergeDownload`, `SaveDownload`, `NoteDownload`,
`ApplyDownload`; `StartFeeds`, `FeedsReturn`; `StartUpload`, `ServeSave`, `NoteUpload`,
`ApplyUpload` or `UploadRefused`. `FinishWithChanges` and `FinishWithoutChanges` are
the two ends of `sync()`. Faults are requests that fail, answers that are lost, requests that arrive
after their sender gave up (`ServeOrphan`) and queries run twice (`ServeSaveTwice`).

Abstractions: a content is a set of items, an item is a value of an object and
has its id; the hash is the content; collection and subscriptions are one content,
and their two writes one action; an edit and its write to storage are one action; all
tabs have the same key (`PasswordChange` has keys). The answer of the feeds is applied
in one action (`FeedFolders` takes it apart). Not modelled: validation errors of the
collection, settings, feeds' errors shown to the user.

`QuietCommit` and `PatientPoll` are not code: they exclude behaviours from a run.
`QuietCommit` keeps edits out of the commit of a download, where they can be lost (see
the findings). `PatientPoll` lets the background poll, which comes once a minute, wait for a round of
`sync()` to end: without it a poll between any two steps keeps the tab downloading for
ever, and convergence would depend on speeds the code does not bound but practice does.

### PasswordChange

A password, its salt and its key are one number. `row` and `salt` are the server's;
`disk` holds salt, key and revision of a browser, `mem` salt and revision of a tab.
`change[t]` walks through the change: sent, answered, noted (sync status), saved (user),
keyed (encryption key), announced to `inbox`. `poll[t]` walks through `pollUser` and
`setSelf`. Sync is one step (`Download`, `Upload`), because `E2EESync` shows what it does.
`WholeSave` excludes reloads between the saves of salt and key, by any tab that is
changing the password; the run `password_crash` shows what they do. Not modelled:
accounts whose key the server keeps, and the strength checks of passwords.

### FeedFolders

The collection is the folder of each id; folders are sequences of names, `BeginsWith`
says which names are prefixes of others. A poll is asked, applying (with the actions
left to apply) or decoding, under the permission it found. `Receive` is the answer and
`validateActions`; `SkipAction`, `DeleteFolder`, `StartDecoding`, `DecodingFails` and
`AddDecoded` are `tryExec` and what it calls, cut at the deserialization it awaits.
The user's actions are those of `dispatch.ts`. The providers' side is abstract: a feed
issues a set of ids into a folder, and both may change. Not modelled: the content
of PCDs, reloads of the page, downloads that replace the collection, the check of the
feed's listing before each poll, credentials. Two feeds never issue into one folder.

### Accounts, RateLimit, FrogFaucet, PoapClaims

In `Accounts` a request of `handler` is a transaction in up to three steps: `Begin...` reads the
row, `CheckToken` or `EndVerify` compares the token, and `Save`, `RemoveUser`, `SaveTerms` or
`RollBack` commits. `RowOf` is what the handler writes back, computed from the row it
*read*; `upsertUser` replaces the columns and the list of addresses by it. Tokens are
numbers, counted for each address (`NewToken`), identities values with two commitments (v3, v4).
`Missing` are the users with a key but no storage, whom a login deletes where the server is configured so
(`DeleteMissing`): by email in a step of its own, with one click in the transaction that inserts the
new user (`drops`). Not modelled: reading
handlers, the removal of tickets when an agent's user logs in with one click, the sync of
addresses from Podbox, refusals of the rate limiter inside the handlers.

`RateLimit`: `Consumed` is the statement of `consumeRateLimitToken` as a function of the row and of the time
the request read *before* it was sent; `RateTick` lets a statement be late by at most `RateLatency`.
The columns are BIGINT, whose division rounds towards zero, before `FLOOR` sees it (`Refilled`). So a
statement that is late by less than the time of one refill refills nothing and takes nothing away; but
if it is allowed, it sets `last_take` back, and the next statement refills that time once more.

`FrogFaucet`: `AskFrog` reads no row; `SendTurn` reads the time, which is the default of a parameter and
evaluated before the query is sent; `TakeTurn` is the UPDATE that writes it, in whole seconds, and
returns the previous one, so that a query that is late sets the row back. `WinTurn`/`RefuseTurn` are the
comparison with the cooldown, `ScoreFrog` the increment of the score, `GiveTurnBack` gives the
turn back, `IssueFrog` is the answer. The clock counts fractions of a second, `FrogSecond` of them in each,
and a request is over within `FrogLatency` of reading its time.

`PoapClaims`: `EnterLock` is the lock of the process, `FindLink` the lookup, `PickLink` the
subquery of the UPDATE and `WriteLink` its write, which does not look at the holder
again, and may so take the link from another ticket; `Unique` is the constraint of the column.

Queries are run again when the connection breaks (`execQueryWithRetry`). The models let the second run
reach the database, also where it uses the client of the first: whether it does is up
to the driver, which is not part of the repository.

### PipelineExecutor, TicketCheckIn, SemaphoreGroups, ProvingQueue

`PipelineExecutor` has one variable per place: `definition` (committed), `slots` and `slotObject`
(`pipelineSlots` and the objects in it, which old requests still hold), `restart` (calls of `restartPipeline`, by
editors or the loop), `pass` (the loop), `task` (loads, of which one that timed out goes
on), `atoms`, `summary`, `cachedLoad`. A version of the definition has options:
paused, or not to be cached. An editor's request is a transaction that
restarts the pipeline before it commits. `RefreshFails` ends the loop, as the code does.

`TicketCheckIn` has remote tickets, checked in at Pretix, and local ones, checked in by a
row (manual tickets, and those of Lemonade). A scan is cut at each await: `BeginScan` looks
at the map, `GoAhead` notes the entry, `SendCheckIn`, `ReceiveCheckIn`, `AnswerSuccess`,
`AnswerFailure`. A load fetches and saves. A restart is two steps, between which the executor awaits: after
`StopInstance` the stopped instance still answers scans and may be loaded; `ReplaceInstance` puts one with
an empty map in its place, while scans and a load of the old one go on.

`SemaphoreGroups` has the queue of updates of each instance; `ChangeGroup` is the change in
memory, `AddHistoryEntry` the write that follows, which may fail. Members are commitments
of the consumers whose address has a ticket.

`ProvingQueue`: `ServeProofs` is the synchronous part of `serverProve`, which fails requests of
unsupported types at once; `FinishProof` what follows its await. The server stops its services before
it stops listening (`application.ts:88-92`), so `StopProving` does not end anything else, and
`RestartProving` empties the memory at any time.

Abstractions shared by these: one pipeline, one group, one bucket; the contents of
tickets, frogs, atoms and proofs are left out.

## 3. Model checking

| Run | Bounds | Shows |
|---|---|---|
| `sync_two_devices` | 2 devices with a tab each, 3 values of 2 objects, 2 edits, 1 fault, no item issued by a feed | `TypeOK`, `KnownRevisionIsGenuine`, `NothingForgotten`, and that the code implements `SharedVault` |
| `sync_reload` | 2 devices, 2 edits, 1 reload, quiet commits | `NothingLostFromTab`, `NothingLostFromServer` |
| `sync_converges` | 2 devices, 1 edit, 1 fault, a feed that issues one item, fair, patient polls | `Converges` |
| `sync_edit_in_commit` | as above without faults | violation: an edit during the commit of a download is lost |
| `sync_shared_browser` | 2 tabs of one browser, 1 reload | violation: a stale tab's collection overwrites the server's |
| `password_change` | 2 browsers, one with 2 tabs, 1 change, 1 upload, 1 fault, fair, whole saves | `TypeOK`, `AccountOpens`, `NoPhantomKey`, `StaleSessionEnds` |
| `password_false_alarm` | 1 tab, 1 change, no fault | violation: a tab blames another device for its own change |
| `password_crash` | 1 tab, 1 change, 1 fault, fair | violation: a reload between two writes leaves a session with a dead key |
| `feed_folders` | 3 subscriptions to 2 feeds, 2 ids, 3 folders, 2 user actions, 1 change at a provider, 1 fault, fair | `TypeOK`, `FeedsStayInFolders`, `FeedsCatchUp` |
| `feed_conflict` | 1 subscription, 1 move of the feed, 1 grant, fair | violation: a feed that moved never catches up, and counts as working |
| `account_services` | accounts: 2 rows, 3 addresses, 2 identities, 2 requests in flight, 3 in all, 2 tokens over all addresses together; frogs: 1 user, 2 feeds, 2 requests, a second of 2 units, a cooldown of 5, latency 1, clock from 5 to 9; bucket: 2 actions, a refill in 2 units, latency 1, 1 lost answer, clock to 7; POAPs: 2 tickets of an event, 3 links, 3 requests, 2 faults | `ServicesTypeOK`, `KeysBelongTogether`, `EmailListBounds`, `EmailsAreConfirmed`, `FrogsAreApart`, `FrogsAreRationed`, `RateIsBounded`, `WaitersAreServed`, `ClaimsDoNotCollide`, `RedirectsAreFinal` |
| `pipelines` | executor: 3 versions (not cached, paused, plain), 2 editors, 2 loads, 2 slot objects, 1 disturbance, 1 failed refresh; check-in: a remote and a local ticket, 2 scans, 1 replacement, 1 event outside, 1 fault; group: a user with 2 addresses and 2 identities, 2 polls, 1 event; proofs: 4 requests, 1 of an unsupported type; fair | `PipelinesTypeOK`, `LoopRepairs`, `PendingIsFounded`, `ProofsTakeTurns`, `LoadKeepsNews`, `PendingSettles`, `ExecutorSettles`, `ProviderCatchesUp`, `ProofsEnd` |

Why the bounds are enough: every conflict the code decides is between two parties
(two uploads of one revision, a local and a remote change, two polls of a feed, a
change of password and one other session), and one fault in any place reaches every
error path, together with two edits before, between or after. Two values of one object
tell a replaced item from a lost one, a second object tells it from its neighbours. The
one bound that is felt is on edits: no run has three.

On the server, too, every conflict is between two requests, or a request and the loop; a
third is there where a replaced one goes on (an old load, a scan of an old instance, the lock of POAPs).
The clock of the frogs leaves room for two frogs a cooldown apart, and a second has units enough that cutting
off its parts and a late query each make a difference; that of the bucket leaves room for more than one
period. Three bounds are thin. There are two tokens over all addresses: enough for one to be replaced while
a request that brought it is checked, or for two addresses to be confirmed at once, not for both. Frogs
come from two requests at a time. And feeds issue an item only in `sync_converges`: with
one in `sync_two_devices`, too, the run takes longer than is practical. The theorems (section 4)
are for any number of tokens, requests and items. The four parts of a joined run add up and do not multiply.

`feed_folders`, `feed_conflict`, `account_services` and `pipelines` do not check deadlock: with
the bounds used up, and nothing subscribed, the system rests. In the other runs some tab can
always poll.

Each passing property is broken by at least one mutant of the code's definitions (the operators marked
"Variant"), such as a dropped comparison of revisions, a merge that takes the remote
side, a refused answer taken for a success, or a folder emptied after it was filled.

### Fairness

`E2EESync` assumes weak fairness of each tab's steps of `sync()` (a dispatched
`setTimeout` fires, requests are answered or fail, promises resolve) and of its poll
(`setupPolling` fires every minute while the page is visible). It assumes none of edits,
reloads and faults. `PasswordChange` assumes the same of the steps of a change, of the
polls of the user and of messages between tabs. `FeedFolders` assumes it of rounds
(the background poll asks for them), of each poll's steps, and of the end of an
unsubscription. Faults are bounded, so that liveness says what follows the last of them.

`MC_Pipelines` assumes that requests to save and commit an edit are answered, that the loop
and the loads it starts go on (`startPipelineLoadLoop` sets a timer after every pass, and a load has a timeout), that
clients poll a group's feed again, that queues of updates are worked off, and that proofs end. A
behaviour is of one part, so one condition on a disjunction of actions, one of each part,
stands for a condition on each. The start of a provider has strong fairness: it is enabled only
while the queue of the one before the last is empty, and the loop comes back to it. Nothing is assumed of edits, restarts, faults,
events outside, scans to come, the stop of an instance, or a shutdown; but once an instance of the check-in
is stopped, another one is made in the end (`ReplaceInstance`).

### What the code does not keep

Five runs end in a violation; `PROJECT.json` quotes the lines they contradict.

1. *Edits during the commit of a download are lost* (`sync_edit_in_commit`): the merged
   collection replaces one that was edited after the merge.
2. *Two tabs of one browser* (`sync_shared_browser`): the stored collection and the
   stored sync status may come from different tabs, and the older collection then
   overwrites the server's.
3. *A false alarm* (`password_false_alarm`): the answer of a poll overlaps the tab's own
   change of password.
4. *Salt and key are two writes* (`password_crash`).
5. *A feed that moves* (`feed_conflict`): its PCDs in the old folder block the new one,
   silently.

### Observations that are not findings

- The queries that refresh the definitions are outside of the loop's `try`
  (`PipelineExecutorSubservice.ts:465-472`): if one fails, no further pass is scheduled until
  the server restarts. `ExecutorSettles` exempts a loop that ended so (`RefreshFails`).
- `queries/frogcrypto.ts:58-61` speaks of an update "if and only if" the transaction commits,
  but the caller has none: a request that is refused still moves the time, and one that comes a cooldown
  after the last frog may then be refused. Nor is the time that of the update: it was read before the
  query was sent, and loses its milliseconds (`toUTCString`), so that a frog may come early, by less than
  a second and the time that a query is late. `FrogsAreApart` states that bound.
- `rateLimitService.ts:69-71` names a maximum per hour. The bucket starts full and refills
  meanwhile, and every late statement adds the time by which it set `last_take` back:
  nearly twice the maximum may pass, and more with late ones. `RateIsBounded` states the bound that holds.
- `queries/poap.ts:11-13` promises that a ticket is redirected to its link in the future.
  Two tickets that overlap may pick one link, and the second takes the row over: the
  first has been sent to a link that is the other's now, and is given another one when it comes
  again. `RedirectsAreFinal` states when the promise holds: from the moment that no statement is under way
  which picked the link while it was free. No later claim, retry or failure can take it then.
- `provingRoutes.ts` says that proofs are executed one at a time. Between the stop of the services
  and the end of the process two may run; `ProofsTakeTurns` is about the time before, and
  `ProofsEnd` shows that nothing accepted in between is stuck.
- `persistentCacheService.ts:50` binds the function that expires entries and does not call it.

## 4. Proofs

TLAPS proves these for all values of the constants that satisfy the named assumptions
(`SyncAssumption`, `PasswordAssumption`, `FeedAssumption`, `AccountsAssumption`,
`FrogAssumption`, `RateAssumption`, `PoapAssumption`, `PipelineAssumption`, `CheckInAssumption`,
`GroupAssumption`, `ProofAssumption`), that is for any number of tabs, devices, objects, folders,
accounts, requests in flight, scans, versions, loads, edits and faults. Most assumptions only give
types, and keep values apart that differ in the code. Three
say more: a cooldown is no shorter than three times a request and a second (`FrogAssumption`), a statement of the rate
limiter is applied within the time of one refill (`RateAssumption`), and there are finitely many proof requests,
because their hashes are SHA-256 (`ProofAssumption`; a count in a property is the cardinality of a
set, defined for finite sets only).

- `E2EESync_proofs`: `TypeCorrect`, `KnownIsGenuine` and `NothingIsForgotten`. Remembered pairs are copied from
  the version a job carries, so `KnownRevisionIsGenuine` is not inductive alone: the
  invariant `SyncInv` adds `HeldIsGenuine`, which says that the version held by a job that
  has downloaded or uploaded is genuine. Since `history` only grows, genuine pairs stay so.
  `NothingForgotten` needs that what is asked of a tab during an upload, whose end may
  change nothing and so schedule nothing, is in a scheduled or a skipped dispatch
  (`UploadWatches`): this is what `skippedSyncUpdates` is for.
- `PasswordChange_proofs`: `TypeCorrect`, `KeysAreGenuine`, `PasswordOpensAccount`. A
  browser takes its key from an answered change or, at a login, from the row. `KeyInv` therefore adds that
  the keys of changes that were answered have an author (`GrantedOnly`) and that the row's
  has (`RowIsKnown`). `AccountOpens` is inductive by itself: `Rekey` is the only action
  that writes the row's key or the salt.
- `FeedFolders_proofs`: `TypeCorrect` and `FeedsAreConfined`. That a step of a poll stays in the
  granted folders needs that the permission a decoding poll holds covers the folder of
  its action (`DecodingIsGranted`), and that covering is transitive.
- `SharedVault_proofs`: `NothingIsLost`. The abstract vault retains every object nobody
  removed; the invariant adds that each pending proposal carries the version it was
  computed from. With the refinement, this is why the server's compare-and-swap suffices.
- `VaultRefinement_proofs`: `SyncImplementsVault`, `ServerKeepsObjects`, `TabKeepsObjects`.
  They assume `ReloadsAreSafe`: no page reloads, or every browser has one tab and no edit
  falls into a commit. `sync_edit_in_commit` and `sync_shared_browser` show what happens
  without. `StartUpload` maps to a proposal, a matching `ServeSave`, `ServeSaveTwice` or `ServeOrphan` to
  its acceptance, `RemoveItem` to a removal, all else to `Drop`. A proposal is
  admissible only if the tab lacks nothing of the version it knows (`TabCarries`). That is inductive
  with five more facts: a download is no older than what the tab knows
  (`DownloadIsNewer`), the merge keeps both sides (`MergeKeepsRemote`, `MergeKeepsLocal`), the tab only adds to what
  it uploads until the answer is noted (`TabKeepsUpload`), and browser storage is what the
  tab has, or is ahead of it between the writes of a commit and its end (`DiskFollows`).
  That later versions retain the earlier ones is taken from `SharedVault_proofs`
  through the refinement, not proved again.

- `Accounts_proofs`: `AccountsTypeCorrect`, `KeysAreOfOneIdentity`, `ListsAreBounded`,
  `AddressesAreConfirmed`. The row a request read may be long gone; the invariant says
  that it was right once (`RowOK`), and that what the request checked since holds of that row,
  not of the one in the table (`HandlingOK`). Writing it back whole is then harmless.

`Services_proofs`, on top of these:

- Faucet, cooldowns: `FrogTypeCorrect`, `CooldownHolds`. The time in a row may be behind that of a
  request by a second that was cut off and by a late query (`Slack`). At most one
  request of a row may yet use up its turn (`OnlyOneIsLive`), because the time it replaced is a cooldown ago,
  and any other that writes while it goes on replaces one that is more recent than that, in spite of the
  slack. This needs the length of a cooldown that `FrogAssumption` asks for.
- Faucet, rations: `RationsHold`. The score is raised before the frog is given, and never lowered. So
  what a user was given and what is on its way to him (`Scoring`, and `Rolling` for free rolls) is
  never more than the score, nor than the cap (`RationsOK`).
- Rate limiter: `RateTypeCorrect`, `RateHolds`, `RefusalsEnd`. `RateIsBounded` compares two tokens that
  were taken, and the row may have been overwritten, repeated or pruned in between. The invariant keeps an account of every
  token: those taken from it on and those left in the bucket are at most a full bucket, the refill since, and
  one latency for each late statement since (`TakenIsAccounted`, `Late`), until the token is so old that the property no longer
  speaks of it (`Past`), which is what pruning must wait for. The row's last take is the time of the last
  token (`BucketIsTaken`), tokens are taken in the order of the clock, though not of the times in the row
  (`TakenInOrder`, `TakenInTime`), and `StatementsAreTimely`; with these it is inductive. What the division
  refills is bounded by products (`RefillFacts`), since the prover is weak at quotients.
  `RefusalsEnd` needs `BucketIsTaken` only.
- POAPs: `PoapTypeCorrect`, `NoCollision`, `LinksStay`. Requests within the lock have different
  tickets (`ClaimsOK`); between the lookup and the write a ticket stays without a link unless its own
  statement was run before (`TicketIsNew`). `LinksStay` is `RedirectsAreFinal`: every action that writes a row
  writes the one its request picked, and none picks a row that a ticket has.
- Together: `ServicesAreApart`, every behaviour of `MC_Services` is one of each part, and from it
  `ServicesTypeCorrect`.

`Pipelines_proofs`:

- Check-in: `CheckInTypeCorrect`, `EntriesAreFounded`, `NewsAreKept`. `Founded` adds to
  `PendingIsFounded` that what scans were answered and loads have seen are check-ins as well;
  `LoadSees`, that a load which is about to save has seen the tickets whose entry it will remove.
- Executor: `PipelineTypeCorrect`, `PassRepairs`. `LoopRepairs` speaks of the end of a pass. `CalmPass` says
  what a pass has repaired in each place it can be in, as long as no request disturbed it: after the
  refresh it holds the stored definition, before the start of a pipeline a slot of that definition, during the restart
  the only slot there is. It needs that editors rest, that the loop's own call of `restartPipeline` is
  under way in exactly one place of a pass (`LoopRestarts`), and that loads, however old, hold slots
  (`TasksHaveSlots`), since they may still write to them.
- Groups: `GroupTypeCorrect`. Members and history are commitments, never the mark of an address
  that has no consumer.
- Proofs: `ProofTypeCorrect`, `OneAtATime`. The queue has no duplicates (`Distinct`); its first request is being proved
  and the others wait (`InLine`); what is being proved is what is noted so (`Active`); and until a stop, whoever waits is in
  the queue (`Kept`). `ServeKeeps` shows it of `ServeProofs`, which may fail several requests in
  one step: that a first provable one exists is the well-foundedness of the numbers.
- Together: `PipelinesAreApart` and `PipelinesTypeCorrect`.

Each strengthened invariant was checked with TLC on the small instances before it was proved.

Only model-checked: liveness (`Converges`, `StaleSessionEnds`, `FeedsCatchUp`, `PendingSettles`,
`ExecutorSettles`, `ProviderCatchesUp`, `ProofsEnd`), since it needs ENABLED, which the prover
does not do; and the five runs that end in a violation. Every invariant and action property of the
passing runs is a theorem: `NothingLostFromTab`, `NothingLostFromServer` and the refinement under the proviso
named above, the others as they are.
No module the proofs use declares a RECURSIVE operator.

## 5. Order of the work, and what is not modelled

The order put first what loses users' data: `SharedVault` and `E2EESync` (the collection is
not lost, proved with its provisos), `PasswordChange` (the account stays open), `FeedFolders`
(feeds stay in their folders and catch up), then the server: the pipelines, the
accounts and limits, the POAPs and the proofs. Proofs follow the same order, and have reached
every safety property of the runs. Liveness stays with TLC.

Not modelled, and why:

- *Polls against downloads.* A poll that applies actions to a collection which a download
  replaces meanwhile (a hazard in `PROJECT.json`): `FeedFolders` has no downloads, and
  `E2EESync` applies the feeds' answer in one step. Their product is beyond TLC's
  reach at bounds that mean anything, and the next poll repairs the loss.
- *Automatic tickets.* No code sets the `autoIssuanceProvider` of a pipeline, so that none
  are issued. Nor is `lemonadeCheckin`, the part of the Lemonade pipeline that nothing calls.
- *Semaphore groups of Zupass users.* They are rebuilt as a whole every minute from the table of users.
- *Legacy syncs* of Devconnect and Zuzalu, which the pipelines replace.
- *The Telegram bot, Discord, metrics, email*: calls of external services, without a state
  of their own that others rely on.
- *Zupoll and the example programs*: separate programs.
- *Zapps and the user interface*: they edit the collection by the same dispatches as
  `E2EESync` and `FeedFolders` have.
- *POD, GPC, PCD packages, cryptography, parsing*: values, not state; for most of them
  correctness is arithmetic in a field, which is not a matter of a state machine.
- *Vendored code, tools and templates*: not the program.
