--------------------------- MODULE PasswordChange ---------------------------
(***************************************************************************)
(* Changing the password of an account: the row of encrypted storage moves *)
(* to the key derived from the new password (rekeyEncryptedStorage), the   *)
(* tab that asked for it saves the new salt and key (setPassword,          *)
(* saveNewPasswordAndBroadcast) and tells the other tabs of its browser    *)
(* (broadcastChannel.ts), and every tab polls the user's salt to notice    *)
(* that the password was changed elsewhere (pollUser, setSelf).            *)
(*                                                                         *)
(* A password, its salt and the key derived from both are one number, in   *)
(* the order they were thought of.  What is stored is abstracted to its    *)
(* revision; E2EESync models it, for one key.                              *)
(***************************************************************************)
EXTENDS Naturals, FiniteSets

CONSTANTS Tab,        \* browser tabs that run the app
          Device,     \* browsers: the tabs of one share its storage
          DeviceOf,   \* the browser of each tab
          MaxChanges, \* bound: attempts to change the password
          MaxUploads, \* bound: uploads of new content
          MaxFaults,  \* bound: reloads, lost answers, retried transactions
          WholeSave   \* TRUE: no reload between the saves of salt and key

Nobody == "nobody"

ASSUME PasswordAssumption ==
    /\ DeviceOf \in [Tab -> Device] /\ Nobody \notin Device
    /\ MaxChanges \in Nat /\ MaxUploads \in Nat /\ MaxFaults \in Nat
    /\ WholeSave \in BOOLEAN

VARIABLES
    row,      \* server: key and revision of the account's row in e2ee
    salt,     \* server: users.salt
    author,   \* history variable: the device that set each password
    disk,     \* browser storage: self.salt, encryption_key, sync_status
    mem,      \* AppState: self.salt and serverStorageRevision of each tab
    blamed,   \* AppState.anotherDeviceChangedPassword
    change,   \* where each tab's password change stands
    late,     \* requests for a change whose tab has stopped waiting
    poll,     \* where each tab's pollUser() stands
    inbox,    \* tabs with a password_change_on_other_tab message to read
    changes, uploads, faults   \* counters of the bounds

server == <<row, salt, author>>
client == <<disk, mem, blamed, change, poll, inbox>>
budget == <<changes, uploads, faults>>
vars == <<server, client, late, budget>>

Password == 0..MaxChanges
Revision == Nat \ {0}

\* The tabs that share the browser of t.
Siblings(t) == {u \in Tab : DeviceOf[u] = DeviceOf[t]} \ {t}

\* A change of password: its stage, the two keys, and the revision it is of.
Change == [at : {"none", "sent", "answered", "noted", "saved", "keyed"},
           old : Password, new : Password, rev : Nat]
Poll == [at : {"none", "answered", "saved"}, salt : Password]

NoChange == [at |-> "none", old |-> 0, new |-> 0, rev |-> 0]
NoPoll == [at |-> "none", salt |-> 0]

Init ==
    /\ row = [key |-> 0, rev |-> 1]
    /\ salt = 0
    /\ author = [p \in Password |-> Nobody]
    /\ disk = [d \in Device |-> [salt |-> 0, key |-> 0, rev |-> 1]]
    /\ mem = [t \in Tab |-> [salt |-> 0, rev |-> 1]]
    /\ blamed = [t \in Tab |-> FALSE]
    /\ change = [t \in Tab |-> NoChange]
    /\ late = {}
    /\ poll = [t \in Tab |-> NoPoll]
    /\ inbox = {}
    /\ changes = 0 /\ uploads = 0 /\ faults = 0

-----------------------------------------------------------------------------
(* Sync, in one step: E2EESync shows what it does.  The key is the one in  *)
(* the browser's storage; a key without a row gets nothing (404).          *)

Download(t) ==
    LET d == DeviceOf[t]
    IN /\ disk[d].key = row.key /\ mem[t].rev # row.rev
       /\ mem' = [mem EXCEPT ![t].rev = row.rev]
       /\ disk' = [disk EXCEPT ![d].rev = row.rev]
       /\ UNCHANGED <<server, blamed, change, poll, inbox, late, budget>>

Upload(t) ==
    LET d == DeviceOf[t]
    IN /\ uploads < MaxUploads /\ uploads' = uploads + 1
       /\ disk[d].key = row.key /\ mem[t].rev = row.rev
       /\ row' = [row EXCEPT !.rev = @ + 1]
       /\ mem' = [mem EXCEPT ![t].rev = row.rev + 1]
       /\ disk' = [disk EXCEPT ![d].rev = row.rev + 1]
       /\ UNCHANGED <<salt, author, blamed, change, poll, inbox, late, changes,
                      faults>>

-----------------------------------------------------------------------------
(* The change.                                                             *)

\* The user types the current password, which goes with the salt the server
\* returns now, and a new one; the request carries the revision the tab knows.
StartChange(t) ==
    /\ changes < MaxChanges /\ changes' = changes + 1
    /\ change[t].at = "none" /\ ~blamed[t]
    /\ change' = [change EXCEPT ![t] = [at |-> "sent", old |-> salt,
                                        new |-> changes + 1, rev |-> mem[t].rev]]
    /\ UNCHANGED <<server, disk, mem, blamed, poll, inbox, late, uploads, faults>>

\* Variant: the transaction leaves the user's salt as it was.
RekeyOnly(c, d) ==
    /\ c.old = row.key /\ c.rev = row.rev
    /\ row' = [key |-> c.new, rev |-> row.rev + 1]
    /\ author' = [author EXCEPT ![c.new] = d]
    /\ UNCHANGED salt

\* rekeyEncryptedStorage matched the row: blob and salt in one transaction.
Rekey(c, d) ==
    /\ c.old = row.key /\ c.rev = row.rev
    /\ row' = [key |-> c.new, rev |-> row.rev + 1]
    /\ salt' = c.new
    /\ author' = [author EXCEPT ![c.new] = d]

ServeChange(t) ==
    /\ change[t].at = "sent"
    /\ Rekey(change[t], DeviceOf[t])
    /\ change' = [change EXCEPT ![t].at = "answered", ![t].rev = @ + 1]
    /\ UNCHANGED <<disk, mem, blamed, poll, inbox, late, budget>>

\* Variant: any answer counts as a success.
IgnoreRefusal(t) ==
    /\ change[t].at = "sent"
    /\ change[t].old # row.key \/ change[t].rev # row.rev
    /\ change' = [change EXCEPT ![t].at = "answered"]
    /\ UNCHANGED <<server, disk, mem, blamed, poll, inbox, late, budget>>

\* Conflict, or no row at the old key: nothing changes on either side.
RefuseChange(t) ==
    /\ change[t].at = "sent"
    /\ change[t].old # row.key \/ change[t].rev # row.rev
    /\ change' = [change EXCEPT ![t] = NoChange]
    /\ UNCHANGED <<server, disk, mem, blamed, poll, inbox, late, budget>>

\* The connection drops after COMMIT: execTransactionWithRetry starts again on
\* another one, finds no row at the old key, and answers PasswordIncorrect.
ServeChangeTwice(t) ==
    /\ faults < MaxFaults /\ faults' = faults + 1
    /\ change[t].at = "sent"
    /\ Rekey(change[t], DeviceOf[t])
    /\ change' = [change EXCEPT ![t] = NoChange]
    /\ UNCHANGED <<disk, mem, blamed, poll, inbox, late, changes, uploads>>

\* The request, or its answer, is lost; the user is told to try again later.
ChangeFails(t) ==
    /\ faults < MaxFaults /\ faults' = faults + 1
    /\ change[t].at \in {"sent", "answered"}
    /\ late' = IF change[t].at = "sent"
               THEN late \cup {[by |-> DeviceOf[t], asked |-> change[t]]} ELSE late
    /\ change' = [change EXCEPT ![t] = NoChange]
    /\ UNCHANGED <<server, disk, mem, blamed, poll, inbox, changes, uploads>>

ServeLate(r) ==
    /\ late' = late \ {r}
    /\ Rekey(r.asked, r.by)
    /\ UNCHANGED <<client, budget>>

\* Variant: the revision of the answer is dropped.
DropNewRevision(t) ==
    /\ change[t].at = "answered"
    /\ disk' = [disk EXCEPT ![DeviceOf[t]].rev = 0]
    /\ change' = [change EXCEPT ![t].at = "noted"]
    /\ UNCHANGED <<server, mem, blamed, poll, inbox, late, budget>>

\* updateBlobKeyForEncryptedStorage saves the sync status.
NoteChange(t) ==
    /\ change[t].at = "answered"
    /\ disk' = [disk EXCEPT ![DeviceOf[t]].rev = change[t].rev]
    /\ change' = [change EXCEPT ![t].at = "noted"]
    /\ UNCHANGED <<server, mem, blamed, poll, inbox, late, budget>>

\* setPassword dispatches change-password, which saves the user with the new
\* salt, and updates the revision at once.
SaveNewSelf(t) ==
    /\ change[t].at = "noted"
    /\ mem' = [mem EXCEPT ![t].rev = change[t].rev]
    /\ disk' = [disk EXCEPT ![DeviceOf[t]].salt = change[t].new]
    /\ change' = [change EXCEPT ![t].at = "saved"]
    /\ UNCHANGED <<server, blamed, poll, inbox, late, budget>>

\* saveEncryptionKey.
SaveNewKey(t) ==
    /\ change[t].at = "saved"
    /\ disk' = [disk EXCEPT ![DeviceOf[t]].key = change[t].new]
    /\ change' = [change EXCEPT ![t].at = "keyed"]
    /\ UNCHANGED <<server, mem, blamed, poll, inbox, late, budget>>

\* The other tabs are told, and the tab goes on with the new salt.
Announce(t) ==
    /\ change[t].at = "keyed"
    /\ mem' = [mem EXCEPT ![t].salt = change[t].new]
    /\ inbox' = inbox \cup Siblings(t)
    /\ change' = [change EXCEPT ![t] = NoChange]
    /\ UNCHANGED <<server, disk, blamed, poll, late, budget>>

\* handlePasswordChangeOnOtherTab: the saved user replaces the tab's.
ReadMessage(t) ==
    /\ t \in inbox /\ inbox' = inbox \ {t}
    /\ mem' = [mem EXCEPT ![t].salt = disk[DeviceOf[t]].salt]
    /\ UNCHANGED <<server, disk, blamed, change, poll, late, budget>>

-----------------------------------------------------------------------------
(* The poll.                                                               *)

\* doPollServerUpdates asks for the user; the answer carries today's salt.
AskUser(t) ==
    /\ poll[t].at = "none" /\ ~blamed[t]
    /\ poll' = [poll EXCEPT ![t] = [at |-> "answered", salt |-> salt]]
    /\ UNCHANGED <<server, disk, mem, blamed, change, inbox, late, budget>>

\* Variant: the tab takes the salt of the answer, whatever it is.
AdoptSalt(t) ==
    /\ poll[t].at = "answered" /\ poll[t].salt # mem[t].salt
    /\ mem' = [mem EXCEPT ![t].salt = poll[t].salt]
    /\ poll' = [poll EXCEPT ![t] = NoPoll]
    /\ UNCHANGED <<server, disk, blamed, change, inbox, late, budget>>

\* setSelf, with a salt that is not the tab's: the session is invalid.
SaltDiffers(t) ==
    /\ poll[t].at = "answered" /\ poll[t].salt # mem[t].salt
    /\ blamed' = [blamed EXCEPT ![t] = TRUE]
    /\ poll' = [poll EXCEPT ![t] = NoPoll]
    /\ UNCHANGED <<server, disk, mem, change, inbox, late, budget>>

\* Otherwise the user is saved, and then set.
SaveUser(t) ==
    /\ poll[t].at = "answered" /\ poll[t].salt = mem[t].salt
    /\ disk' = [disk EXCEPT ![DeviceOf[t]].salt = poll[t].salt]
    /\ poll' = [poll EXCEPT ![t].at = "saved"]
    /\ UNCHANGED <<server, mem, blamed, change, inbox, late, budget>>

SetUser(t) ==
    /\ poll[t].at = "saved"
    /\ mem' = [mem EXCEPT ![t].salt = poll[t].salt]
    /\ poll' = [poll EXCEPT ![t] = NoPoll]
    /\ UNCHANGED <<server, disk, blamed, change, inbox, late, budget>>

\* The page goes away, whatever it was doing, and starts again from storage.
Reload(t) ==
    /\ faults < MaxFaults /\ faults' = faults + 1
    /\ WholeSave => change[t].at # "saved"
    /\ late' = IF change[t].at = "sent"
               THEN late \cup {[by |-> DeviceOf[t], asked |-> change[t]]} ELSE late
    /\ mem' = [mem EXCEPT ![t] = [salt |-> disk[DeviceOf[t]].salt,
                                  rev |-> disk[DeviceOf[t]].rev]]
    /\ blamed' = [blamed EXCEPT ![t] = FALSE]
    /\ change' = [change EXCEPT ![t] = NoChange]
    /\ poll' = [poll EXCEPT ![t] = NoPoll]
    /\ inbox' = inbox \ {t}
    /\ UNCHANGED <<server, disk, changes, uploads>>

\* The user follows the warning: logging out empties the browser's storage and
\* reloads its tabs, and logging in fetches salt and row with the password.
LogInAgain(d) ==
    LET here == {t \in Tab : DeviceOf[t] = d}
    IN /\ \E t \in here : blamed[t]
       /\ late' = late \cup {[by |-> d, asked |-> change[t]] :
                             t \in {u \in here : change[u].at = "sent"}}
       /\ disk' = [disk EXCEPT ![d] = [salt |-> salt, key |-> row.key, rev |-> row.rev]]
       /\ mem' = [t \in Tab |-> IF t \in here THEN [salt |-> salt, rev |-> row.rev]
                                              ELSE mem[t]]
       /\ blamed' = [t \in Tab |-> blamed[t] /\ t \notin here]
       /\ change' = [t \in Tab |-> IF t \in here THEN NoChange ELSE change[t]]
       /\ poll' = [t \in Tab |-> IF t \in here THEN NoPoll ELSE poll[t]]
       /\ inbox' = inbox \ here
       /\ UNCHANGED <<server, budget>>

-----------------------------------------------------------------------------
ChangeStep(t) == \/ ServeChange(t) \/ RefuseChange(t) \/ NoteChange(t)
                 \/ SaveNewSelf(t) \/ SaveNewKey(t) \/ Announce(t)

PollStep(t) == AskUser(t) \/ SaltDiffers(t) \/ SaveUser(t) \/ SetUser(t)

Next == \/ \E t \in Tab : \/ Download(t) \/ Upload(t) \/ StartChange(t)
                          \/ ChangeStep(t) \/ PollStep(t) \/ ReadMessage(t)
                          \/ ServeChangeTwice(t) \/ ChangeFails(t) \/ Reload(t)
        \/ \E d \in Device : LogInAgain(d)
        \/ \E r \in late : ServeLate(r)

Spec == Init /\ [][Next]_vars

\* Requests are answered, promises resolve, messages arrive, and the page stays
\* visible so that it polls.
Fairness == \A t \in Tab : /\ WF_vars(ChangeStep(t)) /\ WF_vars(PollStep(t))
                           /\ WF_vars(ReadMessage(t))

FairSpec == Spec /\ Fairness

-----------------------------------------------------------------------------
TypeOK ==
    /\ row \in [key : Password, rev : Revision] /\ salt \in Password
    /\ author \in [Password -> Device \cup {Nobody}]
    /\ disk \in [Device -> [salt : Password, key : Password, rev : Revision]]
    /\ mem \in [Tab -> [salt : Password, rev : Revision]]
    /\ blamed \in [Tab -> BOOLEAN]
    /\ change \in [Tab -> Change] /\ poll \in [Tab -> Poll]
    /\ late \subseteq [by : Device, asked : Change]
    /\ inbox \subseteq Tab /\ changes \in 0..MaxChanges

\* The user can always log in: the current password, with the salt the server
\* returns, gives the key of the row, whatever requests raced or were repeated.
AccountOpens == salt = row.key

\* A browser's key is one the row had: no refused, failed or lost change leaves
\* a browser with a key that opens nothing.
NoPhantomKey == \A d \in Device : LET k == disk[d].key
                                  IN k = 0 \/ author[k] # Nobody

\* A session whose key no longer opens the row comes to an end: the poll finds
\* the salt changed and tells the user, or the browser gets the current key.
StaleSessionEnds ==
    \A t \in Tab : LET stale == disk[DeviceOf[t]].key # row.key
                   IN stale ~> ~stale \/ blamed[t]

\* Only a change made on another device invalidates a session: that is what
\* anotherDeviceChangedPassword stands for.
OnlyOthersAreBlamed ==
    [][\A t \in Tab : blamed'[t] /\ ~blamed[t] =>
         \E p \in Password : author[p] \notin {Nobody, DeviceOf[t]}]_vars
=============================================================================
