----------------------- MODULE PasswordChange_proofs -----------------------
(***************************************************************************)
(* Proofs about PasswordChange, for any tabs, browsers and bounds.         *)
(***************************************************************************)
EXTENDS PasswordChange, TLAPS

(* A change the server has accepted is of a password somebody set, and its *)
(* answer has a revision: the browser saves nothing else.                  *)
Granted(c) == author[c.new] # Nobody /\ c.rev # 0

GrantedOnly == \A t \in Tab : change[t].at \notin {"none", "sent"} => Granted(change[t])

(* The row's own key was set by somebody, or is the one of the login. *)
RowIsKnown == row.key = 0 \/ author[row.key] # Nobody

KeyInv == TypeOK /\ GrantedOnly /\ RowIsKnown /\ NoPhantomKey

-----------------------------------------------------------------------------
(* Types of the records. *)

(* The initial records have their types. *)
LEMMA Zero == 0 \in Password /\ NoChange \in Change /\ NoPoll \in Poll
  BY PasswordAssumption DEF PasswordAssumption, Password, NoChange, NoPoll, Change, Poll

(* What a change is made of. *)
LEMMA ChangeFields ==
  \A c \in Change : c.old \in Password /\ c.new \in Password /\ c.rev \in Nat
  BY DEF Change

(* A step of a change that moves on or takes a new revision. *)
LEMMA MoveChange ==
  ASSUME change \in [Tab -> Change], NEW t \in Tab, NEW r \in Nat,
         NEW p \in {"none", "sent", "answered", "noted", "saved", "keyed"}
  PROVE  /\ [change EXCEPT ![t].at = p, ![t].rev = r] \in [Tab -> Change]
         /\ [change EXCEPT ![t].at = p] \in [Tab -> Change]
  BY DEF Change

(* What the server does for an accepted change, and what it never does. *)
LEMMA RekeyType ==
  ASSUME TypeOK, NEW c \in Change, NEW d \in Device, Rekey(c, d)
  PROVE  /\ row' \in [key : Password, rev : Revision] /\ row'.key = c.new
         /\ salt' \in Password
         /\ author' \in [Password -> Device \cup {Nobody}]
         /\ author'[c.new] # Nobody
         /\ \A p \in Password : author[p] # Nobody => author'[p] # Nobody
  BY ChangeFields, PasswordAssumption
  DEF Rekey, TypeOK, Revision, PasswordAssumption

(* Writes to one field of a browser's storage, or of a tab's state. *)
LEMMA DiskWrite ==
  ASSUME TypeOK, NEW d \in Device, NEW p \in Password, NEW r \in Revision
  PROVE  /\ [disk EXCEPT ![d].salt = p] \in [Device -> [salt : Password, key : Password, rev : Revision]]
         /\ [disk EXCEPT ![d].key = p] \in [Device -> [salt : Password, key : Password, rev : Revision]]
         /\ [disk EXCEPT ![d].rev = r] \in [Device -> [salt : Password, key : Password, rev : Revision]]
  BY DEF TypeOK

\* A tab that takes over a salt or a revision is well-typed.
LEMMA MemWrite ==
  ASSUME TypeOK, NEW t \in Tab, NEW p \in Password, NEW r \in Revision
  PROVE  /\ [mem EXCEPT ![t].salt = p] \in [Tab -> [salt : Password, rev : Revision]]
         /\ [mem EXCEPT ![t].rev = r] \in [Tab -> [salt : Password, rev : Revision]]
  BY DEF TypeOK

(* A request that outlives its tab is one a tab made. *)
LEMMA LateType ==
  ASSUME TypeOK, NEW t \in Tab
  PROVE  late \cup {[by |-> DeviceOf[t], asked |-> change[t]]}
           \subseteq [by : Device, asked : Change]
  BY PasswordAssumption DEF TypeOK, PasswordAssumption

-----------------------------------------------------------------------------
(* Type correctness. *)

(* Everything has its type after the login. *)
LEMMA InitType == Init => TypeOK
  BY Zero, PasswordAssumption DEF Init, TypeOK, Revision, PasswordAssumption

(* Every step keeps the types: one step of the proof per action. *)
LEMMA StepType == ASSUME KeyInv, [Next]_vars PROVE TypeOK'
<1> USE Zero, PasswordAssumption DEF KeyInv, TypeOK, PasswordAssumption, server, client, budget
<1>1. ASSUME NEW t \in Tab, Download(t) PROVE TypeOK'
  BY <1>1 DEF Download
<1>2. ASSUME NEW t \in Tab, Upload(t) PROVE TypeOK'
  <2>1. DeviceOf[t] \in Device
    OBVIOUS
  <2>2. row.rev + 1 \in Revision
    BY DEF Revision
  <2>3. row' \in [key : Password, rev : Revision]
    BY <1>2, <2>2 DEF Upload
  <2>4. mem' \in [Tab -> [salt : Password, rev : Revision]]
    BY <1>2, <2>2, MemWrite DEF Upload
  <2>5. disk' \in [Device -> [salt : Password, key : Password, rev : Revision]]
    BY <1>2, <2>1, <2>2, DiskWrite DEF Upload
  <2>6. QED
    BY <1>2, <2>1, <2>2, <2>3, <2>4, <2>5 DEF Upload
<1>3. ASSUME NEW t \in Tab, StartChange(t) PROVE TypeOK'
  <2>1. changes + 1 \in Password /\ changes' \in 0..MaxChanges
    BY <1>3 DEF StartChange, Password
  <2>2. mem[t].rev \in Nat
    BY DEF Revision
  <2>3. change' \in [Tab -> Change]
    BY <1>3, <2>1, <2>2 DEF StartChange, Change
  <2>4. QED
    BY <1>3, <2>1, <2>2, <2>3 DEF StartChange
<1>4. ASSUME NEW t \in Tab, ServeChange(t) PROVE TypeOK'
  <2>1. change[t] \in Change /\ DeviceOf[t] \in Device /\ change[t].rev + 1 \in Nat
    BY ChangeFields
  <2>2. /\ row' \in [key : Password, rev : Revision] /\ salt' \in Password
        /\ author' \in [Password -> Device \cup {Nobody}]
    BY <1>4, <2>1, RekeyType DEF ServeChange
  <2>3. change' \in [Tab -> Change]
    BY <1>4, <2>1, MoveChange DEF ServeChange
  <2>4. QED
    BY <1>4, <2>1, <2>2, <2>3 DEF ServeChange
<1>5. ASSUME NEW t \in Tab, RefuseChange(t) PROVE TypeOK'
  BY <1>5 DEF RefuseChange
<1>6. ASSUME NEW t \in Tab, NoteChange(t) PROVE TypeOK'
  <2>1. DeviceOf[t] \in Device
    OBVIOUS
  <2>2. change[t].rev \in Revision
    BY <1>6, ChangeFields DEF NoteChange, GrantedOnly, Granted, Revision
  <2>3. disk' \in [Device -> [salt : Password, key : Password, rev : Revision]]
    BY <1>6, <2>1, <2>2, DiskWrite DEF NoteChange
  <2>4. change' \in [Tab -> Change]
    BY <1>6, MoveChange DEF NoteChange
  <2>5. QED
    BY <1>6, <2>1, <2>2, <2>3, <2>4 DEF NoteChange
<1>7. ASSUME NEW t \in Tab, SaveNewSelf(t) PROVE TypeOK'
  <2>1. DeviceOf[t] \in Device
    OBVIOUS
  <2>2. change[t].rev \in Revision /\ change[t].new \in Password
    BY <1>7, ChangeFields DEF SaveNewSelf, GrantedOnly, Granted, Revision
  <2>3. disk' \in [Device -> [salt : Password, key : Password, rev : Revision]]
    BY <1>7, <2>1, <2>2, DiskWrite DEF SaveNewSelf
  <2>4. mem' \in [Tab -> [salt : Password, rev : Revision]]
    BY <1>7, <2>2, MemWrite DEF SaveNewSelf
  <2>5. change' \in [Tab -> Change]
    BY <1>7, MoveChange DEF SaveNewSelf
  <2>6. QED
    BY <1>7, <2>1, <2>2, <2>3, <2>4, <2>5 DEF SaveNewSelf
<1>8. ASSUME NEW t \in Tab, SaveNewKey(t) PROVE TypeOK'
  <2>1. DeviceOf[t] \in Device
    OBVIOUS
  <2>2. change[t].new \in Password
    BY ChangeFields
  <2>3. disk' \in [Device -> [salt : Password, key : Password, rev : Revision]]
    BY <1>8, <2>1, <2>2, DiskWrite DEF SaveNewKey
  <2>4. change' \in [Tab -> Change]
    BY <1>8, MoveChange DEF SaveNewKey
  <2>5. QED
    BY <1>8, <2>1, <2>2, <2>3, <2>4 DEF SaveNewKey
<1>9. ASSUME NEW t \in Tab, Announce(t) PROVE TypeOK'
  <2>1. change[t].new \in Password
    BY ChangeFields
  <2>2. mem' \in [Tab -> [salt : Password, rev : Revision]]
    BY <1>9, <2>1, MemWrite DEF Announce
  <2>3. inbox' \subseteq Tab
    BY <1>9 DEF Announce, Siblings
  <2>4. change' \in [Tab -> Change]
    BY <1>9 DEF Announce
  <2>5. QED
    BY <1>9, <2>1, <2>2, <2>3, <2>4 DEF Announce
<1>10. ASSUME NEW t \in Tab, AskUser(t) PROVE TypeOK'
  <2>1. poll' \in [Tab -> Poll]
    BY <1>10 DEF AskUser, Poll
  <2>2. QED
    BY <1>10, <2>1 DEF AskUser
<1>11. ASSUME NEW t \in Tab, SaltDiffers(t) PROVE TypeOK'
  BY <1>11 DEF SaltDiffers
<1>12. ASSUME NEW t \in Tab, SaveUser(t) PROVE TypeOK'
  <2>1. DeviceOf[t] \in Device
    OBVIOUS
  <2>2. poll[t].salt \in Password
    BY DEF Poll
  <2>3. disk' \in [Device -> [salt : Password, key : Password, rev : Revision]]
    BY <1>12, <2>1, <2>2, DiskWrite DEF SaveUser
  <2>4. poll' \in [Tab -> Poll]
    BY <1>12 DEF SaveUser, Poll
  <2>5. QED
    BY <1>12, <2>1, <2>2, <2>3, <2>4 DEF SaveUser
<1>13. ASSUME NEW t \in Tab, SetUser(t) PROVE TypeOK'
  <2>1. poll[t].salt \in Password
    BY DEF Poll
  <2>2. mem' \in [Tab -> [salt : Password, rev : Revision]]
    BY <1>13, <2>1, MemWrite DEF SetUser
  <2>3. poll' \in [Tab -> Poll]
    BY <1>13 DEF SetUser
  <2>4. QED
    BY <1>13, <2>1, <2>2, <2>3 DEF SetUser
<1>14. ASSUME NEW t \in Tab, ReadMessage(t) PROVE TypeOK'
  BY <1>14 DEF ReadMessage
<1>15. ASSUME NEW t \in Tab, ServeChangeTwice(t) PROVE TypeOK'
  <2>1. change[t] \in Change /\ DeviceOf[t] \in Device
    OBVIOUS
  <2>2. /\ row' \in [key : Password, rev : Revision] /\ salt' \in Password
        /\ author' \in [Password -> Device \cup {Nobody}]
    BY <1>15, <2>1, RekeyType DEF ServeChangeTwice
  <2>3. change' \in [Tab -> Change]
    BY <1>15 DEF ServeChangeTwice
  <2>4. QED
    BY <1>15, <2>1, <2>2, <2>3 DEF ServeChangeTwice
<1>16. ASSUME NEW t \in Tab, ChangeFails(t) PROVE TypeOK'
  <2>1. late' \subseteq [by : Device, asked : Change]
    BY <1>16, LateType DEF ChangeFails
  <2>2. change' \in [Tab -> Change]
    BY <1>16 DEF ChangeFails
  <2>3. QED
    BY <1>16, <2>1, <2>2 DEF ChangeFails
<1>17. ASSUME NEW t \in Tab, Reload(t) PROVE TypeOK'
  <2>1. late' \subseteq [by : Device, asked : Change]
    BY <1>17, LateType DEF Reload
  <2>2. change' \in [Tab -> Change]
    BY <1>17 DEF Reload
  <2>3. [salt |-> disk[DeviceOf[t]].salt, rev |-> disk[DeviceOf[t]].rev]
          \in [salt : Password, rev : Revision]
    OBVIOUS
  <2>4. mem' \in [Tab -> [salt : Password, rev : Revision]]
    BY <1>17, <2>3 DEF Reload
  <2>5. QED
    BY <1>17, <2>1, <2>2, <2>3, <2>4 DEF Reload
<1>18. ASSUME NEW d \in Device, LogInAgain(d) PROVE TypeOK'
  <2>1. late' \subseteq [by : Device, asked : Change]
    BY <1>18 DEF LogInAgain
  <2>2. disk' \in [Device -> [salt : Password, key : Password, rev : Revision]]
    BY <1>18 DEF LogInAgain
  <2>3. mem' \in [Tab -> [salt : Password, rev : Revision]]
    BY <1>18 DEF LogInAgain
  <2>4. change' \in [Tab -> Change]
    BY <1>18 DEF LogInAgain
  <2>5. poll' \in [Tab -> Poll]
    BY <1>18 DEF LogInAgain
  <2>6. blamed' \in [Tab -> BOOLEAN]
    BY <1>18 DEF LogInAgain
  <2>7. QED
    BY <1>18, <2>1, <2>2, <2>3, <2>4, <2>5, <2>6 DEF LogInAgain
<1>19. ASSUME NEW r \in late, ServeLate(r) PROVE TypeOK'
  <2>1. r.asked \in Change /\ r.by \in Device
    OBVIOUS
  <2>2. /\ row' \in [key : Password, rev : Revision] /\ salt' \in Password
        /\ author' \in [Password -> Device \cup {Nobody}]
    BY <1>19, <2>1, RekeyType DEF ServeLate
  <2>3. QED
    BY <1>19, <2>1, <2>2 DEF ServeLate
<1>20. CASE UNCHANGED vars
  BY <1>20 DEF vars
<1>21. QED
  BY <1>1, <1>2, <1>3, <1>4, <1>5, <1>6, <1>7, <1>8, <1>9, <1>10, <1>11, <1>12, <1>13, <1>14, <1>15, <1>16, <1>17, <1>18, <1>19, <1>20
  DEF Next, ChangeStep, PollStep

-----------------------------------------------------------------------------
(* Every browser's key was once the key of the row. *)

(* The row is given a key only by rekeyEncryptedStorage. *)
LEMMA RowChange ==
  ASSUME KeyInv, [Next]_vars
  PROVE  \/ row'.key = row.key /\ author' = author
         \/ \E c \in Change, d \in Device : Rekey(c, d)
<1> USE DEF KeyInv, TypeOK
<1>1. ASSUME NEW t \in Tab, ServeChange(t) \/ ServeChangeTwice(t)
      PROVE  \E c \in Change, d \in Device : Rekey(c, d)
  BY <1>1, PasswordAssumption DEF ServeChange, ServeChangeTwice, PasswordAssumption
<1>2. ASSUME NEW r \in late, ServeLate(r)
      PROVE  \E c \in Change, d \in Device : Rekey(c, d)
  <2>1. r.asked \in Change /\ r.by \in Device
    OBVIOUS
  <2>2. QED
    BY <1>2, <2>1 DEF ServeLate
<1>3. ASSUME NEW t \in Tab, Upload(t)
      PROVE  row'.key = row.key /\ author' = author
  BY <1>3 DEF Upload
<1>4. CASE UNCHANGED <<row, author>>
  BY <1>4
<1>5. QED
  BY <1>1, <1>2, <1>3, <1>4
  DEF Next, ChangeStep, PollStep, vars, server, client, Download, StartChange,
      RefuseChange, NoteChange, SaveNewSelf, SaveNewKey, Announce, AskUser,
      SaltDiffers, SaveUser, SetUser, ReadMessage, ChangeFails, Reload, LogInAgain

(* A password, once set by somebody, stays so. *)
LEMMA AuthorsStay ==
  ASSUME KeyInv, [Next]_vars, NEW p \in Password, author[p] # Nobody
  PROVE  author'[p] # Nobody
<1>1. CASE author' = author
  BY <1>1
<1>2. CASE \E c \in Change, d \in Device : Rekey(c, d)
  BY <1>2, RekeyType DEF KeyInv
<1>3. QED
  BY <1>1, <1>2, RowChange

(* A step keeps the row's key known. *)
LEMMA StepRow == ASSUME KeyInv, [Next]_vars PROVE RowIsKnown'
<1>1. CASE row'.key = row.key /\ author' = author
  BY <1>1 DEF KeyInv, RowIsKnown
<1>2. CASE \E c \in Change, d \in Device : Rekey(c, d)
  BY <1>2, RekeyType DEF KeyInv, RowIsKnown
<1>3. QED
  BY <1>1, <1>2, RowChange

(* A change goes past "sent" only when the server has accepted it. *)
LEMMA GrantChange ==
  ASSUME KeyInv, [Next]_vars, NEW t \in Tab, change'[t].at \notin {"none", "sent"}
  PROVE  \/ /\ change[t].at \notin {"none", "sent"}
            /\ change'[t].new = change[t].new /\ change'[t].rev = change[t].rev
         \/ ServeChange(t)
<1> USE DEF KeyInv, TypeOK
<1>1. CASE change' = change
  BY <1>1
<1>2. ASSUME NEW u \in Tab, StartChange(u) PROVE change'[t] = change[t]
  BY <1>2 DEF StartChange
<1>3. ASSUME NEW u \in Tab, ServeChange(u) PROVE u = t \/ change'[t] = change[t]
  BY <1>3 DEF ServeChange
<1>4. ASSUME NEW u \in Tab,
             RefuseChange(u) \/ ServeChangeTwice(u) \/ ChangeFails(u) \/ Announce(u)
                \/ Reload(u)
      PROVE  change'[t] = change[t]
  BY <1>4 DEF RefuseChange, ServeChangeTwice, ChangeFails, Announce, Reload, NoChange
<1>5. ASSUME NEW u \in Tab, NoteChange(u) \/ SaveNewSelf(u) \/ SaveNewKey(u)
      PROVE  /\ change[t].at \notin {"none", "sent"}
             /\ change'[t].new = change[t].new /\ change'[t].rev = change[t].rev
  <2>1. PICK p : change' = [change EXCEPT ![u].at = p]
    BY <1>5 DEF NoteChange, SaveNewSelf, SaveNewKey
  <2>2. change'[t].new = change[t].new /\ change'[t].rev = change[t].rev
    BY <2>1 DEF Change
  <2>3. change[u].at \notin {"none", "sent"}
    BY <1>5 DEF NoteChange, SaveNewSelf, SaveNewKey
  <2>4. u = t \/ change'[t] = change[t]
    BY <2>1
  <2>5. QED
    BY <2>2, <2>3, <2>4
<1>6. ASSUME NEW d \in Device, LogInAgain(d) PROVE change'[t] = change[t]
  BY <1>6 DEF LogInAgain, NoChange
<1>7. QED
  BY <1>1, <1>2, <1>3, <1>4, <1>5, <1>6
  DEF Next, ChangeStep, PollStep, vars, server, client, Download, Upload, AskUser,
      SaltDiffers, SaveUser, SetUser, ReadMessage, ServeLate

(* A step keeps accepted changes genuine. *)
LEMMA StepGranted == ASSUME KeyInv, [Next]_vars PROVE GrantedOnly'
<1> SUFFICES ASSUME NEW t \in Tab, change'[t].at \notin {"none", "sent"}
             PROVE  author'[change'[t].new] # Nobody /\ change'[t].rev # 0
  BY DEF GrantedOnly, Granted
<1>1. change[t] \in Change /\ change[t].new \in Password /\ change[t].rev \in Nat
  BY ChangeFields DEF KeyInv, TypeOK
<1>2. CASE /\ change[t].at \notin {"none", "sent"}
           /\ change'[t].new = change[t].new /\ change'[t].rev = change[t].rev
  BY <1>1, <1>2, AuthorsStay DEF KeyInv, GrantedOnly, Granted
<1>3. CASE ServeChange(t)
  <2>1. Rekey(change[t], DeviceOf[t]) /\ DeviceOf[t] \in Device
    BY <1>3, PasswordAssumption DEF ServeChange, PasswordAssumption
  <2>2. author'[change[t].new] # Nobody
    BY <1>1, <2>1, RekeyType DEF KeyInv
  <2>3. change'[t].new = change[t].new /\ change'[t].rev = change[t].rev + 1
    BY <1>1, <1>3 DEF ServeChange, KeyInv, TypeOK, Change
  <2>4. QED
    BY <1>1, <2>2, <2>3
<1>4. QED
  BY <1>2, <1>3, GrantChange

(* A browser's key is written by an accepted change and by a login only. *)
LEMMA KeyChange ==
  ASSUME KeyInv, [Next]_vars, NEW d \in Device, disk'[d].key # disk[d].key
  PROVE  \/ \E t \in Tab : SaveNewKey(t) /\ disk'[d].key = change[t].new
         \/ LogInAgain(d) /\ disk'[d].key = row.key
<1> USE PasswordAssumption DEF KeyInv, TypeOK, PasswordAssumption
<1>1. ASSUME NEW t \in Tab,
             Download(t) \/ Upload(t) \/ NoteChange(t) \/ SaveNewSelf(t) \/ SaveUser(t)
      PROVE  disk'[d].key = disk[d].key
  <2>1. \/ \E r : disk' = [disk EXCEPT ![DeviceOf[t]].rev = r]
        \/ \E p : disk' = [disk EXCEPT ![DeviceOf[t]].salt = p]
    BY <1>1 DEF Download, Upload, NoteChange, SaveNewSelf, SaveUser
  <2>2. ASSUME NEW r, disk' = [disk EXCEPT ![DeviceOf[t]].rev = r]
        PROVE  disk'[d].key = disk[d].key
    BY <2>2
  <2>3. ASSUME NEW p, disk' = [disk EXCEPT ![DeviceOf[t]].salt = p]
        PROVE  disk'[d].key = disk[d].key
    BY <2>3
  <2>4. QED
    BY <2>1, <2>2, <2>3
<1>2. ASSUME NEW t \in Tab, SaveNewKey(t) PROVE disk'[d].key = change[t].new
  BY <1>2 DEF SaveNewKey
<1>3. ASSUME NEW e \in Device, LogInAgain(e) PROVE e = d /\ disk'[d].key = row.key
  BY <1>3 DEF LogInAgain
<1>4. QED
  BY <1>1, <1>2, <1>3
  DEF Next, ChangeStep, PollStep, vars, server, client, StartChange, ServeChange,
      RefuseChange, Announce, AskUser, SaltDiffers, SetUser, ReadMessage,
      ServeChangeTwice, ChangeFails, Reload, ServeLate

(* A step keeps the browsers' keys genuine. *)
LEMMA StepKey == ASSUME KeyInv, [Next]_vars PROVE NoPhantomKey'
<1> SUFFICES ASSUME NEW d \in Device
             PROVE  disk'[d].key = 0 \/ author'[disk'[d].key] # Nobody
  BY DEF NoPhantomKey
<1>1. CASE disk'[d].key = disk[d].key
  <2>1. disk[d].key \in Password
    BY DEF KeyInv, TypeOK
  <2>2. QED
    BY <1>1, <2>1, AuthorsStay DEF KeyInv, NoPhantomKey
<1>2. ASSUME NEW t \in Tab, SaveNewKey(t), disk'[d].key = change[t].new
      PROVE  author'[disk'[d].key] # Nobody
  <2>1. author[change[t].new] # Nobody
    BY <1>2 DEF SaveNewKey, KeyInv, GrantedOnly, Granted
  <2>2. change[t].new \in Password
    BY ChangeFields DEF KeyInv, TypeOK
  <2>3. QED
    BY <1>2, <2>1, <2>2, AuthorsStay
<1>3. CASE LogInAgain(d) /\ disk'[d].key = row.key
  <2>1. row.key \in Password
    BY DEF KeyInv, TypeOK
  <2>2. QED
    BY <1>3, <2>1, AuthorsStay DEF KeyInv, RowIsKnown
<1>4. QED
  BY <1>1, <1>2, <1>3, KeyChange

-----------------------------------------------------------------------------
(* The invariant holds in every run. *)
LEMMA KeyInvariant == Spec => []KeyInv
<1>1. Init => KeyInv
  BY InitType DEF Init, KeyInv, GrantedOnly, RowIsKnown, NoPhantomKey, NoChange
<1>2. KeyInv /\ [Next]_vars => KeyInv'
  BY StepType, StepGranted, StepRow, StepKey DEF KeyInv
<1>3. QED
  BY <1>1, <1>2, PTL DEF Spec

(* Every part of the state keeps its type; no change leaves a browser with *)
(* a missing revision.                                                     *)
THEOREM TypeCorrect == Spec => []TypeOK
<1>1. KeyInv => TypeOK
  BY DEF KeyInv
<1>2. QED
  BY <1>1, KeyInvariant, PTL

(* A browser never stores a key the row did not have: setPassword saves the *)
(* new key only after the server accepted it.                               *)
THEOREM KeysAreGenuine == Spec => []NoPhantomKey
<1>1. KeyInv => NoPhantomKey
  BY DEF KeyInv
<1>2. QED
  BY <1>1, KeyInvariant, PTL

(* The salt the server returns goes with the key of the row, however many   *)
(* changes race, are repeated or arrive late: a password opens the account. *)
THEOREM PasswordOpensAccount == Spec => []AccountOpens
<1>1. Init => AccountOpens
  BY DEF Init, AccountOpens
<1>2. ASSUME KeyInv, AccountOpens, [Next]_vars PROVE AccountOpens'
  <2>1. ASSUME NEW c, NEW d, Rekey(c, d) PROVE AccountOpens'
    BY <2>1 DEF Rekey, AccountOpens
  <2>2. ASSUME NEW t \in Tab, Upload(t) PROVE AccountOpens'
    BY <1>2, <2>2 DEF Upload, AccountOpens, KeyInv, TypeOK
  <2>3. CASE UNCHANGED <<row, salt>>
    BY <1>2, <2>3 DEF AccountOpens
  <2>4. QED
    BY <1>2, <2>1, <2>2, <2>3
    DEF Next, ChangeStep, PollStep, vars, server, client, ServeChange,
        ServeChangeTwice, ServeLate, Download, StartChange, RefuseChange,
        NoteChange, SaveNewSelf, SaveNewKey, Announce, AskUser, SaltDiffers,
        SaveUser, SetUser, ReadMessage, ChangeFails, Reload, LogInAgain
<1>3. QED
  BY <1>1, <1>2, KeyInvariant, PTL DEF Spec
=============================================================================
