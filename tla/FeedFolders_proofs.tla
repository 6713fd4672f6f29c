------------------------- MODULE FeedFolders_proofs -------------------------
(* Proofs about FeedFolders, for any feeds, folders, ids and bounds. *)
EXTENDS FeedFolders, SequenceTheorems, TLAPS

(***************************************************************************)
(* Folders.                                                                *)
(***************************************************************************)

\* Folder ancestry is transitive.
LEMMA CoversTransitive ==
    ASSUME NEW a \in Seq(STRING), NEW b \in Seq(STRING), NEW c \in Seq(STRING),
           Covers(a, b), Covers(b, c)
    PROVE  Covers(a, c)
<1>1. IsPrefix(a, b) /\ IsPrefix(b, c)
  <2>1. \A s \in Seq(STRING) : IsPrefix(s, s)
    BY DEF IsPrefix
  <2> QED
    BY <2>1 DEF Covers, IsFolderAncestor, IsStrictPrefix
<1>2. Len(a) <= Len(b) /\ Len(b) <= Len(c)
  BY <1>1 DEF IsPrefix
<1>3. \A i \in 1..Len(a) : a[i] = b[i]
  BY <1>1, <1>2 DEF IsPrefix
<1>4. \A i \in 1..Len(b) : b[i] = c[i]
  BY <1>1, <1>2 DEF IsPrefix
<1>5. \A i \in 1..Len(a) : a[i] = c[i]
  BY <1>2, <1>3, <1>4
<1>6. IsPrefix(a, c)
  BY <1>2, <1>5 DEF IsPrefix
<1> QED
  BY <1>6 DEF Covers, IsFolderAncestor, IsStrictPrefix

-----------------------------------------------------------------------------
(***************************************************************************)
(* Types.                                                                  *)
(***************************************************************************)

(* A poll that has ended, or was just asked, is a poll. *)
LEMMA FreshPoll == NoPoll \in Poll /\ Asked \in Poll
<1>1. <<>> \in Seq(Action)
  OBVIOUS
<1>2. QED
  BY <1>1 DEF NoPoll, Asked, Poll

(* What a poll is made of. *)
LEMMA PollFields ==
  \A r \in Poll : /\ r.todo \in Seq(Action) /\ r.grant \subseteq Folder
                  /\ r.at \in {"applying", "decoding"} => r.todo # <<>>
  BY DEF Poll

(* What the actions write to a subscription keeps it a subscription. *)
LEMMA SubsWrite ==
  ASSUME TypeOK, NEW s \in Sub
  PROVE  /\ [subs EXCEPT ![s].ended = TRUE] \in [Sub -> Subscription]
         /\ [subs EXCEPT ![s].at = "gone"] \in [Sub -> Subscription]
         /\ \A P \in SUBSET Permission :
              /\ [subs EXCEPT ![s].perms = P] \in [Sub -> Subscription]
              /\ [subs EXCEPT ![s].at = "active", ![s].perms = P]
                   \in [Sub -> Subscription]
  BY DEF TypeOK, Subscription

(* The feed of a subscription asks for permissions. *)
LEMMA RequestedType ==
  ASSUME TypeOK, NEW f \in Feed
  PROVE  Requested(f) \subseteq Permission
<1>1. home[f] \in Folder
  BY DEF TypeOK
<1>2. QED
  BY <1>1 DEF Requested, Permission, Kind

(* A feed answers with a nonempty sequence of actions. *)
LEMMA AnswerType ==
  ASSUME TypeOK, NEW f \in Feed
  PROVE  /\ Answer(f) \in Seq(Action) /\ Answer(f) # <<>>
         /\ <<Last(Answer(f))>> \in Seq(Action) /\ <<Last(Answer(f))>> # <<>>
<1> DEFINE act(kind) == [kind |-> kind, folder |-> home[f], recursive |-> f \in Recursive,
                         ids |-> IF kind = "DeleteFolder" THEN {} ELSE content[f]]
<1>1. home[f] \in Folder /\ content[f] \in SUBSET Id
  BY DEF TypeOK
<1>2. \A k \in Kind : act(k) \in Action
  BY <1>1 DEF Action, Kind
<1>3. /\ act("DeleteFolder") \in Action /\ act("ReplaceInFolder") \in Action
      /\ act("AppendToFolder") \in Action
  BY <1>2 DEF Kind
<1> HIDE DEF act
<1>4. Answer(f) = IF f \in Appending THEN <<act("AppendToFolder")>>
                  ELSE <<act("DeleteFolder"), act("ReplaceInFolder")>>
  BY DEF Answer, act
<1>5. CASE f \in Appending
  BY <1>3, <1>4, <1>5 DEF Last
<1>6. CASE f \notin Appending
  BY <1>3, <1>4, <1>6 DEF Last
<1>7. QED
  BY <1>5, <1>6

(* Going on to the next action keeps the polls polls. *)
LEMMA ProceedType ==
  ASSUME TypeOK, NEW p \in Poller, poll[p].at \in {"applying", "decoding"}, Proceed(p)
  PROVE  poll' \in [Poller -> Poll]
<1>1. poll[p].todo \in Seq(Action) /\ poll[p].todo # <<>>
  BY PollFields DEF TypeOK
<1>2. CASE Len(poll[p].todo) = 1
  BY <1>2, FreshPoll DEF Proceed, TypeOK
<1>3. CASE Len(poll[p].todo) # 1
  <2>1. /\ Tail(poll[p].todo) \in Seq(Action)
        /\ Len(Tail(poll[p].todo)) = Len(poll[p].todo) - 1
    BY <1>1
  <2>2. Len(poll[p].todo) \in Nat /\ Len(poll[p].todo) # 0
    BY <1>1
  <2>3. Tail(poll[p].todo) # <<>>
    <3>1. Len(Tail(poll[p].todo)) # 0
      BY <1>3, <2>1, <2>2
    <3>2. Len(<<>>) = 0
      OBVIOUS
    <3>3. QED
      BY <3>1, <3>2, Zenon
  <2>4. [at |-> "applying", todo |-> Tail(poll[p].todo), grant |-> {}] \in Poll
    BY <2>1, <2>3 DEF Poll
  <2>5. QED
    BY <1>3, <2>4 DEF Proceed, TypeOK
<1>4. QED
  BY <1>2, <1>3

(* So does the arrival of an answer. *)
LEMMA ReceiveType ==
  ASSUME TypeOK, NEW p \in Poller, NEW actions \in Seq(Action), Receive(p, actions)
  PROVE  poll' \in [Poller -> Poll] /\ errors' \subseteq Sub
<1>1. p[1] \in Sub
  BY DEF Poller
<1>2. actions # <<>> => [at |-> "applying", todo |-> actions, grant |-> {}] \in Poll
  BY DEF Poll
<1>3. poll' \in [Poller -> Poll]
  BY <1>2, FreshPoll DEF Receive, TypeOK
<1>4. QED
  BY <1>1, <1>3 DEF Receive, TypeOK

(* The first action of a poll is an action. *)
LEMMA HeadType ==
  ASSUME TypeOK, NEW p \in Poller, poll[p].at \in {"applying", "decoding"}
  PROVE  Head(poll[p].todo) \in Action
  BY PollFields DEF TypeOK

-----------------------------------------------------------------------------
(* Type correctness. *)

(* Everything has its type at the start. *)
LEMMA InitType == Init => TypeOK
<1> SUFFICES ASSUME Init PROVE TypeOK
  OBVIOUS
<1> USE FeedAssumption DEF FeedAssumption
<1>1. home \in [Feed -> Folder]
  BY DEF Init
<1>2. \A f \in Feed : Requested(f) \subseteq Permission
  BY <1>1 DEF Requested, Permission, Kind
<1>3. subs \in [Sub -> Subscription]
  BY <1>2 DEF Init, Subscription
<1>4. poll \in [Poller -> Poll]
  BY FreshPoll DEF Init
<1>5. QED
  BY <1>1, <1>3, <1>4 DEF Init, TypeOK

(* Every step keeps the types: one step of the proof per action. *)
LEMMA StepType == ASSUME TypeOK, [Next]_vars PROVE TypeOK'
<1> USE FeedAssumption DEF FeedAssumption, TypeOK, provider, budget
<1>1. ASSUME StartRound PROVE TypeOK'
  <2>1. poll' \in [Poller -> Poll]
    BY <1>1, FreshPoll DEF StartRound
  <2>2. QED
    BY <1>1, <2>1 DEF StartRound
<1>2. ASSUME NEW p \in Poller, ServePoll(p) PROVE TypeOK'
  <2>1. Answer(FeedOf[p[1]]) \in Seq(Action)
    BY AnswerType DEF Poller
  <2>2. poll' \in [Poller -> Poll] /\ errors' \subseteq Sub
    BY <1>2, <2>1, ReceiveType DEF ServePoll
  <2>3. QED
    BY <1>2, <2>2 DEF ServePoll, Receive
<1>3. ASSUME NEW p \in Poller, SkipAction(p) PROVE TypeOK'
  BY <1>3, ProceedType DEF SkipAction
<1>4. ASSUME NEW p \in Poller, DeleteFolder(p) PROVE TypeOK'
  BY <1>4, ProceedType DEF DeleteFolder
<1>5. ASSUME NEW p \in Poller, StartDecoding(p) PROVE TypeOK'
  <2>1. PICK m \in Matching(Head(poll[p].todo), subs[p[1]].perms) :
           poll' = [poll EXCEPT ![p].at = "decoding", ![p].grant = {m.folder}]
    BY <1>5 DEF StartDecoding
  <2>2. p[1] \in Sub
    BY DEF Poller
  <2>3. m \in Permission
    BY <2>2 DEF Matching, Subscription
  <2>4. [poll[p] EXCEPT !.at = "decoding", !.grant = {m.folder}] \in Poll
    BY <1>5, <2>3, PollFields DEF StartDecoding, Poll, Permission
  <2>5. poll' \in [Poller -> Poll]
    BY <2>1, <2>4
  <2>6. QED
    BY <1>5, <2>5 DEF StartDecoding
<1>6. ASSUME NEW p \in Poller, AddDecoded(p) PROVE TypeOK'
  <2>1. poll' \in [Poller -> Poll]
    BY <1>6, ProceedType DEF AddDecoded
  <2>2. Head(poll[p].todo).folder \in Folder
    BY <1>6, HeadType DEF AddDecoded, Action
  <2>3. coll' \in [Id -> Folder \cup {Nowhere}]
    BY <1>6, <2>2 DEF AddDecoded
  <2>4. QED
    BY <1>6, <2>1, <2>3 DEF AddDecoded
<1>7. ASSUME NEW p \in Poller, ServePartly(p) PROVE TypeOK'
  <2>1. PICK actions \in {<<>>, <<Head(Answer(FeedOf[p[1]]))>>,
                           <<Last(Answer(FeedOf[p[1]]))>>} : Receive(p, actions)
    BY <1>7 DEF ServePartly
  <2>2. actions \in Seq(Action)
    <3>1. FeedOf[p[1]] \in Feed
      BY DEF Poller
    <3>2. CASE actions = <<>>
      BY <3>2
    <3>3. CASE actions = <<Last(Answer(FeedOf[p[1]]))>>
      BY <3>1, <3>3, AnswerType
    <3>4. CASE actions = <<Head(Answer(FeedOf[p[1]]))>>
      BY <3>1, <3>4, AnswerType
    <3>5. QED
      BY <2>1, <3>2, <3>3, <3>4
  <2>3. poll' \in [Poller -> Poll] /\ errors' \subseteq Sub
    BY <2>1, <2>2, ReceiveType
  <2>4. faults' \in 0..MaxFaults
    BY <1>7 DEF ServePartly
  <2>5. QED
    BY <2>1, <2>3, <2>4 DEF Receive
<1>8. ASSUME NEW p \in Poller, PollFails(p) PROVE TypeOK'
  BY <1>8, FreshPoll DEF PollFails, Poller
<1>9. ASSUME NEW p \in Poller, PollEnds(p) PROVE TypeOK'
  <2>1. poll' \in [Poller -> Poll] /\ p[1] \in Sub
    BY <1>9, FreshPoll DEF PollEnds, Poller
  <2>2. CASE Active(p[1])
    <3>1. subs' = [subs EXCEPT ![p[1]].ended = TRUE]
      BY <1>9, <2>2 DEF PollEnds
    <3>2. subs' \in [Sub -> Subscription]
      BY <2>1, <3>1, SubsWrite
    <3>3. QED
      BY <1>9, <2>1, <2>2, <3>2 DEF PollEnds
  <2>3. CASE ~Active(p[1])
    BY <1>9, <2>1, <2>3 DEF PollEnds
  <2>4. QED
    BY <2>2, <2>3
<1>10. ASSUME NEW p \in Poller, DecodingFails(p) PROVE TypeOK'
  BY <1>10, ProceedType DEF DecodingFails
<1>11. ASSUME NEW s \in Sub, Subscribe(s) PROVE TypeOK'
  <2>1. Requested(FeedOf[s]) \in SUBSET Permission
    BY RequestedType
  <2>2. poll' \in [Poller -> Poll]
    BY <1>11, FreshPoll DEF Subscribe
  <2>3. subs' \in [Sub -> Subscription]
    BY <1>11, <2>1, SubsWrite DEF Subscribe
  <2>4. QED
    BY <1>11, <2>2, <2>3 DEF Subscribe
<1>12. ASSUME NEW s \in Sub, Unsubscribe(s) PROVE TypeOK'
  <2>1. subs' \in [Sub -> Subscription]
    BY <1>12, SubsWrite DEF Unsubscribe
  <2>2. QED
    BY <1>12, <2>1 DEF Unsubscribe
<1>13. ASSUME NEW s \in Sub, DeleteContents(s) PROVE TypeOK'
  BY <1>13 DEF DeleteContents
<1>14. ASSUME NEW s \in Sub, GrantPermissions(s) PROVE TypeOK'
  <2>1. Requested(FeedOf[s]) \in SUBSET Permission
    BY RequestedType
  <2>2. subs' \in [Sub -> Subscription]
    BY <1>14, <2>1, SubsWrite DEF GrantPermissions
  <2>3. QED
    BY <1>14, <2>2 DEF GrantPermissions
<1>15. ASSUME NEW s \in Sub, Retry(s) PROVE TypeOK'
  <2>1. poll' \in [Poller -> Poll]
    BY <1>15, FreshPoll DEF Retry
  <2>2. QED
    BY <1>15, <2>1 DEF Retry
<1>16. ASSUME NEW id \in Addable, NEW folder \in Folder, AddPCD(id, folder) PROVE TypeOK'
  BY <1>16 DEF AddPCD
<1>17. ASSUME NEW ids, RemovePCDs(ids) PROVE TypeOK'
  BY <1>17 DEF RemovePCDs
<1>18. ASSUME NEW f \in Feed, NEW ids \in SUBSET Issuable[f], ChangeContent(f, ids)
       PROVE  TypeOK'
  BY <1>18 DEF ChangeContent
<1>19. ASSUME NEW f \in Feed, NEW folder \in Range(Places[f]), MoveFeed(f, folder)
       PROVE  TypeOK'
  <2>1. folder \in Folder
    BY DEF Range
  <2>2. QED
    BY <1>19, <2>1 DEF MoveFeed
<1>20. CASE UNCHANGED vars
  BY <1>20 DEF vars
<1>21. QED
  BY <1>1, <1>2, <1>3, <1>4, <1>5, <1>6, <1>7, <1>8, <1>9, <1>10, <1>11, <1>12, <1>13,
     <1>14, <1>15, <1>16, <1>17, <1>18, <1>19, <1>20 DEF Next, PollStep, Fault, Edit

(* Whatever the feeds, folders and bounds, each part of the state keeps its    *)
(* type; in particular a poll that applies actions always has one left.        *)
THEOREM TypeCorrect == Spec => []TypeOK
<1>1. TypeOK /\ [Next]_vars => TypeOK'
  BY StepType
<1>2. QED
  BY InitType, <1>1, PTL DEF Spec

-----------------------------------------------------------------------------
(***************************************************************************)
(* Confinement.                                                            *)
(***************************************************************************)

(* The action that a poll decodes PCDs for lies in the folder of the       *)
(* permission that was found for it.                                       *)
DecodingIsGranted ==
  \A p \in Poller : poll[p].at = "decoding" =>
    \E f \in poll[p].grant : Covers(f, Head(poll[p].todo).folder)

(* A poll that goes on to its next action decodes nothing yet. *)
LEMMA ProceedGranted ==
  ASSUME TypeOK, DecodingIsGranted, NEW p \in Poller, Proceed(p)
  PROVE  DecodingIsGranted'
<1>1. \A q \in Poller : poll'[q].at = "decoding" => q # p /\ poll'[q] = poll[q]
  BY DEF Proceed, TypeOK, NoPoll
<1>2. QED
  BY <1>1 DEF DecodingIsGranted

(* Neither does a poll that was just asked, ended or answered. *)
LEMMA OthersGranted ==
  ASSUME DecodingIsGranted,
         \A q \in Poller : poll'[q].at = "decoding" => poll'[q] = poll[q]
  PROVE  DecodingIsGranted'
  BY DEF DecodingIsGranted

(* Only StartDecoding enters that phase, under a permission that matches. *)
LEMMA StepGranted ==
  ASSUME TypeOK, DecodingIsGranted, [Next]_vars
  PROVE  DecodingIsGranted'
<1>1. CASE StartRound
  BY <1>1, OthersGranted DEF StartRound, TypeOK, Asked, NoPoll
<1>2. ASSUME NEW p \in Poller, NEW actions, Receive(p, actions)
      PROVE  DecodingIsGranted'
  BY <1>2, OthersGranted DEF Receive, TypeOK, NoPoll
<1>3. ASSUME NEW p \in Poller,
             SkipAction(p) \/ DeleteFolder(p) \/ AddDecoded(p) \/ DecodingFails(p)
      PROVE  DecodingIsGranted'
  BY <1>3, ProceedGranted DEF SkipAction, DeleteFolder, AddDecoded, DecodingFails
<1>4. ASSUME NEW p \in Poller, StartDecoding(p) PROVE DecodingIsGranted'
  <2>1. PICK m \in Matching(Head(poll[p].todo), subs[p[1]].perms) :
           poll' = [poll EXCEPT ![p].at = "decoding", ![p].grant = {m.folder}]
    BY <1>4 DEF StartDecoding
  <2>2. Covers(m.folder, Head(poll[p].todo).folder)
    BY DEF Matching
  <2>3. poll'[p].grant = {m.folder} /\ poll'[p].todo = poll[p].todo
    BY <2>1 DEF TypeOK, Poll
  <2>4. \A q \in Poller \ {p} : poll'[q] = poll[q]
    BY <2>1 DEF TypeOK
  <2>5. QED
    BY <2>2, <2>3, <2>4 DEF DecodingIsGranted
<1>5. ASSUME NEW p \in Poller, PollFails(p) \/ PollEnds(p) PROVE DecodingIsGranted'
  BY <1>5, OthersGranted DEF PollFails, PollEnds, TypeOK, NoPoll
<1>6. ASSUME NEW s \in Sub, Subscribe(s) \/ Retry(s) PROVE DecodingIsGranted'
  BY <1>6, OthersGranted DEF Subscribe, Retry, TypeOK, Asked, NoPoll
<1>7. CASE UNCHANGED poll
  BY <1>7, OthersGranted
<1>8. QED
  BY <1>1, <1>2, <1>3, <1>4, <1>5, <1>6, <1>7
  DEF Next, PollStep, Fault, Edit, vars, ServePoll, ServePartly, Unsubscribe,
      DeleteContents, GrantPermissions, AddPCD, RemovePCDs, ChangeContent, MoveFeed

(* What a step of a poll may do to the folder of an id. *)
Confined(p, id) ==
  \E f \in Granted(p) : \/ coll[id] = Nowhere /\ Covers(f, coll'[id])
                        \/ coll'[id] = Nowhere /\ Covers(f, coll[id])

(* deleteFolder removes what is in the folder of a permission, or below. *)
LEMMA DeleteConfined ==
  ASSUME TypeOK, NEW p \in Poller, DeleteFolder(p), NEW id \in Id, coll'[id] # coll[id]
  PROVE  Confined(p, id)
<1> DEFINE a == Head(poll[p].todo)
<1>1. a \in Action /\ a.folder \in Folder
  BY HeadType DEF DeleteFolder, Action
<1>2. PICK m \in subs[p[1]].perms : Covers(m.folder, a.folder)
  BY DEF DeleteFolder, Matching
<1>3. m.folder \in Folder /\ m.folder \in Granted(p)
  BY <1>2 DEF Granted, TypeOK, Subscription, Permission, Poller
<1>4. coll[id] \in Folder /\ coll'[id] = Nowhere /\ Covers(a.folder, coll[id])
  BY DEF DeleteFolder, TypeOK, Covers
<1>5. Covers(m.folder, coll[id])
  BY <1>1, <1>2, <1>3, <1>4, CoversTransitive, FeedAssumption DEF FeedAssumption
<1>6. QED
  BY <1>3, <1>4, <1>5 DEF Confined

(* A replace or an append adds ids that are nowhere to a granted folder. *)
LEMMA AddConfined ==
  ASSUME TypeOK, DecodingIsGranted, NEW p \in Poller, AddDecoded(p),
         NEW id \in Id, coll'[id] # coll[id]
  PROVE  Confined(p, id)
<1> DEFINE a == Head(poll[p].todo)
<1>1. PICK f \in poll[p].grant : Covers(f, a.folder)
  BY DEF AddDecoded, DecodingIsGranted
<1>2. f \in Granted(p)
  BY DEF Granted
<1>3. ~Conflicts(a) /\ id \in a.ids /\ coll'[id] = a.folder
  BY DEF AddDecoded, TypeOK
<1>4. coll[id] = Nowhere
  BY <1>3 DEF Conflicts
<1>5. QED
  BY <1>1, <1>2, <1>3, <1>4 DEF Confined

(* FeedsStayInFolders: in every behaviour, whatever feeds, permissions and     *)
(* folders there are, a poll adds only ids that are nowhere, and removes or    *)
(* adds only in the folders granted to its feed.                               *)
THEOREM FeedsAreConfined == Spec => FeedsStayInFolders
<1> DEFINE Inv == TypeOK /\ DecodingIsGranted
<1>1. Init => Inv
  BY InitType DEF Init, DecodingIsGranted, NoPoll
<1>2. Inv /\ [Next]_vars => Inv'
  BY StepType, StepGranted
<1>3. ASSUME Inv, [Next]_vars, NEW p \in Poller, NEW id \in Id,
             poll'[p] # poll[p], coll'[id] # coll[id]
      PROVE  Confined(p, id)
  <2>1. PICK q \in Poller : DeleteFolder(q) \/ AddDecoded(q)
    BY <1>3 DEF Next, PollStep, Fault, Edit, vars, StartRound, ServePoll, ServePartly,
       Receive, SkipAction, StartDecoding, PollFails, PollEnds, DecodingFails, Subscribe,
       Unsubscribe, DeleteContents, GrantPermissions, Retry, AddPCD, RemovePCDs,
       ChangeContent, MoveFeed
  <2>2. p = q
    BY <1>3, <2>1 DEF DeleteFolder, AddDecoded, Proceed, TypeOK
  <2>3. QED
    BY <1>3, <2>1, <2>2, DeleteConfined, AddConfined
<1>4. Inv /\ [Next]_vars =>
        [\A p \in Poller, id \in Id :
           poll'[p] # poll[p] /\ coll'[id] # coll[id] =>
             \E f \in Granted(p) :
                \/ coll[id] = Nowhere /\ Covers(f, coll'[id])
                \/ coll'[id] = Nowhere /\ Covers(f, coll[id])]_vars
  BY <1>3 DEF Confined
<1> HIDE DEF Inv
<1>5. QED
  BY <1>1, <1>2, <1>4, PTL DEF Spec, FeedsStayInFolders
=============================================================================
