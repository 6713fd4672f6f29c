---------------------------- MODULE FeedFolders ----------------------------
(***************************************************************************)
(* Feeds and folders: subscriptions (FeedSubscriptionManager), the polls   *)
(* that fetch a feed's actions and apply them to the collection            *)
(* (applyActions, PCDCollection.tryExec), the permissions that confine     *)
(* them to folders, and the user, who edits the collection, subscribes,    *)
(* unsubscribes and grants permissions between the awaits of the polls.    *)
(*                                                                         *)
(* The collection is the folder of each PCD id.  Two polls of one feed may *)
(* be in flight: the round that sync() makes over all subscriptions, and a *)
(* single one that "sync-subscription" makes.  The provider's side is what *)
(* the pipelines of the passport server answer.                            *)
(***************************************************************************)
EXTENDS Naturals, Sequences, FiniteSets, SequencesExt

CONSTANTS Sub,        \* subscriptions, each with an id of its own
          Feed,       \* feeds
          FeedOf,     \* the feed of each subscription
          Subscribed, \* the subscriptions the account starts with
          Id,         \* ids of PCDs
          Folder,     \* folders, as sequences of names; the root is <<>>
          Nowhere,    \* the folder of an id that is not in the collection
          BeginsWith, \* pairs of names, the second a prefix of the first
          Places,     \* the folders each feed issues into, at first the first
          Issuable,   \* the ids each feed may issue
          Addable,    \* the ids of PCDs that the user can add without a feed
          Appending,  \* feeds that append what they issue, and never delete
          Recursive,  \* feeds that delete subfolders too
          MaxEdits,   \* bound: what the user does
          MaxChanges, \* bound: changes at the providers
          MaxFaults   \* bound: requests, answers and PCDs that fail

ASSUME FeedAssumption ==
    /\ FeedOf \in [Sub -> Feed] /\ Subscribed \subseteq Sub
    /\ Folder \subseteq Seq(STRING) /\ Nowhere \notin Folder
    /\ Places \in [Feed -> Seq(Folder) \ {<<>>}]
    /\ Issuable \in [Feed -> SUBSET Id] /\ Addable \subseteq Id
    /\ Appending \subseteq Feed /\ Recursive \subseteq Feed
    /\ MaxEdits \in Nat /\ MaxChanges \in Nat /\ MaxFaults \in Nat

VARIABLES
    home,     \* providers: the folder each feed issues into
    content,  \* providers: the ids each feed issues to this user
    coll,     \* PCDCollection: the folder of each id, or Nowhere
    subs,     \* activeSubscriptions, with those not yet made and those removed
    errors,   \* subscriptions with an error recorded in the manager
    poll,     \* where each poll stands
    leaving,  \* removed subscriptions whose folders are still to be emptied
    edits, changes, faults   \* counters of the bounds

provider == <<home, content>>
budget == <<edits, changes, faults>>
vars == <<provider, coll, subs, errors, poll, leaving, budget>>

Kind == {"DeleteFolder", "ReplaceInFolder", "AppendToFolder"}
Permission == [kind : Kind, folder : Folder]
Subscription == [at : {"new", "active", "gone"}, perms : SUBSET Permission,
                 ended : BOOLEAN]
Action == [kind : Kind, folder : Folder, ids : SUBSET Id, recursive : BOOLEAN]
Poller == Sub \X {"sync", "single"}

\* A poll that applies actions has some left to apply.
Poll == {p \in [at : {"none", "asked", "applying", "decoding"},
                todo : Seq(Action), grant : SUBSET Folder] :
           p.at \in {"applying", "decoding"} => p.todo # <<>>}

IsFolderAncestor(descendant, ancestor) == IsStrictPrefix(ancestor, descendant)

\* The folder, or one below it.
Covers(folder, f) == f = folder \/ IsFolderAncestor(f, folder)

\* The permissions a feed asks for.
Requested(f) == {[kind |-> k, folder |-> home[f]] :
                  k \in IF f \in Appending THEN {"AppendToFolder"} ELSE Kind}

\* matchActionToPermission: the permissions that allow an action.
Matching(action, permissions) ==
    {p \in permissions : p.kind = action.kind /\ Covers(p.folder, action.folder)}

\* folder.startsWith(prefix), on the paths.
StartsWith(folder, prefix) ==
    \/ Covers(prefix, folder)
    \/ /\ prefix # <<>> /\ Len(prefix) <= Len(folder)
       /\ IsPrefix(Front(prefix), folder)
       /\ <<folder[Len(prefix)], Last(prefix)>> \in BeginsWith

NoPoll == [at |-> "none", todo |-> <<>>, grant |-> {}]

Active(s) == subs[s].at = "active"

Init ==
    /\ home = [f \in Feed |-> Places[f][1]]
    /\ content = Issuable
    /\ coll = [id \in Id |-> Nowhere]
    /\ subs = [s \in Sub |->
                 [at |-> IF s \in Subscribed THEN "active" ELSE "new", ended |-> FALSE,
                  perms |-> IF s \in Subscribed THEN Requested(FeedOf[s]) ELSE {}]]
    /\ errors = {}
    /\ poll = [p \in Poller |-> NoPoll]
    /\ leaving = {}
    /\ edits = 0 /\ changes = 0 /\ faults = 0

-----------------------------------------------------------------------------
(* The provider.                                                           *)

\* Issued, revoked: what the feed issues to this user changes.
ChangeContent(f, ids) ==
    /\ changes < MaxChanges /\ changes' = changes + 1
    /\ ids # content[f] /\ content' = [content EXCEPT ![f] = ids]
    /\ UNCHANGED <<home, coll, subs, errors, poll, leaving, edits, faults>>

\* The feed is given another folder.
MoveFeed(f, folder) ==
    /\ changes < MaxChanges /\ changes' = changes + 1
    /\ folder # home[f] /\ home' = [home EXCEPT ![f] = folder]
    /\ UNCHANGED <<content, coll, subs, errors, poll, leaving, edits, faults>>

-----------------------------------------------------------------------------
(* Polls: pollSubscriptions, pollSingleSubscription.                       *)

Asked == [NoPoll EXCEPT !.at = "asked"]

\* sync() polls every subscription that has not ended.  doSync waits for all.
StartRound ==
    LET polled == {s \in Sub : Active(s) /\ ~subs[s].ended}
    IN /\ \A s \in Sub : poll[<<s, "sync">>].at = "none"
       /\ polled # {}
       /\ poll' = [p \in Poller |-> IF p[2] = "sync" /\ p[1] \in polled
                                    THEN Asked ELSE poll[p]]
       /\ errors' = errors \ polled
       /\ UNCHANGED <<provider, coll, subs, leaving, budget>>

\* "sync-subscription": the user retries a subscription that has an error.
Retry(s) ==
    /\ edits < MaxEdits /\ edits' = edits + 1
    /\ s \in errors /\ Active(s) /\ poll[<<s, "single">>].at = "none"
    /\ poll' = [poll EXCEPT ![<<s, "single">>] = Asked]
    /\ errors' = errors \ {s}
    /\ UNCHANGED <<provider, coll, subs, leaving, changes, faults>>

\* Variant: the folder is emptied last.
ReplaceFirst(f) ==
    LET act(kind) == [kind |-> kind, folder |-> home[f], recursive |-> f \in Recursive,
                      ids |-> IF kind = "DeleteFolder" THEN {} ELSE content[f]]
    IN IF f \in Appending THEN <<act("AppendToFolder")>>
                          ELSE <<act("ReplaceInFolder"), act("DeleteFolder")>>

Answer(f) ==
    LET act(kind) == [kind |-> kind, folder |-> home[f], recursive |-> f \in Recursive,
                      ids |-> IF kind = "DeleteFolder" THEN {} ELSE content[f]]
    IN IF f \in Appending THEN <<act("AppendToFolder")>>
                          ELSE <<act("DeleteFolder"), act("ReplaceInFolder")>>

\* The answer arrives.  Actions without a permission are recorded as an error.
Receive(p, actions) ==
    LET s == p[1]
        refused == {i \in DOMAIN actions : Matching(actions[i], subs[s].perms) = {}}
    IN /\ poll[p].at = "asked"
       /\ poll' = [poll EXCEPT ![p] = IF actions = <<>> THEN NoPoll
                     ELSE [at |-> "applying", todo |-> actions, grant |-> {}]]
       /\ errors' = IF refused = {} THEN errors ELSE errors \cup {s}
       /\ UNCHANGED <<provider, coll, subs, leaving, edits, changes>>

ServePoll(p) == Receive(p, Answer(FeedOf[p[1]])) /\ UNCHANGED faults

\* The pipeline is not loaded yet, and the folder is not emptied first; or the
\* feed host meets an error, and answers with the actions it had until then:
\* none, or only the one that empties the folder.
ServePartly(p) ==
    LET whole == Answer(FeedOf[p[1]])
    IN /\ faults < MaxFaults /\ faults' = faults + 1
       /\ \E actions \in {<<>>, <<Head(whole)>>, <<Last(whole)>>} : Receive(p, actions)

PollFails(p) ==
    /\ faults < MaxFaults /\ faults' = faults + 1
    /\ poll[p].at = "asked"
    /\ poll' = [poll EXCEPT ![p] = NoPoll]
    /\ errors' = errors \cup {p[1]}
    /\ UNCHANGED <<provider, coll, subs, leaving, edits, changes>>

\* 410: the feed has ended.  A removed subscription cannot be flagged.
PollEnds(p) ==
    LET s == p[1]
    IN /\ faults < MaxFaults /\ faults' = faults + 1
       /\ poll[p].at = "asked"
       /\ poll' = [poll EXCEPT ![p] = NoPoll]
       /\ IF Active(s) THEN /\ subs' = [subs EXCEPT ![s].ended = TRUE]
                            /\ UNCHANGED errors
                       ELSE /\ errors' = errors \cup {s}
                            /\ UNCHANGED subs
       /\ UNCHANGED <<provider, coll, leaving, edits, changes>>

-----------------------------------------------------------------------------
(* applyActions: one action after the other, each tried by tryExec.        *)

\* Variant: the last action does not end the poll.
NeverDone(p) ==
    poll' = [poll EXCEPT ![p] = [at |-> "applying", todo |-> Tail(@.todo), grant |-> {}]]

\* The poll is done with the first of its actions.
Proceed(p) ==
    poll' = [poll EXCEPT ![p] = IF Len(@.todo) = 1 THEN NoPoll
               ELSE [at |-> "applying", todo |-> Tail(@.todo), grant |-> {}]]

\* No permission allows the action now.
SkipAction(p) ==
    /\ poll[p].at = "applying"
    /\ Matching(Head(poll[p].todo), subs[p[1]].perms) = {}
    /\ Proceed(p)
    /\ UNCHANGED <<provider, coll, subs, errors, leaving, budget>>

\* deleteFolder, and the folders below it if the action says so.
DeleteFolder(p) ==
    LET a == Head(poll[p].todo)
        gone(f) == f = a.folder \/ (a.recursive /\ Covers(a.folder, f))
    IN /\ poll[p].at = "applying" /\ a.kind = "DeleteFolder"
       /\ Matching(a, subs[p[1]].perms) # {}
       /\ coll' = [id \in Id |-> IF coll[id] # Nowhere /\ gone(coll[id])
                                 THEN Nowhere ELSE coll[id]]
       /\ Proceed(p)
       /\ UNCHANGED <<provider, subs, errors, leaving, budget>>

\* Variant: the permission is not looked up again, after validateActions.
DecodeAnyway(p) ==
    /\ poll[p].at = "applying" /\ Head(poll[p].todo).kind # "DeleteFolder"
    /\ poll' = [poll EXCEPT ![p].at = "decoding"]
    /\ UNCHANGED <<provider, coll, subs, errors, leaving, budget>>

\* Under the permission found, the PCDs are deserialized, which is awaited.
StartDecoding(p) ==
    LET a == Head(poll[p].todo)
    IN /\ poll[p].at = "applying" /\ a.kind # "DeleteFolder"
       /\ \E m \in Matching(a, subs[p[1]].perms) :
             poll' = [poll EXCEPT ![p].at = "decoding", ![p].grant = {m.folder}]
       /\ UNCHANGED <<provider, coll, subs, errors, leaving, budget>>

\* The first PCD that cannot be deserialized gives up the action.
DecodingFails(p) ==
    /\ faults < MaxFaults /\ faults' = faults + 1
    /\ poll[p].at = "decoding"
    /\ Proceed(p)
    /\ UNCHANGED <<provider, coll, subs, errors, leaving, edits, changes>>

\* Variant: ids in other folders are not looked for.
NoConflict(a) == a.kind = "AppendToFolder" /\ \E id \in a.ids : coll[id] # Nowhere

\* An id that the action may not touch: for an append, any that exists; for a
\* replace, one that is in another folder.
Conflicts(a) ==
    \E id \in a.ids : coll[id] # Nowhere /\ (a.kind = "ReplaceInFolder" =>
                                               coll[id] # a.folder)

\* All the PCDs of the action, or none: tryExec swallows the exception.
AddDecoded(p) ==
    LET a == Head(poll[p].todo)
    IN /\ poll[p].at = "decoding"
       /\ coll' = IF Conflicts(a) THEN coll
                  ELSE [id \in Id |-> IF id \in a.ids THEN a.folder ELSE coll[id]]
       /\ Proceed(p)
       /\ UNCHANGED <<provider, subs, errors, leaving, budget>>

-----------------------------------------------------------------------------
(* The user.                                                               *)

\* addSubscription: the feed is polled at once.  Subscribing again to the same
\* feed replaces its permissions, and leaves it ended if it had ended.
Subscribe(s) ==
    /\ edits < MaxEdits /\ edits' = edits + 1
    /\ subs[s].at # "gone" /\ poll[<<s, "single">>].at = "none"
    /\ \A r \in Sub \ {s} : Active(r) => FeedOf[r] # FeedOf[s]
    /\ subs' = [subs EXCEPT ![s].at = "active", ![s].perms = Requested(FeedOf[s])]
    /\ poll' = [poll EXCEPT ![<<s, "single">>] = Asked]
    /\ errors' = errors \ {s}
    /\ UNCHANGED <<provider, coll, leaving, changes, faults>>

\* removeSubscription: the subscription is removed, and that is saved.  Polls
\* in flight keep the object.
Unsubscribe(s) ==
    /\ edits < MaxEdits /\ edits' = edits + 1
    /\ Active(s)
    /\ subs' = [subs EXCEPT ![s].at = "gone"]
    /\ errors' = errors \ {s}
    /\ leaving' \in {leaving, leaving \cup {s}}
    /\ UNCHANGED <<provider, coll, poll, changes, faults>>

\* Then its contents are deleted, if the user asked for that.
DeleteContents(s) ==
    LET prefixes == {m.folder : m \in subs[s].perms}
    IN /\ s \in leaving /\ leaving' = leaving \ {s}
       /\ coll' = [id \in Id |->
                     IF /\ coll[id] \notin {Nowhere, <<>>}
                        /\ \E f \in prefixes : StartsWith(coll[id], f)
                     THEN Nowhere ELSE coll[id]]
       /\ UNCHANGED <<provider, subs, errors, poll, budget>>

\* updateSubscriptionPermissions: the user grants what the feed asks for now.
GrantPermissions(s) ==
    /\ edits < MaxEdits /\ edits' = edits + 1
    /\ Active(s) /\ s \in errors
    /\ subs' = [subs EXCEPT ![s].perms = Requested(FeedOf[s])]
    /\ errors' = errors \ {s}
    /\ UNCHANGED <<provider, coll, poll, leaving, changes, faults>>

\* addPCDs with upsert.  An id that exists moves, unless no folder is given.
AddPCD(id, folder) ==
    /\ edits < MaxEdits /\ edits' = edits + 1
    /\ coll[id] # folder /\ (folder = <<>> => coll[id] = Nowhere)
    /\ coll' = [coll EXCEPT ![id] = folder]
    /\ UNCHANGED <<provider, subs, errors, poll, leaving, changes, faults>>

\* removePCD of one, removeAllPCDsInFolder of all in a folder.
RemovePCDs(ids) ==
    /\ edits < MaxEdits /\ edits' = edits + 1
    /\ coll' = [id \in Id |-> IF id \in ids THEN Nowhere ELSE coll[id]]
    /\ UNCHANGED <<provider, subs, errors, poll, leaving, changes, faults>>

Edit == \/ \E id \in Addable, folder \in Folder : AddPCD(id, folder)
        \/ \E id \in Id : coll[id] # Nowhere /\ RemovePCDs({id})
        \/ \E folder \in Folder : LET ids == {id \in Id : coll[id] = folder}
                                  IN ids # {} /\ RemovePCDs(ids)

-----------------------------------------------------------------------------
PollStep(p) == \/ ServePoll(p) \/ SkipAction(p) \/ DeleteFolder(p)
               \/ StartDecoding(p) \/ AddDecoded(p)

Fault(p) == ServePartly(p) \/ PollFails(p) \/ PollEnds(p) \/ DecodingFails(p)

Next == \/ StartRound
        \/ \E p \in Poller : PollStep(p) \/ Fault(p)
        \/ \E s \in Sub : \/ Subscribe(s) \/ Unsubscribe(s) \/ DeleteContents(s)
                          \/ GrantPermissions(s) \/ Retry(s)
        \/ Edit
        \/ \E f \in Feed : \/ \E ids \in SUBSET Issuable[f] : ChangeContent(f, ids)
                           \/ \E folder \in Range(Places[f]) : MoveFeed(f, folder)

Spec == Init /\ [][Next]_vars

\* The background poll comes round, requests are answered, promises resolve.
Fairness == /\ WF_vars(StartRound)
            /\ \A p \in Poller : WF_vars(PollStep(p))
            /\ \A s \in Sub : WF_vars(DeleteContents(s))

FairSpec == Spec /\ Fairness

-----------------------------------------------------------------------------
TypeOK ==
    /\ home \in [Feed -> Folder] /\ content \in [Feed -> SUBSET Id]
    /\ coll \in [Id -> Folder \cup {Nowhere}]
    /\ subs \in [Sub -> Subscription]
    /\ errors \subseteq Sub /\ leaving \subseteq Sub
    /\ poll \in [Poller -> Poll]
    /\ edits \in 0..MaxEdits /\ changes \in 0..MaxChanges /\ faults \in 0..MaxFaults

\* The folders a poll may touch: those the user has granted to its feed, now or
\* when the action it is executing was matched.
Granted(p) == {m.folder : m \in subs[p[1]].perms} \cup poll[p].grant

\* A poll never reaches outside the folders granted to its feed, whatever the
\* user and other polls do while it decodes; it adds and removes PCDs, but takes
\* none from one folder to another.
FeedsStayInFolders ==
    [][\A p \in Poller, id \in Id :
         poll'[p] # poll[p] /\ coll'[id] # coll[id] =>
           \E f \in Granted(p) :
              \/ coll[id] = Nowhere /\ Covers(f, coll'[id])
              \/ coll'[id] = Nowhere /\ Covers(f, coll[id])]_vars

\* What the user's collection holds in the folder of a feed.
Shown(f) == {id \in Id : coll[id] = home[f]}

Resting(s) == \A p \in Poller : p[1] = s => poll[p].at \in {"none", "asked"}

\* A feed that replaces what is in its folder.
Current(s) == Active(s) /\ ~subs[s].ended /\ FeedOf[s] \notin Appending

\* Some id of the feed is in a folder that is not the feed's.
Blocked(f) == \E id \in content[f] : coll[id] \notin {Nowhere, home[f]}

\* In the end the folder of a feed holds what the provider issues, whatever
\* polls overlapped, failed or were applied late, unless the feed lacks a
\* permission or one of its ids is in another folder.
FeedsCatchUp ==
    \A s \in Sub : LET f == FeedOf[s] IN
       <>[](Current(s) /\ Resting(s) /\ Requested(f) \subseteq subs[s].perms /\ ~Blocked(f)
              => Shown(f) = content[f])

\* A subscription without an error is up to date and working.
WorkingIsUpToDate ==
    \A s \in Sub : LET f == FeedOf[s] IN
       []<>(Current(s) /\ s \notin errors => content[f] \subseteq Shown(f))
=============================================================================
