-------------------------- MODULE SemaphoreGroups --------------------------
(***************************************************************************)
(* A Semaphore group of a pipeline (SemaphoreGroupProvider): its members   *)
(* are the commitments of the consumers who hold a ticket.  A poll saves   *)
(* the commitment of its user for his addresses, a load of the pipeline    *)
(* replaces the tickets, and each queues an update with the instance that  *)
(* serves it, which changes the group in memory and then appends it to the *)
(* history in the database.  What is served is the last entry there.       *)
(*                                                                         *)
(* The executor replaces the instance with one that starts from the last   *)
(* entry while updates of the old one are still queued; two instances      *)
(* suffice, since a third only starts once the first is at rest.           *)
(***************************************************************************)
EXTENDS Naturals, Sequences

CONSTANTS GroupUser, GroupEmail, Commitment,
          EmailsOf,      \* the addresses of each user, in order
          FirstIdentity, \* the commitment each user starts with
          GroupPoll,     \* polls that may be in flight
          PollOf,        \* whose poll each of them is
          MaxGroupEvents \* bound: new identities, changes of the tickets at their
                         \*   provider, and entries that are not written

ASSUME GroupAssumption ==
    /\ EmailsOf \in [GroupUser -> Seq(GroupEmail)]
    /\ FirstIdentity \in [GroupUser -> Commitment]
    /\ PollOf \in [GroupPoll -> GroupUser]
    /\ "none" \notin Commitment
    /\ MaxGroupEvents \in Nat

VARIABLES
    identity,      \* External: the commitment of each user
    issuedTo,      \* External: the addresses with a ticket, at the provider
    ticketEmails,  \* the addresses with a ticket, in the atoms
    consumer,      \* generic_issuance_consumers: the commitment of an address
    latestGroup,   \* the members of the last entry of the history
    group,         \* the group in the memory of each instance
    serving,       \* the instance in the slot
    started,       \* whether the other one has started, and awaits its place
    updates,       \* semaphoreUpdateQueue of each instance: who waits for what
    groupPoll,     \* where each poll stands
    groupEvents    \* counter of the bound

groupVars == <<identity, issuedTo, ticketEmails, consumer, latestGroup, group, serving,
               started, updates, groupPoll, groupEvents>>

GroupInstance == {0, 1}
\* The load of the pipeline, among those who wait for an update.
PipelineLoad == "load"
Update == [by : GroupPoll \cup {PipelineLoad}, at : {"queued", "writing"}]

GroupTypeOK ==
    /\ identity \in [GroupUser -> Commitment]
    /\ issuedTo \subseteq GroupEmail /\ ticketEmails \subseteq GroupEmail
    /\ consumer \in [GroupEmail -> Commitment \cup {"none"}]
    /\ latestGroup \subseteq Commitment
    /\ group \in [GroupInstance -> SUBSET Commitment]
    /\ serving \in GroupInstance /\ started \in BOOLEAN
    /\ updates \in [GroupInstance -> Seq(Update)]
    /\ groupPoll \in [GroupPoll -> [at : {"idle", "verified", "updating"},
                                    commitment : Commitment, instance : GroupInstance]]
    /\ groupEvents \in 0 .. MaxGroupEvents

NoPoll(p) == [at |-> "idle", commitment |-> FirstIdentity[PollOf[p]], instance |-> 0]

GroupInit ==
    /\ identity = FirstIdentity
    /\ issuedTo = GroupEmail /\ ticketEmails = {}
    /\ consumer = [e \in GroupEmail |-> "none"]
    /\ latestGroup = {}
    /\ group = [i \in GroupInstance |-> {}]
    /\ serving = 0 /\ started = FALSE
    /\ updates = [i \in GroupInstance |-> <<>>]
    /\ groupPoll = [p \in GroupPoll |-> NoPoll(p)]
    /\ groupEvents = 0

GroupEvent == groupEvents < MaxGroupEvents /\ groupEvents' = groupEvents + 1

\* Variant: addresses without a consumer count as members.
TicketHolders == {consumer[e] : e \in ticketEmails}

\* semaphoreGroupData, and the consumers of these addresses.
Members == {consumer[e] : e \in {x \in ticketEmails : consumer[x] # "none"}}

-----------------------------------------------------------------------------
\* External: a user makes a new identity.
Rekey(u, c) ==
    /\ GroupEvent /\ \A w \in GroupUser : identity[w] # c
    /\ identity' = [identity EXCEPT ![u] = c]
    /\ UNCHANGED <<issuedTo, ticketEmails, consumer, latestGroup, group, serving, started,
                   updates, groupPoll>>

\* External: tickets are issued or revoked.
IssueTickets(emails) ==
    /\ GroupEvent
    /\ issuedTo' = emails
    /\ UNCHANGED <<identity, ticketEmails, consumer, latestGroup, group, serving, started,
                   updates, groupPoll>>

\* A credential of the user is verified by the instance that serves.
PollGroupFeed(p) ==
    /\ groupPoll[p].at = "idle"
    /\ groupPoll' = [groupPoll EXCEPT ![p] =
         [at |-> "verified", commitment |-> identity[PollOf[p]], instance |-> serving]]
    /\ UNCHANGED <<identity, issuedTo, ticketEmails, consumer, latestGroup, group, serving,
                   started, updates, groupEvents>>

\* consumerDB.save for each address up to the first that it changes; then an
\* update is queued.
SaveConsumer(p) ==
    LET emails == EmailsOf[PollOf[p]]
        c == groupPoll[p].commitment
        i == groupPoll[p].instance
        changed == {n \in DOMAIN emails : /\ consumer[emails[n]] # c
                                          /\ \A m \in 1 .. n - 1 : consumer[emails[m]] = c}
    IN
    /\ groupPoll[p].at = "verified"
    /\ consumer' = [e \in GroupEmail |-> IF \E n \in changed : emails[n] = e
                                         THEN c ELSE consumer[e]]
    /\ IF changed = {}
       THEN groupPoll' = [groupPoll EXCEPT ![p] = NoPoll(p)] /\ UNCHANGED updates
       ELSE /\ groupPoll' = [groupPoll EXCEPT ![p].at = "updating"]
            /\ updates' = [updates EXCEPT ![i] = Append(@, [by |-> p, at |-> "queued"])]
    /\ UNCHANGED <<identity, issuedTo, ticketEmails, latestGroup, group, serving, started,
                   groupEvents>>

\* load: the atoms are saved, and an update is queued, that the load awaits.
LoadTickets ==
    /\ \A n \in DOMAIN updates[serving] : updates[serving][n].by # PipelineLoad
    /\ ticketEmails' = issuedTo
    /\ updates' = [updates EXCEPT ![serving] =
                     Append(@, [by |-> PipelineLoad, at |-> "queued"])]
    /\ UNCHANGED <<identity, issuedTo, consumer, latestGroup, group, serving, started,
                   groupPoll, groupEvents>>

-----------------------------------------------------------------------------
\* The first of the queue is done; a poll that waited for it is answered.
Dequeue(i) ==
    LET by == Head(updates[i]).by IN
    /\ updates' = [updates EXCEPT ![i] = Tail(@)]
    /\ groupPoll' = [p \in GroupPoll |-> IF p = by THEN NoPoll(p) ELSE groupPoll[p]]

\* updateGroup changes the group in memory; without a change, nothing is written.
ChangeGroup(i) ==
    /\ updates[i] # <<>> /\ Head(updates[i]).at = "queued"
    /\ group' = [group EXCEPT ![i] = Members]
    /\ IF Members = group[i] THEN Dequeue(i)
       ELSE /\ updates' = [updates EXCEPT ![i][1].at = "writing"]
            /\ UNCHANGED groupPoll
    /\ UNCHANGED <<identity, issuedTo, ticketEmails, consumer, latestGroup, serving,
                   started, groupEvents>>

AddHistoryEntry(i) ==
    /\ updates[i] # <<>> /\ Head(updates[i]).at = "writing"
    /\ latestGroup' = group[i]
    /\ Dequeue(i)
    /\ UNCHANGED <<identity, issuedTo, ticketEmails, consumer, group, serving, started,
                   groupEvents>>

\* The entry is not written, and the group in memory stays as it is.
HistoryEntryFails(i) ==
    /\ updates[i] # <<>> /\ Head(updates[i]).at = "writing"
    /\ GroupEvent
    /\ Dequeue(i)
    /\ UNCHANGED <<identity, issuedTo, ticketEmails, consumer, latestGroup, group, serving,
                   started>>

-----------------------------------------------------------------------------
CanStart ==
    /\ ~ started /\ updates[1 - serving] = <<>>
    /\ \A p \in GroupPoll : groupPoll[p].at = "idle" \/ groupPoll[p].instance = serving

\* Variant: groups are empty by default.
StartEmptyProvider ==
    /\ CanStart
    /\ group' = [group EXCEPT ![1 - serving] = {}]
    /\ started' = TRUE
    /\ UNCHANGED <<identity, issuedTo, ticketEmails, consumer, latestGroup, serving, updates,
                   groupPoll, groupEvents>>

\* start: another instance is populated from the history.
StartProvider ==
    /\ CanStart
    /\ group' = [group EXCEPT ![1 - serving] = latestGroup]
    /\ started' = TRUE
    /\ UNCHANGED <<identity, issuedTo, ticketEmails, consumer, latestGroup, serving, updates,
                   groupPoll, groupEvents>>

\* The executor puts it in the slot.
ReplaceProvider ==
    /\ started
    /\ serving' = 1 - serving /\ started' = FALSE
    /\ UNCHANGED <<identity, issuedTo, ticketEmails, consumer, latestGroup, group, updates,
                   groupPoll, groupEvents>>

GroupNext ==
    \/ \E u \in GroupUser, c \in Commitment : Rekey(u, c)
    \/ \E emails \in SUBSET GroupEmail : IssueTickets(emails)
    \/ \E p \in GroupPoll : PollGroupFeed(p) \/ SaveConsumer(p)
    \/ LoadTickets
    \/ \E i \in GroupInstance : ChangeGroup(i) \/ AddHistoryEntry(i) \/ HistoryEntryFails(i)
    \/ StartProvider \/ ReplaceProvider

GroupSpec == GroupInit /\ [][GroupNext]_groupVars

-----------------------------------------------------------------------------
GroupIsCurrent ==
    latestGroup = {identity[u] : u \in {w \in GroupUser :
                     \E n \in DOMAIN EmailsOf[w] : EmailsOf[w][n] \in issuedTo}}

(* Once users keep their identities and tickets their owners, the group     *)
(* that is served consists of the commitments of all who hold a ticket,     *)
(* whatever entries were lost, or written late by an instance that was      *)
(* replaced: the diff against the last entry makes up for them.             *)
GroupsCatchUp == <>[]GroupIsCurrent
=============================================================================
