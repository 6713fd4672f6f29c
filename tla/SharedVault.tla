---------------------------- MODULE SharedVault ----------------------------
(***************************************************************************)
(* What end-to-end encrypted sync promises the user, with no client, no    *)
(* network and no disk in it: one collection, kept as the sequence of its  *)
(* versions, that several writers extend.  A writer proposes a new content *)
(* computed from some version; the proposal becomes the next version only  *)
(* if that version is still the latest one; and a content computed from a  *)
(* version never lacks an object of it that no user ever removed.          *)
(***************************************************************************)
EXTENDS Naturals, Sequences

CONSTANTS Item,      \* the PCDs and subscriptions, one element per value
          Id,        \* their ids
          IdOf,      \* the id of each item: two items of one id are two values
          Original   \* the collection when the account starts

VARIABLES versions,   \* the contents the server has held, oldest first
          removed,    \* ids a user has removed at least once
          proposals   \* contents on their way to the server, with their base

vaultVars == <<versions, removed, proposals>>

Ids(S) == {IdOf[i] : i \in S}

\* S still holds every object of version n, up to what users removed.
Carries(S, n) == Ids(versions[n]) \ removed \subseteq Ids(S)

VaultInit == versions = <<Original>> /\ removed = {} /\ proposals = {}

Remove(id) == /\ removed' = removed \cup {id}
              /\ UNCHANGED <<versions, proposals>>

Propose(n, S) == /\ Carries(S, n)
                 /\ proposals' = proposals \cup {[rev |-> n, items |-> S]}
                 /\ UNCHANGED <<versions, removed>>

Accept(p) == /\ p.rev = Len(versions)
             /\ versions' = Append(versions, p.items)
             /\ proposals' \subseteq proposals
             /\ UNCHANGED removed

\* Proposals that are refused, withdrawn or lost.
Drop == proposals' \subseteq proposals /\ UNCHANGED <<versions, removed>>

VaultNext == \/ \E id \in Id : Remove(id)
             \/ \E n \in 1..Len(versions), S \in SUBSET Item : Propose(n, S)
             \/ \E p \in proposals : Accept(p)
             \/ Drop

VaultSpec == VaultInit /\ [][VaultNext]_vaultVars

-----------------------------------------------------------------------------
\* Nothing is ever lost: an object of some version that no user has removed is
\* in every later version.
Retained == \A m, n \in 1..Len(versions) : m <= n => Carries(versions[n], m)
=============================================================================
