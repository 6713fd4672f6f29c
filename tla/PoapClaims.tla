----------------------------- MODULE PoapClaims -----------------------------
(***************************************************************************)
(* Claims of POAP links (poapService.ts, queries/poap.ts): a ticket is     *)
(* redirected to the link in whose row its hash is, or to a link that no   *)
(* ticket has, which then is its own.  Requests for one ticket pass a lock *)
(* of the process one by one; those for different tickets of an event      *)
(* overlap, and may pick one link, since the UPDATE looks for a free link  *)
(* in a subquery and then writes the row it found, whoever has it by then. *)
(***************************************************************************)
EXTENDS Naturals

CONSTANTS PoapLink, PoapTicket, PoapEvent,
          EventOfLink,    \* the event of each link
          EventOfTicket,  \* the event whose POAPs a ticket may claim
          PoapRequest,    \* requests that may be in flight at one time
          MaxPoapFaults   \* bound: failed requests and statements run again

ASSUME PoapAssumption ==
    /\ EventOfLink \in [PoapLink -> PoapEvent]
    /\ EventOfTicket \in [PoapTicket -> PoapEvent]
    /\ MaxPoapFaults \in Nat

VARIABLES
    holders,    \* the rows: the tickets with a link (a set of at most one)
    claim,      \* where each request stands
    poapFaults  \* counter of the bound

poapVars == <<holders, claim, poapFaults>>

PoapPhase == {"idle", "waiting", "find", "pick", "write"}

\* A request: its phase, ticket and picked link ({} while there is none), and
\* whether its statement runs again.
Claim(at, ticket, link, again) ==
    [at |-> at, ticket |-> ticket, link |-> link, again |-> again]

PoapIdle == Claim("idle", {}, {}, FALSE)

PoapTypeOK ==
    /\ holders \in [PoapLink -> SUBSET PoapTicket]
    /\ claim \in [PoapRequest -> [at : PoapPhase, ticket : SUBSET PoapTicket,
                                  link : SUBSET PoapLink, again : BOOLEAN]]
    /\ poapFaults \in 0 .. MaxPoapFaults

\* The links are inserted before the tickets come; none is taken.
PoapInit ==
    /\ holders = [l \in PoapLink |-> {}]
    /\ claim = [c \in PoapRequest |-> PoapIdle]
    /\ poapFaults = 0

LinksOf(t) == {l \in PoapLink : t \in holders[l]}

Free(event) == {l \in PoapLink : EventOfLink[l] = event /\ holders[l] = {}}

Move(c, at) == claim' = [claim EXCEPT ![c].at = at]

\* The request is answered, with a link or a page that says what to do.
EndClaim(c) == claim' = [claim EXCEPT ![c] = PoapIdle]

\* The row of the picked link gets the ticket of the request.
Associate(c) ==
    \E l \in claim[c].link : holders' = [holders EXCEPT ![l] = claim[c].ticket]

-----------------------------------------------------------------------------
\* A callback with a proof of a ticket that validate...Ticket accepts.
AskPoap(c, t) ==
    /\ claim[c].at = "idle"
    /\ claim' = [claim EXCEPT ![c] = Claim("waiting", {t}, {}, FALSE)]
    /\ UNCHANGED <<holders, poapFaults>>

\* Variant: no lock.
EnterUnlocked(c) ==
    /\ claim[c].at = "waiting"
    /\ Move(c, "find")
    /\ UNCHANGED <<holders, poapFaults>>

\* lock.acquire: one request for a ticket and event at a time.
EnterLock(c) ==
    /\ claim[c].at = "waiting"
    /\ \A d \in PoapRequest \ {c} :
          claim[d].ticket = claim[c].ticket => claim[d].at = "waiting"
    /\ Move(c, "find")
    /\ UNCHANGED <<holders, poapFaults>>

\* getExistingClaimUrlByTicketId.
FindLink(c) ==
    /\ claim[c].at = "find"
    /\ \E t \in claim[c].ticket :
          IF LinksOf(t) = {} THEN Move(c, "pick") ELSE EndClaim(c)
    /\ UNCHANGED <<holders, poapFaults>>

\* Variant: any link of the event, whoever has it.
PickAnyLink(c) ==
    /\ claim[c].at = "pick"
    /\ \E t \in claim[c].ticket : \E l \in PoapLink :
          /\ EventOfLink[l] = EventOfTicket[t]
          /\ claim' = [claim EXCEPT ![c].at = "write", ![c].link = {l}]
    /\ UNCHANGED <<holders, poapFaults>>

\* claimNewPoapUrl, the subquery: any link of the event that is free.
PickLink(c) ==
    /\ claim[c].at = "pick"
    /\ \E t \in claim[c].ticket : \E l \in Free(EventOfTicket[t]) :
          claim' = [claim EXCEPT ![c].at = "write", ![c].link = {l}]
    /\ UNCHANGED <<holders, poapFaults>>

\* No link is left: the ticket's holder is told to contact support.
RefusePoap(c) ==
    /\ claim[c].at = "pick"
    /\ \E t \in claim[c].ticket : Free(EventOfTicket[t]) = {}
    /\ EndClaim(c)
    /\ UNCHANGED <<holders, poapFaults>>

\* hashed_ticket_id is UNIQUE: a ticket has no second link.
Unique(c) == \A t \in claim[c].ticket : LinksOf(t) \subseteq claim[c].link

\* claimNewPoapUrl, the row: it is the ticket's, even if another has got it.
WriteLink(c) ==
    /\ claim[c].at = "write" /\ Unique(c)
    /\ Associate(c) /\ EndClaim(c)
    /\ UNCHANGED poapFaults

\* The UPDATE would give the ticket a second link, and throws.
RejectLink(c) ==
    /\ claim[c].at = "write" /\ ~ Unique(c)
    /\ EndClaim(c)
    /\ UNCHANGED <<holders, poapFaults>>

\* execQueryWithRetry: the connection breaks after the UPDATE, which runs again.
WriteLinkTwice(c) ==
    /\ claim[c].at = "write" /\ Unique(c)
    /\ poapFaults < MaxPoapFaults /\ poapFaults' = poapFaults + 1
    /\ Associate(c)
    /\ claim' = [claim EXCEPT ![c] = Claim("pick", @.ticket, {}, TRUE)]

\* A query fails before it changes anything.
PoapFails(c) ==
    /\ claim[c].at \in {"find", "pick", "write"}
    /\ poapFaults < MaxPoapFaults /\ poapFaults' = poapFaults + 1
    /\ EndClaim(c)
    /\ UNCHANGED holders

PoapNext ==
    \E c \in PoapRequest :
       \/ \E t \in PoapTicket : AskPoap(c, t)
       \/ EnterLock(c) \/ FindLink(c) \/ PickLink(c) \/ RefusePoap(c)
       \/ WriteLink(c) \/ RejectLink(c) \/ WriteLinkTwice(c) \/ PoapFails(c)

PoapSpec == PoapInit /\ [][PoapNext]_poapVars

-----------------------------------------------------------------------------
(* "two separate invocations [...] end up claiming [separate] POAP links":  *)
(* the lock prevents it.  A request that is about to write, and was not     *)
(* interrupted itself, is of a ticket without a link, so that no visitor    *)
(* meets the UNIQUE constraint.                                             *)
ClaimsDoNotCollide ==
    \A c \in PoapRequest :
       claim[c].at = "write" /\ ~ claim[c].again
         => \A t \in claim[c].ticket : LinksOf(t) = {}

\* No statement is under way that picked the link before a ticket got it.
Settled(l) ==
    /\ holders[l] # {}
    /\ ~ \E c \in PoapRequest : claim[c].at = "write" /\ claim[c].link = {l}

LinksStand ==
    \A l \in PoapLink : Settled(l) => holders'[l] = holders[l] /\ Settled(l)'

(* A ticket is associated with a link "such that in the future, that hashed *)
(* ticket ID will be redirected to this POAP claim URL", from when the      *)
(* statements that picked the link along with the ticket's are over: then   *)
(* no request takes the link from the ticket, and none can be about to.     *)
RedirectsAreFinal == [][LinksStand]_poapVars
=============================================================================
