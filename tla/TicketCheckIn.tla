--------------------------- MODULE TicketCheckIn ---------------------------
(***************************************************************************)
(* Check-in of tickets by the pipelines of the passport server.  A remote  *)
(* ticket is loaded from Pretix and checked in there; a local one (manual  *)
(* tickets, and the tickets of a Lemonade pipeline) is checked in by a row *)
(* of generic_issuance_checkins.  Between a check-in and the load that     *)
(* shows it, the pipeline keeps it in a map, pendingCheckIns.              *)
(*                                                                         *)
(* Scans overlap, loads overlap scans, and the executor replaces the       *)
(* pipeline's instance, and with it the map, while scans and a load of the *)
(* replaced one are still going on.                                        *)
(***************************************************************************)
EXTENDS Naturals, FiniteSets

CONSTANTS RemoteTicket, LocalTicket,
          Scan,            \* scans that may be in flight at one time
          MaxScans,        \* bound: scans in all
          MaxReplacements, \* bound: replacements of the instance
          MaxOutside,      \* bound: check-ins and check-outs made elsewhere
          MaxCheckInFaults \* bound: requests, answers and loads that fail

ASSUME CheckInAssumption ==
    /\ RemoteTicket \cap LocalTicket = {}
    /\ MaxScans \in Nat /\ MaxReplacements \in Nat
    /\ MaxOutside \in Nat /\ MaxCheckInFaults \in Nat

VARIABLES
    attended,        \* tickets checked in, at Pretix or in the database
    shown,           \* remote tickets whose atom is consumed
    instance,        \* the instance in the executor's slot
    retired,         \* the instances that were stopped
    pendingCheckIns, \* the map of each instance
    scan,            \* where each scan stands
    load,            \* where the load of each instance stands
    wasIn,           \* history: tickets that were checked in at some time
    checkedOut,      \* history: tickets that were checked out
    checkInBudget    \* counters of the bounds

checkInVars == <<attended, shown, instance, retired, pendingCheckIns, scan, load,
                 wasIn, checkedOut, checkInBudget>>

Ticket == RemoteTicket \cup LocalTicket
Instance == 0 .. MaxReplacements

ScanState == [at : {"permitted", "listing", "pushing", "accepted", "refused"},
              ticket : Ticket, by : Instance]
NoScan == [at |-> "idle"]

\* seen: what Pretix returned; before: entries that succeeded before the load.
LoadState == [at : {"idle", "fetching", "saving"}, seen : SUBSET RemoteTicket,
              before : SUBSET Ticket]
NoLoad == [at |-> "idle", seen |-> {}, before |-> {}]

CheckInTypeOK ==
    /\ attended \subseteq Ticket /\ wasIn \subseteq Ticket /\ checkedOut \subseteq Ticket
    /\ shown \subseteq RemoteTicket
    /\ instance \in Instance /\ retired \subseteq Instance
    /\ instance \in retired => instance < MaxReplacements
    /\ \A g \in retired : g <= instance
    /\ pendingCheckIns \in [Instance -> [Ticket -> {"none", "Pending", "Success"}]]
    /\ scan \in [Scan -> ScanState \cup {NoScan}]
    /\ load \in [Instance -> LoadState]
    /\ checkInBudget \in [scans : 0 .. MaxScans, outside : 0 .. MaxOutside,
                          faults : 0 .. MaxCheckInFaults]

CheckInInit ==
    /\ attended = {} /\ shown = {} /\ wasIn = {} /\ checkedOut = {}
    /\ instance = 0 /\ retired = {}
    /\ pendingCheckIns = [g \in Instance |-> [t \in Ticket |-> "none"]]
    /\ scan = [c \in Scan |-> NoScan]
    /\ load = [g \in Instance |-> NoLoad]
    /\ checkInBudget = [scans |-> 0, outside |-> 0, faults |-> 0]

ScanAt(c, stages) == scan[c].at \in stages
PendingOf(c) == pendingCheckIns[scan[c].by][scan[c].ticket]

SetPending(c, status) ==
    pendingCheckIns' = [pendingCheckIns EXCEPT ![scan[c].by][scan[c].ticket] = status]

CheckInFault ==
    /\ checkInBudget.faults < MaxCheckInFaults
    /\ checkInBudget' = [checkInBudget EXCEPT !.faults = @ + 1]

-----------------------------------------------------------------------------
\* A scan of a ticket by one who may check it in (canCheckInForEvent).
BeginScan(c, t) ==
    /\ scan[c] = NoScan /\ checkInBudget.scans < MaxScans
    /\ scan' = [scan EXCEPT ![c] = [at |-> "permitted", ticket |-> t, by |-> instance]]
    /\ checkInBudget' = [checkInBudget EXCEPT !.scans = @ + 1]
    /\ UNCHANGED <<attended, shown, instance, retired, pendingCheckIns, load,
                   wasIn, checkedOut>>

\* AlreadyCheckedIn, from the atom or from the map.
AnswerAlready(c) ==
    /\ ScanAt(c, {"permitted"})
    /\ PendingOf(c) # "none" \/ scan[c].ticket \in shown
    /\ scan' = [scan EXCEPT ![c] = NoScan]
    /\ UNCHANGED <<attended, shown, instance, retired, pendingCheckIns, load, wasIn,
                   checkedOut, checkInBudget>>

\* A remote ticket waits for the event's check-in lists, a local one is inserted.
GoAhead(c) ==
    /\ ScanAt(c, {"permitted"})
    /\ PendingOf(c) = "none" /\ scan[c].ticket \notin shown
    /\ scan' = [scan EXCEPT ![c].at = IF scan[c].ticket \in RemoteTicket
                                      THEN "listing" ELSE "pushing"]
    /\ UNCHANGED <<attended, shown, instance, retired, pendingCheckIns, load, wasIn,
                   checkedOut, checkInBudget>>

SendCheckIn(c) ==
    /\ ScanAt(c, {"listing"})
    /\ SetPending(c, "Pending")
    /\ scan' = [scan EXCEPT ![c].at = "pushing"]
    /\ UNCHANGED <<attended, shown, instance, retired, load, wasIn, checkedOut,
                   checkInBudget>>

\* External: Pretix, and the primary key of the table, refuse a second check-in.
ReceiveCheckIn(c) ==
    LET t == scan[c].ticket IN
    /\ ScanAt(c, {"pushing"})
    /\ scan' = [scan EXCEPT ![c].at = IF t \in attended THEN "refused" ELSE "accepted"]
    /\ attended' = attended \cup {t} /\ wasIn' = wasIn \cup {t}
    /\ UNCHANGED <<shown, instance, retired, pendingCheckIns, load, checkedOut,
                   checkInBudget>>

\* A new entry is later than the load that is going on.
AnswerSuccess(c) ==
    /\ ScanAt(c, {"accepted"})
    /\ SetPending(c, "Success")
    /\ load' = [load EXCEPT ![scan[c].by].before = @ \ {scan[c].ticket}]
    /\ scan' = [scan EXCEPT ![c] = NoScan]
    /\ UNCHANGED <<attended, shown, instance, retired, wasIn, checkedOut,
                   checkInBudget>>

\* Variant: a failure leaves the entry in the map.
FailKeepingEntry(c) ==
    /\ \/ ScanAt(c, {"refused"}) /\ UNCHANGED checkInBudget
       \/ ScanAt(c, {"listing", "pushing", "accepted"}) /\ CheckInFault
    /\ scan' = [scan EXCEPT ![c] = NoScan]
    /\ UNCHANGED <<attended, shown, instance, retired, pendingCheckIns, load,
                   wasIn, checkedOut>>

\* ServerError, or AlreadyCheckedIn for a row that exists: the catch deletes the
\* entry, whoever made it.  A fault may follow a check-in that took effect.
AnswerFailure(c) ==
    /\ \/ ScanAt(c, {"refused"}) /\ UNCHANGED checkInBudget
       \/ ScanAt(c, {"listing", "pushing", "accepted"}) /\ CheckInFault
    /\ SetPending(c, "none")
    /\ scan' = [scan EXCEPT ![c] = NoScan]
    /\ UNCHANGED <<attended, shown, instance, retired, load, wasIn, checkedOut>>

-----------------------------------------------------------------------------
\* load: startTime is taken.
StartTicketLoad ==
    /\ load[instance].at = "idle"
    /\ load' = [load EXCEPT ![instance] =
                  [at |-> "fetching", seen |-> {},
                   before |-> {t \in Ticket : pendingCheckIns[instance][t] = "Success"}]]
    /\ UNCHANGED <<attended, shown, instance, retired, pendingCheckIns, scan, wasIn,
                   checkedOut, checkInBudget>>

\* Pretix answers; a stopped instance goes no further.
FetchTickets(g) ==
    /\ load[g].at = "fetching"
    /\ load' = [load EXCEPT ![g] = IF g \notin retired
                                   THEN [@ EXCEPT !.at = "saving",
                                                  !.seen = attended \cap RemoteTicket]
                                   ELSE NoLoad]
    /\ UNCHANGED <<attended, shown, instance, retired, pendingCheckIns, scan, wasIn,
                   checkedOut, checkInBudget>>

\* Variant: every entry that succeeded is removed, since the load or before it.
SaveForgettingAll(g) ==
    /\ load[g].at = "saving"
    /\ shown' = load[g].seen
    /\ pendingCheckIns' = [pendingCheckIns EXCEPT ![g] =
         [t \in Ticket |-> IF @[t] = "Success" THEN "none" ELSE @[t]]]
    /\ load' = [load EXCEPT ![g] = NoLoad]
    /\ UNCHANGED <<attended, instance, retired, scan, wasIn, checkedOut,
                   checkInBudget>>

\* The atoms are saved, and the entries that the load is sure to show removed.
SaveTickets(g) ==
    /\ load[g].at = "saving"
    /\ shown' = load[g].seen
    /\ pendingCheckIns' = [pendingCheckIns EXCEPT ![g] =
         [t \in Ticket |-> IF @[t] = "Success" /\ t \in load[g].before
                           THEN "none" ELSE @[t]]]
    /\ load' = [load EXCEPT ![g] = NoLoad]
    /\ UNCHANGED <<attended, instance, retired, scan, wasIn, checkedOut,
                   checkInBudget>>

TicketLoadFails(g) ==
    /\ load[g].at # "idle"
    /\ CheckInFault
    /\ load' = [load EXCEPT ![g] = NoLoad]
    /\ UNCHANGED <<attended, shown, instance, retired, pendingCheckIns, scan,
                   wasIn, checkedOut>>

-----------------------------------------------------------------------------
\* External, or setManualCheckInState: a ticket is checked in or out elsewhere.
CheckInElsewhere(t) ==
    /\ checkInBudget.outside < MaxOutside /\ t \notin attended
    /\ attended' = attended \cup {t} /\ wasIn' = wasIn \cup {t}
    /\ checkInBudget' = [checkInBudget EXCEPT !.outside = @ + 1]
    /\ UNCHANGED <<shown, instance, retired, pendingCheckIns, scan, load, checkedOut>>

CheckOutElsewhere(t) ==
    /\ checkInBudget.outside < MaxOutside /\ t \in attended
    /\ attended' = attended \ {t} /\ checkedOut' = checkedOut \cup {t}
    /\ checkInBudget' = [checkInBudget EXCEPT !.outside = @ + 1]
    /\ UNCHANGED <<shown, instance, retired, pendingCheckIns, scan, load, wasIn>>

\* restartPipeline: the instance is stopped, and goes on answering scans until
\* instantiatePipeline has made another one, which takes the slot.
StopInstance ==
    /\ instance \notin retired /\ instance < MaxReplacements
    /\ retired' = retired \cup {instance}
    /\ UNCHANGED <<attended, shown, instance, pendingCheckIns, scan, load, wasIn,
                   checkedOut, checkInBudget>>

ReplaceInstance ==
    /\ instance \in retired
    /\ instance' = instance + 1
    /\ UNCHANGED <<attended, shown, retired, pendingCheckIns, scan, load, wasIn,
                   checkedOut, checkInBudget>>

ScanGoesOn(c) == \/ AnswerAlready(c) \/ GoAhead(c) \/ SendCheckIn(c)
                 \/ ReceiveCheckIn(c) \/ AnswerSuccess(c)
                 \/ ScanAt(c, {"refused"}) /\ AnswerFailure(c)

CheckInNext ==
    \/ \E c \in Scan : \/ \E t \in Ticket : BeginScan(c, t)
                       \/ AnswerAlready(c) \/ GoAhead(c) \/ SendCheckIn(c)
                       \/ ReceiveCheckIn(c) \/ AnswerSuccess(c) \/ AnswerFailure(c)
    \/ StartTicketLoad
    \/ \E g \in Instance : FetchTickets(g) \/ SaveTickets(g) \/ TicketLoadFails(g)
    \/ \E t \in Ticket : CheckInElsewhere(t) \/ CheckOutElsewhere(t)
    \/ StopInstance \/ ReplaceInstance

CheckInSpec == CheckInInit /\ [][CheckInNext]_checkInVars

-----------------------------------------------------------------------------
(* A scan is told "already checked in" for a reason: an entry of the map    *)
(* that is Pending belongs to a scan whose request is out, one that is a    *)
(* Success to a ticket that was checked in, as does a consumed atom.  No    *)
(* failure of overlapping scans, on instances replaced or not, leaves an    *)
(* entry that keeps a ticket from being checked in.                         *)
PendingIsFounded ==
    \A t \in Ticket :
       /\ t \in shown => t \in wasIn
       /\ \A g \in Instance :
            /\ pendingCheckIns[g][t] = "Success" => t \in wasIn
            /\ pendingCheckIns[g][t] = "Pending" =>
                 \E c \in Scan : /\ ScanAt(c, {"pushing", "accepted", "refused"})
                                 /\ scan[c].ticket = t /\ scan[c].by = g

(* When a load removes the entry of a remote ticket, the atoms it saved     *)
(* show the ticket consumed, unless it was checked out: a check-in that     *)
(* succeeds while the load fetches is not lost.                             *)
LoadKeepsNews ==
    [][ \A g \in Instance : \A t \in RemoteTicket :
          load[g].at = "saving" /\ load'[g].at = "idle"
            => \/ pendingCheckIns'[g][t] = pendingCheckIns[g][t]
               \/ t \in shown' \/ t \in checkedOut ]_checkInVars

(* Once scans end, the map of the instance in place empties, also for       *)
(* tickets that were checked out since, and its atoms show the tickets      *)
(* that are checked in at Pretix, whatever older loads still save.          *)
PendingSettles ==
    <>[](/\ \A t \in Ticket : pendingCheckIns[instance][t] = "none"
         /\ shown = attended \cap RemoteTicket)
=============================================================================
