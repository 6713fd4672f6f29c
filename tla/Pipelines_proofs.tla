-------------------------- MODULE Pipelines_proofs --------------------------
(***************************************************************************)
(* Proofs about the parts that issue tickets, TicketCheckIn,               *)
(* PipelineExecutor, SemaphoreGroups and ProvingQueue, and about all of    *)
(* them together, for any tickets, requests, instances, loads and bounds.  *)
(***************************************************************************)
EXTENDS MC_Pipelines, FiniteSetTheorems, TLAPS

(***************************************************************************)
(* Check-in: types.                                                        *)
(***************************************************************************)

\* A scan that goes on is a scan.
LEMMA ScanMoves ==
  ASSUME CheckInTypeOK, NEW c \in Scan, scan[c].at # "idle"
  PROVE  /\ scan[c] \in ScanState
         /\ \A at \in {"listing", "pushing", "accepted", "refused"} :
              [scan EXCEPT ![c].at = at] \in [Scan -> ScanState \cup {NoScan}]
         /\ [scan EXCEPT ![c] = NoScan] \in [Scan -> ScanState \cup {NoScan}]
<1>1. scan[c] \in ScanState
  BY DEF CheckInTypeOK, NoScan
<1>2. \A at \in {"listing", "pushing", "accepted", "refused"} :
        [scan[c] EXCEPT !.at = at] \in ScanState
  BY <1>1 DEF ScanState
<1> QED
  BY <1>1, <1>2 DEF CheckInTypeOK

\* What an answer writes to the map keeps it a map.
LEMMA PendingWrite ==
  ASSUME CheckInTypeOK, NEW c \in Scan, scan[c].at # "idle",
         NEW status \in {"none", "Pending", "Success"}, SetPending(c, status)
  PROVE  pendingCheckIns' \in [Instance -> [Ticket -> {"none", "Pending", "Success"}]]
<1>1. scan[c] \in ScanState
  BY ScanMoves
<1>2. scan[c].by \in Instance /\ scan[c].ticket \in Ticket
  BY <1>1 DEF ScanState
<1> QED
  BY <1>2 DEF CheckInTypeOK, SetPending

\* What a load writes about itself.
LEMMA LoadWrite ==
  ASSUME CheckInTypeOK, NEW g \in Instance
  PROVE  /\ load[g].at \in {"idle", "fetching", "saving"}
         /\ load[g].seen \subseteq RemoteTicket /\ load[g].before \subseteq Ticket
         /\ NoLoad \in LoadState
         /\ \A seen \in SUBSET RemoteTicket :
              [load[g] EXCEPT !.at = "saving", !.seen = seen] \in LoadState
         /\ \A before \in SUBSET Ticket :
              /\ [load[g] EXCEPT !.before = before] \in LoadState
              /\ [at |-> "fetching", seen |-> {}, before |-> before] \in LoadState
<1>1. load[g] \in LoadState
  BY DEF CheckInTypeOK
<1> QED
  BY <1>1 DEF LoadState, NoLoad

\* The counters.
LEMMA BudgetWrite ==
  ASSUME CheckInTypeOK
  PROVE  /\ checkInBudget.scans < MaxScans =>
              [checkInBudget EXCEPT !.scans = @ + 1] \in
                [scans : 0 .. MaxScans, outside : 0 .. MaxOutside,
                 faults : 0 .. MaxCheckInFaults]
         /\ checkInBudget.outside < MaxOutside =>
              [checkInBudget EXCEPT !.outside = @ + 1] \in
                [scans : 0 .. MaxScans, outside : 0 .. MaxOutside,
                 faults : 0 .. MaxCheckInFaults]
         /\ checkInBudget.faults < MaxCheckInFaults =>
              [checkInBudget EXCEPT !.faults = @ + 1] \in
                [scans : 0 .. MaxScans, outside : 0 .. MaxOutside,
                 faults : 0 .. MaxCheckInFaults]
  BY CheckInAssumption DEF CheckInTypeOK

\* The first state has its types.
LEMMA CheckInInitType == CheckInInit => CheckInTypeOK
  BY CheckInAssumption
  DEF CheckInInit, CheckInTypeOK, NoLoad, LoadState, Instance, Ticket

\* Every step keeps them.
LEMMA CheckInStepType == CheckInTypeOK /\ [CheckInNext]_checkInVars => CheckInTypeOK'
<1> SUFFICES ASSUME CheckInTypeOK, [CheckInNext]_checkInVars PROVE CheckInTypeOK'
  OBVIOUS
<1> DEFINE Typed == CheckInTypeOK'
<1>1. ASSUME NEW c \in Scan, NEW t \in Ticket, BeginScan(c, t) PROVE Typed
  <2>1. [at |-> "permitted", ticket |-> t, by |-> instance] \in ScanState
    BY DEF ScanState, CheckInTypeOK
  <2> QED
    BY <1>1, <2>1, BudgetWrite DEF BeginScan, CheckInTypeOK
<1>2. ASSUME NEW c \in Scan, AnswerAlready(c) \/ GoAhead(c) PROVE Typed
  <2>1. scan[c].at # "idle"
    BY <1>2 DEF AnswerAlready, GoAhead, ScanAt
  <2>2. GoAhead(c) => \/ scan' = [scan EXCEPT ![c].at = "listing"]
                      \/ scan' = [scan EXCEPT ![c].at = "pushing"]
    <3>1. CASE scan[c].ticket \in RemoteTicket
      BY <3>1 DEF GoAhead
    <3>2. CASE scan[c].ticket \notin RemoteTicket
      BY <3>2 DEF GoAhead
    <3> QED
      BY <3>1, <3>2
  <2>3. /\ [scan EXCEPT ![c].at = "listing"] \in [Scan -> ScanState \cup {NoScan}]
        /\ [scan EXCEPT ![c].at = "pushing"] \in [Scan -> ScanState \cup {NoScan}]
        /\ [scan EXCEPT ![c] = NoScan] \in [Scan -> ScanState \cup {NoScan}]
    BY <2>1, ScanMoves
  <2>4. scan' \in [Scan -> ScanState \cup {NoScan}]
    BY <1>2, <2>2, <2>3 DEF AnswerAlready
  <2> QED
    BY <1>2, <2>4 DEF AnswerAlready, GoAhead, CheckInTypeOK
<1>3. ASSUME NEW c \in Scan, SendCheckIn(c) PROVE Typed
  <2>1. scan[c].at # "idle"
    BY <1>3 DEF SendCheckIn, ScanAt
  <2> QED
    BY <1>3, <2>1, ScanMoves, PendingWrite DEF SendCheckIn, CheckInTypeOK
<1>4. ASSUME NEW c \in Scan, ReceiveCheckIn(c) PROVE Typed
  <2>1. scan[c].at # "idle"
    BY <1>4 DEF ReceiveCheckIn, ScanAt
  <2>2. scan[c].ticket \in Ticket
    BY <2>1, ScanMoves DEF ScanState
  <2> QED
    BY <1>4, <2>1, <2>2, ScanMoves DEF ReceiveCheckIn, CheckInTypeOK
<1>5. ASSUME NEW c \in Scan, AnswerSuccess(c) PROVE Typed
  <2>1. scan[c].at # "idle"
    BY <1>5 DEF AnswerSuccess, ScanAt
  <2>2. scan[c].by \in Instance
    BY <2>1, ScanMoves DEF ScanState
  <2>3. [load[scan[c].by] EXCEPT !.before = @ \ {scan[c].ticket}] \in LoadState
    BY <2>2, LoadWrite
  <2>4. load' \in [Instance -> LoadState]
    BY <1>5, <2>2, <2>3 DEF AnswerSuccess, CheckInTypeOK
  <2> QED
    BY <1>5, <2>1, <2>4, ScanMoves, PendingWrite DEF AnswerSuccess, CheckInTypeOK
<1>6. ASSUME NEW c \in Scan, AnswerFailure(c) PROVE Typed
  <2>1. scan[c].at # "idle"
    BY <1>6 DEF AnswerFailure, ScanAt
  <2>2. checkInBudget' \in [scans : 0 .. MaxScans, outside : 0 .. MaxOutside,
                            faults : 0 .. MaxCheckInFaults]
    BY <1>6, BudgetWrite DEF AnswerFailure, CheckInFault, CheckInTypeOK
  <2> QED
    BY <1>6, <2>1, <2>2, ScanMoves, PendingWrite DEF AnswerFailure, CheckInTypeOK
<1>7. ASSUME StartTicketLoad PROVE Typed
  <2>1. instance \in Instance
    BY DEF CheckInTypeOK
  <2> QED
    BY <1>7, <2>1, LoadWrite DEF StartTicketLoad, CheckInTypeOK
<1>8. ASSUME NEW g \in Instance, FetchTickets(g) PROVE Typed
  BY <1>8, LoadWrite DEF FetchTickets, CheckInTypeOK
<1>9. ASSUME NEW g \in Instance, SaveTickets(g) PROVE Typed
  BY <1>9, LoadWrite DEF SaveTickets, CheckInTypeOK
<1>10. ASSUME NEW g \in Instance, TicketLoadFails(g) PROVE Typed
  BY <1>10, LoadWrite, BudgetWrite DEF TicketLoadFails, CheckInFault, CheckInTypeOK
<1>11. ASSUME NEW t \in Ticket, CheckInElsewhere(t) \/ CheckOutElsewhere(t) PROVE Typed
  BY <1>11, BudgetWrite DEF CheckInElsewhere, CheckOutElsewhere, CheckInTypeOK
<1>12. ASSUME StopInstance \/ ReplaceInstance PROVE Typed
  <2>1. MaxReplacements \in Nat /\ instance \in Nat /\ instance \in Instance
    BY CheckInAssumption DEF CheckInTypeOK, Instance
  <2>2. retired \subseteq Instance /\ \A g \in retired : g <= instance
    BY DEF CheckInTypeOK
  <2>3. instance < MaxReplacements
    BY <1>12 DEF StopInstance, ReplaceInstance, CheckInTypeOK
  <2>4. CASE StopInstance
    <3>1. retired' = retired \cup {instance} /\ instance' = instance
      BY <2>4 DEF StopInstance
    <3>2. retired' \subseteq Instance /\ \A g \in retired' : g <= instance'
      BY <2>1, <2>2, <3>1
    <3> QED
      BY <2>1, <2>3, <2>4, <3>1, <3>2 DEF StopInstance, CheckInTypeOK
  <2>5. CASE ReplaceInstance
    <3>1. retired' = retired /\ instance' = instance + 1
      BY <2>5 DEF ReplaceInstance
    <3>2. instance' \in Instance
      BY <2>1, <2>3, <3>1 DEF Instance
    <3>3. ASSUME NEW g \in retired PROVE g <= instance' /\ g # instance'
      <4>1. g \in Nat /\ g <= instance
        BY <2>1, <2>2 DEF Instance
      <4> QED
        BY <2>1, <3>1, <4>1
    <3> QED
      BY <2>2, <2>5, <3>1, <3>2, <3>3 DEF ReplaceInstance, CheckInTypeOK
  <2> QED
    BY <1>12, <2>4, <2>5
<1>13. ASSUME UNCHANGED checkInVars PROVE Typed
  BY <1>13 DEF checkInVars, CheckInTypeOK
<1> QED
  BY <1>1, <1>2, <1>3, <1>4, <1>5, <1>6, <1>7, <1>8, <1>9, <1>10, <1>11, <1>12, <1>13
  DEF CheckInNext

(* CheckInTypeOK: every variable keeps its type.                            *)
THEOREM CheckInTypeCorrect == CheckInSpec => []CheckInTypeOK
  BY CheckInInitType, CheckInStepType, PTL DEF CheckInSpec

-----------------------------------------------------------------------------
(***************************************************************************)
(* What the map, the atoms and the loads know.                             *)
(***************************************************************************)

\* The inductive form of PendingIsFounded: what a scan that was answered, and a
\* load, have seen, are check-ins as well.
Founded ==
    /\ attended \subseteq wasIn
    /\ \A g \in Instance : load[g].seen \subseteq wasIn
    /\ \A c \in Scan : ScanAt(c, {"accepted", "refused"}) => scan[c].ticket \in wasIn
    /\ PendingIsFounded

\* A scan whose request is out.
IsOut(c, t, g) == /\ ScanAt(c, {"pushing", "accepted", "refused"})
                  /\ scan[c].ticket = t /\ scan[c].by = g

\* The parts of Founded that speak of scans and the map survive a step that
\* keeps the scans that are out, and puts nothing new into the map.
LEMMA FoundedKept ==
  ASSUME CheckInTypeOK, Founded, CheckInTypeOK', wasIn \subseteq wasIn',
         attended' \subseteq wasIn', shown' \subseteq wasIn',
         \A g \in Instance : load'[g].seen \subseteq wasIn',
         \A c \in Scan : ScanAt(c, {"accepted", "refused"})' => (scan[c].ticket \in wasIn)',
         \A g \in Instance, t \in Ticket :
            pendingCheckIns'[g][t] # pendingCheckIns[g][t] =>
              \/ pendingCheckIns'[g][t] = "none"
              \/ pendingCheckIns'[g][t] = "Success" /\ t \in wasIn'
              \/ pendingCheckIns'[g][t] = "Pending" /\ \E c \in Scan : IsOut(c, t, g)',
         \A c \in Scan, t \in Ticket, g \in Instance :
            IsOut(c, t, g) => IsOut(c, t, g)' \/ pendingCheckIns'[g][t] # "Pending"
  PROVE  Founded'
<1>1. ASSUME NEW t \in Ticket, NEW g \in Instance,
             pendingCheckIns'[g][t] = "Success"
      PROVE  t \in wasIn'
  <2>1. pendingCheckIns[g][t] = "Success" => t \in wasIn
    BY DEF Founded, PendingIsFounded
  <2>2. pendingCheckIns'[g][t] # pendingCheckIns[g][t] => t \in wasIn'
    BY <1>1
  <2> QED
    BY <1>1, <2>1, <2>2
<1>2. ASSUME NEW t \in Ticket, NEW g \in Instance,
             pendingCheckIns'[g][t] = "Pending"
      PROVE  \E c \in Scan : IsOut(c, t, g)'
  <2>1. CASE pendingCheckIns'[g][t] # pendingCheckIns[g][t]
    BY <1>2, <2>1
  <2>2. CASE pendingCheckIns'[g][t] = pendingCheckIns[g][t]
    <3>1. PICK c \in Scan : IsOut(c, t, g)
      BY <1>2, <2>2 DEF Founded, PendingIsFounded, IsOut
    <3> QED
      BY <1>2, <3>1
  <2> QED
    BY <2>1, <2>2
<1> QED
  BY <1>1, <1>2 DEF Founded, PendingIsFounded, IsOut

\* Every step keeps Founded.
LEMMA StepFounded ==
  CheckInTypeOK /\ Founded /\ [CheckInNext]_checkInVars => Founded'
<1> SUFFICES ASSUME CheckInTypeOK, Founded, [CheckInNext]_checkInVars PROVE Founded'
  OBVIOUS
<1>0. CheckInTypeOK'
  BY CheckInStepType
<1>1. ASSUME NEW c \in Scan, NEW t \in Ticket, BeginScan(c, t) PROVE Founded'
  <2>1. /\ \A d \in Scan : scan'[d] = IF d = c THEN [at |-> "permitted", ticket |-> t,
                                                   by |-> instance] ELSE scan[d]
        /\ scan[c].at = "idle"
    BY <1>1 DEF BeginScan, CheckInTypeOK, NoScan
  <2> QED
    BY <1>0, <1>1, <2>1, FoundedKept DEF BeginScan, Founded, PendingIsFounded, ScanAt, IsOut
<1>2. ASSUME NEW c \in Scan, AnswerAlready(c) PROVE Founded'
  <2>1. /\ \A d \in Scan : scan'[d] = IF d = c THEN NoScan ELSE scan[d]
        /\ scan[c].at = "permitted"
    BY <1>2 DEF AnswerAlready, CheckInTypeOK, ScanAt
  <2> QED
    BY <1>0, <1>2, <2>1, FoundedKept
    DEF AnswerAlready, Founded, PendingIsFounded, ScanAt, IsOut, NoScan
<1>3. ASSUME NEW c \in Scan, GoAhead(c) PROVE Founded'
  <2>1. scan[c] \in ScanState /\ scan[c].at = "permitted"
    BY <1>3, ScanMoves DEF GoAhead, ScanAt
  <2>2. \E at \in {"listing", "pushing"} :
          \A d \in Scan : scan'[d] = IF d = c THEN [scan[c] EXCEPT !.at = at] ELSE scan[d]
    BY <1>3 DEF GoAhead, CheckInTypeOK
  <2>3. \A d \in Scan : IF d = c THEN scan'[d].at \in {"listing", "pushing"}
                                 ELSE scan'[d] = scan[d]
    BY <2>1, <2>2 DEF ScanState
  <2> QED
    BY <1>0, <1>3, <2>1, <2>3, FoundedKept
    DEF GoAhead, Founded, PendingIsFounded, ScanAt, IsOut
<1>4. ASSUME NEW c \in Scan, SendCheckIn(c) PROVE Founded'
  <2>1. scan[c] \in ScanState /\ scan[c].at = "listing"
    BY <1>4, ScanMoves DEF SendCheckIn, ScanAt
  <2>2. \A d \in Scan : scan'[d] = IF d = c THEN [scan[c] EXCEPT !.at = "pushing"]
                                           ELSE scan[d]
    BY <1>4 DEF SendCheckIn, CheckInTypeOK
  <2>3. IsOut(c, scan[c].ticket, scan[c].by)'
    BY <2>1, <2>2 DEF IsOut, ScanAt, ScanState
  <2>4. \A g \in Instance, t \in Ticket :
          pendingCheckIns'[g][t] # pendingCheckIns[g][t] =>
            g = scan[c].by /\ t = scan[c].ticket /\ pendingCheckIns'[g][t] = "Pending"
    BY <1>4, <2>1 DEF SendCheckIn, SetPending, CheckInTypeOK, ScanState
  <2> QED
    BY <1>0, <1>4, <2>1, <2>2, <2>3, <2>4, FoundedKept
    DEF SendCheckIn, Founded, PendingIsFounded, ScanAt, IsOut, ScanState
<1>5. ASSUME NEW c \in Scan, ReceiveCheckIn(c) PROVE Founded'
  <2>1. scan[c] \in ScanState /\ scan[c].at = "pushing"
    BY <1>5, ScanMoves DEF ReceiveCheckIn, ScanAt
  <2>2. \E at \in {"refused", "accepted"} :
          \A d \in Scan : scan'[d] = IF d = c THEN [scan[c] EXCEPT !.at = at] ELSE scan[d]
    BY <1>5 DEF ReceiveCheckIn, CheckInTypeOK
  <2>3. \A d \in Scan :
          /\ scan'[d].at \in {"refused", "accepted"} \/ scan'[d] = scan[d]
          /\ d # c => scan'[d] = scan[d]
          /\ d = c => scan'[d].ticket = scan[d].ticket /\ scan'[d].by = scan[d].by
    BY <2>1, <2>2 DEF ScanState
  <2>4. wasIn' = wasIn \cup {scan[c].ticket} /\ attended' = attended \cup {scan[c].ticket}
    BY <1>5 DEF ReceiveCheckIn
  <2>5. \A d \in Scan : ScanAt(d, {"accepted", "refused"})' => (scan[d].ticket \in wasIn)'
    BY <2>3, <2>4 DEF Founded, ScanAt
  <2>6. \A d \in Scan, t \in Ticket, g \in Instance : IsOut(d, t, g) => IsOut(d, t, g)'
    BY <2>1, <2>2, <2>3 DEF IsOut, ScanAt, ScanState
  <2>7. /\ pendingCheckIns' = pendingCheckIns /\ shown' = shown /\ load' = load
        /\ attended \subseteq wasIn /\ shown \subseteq wasIn
    BY <1>5 DEF ReceiveCheckIn, Founded, PendingIsFounded, CheckInTypeOK, Ticket
  <2>8. \A g \in Instance : load[g].seen \subseteq wasIn
    BY DEF Founded
  <2> QED
    BY <1>0, <2>4, <2>5, <2>6, <2>7, <2>8, FoundedKept
<1>6. ASSUME NEW c \in Scan, AnswerSuccess(c) PROVE Founded'
  <2>1. scan[c] \in ScanState /\ scan[c].at = "accepted"
    BY <1>6, ScanMoves DEF AnswerSuccess, ScanAt
  <2>2. \A d \in Scan : scan'[d] = IF d = c THEN NoScan ELSE scan[d]
    BY <1>6 DEF AnswerSuccess, CheckInTypeOK
  <2>3. scan[c].ticket \in wasIn
    BY <2>1 DEF Founded, ScanAt
  <2>4. \A g \in Instance, t \in Ticket :
          /\ g = scan[c].by /\ t = scan[c].ticket => pendingCheckIns'[g][t] = "Success"
          /\ pendingCheckIns'[g][t] # pendingCheckIns[g][t] =>
               t = scan[c].ticket /\ pendingCheckIns'[g][t] = "Success"
    BY <1>6, <2>1 DEF AnswerSuccess, SetPending, CheckInTypeOK, ScanState
  <2>5. \A g \in Instance : load'[g].seen = load[g].seen
    BY <1>6, <2>1 DEF AnswerSuccess, CheckInTypeOK, ScanState, LoadState
  <2> QED
    BY <1>0, <1>6, <2>1, <2>2, <2>3, <2>4, <2>5, FoundedKept
    DEF AnswerSuccess, Founded, PendingIsFounded, ScanAt, IsOut, NoScan
<1>7. ASSUME NEW c \in Scan, AnswerFailure(c) PROVE Founded'
  <2>1. scan[c] \in ScanState
    BY <1>7, ScanMoves DEF AnswerFailure, ScanAt
  <2>2. \A d \in Scan : scan'[d] = IF d = c THEN NoScan ELSE scan[d]
    BY <1>7 DEF AnswerFailure, CheckInTypeOK
  <2>3. \A g \in Instance, t \in Ticket :
          /\ g = scan[c].by /\ t = scan[c].ticket => pendingCheckIns'[g][t] = "none"
          /\ pendingCheckIns'[g][t] # pendingCheckIns[g][t] =>
               pendingCheckIns'[g][t] = "none"
    BY <1>7, <2>1 DEF AnswerFailure, SetPending, CheckInTypeOK, ScanState
  <2> QED
    BY <1>0, <1>7, <2>1, <2>2, <2>3, FoundedKept
    DEF AnswerFailure, Founded, PendingIsFounded, ScanAt, IsOut, NoScan
<1>8. ASSUME StartTicketLoad PROVE Founded'
  <2>1. \A g \in Instance : load'[g].seen = load[g].seen \/ load'[g].seen = {}
    BY <1>8 DEF StartTicketLoad, CheckInTypeOK
  <2> QED
    BY <1>0, <1>8, <2>1, FoundedKept
    DEF StartTicketLoad, Founded, PendingIsFounded, ScanAt, IsOut
<1>9. ASSUME NEW g \in Instance, FetchTickets(g) PROVE Founded'
  <2>1. \A h \in Instance : \/ load'[h].seen = load[h].seen \/ load'[h].seen = {}
                           \/ load'[h].seen = attended \cap RemoteTicket
    <3>1. load[g] \in LoadState
      BY DEF CheckInTypeOK
    <3> QED
      BY <1>9, <3>1 DEF FetchTickets, CheckInTypeOK, LoadState, NoLoad
  <2> QED
    BY <1>0, <1>9, <2>1, FoundedKept
    DEF FetchTickets, Founded, PendingIsFounded, ScanAt, IsOut
<1>10. ASSUME NEW g \in Instance, SaveTickets(g) PROVE Founded'
  <2>1. \A h \in Instance : load'[h].seen = load[h].seen \/ load'[h].seen = {}
    BY <1>10 DEF SaveTickets, CheckInTypeOK, NoLoad
  <2>2. \A h \in Instance, t \in Ticket :
          pendingCheckIns'[h][t] # pendingCheckIns[h][t] => pendingCheckIns'[h][t] = "none"
    BY <1>10 DEF SaveTickets, CheckInTypeOK
  <2> QED
    BY <1>0, <1>10, <2>1, <2>2, FoundedKept
    DEF SaveTickets, Founded, PendingIsFounded, ScanAt, IsOut
<1>11. ASSUME NEW g \in Instance, TicketLoadFails(g) PROVE Founded'
  <2>1. \A h \in Instance : load'[h].seen = load[h].seen \/ load'[h].seen = {}
    BY <1>11 DEF TicketLoadFails, CheckInTypeOK, NoLoad
  <2> QED
    BY <1>0, <1>11, <2>1, FoundedKept
    DEF TicketLoadFails, Founded, PendingIsFounded, ScanAt, IsOut
<1>12. ASSUME NEW t \in Ticket, CheckInElsewhere(t) \/ CheckOutElsewhere(t) PROVE Founded'
  BY <1>0, <1>12, FoundedKept
  DEF CheckInElsewhere, CheckOutElsewhere, Founded, PendingIsFounded, ScanAt, IsOut
<1>13. ASSUME StopInstance \/ ReplaceInstance PROVE Founded'
  BY <1>0, <1>13, FoundedKept
  DEF StopInstance, ReplaceInstance, Founded, PendingIsFounded, ScanAt, IsOut
<1>14. ASSUME UNCHANGED checkInVars PROVE Founded'
  BY <1>14 DEF checkInVars, Founded, PendingIsFounded, ScanAt
<1> QED
  BY <1>1, <1>2, <1>3, <1>4, <1>5, <1>6, <1>7, <1>8, <1>9, <1>10, <1>11, <1>12, <1>13,
     <1>14
  DEF CheckInNext

(* PendingIsFounded: an entry of the map, and a consumed atom, always has a *)
(* scan that is out or a check-in behind it, for any number of scans,       *)
(* replacements and faults.                                                 *)
THEOREM EntriesAreFounded == CheckInSpec => []PendingIsFounded
<1>1. CheckInInit => Founded
  BY DEF CheckInInit, Founded, PendingIsFounded, ScanAt, NoScan, NoLoad
<1>2. Founded => PendingIsFounded
  BY DEF Founded
<1> QED
  BY <1>1, <1>2, CheckInInitType, CheckInStepType, StepFounded, PTL DEF CheckInSpec

-----------------------------------------------------------------------------
(***************************************************************************)
(* Loads.                                                                  *)
(***************************************************************************)

\* The inductive form of LoadKeepsNews: a ticket that was checked in is so still
\* unless it was checked out, and a load that has fetched saw those whose entry it
\* will remove.
LoadSees ==
    /\ wasIn \subseteq attended \cup checkedOut
    /\ \A g \in Instance : \A t \in RemoteTicket :
          load[g].at = "saving" /\ t \in load[g].before
            /\ pendingCheckIns[g][t] = "Success" => t \in load[g].seen \cup checkedOut

\* Every step keeps LoadSees.
LEMMA StepSees ==
  CheckInTypeOK /\ Founded /\ LoadSees /\ [CheckInNext]_checkInVars => LoadSees'
<1> SUFFICES ASSUME CheckInTypeOK, Founded, LoadSees, [CheckInNext]_checkInVars
             PROVE  LoadSees'
  OBVIOUS
<1>1. ASSUME NEW c \in Scan,
             AnswerAlready(c) \/ GoAhead(c) \/ \E t \in Ticket : BeginScan(c, t)
      PROVE  LoadSees'
  BY <1>1 DEF BeginScan, AnswerAlready, GoAhead, LoadSees
<1>2. ASSUME NEW c \in Scan, SendCheckIn(c) \/ AnswerFailure(c) PROVE LoadSees'
  <2>1. scan[c] \in ScanState
    BY <1>2, ScanMoves DEF SendCheckIn, AnswerFailure, ScanAt
  <2>2. \A g \in Instance, t \in Ticket :
          pendingCheckIns'[g][t] = "Success" => pendingCheckIns[g][t] = "Success"
    BY <1>2, <2>1 DEF SendCheckIn, AnswerFailure, SetPending, CheckInTypeOK, ScanState
  <2> QED
    BY <1>2, <2>2 DEF SendCheckIn, AnswerFailure, LoadSees, Ticket
<1>3. ASSUME NEW c \in Scan, ReceiveCheckIn(c) PROVE LoadSees'
  BY <1>3 DEF ReceiveCheckIn, LoadSees
<1>4. ASSUME NEW c \in Scan, AnswerSuccess(c) PROVE LoadSees'
  <2>1. scan[c] \in ScanState
    BY <1>4, ScanMoves DEF AnswerSuccess, ScanAt
  <2>2. \A g \in Instance, t \in Ticket :
          pendingCheckIns'[g][t] = "Success" =>
            \/ pendingCheckIns[g][t] = "Success"
            \/ g = scan[c].by /\ t = scan[c].ticket
    BY <1>4, <2>1 DEF AnswerSuccess, SetPending, CheckInTypeOK, ScanState
  <2>3. \A g \in Instance :
          /\ load'[g].at = load[g].at /\ load'[g].seen = load[g].seen
          /\ load'[g].before \subseteq load[g].before
          /\ g = scan[c].by => scan[c].ticket \notin load'[g].before
    BY <1>4, <2>1 DEF AnswerSuccess, CheckInTypeOK, ScanState, LoadState
  <2> QED
    BY <1>4, <2>2, <2>3 DEF AnswerSuccess, LoadSees, Ticket
<1>5. ASSUME StartTicketLoad PROVE LoadSees'
  <2>1. \A g \in Instance : load'[g] = load[g] \/ load'[g].at = "fetching"
    BY <1>5 DEF StartTicketLoad, CheckInTypeOK
  <2> QED
    BY <1>5, <2>1 DEF StartTicketLoad, LoadSees
<1>6. ASSUME NEW g \in Instance, FetchTickets(g) PROVE LoadSees'
  <2>1. \A h \in Instance : \/ load'[h] = load[h] \/ load'[h].at = "idle"
                           \/ load'[h].seen = attended \cap RemoteTicket
    <3>1. load[g] \in LoadState
      BY DEF CheckInTypeOK
    <3> QED
      BY <1>6, <3>1 DEF FetchTickets, CheckInTypeOK, LoadState, NoLoad
  <2>2. \A h \in Instance, t \in Ticket :
          pendingCheckIns[h][t] = "Success" => t \in attended \cup checkedOut
    BY DEF Founded, PendingIsFounded, LoadSees
  <2> QED
    BY <1>6, <2>1, <2>2 DEF FetchTickets, LoadSees, Ticket
<1>7. ASSUME NEW g \in Instance, SaveTickets(g) PROVE LoadSees'
  <2>1. \A h \in Instance : load'[h] = load[h] \/ load'[h].at = "idle"
    BY <1>7 DEF SaveTickets, CheckInTypeOK, NoLoad
  <2>2. \A h \in Instance, t \in Ticket :
          pendingCheckIns'[h][t] = "Success" => pendingCheckIns[h][t] = "Success"
    BY <1>7 DEF SaveTickets, CheckInTypeOK
  <2> QED
    BY <1>7, <2>1, <2>2 DEF SaveTickets, LoadSees, Ticket
<1>8. ASSUME NEW g \in Instance, TicketLoadFails(g) PROVE LoadSees'
  <2>1. \A h \in Instance : load'[h] = load[h] \/ load'[h].at = "idle"
    BY <1>8 DEF TicketLoadFails, CheckInTypeOK, NoLoad
  <2> QED
    BY <1>8, <2>1 DEF TicketLoadFails, LoadSees
<1>9. ASSUME NEW t \in Ticket, CheckInElsewhere(t) \/ CheckOutElsewhere(t) PROVE LoadSees'
  BY <1>9 DEF CheckInElsewhere, CheckOutElsewhere, LoadSees
<1>10. ASSUME StopInstance \/ ReplaceInstance \/ UNCHANGED checkInVars PROVE LoadSees'
  BY <1>10 DEF StopInstance, ReplaceInstance, checkInVars, LoadSees
<1> QED
  BY <1>1, <1>2, <1>3, <1>4, <1>5, <1>6, <1>7, <1>8, <1>9, <1>10 DEF CheckInNext

\* Only two steps end a load that was about to save.
LEMMA SavingEnds ==
  ASSUME CheckInTypeOK, CheckInNext, NEW g \in Instance,
         load[g].at = "saving", load'[g].at = "idle"
  PROVE  SaveTickets(g) \/ TicketLoadFails(g)
<1>1. ASSUME NEW c \in Scan, AnswerSuccess(c) PROVE FALSE
  <2>1. scan[c] \in ScanState
    BY <1>1, ScanMoves DEF AnswerSuccess, ScanAt
  <2>2. load'[g].at = load[g].at
    BY <1>1, <2>1 DEF AnswerSuccess, CheckInTypeOK, ScanState, LoadState
  <2> QED
    BY <2>2
<1>2. ASSUME StartTicketLoad PROVE FALSE
  BY <1>2 DEF StartTicketLoad, CheckInTypeOK
<1>3. ASSUME NEW h \in Instance, FetchTickets(h) \/ SaveTickets(h) \/ TicketLoadFails(h)
      PROVE  SaveTickets(g) \/ TicketLoadFails(g)
  <2>1. \A k \in Instance : k # h => load'[k] = load[k]
    BY <1>3 DEF FetchTickets, SaveTickets, TicketLoadFails, CheckInTypeOK
  <2>2. h = g
    BY <2>1
  <2> QED
    BY <1>3, <2>2 DEF FetchTickets
<1> QED
  BY <1>1, <1>2, <1>3
  DEF CheckInNext, BeginScan, AnswerAlready, GoAhead, SendCheckIn, ReceiveCheckIn,
      AnswerFailure, CheckInElsewhere, CheckOutElsewhere, StopInstance, ReplaceInstance

(* LoadKeepsNews: no load takes an entry away whose check-in the atoms it   *)
(* saved do not show, for any number of scans, loads and replacements.      *)
THEOREM NewsAreKept == CheckInSpec => LoadKeepsNews
<1> DEFINE Inv == CheckInTypeOK /\ Founded /\ LoadSees
<1>1. CheckInInit => Inv
  BY CheckInInitType
  DEF CheckInInit, Founded, PendingIsFounded, LoadSees, ScanAt, NoScan, NoLoad
<1>2. Inv /\ [CheckInNext]_checkInVars => Inv'
  BY CheckInStepType, StepFounded, StepSees
<1>3. ASSUME Inv, CheckInNext, NEW g \in Instance, NEW t \in RemoteTicket,
             load[g].at = "saving", load'[g].at = "idle",
             pendingCheckIns'[g][t] # pendingCheckIns[g][t]
      PROVE  t \in shown' \/ t \in checkedOut
  <2>1. SaveTickets(g)
    BY <1>3, SavingEnds DEF TicketLoadFails
  <2>2. pendingCheckIns[g][t] = "Success" /\ t \in load[g].before
    BY <1>3, <2>1 DEF SaveTickets, CheckInTypeOK, Ticket
  <2> QED
    BY <1>3, <2>1, <2>2 DEF SaveTickets, LoadSees
<1>4. Inv /\ [CheckInNext]_checkInVars =>
        [ \A g \in Instance : \A t \in RemoteTicket :
            load[g].at = "saving" /\ load'[g].at = "idle"
              => \/ pendingCheckIns'[g][t] = pendingCheckIns[g][t]
                 \/ t \in shown' \/ t \in checkedOut ]_checkInVars
  BY <1>3
<1> HIDE DEF Inv
<1> QED
  BY <1>1, <1>2, <1>4, PTL DEF CheckInSpec, LoadKeepsNews

-----------------------------------------------------------------------------
(***************************************************************************)
(* The executor. What a pass that nothing disturbs has repaired depends on *)
(* the place it has reached (CalmPass): when it has refreshed the          *)
(* definitions it holds the current one, when it starts a slot that is of  *)
(* the current one, and when it waits again the slot runs.                 *)
(***************************************************************************)

\* Every load that goes on is of a slot.
TasksHaveSlots == \A l \in LoadTask : task[l].at # "idle" => task[l].slot \in SlotObject

\* The loop restarts the pipeline in one place of its pass only.
LoopRestarts == restart["loop"].at # "idle" <=> pass.at = "restarting"

SlotRuns == definition # 0 => ~ slotObject[FirstSlot].stopped

\* What a pass that nothing disturbs has already repaired, place by place.
CalmPass ==
    calm =>
       /\ \A e \in PipelineEditor : EditorRests(e)
       /\ pass.at \in {"waiting", "loading"} => SlotIsCurrent /\ SlotRuns
       /\ pass.at \in {"refreshing", "starting"} =>
             pass.version = definition /\ (pass.slot = NoSlot <=> definition = 0)
       /\ pass.at = "starting" /\ definition # 0 =>
             slotObject[pass.slot].definition = definition
       /\ pass.at = "restarting" =>
             /\ definition # 0 /\ Len(slots) = 1
             /\ restart["loop"].slot = slots[1] /\ restart["loop"].version = definition

ExecutorTypes == PipelineTypeOK /\ TasksHaveSlots
ExecutorInv == ExecutorTypes /\ LoopRestarts /\ CalmPass

-----------------------------------------------------------------------------
\* The constants, and the contents of things that are at rest.
LEMMA ExecutorConstants ==
  /\ Len(PipelineOptions) \in Nat /\ StoredVersion \in Versions \ {0}
  /\ 0 \in Versions /\ NoSlot \notin SlotObject
  /\ "loop" \in Restarter /\ "loop" \notin PipelineEditor /\ PipelineEditor \subseteq Restarter
  /\ EmptySlot \in SlotContents /\ NoEdit \in Edit /\ NoRestart \in Restart
  /\ NoTask \in Task /\ Waiting \in Pass
  /\ MaxDisturbances \in Nat /\ MaxRefreshFaults \in Nat
<1>1. Len(PipelineOptions) \in Nat /\ StoredVersion \in Versions \ {0} /\ 0 \in Versions
  BY PipelineAssumption DEF Versions
<1> QED
  BY <1>1, PipelineAssumption
  DEF Restarter, EmptySlot, SlotContents, NoEdit, Edit, NoRestart, Restart, NoTask, Task,
      Waiting, Pass, NoSlot

\* The loop goes to another place.
LEMMA PassMoves ==
  ASSUME NEW at \in {"waiting", "loading", "refreshing", "starting", "restarting", "dead"}
  PROVE  [Waiting EXCEPT !.at = at] \in Pass /\ [Waiting EXCEPT !.at = at].at = at
<1>1. \A p \in Pass : [p EXCEPT !.at = at] \in Pass /\ [p EXCEPT !.at = at].at = at
  BY DEF Pass
<1> QED
  BY <1>1, ExecutorConstants

\* The instances of some slots are stopped, and nothing else of them changes.
LEMMA StoppedSlots ==
  ASSUME NEW objects \in [SlotObject -> SlotContents], NEW which
  PROVE  /\ Stopped(objects, which) \in [SlotObject -> SlotContents]
         /\ \A s \in SlotObject : /\ Stopped(objects, which)[s].definition = objects[s].definition
                                  /\ Stopped(objects, which)[s].made = objects[s].made
<1>1. \A s \in SlotObject :
        /\ [objects[s] EXCEPT !.stopped = TRUE] \in SlotContents
        /\ [objects[s] EXCEPT !.stopped = TRUE].definition = objects[s].definition
        /\ [objects[s] EXCEPT !.stopped = TRUE].made = objects[s].made
  BY DEF SlotContents
<1> QED
  BY <1>1 DEF Stopped

\* A load whose flags change goes on with its slot.
LEMMA TaskFlags ==
  ASSUME ExecutorTypes, NEW which
  PROVE  /\ Aborted(which) \in [LoadTask -> Task]
         /\ Released(which) \in [LoadTask -> Task]
         /\ \A l \in LoadTask :
              /\ Aborted(which)[l].at = task[l].at /\ Aborted(which)[l].slot = task[l].slot
              /\ Released(which)[l].at = task[l].at /\ Released(which)[l].slot = task[l].slot
<1>1. \A l \in LoadTask :
        /\ task[l] \in Task
        /\ [task[l] EXCEPT !.aborted = TRUE] \in Task
        /\ [task[l] EXCEPT !.aborted = TRUE].at = task[l].at
        /\ [task[l] EXCEPT !.aborted = TRUE].slot = task[l].slot
        /\ [task[l] EXCEPT !.held = FALSE] \in Task
        /\ [task[l] EXCEPT !.held = FALSE].at = task[l].at
        /\ [task[l] EXCEPT !.held = FALSE].slot = task[l].slot
  <2>1. SUFFICES ASSUME NEW l \in LoadTask, NEW t, t = task[l]
        PROVE  /\ t \in Task
               /\ [t EXCEPT !.aborted = TRUE] \in Task
               /\ [t EXCEPT !.aborted = TRUE].at = t.at
               /\ [t EXCEPT !.aborted = TRUE].slot = t.slot
               /\ [t EXCEPT !.held = FALSE] \in Task
               /\ [t EXCEPT !.held = FALSE].at = t.at
               /\ [t EXCEPT !.held = FALSE].slot = t.slot
    OBVIOUS
  <2>2. t \in Task
    BY <2>1 DEF ExecutorTypes, PipelineTypeOK
  <2> QED
    BY <2>2 DEF Task
<1> QED
  BY <1>1 DEF Aborted, Released

\* The counters.
LEMMA Counted ==
  ASSUME PipelineTypeOK
  PROVE  /\ Disturbance => pipelineBudget' \in
              [edits : Versions, disturbances : 0 .. MaxDisturbances,
               refresh : 0 .. MaxRefreshFaults]
         /\ UseBudget("refresh", MaxRefreshFaults) => pipelineBudget' \in
              [edits : Versions, disturbances : 0 .. MaxDisturbances,
               refresh : 0 .. MaxRefreshFaults]
<1>1. /\ pipelineBudget \in [edits : Versions, disturbances : 0 .. MaxDisturbances,
                             refresh : 0 .. MaxRefreshFaults]
      /\ MaxDisturbances \in Nat /\ MaxRefreshFaults \in Nat
  BY ExecutorConstants DEF PipelineTypeOK
<1>2. /\ pipelineBudget.disturbances \in 0 .. MaxDisturbances
      /\ pipelineBudget.refresh \in 0 .. MaxRefreshFaults
  BY <1>1
<1>3. ASSUME Disturbance
      PROVE  pipelineBudget' \in [edits : Versions, disturbances : 0 .. MaxDisturbances,
                                  refresh : 0 .. MaxRefreshFaults]
  <2>1. pipelineBudget.disturbances + 1 \in 0 .. MaxDisturbances
    BY <1>1, <1>2, <1>3 DEF Disturbance, UseBudget
  <2>2. pipelineBudget' = [pipelineBudget EXCEPT !.disturbances = @ + 1]
    BY <1>3 DEF Disturbance, UseBudget
  <2> QED
    BY <1>1, <2>1, <2>2
<1>4. ASSUME UseBudget("refresh", MaxRefreshFaults)
      PROVE  pipelineBudget' \in [edits : Versions, disturbances : 0 .. MaxDisturbances,
                                  refresh : 0 .. MaxRefreshFaults]
  <2>1. pipelineBudget.refresh + 1 \in 0 .. MaxRefreshFaults
    BY <1>1, <1>2, <1>4 DEF UseBudget
  <2>2. pipelineBudget' = [pipelineBudget EXCEPT !.refresh = @ + 1]
    BY <1>4 DEF UseBudget
  <2> QED
    BY <1>1, <2>1, <2>2
<1> QED
  BY <1>3, <1>4

\* The first slot, and a new one.
LEMMA FirstAndNewSlot ==
  ASSUME PipelineTypeOK
  PROVE  /\ FirstSlot \in SlotObject \cup {NoSlot}
         /\ slots # <<>> => FirstSlot = slots[1] /\ slots[1] \in SlotObject
         /\ FreshSlots # {} => NewSlot \in SlotObject
         /\ ToSet(slots) \subseteq SlotObject
<1>1. slots \in Seq(SlotObject)
  BY DEF PipelineTypeOK
<1>2. slots # <<>> => slots[1] \in SlotObject
  BY <1>1
<1>3. ToSet(slots) \subseteq SlotObject
  BY <1>1 DEF ToSet
<1>4. FreshSlots # {} => NewSlot \in FreshSlots
  BY DEF NewSlot
<1>5. FreshSlots \subseteq SlotObject
  BY DEF FreshSlots
<1> QED
  BY <1>2, <1>3, <1>4, <1>5 DEF FirstSlot

\* The steps of a load, of a client or of the counters: the slots, the restarts
\* and the place of the loop stay.
LEMMA CalmStays ==
  ASSUME LoopRestarts, CalmPass, pass' = pass,
         UNCHANGED <<definition, edit, slots, slotObject, restart, calm>>
  PROVE  LoopRestarts' /\ CalmPass'
BY DEF LoopRestarts, CalmPass, EditorRests, SlotIsCurrent, SlotRuns, FirstSlot

-----------------------------------------------------------------------------
\* What a load writes about itself.
LEMMA TaskWrites ==
  ASSUME ExecutorTypes, NEW l \in LoadTask, NEW t, t \in Task,
         t.at # "idle" => t.slot \in SlotObject,
         task' = [task EXCEPT ![l] = t]
  PROVE  task' \in [LoadTask -> Task] /\ TasksHaveSlots'
BY DEF ExecutorTypes, PipelineTypeOK, TasksHaveSlots

\* The records it writes.
LEMMA TaskRecords ==
  ASSUME NEW t \in Task
  PROVE  /\ \A at \in {"idle", "begun", "fetching", "saving", "reporting"} :
              [t EXCEPT !.at = at] \in Task /\ [t EXCEPT !.at = at].slot = t.slot
         /\ [t EXCEPT !.orphan = TRUE] \in Task
         /\ [t EXCEPT !.orphan = TRUE].slot = t.slot
         /\ \A v \in Versions, b \in BOOLEAN :
              /\ [t EXCEPT !.at = "fetching", !.made = v, !.aborted = b, !.held = TRUE]
                   \in Task
              /\ [t EXCEPT !.at = "fetching", !.made = v, !.aborted = b, !.held = TRUE].slot
                   = t.slot
         /\ \A s \in SlotObject, v \in Versions, b \in BOOLEAN :
              /\ [t EXCEPT !.at = "begun", !.slot = s, !.cached = b, !.version = v] \in Task
              /\ [t EXCEPT !.at = "begun", !.slot = s, !.cached = b, !.version = v].slot = s
BY DEF Task

\* What a load that did not succeed leaves.
LEMMA BadLoad ==
  ASSUME ExecutorTypes, NEW l \in LoadTask, LoadIsBad(l)
  PROVE  atoms' \in Versions /\ summary' \in {"none", "success", "failure"}
<1>1. task[l] \in Task /\ atoms \in Versions /\ 0 \in Versions
  BY ExecutorConstants DEF ExecutorTypes, PipelineTypeOK
<1>2. task[l].version \in Versions
  BY <1>1 DEF Task
<1> QED
  BY <1>1, <1>2 DEF LoadIsBad

\* The steps of loads, and the budget.
LoadStep(l) == \/ RunInstance(l) \/ SkipPaused(l) \/ FetchAtoms(l) \/ SaveAtoms(l)
               \/ ReportLoad(l) \/ LoadFails(l) \/ LoadTimesOut(l)

\* The steps of a load keep the types, and its slot.
LEMMA LoadTypes ==
  ASSUME ExecutorTypes, NEW l \in LoadTask, LoadStep(l)
  PROVE  ExecutorTypes'
<1>1. /\ task[l] \in Task /\ atoms \in Versions /\ 0 \in Versions
      /\ slotObject \in [SlotObject -> SlotContents]
      /\ task \in [LoadTask -> Task]
      /\ task[l].at # "idle" => task[l].slot \in SlotObject
      /\ NoTask \in Task /\ NoTask.at = "idle"
      /\ cachedLoad \in [there : BOOLEAN, atoms : Versions]
      /\ summary \in {"none", "success", "failure"}
  BY ExecutorConstants DEF ExecutorTypes, PipelineTypeOK, TasksHaveSlots, NoTask
<1>2. /\ task[l].version \in Versions /\ task[l].made \in Versions
      /\ task[l].at \in {"idle", "begun", "fetching", "saving", "reporting"}
  BY <1>1 DEF Task
<1>3. definition' = definition /\ edit' = edit /\ slots' = slots /\ slotObject' = slotObject
      /\ restart' = restart /\ pass' = pass /\ calm' \in BOOLEAN
  BY DEF LoadStep, RunInstance, SkipPaused, FetchAtoms, SaveAtoms, ReportLoad, LoadFails,
         LoadTimesOut, ExecutorTypes, PipelineTypeOK
<1>4. SUFFICES /\ task' \in [LoadTask -> Task] /\ TasksHaveSlots'
               /\ atoms' \in Versions /\ summary' \in {"none", "success", "failure"}
               /\ cachedLoad' \in [there : BOOLEAN, atoms : Versions]
               /\ pipelineBudget' \in [edits : Versions, disturbances : 0 .. MaxDisturbances,
                                       refresh : 0 .. MaxRefreshFaults]
  BY <1>3 DEF ExecutorTypes, PipelineTypeOK
<1>5. pipelineBudget \in [edits : Versions, disturbances : 0 .. MaxDisturbances,
                          refresh : 0 .. MaxRefreshFaults]
  BY DEF ExecutorTypes, PipelineTypeOK
<1>6. CASE RunInstance(l)
  <2>1. cachedLoad' = cachedLoad /\ pipelineBudget' = pipelineBudget /\ task[l].at = "begun"
    BY <1>6 DEF RunInstance
  <2>2. CASE slotObject[task[l].slot].made = 0
    <3>1. LoadIsBad(l) /\ task' = [task EXCEPT ![l] = NoTask]
      BY <1>6, <2>2 DEF RunInstance
    <3> QED
      BY <1>1, <1>5, <2>1, <3>1, BadLoad, TaskWrites
  <2>3. CASE slotObject[task[l].slot].made # 0
    <3> DEFINE slot == slotObject[task[l].slot]
               t == [task[l] EXCEPT !.at = "fetching", !.made = slot.made,
                                    !.aborted = slot.stopped, !.held = TRUE]
    <3>1. slot \in SlotContents
      BY <1>1, <2>1
    <3>2. slot.made \in Versions /\ slot.stopped \in BOOLEAN
      BY <3>1 DEF SlotContents
    <3>3. /\ task' = [task EXCEPT ![l].at = "fetching", ![l].made = slot.made,
                                  ![l].aborted = slot.stopped, ![l].held = TRUE]
          /\ summary' = summary /\ atoms' = atoms
      BY <1>6, <2>3 DEF RunInstance
    <3> HIDE DEF slot
    <3>4. task' = [task EXCEPT ![l] = t]
      BY <1>1, <3>3
    <3>5. t \in Task /\ t.slot = task[l].slot
      <4>1. \A v \in Versions, b \in BOOLEAN :
              /\ [task[l] EXCEPT !.at = "fetching", !.made = v, !.aborted = b, !.held = TRUE]
                   \in Task
              /\ [task[l] EXCEPT !.at = "fetching", !.made = v, !.aborted = b, !.held = TRUE].slot
                   = task[l].slot
        BY <1>1, TaskRecords, Zenon
      <4> QED
        BY <3>2, <4>1, Zenon
    <3> HIDE DEF t
    <3>6. task' \in [LoadTask -> Task] /\ TasksHaveSlots'
      BY <1>1, <2>1, <3>4, <3>5, TaskWrites
    <3> QED
      BY <1>1, <1>5, <2>1, <3>3, <3>6
  <2> QED
    BY <2>2, <2>3
<1>7. CASE SkipPaused(l)
  <2>1. /\ task' = [task EXCEPT ![l] = NoTask] /\ pipelineBudget' = pipelineBudget
        /\ summary' = "success"
        /\ \/ atoms' = task[l].version /\ cachedLoad' = [there |-> TRUE, atoms |-> task[l].version]
           \/ atoms' = atoms /\ cachedLoad' = cachedLoad
    BY <1>7 DEF SkipPaused
  <2>2. task' \in [LoadTask -> Task] /\ TasksHaveSlots'
    BY <1>1, <2>1, TaskWrites
  <2>3. [there |-> TRUE, atoms |-> task[l].version] \in [there : BOOLEAN, atoms : Versions]
    BY <1>2
  <2> QED
    BY <1>1, <1>2, <1>5, <2>1, <2>2, <2>3
<1>8. CASE FetchAtoms(l)
  <2>1. /\ task' = [task EXCEPT ![l] = IF task[l].aborted THEN NoTask
                                       ELSE [task[l] EXCEPT !.at = "saving"]]
        /\ task[l].at = "fetching"
        /\ UNCHANGED <<atoms, summary, cachedLoad, pipelineBudget>>
    BY <1>1, <1>8 DEF FetchAtoms
  <2>2. [task[l] EXCEPT !.at = "saving"] \in Task
        /\ [task[l] EXCEPT !.at = "saving"].slot = task[l].slot
    BY <1>1, TaskRecords
  <2> DEFINE t == IF task[l].aborted THEN NoTask ELSE [task[l] EXCEPT !.at = "saving"]
  <2>3. t \in Task /\ (t.at # "idle" => t.slot \in SlotObject)
    BY <1>1, <2>1, <2>2
  <2> HIDE DEF t
  <2>4. task' = [task EXCEPT ![l] = t]
    BY <2>1 DEF t
  <2> QED
    BY <1>1, <1>5, <2>1, <2>3, <2>4, TaskWrites
<1>9. CASE SaveAtoms(l)
  <2>1. /\ task' = [task EXCEPT ![l] = IF task[l].orphan THEN NoTask
                                       ELSE [task[l] EXCEPT !.at = "reporting"]]
        /\ task[l].at = "saving" /\ atoms' = task[l].made
        /\ UNCHANGED <<summary, cachedLoad, pipelineBudget>>
    BY <1>1, <1>9 DEF SaveAtoms
  <2>2. [task[l] EXCEPT !.at = "reporting"] \in Task
        /\ [task[l] EXCEPT !.at = "reporting"].slot = task[l].slot
    BY <1>1, TaskRecords
  <2> DEFINE t == IF task[l].orphan THEN NoTask ELSE [task[l] EXCEPT !.at = "reporting"]
  <2>3. t \in Task /\ (t.at # "idle" => t.slot \in SlotObject)
    BY <1>1, <2>1, <2>2
  <2> HIDE DEF t
  <2>4. task' = [task EXCEPT ![l] = t]
    BY <2>1 DEF t
  <2> QED
    BY <1>1, <1>2, <1>5, <2>1, <2>3, <2>4, TaskWrites
<1>10. CASE ReportLoad(l)
  <2>1. /\ task' = [task EXCEPT ![l] = NoTask] /\ pipelineBudget' = pipelineBudget
        /\ summary' = "success" /\ atoms' = atoms
        /\ cachedLoad' = [there |-> TRUE, atoms |-> atoms]
    BY <1>10 DEF ReportLoad
  <2> QED
    BY <1>1, <1>5, <2>1, TaskWrites
<1>11. CASE LoadFails(l)
  <2>1. /\ task' = [task EXCEPT ![l] = NoTask] /\ Disturbance /\ cachedLoad' = cachedLoad
        /\ (atoms' = atoms /\ summary' = summary) \/ LoadIsBad(l)
    BY <1>11 DEF LoadFails
  <2> QED
    BY <1>1, <2>1, BadLoad, Counted, TaskWrites DEF ExecutorTypes
<1>12. CASE LoadTimesOut(l)
  <2> DEFINE t == [task[l] EXCEPT !.orphan = TRUE]
  <2>1. /\ task' = [task EXCEPT ![l].orphan = TRUE] /\ Disturbance /\ cachedLoad' = cachedLoad
        /\ LoadIsBad(l) /\ task[l].at # "idle"
    BY <1>12 DEF LoadTimesOut
  <2>2. t \in Task /\ t.slot = task[l].slot /\ task' = [task EXCEPT ![l] = t]
    BY <1>1, <2>1, TaskRecords
  <2> HIDE DEF t
  <2> QED
    BY <1>1, <2>1, <2>2, BadLoad, Counted, TaskWrites DEF ExecutorTypes
<1> QED
  BY <1>6, <1>7, <1>8, <1>9, <1>10, <1>11, <1>12 DEF LoadStep

\* A load writes the atoms, the summary and the cache, and none of what the loop
\* repairs.
LEMMA LoadStepKeeps ==
  ASSUME ExecutorInv, NEW l \in LoadTask, LoadStep(l)
  PROVE  ExecutorInv'
<1>1. /\ pass' = pass /\ UNCHANGED <<definition, edit, slots, slotObject, restart, calm>>
  BY DEF LoadStep, RunInstance, SkipPaused, FetchAtoms, SaveAtoms, ReportLoad, LoadFails,
         LoadTimesOut
<1> QED
  BY <1>1, LoadTypes, CalmStays DEF ExecutorInv

-----------------------------------------------------------------------------
\* A request of an editor that was not yet answered shows that it is not calm.
LEMMA NotCalm ==
  ASSUME CalmPass, NEW e \in PipelineEditor, ~ EditorRests(e)
  PROVE  ~ calm
BY DEF CalmPass

\* What restartPipeline notes about itself.
LEMMA RestartWrites ==
  ASSUME PipelineTypeOK, NEW r \in Restarter
  PROVE  /\ restart[r] \in Restart
         /\ [restart EXCEPT ![r] = NoRestart] \in [Restarter -> Restart]
         /\ \A s \in SlotObject \cup {NoSlot}, v \in Versions :
              [restart EXCEPT ![r] = [at |-> "owner", slot |-> s, version |-> v]]
                \in [Restarter -> Restart]
<1>1. restart \in [Restarter -> Restart] /\ restart[r] \in Restart /\ NoRestart \in Restart
  BY ExecutorConstants DEF PipelineTypeOK
<1>2. \A s \in SlotObject \cup {NoSlot}, v \in Versions :
        [at |-> "owner", slot |-> s, version |-> v] \in Restart
  BY DEF Restart
<1> QED
  BY <1>1, <1>2

\* What a request of an editor notes about itself.
LEMMA EditWrites ==
  ASSUME PipelineTypeOK, NEW e \in PipelineEditor
  PROVE  /\ edit[e] \in Edit /\ edit[e].own \in Versions
         /\ edit[e].found \in SlotObject \cup {NoSlot}
         /\ [edit EXCEPT ![e] = NoEdit] \in [PipelineEditor -> Edit]
         /\ [edit EXCEPT ![e].at = "saved"] \in [PipelineEditor -> Edit]
<1>1. edit \in [PipelineEditor -> Edit] /\ edit[e] \in Edit /\ NoEdit \in Edit
  BY ExecutorConstants DEF PipelineTypeOK
<1>2. /\ edit[e].own \in Versions /\ edit[e].found \in SlotObject \cup {NoSlot}
      /\ [edit[e] EXCEPT !.at = "saved"] \in Edit
  BY <1>1 DEF Edit
<1> QED
  BY <1>1, <1>2

\* A request that has read the definition changes no restart of the loop.
LEMMA ReadTypes ==
  ASSUME PipelineTypeOK, NEW e \in PipelineEditor, NEW v \in Versions, ReadToRestart(e, v)
  PROVE  /\ slots' \in Seq(SlotObject) /\ restart' \in [Restarter -> Restart]
         /\ restart'["loop"] = restart["loop"]
<1>1. /\ e \in Restarter /\ e # "loop" /\ "loop" \in Restarter
      /\ slots \in Seq(SlotObject) /\ restart \in [Restarter -> Restart]
  BY ExecutorConstants DEF PipelineTypeOK
<1>2. CASE v = 0
  <2>1. slots' = <<>> /\ restart' = restart
    BY <1>2 DEF ReadToRestart
  <2> QED
    BY <1>1, <2>1
<1>3. CASE v # 0
  <2>1. /\ slots' = slots
        /\ restart' = [restart EXCEPT ![e] = [at |-> "owner", slot |-> FirstSlot,
                                               version |-> v]]
    BY <1>3 DEF ReadToRestart
  <2>2. FirstSlot \in SlotObject \cup {NoSlot}
    BY FirstAndNewSlot
  <2>3. restart' \in [Restarter -> Restart]
    BY <1>1, <2>1, <2>2, RestartWrites
  <2>4. restart'["loop"] = restart["loop"]
    BY <1>1, <2>1
  <2> QED
    BY <1>1, <2>1, <2>3, <2>4
<1> QED
  BY <1>2, <1>3

\* What saving a version does to the slot, its load and its atoms.
LEMMA TidyTypes ==
  ASSUME ExecutorTypes, NEW found, NEW v, TidyUp(found, v)
  PROVE  /\ slotObject' \in [SlotObject -> SlotContents]
         /\ task' \in [LoadTask -> Task] /\ TasksHaveSlots'
         /\ atoms' \in Versions /\ summary' \in {"none", "success", "failure"}
<1>1. /\ slotObject \in [SlotObject -> SlotContents] /\ task \in [LoadTask -> Task]
      /\ atoms \in Versions /\ summary \in {"none", "success", "failure"}
      /\ 0 \in Versions /\ cachedLoad \in [there : BOOLEAN, atoms : Versions]
  BY ExecutorConstants DEF ExecutorTypes, PipelineTypeOK
<1>2. cachedLoad.atoms \in Versions
  BY <1>1
<1>3. /\ atoms' \in {atoms, 0, cachedLoad.atoms}
      /\ summary' \in {summary, "none", "success"}
      /\ slotObject' \in {slotObject, Stopped(slotObject, {found})}
      /\ task' \in {task, Aborted({found})}
  BY DEF TidyUp
<1>4. slotObject' \in [SlotObject -> SlotContents]
  BY <1>1, <1>3, StoppedSlots
<1>5. task' \in [LoadTask -> Task] /\ TasksHaveSlots'
  BY <1>1, <1>3, TaskFlags DEF ExecutorTypes, TasksHaveSlots
<1> QED
  BY <1>1, <1>2, <1>3, <1>4, <1>5

\* An editor checks, saves, commits or rolls back.
LEMMA EditorKeeps ==
  ASSUME ExecutorInv, NEW e \in PipelineEditor,
         CheckEdit(e) \/ SaveEdit(e) \/ DeletePipeline(e) \/ CommitEdit(e)
           \/ RollBackEdit(e) \/ ClearCache(e)
  PROVE  ExecutorInv'
<1>1. /\ PipelineTypeOK /\ ExecutorTypes /\ TasksHaveSlots /\ LoopRestarts
      /\ e \in Restarter /\ e # "loop"
  BY ExecutorConstants DEF ExecutorInv, ExecutorTypes
<1>2. /\ 0 \in Versions /\ definition \in Versions
      /\ pipelineBudget \in [edits : Versions, disturbances : 0 .. MaxDisturbances,
                             refresh : 0 .. MaxRefreshFaults]
      /\ NoCachedLoad \in [there : BOOLEAN, atoms : Versions]
  BY <1>1, ExecutorConstants DEF PipelineTypeOK, NoCachedLoad
<1>3. ASSUME ~ calm', pass' = pass, restart'["loop"] = restart["loop"]
      PROVE  LoopRestarts' /\ CalmPass'
  BY <1>1, <1>3 DEF LoopRestarts, CalmPass
<1>4. CASE CheckEdit(e)
  <2>1. /\ UNCHANGED <<definition, slots, slotObject, restart, pass, task, atoms, summary,
                       cachedLoad>>
        /\ calm' = FALSE
    BY <1>4 DEF CheckEdit
  <2>2. /\ pipelineBudget.edits + 1 \in Versions
        /\ pipelineBudget.edits \in Nat
    BY <1>2, <1>4, ExecutorConstants DEF CheckEdit, Versions
  <2>3. edit' \in [PipelineEditor -> Edit]
    <3> DEFINE found == IF definition = 0 THEN NoSlot ELSE FirstSlot
               one == [at |-> "checked", own |-> pipelineBudget.edits + 1, found |-> found]
    <3>1. edit' = [edit EXCEPT ![e] = one]
      BY <1>4 DEF CheckEdit
    <3>2. found \in SlotObject \cup {NoSlot}
      BY <1>1, FirstAndNewSlot
    <3> HIDE DEF found
    <3>3. one \in Edit
      BY <2>2, <3>2 DEF Edit
    <3> HIDE DEF one
    <3> QED
      BY <1>1, <3>1, <3>3 DEF PipelineTypeOK
  <2>4. pipelineBudget' \in [edits : Versions, disturbances : 0 .. MaxDisturbances,
                             refresh : 0 .. MaxRefreshFaults]
    <3> DEFINE overlaps == IF \E x \in PipelineEditor : ~ EditorRests(x) THEN 1 ELSE 0
    <3>1. overlaps \in {0, 1}
      OBVIOUS
    <3>2. /\ pipelineBudget.disturbances + overlaps <= MaxDisturbances
          /\ pipelineBudget' = [pipelineBudget EXCEPT !.edits = @ + 1,
                                                      !.disturbances = @ + overlaps]
      BY <1>4 DEF CheckEdit
    <3> HIDE DEF overlaps
    <3>3. pipelineBudget.disturbances \in 0 .. MaxDisturbances /\ MaxDisturbances \in Nat
      BY <1>2, ExecutorConstants
    <3>4. pipelineBudget.disturbances + overlaps \in 0 .. MaxDisturbances
      BY <3>1, <3>2, <3>3
    <3> QED
      BY <1>2, <2>2, <3>2, <3>4
  <2>5. ExecutorTypes'
    BY <1>1, <2>1, <2>3, <2>4 DEF ExecutorTypes, PipelineTypeOK, TasksHaveSlots
  <2> QED
    BY <1>3, <2>1, <2>5 DEF ExecutorInv
<1>5. CASE SaveEdit(e)
  <2>1. /\ UNCHANGED <<definition, pass, cachedLoad, calm, pipelineBudget>>
        /\ edit' = [edit EXCEPT ![e].at = "saved"] /\ edit[e].at = "checked"
        /\ TidyUp(edit[e].found, edit[e].own) /\ ReadToRestart(e, edit[e].own)
    BY <1>5 DEF SaveEdit
  <2>2. edit[e].own \in Versions
    BY <1>1, EditWrites
  <2>3. /\ edit' \in [PipelineEditor -> Edit]
        /\ slots' \in Seq(SlotObject) /\ restart' \in [Restarter -> Restart]
        /\ restart'["loop"] = restart["loop"]
    BY <1>1, <2>1, <2>2, EditWrites, ReadTypes
  <2>4. /\ slotObject' \in [SlotObject -> SlotContents]
        /\ task' \in [LoadTask -> Task] /\ TasksHaveSlots'
        /\ atoms' \in Versions /\ summary' \in {"none", "success", "failure"}
    BY <1>1, <2>1, TidyTypes
  <2>5. ~ calm
    BY <2>1, NotCalm DEF EditorRests, ExecutorInv
  <2>6. ExecutorTypes'
    BY <1>1, <2>1, <2>3, <2>4 DEF ExecutorTypes, PipelineTypeOK
  <2> QED
    BY <1>3, <2>1, <2>3, <2>5, <2>6 DEF ExecutorInv
<1>6. CASE DeletePipeline(e)
  <2>1. /\ UNCHANGED <<definition, slotObject, pass, task>>
        /\ edit' = [edit EXCEPT ![e].at = "saved"] /\ Disturbance
        /\ summary' = "none" /\ atoms' = 0 /\ cachedLoad' = NoCachedLoad
        /\ ReadToRestart(e, 0) /\ calm' = FALSE
    BY <1>6 DEF DeletePipeline
  <2>2. /\ edit' \in [PipelineEditor -> Edit]
        /\ slots' \in Seq(SlotObject) /\ restart' \in [Restarter -> Restart]
        /\ restart'["loop"] = restart["loop"]
    BY <1>1, <1>2, <2>1, EditWrites, ReadTypes
  <2>3. ExecutorTypes'
    BY <1>1, <1>2, <2>1, <2>2, Counted DEF ExecutorTypes, PipelineTypeOK, TasksHaveSlots
  <2> QED
    BY <1>3, <2>1, <2>2, <2>3 DEF ExecutorInv
<1>7. CASE CommitEdit(e)
  <2>1. /\ UNCHANGED <<slots, slotObject, restart, pass, task, atoms, summary, cachedLoad,
                       calm, pipelineBudget>>
        /\ definition' = edit[e].own /\ edit[e].at = "saved"
        /\ edit' = [edit EXCEPT ![e] = NoEdit]
    BY <1>7 DEF CommitEdit
  <2>2. definition' \in Versions /\ edit' \in [PipelineEditor -> Edit]
    BY <1>1, <2>1, EditWrites
  <2>3. ~ calm
    BY <2>1, NotCalm DEF EditorRests, ExecutorInv
  <2>4. ExecutorTypes'
    BY <1>1, <2>1, <2>2 DEF ExecutorTypes, PipelineTypeOK, TasksHaveSlots
  <2> QED
    BY <1>3, <2>1, <2>3, <2>4 DEF ExecutorInv
<1>8. CASE RollBackEdit(e)
  <2>1. /\ UNCHANGED <<definition, slots, slotObject, restart, pass, task, atoms, summary,
                       cachedLoad, calm>>
        /\ edit[e].at # "idle" /\ Disturbance
        /\ edit' = [edit EXCEPT ![e] = NoEdit]
    BY <1>8 DEF RollBackEdit
  <2>2. edit' \in [PipelineEditor -> Edit]
    BY <1>1, <2>1, EditWrites
  <2>3. ~ calm
    BY <2>1, NotCalm DEF EditorRests, ExecutorInv
  <2>4. ExecutorTypes'
    BY <1>1, <2>1, <2>2, Counted DEF ExecutorTypes, PipelineTypeOK, TasksHaveSlots
  <2> QED
    BY <1>3, <2>1, <2>3, <2>4 DEF ExecutorInv
<1>9. CASE ClearCache(e)
  <2>1. /\ UNCHANGED <<definition, edit, slotObject, pass, task>>
        /\ Disturbance /\ cachedLoad' = NoCachedLoad /\ summary' = "none" /\ atoms' = 0
        /\ ReadToRestart(e, definition) /\ calm' = FALSE
    BY <1>9 DEF ClearCache
  <2>2. /\ slots' \in Seq(SlotObject) /\ restart' \in [Restarter -> Restart]
        /\ restart'["loop"] = restart["loop"]
    BY <1>1, <1>2, <2>1, ReadTypes
  <2>3. ExecutorTypes'
    BY <1>1, <1>2, <2>1, <2>2, Counted DEF ExecutorTypes, PipelineTypeOK, TasksHaveSlots
  <2> QED
    BY <1>3, <2>1, <2>2, <2>3 DEF ExecutorInv
<1> QED
  BY <1>4, <1>5, <1>6, <1>7, <1>8, <1>9

-----------------------------------------------------------------------------
\* While it is calm, only the loop restarts the pipeline.
LEMMA CalmRestart ==
  ASSUME ExecutorInv, NEW r \in Restarter, restart[r].at # "idle", calm
  PROVE  /\ r = "loop" /\ pass.at = "restarting" /\ definition # 0 /\ Len(slots) = 1
         /\ restart[r].slot = slots[1] /\ slots[1] \in SlotObject
         /\ restart[r].version = definition
<1>1. r = "loop"
  BY NotCalm DEF Restarter, EditorRests, ExecutorInv
<1>2. pass.at = "restarting"
  BY <1>1 DEF ExecutorInv, LoopRestarts
<1>3. slots \in Seq(SlotObject)
  BY DEF ExecutorInv, ExecutorTypes, PipelineTypeOK
<1>4. /\ definition # 0 /\ Len(slots) = 1
      /\ restart[r].slot = slots[1] /\ restart[r].version = definition
  BY <1>1, <1>2 DEF ExecutorInv, CalmPass
<1>5. slots[1] \in SlotObject
  BY <1>3, <1>4
<1> QED
  BY <1>1, <1>2, <1>4, <1>5

\* The instance is stopped; while it is calm, that is the loop's own slot.
LEMMA StopForRestartKeeps ==
  ASSUME ExecutorInv, NEW r \in Restarter, StopForRestart(r)
  PROVE  ExecutorInv'
<1>1. /\ PipelineTypeOK /\ ExecutorTypes /\ TasksHaveSlots /\ LoopRestarts /\ CalmPass
      /\ restart \in [Restarter -> Restart] /\ restart[r] \in Restart
      /\ slots \in Seq(SlotObject) /\ slotObject \in [SlotObject -> SlotContents]
  BY DEF ExecutorInv, ExecutorTypes, PipelineTypeOK
<1>2. /\ UNCHANGED <<definition, edit, pass, atoms, summary, cachedLoad, calm, pipelineBudget>>
      /\ restart[r].at = "owner"
  BY DEF StopForRestart
<1>3. /\ restart[r].version \in Versions
      /\ [restart[r] EXCEPT !.at = "starting"] \in Restart
      /\ \A s \in SlotObject : [restart[r] EXCEPT !.at = "starting", !.slot = s] \in Restart
  BY <1>1 DEF Restart
<1>4. CASE restart[r].slot = NoSlot
  <2>1. /\ FreshSlots # {} /\ slots' = Append(slots, NewSlot) /\ task' = task
        /\ slotObject' = [slotObject EXCEPT ![NewSlot] =
                            [EmptySlot EXCEPT !.definition = restart[r].version]]
        /\ restart' = [restart EXCEPT ![r].at = "starting", ![r].slot = NewSlot]
    BY <1>4 DEF StopForRestart
  <2>2. NewSlot \in SlotObject
    BY <1>1, <2>1, FirstAndNewSlot
  <2>3. [EmptySlot EXCEPT !.definition = restart[r].version] \in SlotContents
    BY <1>3, ExecutorConstants DEF EmptySlot, SlotContents
  <2>4. slotObject' \in [SlotObject -> SlotContents] /\ slots' \in Seq(SlotObject)
    BY <1>1, <2>1, <2>2, <2>3
  <2>5. restart' = [restart EXCEPT ![r] = [restart[r] EXCEPT !.at = "starting",
                                                             !.slot = NewSlot]]
    BY <1>1, <2>1
  <2>6. restart' \in [Restarter -> Restart]
    BY <1>1, <1>3, <2>2, <2>5
  <2>7. ExecutorTypes'
    BY <1>1, <1>2, <2>1, <2>4, <2>6 DEF ExecutorTypes, PipelineTypeOK, TasksHaveSlots
  <2>8. ~ calm
    <3>1. SUFFICES ASSUME calm PROVE FALSE
      OBVIOUS
    <3>2. restart[r].slot \in SlotObject
      BY <1>2, <3>1, CalmRestart
    <3> QED
      BY <1>4, <3>2, ExecutorConstants
  <2>9. LoopRestarts'
    <3>1. [restart[r] EXCEPT !.at = "starting", !.slot = NewSlot].at = "starting"
      BY <1>1 DEF Restart
    <3>2. restart'["loop"].at # "idle" <=> restart["loop"].at # "idle"
      BY <1>1, <1>2, <2>5, <3>1, ExecutorConstants
    <3> QED
      BY <1>1, <1>2, <3>2 DEF LoopRestarts
  <2> QED
    BY <1>2, <2>7, <2>8, <2>9 DEF ExecutorInv, CalmPass
<1>5. CASE restart[r].slot # NoSlot
  <2>1. /\ slots' = slots /\ slotObject' = Stopped(slotObject, {restart[r].slot})
        /\ task' = Aborted({restart[r].slot})
        /\ restart' = [restart EXCEPT ![r].at = "starting"]
    BY <1>5 DEF StopForRestart
  <2>2. restart' = [restart EXCEPT ![r] = [restart[r] EXCEPT !.at = "starting"]]
    BY <1>1, <2>1
  <2>3. restart' \in [Restarter -> Restart]
    BY <1>1, <1>3, <2>2
  <2>4. slotObject' \in [SlotObject -> SlotContents]
    BY <1>1, <2>1, StoppedSlots
  <2>5. task' \in [LoadTask -> Task] /\ TasksHaveSlots'
    BY <1>1, <2>1, TaskFlags DEF TasksHaveSlots
  <2>6. ExecutorTypes'
    BY <1>1, <1>2, <2>1, <2>3, <2>4, <2>5 DEF ExecutorTypes, PipelineTypeOK
  <2>7. /\ [restart[r] EXCEPT !.at = "starting"].at = "starting"
        /\ [restart[r] EXCEPT !.at = "starting"].slot = restart[r].slot
        /\ [restart[r] EXCEPT !.at = "starting"].version = restart[r].version
    BY <1>1 DEF Restart
  <2>8. LoopRestarts'
    <3>1. restart'["loop"].at # "idle" <=> restart["loop"].at # "idle"
      BY <1>1, <1>2, <2>2, <2>7, ExecutorConstants
    <3> QED
      BY <1>1, <1>2, <3>1 DEF LoopRestarts
  <2>9. CalmPass'
    <3>1. SUFFICES ASSUME calm PROVE CalmPass'
      BY <1>2 DEF CalmPass
    <3>2. /\ r = "loop" /\ pass.at = "restarting" /\ definition # 0 /\ Len(slots) = 1
          /\ restart[r].slot = slots[1] /\ restart[r].version = definition
      BY <1>2, <3>1, CalmRestart
    <3>3. restart'["loop"].slot = slots[1] /\ restart'["loop"].version = definition
      BY <1>1, <2>2, <2>7, <3>2
    <3>4. \A e \in PipelineEditor : edit[e].at = "idle" /\ restart[e].at = "idle"
      BY <1>1, <3>1 DEF CalmPass, EditorRests
    <3>5. \A e \in PipelineEditor : e \in Restarter /\ e # "loop"
      BY ExecutorConstants
    <3>6. \A e \in PipelineEditor : edit'[e].at = "idle" /\ restart'[e].at = "idle"
      BY <1>1, <1>2, <2>2, <3>2, <3>4, <3>5
    <3> QED
      BY <1>2, <2>1, <3>2, <3>3, <3>6 DEF CalmPass, EditorRests
  <2> QED
    BY <2>6, <2>8, <2>9 DEF ExecutorInv
<1> QED
  BY <1>4, <1>5

\* The new instance is there: the end of a calm pass repairs the slot.
LEMMA FinishRestartKeeps ==
  ASSUME ExecutorInv, NEW r \in Restarter, FinishRestart(r)
  PROVE  ExecutorInv'
<1> DEFINE s == restart[r].slot
           v == restart[r].version
           made == [definition |-> v, made |-> v, stopped |-> FALSE]
<1>1. /\ PipelineTypeOK /\ ExecutorTypes /\ TasksHaveSlots /\ LoopRestarts /\ CalmPass
      /\ restart \in [Restarter -> Restart] /\ restart[r] \in Restart
      /\ slots \in Seq(SlotObject) /\ slotObject \in [SlotObject -> SlotContents]
      /\ pass \in Pass
  BY DEF ExecutorInv, ExecutorTypes, PipelineTypeOK
<1>2. /\ UNCHANGED <<definition, edit, slots, atoms, summary, cachedLoad, calm, pipelineBudget>>
      /\ restart[r].at = "starting"
      /\ slotObject' = [slotObject EXCEPT ![s] = made]
      /\ task' = Released(s)
      /\ restart' = [restart EXCEPT ![r] = NoRestart]
      /\ pass' = IF r = "loop" THEN Waiting ELSE pass
  BY DEF FinishRestart
<1>3. made \in SlotContents
  <2>1. v \in Versions
    BY <1>1 DEF Restart
  <2> QED
    BY <2>1 DEF SlotContents
<1>4. made.definition = v /\ made.made = v /\ made.stopped = FALSE
  OBVIOUS
<1> HIDE DEF made
<1>5. slotObject' \in [SlotObject -> SlotContents]
  BY <1>1, <1>2, <1>3
<1>6. task' \in [LoadTask -> Task] /\ TasksHaveSlots'
  BY <1>1, <1>2, TaskFlags DEF TasksHaveSlots
<1>7. restart' \in [Restarter -> Restart] /\ pass' \in Pass
  BY <1>1, <1>2, ExecutorConstants
<1>8. ExecutorTypes'
  BY <1>1, <1>2, <1>5, <1>6, <1>7 DEF ExecutorTypes, PipelineTypeOK
<1>9. NoRestart.at = "idle" /\ Waiting.at = "waiting"
  BY DEF NoRestart, Waiting
<1>10. LoopRestarts'
  BY <1>1, <1>2, <1>9, ExecutorConstants DEF LoopRestarts
<1>11. CalmPass'
  <2>1. SUFFICES ASSUME calm PROVE CalmPass'
    BY <1>2 DEF CalmPass
  <2>2. /\ r = "loop" /\ definition # 0 /\ Len(slots) = 1
        /\ s = slots[1] /\ slots[1] \in SlotObject /\ v = definition
    BY <1>2, <2>1, CalmRestart
  <2>3. slotObject'[slots[1]] = made
    BY <1>1, <1>2, <2>2
  <2>4. /\ slotObject'[slots[1]].definition = definition
        /\ slotObject'[slots[1]].made = definition /\ ~ slotObject'[slots[1]].stopped
    BY <1>4, <2>2, <2>3
  <2>5. slots # <<>> /\ slots' = slots /\ definition' = definition
    <3>1. slots' = slots /\ definition' = definition
      BY <1>2
    <3>2. Len(slots) = 1
      BY <2>2
    <3>3. slots # <<>>
      BY <3>2
    <3> QED
      BY <3>1, <3>3
  <2>6. FirstSlot' = slots[1]
    BY <2>5 DEF FirstSlot
  <2>10. SlotIsCurrent' /\ SlotRuns'
    BY <2>2, <2>4, <2>5, <2>6 DEF SlotIsCurrent, SlotRuns
  <2>7. pass'.at = "waiting"
    BY <1>2, <1>9, <2>2
  <2>8. \A e \in PipelineEditor : e \in Restarter /\ e # "loop"
    BY ExecutorConstants
  <2>9. \A e \in PipelineEditor : EditorRests(e)'
    BY <1>1, <1>2, <2>1, <2>2, <2>8 DEF CalmPass, EditorRests
  <2> QED
    BY <2>10, <2>7, <2>9 DEF CalmPass
<1> QED
  BY <1>8, <1>10, <1>11 DEF ExecutorInv

\* A restart that fails is a disturbance.
LEMMA RestartFailsKeeps ==
  ASSUME ExecutorInv, NEW r \in Restarter, RestartFails(r)
  PROVE  ExecutorInv'
<1>1. /\ PipelineTypeOK /\ ExecutorTypes /\ TasksHaveSlots /\ LoopRestarts
      /\ restart \in [Restarter -> Restart] /\ pass \in Pass
  BY DEF ExecutorInv, ExecutorTypes, PipelineTypeOK
<1>2. /\ UNCHANGED <<definition, edit, slots, slotObject, task, atoms, summary, cachedLoad>>
      /\ Disturbance /\ restart' = [restart EXCEPT ![r] = NoRestart]
      /\ pass' = IF r = "loop" THEN Waiting ELSE pass
      /\ calm' = FALSE
  BY DEF RestartFails
<1>3. restart' \in [Restarter -> Restart] /\ pass' \in Pass
  BY <1>1, <1>2, ExecutorConstants
<1>4. ExecutorTypes'
  BY <1>1, <1>2, <1>3, Counted DEF ExecutorTypes, PipelineTypeOK, TasksHaveSlots
<1>5. NoRestart.at = "idle" /\ Waiting.at = "waiting"
  BY DEF NoRestart, Waiting
<1>6. LoopRestarts'
  BY <1>1, <1>2, <1>5, ExecutorConstants DEF LoopRestarts
<1> QED
  BY <1>2, <1>4, <1>6 DEF ExecutorInv, CalmPass

-----------------------------------------------------------------------------
\* The loop loads every slot.
LEMMA BeginPassKeeps ==
  ASSUME ExecutorInv, BeginPass
  PROVE  ExecutorInv'
<1>1. /\ PipelineTypeOK /\ TasksHaveSlots /\ LoopRestarts /\ CalmPass /\ pass \in Pass
  BY DEF ExecutorInv, ExecutorTypes, PipelineTypeOK
<1>2. /\ UNCHANGED <<definition, edit, slots, slotObject, restart, task, atoms, summary,
                     cachedLoad, calm, pipelineBudget>>
      /\ pass.at = "waiting" /\ pass' = [pass EXCEPT !.at = "loading", !.todo = ToSet(slots)]
  BY DEF BeginPass
<1>3. pass' \in Pass /\ pass'.at = "loading"
  <2> DEFINE all == ToSet(slots)
  <2>1. all \in SUBSET SlotObject
    BY <1>1, FirstAndNewSlot
  <2> HIDE DEF all
  <2>2. [pass EXCEPT !.at = "loading", !.todo = all] \in Pass
        /\ [pass EXCEPT !.at = "loading", !.todo = all].at = "loading"
    BY <1>1, <2>1 DEF Pass
  <2> QED
    BY <1>2, <2>2 DEF all
<1>4. ExecutorTypes'
  BY <1>1, <1>2, <1>3 DEF ExecutorTypes, PipelineTypeOK, TasksHaveSlots
<1>5. LoopRestarts'
  BY <1>1, <1>2, <1>3 DEF LoopRestarts
<1>6. CalmPass'
  <2>1. (SlotIsCurrent /\ SlotRuns) => (SlotIsCurrent /\ SlotRuns)'
    BY <1>2 DEF SlotIsCurrent, SlotRuns, FirstSlot
  <2>2. \A e \in PipelineEditor : EditorRests(e) => EditorRests(e)'
    BY <1>2 DEF EditorRests
  <2> QED
    BY <1>1, <1>2, <1>3, <2>1, <2>2 DEF CalmPass
<1> QED
  BY <1>4, <1>5, <1>6 DEF ExecutorInv

\* A load starts with the cached one.
LEMMA StartLoadKeeps ==
  ASSUME ExecutorInv, NEW l \in LoadTask, NEW s \in SlotObject, StartLoad(l, s)
  PROVE  ExecutorInv'
<1> DEFINE cached == cachedLoad.there /\ "uncached" \notin Options(slotObject[s].definition)
           v == IF cached THEN cachedLoad.atoms ELSE 0
           t == [NoTask EXCEPT !.at = "begun", !.slot = s, !.cached = cached, !.version = v]
<1>1. /\ PipelineTypeOK /\ ExecutorTypes /\ TasksHaveSlots /\ LoopRestarts /\ CalmPass
      /\ pass \in Pass /\ cachedLoad \in [there : BOOLEAN, atoms : Versions]
      /\ atoms \in Versions /\ summary \in {"none", "success", "failure"} /\ 0 \in Versions
  BY ExecutorConstants DEF ExecutorInv, ExecutorTypes, PipelineTypeOK
<1>2. /\ UNCHANGED <<definition, edit, slots, slotObject, restart, cachedLoad, calm,
                     pipelineBudget>>
      /\ pass.at = "loading" /\ pass' = [pass EXCEPT !.todo = pass.todo \ {s}]
      /\ task' = [task EXCEPT ![l] = t]
      /\ atoms' \in {atoms, cachedLoad.atoms} /\ summary' \in {"success", summary}
  <2>1. /\ UNCHANGED <<definition, edit, slots, slotObject, restart, cachedLoad, calm,
                       pipelineBudget>>
        /\ pass.at = "loading" /\ task' = [task EXCEPT ![l] = t]
    BY DEF StartLoad
  <2>2. pass' = [pass EXCEPT !.todo = pass.todo \ {s}]
    BY <1>1 DEF StartLoad, Pass
  <2>3. atoms' \in {atoms, cachedLoad.atoms} /\ summary' \in {"success", summary}
    BY DEF StartLoad
  <2> QED
    BY <2>1, <2>2, <2>3
<1>3. cachedLoad.atoms \in Versions /\ cached \in BOOLEAN
  BY <1>1
<1>4. v \in Versions
  BY <1>1, <1>3
<1> HIDE DEF cached, v
<1>5. t \in Task /\ t.slot = s
  BY <1>3, <1>4, ExecutorConstants DEF NoTask, Task
<1> HIDE DEF t
<1>6. task' \in [LoadTask -> Task] /\ TasksHaveSlots'
  BY <1>1, <1>2, <1>5, TaskWrites
<1>7. pass' \in Pass /\ pass'.at = "loading"
  BY <1>1, <1>2 DEF Pass
<1>8. ExecutorTypes'
  BY <1>1, <1>2, <1>3, <1>6, <1>7 DEF ExecutorTypes, PipelineTypeOK
<1>9. LoopRestarts'
  BY <1>1, <1>2, <1>7 DEF LoopRestarts
<1>10. CalmPass'
  <2>1. (SlotIsCurrent /\ SlotRuns) => (SlotIsCurrent /\ SlotRuns)'
    BY <1>2 DEF SlotIsCurrent, SlotRuns, FirstSlot
  <2>2. \A e \in PipelineEditor : EditorRests(e) => EditorRests(e)'
    BY <1>2 DEF EditorRests
  <2> QED
    BY <1>1, <1>2, <1>7, <2>1, <2>2 DEF CalmPass
<1> QED
  BY <1>8, <1>9, <1>10 DEF ExecutorInv

\* The loop reads the definitions: from here on it is calm if nobody edits.
LEMMA ReadDefinitionsKeeps ==
  ASSUME ExecutorInv, ReadDefinitions
  PROVE  ExecutorInv'
<1> DEFINE s == IF definition = 0 THEN NoSlot ELSE IF slots = <<>> THEN NewSlot ELSE FirstSlot
           p == [at |-> "refreshing", todo |-> {}, version |-> definition, slot |-> s]
<1>1. /\ PipelineTypeOK /\ ExecutorTypes /\ TasksHaveSlots /\ LoopRestarts
      /\ slotObject \in [SlotObject -> SlotContents] /\ definition \in Versions
      /\ EmptySlot \in SlotContents /\ NoSlot \notin SlotObject
  BY ExecutorConstants DEF ExecutorInv, ExecutorTypes, PipelineTypeOK
<1>2. /\ UNCHANGED <<definition, edit, slots, restart, atoms, summary, cachedLoad,
                     pipelineBudget>>
      /\ pass.at = "loading" /\ pass' = p
      /\ definition # 0 /\ slots = <<>> => FreshSlots # {}
      /\ slotObject' = IF definition # 0 /\ slots = <<>>
                       THEN [slotObject EXCEPT ![NewSlot] = EmptySlot]
                       ELSE Stopped(slotObject, ToSet(slots))
      /\ task' = Aborted(ToSet(slots))
      /\ calm' = \A e \in PipelineEditor : EditorRests(e)
  BY DEF ReadDefinitions, LoadsAreDone
<1>3. s \in SlotObject \cup {NoSlot} /\ (s = NoSlot <=> definition = 0)
  BY <1>1, <1>2, FirstAndNewSlot
<1> HIDE DEF s
<1>4. p \in Pass /\ p.at = "refreshing" /\ p.version = definition /\ p.slot = s
  BY <1>1, <1>3 DEF Pass
<1> HIDE DEF p
<1>5. slotObject' \in [SlotObject -> SlotContents]
  BY <1>1, <1>2, StoppedSlots
<1>6. task' \in [LoadTask -> Task] /\ TasksHaveSlots'
  BY <1>1, <1>2, TaskFlags DEF TasksHaveSlots
<1>7. calm' \in BOOLEAN
  BY <1>2
<1>8. ExecutorTypes'
  BY <1>1, <1>2, <1>4, <1>5, <1>6, <1>7 DEF ExecutorTypes, PipelineTypeOK
<1>9. LoopRestarts'
  BY <1>1, <1>2, <1>4 DEF LoopRestarts
<1>10. calm' => \A e \in PipelineEditor : EditorRests(e)'
  BY <1>2 DEF EditorRests
<1>11. CalmPass'
  BY <1>2, <1>3, <1>4, <1>10 DEF CalmPass
<1> QED
  BY <1>8, <1>9, <1>11 DEF ExecutorInv

\* The slot is given the definition that was read.
LEMMA AssignDefinitionKeeps ==
  ASSUME ExecutorInv, AssignDefinition
  PROVE  ExecutorInv'
<1>1. /\ PipelineTypeOK /\ ExecutorTypes /\ TasksHaveSlots /\ LoopRestarts /\ CalmPass
      /\ slotObject \in [SlotObject -> SlotContents] /\ pass \in Pass
  BY DEF ExecutorInv, ExecutorTypes, PipelineTypeOK
<1>2. /\ UNCHANGED <<definition, edit, slots, restart, task, atoms, summary, cachedLoad,
                     calm, pipelineBudget>>
      /\ pass.at = "refreshing" /\ pass' = [pass EXCEPT !.at = "starting"]
      /\ slotObject' = IF pass.slot = NoSlot THEN slotObject
                       ELSE [slotObject EXCEPT ![pass.slot].definition = pass.version]
  BY DEF AssignDefinition
<1>3. /\ pass' \in Pass /\ pass'.at = "starting" /\ pass'.version = pass.version
      /\ pass'.slot = pass.slot /\ pass.version \in Versions
      /\ pass.slot \in SlotObject \cup {NoSlot}
  BY <1>1, <1>2 DEF Pass
<1>4. /\ slotObject' \in [SlotObject -> SlotContents]
      /\ pass.slot # NoSlot => slotObject'[pass.slot].definition = pass.version
  <2>1. CASE pass.slot = NoSlot
    BY <1>1, <1>2, <2>1
  <2>2. CASE pass.slot # NoSlot
    <3> DEFINE one == [slotObject[pass.slot] EXCEPT !.definition = pass.version]
    <3>1. pass.slot \in SlotObject /\ slotObject[pass.slot] \in SlotContents
      BY <1>1, <1>3, <2>2
    <3>2. one \in SlotContents /\ one.definition = pass.version
      BY <1>3, <3>1 DEF SlotContents
    <3>3. slotObject' = [slotObject EXCEPT ![pass.slot] = one]
      BY <1>2, <2>2
    <3> HIDE DEF one
    <3> QED
      BY <1>1, <3>1, <3>2, <3>3
  <2> QED
    BY <2>1, <2>2
<1>5. ExecutorTypes'
  BY <1>1, <1>2, <1>3, <1>4 DEF ExecutorTypes, PipelineTypeOK, TasksHaveSlots
<1>6. LoopRestarts'
  BY <1>1, <1>2, <1>3 DEF LoopRestarts
<1>7. CalmPass'
  <2>1. \A e \in PipelineEditor : EditorRests(e) => EditorRests(e)'
    BY <1>2 DEF EditorRests
  <2> QED
    BY <1>1, <1>2, <1>3, <1>4, <2>1 DEF CalmPass
<1> QED
  BY <1>5, <1>6, <1>7 DEF ExecutorInv

\* The slots are replaced, and the loop restarts what they hold.
LEMMA InstallSlotsKeeps ==
  ASSUME ExecutorInv, InstallSlots
  PROVE  ExecutorInv'
<1> DEFINE s == pass.slot
<1>1. /\ PipelineTypeOK /\ ExecutorTypes /\ TasksHaveSlots /\ LoopRestarts /\ CalmPass
      /\ slotObject \in [SlotObject -> SlotContents] /\ pass \in Pass
      /\ task \in [LoadTask -> Task] /\ restart \in [Restarter -> Restart]
      /\ definition \in Versions /\ calm \in BOOLEAN
  BY DEF ExecutorInv, ExecutorTypes, PipelineTypeOK
<1>2. /\ UNCHANGED <<definition, edit, atoms, summary, cachedLoad>>
      /\ pass.at = "starting"
  BY DEF InstallSlots
<1>3. s \in SlotObject \cup {NoSlot} /\ pass.version \in Versions
  BY <1>1 DEF Pass
<1>4. Waiting \in Pass /\ Waiting.at = "waiting" /\ NoSlot \notin SlotObject
  BY ExecutorConstants DEF Waiting
<1>5. restart["loop"].at = "idle" /\ "loop" \in Restarter
  BY <1>1, <1>2, ExecutorConstants DEF LoopRestarts, ExecutorTypes, PipelineTypeOK, Restart
<1>6. CASE s = NoSlot
  <2>1. /\ slots' = <<>> /\ pass' = Waiting /\ restart' = restart
        /\ UNCHANGED <<slotObject, task, calm, pipelineBudget>>
    BY <1>6 DEF InstallSlots, ReplaceSlots
  <2>2. ExecutorTypes'
    BY <1>1, <1>2, <1>4, <2>1 DEF ExecutorTypes, PipelineTypeOK, TasksHaveSlots
  <2>3. LoopRestarts'
    BY <1>4, <1>5, <2>1 DEF LoopRestarts
  <2>4. calm => definition = 0 /\ \A e \in PipelineEditor : EditorRests(e)
    BY <1>1, <1>2, <1>6 DEF CalmPass
  <2>5. \A e \in PipelineEditor : EditorRests(e) => EditorRests(e)'
    BY <1>2, <2>1 DEF EditorRests
  <2>6. CalmPass'
    BY <1>2, <1>4, <2>1, <2>4, <2>5 DEF CalmPass, SlotIsCurrent, SlotRuns
  <2> QED
    BY <2>2, <2>3, <2>6 DEF ExecutorInv
<1>7. CASE s # NoSlot
  <2>1. s \in SlotObject /\ <<s>> # <<>> /\ <<s>>[1] = s /\ <<s>> \in Seq(SlotObject)
        /\ Len(<<s>>) = 1
    BY <1>3, <1>7
  <2>2. ReplaceSlots(<<s>>)
    BY <1>7 DEF InstallSlots
  <2>3. /\ \/ slotObject' = [slotObject EXCEPT ![s].made = pass.version, ![s].stopped = FALSE]
              /\ task' = Released(s) /\ UNCHANGED <<calm, pipelineBudget>>
           \/ Disturbance /\ calm' = FALSE /\ UNCHANGED <<slotObject, task>>
    BY <1>7 DEF InstallSlots
  <2>4. /\ slotObject' \in [SlotObject -> SlotContents]
        /\ task' \in [LoadTask -> Task] /\ TasksHaveSlots'
        /\ calm' \in BOOLEAN /\ (calm' => calm)
        /\ pipelineBudget' \in [edits : Versions, disturbances : 0 .. MaxDisturbances,
                                refresh : 0 .. MaxRefreshFaults]
    <3>1. CASE /\ slotObject' = [slotObject EXCEPT ![s].made = pass.version,
                                                   ![s].stopped = FALSE]
               /\ task' = Released(s) /\ UNCHANGED <<calm, pipelineBudget>>
      <4> DEFINE one == [slotObject[s] EXCEPT !.made = pass.version, !.stopped = FALSE]
      <4>1. slotObject[s] \in SlotContents
        BY <1>1, <2>1
      <4>2. one \in SlotContents
        BY <1>3, <4>1 DEF SlotContents
      <4>3. slotObject' = [slotObject EXCEPT ![s] = one]
        BY <1>1, <2>1, <3>1
      <4> HIDE DEF one
      <4>4. slotObject' \in [SlotObject -> SlotContents]
        BY <1>1, <2>1, <4>2, <4>3
      <4>5. task' \in [LoadTask -> Task] /\ TasksHaveSlots'
        BY <1>1, <3>1, TaskFlags DEF TasksHaveSlots
      <4>6. pipelineBudget \in [edits : Versions, disturbances : 0 .. MaxDisturbances,
                                refresh : 0 .. MaxRefreshFaults]
        BY <1>1 DEF PipelineTypeOK
      <4> QED
        BY <1>1, <3>1, <4>4, <4>5, <4>6
    <3>2. CASE Disturbance /\ calm' = FALSE /\ UNCHANGED <<slotObject, task>>
      BY <1>1, <3>2, Counted DEF TasksHaveSlots
    <3> QED
      BY <2>3, <3>1, <3>2
  <2>5. CASE definition = 0
    <3>1. slots' = <<>> /\ pass' = Waiting /\ restart' = restart
      BY <2>2, <2>5 DEF ReplaceSlots
    <3>2. ExecutorTypes'
      BY <1>1, <1>2, <1>4, <2>4, <3>1 DEF ExecutorTypes, PipelineTypeOK
    <3>3. LoopRestarts'
      BY <1>4, <1>5, <3>1 DEF LoopRestarts
    <3>4. ~ calm
      BY <1>1, <1>2, <1>7, <2>5 DEF CalmPass
    <3> QED
      BY <2>4, <3>2, <3>3, <3>4 DEF ExecutorInv, CalmPass
  <2>6. CASE definition # 0
    <3> DEFINE one == [at |-> "owner", slot |-> s, version |-> definition]
    <3>1. /\ slots' = <<s>> /\ pass' = [Waiting EXCEPT !.at = "restarting"]
          /\ restart' = [restart EXCEPT !["loop"] = one]
      BY <2>1, <2>2, <2>6 DEF ReplaceSlots
    <3>2. one \in Restart /\ one.at = "owner" /\ one.slot = s /\ one.version = definition
      BY <1>1, <1>3 DEF Restart
    <3> HIDE DEF one
    <3>3. restart' \in [Restarter -> Restart] /\ restart'["loop"] = one
      BY <1>1, <1>5, <3>1, <3>2
    <3>4. pass' \in Pass /\ pass'.at = "restarting"
      BY <3>1, PassMoves
    <3>5. slots' \in Seq(SlotObject) /\ Len(slots') = 1 /\ slots'[1] = s
      BY <2>1, <3>1
    <3>6. ExecutorTypes'
      BY <1>1, <1>2, <2>4, <3>3, <3>4, <3>5 DEF ExecutorTypes, PipelineTypeOK
    <3>7. LoopRestarts'
      BY <3>2, <3>3, <3>4 DEF LoopRestarts
    <3>8. \A e \in PipelineEditor : e \in Restarter /\ e # "loop"
      BY ExecutorConstants
    <3>9. \A e \in PipelineEditor : EditorRests(e) => EditorRests(e)'
      BY <1>1, <1>2, <3>1, <3>8 DEF EditorRests
    <3>10. CalmPass'
      BY <1>1, <1>2, <2>4, <2>6, <3>2, <3>3, <3>4, <3>5, <3>9 DEF CalmPass
    <3> QED
      BY <3>6, <3>7, <3>10 DEF ExecutorInv
  <2> QED
    BY <2>5, <2>6
<1> QED
  BY <1>6, <1>7

\* Without its queries the loop is dead, and repairs nothing any more.
LEMMA RefreshFailsKeeps ==
  ASSUME ExecutorInv, RefreshFails
  PROVE  ExecutorInv'
<1>1. /\ PipelineTypeOK /\ TasksHaveSlots /\ LoopRestarts /\ CalmPass
  BY DEF ExecutorInv, ExecutorTypes
<1>2. /\ UNCHANGED <<definition, edit, slots, slotObject, restart, task, atoms, summary,
                     cachedLoad, calm>>
      /\ pass.at \in {"loading", "refreshing"} /\ UseBudget("refresh", MaxRefreshFaults)
      /\ pass' = [Waiting EXCEPT !.at = "dead"]
  BY DEF RefreshFails, LoadsAreDone
<1>3. pass' \in Pass /\ pass'.at = "dead"
  BY <1>2, PassMoves
<1>4. ExecutorTypes'
  BY <1>1, <1>2, <1>3, Counted DEF ExecutorTypes, PipelineTypeOK, TasksHaveSlots
<1>5. LoopRestarts'
  BY <1>1, <1>2, <1>3 DEF LoopRestarts
<1>6. \A e \in PipelineEditor : EditorRests(e) => EditorRests(e)'
  BY <1>2 DEF EditorRests
<1>7. CalmPass'
  BY <1>1, <1>2, <1>3, <1>6 DEF CalmPass
<1> QED
  BY <1>4, <1>5, <1>7 DEF ExecutorInv

-----------------------------------------------------------------------------
\* start has instantiated the stored version.
LEMMA ExecutorInitInv == PipelineInit => ExecutorInv
<1> SUFFICES ASSUME PipelineInit PROVE ExecutorInv
  OBVIOUS
<1> DEFINE first == CHOOSE s \in SlotObject : TRUE
           running == [definition |-> StoredVersion, made |-> StoredVersion, stopped |-> FALSE]
<1>1. first \in SlotObject
  BY PipelineAssumption
<1>2. /\ definition = StoredVersion
      /\ edit = [e \in PipelineEditor |-> NoEdit]
      /\ slots = <<first>>
      /\ slotObject = [s \in SlotObject |-> IF s = first THEN running ELSE EmptySlot]
      /\ restart = [r \in Restarter |-> NoRestart]
      /\ pass = Waiting /\ task = [l \in LoadTask |-> NoTask]
      /\ atoms = 0 /\ summary = "none" /\ calm = TRUE
      /\ pipelineBudget = [edits |-> StoredVersion, disturbances |-> 0, refresh |-> 0]
  BY DEF PipelineInit
<1>3. cachedLoad \in [there : BOOLEAN, atoms : Versions]
  <2>1. \A b \in BOOLEAN : [there |-> b, atoms |-> 0] \in [there : BOOLEAN, atoms : Versions]
    BY ExecutorConstants
  <2>2. \E b \in BOOLEAN : cachedLoad = [there |-> b, atoms |-> 0]
    BY DEF PipelineInit, NoCachedLoad
  <2> QED
    BY <2>1, <2>2
<1> HIDE DEF first
<1>4. /\ running \in SlotContents /\ running.definition = StoredVersion
      /\ running.made = StoredVersion /\ running.stopped = FALSE
  BY ExecutorConstants DEF SlotContents
<1> HIDE DEF running
<1>5. /\ slotObject \in [SlotObject -> SlotContents] /\ slotObject[first] = running
  BY <1>1, <1>2, <1>4, ExecutorConstants
<1>6. /\ slots \in Seq(SlotObject) /\ Len(slots) = 1 /\ FirstSlot = first
  BY <1>1, <1>2 DEF FirstSlot
<1>7. /\ edit \in [PipelineEditor -> Edit] /\ restart \in [Restarter -> Restart]
      /\ task \in [LoadTask -> Task] /\ pass \in Pass
      /\ pipelineBudget \in [edits : Versions, disturbances : 0 .. MaxDisturbances,
                             refresh : 0 .. MaxRefreshFaults]
  BY <1>2, ExecutorConstants
<1>8. ExecutorTypes
  BY <1>2, <1>3, <1>5, <1>6, <1>7, ExecutorConstants
  DEF ExecutorTypes, PipelineTypeOK, TasksHaveSlots, NoTask
<1>9. LoopRestarts
  BY <1>2, ExecutorConstants DEF LoopRestarts, NoRestart, Waiting
<1>10. SlotIsCurrent /\ SlotRuns
  BY <1>2, <1>4, <1>5, <1>6, ExecutorConstants DEF SlotIsCurrent, SlotRuns
<1>11. \A e \in PipelineEditor : EditorRests(e)
  BY <1>2, ExecutorConstants DEF EditorRests, NoEdit, NoRestart
<1>12. pass.at = "waiting"
  BY <1>2 DEF Waiting
<1> QED
  BY <1>8, <1>9, <1>10, <1>11, <1>12 DEF ExecutorInv, CalmPass

\* Every step keeps the invariant.
LEMMA ExecutorStep == ExecutorInv /\ [PipelineNext]_pipelineVars => ExecutorInv'
<1> SUFFICES ASSUME ExecutorInv, [PipelineNext]_pipelineVars
             PROVE  ExecutorInv'
  OBVIOUS
<1>1. ASSUME NEW e \in PipelineEditor,
             CheckEdit(e) \/ SaveEdit(e) \/ DeletePipeline(e) \/ CommitEdit(e)
               \/ RollBackEdit(e) \/ ClearCache(e)
      PROVE  ExecutorInv'
  BY <1>1, EditorKeeps
<1>2. ASSUME NEW r \in Restarter, StopForRestart(r) \/ FinishRestart(r) \/ RestartFails(r)
      PROVE  ExecutorInv'
  BY <1>2, StopForRestartKeeps, FinishRestartKeeps, RestartFailsKeeps
<1>3. ASSUME NEW l \in LoadTask, NEW s \in SlotObject, StartLoad(l, s)
      PROVE  ExecutorInv'
  BY <1>3, StartLoadKeeps
<1>4. ASSUME NEW l \in LoadTask, LoadStep(l) PROVE ExecutorInv'
  BY <1>4, LoadStepKeeps
<1>5. ASSUME BeginPass \/ ReadDefinitions \/ AssignDefinition \/ InstallSlots \/ RefreshFails
      PROVE  ExecutorInv'
  BY <1>5, BeginPassKeeps, ReadDefinitionsKeeps, AssignDefinitionKeeps, InstallSlotsKeeps,
     RefreshFailsKeeps
<1>6. CASE UNCHANGED pipelineVars
  BY <1>6 DEF pipelineVars, ExecutorInv, ExecutorTypes, PipelineTypeOK, TasksHaveSlots,
     LoopRestarts, CalmPass, EditorRests, SlotIsCurrent, SlotRuns, FirstSlot
<1> QED
  BY <1>1, <1>2, <1>3, <1>4, <1>5, <1>6 DEF PipelineNext, LoadStep

\* So it always holds.
LEMMA ExecutorInvariant == PipelineSpec => []ExecutorInv
BY ExecutorInitInv, ExecutorStep, PTL DEF PipelineSpec

(* PipelineTypeOK: definitions, slots, loads, restarts and the cache of an  *)
(* executor are well-typed, at every await of each.                         *)
THEOREM PipelineTypeCorrect == PipelineSpec => []PipelineTypeOK
<1>1. ExecutorInv => PipelineTypeOK
  BY DEF ExecutorInv, ExecutorTypes
<1> QED
  BY <1>1, ExecutorInvariant, PTL

(* LoopRepairs: a pass of PipelineExecutorSubservice that no request        *)
(* disturbs leaves one slot with a running instance of the committed        *)
(* definition, or none without a definition.                                *)
THEOREM PassRepairs == PipelineSpec => []LoopRepairs
<1>1. ExecutorInv => LoopRepairs
  BY DEF ExecutorInv, CalmPass, LoopRepairs, SlotRuns
<1> QED
  BY <1>1, ExecutorInvariant, PTL

-----------------------------------------------------------------------------
(***************************************************************************)
(* The groups: types. The mark of an address without a consumer never      *)
(* becomes a member of a group, nor part of its history.                   *)
(***************************************************************************)

PollState == [at : {"idle", "verified", "updating"}, commitment : Commitment,
              instance : GroupInstance]

\* Polls that begin, wait and end.
LEMMA PollWrites ==
  ASSUME GroupTypeOK, NEW p \in GroupPoll
  PROVE  /\ groupPoll[p] \in PollState /\ NoPoll(p) \in PollState
         /\ groupPoll[p].commitment \in Commitment
         /\ groupPoll[p].instance \in GroupInstance
         /\ [groupPoll EXCEPT ![p] = NoPoll(p)] \in [GroupPoll -> PollState]
         /\ [groupPoll EXCEPT ![p].at = "updating"] \in [GroupPoll -> PollState]
<1>1. groupPoll \in [GroupPoll -> PollState] /\ groupPoll[p] \in PollState
  BY DEF GroupTypeOK, PollState
<1>2. NoPoll(p) \in PollState
  <2>1. FirstIdentity[PollOf[p]] \in Commitment
    BY GroupAssumption
  <2> QED
    BY <2>1 DEF NoPoll, PollState, GroupInstance
<1>3. /\ groupPoll[p].commitment \in Commitment /\ groupPoll[p].instance \in GroupInstance
      /\ [groupPoll[p] EXCEPT !.at = "updating"] \in PollState
  BY <1>1 DEF PollState
<1> QED
  BY <1>1, <1>2, <1>3

\* The members of a group are commitments, never the mark of an address that has
\* no consumer.
LEMMA MembersAreCommitments ==
  ASSUME GroupTypeOK
  PROVE  Members \subseteq Commitment
<1>1. /\ consumer \in [GroupEmail -> Commitment \cup {"none"}]
      /\ ticketEmails \subseteq GroupEmail
  BY DEF GroupTypeOK
<1> QED
  BY <1>1 DEF Members

\* An update joins the queue of an instance.
LEMMA UpdateJoins ==
  ASSUME GroupTypeOK, NEW i \in GroupInstance, NEW by \in GroupPoll \cup {PipelineLoad},
         updates' = [updates EXCEPT ![i] = Append(updates[i], [by |-> by, at |-> "queued"])]
  PROVE  updates' \in [GroupInstance -> Seq(Update)]
<1>1. updates \in [GroupInstance -> Seq(Update)] /\ updates[i] \in Seq(Update)
  BY DEF GroupTypeOK
<1>2. [by |-> by, at |-> "queued"] \in Update
  BY DEF Update
<1>3. Append(updates[i], [by |-> by, at |-> "queued"]) \in Seq(Update)
  BY <1>1, <1>2
<1> QED
  BY <1>1, <1>3

\* The first update of an instance is done, or is written.
LEMMA UpdateLeaves ==
  ASSUME GroupTypeOK, NEW i \in GroupInstance, updates[i] # <<>>
  PROVE  /\ Dequeue(i) => /\ updates' \in [GroupInstance -> Seq(Update)]
                          /\ groupPoll' \in [GroupPoll -> PollState]
         /\ [updates EXCEPT ![i][1].at = "writing"] \in [GroupInstance -> Seq(Update)]
<1>1. /\ updates \in [GroupInstance -> Seq(Update)] /\ updates[i] \in Seq(Update)
      /\ groupPoll \in [GroupPoll -> PollState]
  BY DEF GroupTypeOK, PollState
<1>2. Tail(updates[i]) \in Seq(Update)
  BY <1>1
<1>3. ASSUME Dequeue(i)
      PROVE  /\ updates' \in [GroupInstance -> Seq(Update)]
             /\ groupPoll' \in [GroupPoll -> PollState]
  <2>1. /\ updates' = [updates EXCEPT ![i] = Tail(updates[i])]
        /\ groupPoll' = [p \in GroupPoll |-> IF p = Head(updates[i]).by THEN NoPoll(p)
                                                                   ELSE groupPoll[p]]
    BY <1>3 DEF Dequeue
  <2>2. \A p \in GroupPoll : NoPoll(p) \in PollState
    BY PollWrites
  <2> QED
    BY <1>1, <1>2, <2>1, <2>2
<1>4. [updates EXCEPT ![i][1].at = "writing"] \in [GroupInstance -> Seq(Update)]
  <2> DEFINE q == updates[i]
             u == [q[1] EXCEPT !.at = "writing"]
  <2>1. q \in Seq(Update) /\ q # <<>> /\ [updates EXCEPT ![i][1].at = "writing"]
          = [updates EXCEPT ![i] = [q EXCEPT ![1] = u]]
    BY <1>1
  <2> HIDE DEF q
  <2>2. q[1] \in Update
    BY <2>1
  <2>3. u \in Update
    BY <2>2 DEF Update
  <2> HIDE DEF u
  <2>4. [q EXCEPT ![1] = u] \in Seq(Update)
    BY <2>1, <2>3
  <2> QED
    BY <1>1, <2>1, <2>4
<1> QED
  BY <1>3, <1>4

\* Every step keeps the types.
LEMMA GroupTypeStep == GroupTypeOK /\ [GroupNext]_groupVars => GroupTypeOK'
<1> SUFFICES ASSUME GroupTypeOK, [GroupNext]_groupVars PROVE GroupTypeOK'
  OBVIOUS
<1> USE DEF PollState
<1>1. /\ groupEvents \in 0 .. MaxGroupEvents /\ MaxGroupEvents \in Nat
      /\ (GroupEvent => groupEvents' \in 0 .. MaxGroupEvents)
  BY GroupAssumption DEF GroupTypeOK, GroupEvent
<1>2. ASSUME NEW u \in GroupUser, NEW c \in Commitment, Rekey(u, c) PROVE GroupTypeOK'
  BY <1>1, <1>2 DEF Rekey, GroupTypeOK
<1>3. ASSUME NEW emails \in SUBSET GroupEmail, IssueTickets(emails) PROVE GroupTypeOK'
  BY <1>1, <1>3 DEF IssueTickets, GroupTypeOK
<1>4. ASSUME NEW p \in GroupPoll, PollGroupFeed(p) PROVE GroupTypeOK'
  <2> DEFINE one == [at |-> "verified", commitment |-> identity[PollOf[p]],
                     instance |-> serving]
  <2>1. /\ groupPoll' = [groupPoll EXCEPT ![p] = one]
        /\ UNCHANGED <<identity, issuedTo, ticketEmails, consumer, latestGroup, group,
                       serving, started, updates, groupEvents>>
    BY <1>4 DEF PollGroupFeed
  <2>2. one \in PollState
    BY GroupAssumption DEF GroupTypeOK
  <2> HIDE DEF one
  <2> QED
    BY <2>1, <2>2 DEF GroupTypeOK
<1>5. ASSUME NEW p \in GroupPoll, SaveConsumer(p) PROVE GroupTypeOK'
  <2> DEFINE emails == EmailsOf[PollOf[p]]
             c == groupPoll[p].commitment
             i == groupPoll[p].instance
             changed == {n \in DOMAIN emails : /\ consumer[emails[n]] # c
                                               /\ \A m \in 1 .. n - 1 : consumer[emails[m]] = c}
  <2>1. /\ UNCHANGED <<identity, issuedTo, ticketEmails, latestGroup, group, serving, started,
                       groupEvents>>
        /\ consumer' = [e \in GroupEmail |-> IF \E n \in changed : emails[n] = e
                                             THEN c ELSE consumer[e]]
        /\ IF changed = {}
           THEN groupPoll' = [groupPoll EXCEPT ![p] = NoPoll(p)] /\ updates' = updates
           ELSE /\ groupPoll' = [groupPoll EXCEPT ![p].at = "updating"]
                /\ updates' = [updates EXCEPT ![i] = Append(updates[i], [by |-> p, at |-> "queued"])]
    BY <1>5 DEF SaveConsumer
  <2> HIDE DEF changed
  <2>2. c \in Commitment /\ i \in GroupInstance
    BY PollWrites
  <2> HIDE DEF c, i, emails
  <2>3. consumer' \in [GroupEmail -> Commitment \cup {"none"}]
    BY <2>1, <2>2 DEF GroupTypeOK
  <2>4. groupPoll' \in [GroupPoll -> PollState]
    BY <2>1, PollWrites
  <2>5. updates' \in [GroupInstance -> Seq(Update)]
    BY <2>1, <2>2, UpdateJoins DEF GroupTypeOK
  <2> QED
    BY <2>1, <2>3, <2>4, <2>5 DEF GroupTypeOK
<1>6. ASSUME LoadTickets PROVE GroupTypeOK'
  <2>1. /\ UNCHANGED <<identity, issuedTo, consumer, latestGroup, group, serving, started,
                       groupPoll, groupEvents>>
        /\ ticketEmails' = issuedTo
        /\ updates' = [updates EXCEPT ![serving] =
                         Append(updates[serving], [by |-> PipelineLoad, at |-> "queued"])]
    BY <1>6 DEF LoadTickets
  <2>2. updates' \in [GroupInstance -> Seq(Update)]
    BY <2>1, UpdateJoins DEF GroupTypeOK
  <2> QED
    BY <2>1, <2>2 DEF GroupTypeOK
<1>7. ASSUME NEW i \in GroupInstance, ChangeGroup(i) PROVE GroupTypeOK'
  <2>1. /\ updates[i] # <<>> /\ group' = [group EXCEPT ![i] = Members]
        /\ UNCHANGED <<identity, issuedTo, ticketEmails, consumer, latestGroup, serving,
                       started, groupEvents>>
        /\ \/ Dequeue(i)
           \/ groupPoll' = groupPoll /\ updates' = [updates EXCEPT ![i][1].at = "writing"]
    BY <1>7 DEF ChangeGroup
  <2>2. /\ updates' \in [GroupInstance -> Seq(Update)]
        /\ groupPoll' \in [GroupPoll -> PollState]
    <3>1. CASE Dequeue(i)
      BY <2>1, <3>1, UpdateLeaves
    <3>2. CASE groupPoll' = groupPoll /\ updates' = [updates EXCEPT ![i][1].at = "writing"]
      <4>1. [updates EXCEPT ![i][1].at = "writing"] \in [GroupInstance -> Seq(Update)]
        BY <2>1, UpdateLeaves
      <4>2. groupPoll \in [GroupPoll -> PollState]
        BY DEF GroupTypeOK
      <4> QED
        BY <3>2, <4>1, <4>2
    <3> QED
      BY <2>1, <3>1, <3>2
  <2>3. group' \in [GroupInstance -> SUBSET Commitment]
    BY <2>1, MembersAreCommitments DEF GroupTypeOK
  <2> QED
    BY <2>1, <2>2, <2>3 DEF GroupTypeOK
<1>8. ASSUME NEW i \in GroupInstance, AddHistoryEntry(i) PROVE GroupTypeOK'
  <2>1. /\ updates[i] # <<>> /\ latestGroup' = group[i] /\ Dequeue(i)
        /\ UNCHANGED <<identity, issuedTo, ticketEmails, consumer, group, serving, started,
                       groupEvents>>
    BY <1>8 DEF AddHistoryEntry
  <2>2. /\ updates' \in [GroupInstance -> Seq(Update)]
        /\ groupPoll' \in [GroupPoll -> PollState]
    BY <2>1, UpdateLeaves
  <2> QED
    BY <2>1, <2>2 DEF GroupTypeOK
<1>9. ASSUME NEW i \in GroupInstance, HistoryEntryFails(i) PROVE GroupTypeOK'
  <2>1. /\ updates[i] # <<>> /\ GroupEvent /\ Dequeue(i)
        /\ UNCHANGED <<identity, issuedTo, ticketEmails, consumer, latestGroup, group,
                       serving, started>>
    BY <1>9 DEF HistoryEntryFails
  <2>2. /\ updates' \in [GroupInstance -> Seq(Update)]
        /\ groupPoll' \in [GroupPoll -> PollState]
    BY <2>1, UpdateLeaves
  <2> QED
    BY <1>1, <2>1, <2>2 DEF GroupTypeOK
<1>10. CASE StartProvider
  BY <1>10 DEF StartProvider, GroupTypeOK, GroupInstance
<1>11. CASE ReplaceProvider
  <2>1. /\ serving' = 1 - serving /\ started' = FALSE
        /\ UNCHANGED <<identity, issuedTo, ticketEmails, consumer, latestGroup, group, updates,
                       groupPoll, groupEvents>>
    BY <1>11 DEF ReplaceProvider
  <2>2. serving \in {0, 1}
    BY DEF GroupTypeOK, GroupInstance
  <2>3. serving' \in GroupInstance
    BY <2>1, <2>2 DEF GroupInstance
  <2> QED
    BY <2>1, <2>3 DEF GroupTypeOK
<1>12. CASE UNCHANGED groupVars
  BY <1>12 DEF groupVars, GroupTypeOK
<1> QED
  BY <1>2, <1>3, <1>4, <1>5, <1>6, <1>7, <1>8, <1>9, <1>10, <1>11, <1>12 DEF GroupNext

\* The groups are empty at first.
LEMMA GroupTypeInit == GroupInit => GroupTypeOK
<1> SUFFICES ASSUME GroupInit PROVE GroupTypeOK
  OBVIOUS
<1>1. \A p \in GroupPoll : NoPoll(p) \in PollState
  BY GroupAssumption DEF NoPoll, PollState, GroupInstance
<1>2. groupPoll \in [GroupPoll -> PollState]
  BY <1>1 DEF GroupInit
<1>3. updates \in [GroupInstance -> Seq(Update)]
  BY DEF GroupInit
<1>4. /\ identity \in [GroupUser -> Commitment]
      /\ issuedTo \subseteq GroupEmail /\ ticketEmails \subseteq GroupEmail
      /\ consumer \in [GroupEmail -> Commitment \cup {"none"}]
      /\ latestGroup \subseteq Commitment /\ started \in BOOLEAN
  BY GroupAssumption DEF GroupInit
<1>5. group \in [GroupInstance -> SUBSET Commitment]
  BY DEF GroupInit
<1>6. serving \in GroupInstance /\ groupEvents \in 0 .. MaxGroupEvents
  BY GroupAssumption DEF GroupInit, GroupInstance
<1> QED
  BY <1>2, <1>3, <1>4, <1>5, <1>6 DEF GroupTypeOK, PollState

(* GroupTypeOK: groups, and the entries of their history, consist of        *)
(* commitments: an address without a consumer adds no member.               *)
THEOREM GroupTypeCorrect == GroupSpec => []GroupTypeOK
BY GroupTypeInit, GroupTypeStep, PTL DEF GroupSpec

-----------------------------------------------------------------------------
(***************************************************************************)
(* The queue of proofs. Its requests are distinct, the first is being      *)
(* proved and the others wait (InLine), only the first is (Active), and    *)
(* whoever waits is in it until the services stop (Kept). serverProve      *)
(* fails the requests at the head that have no package, one after the      *)
(* other: the first that has one is at a least place, since the numbers    *)
(* are well-founded (FirstPlace).                                          *)
(***************************************************************************)

Distinct(q) == \A n, k \in 1 .. Len(q) : q[n] = q[k] => n = k

\* The head of the queue is being proved, and those behind it wait.
InLine(q, status) ==
    \A n \in 1 .. Len(q) : status[q[n]] = IF n = 1 THEN "proving" ELSE "queued"

\* A queue before its first requests are served.
ToServe(q, status) ==
    \A n \in 1 .. Len(q) : /\ status[q[n]] # "proving"
                           /\ n > 1 => status[q[n]] = "queued"

Active(ongoing, status) == \A p \in ProofRequest : status[p] = "proving" <=> p \in ongoing

\* No request is lost: who neither waits nor is done is in the queue.
Kept(q, status) == \A p \in ProofRequest :
    status[p] \in {"queued", "proving"} => \E n \in 1 .. Len(q) : q[n] = p

QueueTypes ==
    /\ proofQueue \in Seq(ProofRequest)
    /\ proofStatus \in [ProofRequest -> PendingPCDStatus]
    /\ proving \subseteq Provable
    /\ stopped \in BOOLEAN
    /\ dropped \subseteq ProofRequest

QueueInv ==
    /\ QueueTypes
    /\ Distinct(proofQueue)
    /\ InLine(proofQueue, proofStatus)
    /\ Active(proving, proofStatus)
    /\ ~ stopped => Kept(proofQueue, proofStatus)

-----------------------------------------------------------------------------
\* The end of a sequence from one of its places on.
LEMMA Suffix ==
    ASSUME NEW S, NEW q \in Seq(S), NEW n \in 1 .. Len(q) + 1
    PROVE  /\ SubSeq(q, n, Len(q)) \in Seq(S)
           /\ Len(SubSeq(q, n, Len(q))) = Len(q) - n + 1
           /\ \A k \in 1 .. Len(q) - n + 1 : /\ k + n - 1 \in 1 .. Len(q)
                                             /\ SubSeq(q, n, Len(q))[k] = q[k + n - 1]
OBVIOUS

\* A sequence without its head.
LEMMA TailOf ==
    ASSUME NEW S, NEW q \in Seq(S), q # <<>>
    PROVE  /\ Tail(q) \in Seq(S) /\ Len(Tail(q)) = Len(q) - 1 /\ Len(q) \in Nat \ {0}
           /\ \A k \in 1 .. Len(q) - 1 : /\ k + 1 \in 1 .. Len(q)
                                         /\ Tail(q)[k] = q[k + 1]
           /\ Head(q) = q[1] /\ q[1] \in S
OBVIOUS

\* The place of the first request that can be proved.
LEMMA FirstPlace ==
    ASSUME NEW q \in Seq(ProofRequest), Pending(q) # {}
    PROVE  Place(q) \in Pending(q) /\ \A k \in Pending(q) : Place(q) <= k
<1>1. Pending(q) \subseteq Nat
  BY DEF Pending
<1> DEFINE upTo == {0 .. n : n \in Pending(q)}
<1>2. upTo \subseteq FiniteSubsetsOf(Nat) /\ upTo # {}
  <2>1. \A n \in Nat : IsFiniteSet(0 .. n) /\ 0 .. n \subseteq Nat
    BY FS_Interval
  <2> QED
    BY <1>1, <2>1 DEF FiniteSubsetsOf
<1>3. PICK s \in upTo : \A t \in upTo : ~ (<<t, s>> \in StrictSubsetOrdering(Nat))
  BY <1>2, FS_StrictSubsetOrderingWellFounded, WFMin, Zenon
<1>4. PICK n \in Pending(q) : s = 0 .. n
  BY <1>3
<1>5. \A k \in Pending(q) : n <= k
  <2>1. SUFFICES ASSUME NEW k \in Pending(q), k < n PROVE FALSE
    BY <1>1
  <2>2. 0 .. k \in upTo /\ 0 .. k \subseteq 0 .. n /\ 0 .. k # 0 .. n
    BY <1>1, <2>1
  <2>3. 0 .. k \in SUBSET Nat /\ 0 .. n \in SUBSET Nat
    OBVIOUS
  <2>4. <<0 .. k, 0 .. n>> \in StrictSubsetOrdering(Nat)
    <3> HIDE DEF upTo
    <3> DEFINE a == 0 .. k  b == 0 .. n
    <3>1. a \in SUBSET Nat /\ b \in SUBSET Nat /\ a \subseteq b /\ a # b
      BY <2>2, <2>3
    <3> HIDE DEF a, b
    <3>2. <<a, b>> \in StrictSubsetOrdering(Nat)
      BY <3>1 DEF StrictSubsetOrdering
    <3> QED
      BY <3>2 DEF a, b
  <2> QED
    BY <1>3, <1>4, <2>2, <2>4
<1> QED
  BY <1>5 DEF Place

\* Serving a queue keeps every part of the invariant.
LEMMA ServeKeeps ==
    ASSUME NEW q \in Seq(ProofRequest), NEW status \in [ProofRequest -> PendingPCDStatus],
           NEW others \in SUBSET Provable,
           Distinct(q), ToServe(q, status), Active(others, status),
           ServeProofs(q, status, others)
    PROVE  /\ proofQueue' \in Seq(ProofRequest)
           /\ proofStatus' \in [ProofRequest -> PendingPCDStatus]
           /\ proving' \subseteq Provable
           /\ Distinct(proofQueue') /\ InLine(proofQueue', proofStatus')
           /\ Active(proving', proofStatus')
           /\ Kept(q, status) => Kept(proofQueue', proofStatus')
<1> DEFINE n == IF Pending(q) = {} THEN Len(q) + 1 ELSE Place(q)
           failed == {q[k] : k \in 1 .. n - 1}
           begun == {q[k] : k \in {n} \cap Pending(q)}
<1>1. Len(q) \in Nat /\ \A k \in 1 .. Len(q) : q[k] \in ProofRequest
  OBVIOUS
<1>2. /\ n \in 1 .. Len(q) + 1
      /\ \A k \in 1 .. n - 1 : q[k] \notin Provable
      /\ n <= Len(q) => q[n] \in Provable
  <2>1. CASE Pending(q) = {}
    <3>1. n = Len(q) + 1
      BY <2>1
    <3>2. \A k \in 1 .. Len(q) : q[k] \notin Provable
      BY <2>1 DEF Pending
    <3> HIDE DEF n
    <3> QED
      BY <1>1, <3>1, <3>2
  <2>2. CASE Pending(q) # {}
    <3>1. Place(q) \in Pending(q) /\ \A k \in Pending(q) : Place(q) <= k
      BY <2>2, FirstPlace
    <3> QED
      BY <1>1, <2>2, <3>1 DEF Pending
  <2> QED
    BY <2>1, <2>2
<1>3. n \in Pending(q) <=> n <= Len(q)
  BY <1>1, <1>2 DEF Pending
<1>4. \A p : p \in begun <=> n <= Len(q) /\ p = q[n]
  BY <1>3
<1>5. \A p : p \in failed <=> \E k \in 1 .. n - 1 : p = q[k]
  OBVIOUS
<1>6. /\ proofQueue' = SubSeq(q, n, Len(q))
      /\ proving' = others \cup begun
      /\ proofStatus' = [p \in ProofRequest |->
                            IF p \in failed THEN "error"
                            ELSE IF p \in begun THEN "proving" ELSE status[p]]
  BY DEF ServeProofs
<1> HIDE DEF n, failed, begun
<1>7. \A p \in ProofRequest :
        proofStatus'[p] = IF p \in failed THEN "error"
                          ELSE IF p \in begun THEN "proving" ELSE status[p]
  BY <1>6
<1>8. proofStatus' \in [ProofRequest -> PendingPCDStatus]
  BY <1>6 DEF PendingPCDStatus
<1>9. proving' \subseteq Provable
  BY <1>2, <1>4, <1>6
<1> DEFINE rest == proofQueue'
<1>10. /\ rest \in Seq(ProofRequest) /\ Len(rest) = Len(q) - n + 1
       /\ \A k \in 1 .. Len(q) - n + 1 : /\ k + n - 1 \in 1 .. Len(q)
                                         /\ rest[k] = q[k + n - 1]
  BY <1>2, <1>6, Suffix
<1>11. Distinct(rest)
  <2> HIDE DEF rest
  <2>1. SUFFICES ASSUME NEW a \in 1 .. Len(q) - n + 1, NEW b \in 1 .. Len(q) - n + 1,
                        rest[a] = rest[b]
                 PROVE  a = b
    BY <1>10 DEF Distinct
  <2>2. a + n - 1 = b + n - 1
    BY <1>10, <2>1 DEF Distinct
  <2> QED
    BY <1>1, <1>2, <2>2
<1>12. \A k \in n .. Len(q) : q[k] \notin failed /\ (q[k] \in begun <=> k = n)
  BY <1>1, <1>2, <1>4, <1>5 DEF Distinct
<1>13. InLine(rest, proofStatus')
  <2>1. SUFFICES ASSUME NEW k \in 1 .. Len(q) - n + 1
                 PROVE  proofStatus'[rest[k]] = IF k = 1 THEN "proving" ELSE "queued"
    BY <1>10 DEF InLine
  <2>2. /\ k + n - 1 \in n .. Len(q) /\ rest[k] = q[k + n - 1]
        /\ k + n - 1 \in 1 .. Len(q) /\ n \in Nat /\ n >= 1
    BY <1>1, <1>2, <1>10
  <2>3. /\ q[k + n - 1] \in ProofRequest
        /\ q[k + n - 1] \notin failed /\ (q[k + n - 1] \in begun <=> k + n - 1 = n)
    BY <1>1, <1>12, <2>2
  <2>4. k # 1 => k + n - 1 > 1 /\ k + n - 1 # n
    BY <2>2
  <2>5. k # 1 => status[q[k + n - 1]] = "queued"
    BY <2>2, <2>4 DEF ToServe
  <2>6. k = 1 => k + n - 1 = n
    BY <2>2
  <2>7. /\ k # 1 => proofStatus'[q[k + n - 1]] = "queued"
        /\ k = 1 => proofStatus'[q[k + n - 1]] = "proving"
    BY <1>7, <2>3, <2>4, <2>5, <2>6
  <2> HIDE DEF rest
  <2> QED
    BY <2>2, <2>7
<1>14. \A k \in 1 .. Len(q) : status[q[k]] # "proving"
  BY DEF ToServe
<1>15. Active(proving', proofStatus')
  <2>1. SUFFICES ASSUME NEW p \in ProofRequest
                 PROVE  proofStatus'[p] = "proving" <=> p \in proving'
    BY DEF Active
  <2>2. p \in failed => p \notin begun /\ status[p] # "proving"
    <3>1. SUFFICES ASSUME NEW k \in 1 .. n - 1, p = q[k] 
                   PROVE  p \notin begun /\ status[p] # "proving"
      BY <1>5
    <3>2. k \in 1 .. Len(q) /\ k # n
      BY <1>1, <1>2
    <3>3. n <= Len(q) => q[k] # q[n]
      BY <1>1, <1>2, <3>2 DEF Distinct
    <3> QED
      BY <1>4, <1>14, <3>1, <3>2, <3>3
  <2>3. status[p] = "proving" <=> p \in others
    BY DEF Active
  <2> QED
    BY <1>6, <1>7, <2>2, <2>3
<1>16. ASSUME Kept(q, status) PROVE Kept(rest, proofStatus')
  <2>1. SUFFICES ASSUME NEW p \in ProofRequest, proofStatus'[p] \in {"queued", "proving"}
                 PROVE  \E k \in 1 .. Len(rest) : rest[k] = p
    BY DEF Kept
  <2>2. p \notin failed
    BY <1>7, <2>1
  <2>3. PICK k \in 1 .. Len(q) : q[k] = p
    <3>1. CASE p \in begun
      BY <1>1, <1>2, <1>4, <3>1
    <3>2. CASE p \notin begun
      BY <1>7, <1>16, <2>1, <2>2, <3>2 DEF Kept
    <3> QED
      BY <3>1, <3>2
  <2>4. k >= n
    BY <1>1, <1>2, <1>5, <2>2, <2>3
  <2>5. /\ k - n + 1 \in 1 .. Len(q) - n + 1 /\ (k - n + 1) + n - 1 = k
    BY <1>1, <1>2, <2>4
  <2>6. rest[k - n + 1] = p
    BY <1>10, <2>3, <2>5
  <2> QED
    BY <1>10, <2>5, <2>6
<1> QED
  BY <1>8, <1>9, <1>10, <1>11, <1>13, <1>15, <1>16

\* Nothing waits, nothing is being proved, nothing was asked for: so at first,
\* and after a restart.
LEMMA EmptyMemory ==
    LET nothing == [p \in ProofRequest |-> "none"]
    IN /\ <<>> \in Seq(ProofRequest) /\ nothing \in [ProofRequest -> PendingPCDStatus]
       /\ Distinct(<<>>) /\ InLine(<<>>, nothing)
       /\ Active({}, nothing) /\ Kept(<<>>, nothing)
<1> DEFINE nothing == [p \in ProofRequest |-> "none"]
<1>1. nothing \in [ProofRequest -> PendingPCDStatus] /\ \A p \in ProofRequest : nothing[p] = "none"
  BY DEF PendingPCDStatus
<1>2. <<>> \in Seq(ProofRequest) /\ 1 .. Len(<<>>) = {}
  OBVIOUS
<1> HIDE DEF nothing
<1>3. Distinct(<<>>) /\ InLine(<<>>, nothing)
  BY <1>2 DEF Distinct, InLine
<1>4. Active({}, nothing) /\ Kept(<<>>, nothing)
  BY <1>1 DEF Active, Kept
<1> QED
  BY <1>1, <1>2, <1>3, <1>4 DEF nothing

\* The server starts with an empty memory.
LEMMA QueueInit == ProofInit => QueueInv
BY EmptyMemory DEF ProofInit, QueueInv, QueueTypes

\* A request that comes to an empty queue is served, and one that finds others
\* there waits behind them.
LEMMA EnqueueStep ==
    ASSUME QueueInv, NEW p \in ProofRequest, Enqueue(p)
    PROVE  QueueInv'
<1>1. /\ proofQueue \in Seq(ProofRequest) /\ proofStatus \in [ProofRequest -> PendingPCDStatus]
      /\ proving \in SUBSET Provable
      /\ stopped' = stopped /\ dropped' = dropped /\ proofStatus[p] = "none"
  BY DEF QueueInv, QueueTypes, Enqueue
<1>2. CASE proofQueue = <<>>
  <2> DEFINE one == <<p>>
  <2>1. one \in Seq(ProofRequest) /\ Len(one) = 1 /\ one[1] = p
    OBVIOUS
  <2>2. ServeProofs(one, proofStatus, proving)
    BY <1>2 DEF Enqueue
  <2> HIDE DEF one
  <2>3. Distinct(one) /\ ToServe(one, proofStatus)
    BY <1>1, <2>1 DEF Distinct, ToServe
  <2>4. Active(proving, proofStatus)
    BY DEF QueueInv
  <2>5. ~ stopped => Kept(one, proofStatus)
    BY <1>2 DEF QueueInv, Kept
  <2> QED
    BY <1>1, <2>1, <2>2, <2>3, <2>4, <2>5, ServeKeeps DEF QueueInv, QueueTypes
<1>3. CASE proofQueue # <<>>
  <2> DEFINE longer == proofQueue'
  <2>1. /\ longer = Append(proofQueue, p) /\ proving' = proving
        /\ proofStatus' = [proofStatus EXCEPT ![p] = "queued"]
    BY <1>3 DEF Enqueue
  <2>2. /\ longer \in Seq(ProofRequest) /\ Len(longer) = Len(proofQueue) + 1
        /\ Len(proofQueue) \in Nat \ {0}
        /\ \A n \in 1 .. Len(proofQueue) : longer[n] = proofQueue[n]
        /\ longer[Len(proofQueue) + 1] = p
        /\ \A n \in 1 .. Len(proofQueue) : proofQueue[n] \in ProofRequest
    BY <1>1, <1>3, <2>1
  <2>3. /\ proofStatus' \in [ProofRequest -> PendingPCDStatus]
        /\ proofStatus'[p] = "queued"
        /\ \A r \in ProofRequest \ {p} : proofStatus'[r] = proofStatus[r]
    BY <1>1, <2>1 DEF PendingPCDStatus
  <2>4. \A n \in 1 .. Len(proofQueue) : proofQueue[n] # p
    BY <1>1 DEF QueueInv, InLine
  <2> HIDE DEF longer
  <2>5. Distinct(longer)
    BY <2>2, <2>4 DEF QueueInv, Distinct
  <2>6. InLine(longer, proofStatus')
    <3>1. SUFFICES ASSUME NEW n \in 1 .. Len(proofQueue) + 1
                   PROVE  proofStatus'[longer[n]] = IF n = 1 THEN "proving" ELSE "queued"
      BY <2>2 DEF InLine
    <3>2. CASE n \in 1 .. Len(proofQueue)
      BY <2>2, <2>3, <2>4, <3>2 DEF QueueInv, InLine
    <3>3. CASE n = Len(proofQueue) + 1
      BY <2>2, <2>3, <3>3
    <3> QED
      BY <2>2, <3>2, <3>3
  <2>7. Active(proving, proofStatus')
    BY <1>1, <2>3 DEF QueueInv, Active
  <2>8. ~ stopped => Kept(longer, proofStatus')
    <3>1. SUFFICES ASSUME ~ stopped, NEW r \in ProofRequest, 
                          proofStatus'[r] \in {"queued", "proving"}
                   PROVE  \E n \in 1 .. Len(longer) : longer[n] = r
      BY DEF Kept
    <3>2. CASE r = p
      BY <2>2, <3>2
    <3>3. CASE r # p
      <4>1. PICK n \in 1 .. Len(proofQueue) : proofQueue[n] = r
        BY <2>3, <3>1, <3>3 DEF QueueInv, Kept
      <4> QED
        BY <2>2, <4>1
    <3> QED
      BY <3>2, <3>3
  <2> QED
    BY <1>1, <2>1, <2>2, <2>3, <2>5, <2>6, <2>7, <2>8 DEF QueueInv, QueueTypes, longer
<1> QED
  BY <1>2, <1>3

\* Who ends a proof takes the head off the queue, which need not be his own
\* after a stop, and serves the rest.
LEMMA FinishStep ==
    ASSUME QueueInv, NEW p \in ProofRequest, NEW outcome \in {"complete", "error"},
           FinishProof(p, outcome)
    PROVE  QueueInv'
<1> DEFINE q == IF proofQueue = <<>> THEN <<>> ELSE Tail(proofQueue)
           status == [proofStatus EXCEPT ![p] = outcome]
           others == proving \ {p}
<1>1. /\ proofQueue \in Seq(ProofRequest) /\ proofStatus \in [ProofRequest -> PendingPCDStatus]
      /\ proving \in SUBSET Provable
      /\ stopped' = stopped /\ dropped' = dropped /\ p \in proving
  BY DEF QueueInv, QueueTypes, FinishProof
<1>2. /\ status \in [ProofRequest -> PendingPCDStatus]
      /\ status[p] = outcome
      /\ \A r \in ProofRequest \ {p} : status[r] = proofStatus[r]
  BY <1>1 DEF PendingPCDStatus
<1>3. /\ q \in Seq(ProofRequest) /\ Len(q) \in Nat
      /\ \A k \in 1 .. Len(q) : /\ k + 1 \in 1 .. Len(proofQueue)
                                /\ q[k] = proofQueue[k + 1] /\ q[k] \in ProofRequest
  <2>1. CASE proofQueue = <<>>
    BY <2>1
  <2>2. CASE proofQueue # <<>>
    <3>1. q = Tail(proofQueue)
      BY <2>2
    <3> HIDE DEF q
    <3> QED
      BY <1>1, <2>2, <3>1, TailOf
  <2> QED
    BY <2>1, <2>2
<1>4. IF q # <<>> /\ status[Head(q)] # "proving"
      THEN ServeProofs(q, status, others)
      ELSE proofQueue' = q /\ proofStatus' = status /\ proving' = others
  BY DEF FinishProof
<1>5. proofQueue # <<>> => /\ Len(proofQueue) = Len(q) + 1
                           /\ Len(proofQueue) \in Nat \ {0}
  <2>1. SUFFICES ASSUME proofQueue # <<>> PROVE /\ Len(proofQueue) = Len(q) + 1
                                                /\ Len(proofQueue) \in Nat \ {0}
    OBVIOUS
  <2>2. q = Tail(proofQueue)
    BY <2>1
  <2> HIDE DEF q
  <2> QED
    BY <1>1, <2>1, <2>2, TailOf
<1>6. proofQueue = <<>> => Len(proofQueue) = 0 /\ Len(q) = 0
  OBVIOUS
<1> HIDE DEF q, status, others
<1>7. \A k \in 1 .. Len(q) : q[k] # p /\ status[q[k]] = "queued"
  <2>1. SUFFICES ASSUME NEW k \in 1 .. Len(q) PROVE q[k] # p /\ status[q[k]] = "queued"
    OBVIOUS
  <2>2. k + 1 # 1
    BY <1>3
  <2>3. proofStatus[q[k]] = "queued"
    BY <1>3, <2>2 DEF QueueInv, InLine
  <2>4. proofStatus[p] = "proving"
    BY <1>1 DEF QueueInv, Active
  <2> QED
    BY <1>2, <1>3, <2>3, <2>4
<1>8. Distinct(q)
  <2>1. SUFFICES ASSUME NEW a \in 1 .. Len(q), NEW b \in 1 .. Len(q), q[a] = q[b]
                 PROVE  a = b
    BY DEF Distinct
  <2>2. a + 1 = b + 1
    BY <1>3, <2>1 DEF QueueInv, Distinct
  <2> QED
    BY <1>3, <2>2
<1>9. ToServe(q, status)
  BY <1>7 DEF ToServe
<1>10. Active(others, status)
  BY <1>1, <1>2 DEF QueueInv, Active, others
<1>11. ~ stopped => Kept(q, status)
  <2>1. SUFFICES ASSUME ~ stopped, NEW r \in ProofRequest, status[r] \in {"queued", "proving"}
                 PROVE  \E k \in 1 .. Len(q) : q[k] = r
    BY DEF Kept
  <2>2. r # p
    BY <1>2, <2>1
  <2>3. PICK n \in 1 .. Len(proofQueue) : proofQueue[n] = r
    BY <1>2, <2>1, <2>2 DEF QueueInv, Kept
  <2>4. PICK m \in 1 .. Len(proofQueue) : proofQueue[m] = p
    BY <1>1, <2>1 DEF QueueInv, Kept, Active
  <2>5. proofStatus[p] = "proving"
    BY <1>1 DEF QueueInv, Active
  <2>6. m = 1
    BY <2>4, <2>5 DEF QueueInv, InLine
  <2>7. n # 1
    BY <2>2, <2>3, <2>4, <2>6
  <2>8. n - 1 \in 1 .. Len(q) /\ (n - 1) + 1 = n
    BY <1>3, <1>5, <1>6, <2>3, <2>7
  <2> QED
    BY <1>3, <2>3, <2>8
<1>12. others \in SUBSET Provable
  BY <1>1 DEF others
<1>13. CASE q # <<>> /\ status[Head(q)] # "proving"
  BY <1>1, <1>2, <1>3, <1>4, <1>8, <1>9, <1>10, <1>11, <1>12, <1>13, ServeKeeps
  DEF QueueInv, QueueTypes
<1>14. CASE q = <<>>
  <2>1. proofQueue' = q /\ proofStatus' = status /\ proving' = others
    BY <1>4, <1>14
  <2>2. InLine(q, status)
    BY <1>14 DEF InLine
  <2> QED
    BY <1>1, <1>2, <1>3, <1>8, <1>10, <1>11, <1>12, <2>1, <2>2 DEF QueueInv, QueueTypes
<1>15. q # <<>> => status[Head(q)] # "proving"
  <2>1. SUFFICES ASSUME q # <<>> PROVE status[Head(q)] # "proving"
    OBVIOUS
  <2>2. Head(q) = q[1] /\ 1 \in 1 .. Len(q)
    BY <1>3, <2>1
  <2> QED
    BY <1>7, <2>2
<1> QED
  BY <1>13, <1>14, <1>15

\* Every step keeps the invariant.
LEMMA QueueStep ==
    ASSUME QueueInv, [ProofNext]_proofVars
    PROVE  QueueInv'
<1>1. CASE StopProving
  <2>1. /\ proofQueue' = <<>> /\ stopped' = TRUE
        /\ dropped' = {proofQueue[n] : n \in 1 .. Len(proofQueue)} \ proving
        /\ proofStatus' = proofStatus /\ proving' = proving
    BY <1>1 DEF StopProving
  <2>2. dropped' \subseteq ProofRequest
    BY <2>1 DEF QueueInv, QueueTypes
  <2> QED
    BY <2>1, <2>2 DEF QueueInv, QueueTypes, Distinct, InLine, Active
<1>2. CASE RestartProving
  BY <1>2, EmptyMemory DEF RestartProving, QueueInv, QueueTypes
<1>3. ASSUME NEW p \in ProofRequest, Enqueue(p) PROVE QueueInv'
  BY <1>3, EnqueueStep
<1>4. ASSUME NEW p \in ProofRequest, NEW outcome \in {"complete", "error"},
             FinishProof(p, outcome)
      PROVE  QueueInv'
  BY <1>4, FinishStep
<1>5. CASE UNCHANGED proofVars
  BY <1>5 DEF proofVars, QueueInv, QueueTypes
<1> QED
  BY <1>1, <1>2, <1>3, <1>4, <1>5 DEF ProofNext

\* The invariant always holds.
LEMMA QueueInvariant == ProofSpec => []QueueInv
<1>1. QueueInv /\ [ProofNext]_proofVars => QueueInv'
  BY QueueStep
<1> QED
  BY QueueInit, <1>1, PTL DEF ProofSpec

\* Who waits once takes up no more places than there are requests.
LEMMA QueueIsShort ==
    ASSUME NEW q \in Seq(ProofRequest), Distinct(q)
    PROVE  Len(q) <= Cardinality(ProofRequest)
<1>1. Len(q) \in Nat /\ q \in [1 .. Len(q) -> ProofRequest]
  OBVIOUS
<1>2. q \in Injection(1 .. Len(q), ProofRequest)
  <2> DEFINE places == 1 .. Len(q)
  <2>1. q \in [places -> ProofRequest] /\ \A n, k \in places : q[n] = q[k] => n = k
    BY <1>1 DEF Distinct
  <2> HIDE DEF places
  <2>2. q \in Injection(places, ProofRequest)
    BY <2>1 DEF Injection, IsInjective
  <2> QED
    BY <2>2 DEF places
<1>3. Cardinality(1 .. Len(q)) <= Cardinality(ProofRequest)
  BY <1>2, ProofAssumption, FS_Injection, Zenon
<1>4. Cardinality(1 .. Len(q)) = Len(q)
  BY <1>1, FS_Interval
<1> QED
  BY <1>3, <1>4

(* ProofTypeOK: the queue never holds more places than there are requests,  *)
(* since no request is in it twice.                                         *)
THEOREM ProofTypeCorrect == ProofSpec => []ProofTypeOK
<1>1. QueueInv => ProofTypeOK
  BY QueueIsShort DEF QueueInv, QueueTypes, ProofTypeOK
<1> QED
  BY <1>1, QueueInvariant, PTL

\* What the invariant says of the turns.
LEMMA InTurn == QueueInv => ProofsTakeTurns
<1>1. SUFFICES ASSUME QueueInv, ~ stopped
               PROVE  /\ proving = IF proofQueue = <<>> THEN {} ELSE {Head(proofQueue)}
                      /\ \A p \in ProofRequest :
                            Cardinality({n \in 1 .. Len(proofQueue) : proofQueue[n] = p})
                              = IF proofStatus[p] \in Settled THEN 0 ELSE 1
  BY DEF ProofsTakeTurns
<1>2. /\ proofQueue \in Seq(ProofRequest) /\ proving \subseteq ProofRequest
      /\ Len(proofQueue) \in Nat
      /\ \A n \in 1 .. Len(proofQueue) : proofQueue[n] \in ProofRequest
  BY <1>1, ProofAssumption DEF QueueInv, QueueTypes
<1>3. proving = IF proofQueue = <<>> THEN {} ELSE {Head(proofQueue)}
  <2>1. \A p \in proving : \E n \in 1 .. Len(proofQueue) : n = 1 /\ proofQueue[n] = p
    <3>1. SUFFICES ASSUME NEW p \in proving
                   PROVE  \E n \in 1 .. Len(proofQueue) : n = 1 /\ proofQueue[n] = p
      OBVIOUS
    <3>2. proofStatus[p] = "proving"
      BY <1>1, <1>2 DEF QueueInv, Active
    <3>3. PICK n \in 1 .. Len(proofQueue) : proofQueue[n] = p
      BY <1>1, <1>2, <3>2 DEF QueueInv, Kept
    <3>4. n = 1
      BY <1>1, <3>2, <3>3 DEF QueueInv, InLine
    <3> QED
      BY <3>3, <3>4
  <2>2. CASE proofQueue = <<>>
    BY <2>1, <2>2
  <2>3. CASE proofQueue # <<>>
    <3>1. Head(proofQueue) = proofQueue[1] /\ 1 \in 1 .. Len(proofQueue)
      BY <1>2, <2>3
    <3>2. proofQueue[1] \in proving
      BY <1>1, <1>2, <3>1 DEF QueueInv, InLine, Active
    <3>3. proving = {proofQueue[1]}
      BY <2>1, <3>2
    <3> QED
      BY <2>3, <3>1, <3>3
  <2> QED
    BY <2>2, <2>3
<1>4. ASSUME NEW p \in ProofRequest
      PROVE  Cardinality({n \in 1 .. Len(proofQueue) : proofQueue[n] = p})
               = IF proofStatus[p] \in Settled THEN 0 ELSE 1
  <2> DEFINE places == {n \in 1 .. Len(proofQueue) : proofQueue[n] = p}
  <2>1. CASE proofStatus[p] \in Settled
    <3>1. places = {}
      BY <1>1, <2>1 DEF QueueInv, InLine, Settled
    <3> QED
      BY <2>1, <3>1, FS_EmptySet
  <2>2. CASE proofStatus[p] \notin Settled
    <3>1. proofStatus[p] \in {"queued", "proving"}
      BY <1>1, <2>2 DEF QueueInv, QueueTypes, PendingPCDStatus, Settled
    <3>2. PICK n \in 1 .. Len(proofQueue) : proofQueue[n] = p
      BY <1>1, <3>1 DEF QueueInv, Kept
    <3>3. places = {n}
      BY <1>1, <3>2 DEF QueueInv, Distinct
    <3>4. Cardinality({n}) = 1
      BY FS_Singleton
    <3> QED
      BY <2>2, <3>3, <3>4
  <2> QED
    BY <2>1, <2>2
<1> QED
  BY <1>3, <1>4

(* Proofs are executed one at a time (provingService.ts): there is a proof, *)
(* that of the head of the queue, while requests wait, and no request waits *)
(* twice, is lost, or waits although it is done.                            *)
THEOREM OneAtATime == ProofSpec => []ProofsTakeTurns
BY QueueInvariant, InTurn, PTL

-----------------------------------------------------------------------------
(***************************************************************************)
(* The parts together.                                                     *)
(***************************************************************************)

\* A step of one part leaves the others as they are.
LEMMA PipelinesStepApart ==
    ASSUME [PipelinesNext]_partVars
    PROVE  /\ [PipelineNext]_pipelineVars /\ [CheckInNext]_checkInVars
           /\ [GroupNext]_groupVars /\ [ProofNext]_proofVars
<1>1. CASE Executor(PipelineNext)
  BY <1>1 DEF Executor
<1>2. CASE CheckIn(CheckInNext)
  BY <1>2 DEF CheckIn
<1>3. CASE Groups(GroupNext)
  BY <1>3 DEF Groups
<1>4. CASE Proving(ProofNext)
  BY <1>4 DEF Proving
<1>5. CASE UNCHANGED partVars
  BY <1>5 DEF partVars
<1> QED
  BY <1>1, <1>2, <1>3, <1>4, <1>5 DEF PipelinesNext

(* The executor, the check-in of tickets, the Semaphore groups and the      *)
(* proving service are composed without touching each other: whatever is    *)
(* proved of each of them alone holds of all.                               *)
THEOREM PipelinesAreApart ==
    PipelinesSpec => PipelineSpec /\ CheckInSpec /\ GroupSpec /\ ProofSpec
<1>1. PipelinesInit => PipelineInit /\ CheckInInit /\ GroupInit /\ ProofInit
  BY DEF PipelinesInit
<1>2. [PipelinesNext]_partVars
        => /\ [PipelineNext]_pipelineVars /\ [CheckInNext]_checkInVars
           /\ [GroupNext]_groupVars /\ [ProofNext]_proofVars
  BY PipelinesStepApart
<1>3. PipelinesSpec => PipelinesInit /\ [][PipelinesNext]_partVars
  BY PTL DEF PipelinesSpec
<1> QED
  BY <1>1, <1>2, <1>3, PTL DEF PipelineSpec, CheckInSpec, GroupSpec, ProofSpec

(* Types of every part of the generic issuance and of the proving service.  *)
THEOREM PipelinesTypeCorrect == PipelinesSpec => []PipelinesTypeOK
BY PipelinesAreApart, PipelineTypeCorrect, CheckInTypeCorrect, GroupTypeCorrect,
   ProofTypeCorrect, PTL
DEF PipelinesTypeOK


=============================================================================
