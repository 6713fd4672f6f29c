-------------------------- MODULE Services_proofs --------------------------
(***************************************************************************)
(* Proofs about the services of the server: FrogFaucet, RateLimit and      *)
(* PoapClaims, and, with Accounts_proofs, about the four together, for any *)
(* users, rows, requests in flight and bounds.                             *)
(***************************************************************************)
EXTENDS MC_Services, Accounts_proofs, FiniteSetTheorems, TLAPS

(***************************************************************************)
(* The faucet: cooldowns. Of the requests that wrote their time to a row,  *)
(* at most one may still be issued a frog for it (OnlyOneIsLive): one that *)
(* comes while it goes on reads a time that is too recent, although a late *)
(* query may have set the row back by a request's duration (Slack). So the *)
(* time it gives back is one that it read itself, and no frog was issued   *)
(* since (PollOK). A cooldown is longer than three requests and a second   *)
(* (FrogAssumption).                                                       *)
(***************************************************************************)

Cool(poll) == FrogCooldown[poll.row[2]]

\* What a time in a row may be behind the one its request read, and by which a
\* late query may have set it back.
Slack == FrogSecond + FrogLatency

\* A request that may yet use up a turn: it read a time long enough ago.
Live(poll) == /\ poll.at \in {"checking", "won", "giving", "issuing"}
              /\ AsTime(poll.old) + Cool(poll) <= poll.turn + FrogLatency

\* What is known of a request that read its time, given the time in its row and
\* the frogs issued for it.
PollOK(poll, clock, last, given) ==
    /\ poll.at \notin {"idle", "asked"} =>
         poll.turn <= clock /\ clock <= poll.turn + FrogLatency
    /\ poll.at \notin {"idle", "asked", "sent"} =>
         /\ AsTime(poll.old) <= clock
         /\ poll.at \in {"won", "giving", "issuing"} =>
              Live(poll) /\ AsTime(poll.old) + Cool(poll) <= poll.checked
         /\ Live(poll) =>
              /\ poll.turn < AsTime(last) + Slack
              /\ \A k \in DOMAIN given : given[k].turn < AsTime(poll.old) + Slack

PollsOK == \A r \in FrogRequest :
    PollOK(frogPoll[r], frogClock, lastFetched[frogPoll[r].row], frogsGiven[frogPoll[r].row])

OnlyOneIsLive == \A r, s \in FrogRequest :
    Live(frogPoll[r]) /\ Live(frogPoll[s]) /\ frogPoll[r].row = frogPoll[s].row => r = s

RowsOK == \A row \in FrogRow :
    /\ AsTime(lastFetched[row]) <= frogClock
    /\ \A k \in DOMAIN frogsGiven[row] :
         /\ frogsGiven[row][k].turn <= frogClock
         /\ frogsGiven[row][k].turn < AsTime(lastFetched[row]) + Slack

FrogInv == FrogTypeOK /\ PollsOK /\ OnlyOneIsLive /\ RowsOK /\ FrogsAreApart

-----------------------------------------------------------------------------
\* A request that is over is well-typed, and waits for nothing.
LEMMA IdleFacts ==
    /\ FrogIdle \in FrogPoll /\ FrogIdle.at = "idle" /\ ~ Live(FrogIdle)
    /\ FrogIdle.row \in FrogRow
<1>1. FrogRow # {}
  <2>1. (\E u \in FrogUser : TRUE) /\ (\E f \in FrogFeed : TRUE)
    BY FrogAssumption
  <2>2. PICK u \in FrogUser : TRUE
    BY <2>1
  <2>3. PICK f \in FrogFeed : TRUE
    BY <2>1
  <2>4. <<u, f>> \in FrogRow
    BY DEF FrogRow
  <2> QED
    BY <2>4
<1>2. (CHOOSE row \in FrogRow : TRUE) \in FrogRow
  BY <1>1
<1> QED
  BY <1>2 DEF FrogIdle, FrogPoll, Live

\* The cooldown of a row is a number, longer than three requests and a second.
LEMMA CoolFacts ==
    /\ FrogLatency \in Nat /\ FrogSecond \in Nat /\ Slack \in Nat
    /\ Slack = FrogSecond + FrogLatency
    /\ \A row \in FrogRow :
         /\ FrogCooldown[row[2]] \in Nat
         /\ FrogCooldown[row[2]] >= 2 * FrogLatency + Slack
BY FrogAssumption DEF FrogRow, Slack

\* A time that is written without the part of a second is at most that earlier.
LEMMA SecondFacts ==
    /\ \A n \in Nat : AsTime(n) \in Nat
    /\ \A t \in Nat : /\ WholeSeconds(t) \in Nat
                      /\ AsTime(WholeSeconds(t)) <= t
                      /\ t < AsTime(WholeSeconds(t)) + FrogSecond
<1>1. FrogSecond \in Nat \ {0}
  BY FrogAssumption
<1>2. ASSUME NEW n \in Nat PROVE n * FrogSecond \in Nat
  BY <1>1
<1>3. ASSUME NEW t \in Nat
      PROVE  /\ t \div FrogSecond \in Nat
             /\ (t \div FrogSecond) * FrogSecond <= t
             /\ t < (t \div FrogSecond) * FrogSecond + FrogSecond
  BY <1>1
<1> QED
  BY <1>2, <1>3 DEF AsTime, WholeSeconds

\* The fields of a request, and its cooldown.
LEMMA PollFacts ==
    ASSUME NEW poll \in FrogPoll
    PROVE  /\ poll.row \in FrogRow /\ poll.turn \in Nat /\ poll.old \in Nat
           /\ poll.checked \in Nat /\ poll.points \in {0, 1}
           /\ Cool(poll) \in Nat /\ Cool(poll) >= 2 * FrogLatency + Slack
           /\ AsTime(poll.old) \in Nat
BY CoolFacts, SecondFacts DEF FrogPoll, Cool

\* A frog's point is counted.
LEMMA PointsGrow ==
    ASSUME NEW given \in [free : Nat, paid : Nat], NEW points \in {0, 1}
    PROVE  /\ [given EXCEPT !.free = given.free + points] \in [free : Nat, paid : Nat]
           /\ [given EXCEPT !.paid = given.paid + points] \in [free : Nat, paid : Nat]
<1>1. given.free + points \in Nat /\ given.paid + points \in Nat
  <2>1. given.free \in Nat /\ given.paid \in Nat
    OBVIOUS
  <2>2. points \in Nat
    OBVIOUS
  <2> QED
    BY <2>1, <2>2
<1> QED
  BY <1>1

Frog == [turn : Nat, checked : Nat]

\* A history of frogs, before and after one more.
LEMMA HistoryFacts ==
    ASSUME NEW given \in Seq(Frog)
    PROVE  /\ Len(given) \in Nat /\ DOMAIN given = 1 .. Len(given)
           /\ \A k \in DOMAIN given : given[k].turn \in Nat /\ given[k].checked \in Nat
<1>1. \A k \in 1 .. Len(given) : given[k] \in Frog
  OBVIOUS
<1> QED
  BY <1>1 DEF Frog

\* A frog that is added to a history is its last one.
LEMMA OneMore ==
    ASSUME NEW given \in Seq(Frog), NEW frog \in Frog
    PROVE  \A k \in DOMAIN Append(given, frog) :
             \/ k \in DOMAIN given /\ Append(given, frog)[k] = given[k]
             \/ k = Len(given) + 1 /\ Append(given, frog)[k] = frog
<1>1. Len(given) \in Nat /\ DOMAIN given = 1 .. Len(given)
  OBVIOUS
<1>2. DOMAIN Append(given, frog) = 1 .. Len(given) + 1
  OBVIOUS
<1>3. \A k \in 1 .. Len(given) + 1 : k \in 1 .. Len(given) \/ k = Len(given) + 1
  BY <1>1
<1> QED
  BY <1>1, <1>2, <1>3

\* The rows, requests and histories are well-typed at first.
LEMMA FrogTypeInit == FrogInit => FrogTypeOK
BY IdleFacts, FrogAssumption DEF FrogInit, FrogTypeOK

\* Every step keeps the types.
LEMMA FrogTypeStep == FrogTypeOK /\ [FrogNext]_frogVars => FrogTypeOK'
<1> SUFFICES ASSUME FrogTypeOK, [FrogNext]_frogVars PROVE FrogTypeOK'
  OBVIOUS
<1> USE DEF FrogTypeOK
<1>1. CASE FrogTick
  BY <1>1 DEF FrogTick
<1>2. ASSUME NEW r \in FrogRequest, NEW row \in FrogRow, AskFrog(r, row)
      PROVE  FrogTypeOK'
  <2>1. [FrogIdle EXCEPT !.at = "asked", !.row = row] \in FrogPoll
    BY IdleFacts DEF FrogPoll
  <2> QED
    BY <1>2, <2>1 DEF AskFrog
<1>0. ASSUME NEW r \in FrogRequest, SendTurn(r) PROVE FrogTypeOK'
  <2>1. [frogPoll[r] EXCEPT !.at = "sent", !.turn = frogClock] \in FrogPoll
    BY DEF FrogPoll
  <2> QED
    BY <1>0, <2>1 DEF SendTurn
<1>3. ASSUME NEW r \in FrogRequest, TakeTurn(r) PROVE FrogTypeOK'
  <2>1. frogPoll[r] \in FrogPoll /\ frogPoll[r].row \in FrogRow
    BY PollFacts
  <2>2. lastFetched[frogPoll[r].row] \in Nat /\ WholeSeconds(frogPoll[r].turn) \in Nat
    BY <2>1, PollFacts, SecondFacts
  <2>3. [frogPoll[r] EXCEPT !.at = "checking",
                            !.old = lastFetched[frogPoll[r].row]] \in FrogPoll
    BY <2>1, <2>2 DEF FrogPoll
  <2> QED
    BY <1>3, <2>1, <2>2, <2>3 DEF TakeTurn, WriteTurn
<1>4. ASSUME NEW r \in FrogRequest, WinTurn(r) PROVE FrogTypeOK'
  <2>1. [frogPoll[r] EXCEPT !.at = "won", !.checked = frogClock] \in FrogPoll
    BY DEF FrogPoll
  <2> QED
    BY <1>4, <2>1 DEF WinTurn
<1>5. ASSUME NEW r \in FrogRequest, RefuseTurn(r) \/ FrogFails(r) PROVE FrogTypeOK'
  BY <1>5, IdleFacts DEF RefuseTurn, FrogFails
<1>6. ASSUME NEW r \in FrogRequest, NEW points \in {0, 1}, ScoreFrog(r, points)
      PROVE  FrogTypeOK'
  <2>1. frogPoll[r].row[1] \in FrogUser
    BY PollFacts DEF FrogRow
  <2>2. \A stage \in {"giving", "issuing"} :
           [frogPoll[r] EXCEPT !.at = stage, !.points = points] \in FrogPoll
    BY DEF FrogPoll
  <2>3. frogScore' \in [FrogUser -> Nat]
    BY <1>6, <2>1 DEF ScoreFrog
  <2> QED
    BY <1>6, <2>2, <2>3, IdleFacts DEF ScoreFrog
<1>7. ASSUME NEW r \in FrogRequest, GiveTurnBack(r) PROVE FrogTypeOK'
  <2>1. [frogPoll[r] EXCEPT !.at = "free"] \in FrogPoll
    BY DEF FrogPoll
  <2>2. frogPoll[r].row \in FrogRow /\ frogPoll[r].old \in Nat
    BY PollFacts
  <2> QED
    BY <1>7, <2>1, <2>2 DEF GiveTurnBack
<1>8. ASSUME NEW r \in FrogRequest, IssueFreeFrog(r) PROVE FrogTypeOK'
  <2>1. frogPoll[r].row[1] \in FrogUser /\ frogPoll[r].points \in {0, 1}
    BY PollFacts DEF FrogRow
  <2> DEFINE user == frogPoll[r].row[1]
             given == [pointsGiven[user] EXCEPT
                         !.free = pointsGiven[user].free + frogPoll[r].points]
  <2>2. given \in [free : Nat, paid : Nat]
    BY <2>1, PointsGrow
  <2>3. pointsGiven' = [pointsGiven EXCEPT ![user] = given]
    BY <1>8, <2>1 DEF IssueFreeFrog
  <2>4. pointsGiven' \in [FrogUser -> [free : Nat, paid : Nat]]
    BY <2>1, <2>2, <2>3
  <2> QED
    BY <1>8, <2>4, IdleFacts DEF IssueFreeFrog
<1>9. ASSUME NEW r \in FrogRequest, IssueFrog(r) PROVE FrogTypeOK'
  <2>1. /\ frogPoll[r].row \in FrogRow /\ frogPoll[r].points \in {0, 1}
        /\ frogPoll[r].turn \in Nat /\ frogPoll[r].checked \in Nat
    BY PollFacts
  <2>0. frogPoll[r].row[1] \in FrogUser
    BY <2>1 DEF FrogRow
  <2> DEFINE user == frogPoll[r].row[1]
             frog == [turn |-> frogPoll[r].turn, checked |-> frogPoll[r].checked]
             given == [pointsGiven[user] EXCEPT
                         !.paid = pointsGiven[user].paid + frogPoll[r].points]
  <2>2. given \in [free : Nat, paid : Nat]
    BY <2>0, <2>1, PointsGrow
  <2>3. pointsGiven' = [pointsGiven EXCEPT ![user] = given]
    BY <1>9, <2>0 DEF IssueFrog
  <2>4. Append(frogsGiven[frogPoll[r].row], frog) \in Seq([turn : Nat, checked : Nat])
    BY <2>1
  <2>5. frogsGiven' = [frogsGiven EXCEPT ![frogPoll[r].row] =
                         Append(frogsGiven[frogPoll[r].row], frog)]
    BY <1>9, <2>1 DEF IssueFrog
  <2>6. frogsGiven' \in [FrogRow -> Seq([turn : Nat, checked : Nat])]
    BY <2>1, <2>4, <2>5
  <2>7. pointsGiven' \in [FrogUser -> [free : Nat, paid : Nat]]
    BY <2>0, <2>2, <2>3
  <2> QED
    BY <1>9, <2>6, <2>7, IdleFacts DEF IssueFrog
<1>10. CASE UNCHANGED frogVars
  BY <1>10 DEF frogVars
<1> QED
  BY <1>0, <1>1, <1>2, <1>3, <1>4, <1>5, <1>6, <1>7, <1>8, <1>9, <1>10 DEF FrogNext

(* FrogTypeOK: every variable keeps its type.                               *)
THEOREM FrogTypeCorrect == FrogSpec => []FrogTypeOK
BY FrogTypeInit, FrogTypeStep, PTL DEF FrogSpec

-----------------------------------------------------------------------------
\* At first nothing is known that could be wrong.
LEMMA FrogInvInit == FrogInit => FrogInv
<1> SUFFICES ASSUME FrogInit PROVE FrogInv
  OBVIOUS
<1>1. FrogTypeOK
  BY FrogTypeInit
<1>2. \A r \in FrogRequest : frogPoll[r].at = "idle"
  BY IdleFacts DEF FrogInit
<1>3. \A row \in FrogRow : AsTime(lastFetched[row]) <= frogClock /\ frogsGiven[row] = <<>>
  <2>1. AsTime(0) = 0
    BY FrogAssumption DEF AsTime
  <2> QED
    BY <1>1, <2>1 DEF FrogInit, FrogTypeOK
<1>4. PollsOK /\ OnlyOneIsLive
  BY <1>2 DEF PollsOK, PollOK, OnlyOneIsLive, Live
<1>5. RowsOK /\ FrogsAreApart
  BY <1>3 DEF RowsOK, FrogsAreApart
<1> QED
  BY <1>1, <1>4, <1>5 DEF FrogInv

\* A step of a request that leaves the rows and the history alone, and does not
\* make it live, keeps the invariant if what is known of the request stays right.
LEMMA PollMoves ==
    ASSUME FrogInv, FrogTypeOK', NEW r \in FrogRequest,
           UNCHANGED <<frogClock, lastFetched, frogsGiven>>,
           \A x \in FrogRequest : x # r => frogPoll'[x] = frogPoll[x],
           Live(frogPoll'[r]) => Live(frogPoll[r]) /\ frogPoll'[r].row = frogPoll[r].row,
           PollOK(frogPoll'[r], frogClock, lastFetched[frogPoll'[r].row],
                  frogsGiven[frogPoll'[r].row])
    PROVE  FrogInv'
<1>1. PollsOK'
  <2>1. ASSUME NEW x \in FrogRequest
        PROVE  PollOK(frogPoll'[x], frogClock', lastFetched'[frogPoll'[x].row],
                      frogsGiven'[frogPoll'[x].row])
    <3>1. CASE x = r
      BY <3>1
    <3>2. CASE x # r
      BY <3>2 DEF FrogInv, PollsOK
    <3> QED
      BY <3>1, <3>2
  <2> QED
    BY <2>1 DEF PollsOK
<1>2. OnlyOneIsLive'
  <2>1. \A x \in FrogRequest : Live(frogPoll'[x]) =>
           Live(frogPoll[x]) /\ frogPoll'[x].row = frogPoll[x].row
    OBVIOUS
  <2> QED
    BY <2>1 DEF FrogInv, OnlyOneIsLive
<1>3. RowsOK' /\ FrogsAreApart'
  BY DEF FrogInv, RowsOK, FrogsAreApart
<1> QED
  BY <1>1, <1>2, <1>3 DEF FrogInv

\* A request that is over, or has not taken its turn, is never live.
LEMMA RestIsOK ==
    ASSUME NEW poll, poll.at \in {"idle", "asked", "free"},
           NEW clock, NEW last, NEW given
    PROVE  /\ ~ Live(poll)
           /\ poll.at # "free" => PollOK(poll, clock, last, given)
BY DEF Live, PollOK

\* Time passes.
LEMMA TickStep == FrogInv /\ FrogTypeOK' /\ FrogTick => FrogInv'
<1> SUFFICES ASSUME FrogInv, FrogTypeOK', FrogTick PROVE FrogInv'
  OBVIOUS
<1>1. UNCHANGED <<lastFetched, frogPoll, frogsGiven>> /\ frogClock' = frogClock + 1
  BY DEF FrogTick
<1>2. frogClock \in Nat
  BY DEF FrogInv, FrogTypeOK
<1>3. PollsOK'
  <2>1. ASSUME NEW r \in FrogRequest
        PROVE  PollOK(frogPoll[r], frogClock + 1, lastFetched[frogPoll[r].row],
                      frogsGiven[frogPoll[r].row])
    <3>1. PollOK(frogPoll[r], frogClock, lastFetched[frogPoll[r].row],
                 frogsGiven[frogPoll[r].row])
      BY DEF FrogInv, PollsOK
    <3>2. frogPoll[r].at \notin {"idle", "asked"} =>
             frogClock < frogPoll[r].turn + FrogLatency
      BY DEF FrogTick
    <3>3. frogPoll[r].turn \in Nat /\ FrogLatency \in Nat
      BY PollFacts, CoolFacts DEF FrogInv, FrogTypeOK
    <3>4. frogPoll[r].at \notin {"idle", "asked"} =>
             /\ frogPoll[r].turn <= frogClock + 1
             /\ frogClock + 1 <= frogPoll[r].turn + FrogLatency
      BY <1>2, <3>1, <3>2, <3>3 DEF PollOK
    <3>5. AsTime(frogPoll[r].old) <= frogClock => AsTime(frogPoll[r].old) <= frogClock + 1
      BY <1>2, PollFacts DEF FrogInv, FrogTypeOK
    <3> QED
      BY <3>1, <3>4, <3>5 DEF PollOK
  <2> QED
    BY <1>1, <2>1 DEF PollsOK
<1>4. OnlyOneIsLive' /\ FrogsAreApart'
  BY <1>1 DEF FrogInv, OnlyOneIsLive, FrogsAreApart
<1>5. RowsOK'
  <2>1. ASSUME NEW row \in FrogRow
        PROVE  /\ AsTime(lastFetched[row]) <= frogClock + 1
               /\ \A k \in DOMAIN frogsGiven[row] :
                    frogsGiven[row][k].turn <= frogClock + 1
    <3>1. /\ AsTime(lastFetched[row]) \in Nat
          /\ \A k \in DOMAIN frogsGiven[row] : frogsGiven[row][k].turn \in Nat
      BY HistoryFacts, SecondFacts DEF FrogInv, FrogTypeOK, Frog
    <3> QED
      BY <1>2, <3>1 DEF FrogInv, RowsOK
  <2> QED
    BY <1>1, <2>1 DEF FrogInv, RowsOK
<1> QED
  BY <1>3, <1>4, <1>5 DEF FrogInv


\* A request takes its turn: it is not live while another one is, since the time
\* it reads is then at most the durations of three requests and a second ago.
LEMMA TurnStep ==
    ASSUME FrogInv, FrogTypeOK', NEW r \in FrogRequest, TakeTurn(r)
    PROVE  FrogInv'
<1> DEFINE row == frogPoll[r].row
           time == frogPoll[r].turn
           p == frogPoll'[r]
<1>1. /\ frogPoll[r] \in FrogPoll /\ row \in FrogRow /\ frogPoll[r].at = "sent"
      /\ frogClock \in Nat /\ lastFetched[row] \in Nat /\ time \in Nat
      /\ FrogLatency \in Nat /\ FrogSecond \in Nat /\ Slack = FrogSecond + FrogLatency
  BY PollFacts, CoolFacts DEF FrogInv, FrogTypeOK, TakeTurn, WriteTurn
<1>2. p.at = "checking" /\ p.turn = time /\ p.old = lastFetched[row] /\ p.row = row
  BY <1>1 DEF TakeTurn, WriteTurn, FrogInv, FrogTypeOK, FrogPoll
<1>3. /\ \A x \in FrogRequest : x # r => frogPoll'[x] = frogPoll[x]
      /\ UNCHANGED <<frogClock, frogsGiven>>
      /\ lastFetched'[row] = WholeSeconds(time)
      /\ \A x \in FrogRow : x # row => lastFetched'[x] = lastFetched[x]
  BY <1>1 DEF TakeTurn, WriteTurn, FrogInv, FrogTypeOK
<1>4. time <= frogClock /\ frogClock <= time + FrogLatency
  BY <1>1 DEF FrogInv, PollsOK, PollOK
<1>5. /\ AsTime(lastFetched'[row]) \in Nat /\ AsTime(lastFetched'[row]) <= frogClock
      /\ \A t \in Nat : t <= frogClock => t < AsTime(lastFetched'[row]) + Slack
  <2>1. /\ AsTime(lastFetched'[row]) \in Nat /\ AsTime(lastFetched'[row]) <= time
        /\ time < AsTime(lastFetched'[row]) + FrogSecond
    BY <1>1, <1>3, SecondFacts
  <2> HIDE DEF time
  <2> QED
    BY <1>1, <1>4, <2>1
<1>6. ASSUME NEW x \in FrogRequest, x # r
      PROVE  /\ PollOK(frogPoll[x], frogClock, lastFetched'[frogPoll[x].row],
                       frogsGiven[frogPoll[x].row])
             /\ Live(frogPoll[x]) /\ frogPoll[x].row = row => ~ Live(p)
  <2>1. /\ frogPoll[x].row \in FrogRow /\ frogPoll[x].turn \in Nat
        /\ Cool(frogPoll[x]) \in Nat /\ Cool(frogPoll[x]) >= 2 * FrogLatency + Slack
        /\ AsTime(lastFetched[row]) \in Nat
    BY <1>1, PollFacts, SecondFacts DEF FrogInv, FrogTypeOK
  <2>2. PollOK(frogPoll[x], frogClock, lastFetched[frogPoll[x].row],
               frogsGiven[frogPoll[x].row])
    BY DEF FrogInv, PollsOK
  <2>3. PollOK(frogPoll[x], frogClock, lastFetched'[frogPoll[x].row],
               frogsGiven[frogPoll[x].row])
    <3>1. CASE frogPoll[x].row # row
      BY <1>3, <2>1, <2>2, <3>1
    <3>2. CASE frogPoll[x].row = row
      <4>1. Live(frogPoll[x]) => frogPoll[x].turn < AsTime(lastFetched'[row]) + Slack
        BY <1>5, <2>1, <2>2 DEF PollOK, Live
      <4> QED
        BY <2>2, <3>2, <4>1 DEF PollOK
    <3> QED
      BY <3>1, <3>2
  <2>4. ASSUME Live(frogPoll[x]), frogPoll[x].row = row PROVE ~ Live(p)
    <3>1. /\ frogPoll[x].turn < AsTime(lastFetched[row]) + Slack
          /\ frogClock <= frogPoll[x].turn + FrogLatency
      BY <2>2, <2>4 DEF PollOK, Live
    <3>2. Cool(p) = Cool(frogPoll[x])
      BY <1>2, <2>4 DEF Cool
    <3>3. time + FrogLatency < AsTime(lastFetched[row]) + Cool(p)
      <4> DEFINE last == AsTime(lastFetched[row])
                 cool == Cool(frogPoll[x])
                 turn == frogPoll[x].turn
      <4>1. /\ last \in Nat /\ cool \in Nat /\ turn \in Nat /\ time \in Nat
            /\ Slack \in Nat /\ cool >= 2 * FrogLatency + Slack
            /\ turn < last + Slack /\ frogClock <= turn + FrogLatency
            /\ time <= frogClock /\ frogClock \in Nat /\ FrogLatency \in Nat
        BY <1>1, <1>4, <2>1, <3>1, CoolFacts
      <4> HIDE DEF last, cool, turn, time
      <4>2. time + FrogLatency < last + cool
        BY <4>1
      <4> QED
        BY <3>2, <4>2 DEF last, cool
    <3>4. time + FrogLatency \in Nat /\ AsTime(lastFetched[row]) + Cool(p) \in Nat
      BY <1>1, <2>1, <3>2
    <3> QED
      BY <1>2, <3>3, <3>4 DEF Live
  <2> QED
    BY <2>3, <2>4
<1>11. PollOK(p, frogClock, lastFetched'[p.row], frogsGiven[p.row])
  <2>1. /\ AsTime(lastFetched[row]) <= frogClock
        /\ \A k \in DOMAIN frogsGiven[row] :
             frogsGiven[row][k].turn < AsTime(lastFetched[row]) + Slack
    BY <1>1 DEF FrogInv, RowsOK
  <2>2. p.turn < AsTime(lastFetched'[row]) + Slack
    BY <1>1, <1>2, <1>4, <1>5
  <2> QED
    BY <1>1, <1>2, <1>4, <2>1, <2>2 DEF PollOK
<1>7. PollsOK'
  <2>1. ASSUME NEW x \in FrogRequest
        PROVE  PollOK(frogPoll'[x], frogClock', lastFetched'[frogPoll'[x].row],
                      frogsGiven'[frogPoll'[x].row])
    BY <1>3, <1>6, <1>11
  <2> QED
    BY <2>1 DEF PollsOK
<1>8. OnlyOneIsLive'
  <2>1. ASSUME NEW x \in FrogRequest, NEW y \in FrogRequest, Live(frogPoll'[x]),
               Live(frogPoll'[y]), frogPoll'[x].row = frogPoll'[y].row
        PROVE  x = y
    <3>1. CASE x = r /\ y # r
      BY <1>2, <1>3, <1>6, <2>1, <3>1
    <3>2. CASE x # r /\ y = r
      BY <1>2, <1>3, <1>6, <2>1, <3>2
    <3>3. CASE x # r /\ y # r
      BY <1>3, <2>1, <3>3 DEF FrogInv, OnlyOneIsLive
    <3> QED
      BY <3>1, <3>2, <3>3
  <2> QED
    BY <2>1 DEF OnlyOneIsLive
<1>9. RowsOK'
  <2>1. ASSUME NEW x \in FrogRow
        PROVE  /\ AsTime(lastFetched'[x]) <= frogClock
               /\ \A k \in DOMAIN frogsGiven[x] :
                    /\ frogsGiven[x][k].turn <= frogClock
                    /\ frogsGiven[x][k].turn < AsTime(lastFetched'[x]) + Slack
    <3>1. /\ \A k \in DOMAIN frogsGiven[x] : frogsGiven[x][k].turn \in Nat
          /\ \A k \in DOMAIN frogsGiven[x] : frogsGiven[x][k].turn <= frogClock
      BY HistoryFacts DEF FrogInv, FrogTypeOK, Frog, RowsOK
    <3>2. CASE x # row
      BY <1>3, <3>2 DEF FrogInv, RowsOK
    <3>3. CASE x = row
      BY <1>5, <3>1, <3>3
    <3> QED
      BY <3>2, <3>3
  <2> QED
    BY <1>3, <2>1 DEF RowsOK
<1>10. FrogsAreApart'
  BY <1>3 DEF FrogInv, FrogsAreApart
<1> QED
  BY <1>7, <1>8, <1>9, <1>10 DEF FrogInv

\* The turn is given back: no other request is live, so the time that is written
\* is the one before this request's, and no frog was issued since.
LEMMA BackStep ==
    ASSUME FrogInv, FrogTypeOK', NEW r \in FrogRequest, GiveTurnBack(r)
    PROVE  FrogInv'
<1> DEFINE row == frogPoll[r].row
           p == frogPoll'[r]
<1>1. /\ frogPoll[r] \in FrogPoll /\ row \in FrogRow /\ frogPoll[r].at = "giving"
      /\ frogClock \in Nat /\ frogPoll[r].old \in Nat /\ frogPoll[r].turn \in Nat
  BY PollFacts DEF FrogInv, FrogTypeOK, GiveTurnBack
<1>2. p.at = "free" /\ p.turn = frogPoll[r].turn /\ p.old = frogPoll[r].old /\ p.row = row
  BY <1>1 DEF GiveTurnBack, FrogInv, FrogTypeOK, FrogPoll
<1>3. /\ \A x \in FrogRequest : x # r => frogPoll'[x] = frogPoll[x]
      /\ UNCHANGED <<frogClock, frogsGiven>>
      /\ lastFetched'[row] = frogPoll[r].old
      /\ \A x \in FrogRow : x # row => lastFetched'[x] = lastFetched[x]
  BY <1>1 DEF GiveTurnBack, FrogInv, FrogTypeOK
<1>4. /\ PollOK(frogPoll[r], frogClock, lastFetched[row], frogsGiven[row])
      /\ Live(frogPoll[r])
      /\ \A k \in DOMAIN frogsGiven[row] :
           frogsGiven[row][k].turn < AsTime(frogPoll[r].old) + Slack
      /\ AsTime(frogPoll[r].old) <= frogClock
  <2>1. PollOK(frogPoll[r], frogClock, lastFetched[row], frogsGiven[row])
    BY DEF FrogInv, PollsOK
  <2>2. Live(frogPoll[r])
    BY <1>1, <2>1 DEF PollOK
  <2> QED
    BY <1>1, <2>1, <2>2 DEF PollOK
<1>5. ASSUME NEW x \in FrogRequest, x # r
      PROVE  PollOK(frogPoll[x], frogClock, lastFetched'[frogPoll[x].row],
                    frogsGiven[frogPoll[x].row])
  <2>1. PollOK(frogPoll[x], frogClock, lastFetched[frogPoll[x].row],
               frogsGiven[frogPoll[x].row])
    BY DEF FrogInv, PollsOK
  <2>2. frogPoll[x].row \in FrogRow
    BY PollFacts DEF FrogInv, FrogTypeOK
  <2>3. CASE frogPoll[x].row # row
    BY <1>3, <2>1, <2>2, <2>3
  <2>4. CASE frogPoll[x].row = row
    <3>1. ~ Live(frogPoll[x])
      BY <1>4, <1>5, <2>4 DEF FrogInv, OnlyOneIsLive
    <3> QED
      BY <2>1, <3>1 DEF PollOK
  <2> QED
    BY <2>3, <2>4
<1>6. PollOK(p, frogClock, lastFetched'[p.row], frogsGiven[p.row]) /\ ~ Live(p)
  BY <1>1, <1>2, <1>4 DEF PollOK, Live
<1>7. PollsOK'
  <2>1. ASSUME NEW x \in FrogRequest
        PROVE  PollOK(frogPoll'[x], frogClock', lastFetched'[frogPoll'[x].row],
                      frogsGiven'[frogPoll'[x].row])
    BY <1>3, <1>5, <1>6
  <2> QED
    BY <2>1 DEF PollsOK
<1>8. OnlyOneIsLive'
  <2>1. \A x \in FrogRequest : Live(frogPoll'[x]) => x # r
    BY <1>6
  <2> QED
    BY <1>3, <2>1 DEF FrogInv, OnlyOneIsLive
<1>9. RowsOK'
  <2>1. ASSUME NEW x \in FrogRow
        PROVE  /\ AsTime(lastFetched'[x]) <= frogClock
               /\ \A k \in DOMAIN frogsGiven[x] :
                    /\ frogsGiven[x][k].turn <= frogClock
                    /\ frogsGiven[x][k].turn < AsTime(lastFetched'[x]) + Slack
    BY <1>3, <1>4 DEF FrogInv, RowsOK
  <2> QED
    BY <1>3, <2>1 DEF RowsOK
<1>10. FrogsAreApart'
  BY <1>3 DEF FrogInv, FrogsAreApart
<1> QED
  BY <1>7, <1>8, <1>9, <1>10 DEF FrogInv

\* A frog is issued: it was found eligible a cooldown after the time that its
\* request read, and every frog before it took its turn by then.
LEMMA IssueStep ==
    ASSUME FrogInv, FrogTypeOK', NEW r \in FrogRequest, IssueFrog(r)
    PROVE  FrogInv'
<1> DEFINE q == frogPoll[r]
           row == q.row
           old == frogsGiven[row]
           frog == [turn |-> q.turn, checked |-> q.checked]
<1>1. /\ q \in FrogPoll /\ row \in FrogRow /\ q.at = "issuing" /\ Cool(q) \in Nat
      /\ q.turn \in Nat /\ q.old \in Nat /\ q.checked \in Nat /\ frogClock \in Nat
      /\ lastFetched[row] \in Nat /\ FrogLatency \in Nat
  BY PollFacts, CoolFacts DEF FrogInv, FrogTypeOK, IssueFrog
<1>2. /\ \A x \in FrogRequest : x # r => frogPoll'[x] = frogPoll[x]
      /\ frogPoll'[r] = FrogIdle
      /\ UNCHANGED <<frogClock, lastFetched>>
      /\ frogsGiven'[row] = Append(old, frog)
      /\ \A x \in FrogRow : x # row => frogsGiven'[x] = frogsGiven[x]
  BY <1>1 DEF IssueFrog, FrogInv, FrogTypeOK
<1>3. /\ Live(q) /\ AsTime(q.old) + Cool(q) <= q.checked
      /\ q.turn <= frogClock /\ q.turn < AsTime(lastFetched[row]) + Slack
      /\ \A k \in DOMAIN old : old[k].turn < AsTime(q.old) + Slack
  <2>1. PollOK(q, frogClock, lastFetched[row], old)
    BY DEF FrogInv, PollsOK
  <2>2. Live(q) /\ AsTime(q.old) + Cool(q) <= q.checked
    BY <1>1, <2>1 DEF PollOK
  <2> QED
    BY <1>1, <2>1, <2>2 DEF PollOK
<1>4. /\ old \in Seq(Frog) /\ frog \in Frog
      /\ Len(old) \in Nat /\ DOMAIN old = 1 .. Len(old)
      /\ \A k \in DOMAIN old : old[k].turn \in Nat
      /\ \A k \in DOMAIN frogsGiven'[row] :
           \/ k \in DOMAIN old /\ frogsGiven'[row][k] = old[k]
           \/ k = Len(old) + 1 /\ frogsGiven'[row][k] = frog
  <2>1. old \in Seq(Frog) /\ frog \in Frog
    BY <1>1 DEF FrogInv, FrogTypeOK, Frog
  <2> QED
    BY <1>2, <2>1, HistoryFacts, OneMore
<1>5. PollsOK'
  <2>1. ASSUME NEW x \in FrogRequest
        PROVE  PollOK(frogPoll'[x], frogClock', lastFetched'[frogPoll'[x].row],
                      frogsGiven'[frogPoll'[x].row])
    <3>1. CASE x = r
      BY <1>2, <3>1, IdleFacts DEF PollOK
    <3>2. CASE x # r
      <4>1. PollOK(frogPoll[x], frogClock, lastFetched[frogPoll[x].row],
                   frogsGiven[frogPoll[x].row])
        BY DEF FrogInv, PollsOK
      <4>2. frogPoll[x].row \in FrogRow
        BY PollFacts DEF FrogInv, FrogTypeOK
      <4>3. CASE frogPoll[x].row # row
        BY <1>2, <3>2, <4>1, <4>2, <4>3
      <4>4. CASE frogPoll[x].row = row
        <5>1. ~ Live(frogPoll[x])
          BY <1>3, <3>2, <4>4 DEF FrogInv, OnlyOneIsLive
        <5> QED
          BY <1>2, <3>2, <4>1, <5>1 DEF PollOK
      <4> QED
        BY <4>3, <4>4
    <3> QED
      BY <3>1, <3>2
  <2> QED
    BY <2>1 DEF PollsOK
<1>6. OnlyOneIsLive'
  BY <1>2, IdleFacts DEF FrogInv, OnlyOneIsLive
<1>7. RowsOK'
  <2>1. ASSUME NEW x \in FrogRow
        PROVE  /\ AsTime(lastFetched[x]) <= frogClock
               /\ \A k \in DOMAIN frogsGiven'[x] :
                    /\ frogsGiven'[x][k].turn <= frogClock
                    /\ frogsGiven'[x][k].turn < AsTime(lastFetched[x]) + Slack
    <3>1. CASE x # row
      BY <1>2, <3>1 DEF FrogInv, RowsOK
    <3>2. CASE x = row
      <4>1. /\ AsTime(lastFetched[row]) <= frogClock
            /\ \A k \in DOMAIN old : /\ old[k].turn <= frogClock
                                     /\ old[k].turn < AsTime(lastFetched[row]) + Slack
        BY <1>1 DEF FrogInv, RowsOK
      <4>2. \A k \in DOMAIN frogsGiven'[row] :
               /\ frogsGiven'[row][k].turn <= frogClock
               /\ frogsGiven'[row][k].turn < AsTime(lastFetched[row]) + Slack
        BY <1>3, <1>4, <4>1
      <4> QED
        BY <3>2, <4>1, <4>2
    <3> QED
      BY <3>1, <3>2
  <2> QED
    BY <1>2, <2>1 DEF RowsOK
<1>8. FrogsAreApart'
  <2>1. ASSUME NEW x \in FrogRow, NEW i \in DOMAIN frogsGiven'[x],
               NEW j \in DOMAIN frogsGiven'[x], i < j
        PROVE  frogsGiven'[x][i].turn + FrogCooldown[x[2]]
                 < frogsGiven'[x][j].checked + FrogSecond + FrogLatency
    <3>1. CASE x # row
      BY <1>2, <2>1, <3>1 DEF FrogInv, FrogsAreApart
    <3>2. CASE x = row
      <4>1. /\ i \in DOMAIN old /\ frogsGiven'[row][i] = old[i]
            /\ \/ j \in DOMAIN old /\ frogsGiven'[row][j] = old[j]
               \/ frogsGiven'[row][j] = frog
        <5>1. \/ i \in DOMAIN old /\ frogsGiven'[row][i] = old[i]
              \/ i = Len(old) + 1
          BY <1>4, <2>1, <3>2
        <5>2. \/ j \in DOMAIN old /\ frogsGiven'[row][j] = old[j]
              \/ j = Len(old) + 1 /\ frogsGiven'[row][j] = frog
          BY <1>4, <2>1, <3>2
        <5>3. i # Len(old) + 1
          BY <1>4, <2>1, <5>2
        <5> QED
          BY <5>1, <5>2, <5>3
      <4>2. CASE j \in DOMAIN old /\ frogsGiven'[row][j] = old[j]
        BY <1>1, <2>1, <3>2, <4>1, <4>2 DEF FrogInv, FrogsAreApart
      <4>3. CASE frogsGiven'[row][j] = frog
        <5>1. old[i].turn < AsTime(q.old) + Slack /\ old[i].turn \in Nat
          BY <1>3, <1>4, <4>1
        <5>2. old[i].turn + Cool(q) < q.checked + FrogSecond + FrogLatency
          <6>1. AsTime(q.old) \in Nat
            BY <1>1, PollFacts
          <6>2. \A t, time, cool, checked \in Nat :
                  t < time + Slack /\ time + cool <= checked
                    => t + cool < checked + FrogSecond + FrogLatency
            BY CoolFacts
          <6> QED
            BY <1>1, <1>3, <5>1, <6>1, <6>2
        <5>3. frogsGiven'[row][i].turn + FrogCooldown[row[2]]
                < frogsGiven'[row][j].checked + FrogSecond + FrogLatency
          BY <4>1, <4>3, <5>2 DEF Cool
        <5> QED
          BY <3>2, <5>3
      <4> QED
        BY <4>1, <4>2, <4>3
    <3> QED
      BY <3>1, <3>2
  <2> QED
    BY <2>1 DEF FrogsAreApart
<1> QED
  BY <1>5, <1>6, <1>7, <1>8 DEF FrogInv

\* The steps that leave the rows and the history alone.
LEMMA QuietStep ==
    ASSUME FrogInv, FrogTypeOK', NEW r \in FrogRequest,
           \/ \E row \in FrogRow : AskFrog(r, row)
           \/ SendTurn(r) \/ WinTurn(r) \/ RefuseTurn(r) \/ FrogFails(r)
           \/ \E points \in {0, 1} : ScoreFrog(r, points)
           \/ IssueFreeFrog(r)
    PROVE  FrogInv'
<1> DEFINE q == frogPoll[r]
           p == frogPoll'[r]
<1>1. q \in FrogPoll /\ PollOK(q, frogClock, lastFetched[q.row], frogsGiven[q.row])
  BY DEF FrogInv, FrogTypeOK, PollsOK
<1>2. /\ UNCHANGED <<frogClock, lastFetched, frogsGiven>>
      /\ \A x \in FrogRequest : x # r => frogPoll'[x] = frogPoll[x]
  BY DEF FrogInv, FrogTypeOK, AskFrog, SendTurn, WinTurn, RefuseTurn, FrogFails, ScoreFrog,
         IssueFreeFrog
<1>3. CASE p.at \in {"idle", "asked"}
  BY <1>2, <1>3, PollMoves, RestIsOK
<1>4. CASE WinTurn(r)
  <2>1. /\ q.at = "checking" /\ p.at = "won" /\ p.row = q.row /\ p.turn = q.turn
        /\ p.old = q.old /\ p.checked = frogClock
        /\ AsTime(q.old) + Cool(q) <= frogClock
    BY <1>1, <1>4 DEF WinTurn, Eligible, Cool, FrogInv, FrogTypeOK, FrogPoll
  <2>2. Live(q) /\ Live(p)
    <3>1. frogClock <= q.turn + FrogLatency
      BY <1>1, <2>1 DEF PollOK
    <3>2. AsTime(q.old) + Cool(q) <= q.turn + FrogLatency
      <4>1. /\ AsTime(q.old) \in Nat /\ Cool(q) \in Nat /\ q.turn \in Nat
        BY <1>1, PollFacts
      <4>2. FrogLatency \in Nat /\ frogClock \in Nat
        BY CoolFacts DEF FrogInv, FrogTypeOK
      <4> HIDE DEF q
      <4>3. \A a, b, c \in Nat : a <= b /\ b <= c => a <= c
        OBVIOUS
      <4>4. AsTime(q.old) + Cool(q) \in Nat /\ q.turn + FrogLatency \in Nat
        BY <4>1, <4>2
      <4> QED
        BY <2>1, <3>1, <4>2, <4>3, <4>4
    <3> QED
      BY <2>1, <3>2 DEF Live, Cool
  <2>3. PollOK(p, frogClock, lastFetched[p.row], frogsGiven[p.row])
    BY <1>1, <2>1, <2>2 DEF PollOK, Cool
  <2> QED
    BY <1>2, <2>1, <2>2, <2>3, PollMoves
<1>5. CASE (\E points \in {0, 1} : ScoreFrog(r, points)) /\ p.at # "idle"
  <2>1. /\ q.at = "won" /\ p.at \in {"giving", "issuing"} /\ p.row = q.row
        /\ p.turn = q.turn /\ p.old = q.old /\ p.checked = q.checked
    BY <1>1, <1>5, IdleFacts DEF ScoreFrog, FrogInv, FrogTypeOK, FrogPoll
  <2>2. Live(q) /\ Live(p) /\ Cool(p) = Cool(q)
    BY <1>1, <2>1 DEF PollOK, Live, Cool
  <2>3. PollOK(p, frogClock, lastFetched[p.row], frogsGiven[p.row])
    BY <1>1, <2>1, <2>2 DEF PollOK
  <2> QED
    BY <1>2, <2>1, <2>2, <2>3, PollMoves
<1>7. CASE SendTurn(r)
  <2>1. p.at = "sent" /\ p.turn = frogClock
    BY <1>1, <1>7 DEF SendTurn, FrogInv, FrogTypeOK, FrogPoll
  <2>2. ~ Live(p)
    BY <2>1 DEF Live
  <2>3. frogClock \in Nat /\ FrogLatency \in Nat
    BY CoolFacts DEF FrogInv, FrogTypeOK
  <2>4. PollOK(p, frogClock, lastFetched[p.row], frogsGiven[p.row])
    BY <2>1, <2>3 DEF PollOK
  <2> QED
    BY <1>2, <2>2, <2>4, PollMoves
<1>6. \/ p.at \in {"idle", "asked"}
      \/ SendTurn(r) \/ WinTurn(r)
      \/ (\E points \in {0, 1} : ScoreFrog(r, points)) /\ p.at # "idle"
  <2>1. ASSUME NEW row \in FrogRow, AskFrog(r, row) PROVE p.at = "asked"
    <3>1. p = [FrogIdle EXCEPT !.at = "asked", !.row = row]
      BY <2>1 DEF AskFrog, FrogInv, FrogTypeOK
    <3>2. [FrogIdle EXCEPT !.at = "asked", !.row = row].at = "asked"
      BY DEF FrogIdle
    <3> QED
      BY <3>1, <3>2
  <2>2. ASSUME RefuseTurn(r) \/ FrogFails(r) \/ IssueFreeFrog(r)
        PROVE  p.at = "idle"
    <3>1. p = FrogIdle
      BY <2>2 DEF RefuseTurn, FrogFails, IssueFreeFrog, FrogInv, FrogTypeOK
    <3> QED
      BY <3>1, IdleFacts
  <2> HIDE DEF p
  <2>3. CASE \E row \in FrogRow : AskFrog(r, row)
    BY <2>1, <2>3
  <2>4. CASE RefuseTurn(r) \/ FrogFails(r) \/ IssueFreeFrog(r)
    BY <2>2, <2>4
  <2>5. CASE \E points \in {0, 1} : ScoreFrog(r, points)
    BY <2>5
  <2> QED
    BY <2>3, <2>4, <2>5
<1> QED
  BY <1>3, <1>4, <1>5, <1>6, <1>7

\* Every step keeps the invariant.
LEMMA FrogInvStep == FrogInv /\ [FrogNext]_frogVars => FrogInv'
<1> SUFFICES ASSUME FrogInv, [FrogNext]_frogVars PROVE FrogInv'
  OBVIOUS
<1>1. FrogTypeOK'
  BY FrogTypeStep DEF FrogInv
<1>2. CASE FrogTick
  BY <1>1, <1>2, TickStep
<1>3. ASSUME NEW r \in FrogRequest, TakeTurn(r) PROVE FrogInv'
  BY <1>1, <1>3, TurnStep
<1>4. ASSUME NEW r \in FrogRequest, GiveTurnBack(r) PROVE FrogInv'
  BY <1>1, <1>4, BackStep
<1>5. ASSUME NEW r \in FrogRequest, IssueFrog(r) PROVE FrogInv'
  BY <1>1, <1>5, IssueStep
<1>6. ASSUME NEW r \in FrogRequest,
             \/ \E row \in FrogRow : AskFrog(r, row)
             \/ SendTurn(r) \/ WinTurn(r) \/ RefuseTurn(r) \/ FrogFails(r)
             \/ \E points \in {0, 1} : ScoreFrog(r, points)
             \/ IssueFreeFrog(r)
      PROVE  FrogInv'
  BY <1>1, <1>6, QuietStep
<1>7. CASE UNCHANGED frogVars
  BY <1>7 DEF frogVars, FrogInv, FrogTypeOK, PollsOK, OnlyOneIsLive, RowsOK, FrogsAreApart
<1> QED
  BY <1>2, <1>3, <1>4, <1>5, <1>6, <1>7 DEF FrogNext

(* FrogsAreApart: two frogs that used up a turn are a cooldown apart, but   *)
(* for a second and a latency, for any number of users, feeds, overlapping  *)
(* requests and late queries, provided that a cooldown is longer than the   *)
(* durations of three requests and a second.                                *)
THEOREM CooldownHolds == FrogSpec => []FrogsAreApart
<1>1. FrogInv => FrogsAreApart
  BY DEF FrogInv
<1> QED
  BY <1>1, FrogInvInit, FrogInvStep, PTL DEF FrogSpec

-----------------------------------------------------------------------------
(***************************************************************************)
(* The faucet: rations. A score is incremented before the frog is given,   *)
(* and a turn that was paid for is scored as well. So the score and the    *)
(* free rolls bound what a user was given together with what is on its way *)
(* (RationsOK).                                                            *)
(***************************************************************************)

\* Frogs that score and are on their way to the user; those of free rolls.
Scoring(u) == {r \in FrogRequest : /\ frogPoll[r].at \in {"giving", "free", "issuing"}
                                   /\ frogPoll[r].row[1] = u
                                   /\ frogPoll[r].points = 1}
Rolling(u) == {r \in Scoring(u) : frogPoll[r].at \in {"giving", "free"}}

\* All that a user was or may yet be given.
Rolls(u) == pointsGiven[u].free + Cardinality(Rolling(u))
Points(u) == pointsGiven[u].free + pointsGiven[u].paid + Cardinality(Scoring(u))

RationsOK ==
    \A u \in FrogUser : /\ IsFiniteSet(Scoring(u))
                        /\ Points(u) <= frogScore[u] /\ Points(u) <= FrogScoreCap
                        /\ Rolls(u) <= FrogFreeRolls

-----------------------------------------------------------------------------
\* The numbers of a user's frogs are numbers, and free rolls are some of them.
LEMMA RationTypes ==
    ASSUME FrogTypeOK, NEW u \in FrogUser, IsFiniteSet(Scoring(u))
    PROVE  /\ IsFiniteSet(Rolling(u))
           /\ Cardinality(Scoring(u)) \in Nat /\ Cardinality(Rolling(u)) \in Nat
           /\ Cardinality(Rolling(u)) <= Cardinality(Scoring(u))
           /\ pointsGiven[u].free \in Nat /\ pointsGiven[u].paid \in Nat
           /\ frogScore[u] \in Nat /\ FrogScoreCap \in Nat /\ FrogFreeRolls \in Nat
<1>1. Rolling(u) \in SUBSET Scoring(u)
  BY DEF Rolling
<1>2. IsFiniteSet(Rolling(u)) /\ Cardinality(Rolling(u)) <= Cardinality(Scoring(u))
  BY <1>1, FS_Subset
<1>3. Cardinality(Scoring(u)) \in Nat /\ Cardinality(Rolling(u)) \in Nat
  BY <1>2, FS_CardinalityType
<1> QED
  BY <1>2, <1>3, FrogAssumption DEF FrogTypeOK

\* A user of whom no frog sets out, and whose given frogs are the same.
LEMMA NoMoreFrogs ==
    ASSUME FrogTypeOK, NEW u \in FrogUser, IsFiniteSet(Scoring(u)),
           Scoring(u)' \subseteq Scoring(u), Rolling(u)' \subseteq Rolling(u),
           pointsGiven'[u] = pointsGiven[u]
    PROVE  IsFiniteSet(Scoring(u)') /\ Points(u)' <= Points(u) /\ Rolls(u)' <= Rolls(u)
<1>1. IsFiniteSet(Rolling(u))
  BY RationTypes
<1>2. /\ IsFiniteSet(Scoring(u)') /\ IsFiniteSet(Rolling(u)')
      /\ Cardinality(Scoring(u)') <= Cardinality(Scoring(u))
      /\ Cardinality(Rolling(u)') <= Cardinality(Rolling(u))
  BY <1>1, FS_Subset
<1>3. Cardinality(Scoring(u)') \in Nat /\ Cardinality(Rolling(u)') \in Nat
  BY <1>2, FS_CardinalityType
<1>4. /\ Cardinality(Scoring(u)) \in Nat /\ Cardinality(Rolling(u)) \in Nat
      /\ pointsGiven[u].free \in Nat /\ pointsGiven[u].paid \in Nat
  BY RationTypes
<1> QED
  BY <1>2, <1>3, <1>4 DEF Points, Rolls

\* A step of a request moves no other, and its frog is on its way, with a point,
\* or is not.
LEMMA OneFrogMoves ==
    ASSUME NEW r \in FrogRequest, NEW u \in FrogUser,
           \A s \in FrogRequest : s # r => frogPoll'[s] = frogPoll[s]
    PROVE  /\ Scoring(u)' = Scoring(u) \cup {r} \/ Scoring(u)' = Scoring(u) \ {r}
           /\ Rolling(u)' = Rolling(u) \cup {r} \/ Rolling(u)' = Rolling(u) \ {r}
BY DEF Scoring, Rolling

\* A frog that reaches the user is no longer on its way.
LEMMA FrogArrives ==
    ASSUME RationsOK, FrogTypeOK, FrogTypeOK', NEW r \in FrogRequest,
           IssueFreeFrog(r) \/ IssueFrog(r), NEW u \in FrogUser
    PROVE  /\ IsFiniteSet(Scoring(u)') /\ Points(u)' <= Points(u) /\ Rolls(u)' <= Rolls(u)
           /\ frogScore'[u] = frogScore[u]
<1> DEFINE q == frogPoll[r]
           user == q.row[1]
<1>1. /\ q \in FrogPoll /\ user \in FrogUser /\ q.points \in {0, 1}
      /\ IsFiniteSet(Scoring(u))
  BY PollFacts DEF FrogTypeOK, FrogRow, RationsOK
<1>2. /\ \A s \in FrogRequest : s # r => frogPoll'[s] = frogPoll[s]
      /\ frogPoll'[r].at = "idle"
      /\ frogScore'[u] = frogScore[u]
  BY <1>1, IdleFacts DEF FrogTypeOK, IssueFreeFrog, IssueFrog
<1>3. Scoring(u)' = Scoring(u) \ {r} /\ Rolling(u)' = Rolling(u) \ {r}
  BY <1>2 DEF Scoring, Rolling
<1>4. CASE u # user
  <2>1. pointsGiven'[u] = pointsGiven[u]
    BY <1>1, <1>4 DEF FrogTypeOK, IssueFreeFrog, IssueFrog
  <2> QED
    BY <1>1, <1>2, <1>3, <2>1, NoMoreFrogs
<1>5. CASE u = user
  <2> DEFINE S == Scoring(u)
             R == Rolling(u)
             free == pointsGiven[u].free
             paid == pointsGiven[u].paid
  <2>1. /\ IsFiniteSet(S) /\ IsFiniteSet(R) /\ Cardinality(S) \in Nat /\ Cardinality(R) \in Nat
        /\ free \in Nat /\ paid \in Nat
    BY <1>1, RationTypes
  <2>2. /\ IsFiniteSet(S \ {r})
        /\ Cardinality(S \ {r}) = IF r \in S THEN Cardinality(S) - 1 ELSE Cardinality(S)
        /\ Cardinality(R \ {r}) = IF r \in R THEN Cardinality(R) - 1 ELSE Cardinality(R)
    BY <2>1, FS_RemoveElement
  <2>3. r \in S <=> q.points = 1
    BY <1>5 DEF Scoring, IssueFreeFrog, IssueFrog
  <2>4. CASE IssueFreeFrog(r)
    <3>1. /\ pointsGiven'[u].free = free + q.points
          /\ pointsGiven'[u].paid = paid
      BY <1>1, <1>5, <2>4 DEF FrogTypeOK, IssueFreeFrog
    <3>2. r \in R <=> q.points = 1
      BY <1>5, <2>3, <2>4 DEF Rolling, IssueFreeFrog
    <3>3. /\ Points(u)' = free + q.points + paid + Cardinality(S \ {r})
          /\ Rolls(u)' = free + q.points + Cardinality(R \ {r})
          /\ Points(u) = free + paid + Cardinality(S) /\ Rolls(u) = free + Cardinality(R)
      BY <1>3, <3>1 DEF Points, Rolls
    <3> HIDE DEF S, R, free, paid
    <3> QED
      BY <1>1, <1>2, <1>3, <2>1, <2>2, <2>3, <3>2, <3>3 DEF S
  <2>5. CASE IssueFrog(r)
    <3>1. /\ pointsGiven'[u].free = free
          /\ pointsGiven'[u].paid = paid + q.points
      BY <1>1, <1>5, <2>5 DEF FrogTypeOK, IssueFrog
    <3>2. r \notin R
      BY <2>5 DEF Rolling, IssueFrog
    <3>3. /\ Points(u)' = free + (paid + q.points) + Cardinality(S \ {r})
          /\ Rolls(u)' = free + Cardinality(R \ {r})
          /\ Points(u) = free + paid + Cardinality(S) /\ Rolls(u) = free + Cardinality(R)
      BY <1>3, <3>1 DEF Points, Rolls
    <3> HIDE DEF S, R, free, paid
    <3> QED
      BY <1>1, <1>2, <1>3, <2>1, <2>2, <2>3, <3>2, <3>3 DEF S
  <2> QED
    BY <2>4, <2>5
<1> QED
  BY <1>4, <1>5

\* A frog that sets out is paid for by the score it was counted in.
LEMMA FrogSetsOut ==
    ASSUME RationsOK, FrogTypeOK, FrogTypeOK', NEW r \in FrogRequest,
           NEW points \in {0, 1}, ScoreFrog(r, points)
    PROVE  RationsOK'
<1> DEFINE q == frogPoll[r]
           user == q.row[1]
           score == frogScore[user] + points
<1>1. /\ q \in FrogPoll /\ user \in FrogUser /\ q.at = "won" /\ q.row \in FrogRow
      /\ frogScore[user] \in Nat /\ score \in Nat
      /\ FrogScoreCap \in Nat /\ FrogFreeRolls \in Nat
  BY PollFacts, FrogAssumption DEF FrogTypeOK, FrogRow, ScoreFrog
<1>2. /\ \A s \in FrogRequest : s # r => frogPoll'[s] = frogPoll[s]
      /\ UNCHANGED pointsGiven
      /\ frogScore'[user] = score
      /\ \A u \in FrogUser : u # user => frogScore'[u] = frogScore[u]
  BY <1>1 DEF ScoreFrog, FrogTypeOK
<1>3. /\ frogPoll'[r].at = "idle" \/ /\ frogPoll'[r].at = IF score <= FrogFreeRolls
                                                          THEN "giving" ELSE "issuing"
                                     /\ score <= FrogScoreCap
                                     /\ frogPoll'[r].points = points
                                     /\ frogPoll'[r].row = q.row
  <2>1. CASE score > FrogScoreCap
    BY <2>1, IdleFacts DEF ScoreFrog, FrogTypeOK
  <2>2. CASE ~ (score > FrogScoreCap)
    <3>1. frogPoll'[r] = [q EXCEPT !.at = IF score <= FrogFreeRolls THEN "giving"
                                                                    ELSE "issuing",
                                   !.points = points]
      BY <2>2 DEF ScoreFrog, FrogTypeOK
    <3>2. score <= FrogScoreCap
      BY <1>1, <2>2
    <3> HIDE DEF score
    <3> QED
      BY <1>1, <3>1, <3>2 DEF FrogPoll
  <2> QED
    BY <2>1, <2>2
<1>4. \A u \in FrogUser : r \notin Scoring(u) /\ r \notin Rolling(u)
  BY <1>1 DEF Scoring, Rolling
<1>5. ASSUME NEW u \in FrogUser
      PROVE  /\ IsFiniteSet(Scoring(u)')
             /\ Points(u)' <= frogScore'[u] /\ Points(u)' <= FrogScoreCap
             /\ Rolls(u)' <= FrogFreeRolls
  <2>1. /\ IsFiniteSet(Scoring(u)) /\ Points(u) <= frogScore[u] /\ Points(u) <= FrogScoreCap
        /\ Rolls(u) <= FrogFreeRolls
    BY DEF RationsOK
  <2>2. /\ IsFiniteSet(Rolling(u))
        /\ Cardinality(Scoring(u)) \in Nat /\ Cardinality(Rolling(u)) \in Nat
        /\ Cardinality(Rolling(u)) <= Cardinality(Scoring(u))
        /\ pointsGiven[u].free \in Nat /\ pointsGiven[u].paid \in Nat /\ frogScore[u] \in Nat
    BY <2>1, RationTypes
  <2>3. CASE r \in Scoring(u)'
    <3>1. /\ score <= FrogScoreCap /\ points = 1 /\ u = user
          /\ frogPoll'[r].at = IF score <= FrogFreeRolls THEN "giving" ELSE "issuing"
      BY <1>3, <2>3 DEF Scoring
    <3>2. Scoring(u)' = Scoring(u) \cup {r}
      BY <1>2, <2>3, OneFrogMoves
    <3>3. Rolling(u)' = IF score <= FrogFreeRolls THEN Rolling(u) \cup {r} ELSE Rolling(u)
      <4>1. ASSUME NEW x \in FrogRequest
            PROVE  x \in Rolling(u)' <=> \/ x \in Rolling(u)
                                         \/ x = r /\ score <= FrogFreeRolls
        <5>1. CASE x # r
          BY <1>2, <3>2, <5>1 DEF Rolling
        <5>2. CASE x = r
          <6>1. x \notin Rolling(u) /\ x \in Scoring(u)'
            BY <1>4, <2>3, <5>2
          <6>2. frogPoll'[r].at \in {"giving", "free"} <=> score <= FrogFreeRolls
            BY <3>1
          <6> HIDE DEF score
          <6> QED
            BY <5>2, <6>1, <6>2 DEF Rolling
        <5> QED
          BY <5>1, <5>2
      <4>2. Rolling(u)' \subseteq FrogRequest /\ Rolling(u) \subseteq FrogRequest
        BY DEF Rolling, Scoring
      <4> HIDE DEF score
      <4> QED
        BY <4>1, <4>2
    <3>4. /\ IsFiniteSet(Scoring(u)')
          /\ Cardinality(Scoring(u)') = Cardinality(Scoring(u)) + 1
          /\ score <= FrogFreeRolls =>
               Cardinality(Rolling(u)') = Cardinality(Rolling(u)) + 1
      <4>1. r \notin Scoring(u) /\ r \notin Rolling(u)
        BY <1>4
      <4>2. /\ IsFiniteSet(Scoring(u) \cup {r})
            /\ Cardinality(Scoring(u) \cup {r}) = Cardinality(Scoring(u)) + 1
        BY <2>1, <4>1, FS_AddElement
      <4>3. Cardinality(Rolling(u) \cup {r}) = Cardinality(Rolling(u)) + 1
        BY <2>2, <4>1, FS_AddElement
      <4> QED
        BY <3>2, <3>3, <4>2, <4>3
    <3>5. Points(u)' = Points(u) + 1 /\ Points(u) \in Nat
      <4>1. pointsGiven'[u] = pointsGiven[u]
        BY <1>2
      <4> QED
        BY <2>2, <3>4, <4>1 DEF Points
    <3>6. frogScore'[u] = frogScore[u] + 1 /\ score = frogScore[u] + 1
      <4>1. score = frogScore[u] + 1
        BY <3>1
      <4> HIDE DEF score
      <4> QED
        BY <1>2, <3>1, <4>1
    <3>7. Points(u)' <= frogScore'[u] /\ Points(u)' <= FrogScoreCap
      BY <1>1, <2>1, <2>2, <3>1, <3>5, <3>6
    <3>8. Rolls(u)' <= FrogFreeRolls
      <4>1. CASE score <= FrogFreeRolls
        <5>1. Rolls(u)' = Rolls(u) + 1 /\ Rolls(u) <= Points(u)
          BY <1>2, <2>2, <3>4, <4>1 DEF Points, Rolls
        <5>2. Rolls(u) \in Nat
          BY <2>2 DEF Rolls
        <5> QED
          BY <1>1, <2>1, <2>2, <3>5, <3>6, <4>1, <5>1, <5>2
      <4>2. CASE ~ (score <= FrogFreeRolls)
        <5>1. Rolls(u)' = Rolls(u)
          BY <1>2, <3>3, <4>2 DEF Rolls
        <5> QED
          BY <2>1, <5>1
      <4> QED
        BY <4>1, <4>2
    <3> QED
      BY <3>4, <3>7, <3>8
  <2>4. CASE r \notin Scoring(u)'
    <3>1. Scoring(u)' \subseteq Scoring(u) /\ Rolling(u)' \subseteq Rolling(u)
      BY <1>2, <2>4 DEF Scoring, Rolling
    <3>2. IsFiniteSet(Scoring(u)') /\ Points(u)' <= Points(u) /\ Rolls(u)' <= Rolls(u)
      BY <1>2, <2>1, <3>1, NoMoreFrogs
    <3>3. frogScore[u] <= frogScore'[u] /\ frogScore'[u] \in Nat
      <4>1. CASE u = user
        <5>1. frogScore'[u] = score /\ score = frogScore[u] + points
          BY <1>2, <4>1
        <5>2. points \in Nat
          OBVIOUS
        <5> HIDE DEF score
        <5> QED
          BY <2>2, <5>1, <5>2
      <4>2. CASE u # user
        BY <1>2, <2>2, <4>2
      <4> QED
        BY <4>1, <4>2
    <3>4. Points(u)' \in Nat /\ Rolls(u)' \in Nat /\ Points(u) \in Nat /\ Rolls(u) \in Nat
      <4>1. /\ Cardinality(Scoring(u)') \in Nat /\ Cardinality(Rolling(u)') \in Nat
        BY <2>2, <3>1, <3>2, FS_Subset, FS_CardinalityType
      <4>2. pointsGiven'[u] = pointsGiven[u]
        BY <1>2
      <4> QED
        BY <2>2, <4>1, <4>2 DEF Points, Rolls
    <3> QED
      BY <1>1, <2>1, <2>2, <3>2, <3>3, <3>4
  <2> QED
    BY <2>3, <2>4
<1> QED
  BY <1>5 DEF RationsOK

\* The steps after which no more of a user's frogs are on their way.
LEMMA RationStep ==
    ASSUME RationsOK, FrogTypeOK, FrogTypeOK', [FrogNext]_frogVars
    PROVE  RationsOK'
<1>1. ASSUME \A u \in FrogUser :
               /\ IsFiniteSet(Scoring(u)') /\ Points(u)' <= Points(u)
               /\ Rolls(u)' <= Rolls(u) /\ frogScore'[u] = frogScore[u]
      PROVE  RationsOK'
  <2>1. ASSUME NEW u \in FrogUser
        PROVE  /\ IsFiniteSet(Scoring(u)')
               /\ Points(u)' <= frogScore'[u] /\ Points(u)' <= FrogScoreCap
               /\ Rolls(u)' <= FrogFreeRolls
    <3>1. /\ IsFiniteSet(Scoring(u)) /\ Points(u) <= frogScore[u]
          /\ Points(u) <= FrogScoreCap /\ Rolls(u) <= FrogFreeRolls
      BY DEF RationsOK
    <3>2. /\ Points(u) \in Nat /\ Rolls(u) \in Nat /\ frogScore[u] \in Nat
          /\ FrogScoreCap \in Nat /\ FrogFreeRolls \in Nat
      BY <3>1, RationTypes DEF Points, Rolls
    <3>3. Points(u)' \in Nat /\ Rolls(u)' \in Nat
      <4>1. Rolling(u)' \in SUBSET Scoring(u)'
        BY DEF Rolling
      <4>2. IsFiniteSet(Rolling(u)')
        BY <1>1, <4>1, FS_Subset
      <4>3. Cardinality(Scoring(u)') \in Nat /\ Cardinality(Rolling(u)') \in Nat
        BY <1>1, <4>2, FS_CardinalityType
      <4>4. pointsGiven'[u].free \in Nat /\ pointsGiven'[u].paid \in Nat
        BY DEF FrogTypeOK
      <4> QED
        BY <4>3, <4>4 DEF Points, Rolls
    <3> QED
      BY <1>1, <3>1, <3>2, <3>3
  <2> QED
    BY <2>1 DEF RationsOK
<1>2. ASSUME UNCHANGED <<frogScore, pointsGiven>>,
             \A u \in FrogUser : /\ Scoring(u)' \subseteq Scoring(u)
                                 /\ Rolling(u)' \subseteq Rolling(u)
      PROVE  RationsOK'
  BY <1>1, <1>2, NoMoreFrogs DEF RationsOK
<1>3. ASSUME NEW r \in FrogRequest, UNCHANGED <<frogScore, pointsGiven>>,
             \A s \in FrogRequest : s # r => frogPoll'[s] = frogPoll[s],
             \/ frogPoll'[r].at \notin {"giving", "free", "issuing"}
             \/ /\ frogPoll[r].at = "giving" /\ frogPoll'[r].row = frogPoll[r].row
                /\ frogPoll'[r].points = frogPoll[r].points
      PROVE  RationsOK'
  <2>1. \A u \in FrogUser : /\ Scoring(u)' \subseteq Scoring(u)
                            /\ Rolling(u)' \subseteq Rolling(u)
    BY <1>3 DEF Scoring, Rolling
  <2> QED
    BY <1>2, <1>3, <2>1
<1>4. CASE FrogTick \/ UNCHANGED frogVars
  <2>1. UNCHANGED <<frogScore, pointsGiven, frogPoll>>
    BY <1>4 DEF FrogTick, frogVars
  <2> QED
    BY <1>2, <2>1 DEF Scoring, Rolling
<1>5. ASSUME NEW r \in FrogRequest, NEW row \in FrogRow, AskFrog(r, row) PROVE RationsOK'
  <2>1. [FrogIdle EXCEPT !.at = "asked", !.row = row].at = "asked"
    BY DEF FrogIdle
  <2>2. frogPoll'[r].at = "asked"
    BY <1>5, <2>1 DEF AskFrog, FrogTypeOK
  <2> QED
    BY <1>3, <1>5, <2>2 DEF AskFrog, FrogTypeOK
<1>6. ASSUME NEW r \in FrogRequest, SendTurn(r) \/ TakeTurn(r) \/ WinTurn(r)
      PROVE  RationsOK'
  <2>1. frogPoll'[r].at \in {"sent", "checking", "won"}
    BY <1>6 DEF SendTurn, TakeTurn, WriteTurn, WinTurn, FrogTypeOK, FrogPoll
  <2> QED
    BY <1>3, <1>6, <2>1 DEF SendTurn, TakeTurn, WriteTurn, WinTurn, FrogTypeOK
<1>7. ASSUME NEW r \in FrogRequest, RefuseTurn(r) \/ FrogFails(r) PROVE RationsOK'
  <2>1. frogPoll'[r].at = "idle"
    BY <1>7, IdleFacts DEF RefuseTurn, FrogFails, FrogTypeOK
  <2> QED
    BY <1>3, <1>7, <2>1 DEF RefuseTurn, FrogFails, FrogTypeOK
<1>8. ASSUME NEW r \in FrogRequest, NEW points \in {0, 1}, ScoreFrog(r, points)
      PROVE  RationsOK'
  BY <1>8, FrogSetsOut
<1>9. ASSUME NEW r \in FrogRequest, GiveTurnBack(r) PROVE RationsOK'
  <2>1. /\ frogPoll[r].at = "giving" /\ frogPoll'[r].row = frogPoll[r].row
        /\ frogPoll'[r].points = frogPoll[r].points
    BY <1>9 DEF GiveTurnBack, FrogTypeOK, FrogPoll
  <2> QED
    BY <1>3, <1>9, <2>1 DEF GiveTurnBack, FrogTypeOK
<1>10. ASSUME NEW r \in FrogRequest, IssueFreeFrog(r) \/ IssueFrog(r) PROVE RationsOK'
  BY <1>1, <1>10, FrogArrives
<1> QED
  BY <1>4, <1>5, <1>6, <1>7, <1>8, <1>9, <1>10 DEF FrogNext

\* At first no frog is on its way, and none was given.
LEMMA RationInit == FrogInit => RationsOK
<1> SUFFICES ASSUME FrogInit, NEW u \in FrogUser
             PROVE  /\ IsFiniteSet(Scoring(u))
                    /\ Points(u) <= frogScore[u] /\ Points(u) <= FrogScoreCap
                    /\ Rolls(u) <= FrogFreeRolls
  BY DEF RationsOK
<1>1. Scoring(u) = {} /\ Rolling(u) = {}
  BY IdleFacts DEF FrogInit, Scoring, Rolling
<1>2. /\ pointsGiven[u].free = 0 /\ pointsGiven[u].paid = 0 /\ frogScore[u] = 0
      /\ FrogScoreCap \in Nat /\ FrogFreeRolls \in Nat
  BY FrogAssumption DEF FrogInit
<1> QED
  BY <1>1, <1>2, FS_EmptySet DEF Points, Rolls

(* FrogsAreRationed: whatever requests of a user score at one time, over    *)
(* any feeds, he is not given more free rolls, or points, than there are.   *)
THEOREM RationsHold == FrogSpec => []FrogsAreRationed
<1>1. FrogTypeOK /\ RationsOK => FrogsAreRationed
  <2> SUFFICES ASSUME FrogTypeOK, RationsOK, NEW u \in FrogUser
               PROVE  /\ pointsGiven[u].free <= FrogFreeRolls
                      /\ pointsGiven[u].free + pointsGiven[u].paid <= FrogScoreCap
    BY DEF FrogsAreRationed
  <2>1. /\ IsFiniteSet(Scoring(u)) /\ Points(u) <= FrogScoreCap /\ Rolls(u) <= FrogFreeRolls
    BY DEF RationsOK
  <2> QED
    BY <2>1, RationTypes DEF Points, Rolls
<1>2. FrogTypeOK /\ RationsOK /\ [FrogNext]_frogVars => FrogTypeOK' /\ RationsOK'
  BY FrogTypeStep, RationStep
<1> QED
  BY <1>1, <1>2, FrogTypeInit, RationInit, PTL DEF FrogSpec

-----------------------------------------------------------------------------
(***************************************************************************)
(* The rate limiter. Every token that was taken is accounted for by the    *)
(* row that is there now: those taken since, and those left in the bucket, *)
(* are no more than a full bucket, what it refilled since, and what the    *)
(* late statements since refilled again (TakenIsAccounted). A row may be   *)
(* pruned, but only when so much time has passed that the token is no      *)
(* longer counted.                                                         *)
(***************************************************************************)

\* A statement is late by at most RateLatency.
StatementsAreTimely ==
    \A c \in RateRequest :
       rateAsked[c].at = "asked" => /\ rateAsked[c].now <= rateClock
                                    /\ rateClock <= rateAsked[c].now + RateLatency

TakenInTime ==
    \A k \in DOMAIN taken : /\ taken[k].now <= taken[k].at
                            /\ taken[k].at <= taken[k].now + RateLatency
                            /\ taken[k].at <= rateClock

TakenInOrder ==
    \A k, m \in DOMAIN taken : k <= m => taken[k].at <= taken[m].at

\* The row has the time of the last token that was taken.
BucketIsTaken ==
    bucket.there => /\ taken # <<>>
                    /\ bucket.last_take = taken[Len(taken)].now

\* Since a token was taken, those after it and those in the bucket have been no
\* more than a full bucket, its refill, and what late statements refilled again.
Accounted(k, row, count) ==
    /\ row.there
    /\ (count + AtLeast0(row.remaining)) * TimePerAction
         <= TimePeriod + (row.last_take - taken[k].now)
              + Cardinality(Late(k, Len(taken))) * RateLatency

\* The bucket may have been deleted since.
Past(k) == taken[k].at + TimePeriod <= rateClock + RateLatency

TakenIsAccounted ==
    \A k \in DOMAIN taken : Past(k) \/ Accounted(k, bucket, Len(taken) - k + 1)

RateInv ==
    /\ RateTypeOK /\ StatementsAreTimely /\ TakenInTime /\ TakenInOrder /\ BucketIsTaken
    /\ TakenIsAccounted /\ RateIsBounded

-----------------------------------------------------------------------------
\* Arithmetic of rates.
LEMMA Products ==
    ASSUME NEW a \in Int, NEW b \in Int, NEW d \in Nat
    PROVE  /\ a * d \in Int /\ b * d \in Int
           /\ (a + b) * d = a * d + b * d
           /\ a <= b => a * d <= b * d
<1>1. a * d \in Int /\ b * d \in Int /\ (a + b) * d = a * d + b * d
  OBVIOUS
<1>2. ASSUME a <= b PROVE a * d <= b * d
  <2>1. b - a \in Nat
    BY <1>2
  <2>2. (b - a) * d >= 0
    BY <2>1
  <2>3. (b - a) * d = b * d - a * d
    OBVIOUS
  <2> QED
    BY <2>2, <2>3
<1> QED
  BY <1>1, <1>2

\* The quotient is the number of whole divisors.
LEMMA DivBounds ==
    ASSUME NEW a \in Nat, NEW d \in Nat \ {0}
    PROVE  a \div d \in Int /\ d * (a \div d) <= a /\ a < d * (a \div d) + d
OBVIOUS

\* It is one or more from one whole divisor on.
LEMMA DivFacts ==
    ASSUME NEW a \in Nat, NEW d \in Nat \ {0}
    PROVE  LET q == a \div d IN q \in Nat /\ q * d <= a /\ (q >= 1 <=> a >= d)
<1> DEFINE q == a \div d
<1>1. q \in Int /\ d * q <= a /\ a < d * q + d
  BY DivBounds
<1> HIDE DEF q
<1>2. q * d = d * q /\ (q + 1) * d = d * q + d
  BY <1>1
<1>3. q >= 0
  <2>1. q + 1 <= 0 => (q + 1) * d <= 0 * d
    BY <1>1, Products
  <2> QED
    BY <1>1, <1>2, <2>1
<1>4. a >= d => q >= 1
  <2>1. q <= 0 => q * d <= 0 * d
    BY <1>1, Products
  <2> QED
    BY <1>1, <1>2, <2>1
<1>5. q >= 1 => a >= d
  <2>1. 1 <= q => 1 * d <= q * d
    BY <1>1, Products
  <2> QED
    BY <1>1, <1>2, <2>1
<1> QED
  BY <1>1, <1>2, <1>3, <1>4, <1>5 DEF q

\* The numbers that rateLimitService.ts computes from an action's settings.
LEMMA RateConstants ==
    /\ MaxActions \in Nat /\ MaxActions > 0 /\ TimePerAction \in Nat \ {0}
    /\ TimePeriod \in Nat /\ TimePeriod = MaxActions * TimePerAction
    /\ RateLatency \in Nat /\ RateLatency < TimePerAction
    /\ MaxLostAnswers \in Nat /\ RateMaxClock \in Nat
BY RateAssumption DEF TimePeriod

\* A statement that is late by less than TimePerAction refills nothing, and the
\* others no more than the time that passed.
LEMMA RefillFacts ==
    ASSUME NEW since \in Int, - TimePerAction < since
    PROVE  /\ Refilled(since) \in Nat
           /\ Refilled(since) * TimePerAction <= AtLeast0(since)
           /\ Refilled(since) >= 1 <=> since >= TimePerAction
<1>1. TimePerAction \in Nat \ {0}
  BY RateConstants
<1>2. CASE since >= 0
  <2>1. Refilled(since) = since \div TimePerAction /\ AtLeast0(since) = since
    BY <1>2 DEF Refilled, AtLeast0
  <2>2. since \in Nat
    BY <1>2
  <2> QED
    BY <1>1, <2>1, <2>2, DivFacts
<1>3. CASE since < 0
  <2> DEFINE q == (- since) \div TimePerAction
  <2>1. - since \in Nat /\ ~ (- since >= TimePerAction)
    BY <1>1, <1>3
  <2>2. q \in Nat /\ ~ (q >= 1)
    BY <1>1, <2>1, DivFacts
  <2>3. Refilled(since) = - q
    BY <1>3 DEF Refilled
  <2> HIDE DEF q
  <2>4. Refilled(since) = 0
    BY <2>2, <2>3
  <2> QED
    BY <1>1, <1>3, <2>4 DEF AtLeast0
<1> QED
  BY <1>2, <1>3

BucketRow == [there : BOOLEAN, remaining : -1 .. MaxActions - 1, last_take : Nat]

\* What the statement makes of a row that is there.
LEMMA ConsumedRow ==
    ASSUME bucket \in BucketRow,
           NEW now \in Nat, bucket.there, bucket.last_take <= now + RateLatency
    PROVE  LET row == Consumed(now)
               again == IF now < bucket.last_take THEN RateLatency ELSE 0 IN
           /\ row \in BucketRow /\ row.there
           /\ Allows(row) =>
                /\ row.last_take = now
                /\ (AtLeast0(row.remaining) + 1) * TimePerAction
                     <= AtLeast0(bucket.remaining) * TimePerAction
                          + (now - bucket.last_take) + again
           /\ ~ Allows(row) =>
                /\ now < bucket.last_take + TimePerAction
                /\ row.last_take = bucket.last_take
                /\ AtLeast0(row.remaining) = 0
<1> DEFINE row == Consumed(now)
           last == bucket.last_take
           rem == bucket.remaining
           refilled == Refilled(now - last)
<1>1. /\ last \in Nat /\ rem \in -1 .. MaxActions - 1 /\ now - last \in Int
      /\ TimePerAction \in Nat \ {0} /\ RateLatency < TimePerAction
      /\ RateLatency \in Nat /\ MaxActions \in Nat /\ MaxActions > 0
  BY RateConstants DEF BucketRow
<1>2. - TimePerAction < now - last
  BY <1>1
<1>3. /\ refilled \in Nat /\ refilled * TimePerAction <= AtLeast0(now - last)
      /\ refilled >= 1 <=> now - last >= TimePerAction
  BY <1>1, <1>2, RefillFacts
<1>4. /\ row.there
      /\ row.remaining = AtMost(MaxActions, AtLeast0(rem) + refilled) - 1
      /\ row.last_take = IF rem > 0 \/ now - last >= TimePerAction THEN now ELSE last
      /\ row = [there |-> row.there, remaining |-> row.remaining,
                last_take |-> row.last_take]
  BY DEF Consumed
<1> HIDE DEF row, last, rem, refilled
<1>5. row.remaining \in -1 .. MaxActions - 1 /\ row.last_take \in Nat
  BY <1>1, <1>3, <1>4 DEF AtMost, AtLeast0
<1>6. row \in BucketRow
  BY <1>4, <1>5 DEF BucketRow
<1>7. Allows(row) <=> rem > 0 \/ now - last >= TimePerAction
  BY <1>1, <1>3, <1>4, <1>5 DEF Allows, AtMost, AtLeast0
<1>8. ASSUME ~ Allows(row)
      PROVE  /\ now < last + TimePerAction /\ row.last_take = last
             /\ AtLeast0(row.remaining) = 0
  <2>1. row.remaining = -1
    BY <1>5, <1>8 DEF Allows
  <2> QED
    BY <1>1, <1>4, <1>7, <1>8, <2>1 DEF AtLeast0
<1>9. ASSUME Allows(row)
      PROVE  (AtLeast0(row.remaining) + 1) * TimePerAction
               <= AtLeast0(rem) * TimePerAction
                    + (now - last) + (IF now < last THEN RateLatency ELSE 0)
  <2> DEFINE left == AtLeast0(row.remaining) + 1
             had == AtLeast0(rem)
  <2>1. left \in Int /\ had \in Int /\ left <= had + refilled
    BY <1>1, <1>3, <1>4, <1>5, <1>9 DEF Allows, AtMost, AtLeast0
  <2> HIDE DEF left, had
  <2>2. left * TimePerAction <= (had + refilled) * TimePerAction
    BY <1>1, <1>3, <2>1, Products
  <2>3. (had + refilled) * TimePerAction = had * TimePerAction + refilled * TimePerAction
    BY <1>1, <1>3, <2>1, Products
  <2>4. /\ left * TimePerAction \in Int /\ had * TimePerAction \in Int
        /\ refilled * TimePerAction \in Int
    BY <1>1, <1>3, <2>1, Products
  <2>5. AtLeast0(now - last) <= (now - last) + (IF now < last THEN RateLatency ELSE 0)
    <3>1. last <= now + RateLatency
      BY DEF last
    <3> QED
      BY <1>1, <3>1 DEF AtLeast0
  <2>6. AtLeast0(now - last) \in Int
    BY <1>1 DEF AtLeast0
  <2>7. left * TimePerAction
          <= had * TimePerAction + (now - last) + (IF now < last THEN RateLatency ELSE 0)
    BY <1>1, <1>3, <2>2, <2>3, <2>4, <2>5, <2>6
  <2> QED
    BY <2>7 DEF left, had
<1> QED
  BY <1>4, <1>6, <1>7, <1>8, <1>9 DEF row, last, rem

TakenToken == [at : Nat, now : Nat]

\* The history of the tokens, and one more token.
LEMMA TokensFacts ==
    ASSUME NEW tokens \in Seq(TakenToken), NEW token \in TakenToken
    PROVE  /\ Len(tokens) \in Nat /\ DOMAIN tokens = 1 .. Len(tokens)
           /\ \A k \in DOMAIN tokens : tokens[k].at \in Nat /\ tokens[k].now \in Nat
           /\ Append(tokens, token) \in Seq(TakenToken)
           /\ Len(Append(tokens, token)) = Len(tokens) + 1
           /\ DOMAIN Append(tokens, token) = 1 .. Len(tokens) + 1
           /\ \A k \in 1 .. Len(tokens) : Append(tokens, token)[k] = tokens[k]
           /\ Append(tokens, token)[Len(tokens) + 1] = token
<1>1. \A k \in 1 .. Len(tokens) : tokens[k] \in TakenToken
  OBVIOUS
<1>2. Len(tokens) \in Nat /\ DOMAIN tokens = 1 .. Len(tokens)
  OBVIOUS
<1>3. /\ Append(tokens, token) \in Seq(TakenToken)
      /\ Len(Append(tokens, token)) = Len(tokens) + 1
      /\ DOMAIN Append(tokens, token) = 1 .. Len(tokens) + 1
      /\ \A k \in 1 .. Len(tokens) : Append(tokens, token)[k] = tokens[k]
      /\ Append(tokens, token)[Len(tokens) + 1] = token
  OBVIOUS
<1> QED
  BY <1>1, <1>2, <1>3 DEF TakenToken

\* Times of tokens are times.
LEMMA TakenTypes ==
    ASSUME RateTypeOK
    PROVE  /\ Len(taken) \in Nat /\ DOMAIN taken = 1 .. Len(taken)
           /\ \A k \in DOMAIN taken : taken[k].at \in Nat /\ taken[k].now \in Nat
<1> DEFINE tokens == taken
<1>1. tokens \in Seq(TakenToken)
  BY DEF RateTypeOK, TakenToken
<1> HIDE DEF tokens
<1>2. Len(tokens) \in Nat /\ DOMAIN tokens = 1 .. Len(tokens)
  BY <1>1
<1>3. \A k \in DOMAIN tokens : tokens[k] \in TakenToken
  BY <1>1
<1> QED
  BY <1>2, <1>3 DEF TakenToken, tokens

\* There are finitely many late statements.
LEMMA LateIsFinite ==
    ASSUME NEW i \in Nat, NEW j \in Nat
    PROVE  IsFiniteSet(Late(i, j)) /\ Cardinality(Late(i, j)) \in Nat
<1>1. IsFiniteSet(i + 1 .. j)
  BY FS_Interval
<1>2. Late(i, j) \subseteq i + 1 .. j
  BY DEF Late
<1> QED
  BY <1>1, <1>2, FS_Subset, FS_CardinalityType

\* One more token: it is late if it is older than the last.
LEMMA LateGrows ==
    ASSUME RateTypeOK, NEW n \in Nat, n = Len(taken),
           NEW token \in TakenToken, taken' = Append(taken, token)
    PROVE  /\ \A i, j \in DOMAIN taken : Late(i, j)' = Late(i, j)
           /\ \A i \in DOMAIN taken :
                Cardinality(Late(i, n + 1)')
                  = Cardinality(Late(i, n)) + (IF token.now < taken[n].now THEN 1 ELSE 0)
           /\ Cardinality(Late(n + 1, n + 1)') = 0
<1>1. taken \in Seq(TakenToken)
  BY DEF RateTypeOK, TakenToken
<1>2. /\ DOMAIN taken = 1 .. n
      /\ \A k \in 1 .. n : taken'[k] = taken[k]
      /\ taken'[n + 1] = token
  BY <1>1, TokensFacts
<1>3. ASSUME NEW i \in DOMAIN taken, NEW j \in DOMAIN taken
      PROVE  Late(i, j)' = Late(i, j)
  <2>1. \A k \in i + 1 .. j : taken'[k] = taken[k] /\ taken'[k - 1] = taken[k - 1]
    BY <1>2, <1>3
  <2> QED
    BY <2>1 DEF Late
<1>4. ASSUME NEW i \in DOMAIN taken
      PROVE  Cardinality(Late(i, n + 1)')
               = Cardinality(Late(i, n)) + (IF token.now < taken[n].now THEN 1 ELSE 0)
  <2>1. i \in Nat /\ i <= n /\ n \in DOMAIN taken /\ n + 1 \notin Late(i, n)
    BY <1>2, <1>4 DEF Late
  <2>2. \A k \in i + 1 .. n + 1 : \/ k = n + 1
                                  \/ /\ k \in i + 1 .. n
                                     /\ taken'[k] = taken[k] /\ taken'[k - 1] = taken[k - 1]
    BY <1>2, <2>1
  <2>3. n + 1 \in i + 1 .. n + 1 /\ taken'[n + 1] = token /\ taken'[n + 1 - 1] = taken[n]
    BY <1>2, <2>1
  <2>4. Late(i, n + 1)' = Late(i, n) \cup
                            (IF token.now < taken[n].now THEN {n + 1} ELSE {})
    <3>1. \A k \in i + 1 .. n : k \in i + 1 .. n + 1
      BY <2>1
    <3>2. ASSUME NEW k \in Late(i, n + 1)'
          PROVE  \/ k \in Late(i, n)
                 \/ k = n + 1 /\ token.now < taken[n].now
      BY <2>2, <2>3, <3>2 DEF Late
    <3>3. ASSUME NEW k \in Late(i, n) PROVE k \in Late(i, n + 1)'
      <4>1. k \in i + 1 .. n /\ taken[k].now < taken[k - 1].now
        BY <3>3 DEF Late
      <4>2. k # n + 1 /\ k \in i + 1 .. n + 1
        BY <2>1, <3>1, <4>1
      <4>3. taken'[k] = taken[k] /\ taken'[k - 1] = taken[k - 1]
        BY <2>2, <4>2
      <4> QED
        BY <4>1, <4>2, <4>3 DEF Late
    <3>4. token.now < taken[n].now => n + 1 \in Late(i, n + 1)'
      BY <2>3 DEF Late
    <3> QED
      BY <3>2, <3>3, <3>4
  <2>5. IsFiniteSet(Late(i, n)) /\ Cardinality(Late(i, n)) \in Nat
    BY <1>2, <2>1, LateIsFinite
  <2>6. CASE token.now < taken[n].now
    <3>1. Late(i, n + 1)' = Late(i, n) \cup {n + 1}
      BY <2>4, <2>6
    <3>2. Cardinality(Late(i, n) \cup {n + 1}) = Cardinality(Late(i, n)) + 1
      BY <2>1, <2>5, FS_AddElement
    <3> QED
      BY <2>6, <3>1, <3>2
  <2>7. CASE ~ (token.now < taken[n].now)
    <3>1. Late(i, n + 1)' = Late(i, n)
      BY <2>4, <2>7
    <3> QED
      BY <2>5, <2>7, <3>1
  <2> QED
    BY <2>6, <2>7
<1>5. Late(n + 1, n + 1)' = {}
  BY DEF Late
<1> QED
  BY <1>3, <1>4, <1>5, FS_EmptySet

\* What the statement makes of the row and the history, whether or not the row
\* was there.
LEMMA StatementMoves ==
    ASSUME RateInv, NEW c \in RateRequest, rateAsked[c].at = "asked", ApplyStatement(c)
    PROVE  LET now == rateAsked[c].now
               again == IF now < bucket.last_take THEN RateLatency ELSE 0 IN
           /\ now \in Nat /\ now <= rateClock /\ rateClock <= now + RateLatency
           /\ bucket' \in BucketRow /\ bucket'.there
           /\ Allows(bucket') =>
                /\ bucket'.last_take = now
                /\ taken' = Append(taken, [at |-> rateClock, now |-> now])
                /\ bucket.there =>
                     (AtLeast0(bucket'.remaining) + 1) * TimePerAction
                       <= AtLeast0(bucket.remaining) * TimePerAction
                            + (now - bucket.last_take) + again
           /\ ~ Allows(bucket') =>
                /\ taken' = taken /\ bucket.there
                /\ now < bucket.last_take + TimePerAction
                /\ bucket'.last_take = bucket.last_take
                /\ AtLeast0(bucket'.remaining) = 0
<1> DEFINE now == rateAsked[c].now
           row == Consumed(now)
<1>1. now \in Nat /\ now <= rateClock /\ rateClock <= now + RateLatency
  BY DEF RateInv, RateTypeOK, StatementsAreTimely
<1>2. /\ bucket' = row
      /\ taken' = IF Allows(row) THEN Append(taken, [at |-> rateClock, now |-> now])
                  ELSE taken
  BY DEF ApplyStatement
<1>3. bucket \in BucketRow
  BY DEF RateInv, RateTypeOK, BucketRow
<1>4. CASE bucket.there
  <2>1. bucket.last_take <= now + RateLatency
    <3>1. Len(taken) \in DOMAIN taken
      BY <1>4, TakenTypes DEF RateInv, BucketIsTaken, RateTypeOK
    <3>2. bucket.last_take <= rateClock
      BY <1>4, <3>1, TakenTypes DEF RateInv, BucketIsTaken, TakenInTime, RateTypeOK
    <3>3. rateClock \in Nat /\ bucket.last_take \in Nat
      BY <1>3 DEF RateInv, RateTypeOK
    <3> HIDE DEF now
    <3> QED
      BY <1>1, <3>2, <3>3, RateConstants
  <2> HIDE DEF now
  <2>2. LET again == IF now < bucket.last_take THEN RateLatency ELSE 0 IN
           /\ row \in BucketRow /\ row.there
           /\ Allows(row) =>
                /\ row.last_take = now
                /\ (AtLeast0(row.remaining) + 1) * TimePerAction
                     <= AtLeast0(bucket.remaining) * TimePerAction
                          + (now - bucket.last_take) + again
           /\ ~ Allows(row) =>
                /\ now < bucket.last_take + TimePerAction
                /\ row.last_take = bucket.last_take
                /\ AtLeast0(row.remaining) = 0
    BY <1>1, <1>3, <1>4, <2>1, ConsumedRow
  <2> HIDE DEF row
  <2> QED
    BY <1>1, <1>2, <1>4, <2>2 DEF now
<1>5. CASE ~ bucket.there
  <2>1. row = [there |-> TRUE, remaining |-> MaxActions - 1, last_take |-> now]
    BY <1>5 DEF Consumed
  <2>2. MaxActions - 1 \in -1 .. MaxActions - 1 /\ MaxActions - 1 > -1
    BY RateConstants
  <2>3. Allows(row)
    BY <2>1, <2>2 DEF Allows
  <2>4. row \in BucketRow /\ row.there /\ row.last_take = now
    BY <1>1, <2>1, <2>2 DEF BucketRow
  <2> HIDE DEF row
  <2> QED
    BY <1>1, <1>2, <1>5, <2>3, <2>4
<1> QED
  BY <1>4, <1>5

\* A statement that takes a token: the tokens of every stretch stay accounted for.
LEMMA TokenIsTaken ==
    ASSUME RateInv, NEW c \in RateRequest, rateAsked[c].at = "asked", ApplyStatement(c),
           rateClock' = rateClock, Allows(bucket')
    PROVE  /\ taken' \in Seq(TakenToken)
           /\ TakenInTime' /\ TakenInOrder' /\ BucketIsTaken'
           /\ TakenIsAccounted' /\ RateIsBounded'
<1> DEFINE now == rateAsked[c].now
           last == bucket.last_take
           token == [at |-> rateClock, now |-> now]
           again == IF now < last THEN RateLatency ELSE 0
<1> PICK n \in Nat : n = Len(taken)
  BY TakenTypes DEF RateInv
<1>1. /\ now \in Nat /\ now <= rateClock /\ rateClock <= now + RateLatency
      /\ bucket' \in BucketRow /\ bucket'.there /\ bucket'.last_take = now
      /\ taken' = Append(taken, token)
      /\ bucket.there => (AtLeast0(bucket'.remaining) + 1) * TimePerAction
                           <= AtLeast0(bucket.remaining) * TimePerAction
                                + (now - last) + again
  BY StatementMoves
<1>2. /\ rateClock \in Nat /\ bucket \in BucketRow /\ taken \in Seq(TakenToken)
      /\ TakenInTime /\ TakenInOrder /\ BucketIsTaken /\ TakenIsAccounted /\ RateIsBounded
  BY DEF RateInv, RateTypeOK, TakenToken, BucketRow
<1>3. /\ last \in Nat /\ bucket.remaining \in Int
      /\ bucket'.remaining \in -1 .. MaxActions - 1 /\ bucket'.remaining > -1
  BY <1>1, <1>2 DEF BucketRow, Allows
<1>4. token \in TakenToken /\ token.at = rateClock /\ token.now = now
  BY <1>1, <1>2 DEF TakenToken
<1>5. /\ n = Len(taken) /\ n \in Nat /\ DOMAIN taken = 1 .. n
      /\ \A k \in DOMAIN taken : taken[k].at \in Nat /\ taken[k].now \in Nat
      /\ taken' \in Seq(TakenToken) /\ Len(taken') = n + 1
      /\ DOMAIN taken' = 1 .. n + 1
      /\ \A k \in 1 .. n : taken'[k] = taken[k]
      /\ taken'[n + 1] = token
  BY <1>1, <1>2, <1>4, TokensFacts
<1>6. /\ \A i, j \in DOMAIN taken : Late(i, j)' = Late(i, j)
      /\ \A i \in DOMAIN taken :
           Cardinality(Late(i, n + 1)')
             = Cardinality(Late(i, n)) + (IF now < taken[n].now THEN 1 ELSE 0)
      /\ Cardinality(Late(n + 1, n + 1)') = 0
  BY <1>1, <1>4, LateGrows DEF RateInv
<1>7. /\ MaxActions \in Nat /\ MaxActions > 0 /\ TimePerAction \in Nat
      /\ TimePeriod \in Nat /\ TimePeriod = MaxActions * TimePerAction
      /\ RateLatency \in Nat
  BY RateConstants
<1> HIDE DEF now, last, token, again
<1>8. ASSUME NEW k \in DOMAIN taken'
      PROVE  \/ k \in DOMAIN taken /\ k \in 1 .. n /\ taken'[k] = taken[k]
             \/ k = n + 1 /\ taken'[k] = token
  BY <1>5, <1>8
<1>9. TakenInTime'
  <2>1. ASSUME NEW k \in DOMAIN taken'
        PROVE  /\ taken'[k].now <= taken'[k].at
               /\ taken'[k].at <= taken'[k].now + RateLatency
               /\ taken'[k].at <= rateClock
    BY <1>1, <1>2, <1>4, <1>8, <2>1 DEF TakenInTime
  <2> QED
    BY <2>1 DEF TakenInTime
<1>10. TakenInOrder'
  <2>1. ASSUME NEW k \in DOMAIN taken', NEW m \in DOMAIN taken', k <= m
        PROVE  taken'[k].at <= taken'[m].at
    <3>1. taken'[k].at <= rateClock
      BY <1>2, <1>4, <1>8 DEF TakenInTime
    <3>2. CASE m \in DOMAIN taken /\ m \in 1 .. n /\ taken'[m] = taken[m]
      <4>1. k \in DOMAIN taken /\ taken'[k] = taken[k]
        BY <1>5, <1>8, <2>1, <3>2
      <4> QED
        BY <1>2, <2>1, <3>2, <4>1 DEF TakenInOrder
    <3>3. CASE m = n + 1 /\ taken'[m] = token
      BY <1>4, <3>1, <3>3
    <3> QED
      BY <1>8, <3>2, <3>3
  <2> QED
    BY <2>1 DEF TakenInOrder
<1>11. BucketIsTaken'
  <2>1. taken' # <<>>
    BY <1>5
  <2> QED
    BY <1>1, <1>4, <1>5, <2>1 DEF BucketIsTaken
<1>12. ASSUME NEW k \in DOMAIN taken'
       PROVE  Past(k)' \/ Accounted(k, bucket, Len(taken) - k + 1)'
  <2>1. CASE k \in DOMAIN taken /\ k \in 1 .. n /\ taken'[k] = taken[k]
    <3>1. CASE Past(k)
      BY <2>1, <3>1 DEF Past
    <3>2. CASE Accounted(k, bucket, n - k + 1)
      <4> DEFINE t == taken[k].now
                 count == n - k + 1
                 had == AtLeast0(bucket.remaining)
                 left == AtLeast0(bucket'.remaining)
                 late == Cardinality(Late(k, n))
                 late2 == Cardinality(Late(k, n + 1)')
                 more == IF now < last THEN 1 ELSE 0
      <4>1. bucket.there /\ last = taken[n].now
        BY <3>2 DEF Accounted, BucketIsTaken, RateInv, last
      <4>2. (count + had) * TimePerAction <= TimePeriod + (last - t) + late * RateLatency
        BY <3>2 DEF Accounted, last
      <4>3. t \in Nat /\ count \in Nat /\ had \in Nat /\ left \in Nat /\ late \in Nat
        <5>1. k \in Nat /\ k <= n
          BY <1>5, <2>1
        <5>2. late \in Nat
          BY <1>5, <5>1, LateIsFinite
        <5> QED
          BY <1>3, <1>5, <2>1, <5>1, <5>2 DEF AtLeast0
      <4>4. late2 = late + more /\ more \in Nat
        BY <1>6, <2>1, <4>1
      <4>5. (left + 1) * TimePerAction
              <= had * TimePerAction + (now - last) + more * RateLatency
        <5>1. more * RateLatency = again
          BY <1>7 DEF again
        <5> QED
          BY <1>1, <4>1, <5>1
      <4>6. /\ Len(taken') - k + 1 = count + 1
            /\ taken'[k].now = t /\ bucket'.last_take = now /\ Len(taken') = n + 1
        BY <1>1, <1>5, <2>1
      <4> HIDE DEF t, count, had, left, late, late2, more
      <4>7. (count + 1 + left) * TimePerAction
              <= TimePeriod + (now - t) + late2 * RateLatency
        <5>1. (count + had) * TimePerAction = count * TimePerAction + had * TimePerAction
          BY <1>7, <4>3, Products
        <5>2. (count + (left + 1)) * TimePerAction
                = count * TimePerAction + (left + 1) * TimePerAction
          BY <1>7, <4>3, Products
        <5>3. late2 * RateLatency = late * RateLatency + more * RateLatency
          BY <1>7, <4>3, <4>4, Products
        <5>4. /\ count * TimePerAction \in Int /\ had * TimePerAction \in Int
              /\ (left + 1) * TimePerAction \in Int
              /\ late * RateLatency \in Int /\ more * RateLatency \in Int
          BY <1>7, <4>3, <4>4, Products
        <5>5. count + 1 + left = count + (left + 1)
          BY <4>3
        <5> DEFINE x == count * TimePerAction
                   y == had * TimePerAction
                   z == (left + 1) * TimePerAction
                   v == late * RateLatency
                   w == more * RateLatency
        <5>6. /\ x + y <= TimePeriod + (last - t) + v
              /\ z <= y + (now - last) + w
              /\ x \in Int /\ y \in Int /\ z \in Int /\ v \in Int /\ w \in Int
          BY <4>2, <4>5, <5>1, <5>4
        <5> HIDE DEF x, y, z, v, w
        <5>7. x + z <= TimePeriod + (now - t) + (v + w)
          BY <1>1, <1>3, <1>7, <4>3, <5>6
        <5> QED
          BY <5>2, <5>3, <5>5, <5>7 DEF x, z, v, w
      <4> QED
        BY <1>1, <4>6, <4>7 DEF Accounted, left, late2
    <3> QED
      BY <1>2, <2>1, <3>1, <3>2 DEF TakenIsAccounted
  <2>2. CASE k = n + 1 /\ taken'[k] = token
    <3> DEFINE left == AtLeast0(bucket'.remaining)
    <3>1. left \in Int /\ 1 + left \in Int /\ 1 + left <= MaxActions
      BY <1>3, <1>7 DEF AtLeast0
    <3>2. (1 + left) * TimePerAction <= MaxActions * TimePerAction
      <4> HIDE DEF left
      <4> QED
        BY <1>7, <3>1, Products
    <3>3. /\ Len(taken') - k + 1 = 1 /\ Len(taken') = n + 1 /\ k = n + 1
          /\ bucket'.last_take - taken'[k].now = 0
          /\ Cardinality(Late(n + 1, n + 1)') * RateLatency = 0
      BY <1>1, <1>4, <1>5, <1>6, <1>7, <2>2
    <3>4. (1 + left) * TimePerAction
            <= TimePeriod + (bucket'.last_take - taken'[k].now)
                 + Cardinality(Late(n + 1, n + 1)') * RateLatency
      BY <1>7, <3>2, <3>3
    <3> QED
      BY <1>1, <3>3, <3>4 DEF Accounted
  <2> QED
    BY <1>8, <2>1, <2>2
<1>13. TakenIsAccounted'
  BY <1>12 DEF TakenIsAccounted
<1>14. ASSUME NEW i \in DOMAIN taken', NEW j \in DOMAIN taken', i <= j,
              taken'[j].at - taken'[i].at + RateLatency < TimePeriod
       PROVE  (j - i + 1) * TimePerAction
                <= TimePeriod + (taken'[j].at - taken'[i].at + RateLatency)
                     + Cardinality(Late(i, j)') * RateLatency
  <2>1. CASE j \in DOMAIN taken /\ j \in 1 .. n /\ taken'[j] = taken[j]
    <3>1. i \in DOMAIN taken /\ taken'[i] = taken[i]
      BY <1>5, <1>8, <1>14, <2>1
    <3>2. Late(i, j)' = Late(i, j)
      BY <1>6, <2>1, <3>1
    <3> QED
      BY <1>2, <1>14, <2>1, <3>1, <3>2 DEF RateIsBounded
  <2>2. CASE j = n + 1 /\ taken'[j] = token
    <3> DEFINE a == taken'[i].at
               t == taken'[i].now
               left == AtLeast0(bucket'.remaining)
               late == Cardinality(Late(i, j)')
               count == j - i + 1
    <3>1. a \in Nat /\ t \in Nat /\ i \in Nat /\ j \in Nat /\ a <= t + RateLatency
      BY <1>1, <1>2, <1>4, <1>5, <1>8, <1>9 DEF TakenInTime
    <3>2. taken'[j].at = rateClock
      BY <1>4, <2>2
    <3>3. ~ Past(i)'
      BY <1>2, <1>7, <1>14, <3>1, <3>2 DEF Past
    <3>4. Len(taken') = j
      BY <1>5, <2>2
    <3>5. (count + left) * TimePerAction <= TimePeriod + (now - t) + late * RateLatency
      BY <1>1, <1>12, <3>3, <3>4 DEF Accounted
    <3>6. left \in Nat /\ late \in Nat /\ count \in Int
      <4>1. late \in Nat
        <5>1. IsFiniteSet(i + 1 .. j)
          BY <3>1, FS_Interval
        <5>2. Late(i, j)' \subseteq i + 1 .. j
          BY DEF Late
        <5> QED
          BY <5>1, <5>2, FS_Subset, FS_CardinalityType
      <4> QED
        BY <1>3, <3>1, <4>1 DEF AtLeast0
    <3> HIDE DEF a, t, left, late, count
    <3>7. now - t <= rateClock - a + RateLatency
      BY <1>1, <1>2, <1>7, <3>1
    <3>8. count * TimePerAction <= (count + left) * TimePerAction
      BY <1>7, <3>6, Products
    <3>9. /\ count * TimePerAction \in Int /\ (count + left) * TimePerAction \in Int
          /\ late * RateLatency \in Int
      BY <1>7, <3>6, Products
    <3>10. count * TimePerAction
             <= TimePeriod + (rateClock - a + RateLatency) + late * RateLatency
      <4> DEFINE x == count * TimePerAction
                 y == (count + left) * TimePerAction
                 z == late * RateLatency
      <4>1. /\ x \in Int /\ y \in Int /\ z \in Int /\ x <= y
            /\ y <= TimePeriod + (now - t) + z
        BY <3>5, <3>8, <3>9
      <4> HIDE DEF x, y, z
      <4>2. x <= TimePeriod + (rateClock - a + RateLatency) + z
        BY <1>1, <1>2, <1>7, <3>1, <3>7, <4>1
      <4> QED
        BY <4>2 DEF x, z
    <3> QED
      BY <3>2, <3>10 DEF a, late, count
  <2> QED
    BY <1>8, <2>1, <2>2
<1>15. RateIsBounded'
  BY <1>14 DEF RateIsBounded
<1> QED
  BY <1>5, <1>9, <1>10, <1>11, <1>13, <1>15

\* A statement, whether it takes a token or is refused.
LEMMA StatementKeeps ==
    ASSUME RateInv, NEW c \in RateRequest, rateAsked[c].at = "asked", ApplyStatement(c),
           rateClock' = rateClock
    PROVE  /\ bucket' \in BucketRow /\ taken' \in Seq(TakenToken)
           /\ TakenInTime' /\ TakenInOrder' /\ BucketIsTaken'
           /\ TakenIsAccounted' /\ RateIsBounded'
<1>1. bucket' \in BucketRow
  BY StatementMoves
<1>2. CASE Allows(bucket')
  BY <1>1, <1>2, TokenIsTaken
<1>3. CASE ~ Allows(bucket')
  <2>1. /\ taken' = taken /\ bucket.there /\ bucket'.there
        /\ bucket'.last_take = bucket.last_take /\ AtLeast0(bucket'.remaining) = 0
    BY <1>3, StatementMoves
  <2>2. /\ taken \in Seq(TakenToken) /\ RateTypeOK /\ bucket \in BucketRow
        /\ TakenInTime /\ TakenInOrder /\ BucketIsTaken /\ TakenIsAccounted /\ RateIsBounded
    BY DEF RateInv, RateTypeOK, TakenToken, BucketRow
  <2>3. TakenInTime' /\ TakenInOrder' /\ BucketIsTaken' /\ RateIsBounded'
    BY <2>1, <2>2 DEF TakenInTime, TakenInOrder, BucketIsTaken, RateIsBounded, Late
  <2>4. ASSUME NEW k \in DOMAIN taken, Accounted(k, bucket, Len(taken) - k + 1)
        PROVE  Accounted(k, bucket, Len(taken) - k + 1)'
    <3> DEFINE count == Len(taken) - k + 1
               had == AtLeast0(bucket.remaining)
               room == TimePeriod + (bucket.last_take - taken[k].now)
                         + Cardinality(Late(k, Len(taken))) * RateLatency
    <3>1. (count + had) * TimePerAction <= room
      BY <2>4 DEF Accounted
    <3>2. count \in Int /\ had \in Nat /\ TimePerAction \in Nat
      <4>1. Len(taken) \in Nat /\ k \in Nat
        BY <2>2, <2>4, TakenTypes
      <4>2. bucket.remaining \in Int
        BY <2>2 DEF BucketRow
      <4> QED
        BY <4>1, <4>2, RateConstants DEF AtLeast0
    <3>3. room \in Int
      <4>1. Len(taken) \in Nat /\ k \in Nat /\ taken[k].now \in Nat
        BY <2>2, <2>4, TakenTypes
      <4>2. Cardinality(Late(k, Len(taken))) \in Nat
        BY <4>1, LateIsFinite
      <4>3. bucket.last_take \in Nat
        BY <2>2 DEF BucketRow
      <4> QED
        BY <4>1, <4>2, <4>3, RateConstants
    <3> HIDE DEF count, had, room
    <3>4. (count + 0) * TimePerAction <= (count + had) * TimePerAction
      BY <3>2, Products
    <3>5. (count + 0) * TimePerAction \in Int /\ (count + had) * TimePerAction \in Int
      BY <3>2, Products
    <3>6. (count + 0) * TimePerAction <= room
      BY <3>1, <3>3, <3>4, <3>5
    <3> QED
      BY <2>1, <3>6 DEF Accounted, count, room, Late
  <2>5. TakenIsAccounted'
    BY <2>1, <2>2, <2>4 DEF TakenIsAccounted, Past
  <2> QED
    BY <1>1, <2>1, <2>2, <2>3, <2>5
<1> QED
  BY <1>2, <1>3

\* Every step keeps the types.
LEMMA RateTypeStep == RateInv /\ [RateNext]_rateVars => RateTypeOK'
<1> SUFFICES ASSUME RateInv, [RateNext]_rateVars PROVE RateTypeOK'
  OBVIOUS
<1>1. RateTypeOK
  BY DEF RateInv
<1> USE RateConstants DEF RateTypeOK
<1>2. CASE RateTick
  BY <1>1, <1>2 DEF RateTick
<1>3. CASE PruneBuckets
  <2>1. NoBucket \in [there : BOOLEAN, remaining : -1 .. MaxActions - 1, last_take : Nat]
    BY DEF NoBucket
  <2> QED
    BY <1>1, <1>3, <2>1 DEF PruneBuckets
<1>4. ASSUME NEW c \in RateRequest, AskToken(c) PROVE RateTypeOK'
  BY <1>1, <1>4 DEF AskToken
<1>5. ASSUME NEW c \in RateRequest, TakeToken(c) \/ TakeTokenUnanswered(c)
      PROVE  RateTypeOK'
  <2>1. /\ bucket' \in [there : BOOLEAN, remaining : -1 .. MaxActions - 1,
                        last_take : Nat]
        /\ taken' \in Seq([at : Nat, now : Nat])
    <3>1. rateAsked[c].at = "asked" /\ ApplyStatement(c) /\ rateClock' = rateClock
      BY <1>5 DEF TakeToken, TakeTokenUnanswered
    <3> QED
      BY <3>1, StatementKeeps DEF TakenToken, BucketRow
  <2>2. rateAsked' \in [RateRequest -> [at : {"idle", "asked"}, now : Nat]]
    <3>1. RateIdle \in [at : {"idle", "asked"}, now : Nat]
      BY DEF RateIdle
    <3>2. rateAsked' = [rateAsked EXCEPT ![c] = RateIdle] \/ rateAsked' = rateAsked
      BY <1>5 DEF TakeToken, TakeTokenUnanswered
    <3> QED
      BY <1>1, <3>1, <3>2
  <2>3. lostAnswers' \in 0 .. MaxLostAnswers
    BY <1>1, <1>5 DEF TakeToken, TakeTokenUnanswered
  <2>4. rateClock' \in Nat
    BY <1>1, <1>5 DEF TakeToken, TakeTokenUnanswered
  <2> QED
    BY <2>1, <2>2, <2>3, <2>4
<1>6. CASE UNCHANGED rateVars
  BY <1>1, <1>6 DEF rateVars
<1> QED
  BY <1>2, <1>3, <1>4, <1>5, <1>6 DEF RateNext

\* Time waits for the statements that are under way.
LEMMA TimelyStep == RateInv /\ [RateNext]_rateVars => StatementsAreTimely'
<1> SUFFICES ASSUME RateInv, [RateNext]_rateVars PROVE StatementsAreTimely'
  OBVIOUS
<1>1. RateTypeOK /\ StatementsAreTimely
  BY DEF RateInv
<1> USE RateConstants DEF RateTypeOK, StatementsAreTimely
<1>2. CASE RateTick
  BY <1>1, <1>2 DEF RateTick
<1>3. ASSUME NEW c \in RateRequest, AskToken(c) PROVE StatementsAreTimely'
  BY <1>1, <1>3 DEF AskToken
<1>4. ASSUME NEW c \in RateRequest, TakeToken(c) \/ TakeTokenUnanswered(c)
      PROVE  StatementsAreTimely'
  <2>1. rateClock' = rateClock
    BY <1>4 DEF TakeToken, TakeTokenUnanswered
  <2>2. \A d \in RateRequest : \/ rateAsked'[d] = rateAsked[d]
                               \/ rateAsked'[d].at = "idle"
    BY <1>1, <1>4 DEF TakeToken, TakeTokenUnanswered, RateIdle
  <2> QED
    BY <1>1, <2>1, <2>2
<1>5. CASE PruneBuckets \/ UNCHANGED rateVars
  BY <1>1, <1>5 DEF PruneBuckets, rateVars
<1> QED
  BY <1>2, <1>3, <1>4, <1>5 DEF RateNext

\* Every step keeps the account of the tokens taken.
LEMMA AccountStep ==
    RateInv /\ [RateNext]_rateVars
      => /\ TakenInTime' /\ TakenInOrder' /\ BucketIsTaken'
         /\ TakenIsAccounted' /\ RateIsBounded'
<1> SUFFICES ASSUME RateInv, [RateNext]_rateVars
             PROVE  /\ TakenInTime' /\ TakenInOrder' /\ BucketIsTaken'
                    /\ TakenIsAccounted' /\ RateIsBounded'
  OBVIOUS
<1>1. /\ rateClock \in Nat
      /\ \A k \in DOMAIN taken : taken[k].at \in Nat /\ taken[k].now \in Nat
      /\ TakenInTime /\ TakenInOrder /\ BucketIsTaken /\ TakenIsAccounted /\ RateIsBounded
  BY TakenTypes DEF RateInv, RateTypeOK
<1>2. CASE RateTick
  <2>1. rateClock' = rateClock + 1 /\ UNCHANGED <<bucket, taken>>
    BY <1>2 DEF RateTick
  <2>2. \A k \in DOMAIN taken : taken[k].at <= rateClock'
    BY <1>1, <2>1 DEF TakenInTime
  <2>3. \A k \in DOMAIN taken : Past(k) => Past(k)'
    BY <1>1, <2>1, RateConstants DEF Past
  <2>4. TakenInOrder' /\ BucketIsTaken'
    BY <1>1, <2>1 DEF TakenInOrder, BucketIsTaken
  <2> QED
    BY <1>1, <2>1, <2>2, <2>3, <2>4
       DEF TakenInTime, TakenIsAccounted, Accounted, RateIsBounded, Late
<1>3. CASE PruneBuckets
  <2>1. /\ bucket.there /\ bucket.last_take <= rateClock - TimePeriod
        /\ bucket' = NoBucket /\ UNCHANGED <<rateClock, taken>>
    BY <1>3 DEF PruneBuckets
  <2>2. ASSUME NEW k \in DOMAIN taken PROVE Past(k)
    <3> DEFINE n == Len(taken)
    <3>1. n \in DOMAIN taken /\ k <= n /\ bucket.last_take = taken[n].now
      BY <1>1, <2>1, TakenTypes DEF BucketIsTaken, RateInv
    <3> HIDE DEF n
    <3>2. taken[k].at <= taken[n].at /\ taken[n].at <= taken[n].now + RateLatency
      BY <1>1, <3>1 DEF TakenInOrder, TakenInTime
    <3>3. taken[k].at \in Nat /\ taken[n].at \in Nat /\ taken[n].now \in Nat
      BY <1>1, <3>1
    <3> QED
      BY <1>1, <2>1, <3>1, <3>2, <3>3, RateConstants DEF Past
  <2>3. ~ bucket'.there
    BY <2>1 DEF NoBucket
  <2> QED
    BY <1>1, <2>1, <2>2, <2>3 DEF TakenInTime, TakenInOrder, BucketIsTaken,
                                  TakenIsAccounted, Past, RateIsBounded, Late
<1>4. ASSUME NEW c \in RateRequest, TakeToken(c) \/ TakeTokenUnanswered(c)
      PROVE  /\ TakenInTime' /\ TakenInOrder' /\ BucketIsTaken'
             /\ TakenIsAccounted' /\ RateIsBounded'
  <2>1. rateAsked[c].at = "asked" /\ ApplyStatement(c) /\ rateClock' = rateClock
    BY <1>4 DEF TakeToken, TakeTokenUnanswered
  <2> QED
    BY <2>1, StatementKeeps
<1>5. CASE UNCHANGED <<rateClock, bucket, taken>>
  BY <1>1, <1>5 DEF TakenInTime, TakenInOrder, BucketIsTaken, TakenIsAccounted, Accounted,
                    Past, RateIsBounded, Late
<1> QED
  BY <1>2, <1>3, <1>4, <1>5 DEF RateNext, rateVars, AskToken

\* All of the above hold at first, and every step keeps them.
LEMMA RateInvariant == RateSpec => []RateInv
<1>1. RateInit => RateInv
  <2> SUFFICES ASSUME RateInit PROVE RateInv
    OBVIOUS
  <2>1. RateTypeOK
    BY RateConstants DEF RateInit, RateTypeOK, NoBucket, RateIdle
  <2>2. StatementsAreTimely
    BY DEF RateInit, StatementsAreTimely, RateIdle
  <2>3. taken = <<>> /\ ~ bucket.there /\ DOMAIN taken = {}
    BY DEF RateInit, NoBucket
  <2> QED
    BY <2>1, <2>2, <2>3 DEF RateInv, TakenInTime, TakenInOrder, BucketIsTaken,
                            TakenIsAccounted, RateIsBounded
<1>2. RateInv /\ [RateNext]_rateVars => RateInv'
  BY RateTypeStep, TimelyStep, AccountStep DEF RateInv
<1> QED
  BY <1>1, <1>2, PTL DEF RateSpec

(* RateTypeOK: the row of a bucket and the statements are well-typed; the   *)
(* tokens of a row never exceed its maximum and never fall below -1, in     *)
(* whatever order statements with older and newer times are applied.        *)
THEOREM RateTypeCorrect == RateSpec => []RateTypeOK
<1>1. RateInv => RateTypeOK
  BY DEF RateInv
<1> QED
  BY <1>1, RateInvariant, PTL

(* RateIsBounded: in a stretch shorter than a period, no more requests are  *)
(* allowed than a full bucket, its refill and what its late statements      *)
(* refill once more, although statements run late, run twice and meet       *)
(* buckets that were pruned.                                                *)
THEOREM RateHolds == RateSpec => []RateIsBounded
<1>1. RateInv => RateIsBounded
  BY DEF RateInv
<1> QED
  BY <1>1, RateInvariant, PTL

\* A request is only refused by a row, and the row has the last token's time.
LEMMA RefusedSoon ==
    ASSUME RateInv, [RateNext]_rateVars, NEW c \in RateRequest,
           rateAsked[c].at = "asked", rateAsked'[c].at = "idle", taken' = taken
    PROVE  /\ taken # <<>>
           /\ rateAsked[c].now < taken[Len(taken)].now + TimePerAction
<1>1. TakeToken(c)
  BY DEF RateNext, rateVars, RateTick, PruneBuckets, AskToken, TakeToken,
         TakeTokenUnanswered, RateInv, RateTypeOK
<1>2. ApplyStatement(c)
  BY <1>1 DEF TakeToken
<1> DEFINE now == rateAsked[c].now
<1>3. now \in Nat
  BY DEF RateInv, RateTypeOK
<1>4. ~ Allows(bucket')
  <2>1. taken' # Append(taken, [at |-> rateClock, now |-> now])
    <3>1. [at |-> rateClock, now |-> now] \in TakenToken /\ taken \in Seq(TakenToken)
      BY <1>3 DEF RateInv, RateTypeOK, TakenToken
    <3>2. Len(Append(taken, [at |-> rateClock, now |-> now])) # Len(taken)
      BY <3>1, TokensFacts
    <3> QED
      BY <3>2
  <2> QED
    BY <1>2, <2>1, StatementMoves
<1>5. bucket.there /\ now < bucket.last_take + TimePerAction
  BY <1>2, <1>4, StatementMoves
<1> QED
  BY <1>5 DEF RateInv, BucketIsTaken

(* WaitersAreServed: checkRateLimit refuses no request that was made        *)
(* TimePerAction after the last token was taken: refusals take nothing, and *)
(* late statements, which may set last_take back, never set it ahead.       *)
THEOREM RefusalsEnd == RateSpec => WaitersAreServed
<1>1. RateInv /\ [RateNext]_rateVars
        => [\A c \in RateRequest :
              rateAsked[c].at = "asked" /\ rateAsked'[c].at = "idle" /\ taken' = taken
                => /\ taken # <<>>
                   /\ rateAsked[c].now < taken[Len(taken)].now + TimePerAction]_rateVars
  BY RefusedSoon
<1> QED
  BY <1>1, RateInvariant, PTL DEF RateSpec, WaitersAreServed

-----------------------------------------------------------------------------
(***************************************************************************)
(* The links of POAPs. Requests for one ticket never overlap within the    *)
(* lock (ClaimsOK), and the one that is about to take a link found none    *)
(* (TicketIsNew), unless its own statement runs again.                     *)
(***************************************************************************)

\* A request that has the lock of its ticket.
Locked(c) == claim[c].at \in {"find", "pick", "write"}

\* A request has one ticket, a link is picked before it is written, and two
\* requests for one ticket never hold the lock together.
ClaimsOK ==
    \A c \in PoapRequest :
       /\ claim[c].at # "idle" => \E t \in PoapTicket : claim[c].ticket = {t}
       /\ claim[c].at = "write" => \E l \in PoapLink : claim[c].link = {l}
       /\ \A d \in PoapRequest : Locked(c) /\ Locked(d) /\ c # d
                                   => claim[c].ticket # claim[d].ticket

\* A request that is about to take a link is of a ticket without one, unless
\* its own statement has run before.
TicketIsNew ==
    \A c \in PoapRequest :
       claim[c].at \in {"pick", "write"} /\ ~ claim[c].again
         => \A t \in claim[c].ticket : LinksOf(t) = {}

PoapInv == PoapTypeOK /\ ClaimsOK /\ TicketIsNew

\* Nobody asks for a link at first.
LEMMA PoapTypeInit == PoapInit => PoapTypeOK
BY PoapAssumption DEF PoapInit, PoapTypeOK, PoapIdle, Claim, PoapPhase

\* Every step keeps the types.
LEMMA PoapTypeStep == PoapTypeOK /\ [PoapNext]_poapVars => PoapTypeOK'
<1> SUFFICES ASSUME PoapTypeOK, [PoapNext]_poapVars PROVE PoapTypeOK'
  OBVIOUS
<1> USE PoapAssumption DEF PoapTypeOK
<1>1. PoapIdle \in [at : PoapPhase, ticket : SUBSET PoapTicket,
                    link : SUBSET PoapLink, again : BOOLEAN]
  BY DEF PoapIdle, Claim, PoapPhase
<1>2. ASSUME NEW c \in PoapRequest, NEW t \in PoapTicket, AskPoap(c, t) PROVE PoapTypeOK'
  BY <1>2 DEF AskPoap, Claim, PoapPhase
<1>3. ASSUME NEW c \in PoapRequest, EnterLock(c) PROVE PoapTypeOK'
  BY <1>3 DEF EnterLock, Move, PoapPhase
<1>4. ASSUME NEW c \in PoapRequest, FindLink(c) PROVE PoapTypeOK'
  BY <1>1, <1>4 DEF FindLink, Move, EndClaim, PoapPhase
<1>5. ASSUME NEW c \in PoapRequest, PickLink(c) PROVE PoapTypeOK'
  <2>1. PICK l \in PoapLink : claim' = [claim EXCEPT ![c].at = "write", ![c].link = {l}]
    BY <1>5 DEF PickLink, Free
  <2>2. UNCHANGED <<holders, poapFaults>>
    BY <1>5 DEF PickLink
  <2>3. claim' \in [PoapRequest -> [at : PoapPhase, ticket : SUBSET PoapTicket,
                                   link : SUBSET PoapLink, again : BOOLEAN]]
    <3>1. [claim[c] EXCEPT !.at = "write", !.link = {l}]
             \in [at : PoapPhase, ticket : SUBSET PoapTicket,
                  link : SUBSET PoapLink, again : BOOLEAN]
      BY DEF PoapPhase
    <3>2. claim' = [claim EXCEPT ![c] = [claim[c] EXCEPT !.at = "write", !.link = {l}]]
      BY <2>1
    <3> QED
      BY <3>1, <3>2
  <2> QED
    BY <2>2, <2>3
<1>6. ASSUME NEW c \in PoapRequest, RefusePoap(c) \/ RejectLink(c) PROVE PoapTypeOK'
  BY <1>1, <1>6 DEF RefusePoap, RejectLink, EndClaim
<1>7. ASSUME NEW c \in PoapRequest, WriteLink(c) PROVE PoapTypeOK'
  BY <1>1, <1>7 DEF WriteLink, EndClaim, Associate
<1>8. ASSUME NEW c \in PoapRequest, WriteLinkTwice(c) PROVE PoapTypeOK'
  BY <1>8 DEF WriteLinkTwice, Associate, Claim, PoapPhase
<1>9. ASSUME NEW c \in PoapRequest, PoapFails(c) PROVE PoapTypeOK'
  BY <1>1, <1>9 DEF PoapFails, EndClaim
<1>10. CASE UNCHANGED poapVars
  BY <1>10 DEF poapVars
<1> QED
  BY <1>2, <1>3, <1>4, <1>5, <1>6, <1>7, <1>8, <1>9, <1>10 DEF PoapNext

\* A step of a request moves no other, and gives a ticket the lock only if no
\* other request has it.
LEMMA PoapMoves ==
    ASSUME PoapTypeOK, ClaimsOK, NEW c \in PoapRequest,
           \/ \E t \in PoapTicket : AskPoap(c, t)
           \/ EnterLock(c) \/ FindLink(c) \/ PickLink(c) \/ RefusePoap(c)
           \/ WriteLink(c) \/ RejectLink(c) \/ WriteLinkTwice(c) \/ PoapFails(c)
    PROVE  /\ \A d \in PoapRequest : d # c => claim'[d] = claim[d]
           /\ claim'[c].at # "idle" => \E t \in PoapTicket : claim'[c].ticket = {t}
           /\ claim'[c].at = "write" => \E l \in PoapLink : claim'[c].link = {l}
           /\ Locked(c)' => /\ claim'[c].ticket = claim[c].ticket
                            /\ \/ Locked(c)
                               \/ \A d \in PoapRequest : Locked(d) =>
                                     claim[d].ticket # claim[c].ticket
<1>1. /\ claim \in [PoapRequest -> [at : PoapPhase, ticket : SUBSET PoapTicket,
                                    link : SUBSET PoapLink, again : BOOLEAN]]
      /\ claim[c].at # "idle" => \E t \in PoapTicket : claim[c].ticket = {t}
      /\ claim[c].at = "write" => \E l \in PoapLink : claim[c].link = {l}
  BY DEF PoapTypeOK, ClaimsOK
<1>2. PoapIdle.at = "idle"
  BY DEF PoapIdle, Claim
<1>3. CASE \E t \in PoapTicket : AskPoap(c, t)
  BY <1>1, <1>3 DEF AskPoap, Claim, Locked
<1>4. CASE EnterLock(c)
  BY <1>1, <1>4 DEF EnterLock, Move, Locked, PoapPhase
<1>5. CASE FindLink(c)
  <2>1. Move(c, "pick") \/ EndClaim(c)
    BY <1>5 DEF FindLink
  <2>2. CASE Move(c, "pick")
    BY <1>1, <1>5, <2>2 DEF FindLink, Move, Locked
  <2>3. CASE EndClaim(c)
    BY <1>1, <1>2, <2>3 DEF EndClaim, Locked
  <2> QED
    BY <2>1, <2>2, <2>3
<1>6. CASE PickLink(c)
  <2>1. /\ claim[c].at = "pick"
        /\ \E l \in PoapLink : claim' = [claim EXCEPT ![c].at = "write", ![c].link = {l}]
    BY <1>6 DEF PickLink, Free
  <2> QED
    BY <1>1, <2>1 DEF Locked
<1>7. CASE RefusePoap(c) \/ WriteLink(c) \/ RejectLink(c) \/ PoapFails(c)
  BY <1>1, <1>2, <1>7 DEF RefusePoap, WriteLink, RejectLink, PoapFails, EndClaim, Locked
<1>8. CASE WriteLinkTwice(c)
  BY <1>1, <1>8 DEF WriteLinkTwice, Claim, Locked
<1> QED
  BY <1>3, <1>4, <1>5, <1>6, <1>7, <1>8

\* Every step keeps who has which ticket, and its lock, apart.
LEMMA ClaimsStep == PoapTypeOK /\ ClaimsOK /\ [PoapNext]_poapVars => ClaimsOK'
<1> SUFFICES ASSUME PoapTypeOK, ClaimsOK, [PoapNext]_poapVars PROVE ClaimsOK'
  OBVIOUS
<1>1. ASSUME NEW c \in PoapRequest,
             \/ \E t \in PoapTicket : AskPoap(c, t)
             \/ EnterLock(c) \/ FindLink(c) \/ PickLink(c) \/ RefusePoap(c)
             \/ WriteLink(c) \/ RejectLink(c) \/ WriteLinkTwice(c) \/ PoapFails(c)
      PROVE  ClaimsOK'
  <2>1. /\ \A d \in PoapRequest : d # c => claim'[d] = claim[d]
        /\ claim'[c].at # "idle" => \E t \in PoapTicket : claim'[c].ticket = {t}
        /\ claim'[c].at = "write" => \E l \in PoapLink : claim'[c].link = {l}
        /\ Locked(c)' => /\ claim'[c].ticket = claim[c].ticket
                         /\ \/ Locked(c)
                            \/ \A d \in PoapRequest : Locked(d) =>
                                  claim[d].ticket # claim[c].ticket
    BY <1>1, PoapMoves
  <2>2. ASSUME NEW d \in PoapRequest, NEW e \in PoapRequest,
               Locked(d)', Locked(e)', d # e
        PROVE  claim'[d].ticket # claim'[e].ticket
    BY <2>1, <2>2 DEF ClaimsOK, Locked
  <2> QED
    BY <2>1, <2>2 DEF ClaimsOK, Locked
<1>2. CASE UNCHANGED poapVars
  BY <1>2 DEF poapVars, ClaimsOK, Locked
<1> QED
  BY <1>1, <1>2 DEF PoapNext

\* A write gives a link that is not yet its ticket's last one to that ticket,
\* and to no other.
LEMMA LinksMove ==
    ASSUME PoapTypeOK, ClaimsOK, NEW c \in PoapRequest, claim[c].at = "write",
           Associate(c)
    PROVE  \E t \in PoapTicket, l \in PoapLink :
             /\ claim[c].ticket = {t} /\ claim[c].link = {l}
             /\ holders' = [holders EXCEPT ![l] = {t}]
             /\ \A u \in PoapTicket : u # t => LinksOf(u)' \subseteq LinksOf(u)
<1>1. PICK t \in PoapTicket : claim[c].ticket = {t}
  BY DEF ClaimsOK
<1>2. PICK l \in PoapLink : claim[c].link = {l}
  BY DEF ClaimsOK
<1>3. holders' = [holders EXCEPT ![l] = {t}]
  BY <1>1, <1>2 DEF Associate
<1>4. \A u \in PoapTicket : u # t => LinksOf(u)' \subseteq LinksOf(u)
  BY <1>3 DEF LinksOf, PoapTypeOK
<1> QED
  BY <1>1, <1>2, <1>3, <1>4

\* The lock of a ticket keeps others from giving it a link meanwhile.
LEMMA TicketIsNewStep ==
    ASSUME PoapTypeOK, ClaimsOK, TicketIsNew, [PoapNext]_poapVars
    PROVE  TicketIsNew'
<1>1. ASSUME NEW c \in PoapRequest,
             WriteLink(c) \/ WriteLinkTwice(c)
      PROVE  TicketIsNew'
  <2>1. claim[c].at = "write" /\ Associate(c)
    BY <1>1 DEF WriteLink, WriteLinkTwice
  <2>2. PICK t \in PoapTicket, l \in PoapLink :
          /\ claim[c].ticket = {t} /\ claim[c].link = {l}
          /\ \A u \in PoapTicket : u # t => LinksOf(u)' \subseteq LinksOf(u)
    BY <2>1, LinksMove
  <2>3. \A d \in PoapRequest : d # c => claim'[d] = claim[d]
    BY <1>1, PoapMoves
  <2>4. claim'[c].at = "idle" \/ claim'[c].again
    BY <1>1 DEF WriteLink, WriteLinkTwice, EndClaim, PoapIdle, Claim, PoapTypeOK
  <2>5. ASSUME NEW d \in PoapRequest, claim'[d].at \in {"pick", "write"},
               ~ claim'[d].again, NEW u \in claim'[d].ticket
        PROVE  LinksOf(u)' = {}
    <3>1. d # c /\ claim'[d] = claim[d]
      BY <2>3, <2>4, <2>5
    <3>2. Locked(d) /\ Locked(c)
      BY <2>1, <2>5, <3>1 DEF Locked
    <3>3. claim[d].ticket # {t} /\ \E x \in PoapTicket : claim[d].ticket = {x}
      BY <2>2, <2>5, <3>1, <3>2 DEF ClaimsOK
    <3>4. u # t /\ u \in PoapTicket
      BY <2>5, <3>1, <3>3
    <3>5. LinksOf(u) = {}
      BY <2>5, <3>1 DEF TicketIsNew
    <3> QED
      BY <2>2, <3>4, <3>5
  <2> QED
    BY <2>5 DEF TicketIsNew
<1>2. ASSUME NEW c \in PoapRequest,
             \/ \E t \in PoapTicket : AskPoap(c, t)
             \/ EnterLock(c) \/ FindLink(c) \/ PickLink(c) \/ RefusePoap(c)
             \/ RejectLink(c) \/ PoapFails(c)
      PROVE  TicketIsNew'
  <2>1. \A d \in PoapRequest : d # c => claim'[d] = claim[d]
    BY <1>2, PoapMoves
  <2>2. UNCHANGED holders /\ \A t : LinksOf(t)' = LinksOf(t)
    BY <1>2 DEF AskPoap, EnterLock, FindLink, PickLink, RefusePoap, RejectLink, PoapFails,
                LinksOf
  <2>3. ASSUME claim'[c].at \in {"pick", "write"}, ~ claim'[c].again,
               NEW t \in claim'[c].ticket
        PROVE  LinksOf(t) = {}
    <3>1. CASE FindLink(c)
      <4>1. Move(c, "pick") \/ EndClaim(c)
        BY <3>1 DEF FindLink
      <4>2. ~ EndClaim(c)
        BY <2>3 DEF EndClaim, PoapIdle, Claim, PoapTypeOK
      <4>3. claim'[c].ticket = claim[c].ticket
        BY <4>1, <4>2 DEF Move, PoapTypeOK
      <4>4. claim[c].at = "find" /\ \E u \in claim[c].ticket : LinksOf(u) = {}
        BY <3>1, <4>2 DEF FindLink
      <4> QED
        BY <2>3, <4>3, <4>4 DEF ClaimsOK
    <3>2. CASE PickLink(c)
      <4>1. /\ claim[c].at = "pick"
            /\ \E l \in PoapLink : claim' = [claim EXCEPT ![c].at = "write",
                                                         ![c].link = {l}]
        BY <3>2 DEF PickLink, Free
      <4>2. claim'[c].ticket = claim[c].ticket /\ claim'[c].again = claim[c].again
        BY <4>1 DEF PoapTypeOK
      <4> QED
        BY <2>3, <4>1, <4>2 DEF TicketIsNew
    <3>3. CASE (\E u \in PoapTicket : AskPoap(c, u)) \/ EnterLock(c)
      BY <2>3, <3>3 DEF AskPoap, EnterLock, Move, Claim, PoapTypeOK
    <3>4. CASE RefusePoap(c) \/ RejectLink(c) \/ PoapFails(c)
      BY <2>3, <3>4 DEF RefusePoap, RejectLink, PoapFails, EndClaim, PoapIdle, Claim,
                        PoapTypeOK
    <3> QED
      BY <1>2, <3>1, <3>2, <3>3, <3>4
  <2> QED
    BY <2>1, <2>2, <2>3 DEF TicketIsNew
<1>3. CASE UNCHANGED poapVars
  BY <1>3 DEF poapVars, TicketIsNew, LinksOf
<1> QED
  BY <1>1, <1>2, <1>3 DEF PoapNext

\* All of these hold at first, and every step keeps them.
LEMMA PoapInvariant == PoapSpec => []PoapInv
<1>1. PoapInit => PoapInv
  BY PoapTypeInit DEF PoapInit, PoapInv, ClaimsOK, Locked, TicketIsNew, PoapIdle, Claim
<1>2. PoapInv /\ [PoapNext]_poapVars => PoapInv'
  BY PoapTypeStep, ClaimsStep, TicketIsNewStep DEF PoapInv
<1> QED
  BY <1>1, <1>2, PTL DEF PoapSpec

(* PoapTypeOK: requests and links are well-typed.                           *)
THEOREM PoapTypeCorrect == PoapSpec => []PoapTypeOK
<1>1. PoapInv => PoapTypeOK
  BY DEF PoapInv
<1> QED
  BY <1>1, PoapInvariant, PTL

(* ClaimsDoNotCollide: under the lock of getPoapClaimUrlByTicketId, who is  *)
(* about to write is of a ticket that has no link, so that he does not meet *)
(* the UNIQUE constraint.                                                   *)
THEOREM NoCollision == PoapSpec => []ClaimsDoNotCollide
<1>1. PoapInv => ClaimsDoNotCollide
  BY DEF PoapInv, TicketIsNew, ClaimsDoNotCollide
<1> QED
  BY <1>1, PoapInvariant, PTL

\* A step writes the row of the link that it picked, which nobody picks but of
\* the rows without a ticket.
LEMMA SettledStays ==
    ASSUME PoapInv, [PoapNext]_poapVars, NEW l \in PoapLink, Settled(l)
    PROVE  holders'[l] = holders[l] /\ Settled(l)'
<1> DEFINE HasPicked(c) == claim[c].at = "write" /\ claim[c].link = {l}
<1>1. /\ claim \in [PoapRequest -> [at : PoapPhase, ticket : SUBSET PoapTicket,
                                    link : SUBSET PoapLink, again : BOOLEAN]]
      /\ holders[l] # {} /\ \A c \in PoapRequest : ~ HasPicked(c)
  BY DEF PoapInv, PoapTypeOK, Settled
<1>2. SUFFICES holders'[l] = holders[l] /\ \A c \in PoapRequest : ~ HasPicked(c)'
  BY <1>1 DEF Settled
<1>3. ASSUME NEW c \in PoapRequest, ~ HasPicked(c)', holders'[l] = holders[l],
             \A d \in PoapRequest : d # c => claim'[d] = claim[d]
      PROVE  holders'[l] = holders[l] /\ \A d \in PoapRequest : ~ HasPicked(d)'
  BY <1>1, <1>3
<1>4. PoapIdle.at = "idle"
  BY DEF PoapIdle, Claim
<1>5. ASSUME NEW c \in PoapRequest, PickLink(c)
      PROVE  holders'[l] = holders[l] /\ \A d \in PoapRequest : ~ HasPicked(d)'
  <2>1. PICK k \in PoapLink : /\ holders[k] = {}
                             /\ claim' = [claim EXCEPT ![c].at = "write", ![c].link = {k}]
    BY <1>5 DEF PickLink, Free
  <2>2. holders' = holders
    BY <1>5 DEF PickLink
  <2>3. claim'[c].link = {k} /\ k # l
    BY <1>1, <2>1
  <2> QED
    BY <1>1, <1>3, <2>1, <2>2, <2>3
<1>6. ASSUME NEW c \in PoapRequest, WriteLink(c) \/ WriteLinkTwice(c)
      PROVE  holders'[l] = holders[l] /\ \A d \in PoapRequest : ~ HasPicked(d)'
  <2>1. claim[c].at = "write" /\ Associate(c)
    BY <1>6 DEF WriteLink, WriteLinkTwice
  <2>2. PICK t \in PoapTicket, k \in PoapLink :
          claim[c].link = {k} /\ holders' = [holders EXCEPT ![k] = {t}]
    BY <2>1, LinksMove DEF PoapInv
  <2>3. holders'[l] = holders[l]
    BY <1>1, <2>1, <2>2 DEF PoapInv, PoapTypeOK
  <2>4. claim'[c].at \in {"idle", "pick"}
    BY <1>1, <1>4, <1>6 DEF WriteLink, WriteLinkTwice, EndClaim, Claim
  <2>5. \A d \in PoapRequest : d # c => claim'[d] = claim[d]
    BY <1>1, <1>6 DEF WriteLink, WriteLinkTwice, EndClaim
  <2> QED
    BY <1>3, <2>3, <2>4, <2>5
<1>7. ASSUME NEW c \in PoapRequest,
             \/ \E t \in PoapTicket : AskPoap(c, t)
             \/ EnterLock(c) \/ FindLink(c) \/ RefusePoap(c) \/ RejectLink(c)
             \/ PoapFails(c)
      PROVE  holders'[l] = holders[l] /\ \A d \in PoapRequest : ~ HasPicked(d)'
  <2>1. claim'[c].at # "write"
    BY <1>1, <1>4, <1>7 DEF AskPoap, EnterLock, FindLink, RefusePoap, RejectLink, PoapFails,
                            Move, EndClaim, Claim
  <2>2. holders' = holders /\ \A d \in PoapRequest : d # c => claim'[d] = claim[d]
    BY <1>1, <1>7 DEF AskPoap, EnterLock, FindLink, RefusePoap, RejectLink, PoapFails,
                      Move, EndClaim
  <2> QED
    BY <1>3, <2>1, <2>2
<1>8. CASE UNCHANGED poapVars
  BY <1>1, <1>8 DEF poapVars
<1> QED
  BY <1>5, <1>6, <1>7, <1>8 DEF PoapNext

(* RedirectsAreFinal: the scan of a ticket is redirected to one link for    *)
(* good, when no statement is under way that found the link free before the *)
(* ticket had it; requests that overlap, fail half-way or reach the         *)
(* database again do not change it, nor can they.                           *)
THEOREM LinksStay == PoapSpec => RedirectsAreFinal
<1>1. PoapInv /\ [PoapNext]_poapVars
        => [LinksStand]_poapVars
  BY SettledStays DEF LinksStand
<1> QED
  BY <1>1, PoapInvariant, PTL DEF PoapSpec, RedirectsAreFinal

-----------------------------------------------------------------------------
(***************************************************************************)
(* The services together.                                                  *)
(***************************************************************************)

\* A step of one service is a step of it or of none of the others.
LEMMA ServicesStepApart ==
    ASSUME [ServicesNext]_<<frogVars, rateVars, accountVars, poapVars, service>>
    PROVE  /\ [FrogNext]_frogVars /\ [RateNext]_rateVars
           /\ [AccountsNext]_accountVars /\ [PoapNext]_poapVars
<1>1. CASE ServicesNext
  <2>1. CASE FrogNext /\ UNCHANGED <<rateVars, accountVars, poapVars>>
    BY <2>1
  <2>2. CASE RateNext /\ UNCHANGED <<frogVars, accountVars, poapVars>>
    BY <2>2
  <2>3. CASE AccountsNext /\ UNCHANGED <<frogVars, rateVars, poapVars>>
    BY <2>3
  <2>4. CASE PoapNext /\ UNCHANGED <<frogVars, rateVars, accountVars>>
    BY <2>4
  <2> QED
    BY <1>1, <2>1, <2>2, <2>3, <2>4 DEF ServicesNext
<1>2. CASE UNCHANGED <<frogVars, rateVars, accountVars, poapVars, service>>
  BY <1>2
<1> QED
  BY <1>1, <1>2

(* Users of FrogCrypto, the rate limiter, accounts and POAPs share no state *)
(* in the server: whatever is proved of each of them alone holds when they  *)
(* run together.                                                            *)
THEOREM ServicesAreApart ==
    ServicesSpec => FrogSpec /\ RateSpec /\ AccountsSpec /\ PoapSpec
<1>1. ServicesInit => FrogInit /\ RateInit /\ AccountsInit /\ PoapInit
  BY DEF ServicesInit
<1>2. [ServicesNext]_<<frogVars, rateVars, accountVars, poapVars, service>>
        => /\ [FrogNext]_frogVars /\ [RateNext]_rateVars
           /\ [AccountsNext]_accountVars /\ [PoapNext]_poapVars
  BY ServicesStepApart
<1> QED
  BY <1>1, <1>2, PTL DEF ServicesSpec, FrogSpec, RateSpec, AccountsSpec, PoapSpec

(* Every service keeps its rows and requests well-typed.                    *)
THEOREM ServicesTypeCorrect == ServicesSpec => []ServicesTypeOK
BY ServicesAreApart, FrogTypeCorrect, RateTypeCorrect, AccountsTypeCorrect, PoapTypeCorrect, PTL
DEF ServicesTypeOK


=============================================================================
