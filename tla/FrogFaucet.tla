----------------------------- MODULE FrogFaucet -----------------------------
(***************************************************************************)
(* FrogCrypto: a user polls a feed and is issued at most one frog per      *)
(* cooldown (FrogcryptoService.reserveFrogData).  The time of a user's     *)
(* last poll of a feed, and his score, are rows of the database; a request *)
(* reads and writes them with one query after another, outside of a        *)
(* transaction, and several requests of one user may be in flight.         *)
(*                                                                         *)
(* The time a request writes is read, without the part of a second, before *)
(* its query reaches the row: queries may be applied out of the order of   *)
(* their times.  The clock counts units of which a second has FrogSecond,  *)
(* and a request is over within FrogLatency units of reading its time.     *)
(***************************************************************************)
EXTENDS Naturals, Sequences

CONSTANTS FrogUser, FrogFeed,
          FrogRequest,    \* requests that may be in flight at one time
          FrogSecond,     \* a second, in units of the clock
          FrogCooldown,   \* the cooldown of each feed
          ActiveUntil,    \* the time each feed stops at
          FrogLatency,    \* how long a request may go on after reading its time
          FrogScoreCap,   \* FROG_SCORE_CAP
          FrogFreeRolls,  \* FROG_FREEROLLS
          FrogStart,      \* the time it is at first, the epoch being long past
          FrogMaxClock    \* bound: the clock

ASSUME FrogAssumption ==
    /\ FrogUser # {} /\ FrogFeed # {}
    /\ FrogSecond \in Nat \ {0}
    /\ FrogLatency \in Nat /\ FrogStart \in Nat /\ FrogMaxClock \in Nat
    /\ FrogScoreCap \in Nat /\ FrogFreeRolls \in Nat
    /\ ActiveUntil \in [FrogFeed -> Nat]
    /\ FrogCooldown \in [FrogFeed -> Nat]
    /\ \A f \in FrogFeed : /\ FrogCooldown[f] >= 3 * FrogLatency + FrogSecond
                           /\ FrogCooldown[f] <= FrogStart

VARIABLES
    frogClock,
    lastFetched,  \* frogcrypto_user_feeds.last_fetched_at, in seconds
    frogScore,    \* frogcrypto_user_scores.score
    frogPoll,     \* where each request stands
    frogsGiven,   \* history: the frogs that used up a turn, for each row
    pointsGiven   \* history: the frogs that scored and reached the user

frogVars == <<frogClock, lastFetched, frogScore, frogPoll, frogsGiven, pointsGiven>>

FrogRow == FrogUser \X FrogFeed   \* a row of frogcrypto_user_feeds

\* turn: the time the request read; old: the one it replaced in the row, in
\* seconds; checked: when it was found eligible; points: what the frog scores.
FrogPoll == [at : {"idle", "asked", "sent", "checking", "won", "giving", "free",
                   "issuing"},
             row : FrogRow, turn : Nat, old : Nat, checked : Nat, points : {0, 1}]

FrogIdle == [at |-> "idle", row |-> CHOOSE row \in FrogRow : TRUE,
             turn |-> 0, old |-> 0, checked |-> 0, points |-> 0]

FrogTypeOK ==
    /\ frogClock \in Nat
    /\ lastFetched \in [FrogRow -> Nat]
    /\ frogScore \in [FrogUser -> Nat]
    /\ frogPoll \in [FrogRequest -> FrogPoll]
    /\ frogsGiven \in [FrogRow -> Seq([turn : Nat, checked : Nat])]
    /\ pointsGiven \in [FrogUser -> [free : Nat, paid : Nat]]

FrogInit ==
    /\ frogClock = FrogStart
    /\ lastFetched = [row \in FrogRow |-> 0]
    /\ frogScore = [u \in FrogUser |-> 0]
    /\ frogPoll = [r \in FrogRequest |-> FrogIdle]
    /\ frogsGiven = [row \in FrogRow |-> <<>>]
    /\ pointsGiven = [u \in FrogUser |-> [free |-> 0, paid |-> 0]]

\* Times of the rows are whole seconds: toUTCString drops the rest.
WholeSeconds(time) == time \div FrogSecond
AsTime(seconds) == seconds * FrogSecond

Eligible(poll) == AsTime(poll.old) + FrogCooldown[poll.row[2]] <= frogClock

\* The handler: the feed is active, and the row exists (initializeUserFeedState).
AskFrog(r, row) ==
    /\ frogPoll[r].at = "idle"
    /\ frogClock < ActiveUntil[row[2]]
    /\ frogPoll' = [frogPoll EXCEPT ![r] = [FrogIdle EXCEPT !.at = "asked", !.row = row]]
    /\ UNCHANGED <<frogClock, lastFetched, frogScore, frogsGiven, pointsGiven>>

\* updateUserFeedState: its default parameter is the time, read before the
\* query is sent.
SendTurn(r) ==
    /\ frogPoll[r].at = "asked"
    /\ frogPoll' = [frogPoll EXCEPT ![r].at = "sent", ![r].turn = frogClock]
    /\ UNCHANGED <<frogClock, lastFetched, frogScore, frogsGiven, pointsGiven>>

\* The row gets the time of the request, which replaces the time old.
WriteTurn(r, old) ==
    LET poll == frogPoll[r] IN
    /\ poll.at = "sent"
    /\ lastFetched' = [lastFetched EXCEPT ![poll.row] = WholeSeconds(poll.turn)]
    /\ frogPoll' = [frogPoll EXCEPT ![r].at = "checking", ![r].old = old]
    /\ UNCHANGED <<frogClock, frogScore, frogsGiven, pointsGiven>>

\* Variant: the row is not locked while its old value is read.
TakeTurnUnlocked(r) ==
    LET row == frogPoll[r].row
        racing == {s \in FrogRequest : frogPoll[s].at = "checking" /\ frogPoll[s].row = row}
    IN  \E old \in {lastFetched[row]} \cup {frogPoll[s].old : s \in racing} :
           WriteTurn(r, old)

\* The statement, with the row locked: it writes the time, returns the old one.
TakeTurn(r) == WriteTurn(r, lastFetched[frogPoll[r].row])

WinTurn(r) ==
    /\ frogPoll[r].at = "checking"
    /\ Eligible(frogPoll[r])
    /\ frogPoll' = [frogPoll EXCEPT ![r].at = "won", ![r].checked = frogClock]
    /\ UNCHANGED <<frogClock, lastFetched, frogScore, frogsGiven, pointsGiven>>

\* 403: the time that the request wrote stays in the row.
RefuseTurn(r) ==
    /\ frogPoll[r].at = "checking"
    /\ ~ Eligible(frogPoll[r])
    /\ frogPoll' = [frogPoll EXCEPT ![r] = FrogIdle]
    /\ UNCHANGED <<frogClock, lastFetched, frogScore, frogsGiven, pointsGiven>>

\* Variant: the score is compared before it is incremented.
ScoreFrogLate(r, points) ==
    LET user == frogPoll[r].row[1]
        score == frogScore[user] IN
    /\ frogPoll[r].at = "won"
    /\ frogScore' = [frogScore EXCEPT ![user] = score + points]
    /\ frogPoll' =
         [frogPoll EXCEPT ![r] =
            IF score > FrogScoreCap THEN FrogIdle
            ELSE [@ EXCEPT !.at = IF score <= FrogFreeRolls THEN "giving"
                                                            ELSE "issuing",
                           !.points = points]]
    /\ UNCHANGED <<frogClock, lastFetched, frogsGiven, pointsGiven>>

\* incrementScore, by nothing for a frog of no biome, and what follows from
\* the score it returns: 403 above the cap, the turn given back to a free roll.
ScoreFrog(r, points) ==
    LET user == frogPoll[r].row[1]
        score == frogScore[user] + points IN
    /\ frogPoll[r].at = "won"
    /\ frogScore' = [frogScore EXCEPT ![user] = score]
    /\ frogPoll' =
         [frogPoll EXCEPT ![r] =
            IF score > FrogScoreCap THEN FrogIdle
            ELSE [@ EXCEPT !.at = IF score <= FrogFreeRolls THEN "giving"
                                                            ELSE "issuing",
                           !.points = points]]
    /\ UNCHANGED <<frogClock, lastFetched, frogsGiven, pointsGiven>>

GiveTurnBack(r) ==
    /\ frogPoll[r].at = "giving"
    /\ lastFetched' = [lastFetched EXCEPT ![frogPoll[r].row] = frogPoll[r].old]
    /\ frogPoll' = [frogPoll EXCEPT ![r].at = "free"]
    /\ UNCHANGED <<frogClock, frogScore, frogsGiven, pointsGiven>>

IssueFreeFrog(r) ==
    LET user == frogPoll[r].row[1] IN
    /\ frogPoll[r].at = "free"
    /\ pointsGiven' = [pointsGiven EXCEPT ![user].free = @ + frogPoll[r].points]
    /\ frogPoll' = [frogPoll EXCEPT ![r] = FrogIdle]
    /\ UNCHANGED <<frogClock, lastFetched, frogScore, frogsGiven>>

IssueFrog(r) ==
    LET poll == frogPoll[r] IN
    /\ poll.at = "issuing"
    /\ frogsGiven' = [frogsGiven EXCEPT ![poll.row] =
                        Append(@, [turn |-> poll.turn, checked |-> poll.checked])]
    /\ pointsGiven' = [pointsGiven EXCEPT ![poll.row[1]].paid = @ + poll.points]
    /\ frogPoll' = [frogPoll EXCEPT ![r] = FrogIdle]
    /\ UNCHANGED <<frogClock, lastFetched, frogScore>>

\* The request ends early, at any stage: the row is locked by another one (429),
\* no frog fits the feed (404), a query or the signature of the frog fails.
FrogFails(r) ==
    /\ frogPoll[r].at # "idle"
    /\ frogPoll' = [frogPoll EXCEPT ![r] = FrogIdle]
    /\ UNCHANGED <<frogClock, lastFetched, frogScore, frogsGiven, pointsGiven>>

\* Time passes, and no request lasts too long.
FrogTick ==
    /\ frogClock < FrogMaxClock
    /\ \A r \in FrogRequest : frogPoll[r].at \notin {"idle", "asked"} =>
                                 frogClock < frogPoll[r].turn + FrogLatency
    /\ frogClock' = frogClock + 1
    /\ UNCHANGED <<lastFetched, frogScore, frogPoll, frogsGiven, pointsGiven>>

FrogNext ==
    \/ FrogTick
    \/ \E r \in FrogRequest :
         \/ \E row \in FrogRow : AskFrog(r, row)
         \/ SendTurn(r) \/ TakeTurn(r) \/ WinTurn(r) \/ RefuseTurn(r)
         \/ \E points \in {0, 1} : ScoreFrog(r, points)
         \/ GiveTurnBack(r) \/ IssueFreeFrog(r) \/ IssueFrog(r) \/ FrogFails(r)

FrogSpec == FrogInit /\ [][FrogNext]_frogVars

-----------------------------------------------------------------------------
(* Two frogs that used up a turn are a cooldown apart, but for the second   *)
(* that is cut off from the time in the row and the time that a query may   *)
(* be late by: the later one was found eligible that long after the earlier *)
(* one read its time, whatever the user's other requests, delayed, refused, *)
(* failed or given back, did meanwhile to the same row.                     *)
FrogsAreApart ==
    \A row \in FrogRow : \A i, j \in DOMAIN frogsGiven[row] :
       i < j => frogsGiven[row][i].turn + FrogCooldown[row[2]]
                  < frogsGiven[row][j].checked + FrogSecond + FrogLatency

(* Requests of one user to several feeds, that score at one time, together  *)
(* neither exceed the cap nor get more free rolls than there are.           *)
FrogsAreRationed ==
    \A u \in FrogUser : /\ pointsGiven[u].free <= FrogFreeRolls
                        /\ pointsGiven[u].free + pointsGiven[u].paid <= FrogScoreCap
=============================================================================
