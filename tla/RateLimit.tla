----------------------------- MODULE RateLimit -----------------------------
(***************************************************************************)
(* One bucket of the rate limiter (RateLimitService): requests take tokens *)
(* from a row of rate_limit_buckets, which refills at one token per        *)
(* TimePerAction, and buckets unused for a period are deleted.  A request  *)
(* reads the clock before its statement reaches the database, so that      *)
(* statements may be applied out of the order of their times, and a        *)
(* statement whose answer is lost is sent again.                           *)
(*                                                                         *)
(* The buckets of the other identifiers and actions are rows that the      *)
(* statements on this one leave alone.                                     *)
(***************************************************************************)
EXTENDS Integers, Sequences, FiniteSets

CONSTANTS RateRequest,    \* requests that may be in flight at one time
          MaxActions,
          TimePerAction,  \* the period divided by MaxActions
          RateLatency,    \* how long a request's time may be behind the clock
          MaxLostAnswers, \* bound: statements applied whose answer is lost
          RateMaxClock    \* bound: the clock

ASSUME RateAssumption ==
    /\ MaxActions \in Nat \ {0} /\ TimePerAction \in Nat \ {0}
    /\ RateLatency \in Nat /\ RateLatency < TimePerAction
    /\ MaxLostAnswers \in Nat /\ RateMaxClock \in Nat

VARIABLES
    rateClock,
    bucket,       \* the row: remaining, last_take and whether it is there
    rateAsked,    \* where each request stands, and the time it read
    lostAnswers,  \* counter of the bound
    taken         \* history: when each token was taken, by the clock and the row

rateVars == <<rateClock, bucket, rateAsked, lostAnswers, taken>>

TimePeriod == MaxActions * TimePerAction

RateTypeOK ==
    /\ rateClock \in Nat
    /\ bucket \in [there : BOOLEAN, remaining : -1 .. MaxActions - 1, last_take : Nat]
    /\ rateAsked \in [RateRequest -> [at : {"idle", "asked"}, now : Nat]]
    /\ lostAnswers \in 0 .. MaxLostAnswers
    /\ taken \in Seq([at : Nat, now : Nat])

NoBucket == [there |-> FALSE, remaining |-> 0, last_take |-> 0]
RateIdle == [at |-> "idle", now |-> 0]

RateInit ==
    /\ rateClock = 0
    /\ bucket = NoBucket
    /\ rateAsked = [c \in RateRequest |-> RateIdle]
    /\ lostAnswers = 0
    /\ taken = <<>>

AtLeast0(n) == IF n < 0 THEN 0 ELSE n
AtMost(max, n) == IF n > max THEN max ELSE n

\* The quotient of two BIGINTs, which PostgreSQL rounds towards zero.
Refilled(since) ==
    IF since < 0 THEN - ((- since) \div TimePerAction) ELSE since \div TimePerAction

\* Variant: any attempt moves last_take.
ConsumedAlways(now) ==
    IF ~ bucket.there
    THEN [there |-> TRUE, remaining |-> MaxActions - 1, last_take |-> now]
    ELSE [there |-> TRUE,
          remaining |-> AtMost(MaxActions, AtLeast0(bucket.remaining)
                                         + Refilled(now - bucket.last_take)) - 1,
          last_take |-> now]

\* Variant: the tokens are not limited to MaxActions.
ConsumedUnlimited(now) ==
    LET since == now - bucket.last_take IN
    IF ~ bucket.there
    THEN [there |-> TRUE, remaining |-> MaxActions - 1, last_take |-> now]
    ELSE [there |-> TRUE,
          remaining |-> AtLeast0(bucket.remaining) + Refilled(since) - 1,
          last_take |-> IF bucket.remaining > 0 \/ since >= TimePerAction
                        THEN now ELSE bucket.last_take]

\* The row after consumeRateLimitToken's statement.  A late one refills nothing,
\* but if it is allowed, it sets last_take back.
Consumed(now) ==
    LET since == now - bucket.last_take IN
    IF ~ bucket.there
    THEN [there |-> TRUE, remaining |-> MaxActions - 1, last_take |-> now]
    ELSE [there |-> TRUE,
          remaining |-> AtMost(MaxActions, AtLeast0(bucket.remaining)
                                         + Refilled(since)) - 1,
          last_take |-> IF bucket.remaining > 0 \/ since >= TimePerAction
                        THEN now ELSE bucket.last_take]

Allows(row) == row.remaining > -1

AskToken(c) ==
    /\ rateAsked[c].at = "idle"
    /\ rateAsked' = [rateAsked EXCEPT ![c] = [at |-> "asked", now |-> rateClock]]
    /\ UNCHANGED <<rateClock, bucket, lostAnswers, taken>>

ApplyStatement(c) ==
    LET row == Consumed(rateAsked[c].now) IN
    /\ bucket' = row
    /\ taken' = IF Allows(row)
                THEN Append(taken, [at |-> rateClock, now |-> rateAsked[c].now])
                ELSE taken

TakeToken(c) ==
    /\ rateAsked[c].at = "asked"
    /\ ApplyStatement(c)
    /\ rateAsked' = [rateAsked EXCEPT ![c] = RateIdle]
    /\ UNCHANGED <<rateClock, lostAnswers>>

\* execQueryWithRetry: the connection breaks once the statement is applied,
\* and the same statement is sent again.
TakeTokenUnanswered(c) ==
    /\ rateAsked[c].at = "asked" /\ lostAnswers < MaxLostAnswers
    /\ ApplyStatement(c)
    /\ lostAnswers' = lostAnswers + 1
    /\ UNCHANGED <<rateClock, rateAsked>>

\* Variant: buckets expire once they have refilled by one token.
PruneTooEarly ==
    /\ bucket.there /\ bucket.last_take <= rateClock - TimePerAction
    /\ bucket' = NoBucket
    /\ UNCHANGED <<rateClock, rateAsked, lostAnswers, taken>>

\* pruneBuckets, every hour and whenever a server starts.
PruneBuckets ==
    /\ bucket.there /\ bucket.last_take <= rateClock - TimePeriod
    /\ bucket' = NoBucket
    /\ UNCHANGED <<rateClock, rateAsked, lostAnswers, taken>>

RateTick ==
    /\ rateClock < RateMaxClock
    /\ \A c \in RateRequest : rateAsked[c].at = "asked" =>
                                 rateClock < rateAsked[c].now + RateLatency
    /\ rateClock' = rateClock + 1
    /\ UNCHANGED <<bucket, rateAsked, lostAnswers, taken>>

RateNext ==
    \/ RateTick \/ PruneBuckets
    \/ \E c \in RateRequest : AskToken(c) \/ TakeToken(c) \/ TakeTokenUnanswered(c)

RateSpec == RateInit /\ [][RateNext]_rateVars

-----------------------------------------------------------------------------
\* The statements from the i-th to the j-th that are older than the one before.
Late(i, j) == {k \in i + 1 .. j : taken[k].now < taken[k - 1].now}

(* In any stretch of time shorter than a period, no more tokens are taken   *)
(* than a full bucket holds and the stretch refills, and what the latencies *)
(* of the late statements in it refill once more, since each of them sets   *)
(* last_take back: whatever the order in which statements are applied,      *)
(* repeated, or follow the deletion of the bucket.                          *)
RateIsBounded ==
    \A i, j \in DOMAIN taken :
       LET stretch == taken[j].at - taken[i].at + RateLatency IN
       i <= j /\ stretch < TimePeriod
         => (j - i + 1) * TimePerAction
              <= TimePeriod + stretch + Cardinality(Late(i, j)) * RateLatency

(* Attempts that are refused do not keep a user out: a request is allowed   *)
(* when TimePerAction has passed since the last token was taken, although   *)
(* late statements, which refill nothing, come in between.                  *)
WaitersAreServed ==
    [][ \A c \in RateRequest :
          rateAsked[c].at = "asked" /\ rateAsked'[c].at = "idle" /\ taken' = taken
            => /\ taken # <<>>
               /\ rateAsked[c].now < taken[Len(taken)].now + TimePerAction ]_rateVars
=============================================================================
