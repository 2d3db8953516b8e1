------------------------------ MODULE Recommit ------------------------------
(***************************************************************************)
(* The resubmit interval of newWorkLoop (miner/worker.go): the user's      *)
(* interval, sanitized to at least minRecommitInterval, is both the floor *)
(* minRecommit and the starting recommit; setRecommitInterval resets both; *)
(* each intervalAdjust fed back by commitTransactionsWithHeader moves      *)
(* recommit by recalcRecommit's moving average, capped above by           *)
(* maxRecommitInterval on an increase and below by minRecommit on a       *)
(* decrease.  Durations are whole milliseconds: the code's average keeps *)
(* fractions of a millisecond and time.Duration(int64(next)) truncates to *)
(* nanoseconds, while the model floors to milliseconds.  The values may    *)
(* differ below a millisecond; the limits compared are whole milliseconds. *)
(* The gas ratio a resubmit interrupt reports is used / GasLimit for a     *)
(* small GasLimit.                                                         *)
(***************************************************************************)
EXTENDS Integers

CONSTANTS
    Intervals,  \* recommit intervals the user can configure, in ms
    GasLimit    \* header.GasLimit, in units of gas

\* minRecommitInterval = 1 * time.Second
MinRecommitInterval == 1000

\* maxRecommitInterval = 15 * time.Second
MaxRecommitInterval == 15000

\* intervalAdjustBias = 200 * 1000.0 * 1000.0 (ns)
IntervalAdjustBias == 200

VARIABLES
    minRecommit,    \* newWorkLoop's minRecommit
    recommit        \* newWorkLoop's recommit

vars == <<minRecommit, recommit>>

\* if interval < minRecommitInterval { interval = minRecommitInterval }
Sanitize(interval) ==
    IF interval < MinRecommitInterval THEN MinRecommitInterval ELSE interval

\* The ratio a resubmit interrupt reports, as num / den: the share of the
\* gas limit used, at least 0.1.
GasRatio(used) ==
    IF used * 10 < GasLimit THEN [num |-> 1, den |-> 10]
    ELSE [num |-> used, den |-> GasLimit]

\* recalcRecommit without intervalAdjustBias.
RecalcRecommitNoBias(prev, min, tn, td, inc) ==
    IF inc
    THEN LET next == (9 * prev * td + tn) \div (10 * td)
         IN  IF next > MaxRecommitInterval THEN MaxRecommitInterval ELSE next
    ELSE LET next == (9 * prev * td + tn) \div (10 * td)
         IN  IF next < min THEN min ELSE next

\* recalcRecommit whose increase is not recapped.
RecalcRecommitNoCap(prev, min, tn, td, inc) ==
    IF inc
    THEN (9 * prev * td + tn + IntervalAdjustBias * td) \div (10 * td)
    ELSE LET next == (9 * prev * td + tn - IntervalAdjustBias * td) \div (10 * td)
         IN  IF next < min THEN min ELSE next

\* recalcRecommit(target, inc) with target = tn / td: next = prev * 0.9 +
\* 0.1 * (target +/- bias), recapped at maxRecommitInterval on an increase
\* and at minRecommit on a decrease, then truncated to a Duration.
RecalcRecommit(prev, min, tn, td, inc) ==
    IF inc
    THEN LET next == (9 * prev * td + tn + IntervalAdjustBias * td) \div (10 * td)
         IN  IF next > MaxRecommitInterval THEN MaxRecommitInterval ELSE next
    ELSE LET next == (9 * prev * td + tn - IntervalAdjustBias * td) \div (10 * td)
         IN  IF next < min THEN min ELSE next

\* newWorker sanitizes the interval and starts newWorkLoop(recommit), which
\* takes it as minRecommit too.
Init ==
    \E i \in Intervals :
        /\ minRecommit = Sanitize(i)
        /\ recommit = Sanitize(i)

\* setRecommitInterval, then the resubmitIntervalCh case.
SetRecommitInterval(i) ==
    /\ minRecommit' = Sanitize(i)
    /\ recommit' = Sanitize(i)

\* The interval after a resubmit interrupt reporting used gas: the
\* resubmitAdjustCh case with adjust.inc, recalcRecommit(recommit / ratio,
\* true).
IncreasedRecommit(used) ==
    LET r == GasRatio(used)
    IN  RecalcRecommit(recommit, minRecommit, recommit * r.den, r.num, TRUE)

\* The interval after a build that ran to its end: the resubmitAdjustCh
\* case without adjust.inc, recalcRecommit(minRecommit, false).
DecreasedRecommit == RecalcRecommit(recommit, minRecommit, minRecommit, 1, FALSE)

AdjustInc(used) ==
    /\ recommit' = IncreasedRecommit(used)
    /\ UNCHANGED minRecommit

AdjustDec ==
    /\ recommit' = DecreasedRecommit
    /\ UNCHANGED minRecommit

Next ==
    \/ \E i \in Intervals : SetRecommitInterval(i)
    \/ \E used \in 0..GasLimit : AdjustInc(used)
    \/ AdjustDec

Spec == Init /\ [][Next]_vars

-----------------------------------------------------------------------------
(* The interval stays within its limits under any sequence of user        *)
(* settings and feedback: never below minRecommitInterval, never above    *)
(* maxRecommitInterval unless the user asked for more, and never below the *)
(* user's minimum while that minimum is below maxRecommitInterval.  It     *)
(* relates setRecommitInterval's sanitizing, the recap of an increase and *)
(* the recap of a decrease, applied in any order.                          *)
RecommitWithinLimits ==
    /\ MinRecommitInterval <= recommit
    /\ recommit <= IF minRecommit > MaxRecommitInterval THEN minRecommit
                   ELSE MaxRecommitInterval
    /\ minRecommit <= MaxRecommitInterval => minRecommit <= recommit

(* "intervalAdjustBias is applied ... so that the limit can be reachable": *)
(* in every reachable state, an increase would raise the interval or land *)
(* on the cap, whatever the gas ratio (a full block reports 1, where the   *)
(* average alone would stay put), and a decrease above the user's minimum *)
(* would lower it; with finitely many durations both limits are reached.  *)
FeedbackReachesLimits ==
    /\ \A used \in 0..GasLimit :
          IncreasedRecommit(used) > recommit \/ IncreasedRecommit(used) = MaxRecommitInterval
    /\ recommit > minRecommit => DecreasedRecommit < recommit
=============================================================================
