------------------------------- MODULE Statistics ------------------------------
(***************************************************************************)
(* What the metrics store (metrics.py) makes of the requests it has         *)
(* recorded, and the service objectives (slo.py) make of that.  The order    *)
(* requests came in decides nothing: durations_ms is kept sorted.           *)
(***************************************************************************)
EXTENDS Integers, Sequences, FiniteSets

CONSTANTS
  Durations,      \* the durations that occur, in milliseconds
  MaxErrors,      \* SLOThresholds: the error rate, in percent,
  MaxTimeouts,    \* the rate of timeouts, in percent,
  MinRequests,    \* the number of requests,
  MaxP95,         \* the 95th percentile of the durations
  MaxRequests     \* bound: requests recorded

ASSUME StatisticsAssumption ==
  /\ Durations \subseteq Nat
  /\ MaxErrors \in Nat /\ MaxTimeouts \in Nat /\ MinRequests \in Nat /\ MaxP95 \in Nat
  /\ MaxRequests \in Nat

VARIABLES
  request_count,
  error_count,
  timeout_count,
  durations_ms

statisticsVars == <<request_count, error_count, timeout_count, durations_ms>>

StatisticsTypeOK ==
  /\ request_count \in 0..MaxRequests
  /\ error_count \in 0..request_count
  /\ timeout_count \in 0..error_count
  /\ durations_ms \in [1..request_count -> Durations]

StatisticsInit ==
  /\ request_count = 0
  /\ error_count = 0
  /\ timeout_count = 0
  /\ durations_ms = <<>>

\* s with d put in at place p
InsertAt(s, p, d) ==
  [i \in 1..(Len(s) + 1) |-> IF i < p THEN s[i] ELSE IF i = p THEN d ELSE s[i - 1]]

\* append, seen through sorted(): behind what took no longer, before what took longer
AddDuration(d) ==
  \E p \in 1..(Len(durations_ms) + 1) :
    /\ \A i \in DOMAIN durations_ms : i < p <=> durations_ms[i] <= d
    /\ durations_ms' = InsertAt(durations_ms, p, d)

\* Mutation: a timeout is not counted as an error.
RecordTimeoutApart(d, ok, timeout) ==
  /\ request_count < MaxRequests
  /\ request_count' = request_count + 1
  /\ error_count' = IF ok \/ timeout THEN error_count ELSE error_count + 1
  /\ timeout_count' = IF timeout THEN timeout_count + 1 ELSE timeout_count
  /\ AddDuration(d)

record(d, ok, timeout) ==
  /\ request_count < MaxRequests
  /\ request_count' = request_count + 1
  /\ error_count' = IF ok THEN error_count ELSE error_count + 1
  /\ timeout_count' = IF timeout THEN timeout_count + 1 ELSE timeout_count
  /\ AddDuration(d)

\* A request that timed out has the code 124 and is not ok.
StatisticsNext ==
  \E d \in Durations, ok \in BOOLEAN, timeout \in BOOLEAN :
    /\ ok => ~timeout
    /\ record(d, ok, timeout)

StatisticsSpec == StatisticsInit /\ [][StatisticsNext]_statisticsVars

--------------------------------------------------------------------------------
\* snapshot.  Sequences start at 1 here.
Median(s) ==
  LET n == Len(s) IN
  IF n % 2 = 1 THEN s[(n + 1) \div 2] ELSE (s[n \div 2] + s[n \div 2 + 1]) \div 2

\* Mutation: the index is one too high.
RankOneHigher(n) == (95 * n) \div 100 + 1

\* The place of the 95th percentile among n durations
Rank(n) == LET i == (95 * n) \div 100 - 1 IN (IF i > 0 THEN i ELSE 0) + 1

latency_p50_ms == IF durations_ms = <<>> THEN 0 ELSE Median(durations_ms)
latency_p95_ms == IF durations_ms = <<>> THEN 0 ELSE durations_ms[Rank(Len(durations_ms))]

\* check_metrics
check_metrics ==
  /\ 100 * error_count <= MaxErrors * request_count
  /\ 100 * timeout_count <= MaxTimeouts * request_count
  /\ request_count >= MinRequests
  /\ latency_p95_ms <= MaxP95

--------------------------------------------------------------------------------
\* The percentile is never beyond the request it stands for: 95 percent of the requests,
\* rounded down, took no longer, and fewer took less.  It may be well below the usual
\* definition's, which rounds up: of two to nineteen requests it leaves out the longest,
\* and of two requests it is the shorter, below the median; of any other number it is not.
\* (metrics.py 30-33)
PercentileTells ==
  LET n == (95 * request_count) \div 100
      AtMost == {i \in DOMAIN durations_ms : durations_ms[i] <= latency_p95_ms}
      Below == {i \in DOMAIN durations_ms : durations_ms[i] < latency_p95_ms}
  IN request_count > 0 =>
       /\ Cardinality(AtMost) >= n
       /\ Cardinality(Below) < IF n = 0 THEN 1 ELSE n
       /\ request_count # 2 => latency_p50_ms <= latency_p95_ms

\* The requests that are within the limit of the objectives
Quick == {i \in DOMAIN durations_ms : durations_ms[i] <= MaxP95}

\* Its count tells a fast request, the error count one that went well.
FollowsRequest ==
  LET good == error_count' = error_count
      fast == Cardinality(Quick') > Cardinality(Quick)
  IN /\ good /\ fast /\ check_metrics => check_metrics'
     /\ timeout_count' > timeout_count /\ ~fast /\ check_metrics'
          => check_metrics \/ request_count < MinRequests

\* A fast request that goes well never turns the objectives from met to missed, and a slow
\* one that times out never from missed to met, although the rank of the percentile moves.
\* (slo.py 25-49, metrics.py 18-33)
ObjectivesFollowRequests == [][FollowsRequest]_statisticsVars
================================================================================
