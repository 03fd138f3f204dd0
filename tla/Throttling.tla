----------------------------- MODULE Throttling -----------------------------
(***************************************************************************)
(* Requests per minute, and the provider's quota, as threads see them.     *)
(*                                                                         *)
(* A thread asks whether the budget allows a request and records it later: *)
(* check_rpm and record_request of ThrottleManager, on a sliding window    *)
(* (utils.py), or remaining_rpm and record_request of RequestTracker, on a *)
(* rolling window (tracking/rolling_window.py) that keeps entries longer   *)
(* than it counts them.  Both windows read the clock before they take      *)
(* their lock, so entries arrive out of order, and eviction only looks at  *)
(* the oldest end.  The clock of a sliding window is monotonic; that of a  *)
(* rolling window is the wall clock, which may be set back, here by no     *)
(* more than such a window keeps beyond what it counts.                    *)
(*                                                                         *)
(* QuotaTracker (throttling/quota.py) keeps for a model what the headers   *)
(* of the last response said was left.                                     *)
(***************************************************************************)
EXTENDS Integers, FiniteSets, Sequences

CONSTANTS
  Threads,
  RpmLimit,   (* rpm_limit                                                  *)
  Window,     (* seconds that count, in ticks of the clock                  *)
  Horizon,    (* seconds a rolling window keeps its entries                 *)
  MaxClock,   (* bound on the clock                                         *)
  MaxQuota    (* bound on what a response says is left                      *)

ASSUME ThrottlingAssumption ==
  /\ IsFiniteSet(Threads)
  /\ RpmLimit \in Nat \ {0}
  /\ Window \in Nat /\ Horizon \in Nat /\ Window <= Horizon
  /\ MaxClock \in Nat /\ MaxQuota \in Nat

VARIABLES
  clock,
  latest,    (* the latest time the clock has shown; history                *)
  kind,      (* which of the two windows it is                              *)
  step,      (* where each thread is                                        *)
  seen,      (* the time it has read                                        *)
  entries,   (* the timestamps the window holds                             *)
  made,      (* those of all requests that were recorded; history           *)
  quota      (* the snapshot of the model                                   *)

throttlevars == <<clock, latest, kind, step, seen, entries, made, quota>>

windowvars == <<kind, step, seen, entries, made>>

(* No header, or a snapshot that does not exist.                           *)
Unknown == -1

Remaining == {Unknown} \cup 0..MaxQuota

ThrottlingInit ==
  /\ clock = 0 /\ latest = 0
  /\ kind \in {"sliding", "rolling"}
  /\ step = [t \in Threads |-> "idle"]
  /\ seen = [t \in Threads |-> 0]
  /\ entries = <<>>
  /\ made = <<>>
  /\ quota = [requests |-> Unknown, tokens |-> Unknown]

-----------------------------------------------------------------------------

Kept == IF kind = "sliding" THEN Window ELSE Horizon

(* Mutant of IsOld: what lies on the cutoff goes, too.                     *)
IsOldOrDue(ts, cutoff) == ts <= cutoff

IsOld(ts, cutoff) == ts < cutoff

(* Entries leave at the oldest end up to the first that is not old.        *)
Evict(es, now) ==
  LET stays == {i \in DOMAIN es : \E j \in 1..i : ~IsOld(es[j], now - Kept)} IN
  SubSeq(es, Len(es) - Cardinality(stays) + 1, Len(es))

Since(es, cutoff) == Cardinality({i \in DOMAIN es : es[i] >= cutoff})

(* count, or count_since                                                   *)
Count(es, now) == IF kind = "sliding" THEN Len(es) ELSE Since(es, now - Window)

(* Mutant of WithinBudget: one request too many.                           *)
WithinBudgetInclusive(n) == n <= RpmLimit

WithinBudget(n) == n < RpmLimit

Move(t, from, to) ==
  /\ step[t] = from
  /\ step' = [step EXCEPT ![t] = to]

ReadClock(t, from, to) ==
  /\ Move(t, from, to)
  /\ seen' = [seen EXCEPT ![t] = clock]
  /\ UNCHANGED <<clock, latest, kind, entries, made, quota>>

BeginCheck(t) == ReadClock(t, "idle", "checking")

CheckBudget(t) ==
  LET left == Evict(entries, seen[t]) IN
  /\ Move(t, "checking",
          IF WithinBudget(Count(left, seen[t])) THEN "granted" ELSE "idle")
  /\ entries' = left
  /\ UNCHANGED <<clock, latest, kind, seen, made, quota>>

BeginRecord(t) == ReadClock(t, "granted", "recording")

RecordRequest(t) ==
  /\ Move(t, "recording", "idle")
  /\ entries' = Evict(Append(entries, seen[t]), seen[t])
  /\ made' = Append(made, seen[t])
  /\ UNCHANGED <<clock, latest, kind, seen, quota>>

Tick ==
  /\ clock < MaxClock
  /\ clock' = clock + 1
  /\ latest' = IF clock < latest THEN latest ELSE clock'
  /\ UNCHANGED <<windowvars, quota>>

StepBack ==
  /\ kind = "rolling"
  /\ clock > 0 /\ latest - clock < Horizon - Window
  /\ clock' = clock - 1
  /\ UNCHANGED <<latest, windowvars, quota>>

-----------------------------------------------------------------------------

(* The headers of a response replace the snapshot, those that are missing  *)
(* with nothing.                                                           *)
UpdateFromHeaders ==
  /\ quota' \in [requests : Remaining, tokens : Remaining]
  /\ UNCHANGED <<clock, latest, windowvars>>

(* Mutant of Consumed: the max(0, ...) is missing.                         *)
ConsumedBelowZero(left, n) == IF left = Unknown THEN left ELSE left - n

Consumed(left, n) ==
  CASE left = Unknown -> Unknown
    [] left # Unknown -> IF left >= n THEN left - n ELSE 0

Consume(requests, tokens) ==
  /\ quota' = [requests |-> Consumed(quota.requests, requests),
               tokens |-> Consumed(quota.tokens, tokens)]
  /\ UNCHANGED <<clock, latest, windowvars>>

IsExhausted(q) == q.requests = 0 \/ q.tokens = 0

ThrottlingNext ==
  \/ \E t \in Threads :
       BeginCheck(t) \/ CheckBudget(t) \/ BeginRecord(t) \/ RecordRequest(t)
  \/ Tick \/ StepBack
  \/ UpdateFromHeaders
  \/ \E requests, tokens \in 0..2 : Consume(requests, tokens)

ThrottlingSpec == ThrottlingInit /\ [][ThrottlingNext]_throttlevars

-----------------------------------------------------------------------------

ThrottlingTypeOK ==
  /\ clock \in 0..MaxClock /\ latest \in 0..MaxClock
  /\ kind \in {"sliding", "rolling"}
  /\ step \in [Threads -> {"idle", "checking", "granted", "recording"}]
  /\ seen \in [Threads -> 0..MaxClock]
  /\ entries \in Seq(0..MaxClock) /\ made \in Seq(0..MaxClock)
  /\ quota \in [requests : Remaining, tokens : Remaining]

(* Eviction forgets no request that still counts, though threads append    *)
(* with times they read before they had the lock, evict by times of their  *)
(* own and the wall clock is set back (SlidingWindowCounter and            *)
(* RollingWindowCounter).                                                  *)
WindowForgetsNothing ==
  Since(entries, clock - Window) = Since(made, clock - Window)

(* check_rpm and record_request are two calls: the budget may be exceeded, *)
(* but only by the threads that were granted a request and have not        *)
(* recorded it.  What counts as the last minute is up to the latest time.  *)
BudgetOvershoot ==
  Since(made, latest - Window) < RpmLimit + Cardinality(Threads)

(* A quota that is known to be exhausted stays so, whatever is consumed,   *)
(* until a response says otherwise (QuotaTracker.consume, is_exhausted).   *)
QuotaStaysExhausted ==
  [][IsExhausted(quota) => IsExhausted(quota') \/ UpdateFromHeaders]_throttlevars

=============================================================================
