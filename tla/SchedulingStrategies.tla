------------------------ MODULE SchedulingStrategies ------------------------
(***************************************************************************)
(* The scheduling strategies (pool/strategies), as the scheduler uses      *)
(* them: at every selection some keys are candidates, and the strategy in  *)
(* force picks one of them by what it remembers or by the keys' counters.  *)
(*                                                                         *)
(* Why a key is no candidate is the subject of RequestScheduler; here any  *)
(* key with a free slot may be one or not.  The window of a key is the     *)
(* number of its requests in the last minute; when one of them grows older *)
(* than that is up to the clock.                                           *)
(*                                                                         *)
(* max_rpm_per_key is not the same at every selection: acquire_key puts    *)
(* the requests per minute of the model of the request in its place, and   *)
(* the weights and the capacity of all keys without a limit of their own   *)
(* follow it.                                                              *)
(***************************************************************************)
EXTENDS Integers, FiniteSets, Functions

CONSTANTS
  NumMembers,   (* keys of the scheduler, in the order of its list          *)
  OwnLimit,     (* the max_rpm attribute of each, 0 if nobody has set it    *)
  Limits,       (* what max_rpm_per_key may be at a selection               *)
  Slots,        (* max_parallel_requests                                    *)
  MaxRequests   (* bound on the requests a window holds                     *)

Members == 1..NumMembers

ASSUME StrategiesAssumption ==
  /\ NumMembers \in Nat \ {0}
  /\ OwnLimit \in [Members -> Nat]
  /\ Limits \in SUBSET Nat /\ Limits # {} /\ IsFiniteSet(Limits)
  /\ Slots \in Nat /\ MaxRequests \in Nat

Strategies ==
  {"health_aware", "round_robin", "least_used", "weighted_round_robin",
   "least_remaining_capacity", "priority_failover"}

VARIABLES
  strategy,    (* the strategy in force                                     *)
  next_index,  (* RoundRobinStrategy._next_index                            *)
  current,     (* WeightedRoundRobinStrategy._current_weight                *)
  rpm,         (* requests_per_minute of each key                           *)
  active,      (* active_requests of each key                               *)
  waits        (* selections in a row at which a key was a candidate and    *)
               (* was not picked; history                                   *)

strategyvars == <<strategy, next_index, current, rpm, active, waits>>

StrategiesInit ==
  /\ strategy = "health_aware"
  /\ next_index = 1
  /\ current = [k \in Members |-> 0]
  /\ rpm = [k \in Members |-> 0]
  /\ active = [k \in Members |-> 0]
  /\ waits = [k \in Members |-> 0]

-----------------------------------------------------------------------------

First(S) == CHOOSE k \in S : \A j \in S : k <= j

(* min and max return the first of equals.                                 *)
Least(S, Value(_)) == First({k \in S : \A j \in S : Value(k) <= Value(j)})

Greatest(S, Value(_)) == First({k \in S : \A j \in S : Value(j) <= Value(k)})

(* How far key k is from where the round goes on.                          *)
Offset(k) == (k - next_index + NumMembers) % NumMembers

RoundRobin(cands) == Least(cands, Offset)

(* Mutant of AfterIndex: the round goes on with the key just picked.       *)
SameIndex(k) == k

AfterIndex(k) == (k % NumMembers) + 1

LeastUsed(cands) ==
  First({k \in cands : \A j \in cands :
           \/ rpm[k] < rpm[j]
           \/ rpm[k] = rpm[j] /\ active[k] <= active[j]})

LimitOf(k, limit) == IF OwnLimit[k] > 0 THEN OwnLimit[k] ELSE limit

LeastRemainingCapacity(cands, limit) ==
  LET remaining(k) == LimitOf(k, limit) - rpm[k] IN Greatest(cands, remaining)

(* A limit of zero weighs one.                                             *)
WeightOf(k, limit) == IF LimitOf(k, limit) = 0 THEN 1 ELSE LimitOf(k, limit)

Weights(limit) == [k \in Members |-> WeightOf(k, limit)]

Total(cands, limit) == SumFunctionOnSet(Weights(limit), cands)

Raised(cands, limit) ==
  [k \in Members |-> IF k \in cands THEN current[k] + WeightOf(k, limit) ELSE current[k]]

Heaviest(cands, limit) ==
  LET raised(k) == Raised(cands, limit)[k] IN Greatest(cands, raised)

(* Mutant of Charged: the winner pays its own weight.                      *)
ChargedOwn(k, cands, limit) == [Raised(cands, limit) EXCEPT ![k] = @ - WeightOf(k, limit)]

(* The winner of a weighted round pays for all that took part.             *)
Charged(k, cands, limit) == [Raised(cands, limit) EXCEPT ![k] = @ - Total(cands, limit)]

PriorityFailover(cands) == First(cands)

(* The score of health_aware weighs latencies and old failures, too: any   *)
(* candidate may have the highest.                                         *)
Picks(k, cands, limit) ==
  CASE strategy = "round_robin" -> k = RoundRobin(cands)
    [] strategy = "weighted_round_robin" -> k = Heaviest(cands, limit)
    [] strategy = "least_used" -> k = LeastUsed(cands)
    [] strategy = "least_remaining_capacity" -> k = LeastRemainingCapacity(cands, limit)
    [] strategy = "priority_failover" -> k = PriorityFailover(cands)
    [] strategy = "health_aware" -> TRUE

-----------------------------------------------------------------------------

(* Only the two strategies that take turns are asked how long a key waits. *)
TakesTurns == strategy \in {"round_robin", "weighted_round_robin"}

Waited(k, cands) ==
  [j \in Members |-> IF TakesTurns /\ j \in cands \ {k} THEN waits[j] + 1 ELSE 0]

Select(k, cands, limit) ==
  /\ Picks(k, cands, limit)
  /\ rpm[k] < MaxRequests
  /\ next_index' = IF strategy = "round_robin" THEN AfterIndex(k) ELSE next_index
  /\ current' = IF strategy = "weighted_round_robin" THEN Charged(k, cands, limit) ELSE current
  /\ rpm' = [rpm EXCEPT ![k] = @ + 1]
  /\ active' = [active EXCEPT ![k] = @ + 1]
  /\ waits' = Waited(k, cands)
  /\ UNCHANGED strategy

SelectKey ==
  \E cands \in SUBSET {k \in Members : active[k] < Slots} :
    \E k \in cands, limit \in Limits : Select(k, cands, limit)

EndRequest(k) ==
  /\ active[k] > 0
  /\ active' = [active EXCEPT ![k] = @ - 1]
  /\ UNCHANGED <<strategy, next_index, current, rpm, waits>>

(* A strategy set by its name is built afresh; an instance brings along    *)
(* what it remembers.                                                      *)
SetStrategy(s) ==
  /\ strategy' = s
  /\ \/ next_index' = 1 /\ current' = [k \in Members |-> 0]
     \/ UNCHANGED <<next_index, current>>
  /\ waits' = [k \in Members |-> 0]
  /\ UNCHANGED <<rpm, active>>

(* A request of key k leaves its window.                                   *)
RequestAges(k) ==
  /\ rpm[k] > 0
  /\ rpm' = [rpm EXCEPT ![k] = @ - 1]
  /\ UNCHANGED <<strategy, next_index, current, active, waits>>

StrategiesNext ==
  \/ SelectKey
  \/ \E k \in Members : EndRequest(k) \/ RequestAges(k)
  \/ \E s \in Strategies : SetStrategy(s)

StrategiesSpec == StrategiesInit /\ [][StrategiesNext]_strategyvars

-----------------------------------------------------------------------------

StrategiesTypeOK ==
  /\ strategy \in Strategies
  /\ next_index \in Members
  /\ current \in [Members -> Int]
  /\ rpm \in [Members -> 0..MaxRequests]
  /\ active \in [Members -> 0..Slots]
  /\ waits \in [Members -> Nat]

Lowest(S) == CHOOSE n \in S : \A m \in S : n <= m

Highest(S) == CHOOSE n \in S : \A m \in S : m <= n

(* How far weighted rounds can take a key: the heaviest weight there is,   *)
(* once for each other key.                                                *)
TopWeight == Highest({WeightOf(k, limit) : k \in Members, limit \in Limits})

LeastWeight(k) == Lowest({WeightOf(k, limit) : limit \in Limits})

Reach == (NumMembers - 1) * TopWeight

(* Taking turns starves nobody, though keys drop out of the round and come *)
(* back at any time and weights follow the model of each request: a key    *)
(* that stays a candidate is passed over fewer times than there are keys   *)
(* under round_robin.  Under weighted_round_robin what it is owed grows by *)
(* its weight each time, from at least minus to at most plus Reach.        *)
NoCandidateStarves ==
  \A k \in Members :
    IF strategy = "round_robin" THEN waits[k] < NumMembers
                                ELSE waits[k] * LeastWeight(k) <= 2 * Reach

(* The weights of smooth weighted round robin neither drift nor leak, over *)
(* any sequence of candidate sets and of models: what one key is owed      *)
(* others owe, and nobody is owed more than the heaviest weight once from  *)
(* each other key (WeightedRoundRobinStrategy.select).                     *)
WeightsBalance ==
  /\ SumFunctionOnSet(current, Members) = 0
  /\ \A k \in Members : current[k] \in -Reach .. Reach

=============================================================================
