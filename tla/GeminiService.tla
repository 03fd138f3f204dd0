--------------------------- MODULE GeminiService ---------------------------
(***************************************************************************)
(* GeminiService (services/gemini_provider.py): the same rotation loop for *)
(* calls, but streams with a single attempt.  A stream's "finally" clause  *)
(* releases the key on every way out, also after the "except" clause has   *)
(* marked the key and so given the slot back; the two are separate steps.  *)
(* Streams are not entered in the books.                                   *)
(***************************************************************************)
EXTENDS ServiceRotation

allvars == <<vars, rvars>>

(* The error is on its way to the caller, by the "finally" clause.         *)
Reraise(c, res) ==
  /\ stage' = [stage EXCEPT ![c] = "finally"]
  /\ result' = [result EXCEPT ![c] = res]
  /\ UNCHANGED <<kind, attempt, key, books>>

(* Mutant of StreamEnds: the slot is given back before "finally" as well.  *)
StreamEndsTwice(c) ==
  /\ kind[c] = "stream"
  /\ ReleaseKey(c)
  /\ Reraise(c, "returned")

(* The whole stream was read, or its caller dropped it: only "finally"     *)
(* runs.                                                                   *)
StreamEnds(c) ==
  /\ kind[c] = "stream"
  /\ ReleaseKey(c)
  /\ \E res \in {"returned", "abandoned"} : Finish(c, res)

StreamFails(c) ==
  /\ kind[c] = "stream"
  /\ MarkRateLimited(c) \/ MarkFailure(c)
  /\ Reraise(c, "broken")

(* Here the slot is given back once, by the "finally" clause.              *)
StreamDenied(c) ==
  /\ kind[c] = "stream"
  /\ pc[c] = "calling"
  /\ keys' = [keys EXCEPT ![held[c]] = MarkDisabled(@)]
  /\ LeaveKey(c)
  /\ Reraise(c, "refused")
  /\ UNCHANGED <<lock, at, cands, lost>>

(* Mutant of FinalRelease: the clause does not release the key.            *)
FinallyNothing(c) ==
  /\ stage[c] = "finally"
  /\ pc[c] = "idle"
  /\ stage' = [stage EXCEPT ![c] = "done"]
  /\ UNCHANGED <<vars, kind, attempt, key, result, books>>

FinalRelease(c) ==
  /\ stage[c] = "finally"
  /\ pc[c] = "idle"
  /\ keys' = [keys EXCEPT ![key[c]] = RecordRequestEnd(@)]
  /\ stage' = [stage EXCEPT ![c] = "done"]
  /\ UNCHANGED <<lock, pc, at, cands, held, lost>>
  /\ UNCHANGED <<kind, attempt, key, result, books>>

-----------------------------------------------------------------------------

Progress(c) == LoopStep(c) \/ ChooseKey(c) \/ FinalRelease(c)

Answer(c) == CallAnswer(c) \/ StreamEnds(c) \/ StreamFails(c) \/ StreamDenied(c)

GeminiNext ==
  \/ \E c \in Callers : Progress(c) \/ Answer(c) \/ CallCancelled(c)
  \/ TimePasses \/ SessionExpires

GeminiSpec == RInit /\ [][GeminiNext]_allvars

-----------------------------------------------------------------------------

(* The failed streams whose slot of key k was given back twice.            *)
GivenBackTwice(k) == {c \in Ended({"broken"}, {"done"}) : key[c] = k}

(* How far the second release goes (gemini_provider.py:611-623): each      *)
(* failed stream frees one slot of another request at most, so a key has   *)
(* no more calls above its cap than streams have failed on it.             *)
OverloadBounded ==
  \A k \in Keys :
    Cardinality(InFlight(k)) <= MaxParallel + Cardinality(GivenBackTwice(k))

(* A stream leaves no slot behind, however it ends: with no cancelled or   *)
(* refused call, the pool is idle once all requests are over.              *)
StreamsLeakNothing ==
  (\A c \in Callers :
     /\ Done(c) /\ pc[c] = "idle"
     /\ kind[c] = "call" => result[c] \notin Leaky)
  => \A k \in Keys : keys[k].active_requests = 0

=============================================================================
