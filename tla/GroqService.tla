---------------------------- MODULE GroqService ----------------------------
(***************************************************************************)
(* GroqService (services/provider.py): the rotation loop for all calls,    *)
(* and streams, which have a loop of their own.  A stream hands chunks to  *)
(* its caller while it holds the key; it may be tried again only as long   *)
(* as none was handed over.  Its caller may drop the generator at any      *)
(* chunk, and then nothing more of the loop runs.                          *)
(***************************************************************************)
EXTENDS ServiceRotation

VARIABLES
  first,     (* first_chunk_yielded of the current attempt                 *)
  delivered  (* attempts of the request whose chunks reached its caller    *)

svars == <<first, delivered>>

allvars == <<vars, rvars, svars>>

GroqInit ==
  /\ RInit
  /\ first = [c \in Callers |-> FALSE]
  /\ delivered = [c \in Callers |-> 0]

-----------------------------------------------------------------------------

(* A new attempt begins with no chunk yielded.                             *)
ChooseKeyAfresh(c) ==
  /\ ChooseKey(c)
  /\ first' = [first EXCEPT ![c] = FALSE]
  /\ UNCHANGED delivered

(* The first chunk; later ones change nothing.                             *)
StreamYields(c) ==
  /\ kind[c] = "stream"
  /\ pc[c] = "calling"
  /\ ~first[c]
  /\ first' = [first EXCEPT ![c] = TRUE]
  /\ delivered' = [delivered EXCEPT ![c] = @ + 1]
  /\ UNCHANGED <<vars, rvars>>

StreamReturns(c) ==
  /\ kind[c] = "stream"
  /\ ReleaseKey(c)
  /\ Conclude(c, "returned")
  /\ UNCHANGED svars

(* Mutant of StreamFails: every failure is retried.                        *)
StreamFailsRetried(c) ==
  /\ kind[c] = "stream"
  /\ MarkRateLimited(c) \/ MarkFailure(c)
  /\ RetryOrGiveUp(c)
  /\ UNCHANGED svars

(* Every error, an authentication error too, is a failure of the key.  It  *)
(* is raised to a caller that has had output already.                      *)
StreamFails(c) ==
  /\ kind[c] = "stream"
  /\ MarkRateLimited(c) \/ MarkFailure(c)
  /\ IF first[c] THEN Finish(c, "broken") ELSE RetryOrGiveUp(c)
  /\ UNCHANGED svars

(* GeneratorExit and cancellation pass by "except Exception".              *)
StreamAbandoned(c) ==
  /\ kind[c] = "stream"
  /\ AbandonCall(c)
  /\ Finish(c, "abandoned")
  /\ UNCHANGED svars

-----------------------------------------------------------------------------

(* Steps of a request that its thread takes by itself.                     *)
Progress(c) == (LoopStep(c) /\ UNCHANGED svars) \/ ChooseKeyAfresh(c)

(* Upstream answers.                                                       *)
Answer(c) ==
  \/ CallAnswer(c) /\ UNCHANGED svars
  \/ StreamReturns(c) \/ StreamFails(c)

GiveUp(c) == (CallCancelled(c) /\ UNCHANGED svars) \/ StreamAbandoned(c)

GroqNext ==
  \/ \E c \in Callers : Progress(c) \/ Answer(c) \/ StreamYields(c) \/ GiveUp(c)
  \/ (TimePasses \/ SessionExpires) /\ UNCHANGED svars

GroqSpec == GroqInit /\ [][GroqNext]_allvars

(* Threads run, and every upstream call is answered: calls and streams     *)
(* carry the timeout of their RequestConfig, and a timeout is an answer.   *)
(* (Calls for audio carry none; they are left to ServiceRequests.)         *)
(* Readers of streams read them to the end or drop them.                   *)
GroqFairSpec ==
  GroqSpec /\ \A c \in Callers : WF_allvars(Progress(c)) /\ WF_allvars(Answer(c))

-----------------------------------------------------------------------------

(* Type invariant.                                                         *)
GroqTypeOK ==
  /\ stage \in [Callers -> Stage \ {"finally"}]
  /\ kind \in [Callers -> Kind]
  /\ attempt \in [Callers -> 0..Retries]
  /\ key \in [Callers -> Keys \cup {NoKey}]
  /\ result \in [Callers -> Result]
  /\ usage \in [succeeded : Nat, failed : Nat, retried : Nat]
  /\ session \in [state : {"absent", "open", "expired"},
                  succeeded : Nat, failed : Nat, retried : Nat]
  /\ journal \in Nat
  /\ first \in [Callers -> BOOLEAN]
  /\ delivered \in [Callers -> Nat]

(* stream(): "re-running the whole request would duplicate output the      *)
(* caller has already received".  No request hands over chunks of two      *)
(* attempts, whatever fails when.                                          *)
OutputDeliveredOnce == \A c \in Callers : delivered[c] <= 1

=============================================================================
