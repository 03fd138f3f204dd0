------------------------ MODULE ServiceRequestsProofs -----------------------
(***************************************************************************)
(* Theorems about ServiceRequests, for any number of callers and prompts,  *)
(* of permits, retries, repairs and sessions that expire; and about the    *)
(* error tables it stands on, for errors of any class and status.          *)
(***************************************************************************)
EXTENDS ServiceRequests, FiniteSums

(* An error that carries the status 401 or 403 disables the key it came    *)
(* from and ends the request, whatever its class is called: the client     *)
(* turns it into APIKeyDisabledError, which the loop catches first.        *)
THEOREM RefusedKeysAreDisabled ==
  ASSUME NEW class, NEW status \in {401, 403}
  PROVE  Outcome("groq", Error(class, status)) = "disabled"
<1> DEFINE e == Error(class, status)
<1>1. IsAuthError(e)
  BY DEF IsAuthError, Error
<1>2. GroqHandled(e) = Error("APIKeyDisabledError", status)
  BY <1>1 DEF GroqHandled, Error
<1>3. Branch(GroqHandled(e)) = "disabled"
  BY <1>2 DEF Branch, Error
<1> QED
  BY <1>3 DEF Outcome

(* The classifier and the predicate of the retry policies are two          *)
(* functions with two lists of names; what the one calls a validation      *)
(* error the other never retries, for any class and any status.            *)
THEOREM ValidationErrorsAreFinal ==
  ASSUME NEW class, NEW status \in Int,
         Classify(Error(class, status)) = "validation"
  PROVE  ~IsRetryable(Error(class, status))
<1> DEFINE e == Error(class, status)
<1>1. e.class = class /\ e.status = status
  BY DEF Error
<1>2. CASE class \in OwnErrors
  BY <1>1, <1>2 DEF IsRetryable
<1>3. CASE class = "InvalidResponseError"
  <2>1. status \in FatalStatus
    BY <1>1, <1>3 DEF Classify, RetryableStatus, FatalStatus
  <2> QED
    BY <1>1, <1>3, <2>1 DEF IsRetryable, RetryableNames, HttpxErrors
<1>4. CASE class \notin OwnErrors /\ class # "InvalidResponseError"
  <2>1. class \in {"AuthenticationError", "PermissionDeniedError",
                   "BadRequestError", "NotFoundError"}
    BY <1>1, <1>4 DEF Classify, OwnErrors
  <2> QED
    BY <1>1, <2>1 DEF IsRetryable, RetryableNames, HttpxErrors
<1> QED
  BY <1>2, <1>3, <1>4

(* Each error of the Groq SDK reaches the branch of the rotation loop that *)
(* its status calls for.                                                   *)
THEOREM GroqErrorsReachTheirBranch == ErrorsReachTheirBranch
<1> SUFFICES ASSUME NEW e \in GroqErrors
             PROVE  Outcome("groq", e) =
                      CASE e.status \in {401, 403} -> "disabled"
                        [] e.status = 429 -> "rate_limited"
                        [] OTHER -> "failed"
  BY DEF ErrorsReachTheirBranch
<1>1. CASE e.status \in {401, 403}
  <2>1. GroqHandled(e) = Error("APIKeyDisabledError", e.status)
    BY <1>1 DEF GroqHandled, IsAuthError
  <2>2. Branch(GroqHandled(e)) = "disabled"
    BY <2>1 DEF Branch, Error
  <2> QED
    BY <1>1, <2>2 DEF Outcome
<1>2. CASE e.status = 429
  <2>1. e.class = "RateLimitError" /\ ~IsAuthError(e) /\ IsRateLimit(e)
    BY <1>2 DEF GroqErrors, Error, IsAuthError, IsRateLimit, NoStatus
  <2>2. GroqHandled(e) = Error("RateLimitExceededError", NoStatus)
    BY <2>1 DEF GroqHandled
  <2>3. Branch(GroqHandled(e)) = "rate_limited"
    BY <2>2 DEF Branch, Error, IsAuthError, IsRateLimit, NoStatus
  <2> QED
    BY <1>2, <2>3 DEF Outcome
<1>3. CASE e.status \notin {401, 403, 429}
  <2>1. /\ ~IsAuthError(e) /\ ~IsRateLimit(e)
        /\ e.class \notin {"NoAvailableAPIKeyError", "APIKeyDisabledError"}
    BY <1>3 DEF GroqErrors, Error, IsAuthError, IsRateLimit, NoStatus
  <2>2. GroqHandled(e) = e
    BY <2>1 DEF GroqHandled
  <2> QED
    BY <1>3, <2>1, <2>2 DEF Outcome, Branch
<1> QED
  BY <1>1, <1>2, <1>3

-----------------------------------------------------------------------------

ConstantsOK ==
  /\ BatchSize \in Nat
  /\ Concurrency \in Nat \ {0}
  /\ Retries \in Nat
  /\ JsonRetries \in Nat
  /\ Expiries \in Nat
  /\ Callers \cap Items = {}
  /\ Shared \notin Requests
  /\ IsFiniteSet(Items) /\ IsFiniteSet(Requests) /\ IsFiniteSet(SessionIds)

LEMMA ConstantsAreOK == ConstantsOK
  <1>1. BatchSize \in Nat
    BY RequestsAssumption
  <1>2. IsFiniteSet(Items)
    BY <1>1, FS_Interval DEF Items
  <1>3. IsFiniteSet(Requests)
    BY <1>2, NamesAssumption, FS_Union DEF Requests
  <1>4. IsFiniteSet(SessionIds)
    BY <1>3, FS_AddElement DEF SessionIds
  <1> QED BY <1>2, <1>3, <1>4, RequestsAssumption, NamesAssumption DEF ConstantsOK

LEMMA Ids ==
  /\ Items \subseteq Requests
  /\ \A r \in Requests : r \in SessionIds /\ (r \in Callers <=> r \notin Items)
  /\ Shared \in SessionIds
  BY ConstantsAreOK DEF ConstantsOK, Requests, SessionIds

(* What is left of an entry point once a request is under way.             *)
Kinds == {Underway(e) : e \in EntryPoints}

LEMMA KindsAre ==
  /\ NoEntry \in Kinds
  /\ \A e \in EntryPoints : Underway(e) \in Kinds
  /\ \A k \in Kinds :
       /\ k.service \in {"groq", "gemini"}
       /\ k.rounds \in {0, JsonRetries + 1}
       /\ k.client.tokens \in BOOLEAN
  <1>1. GroqInvoke \in EntryPoints
    BY DEF EntryPoints
  <1>2. \A m, t, o : Client(m, t, o).tokens = t
    BY DEF Client
  <1>3. \A s, b, c, n :
          LET e == Entry(s, b, c, n)
          IN  e.service = s /\ e.client = c /\ e.rounds = n
    BY DEF Entry
  <1>4. /\ ChatClient.tokens \in BOOLEAN /\ StructuredClient.tokens \in BOOLEAN
        /\ ToolClient.tokens \in BOOLEAN /\ ModerationClient.tokens \in BOOLEAN
        /\ TranscriptionClient.tokens \in BOOLEAN
        /\ SynthesisClient.tokens \in BOOLEAN /\ GeminiChatClient.tokens \in BOOLEAN
        /\ GeminiStructuredClient.tokens \in BOOLEAN
        /\ GeminiToolClient.tokens \in BOOLEAN
    BY <1>2 DEF ChatClient, StructuredClient, ToolClient, ModerationClient,
           TranscriptionClient, SynthesisClient, GeminiChatClient,
           GeminiStructuredClient, GeminiToolClient
  <1>5. ASSUME NEW e \in EntryPoints
        PROVE  /\ e.service \in {"groq", "gemini"}
               /\ e.rounds \in {0, JsonRetries + 1}
               /\ e.client.tokens \in BOOLEAN
    <2> HIDE DEF EntryPoints
    <2>1. CASE e \in {GroqInvoke, GroqChat, GroqAsyncChat}
      BY <1>3, <1>4, <2>1 DEF GroqInvoke, GroqChat, GroqAsyncChat
    <2>2. CASE e \in {GroqStructured, GroqTools, GroqModerate}
      BY <1>3, <1>4, <2>2 DEF GroqStructured, GroqTools, GroqModerate, Rounds
    <2>3. CASE e \in {GroqTranscribe, GroqSynthesize}
      BY <1>3, <1>4, <2>3 DEF GroqTranscribe, GroqSynthesize
    <2>4. CASE e \in {GeminiChat, GeminiInvoke}
      BY <1>3, <1>4, <2>4 DEF GeminiChat, GeminiInvoke
    <2>5. CASE e \in {GeminiStructured, GeminiTools}
      BY <1>3, <1>4, <2>5 DEF GeminiStructured, GeminiTools, Rounds
    <2> QED BY <2>1, <2>2, <2>3, <2>4, <2>5 DEF EntryPoints
  <1>6. \A e \in EntryPoints :
          /\ Underway(e).service = e.service
          /\ Underway(e).rounds = e.rounds /\ Underway(e).client = e.client
    BY DEF Underway
  <1> QED BY <1>1, <1>5, <1>6 DEF Kinds, NoEntry

-----------------------------------------------------------------------------

(* The variables are functions and records of the right kind; unlike in    *)
(* RequestsTypeOK the permits have no upper bound yet.                     *)
BatchRecord ==
  [state : {"none", "running", "done", "cancelled"}, service : {"groq", "gemini"},
   shared : BOOLEAN, limit : 0..Concurrency, success : SUBSET Items,
   succeeded : Nat, failed : Int]

SessionRecord == [state : {"absent", "open", "expired"}, recorded : Nat]

Shape ==
  /\ stage \in [Requests -> Stage]
  /\ entry \in [Requests -> Kinds]
  /\ sid \in [Requests -> SessionIds]
  /\ round \in [Requests -> 0..JsonRetries]
  /\ attempt \in [Requests -> 0..Retries]
  /\ answered \in [Requests -> BOOLEAN]
  /\ result \in [Requests -> Result]
  /\ final \in [Requests -> BOOLEAN]

BooksShape ==
  /\ sessions \in [SessionIds -> SessionRecord]
  /\ usage \in [succeeded : Nat, failed : Nat, tokens : Nat]
  /\ received \in [responses : Nat, tokens : Nat]
  /\ journal \in Nat /\ lapsed \in Nat /\ permits \in Nat
  /\ batch \in BatchRecord

(* A request has a result once it is over and not before, an answer only   *)
(* between the loop and the caller, and no answer and no attempt to come   *)
(* once its error was final.                                               *)
Coherent(r) ==
  /\ sid[r] \in {r, Shared}
  /\ result[r] # "none" <=> stage[r] \in {"done", "reported"}
  /\ answered[r] => stage[r] \in {"usage", "session", "parse"}
  /\ final[r] => stage[r] \in {"usage", "session", "done", "reported"} /\ ~answered[r]
  /\ stage[r] \in {"queued", "reported"} => r \in Items

RInv == Shape /\ BooksShape /\ \A r \in Requests : Coherent(r)

(* Only request r moves.                                                   *)
Only(r) ==
  \A q \in Requests \ {r} :
    /\ stage'[q] = stage[q] /\ entry'[q] = entry[q] /\ sid'[q] = sid[q]
    /\ answered'[q] = answered[q] /\ result'[q] = result[q] /\ final'[q] = final[q]

LEMMA InitRInv == Init => RInv
  <1> SUFFICES ASSUME Init PROVE RInv
    OBVIOUS
  <1> USE ConstantsAreOK DEF ConstantsOK
  <1>1. Shape
    BY KindsAre, Ids DEF Init, Shape, Stage, Result
  <1>2. BooksShape
    BY DEF Init, BooksShape, SessionRecord, Absent, BatchRecord, NoBatch
  <1>3. ASSUME NEW r \in Requests PROVE Coherent(r)
    BY Ids DEF Init, Coherent
  <1> QED BY <1>1, <1>2, <1>3 DEF RInv

LEMMA OnlyIsCoherent ==
  ASSUME RInv, NEW r \in Requests, Only(r), Coherent(r)'
  PROVE  \A q \in Requests : Coherent(q)'
  BY DEF RInv, Only, Coherent

LEMMA OverIs ==
  ASSUME RInv, NEW r \in Requests, NEW res \in Result \ {"none"}, Over(r, res),
         NEW b \in BOOLEAN, final' = [final EXCEPT ![r] = b]
  PROVE  /\ Shape' /\ Only(r) /\ Coherent(r)'
         /\ stage'[r] = "done" /\ result'[r] = res /\ ~answered'[r]
  <1>1. Shape'
    BY ConstantsAreOK, KindsAre, Ids DEF ConstantsOK, RInv, Shape, Over, Go, Stage
  <1>2. /\ stage'[r] = "done" /\ result'[r] = res /\ answered'[r] = FALSE
        /\ sid'[r] = r
    BY DEF RInv, Shape, Over, Go
  <1>3. Only(r)
    BY DEF RInv, Shape, Over, Go, Only
  <1> QED BY <1>1, <1>2, <1>3 DEF Coherent

LEMMA EndIs ==
  ASSUME RInv, NEW r \in Requests, NEW res \in Result \ {"none"}, End(r, res)
  PROVE  /\ Shape' /\ Only(r) /\ Coherent(r)'
         /\ stage'[r] = "done" /\ result'[r] = res /\ ~answered'[r]
  <1>1. final[r] \in BOOLEAN /\ final' = [final EXCEPT ![r] = final[r]]
    BY DEF RInv, Shape, End
  <1> QED BY <1>1, OverIs DEF End

-----------------------------------------------------------------------------

(* An error that the loop retries on comes with no status that makes the   *)
(* key useless, whichever service it is.                                   *)
LEMMA RetriedErrorsAreNotFinal ==
  ASSUME NEW service \in {"groq", "gemini"},
         NEW e \in SdkErrors(service) \cup {Malformed},
         Outcome(service, e) \in {"rate_limited", "failed"}
  PROVE  e.status \notin {401, 403}
  <1>1. CASE e = Malformed \/ service = "gemini"
    BY <1>1 DEF Malformed, SdkErrors, GeminiErrors, Error, NoStatus
  <1>2. CASE service = "groq" /\ e \in GroqErrors /\ e.status \in {401, 403}
    <2>1. Outcome("groq", e) = "disabled"
      BY <1>2, GroqErrorsReachTheirBranch DEF ErrorsReachTheirBranch
    <2> QED BY <1>2, <2>1
  <1> QED BY <1>1, <1>2 DEF SdkErrors

LEMMA PolicyErrorsAre ==
  \A e \in PolicyErrors : e = Error(e.class, e.status) /\ e.status \in Int
  <1> DEFINE Proper(e) == e = Error(e.class, e.status) /\ e.status \in Int
  <1>1. \A c, n : n \in Int => Proper(Error(c, n))
    BY DEF Error
  <1>2. ASSUME NEW e \in GroqErrors PROVE Proper(e)
    BY <1>1, <1>2 DEF GroqErrors, NoStatus
  <1>3. ASSUME NEW e \in GroqErrors PROVE Proper(GroqHandled(e))
    <2>1. Proper(e)
      BY <1>2
    <2>2. /\ Proper(Error("APIKeyDisabledError", e.status))
          /\ Proper(Error("RateLimitExceededError", NoStatus))
      BY <1>1, <2>1 DEF NoStatus
    <2>3. \/ GroqHandled(e) = Error("APIKeyDisabledError", e.status)
          \/ GroqHandled(e) = Error("RateLimitExceededError", NoStatus)
          \/ GroqHandled(e) = e
      BY DEF GroqHandled
    <2> HIDE DEF Proper
    <2> QED BY <2>1, <2>2, <2>3
  <1>4. \A n \in {NoStatus, 422, 429, 503} : Proper(Error("InvalidResponseError", n))
    BY <1>1 DEF NoStatus
  <1> HIDE DEF Proper
  <1>5. \A e \in PolicyErrors : Proper(e)
    BY <1>2, <1>3, <1>4 DEF PolicyErrors
  <1> QED BY <1>5 DEF Proper

-----------------------------------------------------------------------------

(* What a step of one request does to the requests.                        *)
Moves(r) == Shape' /\ Only(r) /\ Coherent(r)'

LEMMA ResolveMoves ==
  ASSUME RInv, NEW r \in Requests, NEW e \in EntryPoints, NEW s \in {r, Shared},
         NEW fault \in BOOLEAN, stage[r] = "new", Resolve(r, e, s, fault)
  PROVE  /\ Moves(r)
         /\ \/ /\ sessions[s].state = "expired"
               /\ sessions' = [sessions EXCEPT ![s] = Absent]
               /\ stage'[r] = "done" /\ result'[r] = "expired" /\ ~answered'[r]
            \/ /\ sessions[s].state # "expired"
               /\ sessions' = [sessions EXCEPT ![s].state = "open"]
               /\ stage'[r] \in {"done", "upstream"} /\ result'[r] # "expired"
               /\ ~answered'[r]
  <1>1. CASE sessions[s].state = "expired"
    <2>1. Refuse(s) /\ End(r, "expired")
      BY <1>1 DEF Resolve
    <2> QED BY <1>1, <2>1, EndIs DEF Refuse, Moves, Result
  <1>2. CASE sessions[s].state # "expired" /\ fault
    <2>1. sessions' = [sessions EXCEPT ![s].state = "open"] /\ End(r, "failed")
      BY <1>2 DEF Resolve
    <2> QED BY <1>2, <2>1, EndIs DEF Moves, Result
  <1>3. CASE sessions[s].state # "expired" /\ ~fault
    <2>1. sessions' = [sessions EXCEPT ![s].state = "open"] /\ Send(r, e, s)
      BY <1>3 DEF Resolve
    <2>2. Underway(e) \in Kinds /\ s \in SessionIds
      BY KindsAre, Ids
    <2>3. Shape'
      BY <2>1, <2>2 DEF Send, Go, RInv, Shape, Stage
    <2>4. /\ stage'[r] = "upstream" /\ sid'[r] = s /\ result'[r] = "none"
          /\ ~answered'[r] /\ ~final'[r]
      BY <2>1 DEF Send, Go, RInv, Shape, Coherent
    <2>5. Only(r)
      BY <2>1 DEF Send, Go, RInv, Shape, Only
    <2> QED BY <1>3, <2>1, <2>3, <2>4, <2>5 DEF Moves, Coherent
  <1> QED BY <1>1, <1>2, <1>3

LEMMA EnterMoves ==
  ASSUME RInv, NEW r \in Requests, NEW e \in EntryPoints, NEW ids \in SUBSET {r, Shared},
         EnterBy(r, e, ids)
  PROVE  /\ Moves(r)
         /\ UNCHANGED <<usage, journal, history, batchvars>>
         /\ stage[r] = "new" /\ ~answered'[r]
         /\ \/ /\ UNCHANGED sessions
               /\ stage'[r] = "done" /\ result'[r] # "expired"
            \/ \E s \in SessionIds :
                 /\ sessions[s].state = "expired"
                 /\ sessions' = [sessions EXCEPT ![s] = Absent]
                 /\ stage'[r] = "done" /\ result'[r] = "expired"
            \/ \E s \in SessionIds :
                 /\ sessions[s].state # "expired"
                 /\ sessions' = [sessions EXCEPT ![s].state = "open"]
                 /\ stage'[r] \in {"done", "upstream"} /\ result'[r] # "expired"
  <1>1. stage[r] = "new" /\ UNCHANGED batchvars
    BY DEF EnterBy
  <1>2. ASSUME NEW f, Reject(r, e, f)
        PROVE  /\ Moves(r) /\ UNCHANGED <<usage, journal, history>> /\ UNCHANGED sessions
               /\ stage'[r] = "done" /\ result'[r] # "expired" /\ ~answered'[r]
    <2>1. End(r, "failed") /\ UNCHANGED <<books, history>>
      BY <1>2 DEF Reject
    <2> QED BY <1>1, <2>1, EndIs DEF Moves, books, Result
  <1>3. ASSUME NEW s \in ids, NEW fault \in BOOLEAN, Resolve(r, e, s, fault)
        PROVE  /\ Moves(r) /\ UNCHANGED <<usage, journal, history>> /\ ~answered'[r]
               /\ s \in SessionIds
               /\ \/ /\ sessions[s].state = "expired"
                     /\ sessions' = [sessions EXCEPT ![s] = Absent]
                     /\ stage'[r] = "done" /\ result'[r] = "expired"
                  \/ /\ sessions[s].state # "expired"
                     /\ sessions' = [sessions EXCEPT ![s].state = "open"]
                     /\ stage'[r] \in {"done", "upstream"} /\ result'[r] # "expired"
    <2>1. s \in {r, Shared} /\ s \in SessionIds
      BY Ids
    <2>2. UNCHANGED <<usage, journal, history>>
      BY <1>3 DEF Resolve
    <2> QED BY <1>1, <1>3, <2>1, <2>2, ResolveMoves
  <1>4. \/ \E f \in Checks(e) : Reject(r, e, f)
        \/ \E s \in ids, fault \in BOOLEAN : Resolve(r, e, s, fault)
    BY DEF EnterBy
  <1>5. CASE \E f \in Checks(e) : Reject(r, e, f)
    BY <1>1, <1>2, <1>5
  <1>6. CASE \E s \in ids, fault \in BOOLEAN : Resolve(r, e, s, fault)
    BY <1>1, <1>3, <1>6
  <1> QED BY <1>4, <1>5, <1>6

LEMMA RespondsMoves ==
  ASSUME RInv, NEW r \in Requests, Responds(r)
  PROVE  /\ Moves(r) /\ UNCHANGED <<books, lapsed, batchvars>>
         /\ stage[r] = "upstream" /\ stage'[r] = "usage"
         /\ answered'[r] /\ entry'[r] = entry[r] /\ result' = result
  <1>1. /\ stage[r] = "upstream" /\ stage' = [stage EXCEPT ![r] = "usage"]
        /\ answered' = [answered EXCEPT ![r] = TRUE]
        /\ UNCHANGED <<books, lapsed, batchvars>>
        /\ UNCHANGED <<entry, sid, round, attempt, result, final>>
    BY DEF Responds, Go
  <1>2. Shape'
    BY <1>1 DEF RInv, Shape, Stage
  <1>3. stage'[r] = "usage" /\ answered'[r] = TRUE
    BY <1>1 DEF RInv, Shape
  <1>4. Only(r) /\ Coherent(r)'
    BY <1>1, <1>3 DEF RInv, Shape, Only, Coherent
  <1> QED BY <1>1, <1>2, <1>3, <1>4 DEF Moves

(* What ends, or goes on, without a response.                              *)
Quiet(r) ==
  /\ Moves(r) /\ UNCHANGED <<books, history, batchvars>>
  /\ stage[r] \notin {"queued", "usage", "session", "done", "reported"}
  /\ ~answered'[r] /\ result'[r] # "expired"
  /\ stage'[r] \in {"upstream", "policy", "usage", "done"}

LEMMA EndIsQuiet ==
  ASSUME RInv, NEW r \in Requests, NEW res \in Result \ {"none", "expired"},
         End(r, res), UNCHANGED <<books, history, batchvars>>,
         stage[r] \in {"upstream", "policy", "parse"}
  PROVE  Quiet(r)
  BY EndIs DEF Quiet, Moves

LEMMA OverIsQuiet ==
  ASSUME RInv, NEW r \in Requests, Over(r, "failed"),
         NEW b \in BOOLEAN, final' = [final EXCEPT ![r] = b],
         UNCHANGED <<books, history, batchvars>>, stage[r] \in {"upstream", "policy"}
  PROVE  Quiet(r)
  <1>1. "failed" \in Result \ {"none"}
    BY DEF Result
  <1> QED BY <1>1, OverIs DEF Quiet, Moves

LEMMA RaisesIsQuiet ==
  ASSUME RInv, NEW r \in Requests,
         NEW e \in SdkErrors(entry[r].service) \cup {Malformed}, Raises(r, e)
  PROVE  Quiet(r)
  <1> DEFINE outcome == Outcome(entry[r].service, e)
             f == e.status \in {401, 403}
  <1>1. /\ stage[r] = "upstream" /\ UNCHANGED <<books, history, batchvars>>
        /\ final' = [final EXCEPT ![r] = f]
        /\ ~answered[r] /\ result[r] = "none" /\ ~final[r]
    BY DEF Raises, RInv, Coherent
  <1>2. CASE Over(r, "failed")
    <2>1. f \in BOOLEAN
      OBVIOUS
    <2> HIDE DEF f
    <2> QED BY <1>1, <1>2, <2>1, OverIsQuiet
  <1>3. CASE Go(r, "usage") /\ UNCHANGED <<result, entry, sid, round, attempt, answered>>
    <2>1. f \in BOOLEAN
      OBVIOUS
    <2> HIDE DEF f
    <2>2. Shape' /\ stage'[r] = "usage" /\ Only(r)
      BY <1>1, <1>3, <2>1 DEF Go, RInv, Shape, Stage, Only
    <2>3. Coherent(r)' /\ ~answered'[r] /\ result'[r] = "none"
      BY <1>1, <1>3, <2>2 DEF RInv, Coherent
    <2> QED BY <1>1, <2>2, <2>3 DEF Quiet, Moves
  <1>4. CASE /\ outcome \in {"rate_limited", "failed"}
             /\ RetryOrGiveUp(r)
             /\ UNCHANGED <<result, entry, sid, round, answered>>
    <2>1. entry[r].service \in {"groq", "gemini"}
      <3>1. entry[r] \in Kinds
        BY DEF RInv, Shape
      <3> QED BY <3>1, KindsAre
    <2>2. f = FALSE
      BY <1>4, <2>1, RetriedErrorsAreNotFinal
    <2> HIDE DEF f
    <2>3. final' = [final EXCEPT ![r] = FALSE]
      BY <1>1, <2>2
    <2>4. /\ stage' \in [Requests -> Stage] /\ attempt' \in [Requests -> 0..Retries]
          /\ stage'[r] \in {"upstream", "usage"}
          /\ \A q \in Requests \ {r} : stage'[q] = stage[q]
      BY <1>1, <1>4, ConstantsAreOK DEF ConstantsOK, RetryOrGiveUp, Go, RInv, Shape, Stage
    <2>5. Shape'
      BY <1>4, <2>3, <2>4 DEF RInv, Shape
    <2>6. Only(r)
      BY <1>4, <2>3, <2>4 DEF RInv, Shape, Only
    <2>7. Coherent(r)' /\ ~answered'[r] /\ result'[r] = "none"
      BY <1>1, <1>4, <2>3, <2>4 DEF RInv, Shape, Coherent
    <2> QED BY <1>1, <2>4, <2>5, <2>6, <2>7 DEF Quiet, Moves
  <1> QED BY <1>2, <1>3, <1>4 DEF Raises

LEMMA AnswersMove ==
  ASSUME RInv, NEW r \in Requests, Answer(r) \/ Cancelled(r), ~Responds(r)
  PROVE  Quiet(r) \/ PolicyFails(r)
  <1>1. CASE Fails(r)
    <2>1. \E e \in SdkErrors(entry[r].service) \cup {Malformed} : Raises(r, e)
      BY <1>1 DEF Fails
    <2> QED BY <2>1, RaisesIsQuiet
  <1>2. CASE NoKey(r)
    BY <1>2, EndIsQuiet DEF NoKey, Result
  <1>3. CASE Cancelled(r)
    BY <1>3, EndIsQuiet DEF Cancelled, Result
  <1>4. CASE PolicyReturns(r)
    BY <1>4, EndIsQuiet DEF PolicyReturns, Result
  <1> QED BY <1>1, <1>2, <1>3, <1>4 DEF Answer

LEMMA PolicyFailsIsQuiet ==
  ASSUME RInv, NEW r \in Requests, PolicyFails(r)
  PROVE  Quiet(r)
  <1>1. PICK e \in PolicyErrors :
          /\ final' = [final EXCEPT ![r] = Classify(e) = "validation"]
          /\ IF IsRetryable(e) /\ attempt[r] < Retries
               THEN /\ attempt' = [attempt EXCEPT ![r] = @ + 1]
                    /\ UNCHANGED <<stage, result, entry, sid, round, answered>>
               ELSE Over(r, "failed")
    BY DEF PolicyFails
  <1> DEFINE f == Classify(e) = "validation"
  <1>2. /\ stage[r] = "policy" /\ UNCHANGED <<books, history, batchvars>>
        /\ final' = [final EXCEPT ![r] = f]
        /\ ~answered[r] /\ result[r] = "none" /\ ~final[r]
    BY <1>1 DEF PolicyFails, RInv, Coherent
  <1>3. CASE Over(r, "failed")
    <2>1. f \in BOOLEAN
      OBVIOUS
    <2> HIDE DEF f
    <2> QED BY <1>2, <1>3, <2>1, OverIsQuiet
  <1>4. CASE /\ IsRetryable(e) /\ attempt[r] < Retries
             /\ attempt' = [attempt EXCEPT ![r] = @ + 1]
             /\ UNCHANGED <<stage, result, entry, sid, round, answered>>
    <2>1. f = FALSE
      <3>1. PICK c, n : n \in Int /\ e = Error(c, n)
        BY PolicyErrorsAre
      <3> QED BY <1>4, <3>1, ValidationErrorsAreFinal
    <2> HIDE DEF f
    <2>2. final' = [final EXCEPT ![r] = FALSE]
      BY <1>2, <2>1
    <2>3. attempt' \in [Requests -> 0..Retries]
      BY <1>4, ConstantsAreOK DEF ConstantsOK, RInv, Shape
    <2>4. Shape'
      BY <1>4, <2>2, <2>3 DEF RInv, Shape
    <2>5. Only(r) /\ Coherent(r)'
      BY <1>2, <1>4, <2>2 DEF RInv, Shape, Only, Coherent
    <2> QED BY <1>2, <1>4, <2>4, <2>5 DEF Quiet, Moves
  <1> QED BY <1>1, <1>3, <1>4

LEMMA UsePolicyIsQuiet ==
  ASSUME RInv, NEW r \in Requests, UsePolicy(r)
  PROVE  Quiet(r)
  <1>1. /\ stage[r] = "new" /\ stage' = [stage EXCEPT ![r] = "policy"]
        /\ UNCHANGED <<result, locals>> /\ UNCHANGED <<books, history, batchvars>>
        /\ ~answered[r] /\ result[r] = "none"
    BY DEF UsePolicy, Go, reqvars, RInv, Coherent
  <1>2. Shape' /\ stage'[r] = "policy" /\ Only(r)
    BY <1>1 DEF locals, RInv, Shape, Stage, Only
  <1>3. Coherent(r)'
    BY <1>1, <1>2 DEF locals, RInv, Coherent
  <1> QED BY <1>1, <1>2, <1>3 DEF Quiet, Moves, locals

LEMMA RecordUsageMoves ==
  ASSUME RInv, NEW r \in Requests, RecordUsage(r)
  PROVE  /\ Moves(r) /\ UNCHANGED <<sessions, journal, history, batchvars>>
         /\ stage[r] = "usage" /\ stage'[r] = "session"
         /\ usage' = Booked(r)
         /\ answered' = answered /\ entry' = entry /\ result' = result
  <1>1. /\ stage[r] = "usage" /\ stage' = [stage EXCEPT ![r] = "session"]
        /\ usage' = Booked(r)
        /\ UNCHANGED <<sessions, journal, history, batchvars>>
        /\ UNCHANGED <<result, entry, sid, round, attempt, answered, final>>
    BY DEF RecordUsage, Go, reqvars, locals
  <1>2. Shape' /\ stage'[r] = "session" /\ Only(r)
    BY <1>1 DEF RInv, Shape, Stage, Only
  <1>3. Coherent(r)'
    BY <1>1, <1>2 DEF RInv, Coherent
  <1> QED BY <1>1, <1>2, <1>3 DEF Moves

LEMMA RecordSessionMoves ==
  ASSUME RInv, NEW r \in Requests, RecordSession(r)
  PROVE  /\ Moves(r) /\ UNCHANGED <<usage, history, batchvars>>
         /\ stage[r] = "session"
         /\ stage'[r] \in {"parse", "done"} /\ result'[r] # "expired"
         /\ journal' = IF answered[r] THEN journal + 1 ELSE journal
         /\ \E s \in SessionIds :
              \/ /\ sessions[s].state = "open"
                 /\ sessions' = [sessions EXCEPT ![s].recorded = @ + 1]
              \/ /\ sessions[s].state = "expired"
                 /\ sessions' = [sessions EXCEPT ![s] = Absent]
              \/ sessions' = sessions
  <1>1. /\ stage[r] = "session" /\ result[r] = "none"
        /\ UNCHANGED <<usage, history, batchvars>>
        /\ journal' = IF answered[r] THEN journal + 1 ELSE journal
    BY DEF RecordSession, RInv, Coherent
  <1>2. \E s \in SessionIds :
          \/ /\ sessions[s].state = "open"
             /\ sessions' = [sessions EXCEPT ![s].recorded = @ + 1]
          \/ /\ sessions[s].state = "expired"
             /\ sessions' = [sessions EXCEPT ![s] = Absent]
          \/ sessions' = sessions
    <2>1. sid[r] \in SessionIds
      BY DEF RInv, Shape
    <2> QED BY <2>1 DEF RecordSession
  <1>3. CASE ~answered[r]
    <2>1. End(r, "failed")
      BY <1>3 DEF RecordSession
    <2> QED BY <1>1, <1>2, <2>1, EndIs DEF Result, Moves
  <1>4. CASE answered[r]
    <2>1. /\ stage' = [stage EXCEPT ![r] = "parse"]
          /\ UNCHANGED <<result, entry, sid, round, attempt, answered, final>>
      BY <1>4 DEF RecordSession, Go, locals
    <2>2. Shape' /\ stage'[r] = "parse" /\ Only(r)
      BY <2>1 DEF RInv, Shape, Stage, Only
    <2>3. Coherent(r)' /\ result'[r] = "none"
      BY <1>1, <1>4, <2>1, <2>2 DEF RInv, Coherent
    <2> QED BY <1>1, <1>2, <2>2, <2>3 DEF Moves
  <1> QED BY <1>3, <1>4

LEMMA ParseIsQuiet ==
  ASSUME RInv, NEW r \in Requests, Parse(r)
  PROVE  Quiet(r)
  <1>1. /\ stage[r] = "parse" /\ UNCHANGED <<books, history, batchvars>>
        /\ result[r] = "none"
    BY DEF Parse, RInv, Coherent
  <1>2. CASE End(r, "returned") \/ End(r, "failed")
    BY <1>1, <1>2, EndIsQuiet DEF Result
  <1>3. CASE /\ entry[r].rounds > 0
             /\ round[r] + 1 < entry[r].rounds
             /\ round' = [round EXCEPT ![r] = @ + 1]
             /\ attempt' = [attempt EXCEPT ![r] = 0]
             /\ answered' = [answered EXCEPT ![r] = FALSE]
             /\ Go(r, "upstream")
             /\ UNCHANGED <<result, entry, sid, final>>
    <2>1. entry[r].rounds \in {0, JsonRetries + 1}
      <3>1. entry[r] \in Kinds
        BY DEF RInv, Shape
      <3> QED BY <3>1, KindsAre
    <2>2. /\ round' \in [Requests -> 0..JsonRetries]
          /\ attempt' \in [Requests -> 0..Retries]
      BY <1>3, <2>1, ConstantsAreOK DEF ConstantsOK, RInv, Shape
    <2>3. Shape' /\ stage'[r] = "upstream" /\ ~answered'[r] /\ Only(r)
      BY <1>3, <2>2 DEF Go, RInv, Shape, Stage, Only
    <2>4. Coherent(r)'
      BY <1>1, <1>3, <2>3 DEF RInv, Coherent
    <2> QED BY <1>1, <1>3, <2>3, <2>4 DEF Quiet, Moves
  <1> QED BY <1>2, <1>3 DEF Parse

LEMMA TakePermitMoves ==
  ASSUME RInv, NEW i \in Items, TakePermit(i)
  PROVE  /\ Moves(i) /\ UNCHANGED <<books, history, batch>>
         /\ stage[i] = "queued" /\ stage'[i] = "new"
         /\ batch.state = "running" /\ permits > 0 /\ permits' = permits - 1
         /\ answered' = answered /\ result' = result
  <1>1. i \in Requests
    BY Ids
  <1>2. /\ stage[i] = "queued" /\ stage' = [stage EXCEPT ![i] = "new"]
        /\ batch.state = "running" /\ permits > 0 /\ permits' = permits - 1
        /\ UNCHANGED <<result, entry, sid, round, attempt, answered, final>>
        /\ UNCHANGED <<books, history, batch>>
    BY DEF TakePermit, Go, reqvars, locals
  <1>3. Shape' /\ stage'[i] = "new" /\ Only(i)
    BY <1>1, <1>2 DEF RInv, Shape, Stage, Only
  <1>4. Coherent(i)'
    BY <1>1, <1>2, <1>3 DEF RInv, Coherent
  <1> QED BY <1>2, <1>3, <1>4 DEF Moves

LEMMA ItemEndsMoves ==
  ASSUME RInv, NEW i \in Items, ItemEnds(i)
  PROVE  /\ Moves(i) /\ UNCHANGED <<books, history>>
         /\ stage[i] = "done" /\ stage'[i] = "reported"
         /\ permits' = permits + 1
         /\ batch' = [batch EXCEPT !.success = IF result[i] = "returned"
                                                 THEN batch.success \cup {i}
                                                 ELSE batch.success]
         /\ answered' = answered /\ result' = result
  <1>1. i \in Requests
    BY Ids
  <1>2. /\ stage[i] = "done" /\ stage' = [stage EXCEPT ![i] = "reported"]
        /\ permits' = permits + 1
        /\ UNCHANGED <<result, entry, sid, round, attempt, answered, final>>
        /\ UNCHANGED <<books, history>>
    BY DEF ItemEnds, Released, Go, reqvars, locals
  <1>3. Shape' /\ stage'[i] = "reported" /\ Only(i)
    BY <1>1, <1>2 DEF RInv, Shape, Stage, Only
  <1>4. Coherent(i)'
    BY <1>1, <1>2, <1>3 DEF RInv, Coherent
  <1> QED BY <1>2, <1>3, <1>4 DEF Moves, ItemEnds, Success

LEMMA CancelBatchMoves ==
  ASSUME RInv, CancelBatch
  PROVE  /\ Shape' /\ \A q \in Requests : Coherent(q)'
         /\ UNCHANGED <<books, history, permits, entry, answered>>
         /\ batch.state = "running" /\ batch' = [batch EXCEPT !.state = "cancelled"]
         /\ \A q \in Requests :
              \/ stage[q] = "queued" /\ stage'[q] = "reported" /\ result'[q] = "cancelled"
              \/ stage[q] # "queued" /\ stage'[q] = stage[q] /\ result'[q] = result[q]
  <1>1. /\ UNCHANGED <<books, history, permits, entry, answered, sid, round, attempt, final>>
        /\ batch.state = "running" /\ batch' = [batch EXCEPT !.state = "cancelled"]
    BY DEF CancelBatch, locals
  <1>2. /\ stage' = [r \in Requests |-> IF stage[r] = "queued" THEN "reported" ELSE stage[r]]
        /\ result' = [r \in Requests |->
                         IF stage[r] = "queued" THEN "cancelled" ELSE result[r]]
    BY DEF CancelBatch
  <1>3. Shape'
    BY <1>1, <1>2 DEF RInv, Shape, Stage, Result
  <1>4. \A q \in Requests :
          \/ stage[q] = "queued" /\ stage'[q] = "reported" /\ result'[q] = "cancelled"
          \/ stage[q] # "queued" /\ stage'[q] = stage[q] /\ result'[q] = result[q]
    BY <1>2
  <1>5. \A q \in Requests : Coherent(q)'
    BY <1>1, <1>4 DEF RInv, Coherent
  <1> QED BY <1>1, <1>3, <1>4, <1>5

-----------------------------------------------------------------------------

(* The kinds of steps there are.                                           *)
Stepped ==
  \/ \E r \in Requests : Quiet(r) \/ Responds(r) \/ RecordUsage(r) \/ RecordSession(r)
  \/ \E r \in Requests, e \in EntryPoints : \E ids \in SUBSET {r, Shared} : EnterBy(r, e, ids)
  \/ \E i \in Items : TakePermit(i) \/ ItemEnds(i)
  \/ \E service \in {"groq", "gemini"}, limit \in {1, Concurrency}, shared \in BOOLEAN :
       BeginBatch(service, limit, shared)
  \/ BatchReturns \/ CancelBatch
  \/ SessionExpires(Shared)
  \/ ExpireOldSessions

LEMMA NextIsStepped ==
  ASSUME RInv, Next
  PROVE  Stepped
  <1>1. ASSUME NEW r \in Requests, Start(r) PROVE Stepped
    <2>1. CASE UsePolicy(r)
      BY <2>1, UsePolicyIsQuiet DEF Stepped
    <2>2. CASE Enter(r)
      <3>1. PICK e \in EntryPoints : EnterBy(r, e, {Shared, r})
        BY <2>2 DEF Enter
      <3>2. {Shared, r} \in SUBSET {r, Shared}
        OBVIOUS
      <3> QED BY <3>1, <3>2 DEF Stepped
    <2> QED BY <1>1, <2>1, <2>2 DEF Start
  <1>2. ASSUME NEW r \in Requests, Answer(r) \/ Cancelled(r) PROVE Stepped
    BY <1>2, AnswersMove, PolicyFailsIsQuiet DEF Stepped
  <1>3. ASSUME NEW r \in Requests, Bookkeeping(r) PROVE Stepped
    BY <1>3, ParseIsQuiet DEF Bookkeeping, Stepped
  <1>4. ASSUME NEW i \in Items, ItemStep(i) PROVE Stepped
    <2>1. CASE TakePermit(i) \/ ItemEnds(i)
      BY <2>1 DEF Stepped
    <2>2. CASE EnterItem(i)
      <3> DEFINE ids == {IF batch.shared THEN Shared ELSE i}
      <3>1. EnterBy(i, ItemEntry, ids)
        BY <2>2 DEF EnterItem
      <3>2. ItemEntry \in EntryPoints
        BY DEF ItemEntry, EntryPoints
      <3>3. i \in Requests /\ ids \in SUBSET {i, Shared}
        BY Ids
      <3> QED BY <3>1, <3>2, <3>3 DEF Stepped
    <2> QED BY <1>4, <2>1, <2>2 DEF ItemStep
  <1>5. CASE \/ \E service \in {"groq", "gemini"}, limit \in {1, Concurrency},
                  shared \in BOOLEAN : BeginBatch(service, limit, shared)
             \/ BatchReturns \/ CancelBatch
             \/ SessionExpires(Shared)
             \/ ExpireOldSessions
    BY <1>5 DEF Stepped
  <1> QED BY <1>1, <1>2, <1>3, <1>4, <1>5 DEF Next

ExpiredSessions == {s \in SessionIds : sessions[s].state = "expired"}

(* One entry of the registry changes.                                      *)
LEMMA SessionChange ==
  ASSUME RInv, NEW s \in SessionIds, NEW x \in SessionRecord,
         sessions' = [sessions EXCEPT ![s] = x]
  PROVE  /\ sessions' \in [SessionIds -> SessionRecord]
         /\ Cardinality(ExpiredSessions) \in Nat
         /\ Cardinality(ExpiredSessions') \in Nat
         /\ (x.state = "expired" <=> sessions[s].state = "expired") =>
              Cardinality(ExpiredSessions') = Cardinality(ExpiredSessions)
         /\ x.state = "expired" =>
              Cardinality(ExpiredSessions') <= Cardinality(ExpiredSessions) + 1
         /\ x.state # "expired" /\ sessions[s].state = "expired" =>
              Cardinality(ExpiredSessions') = Cardinality(ExpiredSessions) - 1
         /\ SessionTotal \in Int
         /\ SessionTotal' = SessionTotal - sessions[s].recorded + x.recorded
  <1> DEFINE A == ExpiredSessions
             B == ExpiredSessions'
             f == Recorded
             g == Recorded'
  <1>1. sessions \in [SessionIds -> SessionRecord] /\ IsFiniteSet(SessionIds)
    BY ConstantsAreOK DEF ConstantsOK, RInv, BooksShape
  <1>2. /\ sessions' \in [SessionIds -> SessionRecord] /\ sessions'[s] = x
        /\ \A q \in SessionIds \ {s} : sessions'[q] = sessions[q]
    BY <1>1
  <1>3. A \in SUBSET SessionIds /\ B \in SUBSET SessionIds /\ A \ {s} = B \ {s}
    BY <1>2 DEF ExpiredSessions
  <1>4. /\ s \in A <=> sessions[s].state = "expired"
        /\ s \in B <=> x.state = "expired"
    BY <1>2 DEF ExpiredSessions
  <1>5. /\ \A q \in SessionIds : f[q] \in Int /\ g[q] \in Int
        /\ \A q \in SessionIds \ {s} : f[q] = g[q]
        /\ f[s] = sessions[s].recorded /\ g[s] = x.recorded
    BY <1>1, <1>2 DEF Recorded, SessionRecord
  <1> HIDE DEF A, B, f, g
  <1>6. /\ Cardinality(A) \in Nat /\ Cardinality(B) \in Nat
        /\ (x.state = "expired" <=> sessions[s].state = "expired") =>
             Cardinality(B) = Cardinality(A)
        /\ x.state = "expired" => Cardinality(B) <= Cardinality(A) + 1
        /\ x.state # "expired" /\ sessions[s].state = "expired" =>
             Cardinality(B) = Cardinality(A) - 1
    BY <1>1, <1>3, <1>4, CountChange
  <1>7. SumFunctionOnSet(f, SessionIds) \in Int
    BY <1>1, <1>5, SumSplit
  <1>8. SumFunctionOnSet(g, SessionIds) =
          SumFunctionOnSet(f, SessionIds) - sessions[s].recorded + x.recorded
    BY <1>1, <1>5, SumChange
  <1> QED BY <1>2, <1>6, <1>7, <1>8 DEF A, B, f, g, SessionTotal

(* The changes of an entry there are.                                      *)
LEMMA SessionRecords ==
  ASSUME RInv, NEW s \in SessionIds
  PROVE  /\ Absent \in SessionRecord /\ Absent.recorded = 0 /\ Absent.state # "expired"
         /\ sessions[s].recorded \in Nat
         /\ LET x == [sessions[s] EXCEPT !.state = "open"]
            IN  /\ x \in SessionRecord /\ x.state = "open"
                /\ x.recorded = sessions[s].recorded
                /\ [sessions EXCEPT ![s].state = "open"] = [sessions EXCEPT ![s] = x]
         /\ LET x == [sessions[s] EXCEPT !.state = "expired"]
            IN  /\ x \in SessionRecord /\ x.state = "expired"
                /\ x.recorded = sessions[s].recorded
                /\ [sessions EXCEPT ![s].state = "expired"] = [sessions EXCEPT ![s] = x]
         /\ LET x == [sessions[s] EXCEPT !.recorded = @ + 1]
            IN  /\ x \in SessionRecord /\ x.state = sessions[s].state
                /\ x.recorded = sessions[s].recorded + 1
                /\ [sessions EXCEPT ![s].recorded = @ + 1] = [sessions EXCEPT ![s] = x]
  <1>1. sessions[s] \in SessionRecord
    BY DEF RInv, BooksShape
  <1> QED BY <1>1 DEF SessionRecord, Absent

-----------------------------------------------------------------------------

LEMMA EnterStep ==
  ASSUME RInv, NEW r \in Requests, NEW e \in EntryPoints, NEW ids \in SUBSET {r, Shared},
         EnterBy(r, e, ids)
  PROVE  RInv'
  <1>1. Moves(r) /\ UNCHANGED <<usage, journal, history, batchvars>>
    BY EnterMoves
  <1>2. sessions' \in [SessionIds -> SessionRecord]
    <2>1. CASE UNCHANGED sessions
      BY <2>1 DEF RInv, BooksShape
    <2>2. ASSUME NEW s \in SessionIds, sessions' = [sessions EXCEPT ![s] = Absent]
          PROVE  sessions' \in [SessionIds -> SessionRecord]
      BY <2>2, SessionChange, SessionRecords
    <2>3. ASSUME NEW s \in SessionIds, sessions' = [sessions EXCEPT ![s].state = "open"]
          PROVE  sessions' \in [SessionIds -> SessionRecord]
      BY <2>3, SessionChange, SessionRecords
    <2> QED BY <2>1, <2>2, <2>3, EnterMoves
  <1>3. BooksShape'
    BY <1>1, <1>2 DEF RInv, BooksShape, history, batchvars
  <1> QED BY <1>1, <1>3, OnlyIsCoherent DEF RInv, Moves

LEMMA RecordUsageStep ==
  ASSUME RInv, NEW r \in Requests, RecordUsage(r)
  PROVE  /\ usage' \in [succeeded : Nat, failed : Nat, tokens : Nat]
         /\ answered[r] => /\ usage'.succeeded = usage.succeeded + 1
                           /\ usage'.failed = usage.failed
         /\ ~answered[r] => /\ usage'.succeeded = usage.succeeded
                            /\ usage'.failed = usage.failed + 1
         /\ answered[r] /\ entry[r].client.tokens => usage'.tokens = usage.tokens + 1
         /\ ~(answered[r] /\ entry[r].client.tokens) => usage'.tokens = usage.tokens
  <1>1. /\ usage \in [succeeded : Nat, failed : Nat, tokens : Nat]
        /\ usage.succeeded \in Nat /\ usage.failed \in Nat /\ usage.tokens \in Nat
    BY DEF RInv, BooksShape
  <1>2. usage' = Booked(r)
    BY RecordUsageMoves
  <1>3. CASE ~answered[r]
    <2>1. usage' = [usage EXCEPT !.failed = @ + 1]
      BY <1>2, <1>3 DEF Booked
    <2> QED BY <1>1, <1>3, <2>1
  <1>4. CASE answered[r] /\ entry[r].client.tokens
    <2>1. usage' = [usage EXCEPT !.succeeded = usage.succeeded + 1,
                                 !.tokens = usage.tokens + 1]
      BY <1>2, <1>4 DEF Booked
    <2>2. usage' = [succeeded |-> usage.succeeded + 1, failed |-> usage.failed,
                    tokens |-> usage.tokens + 1]
      BY <1>1, <2>1
    <2>3. /\ usage' \in [succeeded : Nat, failed : Nat, tokens : Nat]
          /\ usage'.succeeded = usage.succeeded + 1 /\ usage'.failed = usage.failed
          /\ usage'.tokens = usage.tokens + 1
      BY <1>1, <2>2
    <2> QED BY <1>4, <2>3
  <1>5. CASE answered[r] /\ ~entry[r].client.tokens
    <2>1. usage' = [usage EXCEPT !.succeeded = @ + 1]
      BY <1>1, <1>2, <1>5 DEF Booked
    <2> QED BY <1>1, <1>5, <2>1
  <1> QED BY <1>3, <1>4, <1>5

LEMMA RecordSessionStep ==
  ASSUME RInv, NEW r \in Requests, RecordSession(r)
  PROVE  /\ sessions' \in [SessionIds -> SessionRecord]
         /\ SessionTotal \in Int
         /\ SessionTotal' \in Int /\ SessionTotal' <= SessionTotal + 1
         /\ Cardinality(ExpiredSessions') <= Cardinality(ExpiredSessions)
  <1>0. \A s \in SessionIds : sessions[s] \in SessionRecord /\ sessions[s].recorded \in Nat
    BY DEF RInv, BooksShape, SessionRecord
  <1>1. PICK s \in SessionIds :
          \/ /\ sessions[s].state = "open"
             /\ sessions' = [sessions EXCEPT ![s].recorded = @ + 1]
          \/ /\ sessions[s].state = "expired"
             /\ sessions' = [sessions EXCEPT ![s] = Absent]
          \/ sessions' = sessions
    BY RecordSessionMoves
  <1>2. CASE /\ sessions[s].state = "open"
             /\ sessions' = [sessions EXCEPT ![s].recorded = @ + 1]
    <2>1. PICK x \in SessionRecord :
            /\ sessions' = [sessions EXCEPT ![s] = x]
            /\ x.state = "open" /\ x.recorded = sessions[s].recorded + 1
      BY <1>2, SessionRecords
    <2>2. /\ sessions' \in [SessionIds -> SessionRecord]
          /\ SessionTotal \in Int
          /\ SessionTotal' = SessionTotal - sessions[s].recorded + x.recorded
      BY <2>1, SessionChange
    <2>3. /\ Cardinality(ExpiredSessions) \in Nat
          /\ Cardinality(ExpiredSessions') = Cardinality(ExpiredSessions)
      BY <1>2, <2>1, SessionChange
    <2> QED BY <1>0, <2>1, <2>2, <2>3
  <1>3. CASE /\ sessions[s].state = "expired"
             /\ sessions' = [sessions EXCEPT ![s] = Absent]
    <2>1. PICK x \in SessionRecord :
            /\ sessions' = [sessions EXCEPT ![s] = x]
            /\ x.state # "expired" /\ x.recorded = 0
      BY <1>3, SessionRecords
    <2>2. /\ sessions' \in [SessionIds -> SessionRecord]
          /\ SessionTotal \in Int
          /\ SessionTotal' = SessionTotal - sessions[s].recorded + x.recorded
      BY <2>1, SessionChange
    <2>3. /\ Cardinality(ExpiredSessions) \in Nat
          /\ Cardinality(ExpiredSessions') = Cardinality(ExpiredSessions) - 1
      BY <1>3, <2>1, SessionChange
    <2> QED BY <1>0, <2>1, <2>2, <2>3
  <1>4. CASE sessions' = sessions
    <2>1. sessions' = [sessions EXCEPT ![s] = sessions[s]] /\ sessions[s] \in SessionRecord
      BY <1>4 DEF RInv, BooksShape
    <2>2. /\ sessions' \in [SessionIds -> SessionRecord]
          /\ SessionTotal \in Int
          /\ SessionTotal' = SessionTotal - sessions[s].recorded + sessions[s].recorded
      BY <1>0, <2>1, SessionChange
    <2>3. /\ Cardinality(ExpiredSessions) \in Nat
          /\ Cardinality(ExpiredSessions') = Cardinality(ExpiredSessions)
      BY <1>0, <2>1, SessionChange
    <2> QED BY <1>0, <2>2, <2>3
  <1> QED BY <1>1, <1>2, <1>3, <1>4

LEMMA ExpiryStep ==
  ASSUME RInv, SessionExpires(Shared) \/ ExpireOldSessions
  PROVE  /\ sessions' \in [SessionIds -> SessionRecord]
         /\ UNCHANGED <<stage, reqvars, usage, journal, received, batchvars>>
         /\ lapsed' \in Nat
         /\ SessionTotal \in Int
         /\ SessionTotal' \in Int /\ SessionTotal' <= SessionTotal
         /\ Cardinality(ExpiredSessions) \in Nat /\ Cardinality(ExpiredSessions') \in Nat
         /\ Cardinality(ExpiredSessions') - lapsed' <= Cardinality(ExpiredSessions) - lapsed
  <1>1. lapsed \in Nat /\ sessions \in [SessionIds -> SessionRecord] /\ IsFiniteSet(SessionIds)
    BY ConstantsAreOK DEF ConstantsOK, RInv, BooksShape
  <1>2. CASE SessionExpires(Shared)
    <2>1. /\ sessions[Shared].state = "open" /\ lapsed' = lapsed + 1
          /\ sessions' = [sessions EXCEPT ![Shared].state = "expired"]
          /\ UNCHANGED <<stage, reqvars, usage, journal, received, batchvars>>
      BY <1>2 DEF SessionExpires
    <2>2. Shared \in SessionIds
      BY Ids
    <2>3. PICK x \in SessionRecord :
            /\ sessions' = [sessions EXCEPT ![Shared] = x]
            /\ x.state = "expired" /\ x.recorded = sessions[Shared].recorded
      BY <2>1, <2>2, SessionRecords
    <2>4. sessions[Shared].recorded \in Nat
      BY <2>2, SessionRecords
    <2>5. /\ sessions' \in [SessionIds -> SessionRecord]
          /\ SessionTotal \in Int
          /\ SessionTotal' = SessionTotal - sessions[Shared].recorded + x.recorded
      BY <2>2, <2>3, SessionChange
    <2>6. /\ Cardinality(ExpiredSessions) \in Nat /\ Cardinality(ExpiredSessions') \in Nat
          /\ Cardinality(ExpiredSessions') <= Cardinality(ExpiredSessions) + 1
      BY <2>2, <2>3, SessionChange
    <2> QED BY <1>1, <2>1, <2>3, <2>4, <2>5, <2>6
  <1>3. CASE ExpireOldSessions
    <2> DEFINE A == ExpiredSessions
               B == ExpiredSessions'
               f == Recorded
               g == Recorded'
    <2>1. /\ sessions' = [s \in SessionIds |->
                            IF sessions[s].state = "expired" THEN Absent ELSE sessions[s]]
          /\ UNCHANGED <<stage, reqvars, usage, journal, lapsed, received, batchvars>>
      BY <1>3 DEF ExpireOldSessions, history
    <2>2. sessions' \in [SessionIds -> SessionRecord]
      BY <1>1, <2>1 DEF SessionRecord, Absent
    <2>3. A \in SUBSET SessionIds /\ B \in SUBSET A
      BY <2>1 DEF ExpiredSessions, Absent
    <2>4. \A s \in SessionIds : g[s] \in Int /\ f[s] \in Int /\ g[s] <= f[s]
      BY <1>1, <2>1 DEF Recorded, SessionRecord, Absent
    <2> HIDE DEF A, B, f, g
    <2>5. IsFiniteSet(A) /\ IsFiniteSet(B) /\ Cardinality(B) <= Cardinality(A)
      BY <1>1, <2>3, FS_Subset
    <2>6. Cardinality(A) \in Nat /\ Cardinality(B) \in Nat
      BY <2>5, FS_CardinalityType
    <2>7. SumFunctionOnSet(g, SessionIds) <= SumFunctionOnSet(f, SessionIds)
      BY <1>1, <2>4, SumMonotone
    <2>8. SumFunctionOnSet(f, SessionIds) \in Int /\ SumFunctionOnSet(g, SessionIds) \in Int
      BY <1>1, <2>4, SumSplit
    <2> QED BY <1>1, <2>1, <2>2, <2>5, <2>6, <2>7, <2>8 DEF A, B, f, g, SessionTotal
  <1> QED BY <1>2, <1>3

LEMMA RInvStep ==
  ASSUME RInv, Next
  PROVE  RInv'
  <1> USE DEF RInv
  <1>1. ASSUME NEW r \in Requests, Moves(r), BooksShape' PROVE RInv'
    BY <1>1, OnlyIsCoherent DEF Moves
  <1>2. ASSUME NEW r \in Requests, Quiet(r) PROVE RInv'
    BY <1>1, <1>2 DEF Quiet, BooksShape, books, history, batchvars
  <1>3. ASSUME NEW r \in Requests, Responds(r) PROVE RInv'
    <2>1. Moves(r) /\ UNCHANGED <<books, lapsed, batchvars>>
      BY <1>3, RespondsMoves
    <2>2. received' \in [responses : Nat, tokens : Nat]
      BY <1>3 DEF Responds, BooksShape
    <2> QED BY <1>1, <2>1, <2>2 DEF BooksShape, books, batchvars
  <1>4. ASSUME NEW r \in Requests, RecordUsage(r) PROVE RInv'
    BY <1>1, <1>4, RecordUsageMoves, RecordUsageStep DEF BooksShape, history, batchvars
  <1>5. ASSUME NEW r \in Requests, RecordSession(r) PROVE RInv'
    BY <1>1, <1>5, RecordSessionMoves, RecordSessionStep DEF BooksShape, history, batchvars
  <1>6. ASSUME NEW i \in Items, TakePermit(i) \/ ItemEnds(i) PROVE RInv'
    <2>1. i \in Requests
      BY Ids
    <2>2. CASE TakePermit(i)
      BY <1>1, <2>1, <2>2, TakePermitMoves DEF BooksShape, books, history
    <2>3. CASE ItemEnds(i)
      <3>1. batch' \in BatchRecord
        BY <2>3, ItemEndsMoves DEF BooksShape, BatchRecord
      <3> QED BY <1>1, <2>1, <2>3, <3>1, ItemEndsMoves DEF BooksShape, books, history
    <2> QED BY <1>6, <2>2, <2>3
  <1>7. ASSUME NEW service \in {"groq", "gemini"}, NEW limit \in {1, Concurrency},
               NEW shared \in BOOLEAN, BeginBatch(service, limit, shared)
        PROVE  RInv'
    <2>1. UNCHANGED <<stage, reqvars, books, history>>
      BY <1>7 DEF BeginBatch
    <2>2. limit \in 0..Concurrency /\ permits' \in Nat
      BY <1>7, ConstantsAreOK DEF BeginBatch, ConstantsOK
    <2>3. batch' = [state |-> "running", service |-> service, shared |-> shared,
                    limit |-> limit, success |-> {}, succeeded |-> 0, failed |-> 0]
      BY <1>7 DEF BeginBatch, NoBatch
    <2>4. batch' \in BatchRecord
      BY <2>2, <2>3 DEF BatchRecord
    <2> QED BY <2>1, <2>2, <2>4 DEF reqvars, locals, books, history, BooksShape, Shape,
                                     Coherent
  <1>8. CASE BatchReturns
    <2>1. UNCHANGED <<stage, reqvars, books, history, permits>>
      BY <1>8 DEF BatchReturns
    <2>2. Cardinality(batch.success) \in Nat
      <3>1. IsFiniteSet(Items) /\ batch.success \in SUBSET Items
        BY ConstantsAreOK DEF ConstantsOK, BooksShape, BatchRecord
      <3> QED BY <3>1, FS_Subset, FS_CardinalityType
    <2>3. batch' \in BatchRecord
      <3>1. BatchSize - Cardinality(batch.success) \in Int
        BY <2>2, ConstantsAreOK DEF ConstantsOK
      <3> QED BY <1>8, <2>2, <3>1 DEF BatchReturns, BooksShape, BatchRecord
    <2> QED BY <2>1, <2>3 DEF reqvars, locals, books, history, BooksShape, Shape, Coherent
  <1>9. CASE CancelBatch
    <2>1. /\ Shape' /\ \A q \in Requests : Coherent(q)'
          /\ UNCHANGED <<books, history, permits>>
          /\ batch' = [batch EXCEPT !.state = "cancelled"]
      BY <1>9, CancelBatchMoves
    <2>2. batch' \in BatchRecord
      BY <2>1 DEF BooksShape, BatchRecord
    <2> QED BY <2>1, <2>2 DEF books, history, BooksShape
  <1>10. CASE SessionExpires(Shared) \/ ExpireOldSessions
    <2>1. /\ sessions' \in [SessionIds -> SessionRecord] /\ lapsed' \in Nat
          /\ UNCHANGED <<stage, reqvars, usage, journal, received, batchvars>>
      BY <1>10, ExpiryStep
    <2> QED BY <2>1 DEF reqvars, locals, batchvars, BooksShape, Shape, Coherent
  <1> QED BY <1>2, <1>3, <1>4, <1>5, <1>6, <1>7, <1>8, <1>9, <1>10, EnterStep, NextIsStepped
          DEF Stepped

LEMMA RInvStutters ==
  ASSUME RInv, UNCHANGED vars
  PROVE  RInv'
  BY DEF RInv, Shape, BooksShape, Coherent, vars, reqvars, locals, books, history, batchvars

LEMMA RInvHolds == Spec => []RInv
  <1>1. RInv /\ [Next]_vars => RInv'
    BY RInvStep, RInvStutters
  <1> QED BY <1>1, InitRInv, PTL DEF Spec

-----------------------------------------------------------------------------

(* No error that says that trying again is pointless is followed by        *)
(* another attempt, whatever the SDKs raise and whichever service or retry *)
(* policy is asked: such an error never leaves the loop going.             *)
THEOREM FinalErrorsEndHere == Spec => []FinalErrorsEnd
  <1>1. RInv => FinalErrorsEnd
    BY DEF RInv, Coherent, FinalErrorsEnd
  <1> QED BY <1>1, RInvHolds, PTL

-----------------------------------------------------------------------------

(* The items that are flagged as successes.                                *)
Flagged == {i \in Items : stage[i] = "reported" /\ result[i] = "returned"}

Summed ==
  /\ batch.succeeded = Cardinality(batch.success)
  /\ batch.failed = Cardinality(Items \ batch.success)

(* Of the items of a batch that was never sent all are queued; of one that *)
(* returned all are reported.                                              *)
BatchInv ==
  /\ PermitsAccounted
  /\ batch.success = Flagged
  /\ batch.state = "none" => \A i \in Items : stage[i] = "queued"
  /\ batch.state = "done" => (\A i \in Items : stage[i] = "reported") /\ Summed

LEMMA HoldersMove ==
  ASSUME RInv, NEW r \in Requests, Only(r)
  PROVE  /\ Cardinality(Holders) \in Nat /\ Cardinality(Holders') \in Nat
         /\ \/ r \notin Items
            \/ stage[r] \notin {"queued", "reported"} /\ stage'[r] \notin {"queued", "reported"}
            => Cardinality(Holders') = Cardinality(Holders)
         /\ r \in Items /\ stage[r] = "queued" /\ stage'[r] \notin {"queued", "reported"} =>
              Cardinality(Holders') = Cardinality(Holders) + 1
         /\ r \in Items /\ stage[r] \notin {"queued", "reported"} /\ stage'[r] = "reported" =>
              Cardinality(Holders') = Cardinality(Holders) - 1
  <1> DEFINE A == Holders
             B == Holders'
  <1>1. IsFiniteSet(Items) /\ A \in SUBSET Items /\ B \in SUBSET Items
    BY ConstantsAreOK DEF ConstantsOK, Holders
  <1>2. A \ {r} = B \ {r}
    BY Ids DEF Holders, Only
  <1>3. /\ r \in A <=> r \in Items /\ stage[r] \notin {"queued", "reported"}
        /\ r \in B <=> r \in Items /\ stage'[r] \notin {"queued", "reported"}
    BY DEF Holders
  <1> HIDE DEF A, B
  <1> QED BY <1>1, <1>2, <1>3, CountChange DEF A, B

LEMMA InitBatchInv == Init => BatchInv
  <1> SUFFICES ASSUME Init PROVE BatchInv
    OBVIOUS
  <1>1. \A i \in Items : stage[i] = "queued"
    BY Ids DEF Init
  <1>2. Cardinality(Holders) = 0
    <2>1. Holders = {}
      BY <1>1 DEF Holders
    <2> QED BY <2>1, FS_EmptySet
  <1>3. batch.state = "none" /\ batch.limit = 0 /\ permits = 0 /\ batch.success = {}
    BY DEF Init, NoBatch
  <1>4. Flagged = {}
    BY <1>1 DEF Flagged
  <1> QED BY <1>1, <1>2, <1>3, <1>4 DEF BatchInv, PermitsAccounted

(* Once it is reported, an item is not touched again.                      *)
LEMMA MovesKeepTheBatch ==
  ASSUME RInv, BatchInv, NEW r \in Requests, Moves(r), UNCHANGED batchvars,
         stage[r] \notin {"queued", "reported"}, stage'[r] \notin {"queued", "reported"}
  PROVE  BatchInv'
  <1>1. UNCHANGED <<batch, permits>>
    BY DEF batchvars
  <1>2. PermitsAccounted'
    <2>1. Cardinality(Holders') = Cardinality(Holders)
      BY HoldersMove DEF Moves
    <2> QED BY <1>1, <2>1 DEF BatchInv, PermitsAccounted
  <1>3. Flagged' = Flagged
    <2>1. \A i \in Items \ {r} : stage'[i] = stage[i] /\ result'[i] = result[i]
      BY Ids DEF Moves, Only
    <2> QED BY <2>1 DEF Flagged
  <1>4. batch.state \in {"none", "done"} => \A i \in Items : stage'[i] = stage[i]
    <2>1. batch.state \in {"none", "done"} => r \notin Items
      BY DEF BatchInv
    <2> QED BY <2>1, Ids DEF Moves, Only
  <1> QED BY <1>1, <1>2, <1>3, <1>4 DEF BatchInv, Summed

LEMMA ItemsTakeAndReturn ==
  ASSUME RInv, BatchInv, NEW i \in Items, TakePermit(i) \/ ItemEnds(i)
  PROVE  BatchInv'
  <1>1. i \in Requests
    BY Ids
  <1>2. /\ batch.state \notin {"none", "done"}
        /\ batch'.state = batch.state /\ batch'.limit = batch.limit
    BY TakePermitMoves, ItemEndsMoves DEF BatchInv, RInv, BooksShape, BatchRecord
  <1>3. PermitsAccounted'
    <2>1. permits \in Nat
      BY DEF RInv, BooksShape
    <2>2. CASE TakePermit(i)
      <3>1. /\ Moves(i) /\ permits' = permits - 1
            /\ stage[i] = "queued" /\ stage'[i] = "new"
        BY <2>2, TakePermitMoves
      <3>2. Cardinality(Holders') = Cardinality(Holders) + 1 /\ Cardinality(Holders) \in Nat
        BY <1>1, <3>1, HoldersMove DEF Moves
      <3> QED BY <1>2, <2>1, <3>1, <3>2 DEF BatchInv, PermitsAccounted
    <2>3. CASE ItemEnds(i)
      <3>1. /\ Moves(i) /\ permits' = permits + 1
            /\ stage[i] = "done" /\ stage'[i] = "reported"
        BY <2>3, ItemEndsMoves
      <3>2. Cardinality(Holders') = Cardinality(Holders) - 1 /\ Cardinality(Holders) \in Nat
        BY <1>1, <3>1, HoldersMove DEF Moves
      <3> QED BY <1>2, <2>1, <3>1, <3>2 DEF BatchInv, PermitsAccounted
    <2> QED BY <2>2, <2>3
  <1>4. batch'.success = Flagged'
    <2>1. /\ result' = result
          /\ \A j \in Items \ {i} : stage'[j] = stage[j]
      BY <1>1, TakePermitMoves, ItemEndsMoves, Ids DEF Moves, Only
    <2>2. CASE TakePermit(i)
      <3>1. batch' = batch /\ stage[i] = "queued" /\ stage'[i] = "new"
        BY <2>2, TakePermitMoves
      <3> QED BY <2>1, <3>1 DEF BatchInv, Flagged
    <2>3. CASE ItemEnds(i)
      <3>1. /\ stage[i] = "done" /\ stage'[i] = "reported"
            /\ batch'.success = IF result[i] = "returned" THEN batch.success \cup {i}
                                                           ELSE batch.success
        BY <2>3, ItemEndsMoves DEF RInv, BooksShape, BatchRecord
      <3> QED BY <2>1, <3>1 DEF BatchInv, Flagged
    <2> QED BY <2>2, <2>3
  <1> QED BY <1>2, <1>3, <1>4 DEF BatchInv

LEMMA BatchBegins ==
  ASSUME RInv, BatchInv, NEW service, NEW limit \in {1, Concurrency}, NEW shared,
         BeginBatch(service, limit, shared)
  PROVE  BatchInv'
  <1>1. /\ batch.state = "none" /\ permits' = limit /\ stage' = stage
        /\ batch'.limit = limit /\ batch'.state = "running" /\ batch'.success = {}
    BY DEF BeginBatch, NoBatch
  <1>2. Holders' = {}
    BY <1>1 DEF BatchInv, Holders
  <1>3. Cardinality(Holders') = 0 /\ limit \in Nat
    BY <1>2, FS_EmptySet, ConstantsAreOK DEF ConstantsOK
  <1>4. Flagged' = {}
    BY <1>1 DEF BatchInv, Flagged
  <1> QED BY <1>1, <1>3, <1>4 DEF BatchInv, PermitsAccounted

(* The items that are not flagged are the others.                          *)
LEMMA BatchIsDone ==
  ASSUME RInv, BatchInv, BatchReturns
  PROVE  BatchInv'
  <1> DEFINE n == Cardinality(batch.success)
             m == BatchSize - Cardinality(batch.success)
  <1>1. /\ \A i \in Items : stage[i] = "reported"
        /\ stage' = stage /\ result' = result /\ permits' = permits
        /\ batch' = [batch EXCEPT !.state = "done", !.succeeded = n, !.failed = m]
    BY DEF BatchReturns, reqvars
  <1>2. IsFiniteSet(Items) /\ Cardinality(Items) = BatchSize /\ BatchSize \in Nat
    BY RequestsAssumption, FS_Interval DEF Items
  <1>3. batch \in BatchRecord /\ batch.success \in SUBSET Items
    BY DEF RInv, BooksShape, BatchRecord
  <1>4. Cardinality(Items \ batch.success) = m
    <2>1. IsFiniteSet(batch.success) /\ Items \cap batch.success = batch.success
      BY <1>2, <1>3, FS_Subset
    <2>2. Cardinality(Items \ batch.success)
            = Cardinality(Items) - Cardinality(Items \cap batch.success)
      BY <1>2, <2>1, FS_Difference
    <2> QED BY <1>2, <2>1, <2>2
  <1> HIDE DEF n, m
  <1>5. /\ batch'.state = "done" /\ batch'.limit = batch.limit
        /\ batch'.success = batch.success /\ batch'.succeeded = n /\ batch'.failed = m
    BY <1>1, <1>3 DEF BatchRecord
  <1>6. Holders' = Holders /\ Flagged' = Flagged
    BY <1>1 DEF Holders, Flagged
  <1>7. Summed'
    BY <1>4, <1>5 DEF Summed, n
  <1> QED BY <1>1, <1>5, <1>6, <1>7 DEF BatchInv, PermitsAccounted

LEMMA BatchInvStep ==
  ASSUME RInv, BatchInv, Next
  PROVE  BatchInv'
  <1>1. ASSUME NEW r \in Requests, Quiet(r) PROVE BatchInv'
    BY <1>1, MovesKeepTheBatch DEF Quiet
  <1>2. ASSUME NEW r \in Requests, Responds(r) PROVE BatchInv'
    BY <1>2, RespondsMoves, MovesKeepTheBatch
  <1>3. ASSUME NEW r \in Requests, RecordUsage(r) PROVE BatchInv'
    BY <1>3, RecordUsageMoves, MovesKeepTheBatch
  <1>4. ASSUME NEW r \in Requests, RecordSession(r) PROVE BatchInv'
    BY <1>4, RecordSessionMoves, MovesKeepTheBatch
  <1>5. ASSUME NEW r \in Requests, NEW e \in EntryPoints, NEW ids \in SUBSET {r, Shared},
               EnterBy(r, e, ids)
        PROVE  BatchInv'
    <2>1. /\ Moves(r) /\ UNCHANGED batchvars /\ stage[r] = "new"
          /\ stage'[r] \in {"done", "upstream"}
      BY <1>5, EnterMoves
    <2> QED BY <2>1, MovesKeepTheBatch
  <1>6. CASE CancelBatch
    <2>1. /\ permits' = permits /\ batch.state = "running"
          /\ batch' = [batch EXCEPT !.state = "cancelled"]
          /\ \A q \in Requests :
               \/ stage[q] = "queued" /\ stage'[q] = "reported" /\ result'[q] = "cancelled"
               \/ stage[q] # "queued" /\ stage'[q] = stage[q] /\ result'[q] = result[q]
      BY <1>6, CancelBatchMoves
    <2>2. Holders' = Holders /\ Flagged' = Flagged
      BY <2>1, Ids DEF Holders, Flagged
    <2>3. /\ batch'.state = "cancelled" /\ batch'.limit = batch.limit
          /\ batch'.success = batch.success
      BY <2>1 DEF RInv, BooksShape, BatchRecord
    <2> QED BY <2>1, <2>2, <2>3 DEF BatchInv, PermitsAccounted
  <1>7. CASE SessionExpires(Shared) \/ ExpireOldSessions
    <2>1. UNCHANGED <<stage, reqvars, batchvars>>
      BY <1>7, ExpiryStep
    <2> QED BY <2>1 DEF reqvars, batchvars, BatchInv, PermitsAccounted, Summed, Flagged,
                          Holders
  <1> QED BY <1>1, <1>2, <1>3, <1>4, <1>5, <1>6, <1>7, ItemsTakeAndReturn, BatchBegins,
             BatchIsDone, NextIsStepped
          DEF Stepped

LEMMA BatchInvHolds == Spec => []BatchInv
  <1>1. BatchInv /\ UNCHANGED vars => BatchInv'
    BY DEF BatchInv, PermitsAccounted, Summed, Flagged, Holders, vars, reqvars, batchvars
  <1>2. RInv /\ BatchInv /\ [Next]_vars => BatchInv'
    BY <1>1, BatchInvStep
  <1> QED BY <1>2, RInvHolds, InitBatchInv, PTL DEF Spec

(* Every permit of a batch's semaphore is free or with an item that is     *)
(* under way, for any number of prompts and permits, errors, cancellations *)
(* and expired sessions notwithstanding.                                   *)
THEOREM PermitsAreAccounted == Spec => []PermitsAccounted
  <1>1. BatchInv => PermitsAccounted
    BY DEF BatchInv
  <1> QED BY <1>1, BatchInvHolds, PTL

-----------------------------------------------------------------------------

(* An item's answer is on its way to it, or has reached it: no structured  *)
(* output is asked of an item, so an answer cannot be refused any more.    *)
HeardBy(i) ==
  /\ entry[i].rounds = 0 /\ stage[i] # "policy"
  /\ stage[i] = "parse" => answered[i]
  /\ i \in heard <=> answered[i] \/ result[i] = "returned"

HeardInv == heard \subseteq Items /\ \A i \in Items : HeardBy(i)

LEMMA NoRounds ==
  NoEntry.rounds = 0 /\ Underway(GroqInvoke).rounds = 0 /\ Underway(GeminiInvoke).rounds = 0
  BY DEF NoEntry, Underway, GroqInvoke, GeminiInvoke, Entry

LEMMA InitHeardInv == Init => HeardInv
  <1> SUFFICES ASSUME Init PROVE HeardInv
    OBVIOUS
  <1>1. heard = {}
    BY DEF Init
  <1>2. ASSUME NEW i \in Items PROVE HeardBy(i)
    BY <1>1, NoRounds, Ids DEF Init, HeardBy
  <1> QED BY <1>1, <1>2 DEF HeardInv

Untouched(r) ==
  \A q \in Requests \ {r} :
    /\ stage'[q] = stage[q] /\ entry'[q] = entry[q]
    /\ answered'[q] = answered[q] /\ result'[q] = result[q]

(* What a request does that is no item tells the items nothing.            *)
LEMMA OthersHear ==
  ASSUME HeardInv, NEW r \in Requests, Untouched(r), heard' = heard,
         r \in Items => HeardBy(r)'
  PROVE  HeardInv'
  BY Ids DEF HeardInv, HeardBy, Untouched

LEMMA OverIsHeard ==
  ASSUME RInv, HeardInv, NEW r \in Requests, NEW res \in Result \ {"none"},
         Over(r, res), heard' = heard, stage[r] \notin {"done", "reported"},
         res = "returned" <=> answered[r]
  PROVE  HeardInv'
  <1>1. /\ stage'[r] = "done" /\ result'[r] = res /\ answered'[r] = FALSE
        /\ entry'[r] = NoEntry
    BY DEF RInv, Shape, Over, Go
  <1>2. Untouched(r)
    BY DEF RInv, Shape, Over, Go, Untouched
  <1>3. ASSUME r \in Items PROVE HeardBy(r)'
    <2>1. r \in heard <=> answered[r] \/ result[r] = "returned"
      BY <1>3 DEF HeardInv, HeardBy
    <2>2. result[r] = "none"
      BY DEF RInv, Coherent
    <2> QED BY <1>1, <2>1, <2>2, NoRounds DEF HeardBy
  <1> QED BY <1>2, <1>3, OthersHear

(* The request goes on where no item waits for its answer to be parsed.    *)
LEMMA GoIsHeard ==
  ASSUME RInv, HeardInv, NEW r \in Requests, NEW s \in Stage \ {"policy"}, Go(r, s),
         UNCHANGED <<answered, result, heard>>, s = "parse" => answered[r],
         r \in Items => entry'[r].rounds = 0,
         \A q \in Requests \ {r} : entry'[q] = entry[q]
  PROVE  HeardInv'
  <1>1. stage'[r] = s /\ \A q \in Requests \ {r} : stage'[q] = stage[q]
    BY DEF RInv, Shape, Go
  <1>2. Untouched(r)
    BY <1>1 DEF Untouched
  <1>3. r \in Items => HeardBy(r)'
    BY <1>1 DEF HeardInv, HeardBy
  <1> QED BY <1>2, <1>3, OthersHear

LEMMA AnswersAreHeard ==
  ASSUME RInv, HeardInv, NEW r \in Requests, Answer(r) \/ Cancelled(r)
  PROVE  HeardInv'
  <1>a. {"failed", "cancelled"} \subseteq Result \ {"none"} /\ "usage" \in Stage \ {"policy"}
    BY DEF Result, Stage
  <1>1. CASE Responds(r)
    <2>1. /\ stage' = [stage EXCEPT ![r] = "usage"]
          /\ answered' = [answered EXCEPT ![r] = TRUE]
          /\ heard' = heard \cup ({r} \cap Items)
          /\ UNCHANGED <<entry, result>>
      BY <1>1 DEF Responds, Go
    <2>2. ASSUME NEW i \in Items \ {r} PROVE HeardBy(i)'
      BY <2>1 DEF HeardInv, HeardBy
    <2>3. ASSUME r \in Items PROVE HeardBy(r)'
      BY <2>1, <2>3 DEF HeardInv, HeardBy, RInv, Shape
    <2>4. heard' \subseteq Items
      BY <2>1 DEF HeardInv
    <2> QED BY <2>2, <2>3, <2>4 DEF HeardInv
  <1>2. ASSUME NEW e \in SdkErrors(entry[r].service) \cup {Malformed}, Raises(r, e)
        PROVE  HeardInv'
    <2>1. stage[r] = "upstream" /\ ~answered[r] /\ heard' = heard
      BY <1>2 DEF Raises, RInv, Coherent, history
    <2>2. CASE Over(r, "failed")
      BY <1>a, <2>1, <2>2, OverIsHeard
    <2>3. CASE /\ Go(r, "usage") \/ UNCHANGED stage
               /\ UNCHANGED <<result, entry, answered>>
      <3>1. CASE Go(r, "usage")
        BY <1>a, <2>1, <2>3, <3>1, GoIsHeard DEF HeardInv, HeardBy
      <3>2. CASE UNCHANGED stage
        BY <2>1, <2>3, <3>2 DEF HeardInv, HeardBy
      <3> QED BY <2>3, <3>1, <3>2
    <2> QED BY <1>2, <2>2, <2>3 DEF Raises, RetryOrGiveUp
  <1>3. CASE NoKey(r) \/ Cancelled(r)
    <2>1. stage[r] = "upstream" /\ ~answered[r] /\ heard' = heard
      BY <1>3 DEF NoKey, Cancelled, RInv, Coherent, history
    <2>2. Over(r, "failed") \/ Over(r, "cancelled")
      BY <1>3 DEF NoKey, Cancelled, End
    <2> QED BY <1>a, <2>1, <2>2, OverIsHeard
  <1>4. CASE PolicyReturns(r) \/ PolicyFails(r)
    <2>1. stage[r] = "policy"
      BY <1>4 DEF PolicyReturns, PolicyFails
    <2>2. r \notin Items
      BY <2>1 DEF HeardInv, HeardBy
    <2>3. ~Responds(r)
      BY <2>1 DEF Responds
    <2>4. Quiet(r)
      BY <1>4, <2>3, AnswersMove, PolicyFailsIsQuiet DEF Answer
    <2> QED BY <2>2, <2>4, OthersHear DEF Quiet, Moves, Only, Untouched, history
  <1>5. CASE Fails(r)
    <2>1. \E e \in SdkErrors(entry[r].service) \cup {Malformed} : Raises(r, e)
      BY <1>5 DEF Fails
    <2> QED BY <1>2, <2>1
  <1> QED BY <1>1, <1>3, <1>4, <1>5 DEF Answer

LEMMA BookkeepingIsHeard ==
  ASSUME RInv, HeardInv, NEW r \in Requests, Bookkeeping(r)
  PROVE  HeardInv'
  <1>a. /\ {"failed", "returned"} \subseteq Result \ {"none"}
        /\ {"session", "parse", "upstream"} \subseteq Stage \ {"policy"}
    BY DEF Result, Stage
  <1>b. heard' = heard
    BY DEF Bookkeeping, RecordUsage, RecordSession, Parse, history
  <1>1. CASE RecordUsage(r)
    BY <1>a, <1>b, <1>1, GoIsHeard DEF RecordUsage, reqvars, locals, HeardInv, HeardBy
  <1>2. CASE RecordSession(r) /\ answered[r]
    BY <1>a, <1>b, <1>2, GoIsHeard DEF RecordSession, locals, HeardInv, HeardBy
  <1>3. CASE RecordSession(r) /\ ~answered[r]
    <2>1. Over(r, "failed") /\ stage[r] = "session"
      BY <1>3 DEF RecordSession, End
    <2> QED BY <1>a, <1>b, <1>3, <2>1, OverIsHeard
  <1>4. CASE Parse(r) /\ r \in Items
    <2>1. /\ stage[r] = "parse" /\ answered[r] /\ entry[r].rounds = 0
      BY <1>4 DEF Parse, HeardInv, HeardBy
    <2>2. Over(r, "returned")
      BY <1>4, <2>1 DEF Parse, End
    <2> QED BY <1>a, <1>b, <2>1, <2>2, OverIsHeard
  <1>5. CASE Parse(r) /\ r \notin Items
    <2>1. Quiet(r)
      BY <1>5, ParseIsQuiet
    <2> QED BY <1>b, <1>5, <2>1, OthersHear DEF Quiet, Moves, Only, Untouched
  <1> QED BY <1>1, <1>2, <1>3, <1>4, <1>5 DEF Bookkeeping

LEMMA ItemsAreHeard ==
  ASSUME RInv, HeardInv, NEW i \in Items, ItemStep(i)
  PROVE  HeardInv'
  <1>a. i \in Requests /\ {"new", "reported", "upstream"} \subseteq Stage \ {"policy"}
    BY Ids DEF Stage
  <1>1. CASE TakePermit(i) \/ ItemEnds(i)
    BY <1>a, <1>1, GoIsHeard DEF TakePermit, ItemEnds, reqvars, locals, history,
                                HeardInv, HeardBy
  <1>2. CASE EnterItem(i)
    <2> DEFINE e == ItemEntry
    <2>1. Underway(e).rounds = 0
      BY NoRounds DEF ItemEntry
    <2> HIDE DEF e
    <2>a. stage[i] = "new" /\ heard' = heard
      BY <1>2 DEF EnterItem, EnterBy, Reject, Resolve, history
    <2>2. stage[i] = "new" /\ ~answered[i] /\ heard' = heard
      BY <1>a, <2>a DEF RInv, Coherent
    <2>3. \/ Over(i, "failed") \/ Over(i, "expired")
          \/ \E s \in {Shared, i} : Send(i, e, s)
      BY <1>2 DEF EnterItem, EnterBy, Reject, Resolve, End, e
    <2>4. CASE Over(i, "failed") \/ Over(i, "expired")
      <3>1. {"failed", "expired"} \subseteq Result \ {"none"}
        BY DEF Result
      <3> QED BY <1>a, <2>2, <2>4, <3>1, OverIsHeard
    <2>5. ASSUME NEW s, Send(i, e, s) PROVE HeardInv'
      <3>1. /\ Go(i, "upstream") /\ UNCHANGED <<result, answered>>
            /\ entry'[i] = Underway(e)
            /\ \A q \in Requests \ {i} : entry'[q] = entry[q]
        BY <1>a, <2>5 DEF Send, RInv, Shape
      <3> QED BY <1>a, <2>1, <2>2, <3>1, GoIsHeard
    <2> QED BY <2>3, <2>4, <2>5
  <1> QED BY <1>1, <1>2 DEF ItemStep

LEMMA HeardStep ==
  ASSUME RInv, HeardInv, Next
  PROVE  HeardInv'
  <1>1. ASSUME NEW r \in Requests, Start(r) PROVE HeardInv'
    <2>1. r \in Callers /\ r \notin Items
      BY <1>1, Ids DEF Start, Enter, UsePolicy
    <2>2. CASE Enter(r)
      <3>1. PICK e \in EntryPoints : EnterBy(r, e, {Shared, r})
        BY <2>2 DEF Enter
      <3>2. {Shared, r} \in SUBSET {r, Shared}
        OBVIOUS
      <3>3. Moves(r) /\ UNCHANGED history
        BY <3>1, <3>2, EnterMoves
      <3> QED BY <2>1, <3>3, OthersHear DEF Moves, Only, Untouched, history
    <2>3. CASE UsePolicy(r)
      <3>1. Quiet(r)
        BY <2>3, UsePolicyIsQuiet
      <3> QED BY <2>1, <3>1, OthersHear DEF Quiet, Moves, Only, Untouched, history
    <2> QED BY <1>1, <2>2, <2>3 DEF Start
  <1>2. CASE CancelBatch
    <2>1. /\ UNCHANGED <<history, entry, answered>>
          /\ \A q \in Requests :
               \/ stage[q] = "queued" /\ stage'[q] = "reported" /\ result'[q] = "cancelled"
               \/ stage[q] # "queued" /\ stage'[q] = stage[q] /\ result'[q] = result[q]
      BY <1>2, CancelBatchMoves
    <2>2. ASSUME NEW i \in Items PROVE HeardBy(i)'
      <3>1. i \in Requests /\ (stage[i] = "queued" => result[i] = "none")
        BY Ids DEF RInv, Coherent
      <3> QED BY <2>1, <3>1 DEF HeardInv, HeardBy, history
    <2> QED BY <2>1, <2>2 DEF HeardInv, history
  <1>3. CASE \/ \E service \in {"groq", "gemini"}, limit \in {1, Concurrency},
                  shared \in BOOLEAN : BeginBatch(service, limit, shared)
             \/ BatchReturns
             \/ SessionExpires(Shared)
             \/ ExpireOldSessions
    <2>1. UNCHANGED <<stage, reqvars, heard>>
      BY <1>3 DEF BeginBatch, BatchReturns, SessionExpires, ExpireOldSessions, history
    <2> QED BY <2>1 DEF reqvars, locals, HeardInv, HeardBy
  <1> QED BY <1>1, <1>2, <1>3, AnswersAreHeard, BookkeepingIsHeard, ItemsAreHeard DEF Next

LEMMA HeardInvHolds == Spec => []HeardInv
  <1>1. HeardInv /\ UNCHANGED vars => HeardInv'
    BY DEF HeardInv, HeardBy, vars, reqvars, locals, history
  <1>2. RInv /\ HeardInv /\ [Next]_vars => HeardInv'
    BY <1>1, HeardStep
  <1> QED BY <1>2, RInvHolds, InitHeardInv, PTL DEF Spec

(* The successes that a batch reports are the prompts that upstream has    *)
(* answered, for any number of prompts, retries and sessions: an answer is *)
(* on its way from Responds to the flag, and no step loses it or puts an   *)
(* error in its place.                                                     *)
THEOREM BatchesReportAnswers == Spec => []BatchReportsAnswers
  <1>1. RInv /\ BatchInv /\ HeardInv => BatchReportsAnswers
    <2> SUFFICES ASSUME RInv, BatchInv, HeardInv, batch.state = "done"
                 PROVE  /\ batch.success = heard
                        /\ batch.succeeded = Cardinality(heard)
                        /\ batch.failed = Cardinality(Items \ heard)
      BY DEF BatchReportsAnswers
    <2>1. \A i \in Items : stage[i] = "reported" /\ ~answered[i]
      BY Ids DEF BatchInv, RInv, Coherent
    <2>2. \A i \in Items : i \in heard <=> result[i] = "returned"
      BY <2>1 DEF HeardInv, HeardBy
    <2>3. batch.success = heard
      BY <2>1, <2>2 DEF BatchInv, Flagged, HeardInv
    <2> QED BY <2>3 DEF BatchInv, Summed
  <1> QED BY <1>1, RInvHolds, BatchInvHolds, HeardInvHolds, PTL

(* Type correctness: that there are never more permits than the semaphore  *)
(* began with needs the accounts of the permits.                           *)
THEOREM RequestsTypes == Spec => []RequestsTypeOK
  <1>1. RInv /\ BatchInv => RequestsTypeOK
    <2> SUFFICES ASSUME RInv, BatchInv PROVE RequestsTypeOK
      OBVIOUS
    <2>1. permits \in 0..Concurrency
      <3>1. IsFiniteSet(Items) /\ Holders \in SUBSET Items
        BY ConstantsAreOK DEF ConstantsOK, Holders
      <3>2. Cardinality(Holders) \in Nat
        BY <3>1, FS_Subset, FS_CardinalityType
      <3>3. batch.limit \in 0..Concurrency /\ permits \in Nat
        BY DEF RInv, BooksShape, BatchRecord
      <3> QED BY <3>2, <3>3, ConstantsAreOK DEF ConstantsOK, BatchInv, PermitsAccounted
    <2>2. batch.state \in {"none", "running", "done", "cancelled"}
      BY DEF RInv, BooksShape, BatchRecord
    <2> QED BY <2>1, <2>2 DEF RInv, Shape, BooksShape, Coherent, SessionRecord, Kinds,
                                RequestsTypeOK
  <1> QED BY <1>1, RInvHolds, BatchInvHolds, PTL

-----------------------------------------------------------------------------

(* A session that has expired and is still in the registry stands for an   *)
(* error that may yet be reported.                                         *)
ExpiredRequests == {r \in Requests : result[r] = "expired"}

ExpiryInv == Cardinality(ExpiredRequests) + Cardinality(ExpiredSessions) <= lapsed

LEMMA ExpiredAreCounted ==
  ASSUME RInv
  PROVE  /\ Cardinality(ExpiredRequests) \in Nat /\ Cardinality(ExpiredSessions) \in Nat
         /\ lapsed \in Nat
  <1>1. /\ IsFiniteSet(Requests) /\ ExpiredRequests \in SUBSET Requests
        /\ IsFiniteSet(SessionIds) /\ ExpiredSessions \in SUBSET SessionIds
    BY ConstantsAreOK DEF ConstantsOK, ExpiredRequests, ExpiredSessions
  <1> QED BY <1>1, FS_Subset, FS_CardinalityType DEF RInv, BooksShape

LEMMA ExpiredRequestsMove ==
  ASSUME RInv, NEW r \in Requests, Only(r)
  PROVE  /\ Cardinality(ExpiredRequests') \in Nat
         /\ (result[r] = "expired" <=> result'[r] = "expired") =>
              Cardinality(ExpiredRequests') = Cardinality(ExpiredRequests)
         /\ result'[r] = "expired" =>
              Cardinality(ExpiredRequests') <= Cardinality(ExpiredRequests) + 1
  <1> DEFINE A == ExpiredRequests
             B == ExpiredRequests'
  <1>1. IsFiniteSet(Requests) /\ A \in SUBSET Requests /\ B \in SUBSET Requests
    BY ConstantsAreOK DEF ConstantsOK, ExpiredRequests
  <1>2. A \ {r} = B \ {r}
    BY DEF ExpiredRequests, Only
  <1>3. (r \in A <=> result[r] = "expired") /\ (r \in B <=> result'[r] = "expired")
    BY DEF ExpiredRequests
  <1> HIDE DEF A, B
  <1>4. /\ Cardinality(A) \in Nat /\ Cardinality(B) \in Nat
        /\ (r \in A <=> r \in B) => Cardinality(B) = Cardinality(A)
        /\ r \in B => Cardinality(B) <= Cardinality(A) + 1
    BY <1>1, <1>2, CountChange
  <1> QED BY <1>3, <1>4 DEF A, B

LEMMA InitExpiryInv == Init => ExpiryInv
  <1> SUFFICES ASSUME Init PROVE ExpiryInv
    OBVIOUS
  <1>1. ExpiredRequests = {} /\ ExpiredSessions = {} /\ lapsed = 0
    BY DEF Init, ExpiredRequests, ExpiredSessions, Absent
  <1> QED BY <1>1, FS_EmptySet DEF ExpiryInv

LEMMA ResultsStay ==
  ASSUME RInv, ExpiryInv, NEW r \in Requests, Only(r), lapsed' = lapsed,
         result[r] = "none" \/ result'[r] = result[r], result'[r] # "expired" \/ result'[r] = result[r],
         Cardinality(ExpiredSessions') \in Nat,
         Cardinality(ExpiredSessions') <= Cardinality(ExpiredSessions)
  PROVE  ExpiryInv'
  <1>1. Cardinality(ExpiredRequests') = Cardinality(ExpiredRequests)
    BY ExpiredRequestsMove
  <1> QED BY <1>1, ExpiredAreCounted DEF ExpiryInv

LEMMA EnterKeepsExpiryInv ==
  ASSUME RInv, ExpiryInv, NEW r \in Requests, NEW e \in EntryPoints,
         NEW ids \in SUBSET {r, Shared}, EnterBy(r, e, ids)
  PROVE  ExpiryInv'
  <1>1. /\ Only(r) /\ lapsed' = lapsed /\ result[r] = "none"
    BY EnterMoves DEF Moves, history, RInv, Coherent
  <1>2. /\ Cardinality(ExpiredRequests) \in Nat /\ Cardinality(ExpiredSessions) \in Nat
        /\ lapsed \in Nat
    BY ExpiredAreCounted
  <1>3. CASE UNCHANGED sessions /\ result'[r] # "expired"
    <2>1. ExpiredSessions' = ExpiredSessions
      BY <1>3 DEF ExpiredSessions
    <2>2. Cardinality(ExpiredRequests') = Cardinality(ExpiredRequests)
      BY <1>1, <1>3, ExpiredRequestsMove
    <2> QED BY <1>1, <2>1, <2>2 DEF ExpiryInv
  <1>4. ASSUME NEW s \in SessionIds, sessions[s].state = "expired",
               sessions' = [sessions EXCEPT ![s] = Absent], result'[r] = "expired"
        PROVE  ExpiryInv'
    <2>1. Absent \in SessionRecord /\ Absent.state # "expired"
      BY SessionRecords
    <2>2. Cardinality(ExpiredSessions') = Cardinality(ExpiredSessions) - 1
      BY <1>4, <2>1, SessionChange
    <2>3. /\ Cardinality(ExpiredRequests') <= Cardinality(ExpiredRequests) + 1
          /\ Cardinality(ExpiredRequests') \in Nat
      BY <1>1, <1>4, ExpiredRequestsMove
    <2> QED BY <1>1, <1>2, <2>2, <2>3 DEF ExpiryInv
  <1>5. ASSUME NEW s \in SessionIds, sessions[s].state # "expired",
               sessions' = [sessions EXCEPT ![s].state = "open"], result'[r] # "expired"
        PROVE  ExpiryInv'
    <2>1. PICK x \in SessionRecord :
            sessions' = [sessions EXCEPT ![s] = x] /\ x.state = "open"
      BY <1>5, SessionRecords
    <2>2. Cardinality(ExpiredSessions') = Cardinality(ExpiredSessions)
      BY <1>5, <2>1, SessionChange
    <2>3. Cardinality(ExpiredRequests') = Cardinality(ExpiredRequests)
      BY <1>1, <1>5, ExpiredRequestsMove
    <2> QED BY <1>1, <2>2, <2>3 DEF ExpiryInv
  <1> QED BY <1>3, <1>4, <1>5, EnterMoves

LEMMA ExpiryInvStep ==
  ASSUME RInv, ExpiryInv, Next
  PROVE  ExpiryInv'
  <1>1. /\ Cardinality(ExpiredRequests) \in Nat /\ Cardinality(ExpiredSessions) \in Nat
        /\ lapsed \in Nat
    BY ExpiredAreCounted
  <1>2. ASSUME sessions' = sessions
        PROVE  ExpiredSessions' = ExpiredSessions
    BY <1>2 DEF ExpiredSessions
  <1>3. ASSUME NEW r \in Requests, Quiet(r) PROVE ExpiryInv'
    <2>1. /\ Only(r) /\ lapsed' = lapsed /\ sessions' = sessions
          /\ result[r] = "none" /\ result'[r] # "expired"
      BY <1>3 DEF Quiet, Moves, books, history, RInv, Coherent
    <2> QED BY <1>1, <1>2, <2>1, ResultsStay
  <1>4. ASSUME NEW r \in Requests, Responds(r) \/ RecordUsage(r) PROVE ExpiryInv'
    <2>1. Only(r) /\ lapsed' = lapsed /\ sessions' = sessions /\ result'[r] = result[r]
      BY <1>4, RespondsMoves, RecordUsageMoves DEF Moves, books, history
    <2> QED BY <1>1, <1>2, <2>1, ResultsStay
  <1>5. ASSUME NEW r \in Requests, RecordSession(r) PROVE ExpiryInv'
    <2>1. /\ Only(r) /\ lapsed' = lapsed /\ result[r] = "none" /\ result'[r] # "expired"
      BY <1>5, RecordSessionMoves DEF Moves, history, RInv, Coherent
    <2>2. Cardinality(ExpiredSessions') <= Cardinality(ExpiredSessions)
      BY <1>5, RecordSessionStep
    <2>3. ExpiredSessions' \in SUBSET SessionIds
      BY DEF ExpiredSessions
    <2>4. Cardinality(ExpiredSessions') \in Nat
      BY <2>3, FS_Subset, FS_CardinalityType, ConstantsAreOK DEF ConstantsOK
    <2> QED BY <2>1, <2>2, <2>4, ResultsStay
  <1>6. ASSUME NEW i \in Items, TakePermit(i) \/ ItemEnds(i) PROVE ExpiryInv'
    <2>1. i \in Requests
      BY Ids
    <2>2. Only(i) /\ lapsed' = lapsed /\ sessions' = sessions /\ result'[i] = result[i]
      BY <1>6, TakePermitMoves, ItemEndsMoves DEF Moves, books, history
    <2> QED BY <1>1, <1>2, <2>1, <2>2, ResultsStay
  <1>7. CASE UNCHANGED <<result, sessions, lapsed>>
    BY <1>7 DEF ExpiryInv, ExpiredRequests, ExpiredSessions
  <1>8. ASSUME NEW service, NEW limit, NEW shared, BeginBatch(service, limit, shared)
        PROVE  UNCHANGED <<result, sessions, lapsed>>
    BY <1>8 DEF BeginBatch, reqvars, books, history
  <1>9. CASE BatchReturns
    BY <1>7, <1>9 DEF BatchReturns, reqvars, books, history
  <1>10. CASE CancelBatch
    <2>1. /\ UNCHANGED <<books, history>>
          /\ \A q \in Requests :
               \/ stage[q] = "queued" /\ result'[q] = "cancelled"
               \/ result'[q] = result[q]
      BY <1>10, CancelBatchMoves
    <2>2. ExpiredRequests' = ExpiredRequests
      BY <2>1 DEF ExpiredRequests, RInv, Coherent
    <2> QED BY <1>2, <2>1, <2>2 DEF books, history, ExpiryInv
  <1>11. CASE SessionExpires(Shared) \/ ExpireOldSessions
    <2>1. /\ result' = result /\ lapsed' \in Nat /\ Cardinality(ExpiredSessions') \in Nat
          /\ Cardinality(ExpiredSessions') - lapsed' <= Cardinality(ExpiredSessions) - lapsed
      BY <1>11, ExpiryStep DEF reqvars
    <2>2. ExpiredRequests' = ExpiredRequests
      BY <2>1 DEF ExpiredRequests
    <2> QED BY <1>1, <2>1, <2>2 DEF ExpiryInv
  <1> QED BY <1>3, <1>4, <1>5, <1>6, <1>7, <1>8, <1>9, <1>10, <1>11, EnterKeepsExpiryInv,
             NextIsStepped
          DEF Stepped

(* At most one request learns of the expiry of a session, however many     *)
(* share it and however often it is created again.                         *)
THEOREM ExpiryIsReportedOnce == Spec => []ExpiredOnce
  <1>1. ExpiryInv /\ UNCHANGED vars => ExpiryInv'
    BY DEF ExpiryInv, ExpiredRequests, ExpiredSessions, vars, reqvars, books, history
  <1>2. RInv /\ ExpiryInv /\ [Next]_vars => ExpiryInv'
    BY <1>1, ExpiryInvStep
  <1>3. RInv /\ ExpiryInv => ExpiredOnce
    <2> SUFFICES ASSUME RInv, ExpiryInv PROVE Cardinality(ExpiredRequests) <= lapsed
      BY DEF ExpiredOnce, ExpiredRequests
    <2> QED BY ExpiredAreCounted DEF ExpiryInv
  <1> QED BY <1>2, <1>3, RInvHolds, InitExpiryInv, PTL DEF Spec

-----------------------------------------------------------------------------

(* Whom the four accounts still wait for.                                  *)
Unbilled == AnsweredAt("usage")
UnbilledTokens == Reporting(Unbilled)
Unlogged == AnsweredAt("session")
Unrecorded == At("session")

AwaitsBill(r) == stage[r] = "usage" /\ answered[r]
AwaitsTokens(r) == AwaitsBill(r) /\ entry[r].client.tokens
AwaitsLog(r) == stage[r] = "session" /\ answered[r]
AwaitsRecord(r) == stage[r] = "session"

LEMMA AccountsWaitFor ==
  /\ Unbilled = {r \in Requests : AwaitsBill(r)}
  /\ UnbilledTokens = {r \in Requests : AwaitsTokens(r)}
  /\ Unlogged = {r \in Requests : AwaitsLog(r)}
  /\ Unrecorded = {r \in Requests : AwaitsRecord(r)}
  BY DEF Unbilled, UnbilledTokens, Unlogged, Unrecorded, AwaitsBill, AwaitsTokens,
         AwaitsLog, AwaitsRecord, AnsweredAt, At, Reporting

LEMMA BilledIs ==
  /\ BilledAreBooked <=>
       /\ usage.succeeded + Cardinality(Unbilled) = received.responses
       /\ usage.tokens + Cardinality(UnbilledTokens) = received.tokens
       /\ journal + Cardinality(Unlogged) = usage.succeeded
       /\ SessionTotal + Cardinality(Unrecorded) <= usage.succeeded + usage.failed
  /\ BilledAreBooked' <=>
       /\ usage'.succeeded + Cardinality(Unbilled') = received'.responses
       /\ usage'.tokens + Cardinality(UnbilledTokens') = received'.tokens
       /\ journal' + Cardinality(Unlogged') = usage'.succeeded
       /\ SessionTotal' + Cardinality(Unrecorded') <= usage'.succeeded + usage'.failed
  BY DEF BilledAreBooked, Unbilled, UnbilledTokens, Unlogged, Unrecorded

LEMMA AccountsAre ==
  ASSUME RInv
  PROVE  /\ Cardinality(Unbilled) \in Nat /\ Cardinality(UnbilledTokens) \in Nat
         /\ Cardinality(Unlogged) \in Nat /\ Cardinality(Unrecorded) \in Nat
         /\ usage.succeeded \in Nat /\ usage.failed \in Nat /\ usage.tokens \in Nat
         /\ received.responses \in Nat /\ received.tokens \in Nat /\ journal \in Nat
         /\ SessionTotal \in Int
  <1>1. /\ IsFiniteSet(Requests)
        /\ Unbilled \in SUBSET Requests /\ UnbilledTokens \in SUBSET Requests
        /\ Unlogged \in SUBSET Requests /\ Unrecorded \in SUBSET Requests
    BY ConstantsAreOK, AccountsWaitFor DEF ConstantsOK
  <1>2. /\ Cardinality(Unbilled) \in Nat /\ Cardinality(UnbilledTokens) \in Nat
        /\ Cardinality(Unlogged) \in Nat /\ Cardinality(Unrecorded) \in Nat
    BY <1>1, FS_Subset, FS_CardinalityType
  <1>3. SessionTotal \in Int
    <2> DEFINE f == Recorded
    <2>1. \A s \in SessionIds : f[s] \in Int
      BY DEF Recorded, RInv, BooksShape, SessionRecord
    <2> HIDE DEF f
    <2>2. SumFunctionOnSet(f, SessionIds) \in Int
      BY <2>1, SumSplit, ConstantsAreOK DEF ConstantsOK
    <2> QED BY <2>2 DEF f, SessionTotal
  <1> QED BY <1>2, <1>3 DEF RInv, BooksShape

(* What request r does to whom an account waits for.                       *)
Counts(n, m, before, after) ==
  /\ n \in Nat /\ m \in Nat
  /\ (before <=> after) => m = n
  /\ ~before /\ after => m = n + 1
  /\ before /\ ~after => m = n - 1

LEMMA AccountsMove ==
  ASSUME RInv, NEW r \in Requests, Only(r)
  PROVE  /\ Counts(Cardinality(Unbilled), Cardinality(Unbilled'),
                   AwaitsBill(r), AwaitsBill(r)')
         /\ Counts(Cardinality(UnbilledTokens), Cardinality(UnbilledTokens'),
                   AwaitsTokens(r), AwaitsTokens(r)')
         /\ Counts(Cardinality(Unlogged), Cardinality(Unlogged'),
                   AwaitsLog(r), AwaitsLog(r)')
         /\ Counts(Cardinality(Unrecorded), Cardinality(Unrecorded'),
                   AwaitsRecord(r), AwaitsRecord(r)')
  <1>1. ASSUME NEW A \in SUBSET Requests, NEW B \in SUBSET Requests, A \ {r} = B \ {r}
        PROVE  Counts(Cardinality(A), Cardinality(B), r \in A, r \in B)
    BY <1>1, CountChange, ConstantsAreOK DEF ConstantsOK, Counts
  <1>2. \A q \in Requests \ {r} :
          /\ AwaitsBill(q)' <=> AwaitsBill(q)
          /\ AwaitsTokens(q)' <=> AwaitsTokens(q)
          /\ AwaitsLog(q)' <=> AwaitsLog(q)
          /\ AwaitsRecord(q)' <=> AwaitsRecord(q)
    BY DEF Only, AwaitsBill, AwaitsTokens, AwaitsLog, AwaitsRecord
  <1>3. /\ Unbilled' = {q \in Requests : AwaitsBill(q)'}
        /\ UnbilledTokens' = {q \in Requests : AwaitsTokens(q)'}
        /\ Unlogged' = {q \in Requests : AwaitsLog(q)'}
        /\ Unrecorded' = {q \in Requests : AwaitsRecord(q)'}
    BY DEF Unbilled, UnbilledTokens, Unlogged, Unrecorded, AwaitsBill, AwaitsTokens,
           AwaitsLog, AwaitsRecord, AnsweredAt, At, Reporting
  <1> HIDE DEF Unbilled, UnbilledTokens, Unlogged, Unrecorded, AwaitsBill,
               AwaitsTokens, AwaitsLog, AwaitsRecord
  <1>4. /\ Unbilled \in SUBSET Requests /\ Unbilled' \in SUBSET Requests
        /\ Unbilled \ {r} = Unbilled' \ {r}
        /\ r \in Unbilled <=> AwaitsBill(r)
        /\ r \in Unbilled' <=> AwaitsBill(r)'
    BY <1>2, <1>3, AccountsWaitFor
  <1>5. /\ UnbilledTokens \in SUBSET Requests /\ UnbilledTokens' \in SUBSET Requests
        /\ UnbilledTokens \ {r} = UnbilledTokens' \ {r}
        /\ r \in UnbilledTokens <=> AwaitsTokens(r)
        /\ r \in UnbilledTokens' <=> AwaitsTokens(r)'
    BY <1>2, <1>3, AccountsWaitFor
  <1>6. /\ Unlogged \in SUBSET Requests /\ Unlogged' \in SUBSET Requests
        /\ Unlogged \ {r} = Unlogged' \ {r}
        /\ r \in Unlogged <=> AwaitsLog(r)
        /\ r \in Unlogged' <=> AwaitsLog(r)'
    BY <1>2, <1>3, AccountsWaitFor
  <1>7. /\ Unrecorded \in SUBSET Requests /\ Unrecorded' \in SUBSET Requests
        /\ Unrecorded \ {r} = Unrecorded' \ {r}
        /\ r \in Unrecorded <=> AwaitsRecord(r)
        /\ r \in Unrecorded' <=> AwaitsRecord(r)'
    BY <1>2, <1>3, AccountsWaitFor
  <1> QED BY <1>1, <1>4, <1>5, <1>6, <1>7 DEF Counts

(* Nobody new to wait for, and nobody less.                                *)
LEMMA AccountsStay ==
  ASSUME RInv, BilledAreBooked, NEW r \in Requests, Only(r),
         UNCHANGED <<usage, journal, received>>,
         AwaitsBill(r)' <=> AwaitsBill(r), AwaitsTokens(r)' <=> AwaitsTokens(r),
         AwaitsLog(r)' <=> AwaitsLog(r), AwaitsRecord(r)' <=> AwaitsRecord(r),
         SessionTotal' \in Int, SessionTotal' <= SessionTotal
  PROVE  BilledAreBooked'
  <1>1. /\ Cardinality(Unbilled') = Cardinality(Unbilled)
        /\ Cardinality(UnbilledTokens') = Cardinality(UnbilledTokens)
        /\ Cardinality(Unlogged') = Cardinality(Unlogged)
        /\ Cardinality(Unrecorded') = Cardinality(Unrecorded)
    BY AccountsMove DEF Counts
  <1> QED BY <1>1, BilledIs, AccountsAre

LEMMA TotalStays ==
  ASSUME RInv, sessions' = sessions
  PROVE  SessionTotal' = SessionTotal /\ SessionTotal \in Int
  BY AccountsAre DEF SessionTotal, Recorded

LEMMA TotalAfterEntering ==
  ASSUME RInv, NEW r \in Requests, NEW e \in EntryPoints,
         NEW ids \in SUBSET {r, Shared}, EnterBy(r, e, ids)
  PROVE  SessionTotal' \in Int /\ SessionTotal' <= SessionTotal
  <1>1. \A s \in SessionIds : sessions[s].recorded \in Nat
    BY SessionRecords
  <1>2. CASE UNCHANGED sessions
    BY <1>2, TotalStays
  <1>3. ASSUME NEW s \in SessionIds, sessions' = [sessions EXCEPT ![s] = Absent]
        PROVE  SessionTotal' \in Int /\ SessionTotal' <= SessionTotal
    <2>1. PICK x \in SessionRecord :
            sessions' = [sessions EXCEPT ![s] = x] /\ x.recorded = 0
      BY <1>3, SessionRecords
    <2>2. /\ SessionTotal \in Int
          /\ SessionTotal' = SessionTotal - sessions[s].recorded + x.recorded
      BY <2>1, SessionChange
    <2> QED BY <1>1, <2>1, <2>2
  <1>4. ASSUME NEW s \in SessionIds, sessions' = [sessions EXCEPT ![s].state = "open"]
        PROVE  SessionTotal' \in Int /\ SessionTotal' <= SessionTotal
    <2>1. PICK x \in SessionRecord :
            sessions' = [sessions EXCEPT ![s] = x] /\ x.recorded = sessions[s].recorded
      BY <1>4, SessionRecords
    <2>2. /\ SessionTotal \in Int
          /\ SessionTotal' = SessionTotal - sessions[s].recorded + x.recorded
      BY <2>1, SessionChange
    <2> QED BY <1>1, <2>1, <2>2
  <1> QED BY <1>2, <1>3, <1>4, EnterMoves

LEMMA BilledAfterResponse ==
  ASSUME RInv, BilledAreBooked, NEW r \in Requests, Responds(r)
  PROVE  BilledAreBooked'
  <1> DEFINE n == IF entry[r].client.tokens THEN 1 ELSE 0
  <1>1. /\ Only(r) /\ UNCHANGED <<sessions, usage, journal>>
        /\ stage[r] = "upstream" /\ stage'[r] = "usage" /\ answered'[r] /\ entry'[r] = entry[r]
    BY RespondsMoves DEF Moves, books
  <1>2. /\ received'.responses = received.responses + 1
        /\ received'.tokens = received.tokens + n
    BY DEF Responds
  <1>3. /\ Cardinality(Unbilled') = Cardinality(Unbilled) + 1
        /\ Cardinality(Unlogged') = Cardinality(Unlogged)
        /\ Cardinality(Unrecorded') = Cardinality(Unrecorded)
    BY <1>1, AccountsMove DEF Counts, AwaitsBill, AwaitsLog, AwaitsRecord
  <1>4. Cardinality(UnbilledTokens') = Cardinality(UnbilledTokens) + n
    <2>1. entry[r].client.tokens => AwaitsTokens(r)' /\ ~AwaitsTokens(r)
      BY <1>1 DEF AwaitsTokens, AwaitsBill
    <2>2. ~entry[r].client.tokens => ~AwaitsTokens(r)' /\ ~AwaitsTokens(r)
      BY <1>1 DEF AwaitsTokens, AwaitsBill
    <2> HIDE DEF AwaitsTokens
    <2>3. Counts(Cardinality(UnbilledTokens), Cardinality(UnbilledTokens'),
                 AwaitsTokens(r), AwaitsTokens(r)')
      BY <1>1, AccountsMove
    <2>4. /\ entry[r].client.tokens =>
               Cardinality(UnbilledTokens') = Cardinality(UnbilledTokens) + 1
          /\ ~entry[r].client.tokens =>
               Cardinality(UnbilledTokens') = Cardinality(UnbilledTokens)
      BY <2>1, <2>2, <2>3 DEF Counts
    <2> QED BY <2>4, AccountsAre
  <1>5. SessionTotal' = SessionTotal
    BY <1>1, TotalStays
  <1>6. n \in {0, 1}
    OBVIOUS
  <1> HIDE DEF n
  <1> QED BY <1>1, <1>2, <1>3, <1>4, <1>5, <1>6, BilledIs, AccountsAre

LEMMA BilledAfterUsage ==
  ASSUME RInv, BilledAreBooked, NEW r \in Requests, RecordUsage(r)
  PROVE  BilledAreBooked'
  <1>1. /\ Only(r) /\ UNCHANGED <<sessions, journal, received>>
        /\ stage[r] = "usage" /\ stage'[r] = "session"
        /\ answered'[r] = answered[r] /\ entry'[r] = entry[r]
    BY RecordUsageMoves DEF Moves, history
  <1>2. /\ Cardinality(Unrecorded') = Cardinality(Unrecorded) + 1
        /\ answered[r] => /\ Cardinality(Unbilled') = Cardinality(Unbilled) - 1
                          /\ Cardinality(Unlogged') = Cardinality(Unlogged) + 1
        /\ ~answered[r] => /\ Cardinality(Unbilled') = Cardinality(Unbilled)
                           /\ Cardinality(Unlogged') = Cardinality(Unlogged)
    BY <1>1, AccountsMove DEF Counts, AwaitsBill, AwaitsLog, AwaitsRecord
  <1>3. /\ answered[r] /\ entry[r].client.tokens =>
             Cardinality(UnbilledTokens') = Cardinality(UnbilledTokens) - 1
        /\ ~(answered[r] /\ entry[r].client.tokens) =>
             Cardinality(UnbilledTokens') = Cardinality(UnbilledTokens)
    BY <1>1, AccountsMove DEF Counts, AwaitsBill, AwaitsTokens
  <1>4. SessionTotal' = SessionTotal
    BY <1>1, TotalStays
  <1> QED BY <1>1, <1>2, <1>3, <1>4, BilledIs, AccountsAre, RecordUsageStep

LEMMA BilledAfterSession ==
  ASSUME RInv, BilledAreBooked, NEW r \in Requests, RecordSession(r)
  PROVE  BilledAreBooked'
  <1>1. /\ Only(r) /\ UNCHANGED <<usage, received>>
        /\ stage[r] = "session" /\ stage'[r] \in {"parse", "done"}
        /\ journal' = IF answered[r] THEN journal + 1 ELSE journal
    BY RecordSessionMoves DEF Moves, history
  <1>2. /\ Cardinality(Unbilled') = Cardinality(Unbilled)
        /\ Cardinality(UnbilledTokens') = Cardinality(UnbilledTokens)
        /\ Cardinality(Unrecorded') = Cardinality(Unrecorded) - 1
        /\ answered[r] => Cardinality(Unlogged') = Cardinality(Unlogged) - 1
        /\ ~answered[r] => Cardinality(Unlogged') = Cardinality(Unlogged)
    BY <1>1, AccountsMove DEF Counts, AwaitsBill, AwaitsTokens, AwaitsLog, AwaitsRecord
  <1>3. SessionTotal' \in Int /\ SessionTotal' <= SessionTotal + 1
    BY RecordSessionStep
  <1> QED BY <1>1, <1>2, <1>3, BilledIs, AccountsAre

LEMMA InitBilled == Init => BilledAreBooked
  <1> SUFFICES ASSUME Init PROVE BilledAreBooked
    OBVIOUS
  <1>1. \A r \in Requests : stage[r] \in {"new", "queued"}
    BY DEF Init
  <1>2. Unbilled = {} /\ UnbilledTokens = {} /\ Unlogged = {} /\ Unrecorded = {}
    BY <1>1 DEF Unbilled, UnbilledTokens, Unlogged, Unrecorded, AnsweredAt, At, Reporting
  <1>3. /\ usage.succeeded = 0 /\ usage.failed = 0 /\ usage.tokens = 0 /\ journal = 0
        /\ received.responses = 0 /\ received.tokens = 0
    BY DEF Init
  <1>4. SessionTotal = 0
    <2> DEFINE f == Recorded
    <2>1. \A s \in SessionIds : f[s] = 0 /\ f[s] \in Int
      BY DEF Init, Recorded, Absent
    <2> HIDE DEF f
    <2>2. SumFunctionOnSet(f, SessionIds) = 0
      BY <2>1, ZeroSum, ConstantsAreOK DEF ConstantsOK
    <2> QED BY <2>2 DEF f, SessionTotal
  <1> QED BY <1>2, <1>3, <1>4, BilledIs, FS_EmptySet

LEMMA BilledStep ==
  ASSUME RInv, BilledAreBooked, Next
  PROVE  BilledAreBooked'
  <1>1. ASSUME NEW r \in Requests, Quiet(r) PROVE BilledAreBooked'
    <2>1. /\ Only(r) /\ UNCHANGED <<sessions, usage, journal, received>>
          /\ stage[r] \notin {"usage", "session"}
          /\ stage'[r] # "session" /\ ~answered'[r]
      BY <1>1 DEF Quiet, Moves, books, history
    <2>2. /\ AwaitsBill(r)' <=> AwaitsBill(r)
          /\ AwaitsTokens(r)' <=> AwaitsTokens(r)
          /\ AwaitsLog(r)' <=> AwaitsLog(r)
          /\ AwaitsRecord(r)' <=> AwaitsRecord(r)
      BY <2>1 DEF AwaitsBill, AwaitsTokens, AwaitsLog, AwaitsRecord
    <2>3. SessionTotal' \in Int /\ SessionTotal' <= SessionTotal
      BY <2>1, TotalStays
    <2> QED BY <2>1, <2>2, <2>3, AccountsStay
  <1>2. ASSUME NEW r \in Requests, NEW e \in EntryPoints, NEW ids \in SUBSET {r, Shared},
               EnterBy(r, e, ids)
        PROVE  BilledAreBooked'
    <2>1. /\ Only(r) /\ UNCHANGED <<usage, journal, received>>
          /\ stage[r] = "new" /\ stage'[r] \in {"done", "upstream"}
      BY <1>2, EnterMoves DEF Moves, history
    <2>2. /\ AwaitsBill(r)' <=> AwaitsBill(r)
          /\ AwaitsTokens(r)' <=> AwaitsTokens(r)
          /\ AwaitsLog(r)' <=> AwaitsLog(r)
          /\ AwaitsRecord(r)' <=> AwaitsRecord(r)
      BY <2>1 DEF AwaitsBill, AwaitsTokens, AwaitsLog, AwaitsRecord
    <2>3. SessionTotal' \in Int /\ SessionTotal' <= SessionTotal
      BY <1>2, TotalAfterEntering
    <2> QED BY <2>1, <2>2, <2>3, AccountsStay
  <1>3. ASSUME NEW i \in Items, TakePermit(i) \/ ItemEnds(i) PROVE BilledAreBooked'
    <2>1. i \in Requests
      BY Ids
    <2>2. /\ Only(i) /\ UNCHANGED <<sessions, usage, journal, received>>
          /\ stage[i] \in {"queued", "done"} /\ stage'[i] \in {"new", "reported"}
      BY <1>3, TakePermitMoves, ItemEndsMoves DEF Moves, books, history
    <2>3. /\ AwaitsBill(i)' <=> AwaitsBill(i)
          /\ AwaitsTokens(i)' <=> AwaitsTokens(i)
          /\ AwaitsLog(i)' <=> AwaitsLog(i)
          /\ AwaitsRecord(i)' <=> AwaitsRecord(i)
      BY <2>2 DEF AwaitsBill, AwaitsTokens, AwaitsLog, AwaitsRecord
    <2>4. SessionTotal' \in Int /\ SessionTotal' <= SessionTotal
      BY <2>2, TotalStays
    <2> QED BY <2>1, <2>2, <2>3, <2>4, AccountsStay
  <1>4. ASSUME UNCHANGED <<usage, journal, received>>,
               \A r \in Requests :
                 /\ AwaitsBill(r)' <=> AwaitsBill(r)
                 /\ AwaitsTokens(r)' <=> AwaitsTokens(r)
                 /\ AwaitsLog(r)' <=> AwaitsLog(r)
                 /\ AwaitsRecord(r)' <=> AwaitsRecord(r),
               SessionTotal' \in Int, SessionTotal' <= SessionTotal
        PROVE  BilledAreBooked'
    <2>1. /\ Unbilled' = Unbilled /\ UnbilledTokens' = UnbilledTokens
          /\ Unlogged' = Unlogged /\ Unrecorded' = Unrecorded
      BY <1>4 DEF Unbilled, UnbilledTokens, Unlogged, Unrecorded, AwaitsBill,
                  AwaitsTokens, AwaitsLog, AwaitsRecord, AnsweredAt, At, Reporting
    <2> QED BY <1>4, <2>1, BilledIs, AccountsAre
  <1>5. ASSUME UNCHANGED <<stage, answered, entry, usage, journal, received>>,
               SessionTotal' \in Int, SessionTotal' <= SessionTotal
        PROVE  BilledAreBooked'
    BY <1>4, <1>5 DEF AwaitsBill, AwaitsTokens, AwaitsLog, AwaitsRecord
  <1>6. ASSUME NEW service, NEW limit, NEW shared, BeginBatch(service, limit, shared)
        PROVE  BilledAreBooked'
    <2>1. UNCHANGED <<stage, answered, entry, usage, journal, received, sessions>>
      BY <1>6 DEF BeginBatch, reqvars, locals, books, history
    <2> QED BY <1>5, <2>1, TotalStays
  <1>7. CASE BatchReturns
    <2>1. UNCHANGED <<stage, answered, entry, usage, journal, received, sessions>>
      BY <1>7 DEF BatchReturns, reqvars, locals, books, history
    <2> QED BY <1>5, <2>1, TotalStays
  <1>8. CASE CancelBatch
    <2>1. /\ UNCHANGED <<answered, entry, usage, journal, received, sessions>>
          /\ \A q \in Requests :
               \/ stage[q] = "queued" /\ stage'[q] = "reported"
               \/ stage'[q] = stage[q]
      BY <1>8, CancelBatchMoves DEF books, history
    <2>2. \A r \in Requests :
            /\ AwaitsBill(r)' <=> AwaitsBill(r)
            /\ AwaitsTokens(r)' <=> AwaitsTokens(r)
            /\ AwaitsLog(r)' <=> AwaitsLog(r)
            /\ AwaitsRecord(r)' <=> AwaitsRecord(r)
      BY <2>1 DEF AwaitsBill, AwaitsTokens, AwaitsLog, AwaitsRecord
    <2> QED BY <1>4, <2>1, <2>2, TotalStays
  <1>9. CASE SessionExpires(Shared) \/ ExpireOldSessions
    <2>1. /\ UNCHANGED <<stage, answered, entry, usage, journal, received>>
          /\ SessionTotal' \in Int /\ SessionTotal' <= SessionTotal
      BY <1>9, ExpiryStep DEF reqvars, locals
    <2> QED BY <1>5, <2>1
  <1> QED BY <1>1, <1>2, <1>3, <1>6, <1>7, <1>8, <1>9, BilledAfterResponse,
             BilledAfterUsage, BilledAfterSession, NextIsStepped
          DEF Stepped

(* Every response is booked once, with its tokens, for any number of       *)
(* requests, repairs, batches and sessions that expire.                    *)
THEOREM ResponsesAreBooked == Spec => []BilledAreBooked
  <1>1. RInv /\ BilledAreBooked /\ UNCHANGED vars => BilledAreBooked'
    <2> SUFFICES ASSUME RInv, BilledAreBooked, UNCHANGED vars PROVE BilledAreBooked'
      OBVIOUS
    <2>1. UNCHANGED <<stage, answered, entry, usage, journal, received, sessions>>
      BY DEF vars, reqvars, locals, books, history
    <2>2. /\ Unbilled' = Unbilled /\ UnbilledTokens' = UnbilledTokens
          /\ Unlogged' = Unlogged /\ Unrecorded' = Unrecorded
      BY <2>1 DEF Unbilled, UnbilledTokens, Unlogged, Unrecorded, AnsweredAt, At, Reporting
    <2> QED BY <2>1, <2>2, TotalStays, BilledIs
  <1>2. RInv /\ BilledAreBooked /\ [Next]_vars => BilledAreBooked'
    BY <1>1, BilledStep
  <1> QED BY <1>2, InitBilled, RInvHolds, PTL DEF Spec

=============================================================================
