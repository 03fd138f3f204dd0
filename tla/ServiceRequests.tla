--------------------------- MODULE ServiceRequests --------------------------
(***************************************************************************)
(* What the entry points of both services do around the rotation loop:     *)
(* the checks before it, the session they resolve or create, the books     *)
(* after it, the repair rounds of structured output, batches of requests   *)
(* under a semaphore, and the calls of a fixed-key RetryPolicy.            *)
(*                                                                         *)
(* The loop itself is ServiceRotation; here an attempt is one step, and    *)
(* its keys are left out.  Streams have a loop of their own in GroqService *)
(* and GeminiService and are left out too.  Every request names the shared *)
(* session or none, and then gets one of its own.                          *)
(***************************************************************************)
EXTENDS UpstreamErrors, FiniteSets, Sequences, Functions

CONSTANTS
  Callers,      (* requests sent one by one                                *)
  BatchSize,    (* prompts of the batch, whose items are 1..BatchSize      *)
  Concurrency,  (* permits of its semaphore                                *)
  Shared,       (* the session id that requests may share                  *)
  Retries,      (* config.retries                                          *)
  JsonRetries,  (* json_retries of structured requests                     *)
  Expiries      (* bound on the sessions that expire                       *)

ASSUME RequestsAssumption ==
  /\ BatchSize \in Nat
  /\ Concurrency \in Nat \ {0}
  /\ Retries \in Nat
  /\ JsonRetries \in Nat
  /\ Expiries \in Nat

Items == 1..BatchSize

Requests == Callers \cup Items

SessionIds == Requests \cup {Shared}

ASSUME NamesAssumption ==
  /\ IsFiniteSet(Callers)
  /\ Callers \cap Items = {}
  /\ Shared \notin Requests

-----------------------------------------------------------------------------

(* The clients.  malformed: a response may lack what the client reads;     *)
(* tokens: it reports token usage; timeout: the call carries the timeout   *)
(* of its RequestConfig, the others wait as long as the SDK does.          *)
Client(malformed, tokens, timeout) ==
  [malformed |-> malformed, tokens |-> tokens, timeout |-> timeout]

ChatClient == Client(TRUE, TRUE, TRUE)
StructuredClient == Client(TRUE, TRUE, TRUE)
ToolClient == Client(TRUE, TRUE, TRUE)
ModerationClient == Client(TRUE, TRUE, TRUE)
TranscriptionClient == Client(FALSE, FALSE, FALSE)
SynthesisClient == Client(FALSE, FALSE, FALSE)
GeminiChatClient == Client(TRUE, TRUE, FALSE)
GeminiStructuredClient == Client(TRUE, TRUE, FALSE)
GeminiToolClient == Client(FALSE, TRUE, FALSE)

(* An entry point: what it does before the loop, in order, each step but   *)
(* "session" a check that may reject the request; its client; and how many *)
(* rounds of the loop it makes if it parses the answer, 0 if it does not.  *)
Entry(service, before, client, rounds) ==
  [service |-> service, before |-> before, client |-> client, rounds |-> rounds]

Rounds == JsonRetries + 1

GroqInvoke == Entry("groq", <<"capability", "session">>, ChatClient, 0)

GroqChat ==
  Entry("groq", <<"config", "capability", "messages", "session">>, ChatClient, 0)

(* The asynchronous twin builds its RequestConfig after the session.       *)
GroqAsyncChat ==
  Entry("groq", <<"capability", "messages", "session", "config">>, ChatClient, 0)

GroqStructured ==
  Entry("groq", <<"capability", "session">>, StructuredClient, Rounds)

GroqTools ==
  Entry("groq", <<"capability", "messages", "session">>, ToolClient, 0)

GroqModerate == Entry("groq", <<"capability", "session">>, ModerationClient, 0)

GroqTranscribe ==
  Entry("groq", <<"capability", "session">>, TranscriptionClient, 0)

GroqSynthesize ==
  Entry("groq", <<"capability", "session">>, SynthesisClient, 0)

GeminiChat ==
  Entry("gemini", <<"capability", "messages", "session", "config">>,
        GeminiChatClient, 0)

GeminiInvoke ==
  Entry("gemini", <<"prompt", "capability", "session">>, GeminiChatClient, 0)

GeminiStructured ==
  Entry("gemini", <<"capability", "session">>, GeminiStructuredClient, Rounds)

GeminiTools == Entry("gemini", <<"capability", "session">>, GeminiToolClient, 0)

EntryPoints ==
  {GroqInvoke, GroqChat, GroqAsyncChat, GroqStructured, GroqTools, GroqModerate,
   GroqTranscribe, GroqSynthesize, GeminiChat, GeminiInvoke, GeminiStructured,
   GeminiTools}

Checks(e) == {e.before[i] : i \in DOMAIN e.before} \ {"session"}

(* Whether an entry point makes check f before it resolves the session.    *)
BeforeSession(e, f) ==
  \E i, j \in DOMAIN e.before :
    e.before[i] = f /\ e.before[j] = "session" /\ i < j

-----------------------------------------------------------------------------

VARIABLES
  stage,     (* how far each request is                                    *)
  entry,     (* its service, client and rounds                             *)
  sid,       (* its session id                                             *)
  round,     (* repairs it has asked for                                   *)
  attempt,   (* the attempt of this round it is at                         *)
  answered,  (* the loop ended with a response                             *)
  result,    (* what the caller gets                                       *)
  final,     (* its last error made another attempt pointless; history     *)
  sessions,  (* the session registry                                       *)
  usage,     (* lifetime totals                                            *)
  journal,   (* entries of the request journal                             *)
  received,  (* responses that came from upstream; history                 *)
  heard,     (* items of the batch that got one of them; history           *)
  lapsed,    (* sessions that expired; history                             *)
  batch,     (* the batch, if one was sent                                 *)
  permits    (* free permits of its semaphore                              *)

locals == <<entry, sid, round, attempt, answered, final>>

reqvars == <<result, locals>>

books == <<sessions, usage, journal>>

history == <<received, heard, lapsed>>

batchvars == <<batch, permits>>

vars == <<stage, reqvars, books, history, batchvars>>

Stage ==
  {"new", "queued", "upstream", "policy", "usage", "session", "parse", "done",
   "reported"}

(* returned    the response, parsed where it has to be                     *)
(* expired     SessionExpiredError                                         *)
(* failed      any other error: a failed check, no key, retries exhausted, *)
(*             an answer that does not parse, the error of a policy's call *)
(* cancelled   the task was cancelled                                      *)
Result == {"none", "returned", "expired", "failed", "cancelled"}

(* What is left of an entry point once the request is under way.           *)
Underway(e) == [service |-> e.service, client |-> e.client, rounds |-> e.rounds]

NoEntry == Underway(GroqInvoke)

Absent == [state |-> "absent", recorded |-> 0]

(* success: the items whose BatchResult says so; succeeded, failed: the    *)
(* counts of the BatchSummary.                                             *)
NoBatch ==
  [state |-> "none", service |-> "groq", shared |-> FALSE, limit |-> 0,
   success |-> {}, succeeded |-> 0, failed |-> 0]

Init ==
  /\ stage = [r \in Requests |-> IF r \in Callers THEN "new" ELSE "queued"]
  /\ entry = [r \in Requests |-> NoEntry]
  /\ sid = [r \in Requests |-> r]
  /\ round = [r \in Requests |-> 0]
  /\ attempt = [r \in Requests |-> 0]
  /\ answered = [r \in Requests |-> FALSE]
  /\ result = [r \in Requests |-> "none"]
  /\ final = [r \in Requests |-> FALSE]
  /\ sessions = [s \in SessionIds |-> Absent]
  /\ usage = [succeeded |-> 0, failed |-> 0, tokens |-> 0]
  /\ journal = 0
  /\ received = [responses |-> 0, tokens |-> 0]
  /\ heard = {}
  /\ lapsed = 0
  /\ batch = NoBatch
  /\ permits = 0

-----------------------------------------------------------------------------

Go(r, s) == stage' = [stage EXCEPT ![r] = s]

(* The call is over; its local variables are gone.                         *)
Over(r, res) ==
  /\ Go(r, "done")
  /\ result' = [result EXCEPT ![r] = res]
  /\ entry' = [entry EXCEPT ![r] = NoEntry]
  /\ sid' = [sid EXCEPT ![r] = r]
  /\ round' = [round EXCEPT ![r] = 0]
  /\ attempt' = [attempt EXCEPT ![r] = 0]
  /\ answered' = [answered EXCEPT ![r] = FALSE]

End(r, res) == Over(r, res) /\ UNCHANGED final

(* A check fails: before the session is resolved nothing is left behind.   *)
Reject(r, e, f) ==
  /\ BeforeSession(e, f)
  /\ End(r, "failed")
  /\ UNCHANGED <<books, history>>

(* Mutant of Refuse: the expired session stays in the registry.            *)
RefuseAgain(s) == UNCHANGED sessions

(* get_or_create of an expired session: it is deleted, and the request     *)
(* gets a SessionExpiredError.                                             *)
Refuse(s) == sessions' = [sessions EXCEPT ![s] = Absent]

Send(r, e, s) ==
  /\ Go(r, "upstream")
  /\ entry' = [entry EXCEPT ![r] = Underway(e)]
  /\ sid' = [sid EXCEPT ![r] = s]
  /\ UNCHANGED <<result, round, attempt, answered, final>>

Resolve(r, e, s, fault) ==
  /\ IF sessions[s].state = "expired"
       THEN Refuse(s) /\ End(r, "expired")
       ELSE /\ sessions' = [sessions EXCEPT ![s].state = "open"]
            /\ IF fault THEN End(r, "failed") ELSE Send(r, e, s)
  /\ UNCHANGED <<usage, journal, history>>

(* The steps of an entry point up to the loop, with at most one failing    *)
(* check.                                                                  *)
EnterBy(r, e, ids) ==
  /\ stage[r] = "new"
  /\ \/ \E f \in Checks(e) : Reject(r, e, f)
     \/ \E s \in ids, fault \in BOOLEAN :
          /\ fault => \E f \in Checks(e) : ~BeforeSession(e, f)
          /\ Resolve(r, e, s, fault)
  /\ UNCHANGED batchvars

Enter(r) == r \in Callers /\ \E e \in EntryPoints : EnterBy(r, e, {Shared, r})

-----------------------------------------------------------------------------

(* Mutant of RetryOrGiveUp: one attempt more than config.retries allows.   *)
RetryOnceMore(r) ==
  IF attempt[r] <= Retries
    THEN attempt' = [attempt EXCEPT ![r] = @ + 1] /\ UNCHANGED stage
    ELSE Go(r, "usage") /\ UNCHANGED attempt

RetryOrGiveUp(r) ==
  IF attempt[r] < Retries
    THEN attempt' = [attempt EXCEPT ![r] = @ + 1] /\ UNCHANGED stage
    ELSE Go(r, "usage") /\ UNCHANGED attempt

(* The client returns a response.                                          *)
Responds(r) ==
  LET reports == IF entry[r].client.tokens THEN 1 ELSE 0 IN
  /\ stage[r] = "upstream"
  /\ Go(r, "usage")
  /\ answered' = [answered EXCEPT ![r] = TRUE]
  /\ received' = [responses |-> received.responses + 1,
                  tokens |-> received.tokens + reports]
  /\ heard' = heard \cup ({r} \cap Items)
  /\ UNCHANGED <<entry, sid, round, attempt, result, final, books, lapsed, batchvars>>

(* The client raises e.                                                    *)
Raises(r, e) ==
  LET outcome == Outcome(entry[r].service, e) IN
  /\ stage[r] = "upstream"
  /\ \/ outcome = "disabled" /\ Over(r, "failed")
     \/ /\ outcome = "denied"
        /\ Go(r, "usage")
        /\ UNCHANGED <<result, entry, sid, round, attempt, answered>>
     \/ /\ outcome \in {"rate_limited", "failed"}
        /\ RetryOrGiveUp(r)
        /\ UNCHANGED <<result, entry, sid, round, answered>>
  /\ final' = [final EXCEPT ![r] = e.status \in {401, 403}]
  /\ UNCHANGED <<books, history, batchvars>>

Fails(r) ==
  \/ \E e \in SdkErrors(entry[r].service) : Raises(r, e)
  \/ entry[r].client.malformed /\ Raises(r, Malformed)

(* No key is left for the attempt.                                         *)
NoKey(r) ==
  /\ stage[r] = "upstream"
  /\ End(r, "failed")
  /\ UNCHANGED <<books, history, batchvars>>

(* An asynchronous call is cancelled while it waits; an item of a batch    *)
(* only with its batch.                                                    *)
Cancelled(r) ==
  /\ stage[r] = "upstream"
  /\ r \in Callers \/ batch.state = "cancelled"
  /\ End(r, "cancelled")
  /\ UNCHANGED <<books, history, batchvars>>

(* Mutant of Booked: a failure counts as a request that was served, too.   *)
BookedTwice(r) ==
  [usage EXCEPT !.succeeded = @ + 1,
                !.failed = IF answered[r] THEN @ ELSE @ + 1]

Booked(r) ==
  IF answered[r]
    THEN [usage EXCEPT !.succeeded = @ + 1,
                       !.tokens = IF entry[r].client.tokens THEN @ + 1 ELSE @]
    ELSE [usage EXCEPT !.failed = @ + 1]

RecordUsage(r) ==
  /\ stage[r] = "usage"
  /\ usage' = Booked(r)
  /\ Go(r, "session")
  /\ UNCHANGED <<reqvars, sessions, journal, history, batchvars>>

(* get of an expired session deletes it and finds nothing to record in.    *)
RecordSession(r) ==
  LET s == sid[r] IN
  /\ stage[r] = "session"
  /\ sessions' = CASE sessions[s].state = "open" ->
                        [sessions EXCEPT ![s].recorded = @ + 1]
                   [] sessions[s].state = "expired" ->
                        [sessions EXCEPT ![s] = Absent]
                   [] OTHER -> sessions
  /\ journal' = IF answered[r] THEN journal + 1 ELSE journal
  /\ IF answered[r] THEN Go(r, "parse") /\ UNCHANGED <<result, locals>>
                    ELSE End(r, "failed")
  /\ UNCHANGED <<usage, history, batchvars>>

(* The text of a structured answer parses or not; if not, the loop is run  *)
(* again with the error as a new message.                                  *)
Parse(r) ==
  /\ stage[r] = "parse"
  /\ \/ End(r, "returned")
     \/ /\ entry[r].rounds > 0
        /\ IF round[r] + 1 < entry[r].rounds
             THEN /\ round' = [round EXCEPT ![r] = @ + 1]
                  /\ attempt' = [attempt EXCEPT ![r] = 0]
                  /\ answered' = [answered EXCEPT ![r] = FALSE]
                  /\ Go(r, "upstream")
                  /\ UNCHANGED <<result, entry, sid, final>>
             ELSE End(r, "failed")
  /\ UNCHANGED <<books, history, batchvars>>

-----------------------------------------------------------------------------

(* RetryPolicy.execute: a call with a fixed key, outside the services.     *)
UsePolicy(r) ==
  /\ r \in Callers
  /\ stage[r] = "new"
  /\ Go(r, "policy")
  /\ UNCHANGED <<reqvars, books, history, batchvars>>

PolicyReturns(r) ==
  /\ stage[r] = "policy"
  /\ End(r, "returned")
  /\ UNCHANGED <<books, history, batchvars>>

PolicyFails(r) ==
  /\ stage[r] = "policy"
  /\ \E e \in PolicyErrors :
       /\ final' = [final EXCEPT ![r] = Classify(e) = "validation"]
       /\ IF IsRetryable(e) /\ attempt[r] < Retries
            THEN /\ attempt' = [attempt EXCEPT ![r] = @ + 1]
                 /\ UNCHANGED <<stage, result, entry, sid, round, answered>>
            ELSE Over(r, "failed")
  /\ UNCHANGED <<books, history, batchvars>>

-----------------------------------------------------------------------------

ItemEntry == IF batch.service = "groq" THEN GroqInvoke ELSE GeminiInvoke

(* batch, async_batch_chat, or batch_chat, which sends one prompt after    *)
(* another.                                                                *)
BeginBatch(service, limit, shared) ==
  /\ batch.state = "none"
  /\ service = "groq" => limit = Concurrency
  /\ batch' = [NoBatch EXCEPT !.state = "running", !.service = service,
                              !.shared = shared, !.limit = limit]
  /\ permits' = limit
  /\ UNCHANGED <<stage, reqvars, books, history>>

(* Permits are given in the order of the prompts.                          *)
TakePermit(i) ==
  /\ batch.state = "running"
  /\ permits > 0
  /\ stage[i] = "queued"
  /\ \A j \in Items : j < i => stage[j] # "queued"
  /\ permits' = permits - 1
  /\ Go(i, "new")
  /\ UNCHANGED <<reqvars, books, history, batch>>

(* All items name the session of the batch, or each gets one of its own.   *)
EnterItem(i) ==
  EnterBy(i, ItemEntry, {IF batch.shared THEN Shared ELSE i})

(* Mutant of Released: an error keeps its permit.                          *)
ReleasedOnSuccess(r) == IF result[r] = "returned" THEN permits + 1 ELSE permits

Released(r) == permits + 1

(* Mutant of Success: the field keeps its default.                         *)
SuccessByDefault(i) == TRUE

(* The flag of the item's BatchResult: async_invoke returned, or it raised *)
(* an Exception.                                                           *)
Success(i) == result[i] = "returned"

(* An item is over, whatever came of it.                                   *)
ItemEnds(i) ==
  /\ stage[i] = "done"
  /\ batch' = [batch EXCEPT !.success = IF Success(i) THEN @ \cup {i} ELSE @]
  /\ permits' = Released(i)
  /\ Go(i, "reported")
  /\ UNCHANGED <<reqvars, books, history>>

(* The summary counts the flags, whatever the results themselves hold.     *)
BatchReturns ==
  /\ batch.state = "running"
  /\ \A i \in Items : stage[i] = "reported"
  /\ batch' = [batch EXCEPT !.state = "done",
                            !.succeeded = Cardinality(batch.success),
                            !.failed = BatchSize - Cardinality(batch.success)]
  /\ UNCHANGED <<stage, reqvars, books, history, permits>>

(* Cancelling the batch cancels its items: those that wait for a permit    *)
(* are over at once, the others where they wait for upstream.              *)
CancelBatch ==
  /\ batch.state = "running"
  /\ batch' = [batch EXCEPT !.state = "cancelled"]
  /\ stage' = [r \in Requests |-> IF stage[r] = "queued" THEN "reported" ELSE stage[r]]
  /\ result' = [r \in Requests |-> IF stage[r] = "queued" THEN "cancelled" ELSE result[r]]
  /\ UNCHANGED <<locals, books, history, permits>>

-----------------------------------------------------------------------------

(* A bound: only the shared session expires, as another request may name   *)
(* it afterwards.                                                          *)
SessionExpires(s) ==
  /\ lapsed < Expiries
  /\ sessions[s].state = "open"
  /\ sessions' = [sessions EXCEPT ![s].state = "expired"]
  /\ lapsed' = lapsed + 1
  /\ UNCHANGED <<stage, reqvars, usage, journal, received, heard, batchvars>>

(* cleanup_sessions                                                        *)
ExpireOldSessions ==
  /\ \E s \in SessionIds : sessions[s].state = "expired"
  /\ sessions' = [s \in SessionIds |->
                    IF sessions[s].state = "expired" THEN Absent ELSE sessions[s]]
  /\ UNCHANGED <<stage, reqvars, usage, journal, history, batchvars>>

-----------------------------------------------------------------------------

Start(r) == Enter(r) \/ UsePolicy(r)

(* What a request does by itself once it has an answer.                    *)
Bookkeeping(r) == RecordUsage(r) \/ RecordSession(r) \/ Parse(r)

(* What comes from upstream, or from the pool.                             *)
Answer(r) ==
  Responds(r) \/ Fails(r) \/ NoKey(r) \/ PolicyReturns(r) \/ PolicyFails(r)

ItemStep(i) == TakePermit(i) \/ EnterItem(i) \/ ItemEnds(i)

Next ==
  \/ \E r \in Requests : Start(r) \/ Answer(r) \/ Bookkeeping(r) \/ Cancelled(r)
  \/ \E i \in Items : ItemStep(i)
  \/ \E service \in {"groq", "gemini"}, limit \in {1, Concurrency}, shared \in BOOLEAN :
       BeginBatch(service, limit, shared)
  \/ BatchReturns \/ CancelBatch
  \/ SessionExpires(Shared)
  \/ ExpireOldSessions

Spec == Init /\ [][Next]_vars

(* Threads and tasks run.  A call is answered if it carries a timeout:     *)
(* those for audio and those of GeminiService may wait for ever.           *)
FairSpec ==
  /\ Spec
  /\ \A r \in Requests :
       WF_vars(Bookkeeping(r)) /\ WF_vars(entry[r].client.timeout /\ Answer(r))
  /\ \A i \in Items : WF_vars(ItemStep(i))
  /\ WF_vars(BatchReturns)

-----------------------------------------------------------------------------

(* Stages, results, counters and the batch have their types; no round goes *)
(* beyond its last attempt, no structured request beyond its last repair.  *)
RequestsTypeOK ==
  /\ stage \in [Requests -> Stage]
  /\ entry \in [Requests -> {Underway(e) : e \in EntryPoints}]
  /\ \A r \in Requests : sid[r] \in {r, Shared}
  /\ round \in [Requests -> 0..JsonRetries]
  /\ attempt \in [Requests -> 0..Retries]
  /\ answered \in [Requests -> BOOLEAN]
  /\ result \in [Requests -> Result]
  /\ final \in [Requests -> BOOLEAN]
  /\ sessions \in
       [SessionIds -> [state : {"absent", "open", "expired"}, recorded : Nat]]
  /\ usage \in [succeeded : Nat, failed : Nat, tokens : Nat]
  /\ batch.state \in {"none", "running", "done", "cancelled"}
  /\ journal \in Nat /\ lapsed \in Nat /\ permits \in 0..Concurrency

At(s) == {r \in Requests : stage[r] = s}

AnsweredAt(s) == {r \in At(s) : answered[r]}

Reporting(rs) == {r \in rs : entry[r].client.tokens}

Recorded == [s \in SessionIds |-> sessions[s].recorded]

SessionTotal == SumFunctionOnSet(Recorded, SessionIds)

(* Every response that came back is booked exactly once, with its tokens,  *)
(* by whichever entry point asked for it - repairs, batches, responses     *)
(* that do not parse, sessions that expire under way, and cancellations of *)
(* other requests notwithstanding; the journal lags behind the totals by   *)
(* what is between the two writes, and no session counts a request that    *)
(* the totals do not (_record_success, _record_failure,                    *)
(* _record_success_raw).                                                   *)
BilledAreBooked ==
  /\ usage.succeeded + Cardinality(AnsweredAt("usage")) = received.responses
  /\ usage.tokens + Cardinality(Reporting(AnsweredAt("usage"))) = received.tokens
  /\ journal + Cardinality(AnsweredAt("session")) = usage.succeeded
  /\ SessionTotal + Cardinality(At("session")) <= usage.succeeded + usage.failed

(* The expiry of a session is reported to one request at most: the session *)
(* is deleted with the error, and the next request under its id gets a new *)
(* one (SessionManager.get_or_create).                                     *)
ExpiredOnce ==
  Cardinality({r \in Requests : result[r] = "expired"}) <= lapsed

(* No error that says that trying again is pointless is followed by        *)
(* another attempt: a refused key in the rotation loop, and what           *)
(* RetryClassifier calls a validation error in a RetryPolicy, whose        *)
(* predicate is a different function.                                      *)
FinalErrorsEnd ==
  \A r \in Requests : final[r] => stage[r] \notin {"upstream", "policy"}

(* Items of a batch that hold a permit: at most as many as its semaphore   *)
(* has, and none is lost to an error or a cancellation.                    *)
Holders == {i \in Items : stage[i] \notin {"queued", "reported"}}

PermitsAccounted == permits + Cardinality(Holders) = batch.limit

(* A batch tells the truth about what was paid for: the prompts flagged as *)
(* successes, and counted as such, are those that upstream answered, no    *)
(* matter which checks, sessions, keys or retries came in between; no      *)
(* answer is reported as an error and no error as an answer (BatchResult   *)
(* and BatchSummary of batch, batch_chat and async_batch_chat).            *)
BatchReportsAnswers ==
  batch.state = "done" =>
    /\ batch.success = heard
    /\ batch.succeeded = Cardinality(heard)
    /\ batch.failed = Cardinality(Items \ heard)

(* A batch on Groq, whose calls carry a timeout, comes to its end however  *)
(* its items fail, though they queue for its permits.                      *)
BatchEnds ==
  (batch.state = "running" /\ batch.service = "groq")
    ~> batch.state \in {"done", "cancelled"}

=============================================================================
