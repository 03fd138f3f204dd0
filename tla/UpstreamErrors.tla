--------------------------- MODULE UpstreamErrors ---------------------------
(***************************************************************************)
(* From an exception of a provider's SDK to what the pool does about it:   *)
(* the error mapping of the provider clients, the two predicates by which  *)
(* the rotation loop tells errors apart, and the predicate and the         *)
(* classifier of the fixed-key retry policies (services/retry.py).         *)
(*                                                                         *)
(* An error is the name of its class and its status_code, NoStatus where   *)
(* it has none.                                                            *)
(***************************************************************************)
EXTENDS Integers

NoStatus == 0

Error(class, status) == [class |-> class, status |-> status]

(* What the Groq SDK raises: it names its classes by the HTTP status.      *)
GroqErrors ==
  {Error("AuthenticationError", 401), Error("PermissionDeniedError", 403),
   Error("RateLimitError", 429), Error("BadRequestError", 400),
   Error("NotFoundError", 404), Error("UnprocessableEntityError", 422),
   Error("InternalServerError", 500), Error("APIStatusError", 413),
   Error("APIConnectionError", NoStatus), Error("APITimeoutError", NoStatus)}

(* What may come from google-genai: its own classes carry the status as    *)
(* "code", and the client knows some names of google.api_core.             *)
GeminiErrors ==
  {Error("ClientError", NoStatus), Error("ServerError", NoStatus),
   Error("PermissionDenied", NoStatus), Error("Unauthenticated", NoStatus),
   Error("Forbidden", NoStatus), Error("ResourceExhausted", NoStatus),
   Error("TooManyRequests", NoStatus), Error("ConnectError", NoStatus)}

(* A response without the fields that the client reads.                    *)
Malformed == Error("InvalidResponseError", NoStatus)

SdkErrors(service) == IF service = "groq" THEN GroqErrors ELSE GeminiErrors

-----------------------------------------------------------------------------

IsRateLimit(e) ==
  \/ e.class \in {"RateLimitError", "RateLimitExceededError"}
  \/ e.class = "InvalidResponseError" /\ e.status = 429

IsAuthError(e) ==
  \/ e.status \in {401, 403}
  \/ e.class \in {"AuthenticationError", "PermissionDeniedError"}

(* BaseProvider._handle_sdk_error: the exception the service sees.         *)
GroqHandled(e) ==
  CASE IsAuthError(e) -> Error("APIKeyDisabledError", e.status)
    [] ~IsAuthError(e) /\ IsRateLimit(e) ->
         Error("RateLimitExceededError", NoStatus)
    [] OTHER -> e

(* GeminiProvider._handle_sdk_error goes by the names of classes alone; a  *)
(* refusal without a status gets 403.                                      *)
GeminiHandled(e) ==
  CASE e.class \in {"PermissionDenied", "Unauthenticated", "Forbidden"} ->
         Error("APIKeyDisabledError", IF e.status = NoStatus THEN 403 ELSE e.status)
    [] e.class \in {"ResourceExhausted", "TooManyRequests"} ->
         Error("RateLimitExceededError", NoStatus)
    [] OTHER -> e

(* The except clauses of the rotation loop.                                *)
Branch(e) ==
  CASE e.class \in {"NoAvailableAPIKeyError", "APIKeyDisabledError"} -> "disabled"
    [] e.class \notin {"NoAvailableAPIKeyError", "APIKeyDisabledError"} ->
         IF IsAuthError(e) THEN "denied"
         ELSE IF IsRateLimit(e) THEN "rate_limited" ELSE "failed"

Outcome(service, e) ==
  Branch(IF service = "groq" THEN GroqHandled(e) ELSE GeminiHandled(e))

-----------------------------------------------------------------------------

RetryableStatus == {429, 500, 502, 503, 504}

FatalStatus == {400, 401, 403, 404, 422}

OwnErrors ==
  {"APIKeyDisabledError", "StructuredOutputError", "NoAvailableAPIKeyError"}

RetryableNames ==
  {"RateLimitError", "APIStatusError", "APIConnectionError", "APITimeoutError",
   "InternalServerError", "ServiceUnavailableError"}

HttpxErrors ==
  {"ConnectError", "ConnectTimeout", "ReadTimeout", "RemoteProtocolError"}

(* Mutant of IsRetryable: the status is not looked at.                     *)
IsRetryableByName(e) ==
  \/ e.class = "InvalidResponseError"
  \/ e.class \in RetryableNames \cup HttpxErrors

(* _is_retryable: the names come before the httpx classes.                 *)
IsRetryable(e) ==
  /\ e.class \notin OwnErrors
  /\ \/ e.class = "InvalidResponseError" /\ e.status \in RetryableStatus \ FatalStatus
     \/ e.class \in RetryableNames /\ e.status \notin FatalStatus
     \/ e.class \in HttpxErrors

(* RetryClassifier.classify                                                *)
Classify(e) ==
  CASE e.class \in {"APIKeyDisabledError", "NoAvailableAPIKeyError"} -> "quota"
    [] e.class = "StructuredOutputError" -> "validation"
    [] e.class = "InvalidResponseError" ->
         CASE e.status = 429 -> "quota"
           [] e.status \in FatalStatus -> "validation"
           [] e.status \in RetryableStatus \ {429} -> "provider"
           [] OTHER -> "unknown"
    [] e.class \in {"APIConnectionError", "APITimeoutError", "TimeoutException",
                    "ConnectError", "RemoteProtocolError"} -> "transport"
    [] e.class = "RateLimitError" -> "quota"
    [] e.class \in {"APIStatusError", "InternalServerError",
                    "ServiceUnavailableError"} -> "provider"
    [] e.class \in {"AuthenticationError", "PermissionDeniedError",
                    "BadRequestError", "NotFoundError"} -> "validation"
    [] OTHER -> "unknown"

(* What a fixed-key call may raise: the SDK's errors, or those of a client *)
(* around it.                                                              *)
PolicyErrors ==
  GroqErrors \cup {GroqHandled(e) : e \in GroqErrors}
    \cup {Error("InvalidResponseError", s) : s \in {NoStatus, 422, 429, 503}}

-----------------------------------------------------------------------------

(* Every answer of Groq reaches the branch of the rotation loop that its   *)
(* HTTP status calls for, through the two layers that recognise errors by  *)
(* class name or status (_handle_sdk_error, then the except clauses): a    *)
(* refused key is disabled, a 429 starts a cooldown, and all else counts   *)
(* as a failure of the key.                                                *)
ErrorsReachTheirBranch ==
  \A e \in GroqErrors :
    Outcome("groq", e) =
      CASE e.status \in {401, 403} -> "disabled"
        [] e.status = 429 -> "rate_limited"
        [] OTHER -> "failed"

=============================================================================
