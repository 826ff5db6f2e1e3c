-------------------------- MODULE InferenceClient --------------------------
(***************************************************************************)
(* One call of HTTPClient.Generate (internal/inference/client.go): the     *)
(* checks of the request, the attempts that the resty library makes under  *)
(* the client's retry condition, and the category that the caller gets.    *)
(* The context may end at any moment, also between a reply and the check   *)
(* that looks at it.                                                       *)
(***************************************************************************)
EXTENDS Integers

CONSTANTS MaxRetries,   \* config.MaxRetries; 0: no retry is configured
          Codes         \* HTTP status codes the gateway may answer with

ASSUME InferenceAssumption ==
  /\ MaxRetries \in Nat
  /\ Codes \subseteq 100..599

VARIABLES
  pc,         \* where the call is
  valid,      \* is the request there, with an endpoint?
  ctx,        \* the caller's context
  attempts,   \* attempts made
  reply,      \* what the last one brought: a status code, or NetError
  err,        \* did Post return an error?
  result      \* what Generate returns: Success or a category

vars == <<pc, valid, ctx, attempts, reply, err, result>>

NetError == 0      \* no response: network error, timeout, done context
Pending == "PENDING"
Success == "SUCCESS"

Categories == {"RATE_LIMIT", "SERVER_ERROR", "INVALID_REQ", "AUTH_ERROR", "UNKNOWN"}

TypeOK ==
  /\ pc \in {"start", "attempt", "check", "backoff", "map", "returned"}
  /\ valid \in BOOLEAN
  /\ ctx \in {"live", "canceled", "deadline"}
  /\ attempts \in 0..(MaxRetries + 1)
  /\ reply \in Codes \cup {NetError}
  /\ err \in BOOLEAN
  /\ result \in Categories \cup {Pending, Success}

Init ==
  /\ pc = "start"
  /\ valid \in BOOLEAN
  /\ ctx = "live"
  /\ attempts = 0
  /\ reply = NetError
  /\ err = FALSE
  /\ result = Pending

\* Mutants of RetryCondition: rate limits are final; refusals are retried.
RetryCondition_no429(r) == r = NetError \/ r >= 500
RetryCondition_4xx(r) == r = NetError \/ r >= 400

\* The retry condition: network errors, rate limits and server errors.
RetryCondition(r) == r = NetError \/ r = 429 \/ r >= 500

\* mapStatusCodeToCategory
Category(code) ==
  CASE code = 400           -> "INVALID_REQ"
    [] code \in {401, 403}  -> "AUTH_ERROR"
    [] code = 429           -> "RATE_LIMIT"
    [] code >= 500          -> "SERVER_ERROR"
    [] OTHER                -> "UNKNOWN"

\* handleRequestError, by the state of the context.
RequestError(c) == IF c = "canceled" THEN "UNKNOWN" ELSE "SERVER_ERROR"

\* ClientError.IsRetryable
IsRetryable(cat) == cat \in {"RATE_LIMIT", "SERVER_ERROR"}

-----------------------------------------------------------------------------

\* A missing request or an empty endpoint is refused before any attempt.
Start ==
  /\ pc = "start"
  /\ IF valid
       THEN pc' = "attempt" /\ result' = result
       ELSE pc' = "returned" /\ result' = "INVALID_REQ"
  /\ UNCHANGED <<valid, ctx, attempts, reply, err>>

\* One attempt of resty; a done context brings no response.
Attempt ==
  /\ pc = "attempt"
  /\ attempts' = attempts + 1
  /\ \/ reply' = NetError
     \/ ctx = "live" /\ reply' \in Codes
  /\ pc' = "check"
  /\ UNCHANGED <<valid, ctx, err, result>>

\* Mutant of Again: one attempt too many.
Again_oneMore == ctx = "live" /\ RetryCondition(reply) /\ attempts <= MaxRetries + 1

\* Is it worth another attempt?
Again == ctx = "live" /\ RetryCondition(reply) /\ attempts <= MaxRetries

(* resty's Backoff after an attempt: Post returns when the context is      *)
(* done, the reply is no reason to retry, or no retry is left.             *)
CheckReply ==
  /\ pc = "check"
  /\ IF Again
       THEN pc' = "backoff" /\ err' = err
       ELSE pc' = "map" /\ err' = (reply = NetError)
  /\ UNCHANGED <<valid, ctx, attempts, reply, result>>

\* Mutant of BackoffElapsed: only the context ends the wait.
BackoffElapsed_ctxOnly ==
  /\ pc = "backoff"
  /\ ctx # "live"
  /\ pc' = "attempt"
  /\ UNCHANGED <<valid, ctx, attempts, reply, err, result>>

\* The wait between attempts ends ...
BackoffElapsed ==
  /\ pc = "backoff"
  /\ pc' = "attempt"
  /\ UNCHANGED <<valid, ctx, attempts, reply, err, result>>

\* ... or is cut short by the context, and Post returns ctx.Err().
BackoffCut ==
  /\ pc = "backoff"
  /\ ctx # "live"
  /\ pc' = "map"
  /\ err' = TRUE
  /\ UNCHANGED <<valid, ctx, attempts, reply, result>>

\* Generate turns what Post returned into a response or a category.
MapResult ==
  /\ pc = "map"
  /\ pc' = "returned"
  /\ result' = IF err THEN RequestError(ctx)
               ELSE IF reply = 200 THEN Success
               ELSE Category(reply)
  /\ UNCHANGED <<valid, ctx, attempts, reply, err>>

CtxEnds ==
  /\ ctx = "live"
  /\ pc # "returned"
  /\ ctx' \in {"canceled", "deadline"}
  /\ UNCHANGED <<pc, valid, attempts, reply, err, result>>

CallNext ==
  Start \/ Attempt \/ CheckReply \/ BackoffElapsed \/ BackoffCut \/ MapResult

Next == CallNext \/ CtxEnds

Spec == Init /\ [][Next]_vars

\* The client's timeout ends every attempt, a timer every wait.
FairSpec == Spec /\ WF_vars(CallNext)

-----------------------------------------------------------------------------

(* The retry condition (client.go:127-135) and the categories              *)
(* (client.go:287-303, errors.go:23-27) agree: a caller that gets a        *)
(* retryable category of a live context knows that the retries are used    *)
(* up, and need not wonder whether the client gave up early.               *)
RetryableMeansExhausted ==
  pc = "returned" /\ IsRetryable(result)
    => attempts = MaxRetries + 1 \/ ctx # "live"

(* And the other way round: what the gateway answered definitely, a        *)
(* success or a refusal the caller is told not to retry, is never sent to  *)
(* the model server again.                                                 *)
DefiniteNotResent ==
  [][attempts' > attempts /\ attempts > 0
       => reply = NetError \/ IsRetryable(Category(reply))]_vars

(* Generate returns (client.go:152-228), whatever the gateway and the      *)
(* context do: a line's goroutine is not held forever.                     *)
GenerateReturns == <>(pc = "returned")
=============================================================================
