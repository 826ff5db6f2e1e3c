----------------------- MODULE InferenceClientProofs -----------------------
(***************************************************************************)
(* One call of Generate, proved for every number of retries and every set  *)
(* of status codes.  What its caller sees, the category, depends on what   *)
(* the retry loop knew several steps before: the inductive invariant says  *)
(* what is known at each place of the call.                                *)
(***************************************************************************)
EXTENDS InferenceClient, TLAPS

\* A retry is left whenever the call is on its way to an attempt, and every
\* attempt but the first is due to a reply worth retrying.
OnTheWay ==
  pc \in {"start", "attempt", "backoff"} =>
    /\ attempts <= MaxRetries
    /\ attempts > 0 => RetryCondition(reply)

\* Post gives up early only because the context has ended.
GivenUp ==
  pc = "map" =>
    /\ err \/ RetryCondition(reply) => attempts = MaxRetries + 1 \/ ctx # "live"
    /\ ~err => reply # NetError

\* The inductive invariant of the call.
IInv == TypeOK /\ OnTheWay /\ GivenUp /\ RetryableMeansExhausted

-----------------------------------------------------------------------------

\* Only what the retry condition holds for is reported as retryable, and the
\* other way round: client.go:127-135 and client.go:287-303 agree.
LEMMA CategoriesAgree ==
  ASSUME NEW code \in Codes
  PROVE  /\ Category(code) \in Categories
         /\ IsRetryable(Category(code)) <=> RetryCondition(code)
<1> code \in Int /\ code >= 100
  BY InferenceAssumption
<1>1. CASE code = 400
  BY <1>1 DEF Category, Categories, IsRetryable, RetryCondition, NetError
<1>2. CASE code \in {401, 403}
  BY <1>2 DEF Category, Categories, IsRetryable, RetryCondition, NetError
<1>3. CASE code = 429
  BY <1>3 DEF Category, Categories, IsRetryable, RetryCondition, NetError
<1>4. CASE code >= 500
  BY <1>4 DEF Category, Categories, IsRetryable, RetryCondition, NetError
<1>5. CASE code \notin {400, 401, 403, 429} /\ ~(code >= 500)
  BY <1>5 DEF Category, Categories, IsRetryable, RetryCondition, NetError
<1> QED BY <1>1, <1>2, <1>3, <1>4, <1>5

\* A call that has not been sent satisfies the invariant.
LEMMA CallInit == Init => IInv
<1> SUFFICES ASSUME Init PROVE IInv
  OBVIOUS
<1>1. attempts \in 0..(MaxRetries + 1) /\ attempts <= MaxRetries /\ ~(attempts > 0)
  BY InferenceAssumption DEF Init
<1>2. TypeOK
  BY <1>1, Zenon DEF Init, TypeOK
<1>3. OnTheWay
  BY <1>1 DEF OnTheWay
<1>4. GivenUp /\ RetryableMeansExhausted
  BY DEF Init, GivenUp, RetryableMeansExhausted
<1> QED BY <1>2, <1>3, <1>4 DEF IInv

\* Every step of a call preserves the invariant, one step per action.
LEMMA CallStep == IInv /\ [Next]_vars => IInv'
<1> SUFFICES ASSUME IInv, [Next]_vars PROVE IInv'
  OBVIOUS
<1> USE InferenceAssumption
<1>1. CASE Start
  BY <1>1 DEF Start, IInv, TypeOK, OnTheWay, GivenUp, RetryableMeansExhausted,
              IsRetryable, Categories
<1>2. CASE Attempt
  BY <1>2 DEF Attempt, IInv, TypeOK, OnTheWay, GivenUp, RetryableMeansExhausted
<1>3. CASE CheckReply
  <2> USE <1>3
  <2>1. CASE Again
    BY <2>1 DEF CheckReply, Again, IInv, TypeOK, OnTheWay, GivenUp, RetryableMeansExhausted
  <2>2. CASE ~Again
    <3>1. /\ pc = "check" /\ pc' = "map"
          /\ UNCHANGED <<valid, ctx, attempts, reply, result>>
      BY <2>2 DEF CheckReply
    <3>2. err' \in BOOLEAN /\ (err' <=> reply = NetError)
      BY <2>2 DEF CheckReply
    <3>3. RetryCondition(reply) => attempts = MaxRetries + 1 \/ ctx # "live"
      BY <2>2 DEF Again, IInv, TypeOK
    <3>4. err' => RetryCondition(reply)
      BY <3>2 DEF RetryCondition
    <3>5. GivenUp'
      BY <3>1, <3>2, <3>3, <3>4 DEF GivenUp
    <3> QED BY <3>1, <3>2, <3>5 DEF IInv, TypeOK, OnTheWay, RetryableMeansExhausted
  <2> QED BY <2>1, <2>2
<1>4. CASE BackoffElapsed
  BY <1>4 DEF BackoffElapsed, IInv, TypeOK, OnTheWay, GivenUp, RetryableMeansExhausted
<1>5. CASE BackoffCut
  BY <1>5 DEF BackoffCut, IInv, TypeOK, OnTheWay, GivenUp, RetryableMeansExhausted
<1>6. CASE MapResult
  <2>1. /\ pc = "map" /\ pc' = "returned"
        /\ UNCHANGED <<valid, ctx, attempts, reply, err>>
    BY <1>6 DEF MapResult
  <2>2. CASE err
    <3>1. result' \in Categories
      BY <1>6, <2>2 DEF MapResult, RequestError, Categories
    <3>2. attempts = MaxRetries + 1 \/ ctx # "live"
      BY <2>1, <2>2 DEF IInv, GivenUp
    <3> QED BY <2>1, <3>1, <3>2 DEF IInv, TypeOK, OnTheWay, GivenUp, RetryableMeansExhausted
  <2>3. CASE ~err /\ reply = 200
    <3>1. result' = Success
      BY <1>6, <2>3 DEF MapResult
    <3> QED BY <2>1, <3>1 DEF IInv, TypeOK, OnTheWay, GivenUp, RetryableMeansExhausted,
                              IsRetryable, Success
  <2>4. CASE ~err /\ reply # 200
    <3>1. result' = Category(reply)
      BY <1>6, <2>4 DEF MapResult
    <3>2. reply \in Codes
      BY <2>1, <2>4 DEF IInv, TypeOK, GivenUp
    <3>3. /\ result' \in Categories
          /\ IsRetryable(result') => RetryCondition(reply)
      BY <3>1, <3>2, CategoriesAgree
    <3>4. RetryCondition(reply) => attempts = MaxRetries + 1 \/ ctx # "live"
      BY <2>1 DEF IInv, GivenUp
    <3> QED BY <2>1, <3>3, <3>4 DEF IInv, TypeOK, OnTheWay, GivenUp, RetryableMeansExhausted
  <2> QED BY <2>2, <2>3, <2>4
<1>7. CASE CtxEnds
  BY <1>7 DEF CtxEnds, IInv, TypeOK, OnTheWay, GivenUp, RetryableMeansExhausted
<1>8. CASE UNCHANGED vars
  BY <1>8 DEF vars, IInv, TypeOK, OnTheWay, GivenUp, RetryableMeansExhausted,
              RetryCondition, IsRetryable
<1> QED BY <1>1, <1>2, <1>3, <1>4, <1>5, <1>6, <1>7, <1>8 DEF Next, CallNext

\* The inductive invariant holds in every reachable state.
LEMMA CallInvariant == Spec => []IInv
BY CallInit, CallStep, PTL DEF Spec

-----------------------------------------------------------------------------

(* Every variable of the call keeps its type; in particular there are      *)
(* never more than MaxRetries + 1 attempts (SetRetryCount, client.go:118), *)
(* and every status code has a category.                                   *)
THEOREM CallTypeCorrect == Spec => []TypeOK
BY CallInvariant, PTL DEF IInv

(* A retryable category (errors.go:23-27) reaches the caller only when     *)
(* every retry of client.go:127-135 is used up, or the context has ended.  *)
THEOREM RetryableIsExhausted == Spec => []RetryableMeansExhausted
BY CallInvariant, PTL DEF IInv

(* A definite answer of the gateway is never followed by another attempt:  *)
(* the retry condition (client.go:127-135) holds for nothing that          *)
(* mapStatusCodeToCategory (client.go:287-303) calls final.                *)
THEOREM DefiniteIsFinal == Spec => DefiniteNotResent
<1> DEFINE Step == attempts' > attempts /\ attempts > 0
                     => reply = NetError \/ IsRetryable(Category(reply))
<1>1. ASSUME IInv, [Next]_vars PROVE Step
  <2> SUFFICES ASSUME attempts' > attempts, attempts > 0, reply # NetError
               PROVE  IsRetryable(Category(reply))
    OBVIOUS
  <2>1. attempts \in Int
    BY <1>1, InferenceAssumption DEF IInv, TypeOK
  <2>2. attempts' # attempts
    BY <2>1
  <2>3. Attempt
    BY <1>1, <2>2 DEF Next, CallNext, vars, Start, CheckReply, BackoffElapsed,
                      BackoffCut, MapResult, CtxEnds
  <2>4. RetryCondition(reply) /\ reply \in Codes
    BY <1>1, <2>3 DEF IInv, TypeOK, OnTheWay, Attempt
  <2> QED BY <2>4, CategoriesAgree
<1>2. IInv /\ [Next]_vars => [Step]_vars
  BY <1>1
<1> QED BY <1>2, CallInvariant, PTL DEF Spec, DefiniteNotResent
=============================================================================
