-------------------------- MODULE JWTClient_proofs --------------------------
(***************************************************************************)
(* Proofs about JWTClient, for every set of callers and number of calls.   *)
(***************************************************************************)
EXTENDS JWTClient, TLAPS

USE ClientAssumption

-----------------------------------------------------------------------------

(* Every step keeps the types.                                             *)
LEMMA TypeStep ==
    TypeOK /\ [Next]_vars => TypeOK'
<1> SUFFICES ASSUME TypeOK, [Next]_vars
             PROVE  TypeOK'
  OBVIOUS
<1> USE DEF TypeOK
<1>1. ASSUME NEW c \in Callers, Call(c)
      PROVE  TypeOK'
  BY <1>1 DEF Call, GoTo, mutex, api, locals, history
<1>2. ASSUME NEW c \in Callers, ReuseToken(c)
      PROVE  TypeOK'
  BY <1>2 DEF ReuseToken, GoTo, mutex, api, locals, history
<1>3. ASSUME NEW c \in Callers, Login(c)
      PROVE  TypeOK'
  BY <1>3 DEF Login, GoTo, mutex, api, locals, history
<1>4. ASSUME NEW c \in Callers, GrantToken(c)
      PROVE  TypeOK'
  BY <1>4 DEF GrantToken, GoTo, mutex, api, locals, history
<1>5. ASSUME NEW c \in Callers, LoginReturns(c)
      PROVE  TypeOK'
  BY <1>5 DEF LoginReturns, GoTo, mutex, api, locals, history
<1>6. ASSUME NEW c \in Callers, LoginFails(c)
      PROVE  TypeOK'
  BY <1>6 DEF LoginFails, GoTo, Return, mutex, api, locals, history
<1>7. ASSUME NEW c \in Callers, Serve(c)
      PROVE  TypeOK'
  <2>1. revoked' \in [Callers -> BOOLEAN]
    BY <1>7 DEF Serve
  <2>2. effects' \in [Callers -> Nat]
    BY <1>7 DEF Serve
  <2>3. answer' \in [Callers -> {"none", "ok", "refused", "unauthorized"}]
    BY <1>7 DEF Serve
  <2>4. pc' \in [Callers -> {"idle", "ensure", "login", "granted", "send", "answered"}]
    BY <1>7 DEF Serve, GoTo
  <2>5. UNCHANGED <<mutex, api, bearer, creates, attempt, calls, result, reasons>>
    BY <1>7 DEF Serve
  <2> QED
    BY <2>1, <2>2, <2>3, <2>4, <2>5 DEF mutex, api
<1>8. ASSUME NEW c \in Callers, RequestFails(c)
      PROVE  TypeOK'
  BY <1>8 DEF RequestFails, GoTo, Return, mutex, api, locals, history
<1>9. ASSUME NEW c \in Callers, ClearToken(c)
      PROVE  TypeOK'
  <2>1. token' \in Nat /\ fresh' \in BOOLEAN
    BY <1>9 DEF ClearToken
  <2>2. reasons' \in Nat
    BY <1>9 DEF ClearToken
  <2>3. attempt' \in [Callers -> {1, 2}]
    BY <1>9 DEF ClearToken
  <2>4. answer' \in [Callers -> {"none", "ok", "refused", "unauthorized"}]
    BY <1>9 DEF ClearToken
  <2>5. pc' \in [Callers -> {"idle", "ensure", "login", "granted", "send", "answered"}]
    BY <1>9 DEF ClearToken, GoTo
  <2>6. UNCHANGED <<holder, api, bearer, creates, calls, result, effects, revoked>>
    BY <1>9 DEF ClearToken
  <2> QED
    BY <2>1, <2>2, <2>3, <2>4, <2>5, <2>6 DEF api
<1>10. ASSUME NEW c \in Callers, Finish(c)
      PROVE  TypeOK'
  BY <1>10 DEF Finish, GoTo, Return, mutex, api, locals, history
<1>11. ASSUME NEW t \in valid, Revoke(t)
      PROVE  TypeOK'
  BY <1>11 DEF Revoke, mutex, locals
<1>12. CASE Expire
  <2>1. fresh' \in BOOLEAN
    BY <1>12 DEF Expire
  <2>2. reasons' \in Nat
    BY <1>12 DEF Expire
  <2>3. UNCHANGED <<token, holder, api, pc, locals, calls, result, effects, revoked>>
    BY <1>12 DEF Expire
  <2> QED
    BY <2>1, <2>2, <2>3 DEF api, locals
<1>13. CASE UNCHANGED vars
  BY <1>13 DEF vars, mutex, api, locals, history
<1> QED
  BY <1>1, <1>2, <1>3, <1>4, <1>5, <1>6, <1>7, <1>8, <1>9, <1>10, <1>11, <1>12, <1>13 DEF Next, Step

(* Every step keeps the mutex with the caller in the login.                *)
LEMMA LoginsExcludeStep ==
    TypeOK /\ LoginsExclude /\ [Next]_vars => LoginsExclude'
<1> SUFFICES ASSUME TypeOK, LoginsExclude, [Next]_vars
             PROVE  LoginsExclude'
  OBVIOUS
<1> USE DEF LoginsExclude, TypeOK
<1>1. ASSUME NEW c \in Callers, Call(c)
      PROVE  LoginsExclude'
  BY <1>1 DEF Call, GoTo, mutex, api, locals, history
<1>2. ASSUME NEW c \in Callers, ReuseToken(c)
      PROVE  LoginsExclude'
  BY <1>2 DEF ReuseToken, GoTo, mutex, api, locals, history
<1>3. ASSUME NEW c \in Callers, Login(c)
      PROVE  LoginsExclude'
  BY <1>3 DEF Login, GoTo, mutex, api, locals, history
<1>4. ASSUME NEW c \in Callers, GrantToken(c)
      PROVE  LoginsExclude'
  BY <1>4 DEF GrantToken, GoTo, mutex, api, locals, history
<1>5. ASSUME NEW c \in Callers, LoginReturns(c)
      PROVE  LoginsExclude'
  BY <1>5 DEF LoginReturns, GoTo, mutex, api, locals, history
<1>6. ASSUME NEW c \in Callers, LoginFails(c)
      PROVE  LoginsExclude'
  BY <1>6 DEF LoginFails, GoTo, Return, mutex, api, locals, history
<1>7. ASSUME NEW c \in Callers, Serve(c)
      PROVE  LoginsExclude'
  BY <1>7 DEF Serve, GoTo, mutex, api, locals, history
<1>8. ASSUME NEW c \in Callers, RequestFails(c)
      PROVE  LoginsExclude'
  BY <1>8 DEF RequestFails, GoTo, Return, mutex, api, locals, history
<1>9. ASSUME NEW c \in Callers, ClearToken(c)
      PROVE  LoginsExclude'
  BY <1>9 DEF ClearToken, GoTo, mutex, api, locals, history
<1>10. ASSUME NEW c \in Callers, Finish(c)
      PROVE  LoginsExclude'
  BY <1>10 DEF Finish, GoTo, Return, mutex, api, locals, history
<1>11. ASSUME NEW t \in valid, Revoke(t)
      PROVE  LoginsExclude'
  BY <1>11 DEF Revoke, mutex, locals
<1>12. CASE Expire
  BY <1>12 DEF Expire, api, locals
<1>13. CASE UNCHANGED vars
  BY <1>13 DEF vars, mutex, api, locals, history
<1> QED
  BY <1>1, <1>2, <1>3, <1>4, <1>5, <1>6, <1>7, <1>8, <1>9, <1>10, <1>11, <1>12, <1>13 DEF Next, Step

(* Every step keeps the retry's token valid: nobody is in a login when the token is cleared. *)
LEMMA RetryStep ==
    TypeOK /\ LoginsExclude /\ RetryHasValidToken /\ [Next]_vars => RetryHasValidToken'
<1> SUFFICES ASSUME TypeOK, LoginsExclude, RetryHasValidToken, [Next]_vars
             PROVE  RetryHasValidToken'
  OBVIOUS
<1> USE DEF RetryHasValidToken, TypeOK, LoginsExclude
<1>1. ASSUME NEW c \in Callers, Call(c)
      PROVE  RetryHasValidToken'
  BY <1>1 DEF Call, GoTo, mutex, api, locals, history
<1>2. ASSUME NEW c \in Callers, ReuseToken(c)
      PROVE  RetryHasValidToken'
  BY <1>2 DEF ReuseToken, GoTo, mutex, api, locals, history
<1>3. ASSUME NEW c \in Callers, Login(c)
      PROVE  RetryHasValidToken'
  BY <1>3 DEF Login, GoTo, mutex, api, locals, history
<1>4. ASSUME NEW c \in Callers, GrantToken(c)
      PROVE  RetryHasValidToken'
  BY <1>4 DEF GrantToken, GoTo, mutex, api, locals, history
<1>5. ASSUME NEW c \in Callers, LoginReturns(c)
      PROVE  RetryHasValidToken'
  BY <1>5 DEF LoginReturns, GoTo, mutex, api, locals, history
<1>6. ASSUME NEW c \in Callers, LoginFails(c)
      PROVE  RetryHasValidToken'
  BY <1>6 DEF LoginFails, GoTo, Return, mutex, api, locals, history
<1>7. ASSUME NEW c \in Callers, Serve(c)
      PROVE  RetryHasValidToken'
  BY <1>7 DEF Serve, GoTo, mutex, api, locals, history
<1>8. ASSUME NEW c \in Callers, RequestFails(c)
      PROVE  RetryHasValidToken'
  BY <1>8 DEF RequestFails, GoTo, Return, mutex, api, locals, history
<1>9. ASSUME NEW c \in Callers, ClearToken(c)
      PROVE  RetryHasValidToken'
  BY <1>9 DEF ClearToken, GoTo, mutex, api, locals, history
<1>10. ASSUME NEW c \in Callers, Finish(c)
      PROVE  RetryHasValidToken'
  BY <1>10 DEF Finish, GoTo, Return, mutex, api, locals, history
<1>11. ASSUME NEW t \in valid, Revoke(t)
      PROVE  RetryHasValidToken'
  BY <1>11 DEF Revoke, mutex, locals
<1>12. CASE Expire
  BY <1>12 DEF Expire, api, locals
<1>13. CASE UNCHANGED vars
  BY <1>13 DEF vars, mutex, api, locals, history
<1> QED
  BY <1>1, <1>2, <1>3, <1>4, <1>5, <1>6, <1>7, <1>8, <1>9, <1>10, <1>11, <1>12, <1>13 DEF Next, Step

(* A call has a result only when it ends.                                  *)
LEMMA PendingStep ==
    TypeOK /\ ResultPending /\ [Next]_vars => ResultPending'
<1> SUFFICES ASSUME TypeOK, ResultPending, [Next]_vars
             PROVE  ResultPending'
  OBVIOUS
<1> USE DEF ResultPending, TypeOK
<1>1. ASSUME NEW c \in Callers, Call(c)
      PROVE  ResultPending'
  BY <1>1 DEF Call, GoTo, mutex, api, locals, history
<1>2. ASSUME NEW c \in Callers, ReuseToken(c)
      PROVE  ResultPending'
  BY <1>2 DEF ReuseToken, GoTo, mutex, api, locals, history
<1>3. ASSUME NEW c \in Callers, Login(c)
      PROVE  ResultPending'
  BY <1>3 DEF Login, GoTo, mutex, api, locals, history
<1>4. ASSUME NEW c \in Callers, GrantToken(c)
      PROVE  ResultPending'
  BY <1>4 DEF GrantToken, GoTo, mutex, api, locals, history
<1>5. ASSUME NEW c \in Callers, LoginReturns(c)
      PROVE  ResultPending'
  BY <1>5 DEF LoginReturns, GoTo, mutex, api, locals, history
<1>6. ASSUME NEW c \in Callers, LoginFails(c)
      PROVE  ResultPending'
  BY <1>6 DEF LoginFails, GoTo, Return, mutex, api, locals, history
<1>7. ASSUME NEW c \in Callers, Serve(c)
      PROVE  ResultPending'
  BY <1>7 DEF Serve, GoTo, mutex, api, locals, history
<1>8. ASSUME NEW c \in Callers, RequestFails(c)
      PROVE  ResultPending'
  BY <1>8 DEF RequestFails, GoTo, Return, mutex, api, locals, history
<1>9. ASSUME NEW c \in Callers, ClearToken(c)
      PROVE  ResultPending'
  BY <1>9 DEF ClearToken, GoTo, mutex, api, locals, history
<1>10. ASSUME NEW c \in Callers, Finish(c)
      PROVE  ResultPending'
  BY <1>10 DEF Finish, GoTo, Return, mutex, api, locals, history
<1>11. ASSUME NEW t \in valid, Revoke(t)
      PROVE  ResultPending'
  BY <1>11 DEF Revoke, mutex, locals
<1>12. CASE Expire
  BY <1>12 DEF Expire, api, locals
<1>13. CASE UNCHANGED vars
  BY <1>13 DEF vars, mutex, api, locals, history
<1> QED
  BY <1>1, <1>2, <1>3, <1>4, <1>5, <1>6, <1>7, <1>8, <1>9, <1>10, <1>11, <1>12, <1>13 DEF Next, Step

(* A second 401 ends a call only in the retry.                             *)
LEMMA RejectionStep ==
    TypeOK /\ RetryHasValidToken /\ ResultPending /\ SecondRejectionJustified /\ [Next]_vars => SecondRejectionJustified'
<1> SUFFICES ASSUME TypeOK, RetryHasValidToken, ResultPending, SecondRejectionJustified, [Next]_vars
             PROVE  SecondRejectionJustified'
  OBVIOUS
<1> USE DEF SecondRejectionJustified, TypeOK, RetryHasValidToken, ResultPending
<1>1. ASSUME NEW c \in Callers, Call(c)
      PROVE  SecondRejectionJustified'
  BY <1>1 DEF Call, GoTo, mutex, api, locals, history
<1>2. ASSUME NEW c \in Callers, ReuseToken(c)
      PROVE  SecondRejectionJustified'
  BY <1>2 DEF ReuseToken, GoTo, mutex, api, locals, history
<1>3. ASSUME NEW c \in Callers, Login(c)
      PROVE  SecondRejectionJustified'
  BY <1>3 DEF Login, GoTo, mutex, api, locals, history
<1>4. ASSUME NEW c \in Callers, GrantToken(c)
      PROVE  SecondRejectionJustified'
  BY <1>4 DEF GrantToken, GoTo, mutex, api, locals, history
<1>5. ASSUME NEW c \in Callers, LoginReturns(c)
      PROVE  SecondRejectionJustified'
  BY <1>5 DEF LoginReturns, GoTo, mutex, api, locals, history
<1>6. ASSUME NEW c \in Callers, LoginFails(c)
      PROVE  SecondRejectionJustified'
  BY <1>6 DEF LoginFails, GoTo, Return, mutex, api, locals, history
<1>7. ASSUME NEW c \in Callers, Serve(c)
      PROVE  SecondRejectionJustified'
  BY <1>7 DEF Serve, GoTo, mutex, api, locals, history
<1>8. ASSUME NEW c \in Callers, RequestFails(c)
      PROVE  SecondRejectionJustified'
  BY <1>8 DEF RequestFails, GoTo, Return, mutex, api, locals, history
<1>9. ASSUME NEW c \in Callers, ClearToken(c)
      PROVE  SecondRejectionJustified'
  BY <1>9 DEF ClearToken, GoTo, mutex, api, locals, history
<1>10. ASSUME NEW c \in Callers, Finish(c)
      PROVE  SecondRejectionJustified'
  BY <1>10 DEF Finish, GoTo, Return, mutex, api, locals, history
<1>11. ASSUME NEW t \in valid, Revoke(t)
      PROVE  SecondRejectionJustified'
  BY <1>11 DEF Revoke, mutex, locals
<1>12. CASE Expire
  BY <1>12 DEF Expire, api, locals
<1>13. CASE UNCHANGED vars
  BY <1>13 DEF vars, mutex, api, locals, history
<1> QED
  BY <1>1, <1>2, <1>3, <1>4, <1>5, <1>6, <1>7, <1>8, <1>9, <1>10, <1>11, <1>12, <1>13 DEF Next, Step

(* Every step keeps the count of a call's effects.                         *)
LEMMA EffectsStep ==
    TypeOK /\ EffectsCounted /\ [Next]_vars => EffectsCounted'
<1> SUFFICES ASSUME TypeOK, EffectsCounted, [Next]_vars
             PROVE  EffectsCounted'
  OBVIOUS
<1> USE DEF EffectsCounted, TypeOK
<1>1. ASSUME NEW c \in Callers, Call(c)
      PROVE  EffectsCounted'
  BY <1>1 DEF Call, GoTo, mutex, api, locals, history
<1>2. ASSUME NEW c \in Callers, ReuseToken(c)
      PROVE  EffectsCounted'
  BY <1>2 DEF ReuseToken, GoTo, mutex, api, locals, history
<1>3. ASSUME NEW c \in Callers, Login(c)
      PROVE  EffectsCounted'
  BY <1>3 DEF Login, GoTo, mutex, api, locals, history
<1>4. ASSUME NEW c \in Callers, GrantToken(c)
      PROVE  EffectsCounted'
  BY <1>4 DEF GrantToken, GoTo, mutex, api, locals, history
<1>5. ASSUME NEW c \in Callers, LoginReturns(c)
      PROVE  EffectsCounted'
  BY <1>5 DEF LoginReturns, GoTo, mutex, api, locals, history
<1>6. ASSUME NEW c \in Callers, LoginFails(c)
      PROVE  EffectsCounted'
  BY <1>6 DEF LoginFails, GoTo, Return, mutex, api, locals, history
<1>7. ASSUME NEW c \in Callers, Serve(c)
      PROVE  EffectsCounted'
  BY <1>7 DEF Serve, GoTo, mutex, api, locals, history
<1>8. ASSUME NEW c \in Callers, RequestFails(c)
      PROVE  EffectsCounted'
  BY <1>8 DEF RequestFails, GoTo, Return, mutex, api, locals, history
<1>9. ASSUME NEW c \in Callers, ClearToken(c)
      PROVE  EffectsCounted'
  BY <1>9 DEF ClearToken, GoTo, mutex, api, locals, history
<1>10. ASSUME NEW c \in Callers, Finish(c)
      PROVE  EffectsCounted'
  BY <1>10 DEF Finish, GoTo, Return, mutex, api, locals, history
<1>11. ASSUME NEW t \in valid, Revoke(t)
      PROVE  EffectsCounted'
  BY <1>11 DEF Revoke, mutex, locals
<1>12. CASE Expire
  BY <1>12 DEF Expire, api, locals
<1>13. CASE UNCHANGED vars
  BY <1>13 DEF vars, mutex, api, locals, history
<1> QED
  BY <1>1, <1>2, <1>3, <1>4, <1>5, <1>6, <1>7, <1>8, <1>9, <1>10, <1>11, <1>12, <1>13 DEF Next, Step

(* Every step keeps the count of logins within the reasons for them.       *)
LEMMA LoginsStep ==
    TypeOK /\ LoginsExclude /\ LoginsCounted /\ [Next]_vars => LoginsCounted'
<1> SUFFICES ASSUME TypeOK, LoginsExclude, LoginsCounted, [Next]_vars
             PROVE  LoginsCounted'
  OBVIOUS
<1> USE DEF LoginsCounted, TypeOK, LoginsExclude
<1>1. ASSUME NEW c \in Callers, Call(c)
      PROVE  LoginsCounted'
  BY <1>1 DEF Call, GoTo, mutex, api, locals, history
<1>2. ASSUME NEW c \in Callers, ReuseToken(c)
      PROVE  LoginsCounted'
  BY <1>2 DEF ReuseToken, GoTo, mutex, api, locals, history
<1>3. ASSUME NEW c \in Callers, Login(c)
      PROVE  LoginsCounted'
  BY <1>3 DEF Login, GoTo, mutex, api, locals, history
<1>4. ASSUME NEW c \in Callers, GrantToken(c)
      PROVE  LoginsCounted'
  <2>1. pc[c] = "login" /\ granted' = granted + 1 /\ UNCHANGED <<reasons, holder>>
    BY <1>4 DEF GrantToken, mutex, history
  <2>2. holder = c /\ granted <= reasons /\ granted \in Nat /\ reasons \in Nat
    BY <1>4, <2>1
  <2>3. granted' <= reasons' + 1
    BY <2>1, <2>2
  <2>4. holder' # Nobody
    BY <2>1, <2>2
  <2>5. pc' = [pc EXCEPT ![c] = "granted"] /\ bearer' = [bearer EXCEPT ![c] = granted']
    BY <1>4 DEF GrantToken, GoTo
  <2>6. ASSUME NEW d \in Callers
        PROVE  pc'[d] # "login" /\ (pc'[d] = "granted" => bearer'[d] # 0)
    <3>1. CASE d = c
      BY <2>1, <2>2, <2>5, <3>1
    <3>2. CASE d # c
      <4>1. pc[d] \notin {"login", "granted"}
        BY <2>2, <3>2
      <4>2. pc'[d] = pc[d]
        BY <2>5, <3>2
      <4> QED
        BY <4>1, <4>2
    <3> QED
      BY <3>1, <3>2
  <2> QED
    BY <2>3, <2>4, <2>6
<1>5. ASSUME NEW c \in Callers, LoginReturns(c)
      PROVE  LoginsCounted'
  <2>1. granted <= reasons + 1 /\ granted \in Nat /\ reasons \in Nat
    OBVIOUS
  <2>2. granted' = granted
    BY <1>5 DEF LoginReturns, api
  <2>3. CASE fresh' = TRUE
    <3>1. reasons' = reasons
      BY <1>5, <2>3 DEF LoginReturns
    <3>2. token' # 0
      <4>1. pc[c] = "granted" /\ token' = bearer[c]
        BY <1>5 DEF LoginReturns
      <4>2. bearer[c] # 0
        BY <1>5, <4>1
      <4> QED
        BY <4>1, <4>2
    <3> QED
      BY <1>5, <2>1, <2>2, <2>3, <3>1, <3>2 DEF LoginReturns, GoTo
  <2>4. CASE fresh' = FALSE
    <3>1. reasons' = reasons + 1
      BY <1>5, <2>4 DEF LoginReturns
    <3>2. granted' <= reasons' /\ granted' <= reasons' + 1
      BY <2>1, <2>2, <3>1
    <3>3. pc' = [pc EXCEPT ![c] = "send"] /\ UNCHANGED bearer
      BY <1>5 DEF LoginReturns, GoTo, locals
    <3> QED
      BY <3>2, <3>3
  <2> QED
    BY <1>5, <2>3, <2>4 DEF LoginReturns
<1>6. ASSUME NEW c \in Callers, LoginFails(c)
      PROVE  LoginsCounted'
  BY <1>6 DEF LoginFails, GoTo, Return, mutex, api, locals, history
<1>7. ASSUME NEW c \in Callers, Serve(c)
      PROVE  LoginsCounted'
  BY <1>7 DEF Serve, GoTo, mutex, api, locals, history
<1>8. ASSUME NEW c \in Callers, RequestFails(c)
      PROVE  LoginsCounted'
  BY <1>8 DEF RequestFails, GoTo, Return, mutex, api, locals, history
<1>9. ASSUME NEW c \in Callers, ClearToken(c)
      PROVE  LoginsCounted'
  BY <1>9 DEF ClearToken, GoTo, mutex, api, locals, history
<1>10. ASSUME NEW c \in Callers, Finish(c)
      PROVE  LoginsCounted'
  BY <1>10 DEF Finish, GoTo, Return, mutex, api, locals, history
<1>11. ASSUME NEW t \in valid, Revoke(t)
      PROVE  LoginsCounted'
  BY <1>11 DEF Revoke, mutex, locals
<1>12. CASE Expire
  BY <1>12 DEF Expire, api, locals
<1>13. CASE UNCHANGED vars
  BY <1>13 DEF vars, mutex, api, locals, history
<1> QED
  BY <1>1, <1>2, <1>3, <1>4, <1>5, <1>6, <1>7, <1>8, <1>9, <1>10, <1>11, <1>12, <1>13 DEF Next, Step

(* The inductive invariant holds of the new client.                        *)
LEMMA IInvInit == Init => IInv
<1> SUFFICES ASSUME Init
             PROVE  IInv
  OBVIOUS
<1>1. TypeOK
  BY DEF Init, TypeOK
<1>2. LoginsExclude
  BY DEF Init, LoginsExclude
<1>3. RetryHasValidToken /\ ResultPending /\ SecondRejectionJustified
  BY DEF Init, RetryHasValidToken, ResultPending, SecondRejectionJustified
<1>4. EffectsCounted
  BY DEF Init, EffectsCounted
<1>5. LoginsCounted
  BY DEF Init, LoginsCounted
<1> QED
  BY <1>1, <1>2, <1>3, <1>4, <1>5 DEF IInv

(* Every step keeps the inductive invariant.                               *)
LEMMA IInvStep == IInv /\ [Next]_vars => IInv'
BY TypeStep, LoginsExcludeStep, RetryStep, PendingStep, RejectionStep, EffectsStep, LoginsStep DEF IInv

(* The inductive invariant holds in every state.                           *)
THEOREM ClientInvariant == Spec => []IInv
BY IInvInit, IInvStep, PTL DEF Spec

(* Every variable of the client keeps its type.                            *)
THEOREM ClientTypes == Spec => []TypeOK
<1>1. IInv => TypeOK
  BY DEF IInv
<1> QED
  BY <1>1, ClientInvariant, PTL

(* c.mu is held by exactly the caller in the login (ensureToken).          *)
THEOREM LoginsAreExclusive == Spec => []LoginsExclude
<1>1. IInv => LoginsExclude
  BY DEF IInv
<1> QED
  BY <1>1, ClientInvariant, PTL

(* A second 401 means that the API revoked a token after the first one     *)
(* (doJSON, clearToken).                                                   *)
THEOREM RejectionsAreJustified == Spec => []SecondRejectionJustified
<1>1. IInv => SecondRejectionJustified
  BY DEF IInv
<1> QED
  BY <1>1, ClientInvariant, PTL

(* One call of the client creates at most one channel (doJSON).            *)
THEOREM CreationsAreSingle == Spec => []CreatedOnce
<1>1. IInv => CreatedOnce
  BY DEF IInv, EffectsCounted, CreatedOnce
<1> QED
  BY <1>1, ClientInvariant, PTL

(* Concurrent callers share one login (ensureToken).                       *)
THEOREM LoginsAreShared == Spec => []LoginsShared
<1>1. IInv => LoginsShared
  BY DEF IInv, LoginsCounted, LoginsShared
<1> QED
  BY <1>1, ClientInvariant, PTL

=============================================================================
