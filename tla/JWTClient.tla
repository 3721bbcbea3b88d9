----------------------------- MODULE JWTClient -----------------------------
(***************************************************************************)
(* internal/api/client.go: requests to the device API under a token that   *)
(* all callers (the poller and the handlers) share, and the login and the  *)
(* retry behind it.                                                        *)
(*                                                                         *)
(* A call is one of FetchDevices, FetchUpdatedDevices, FetchDeviceUpdates, *)
(* which change nothing at the API, or CreateDeploymentChannel, which      *)
(* does.  c.mu is held from the check of the token to the end of the       *)
(* login, the HTTP request included.  Whether a token's expiry is further  *)
(* away than the leeway is kept as a flag; what tokenExpiry computes from  *)
(* the login's answer is left open.  Errors that depend on the             *)
(* configuration only (JoinPath, Encode) are left out.                     *)
(***************************************************************************)
EXTENDS Integers, FiniteSets

CONSTANTS
    Callers,    \* goroutines that use the client
    MaxCalls,   \* bound: calls each of them makes
    Nobody      \* c.mu is free

ASSUME ClientAssumption ==
    /\ Callers # {}
    /\ Nobody \notin Callers
    /\ MaxCalls \in Nat

VARIABLES
    token,      \* c.token, 0 for the empty string
    fresh,      \* time.Until(c.tokenExpires) > c.cfg.JWTLeeway
    holder,     \* who holds c.mu
    granted,    \* number of tokens the API ever granted; they are 1..granted
    valid,      \* the tokens the API accepts
    pc,         \* where each caller is
    bearer,     \* local: the token in the login's answer or in the request
    creates,    \* local: the call is a CreateDeploymentChannel
    attempt,    \* local: 2 in the retry after a 401
    answer,     \* local: what the API answered to the request
    calls,      \* history: number of calls begun, per caller
    result,     \* history: how the last call ended, per caller
    effects,    \* history: channels that the call made the API create
    revoked,    \* history: a token was revoked since the call's first 401
    reasons     \* history: how often another login became necessary

mutex   == <<token, fresh, holder>>
api     == <<granted, valid>>
locals  == <<bearer, creates, attempt, answer>>
history == <<calls, result, effects, revoked, reasons>>
vars    == <<mutex, api, pc, locals, history>>

Init ==
    /\ token = 0
    /\ fresh = FALSE
    /\ holder = Nobody
    /\ granted = 0
    /\ valid = {}
    /\ pc = [c \in Callers |-> "idle"]
    /\ bearer = [c \in Callers |-> 0]
    /\ creates = [c \in Callers |-> FALSE]
    /\ attempt = [c \in Callers |-> 1]
    /\ answer = [c \in Callers |-> "none"]
    /\ calls = [c \in Callers |-> 0]
    /\ result = [c \in Callers |-> "none"]
    /\ effects = [c \in Callers |-> 0]
    /\ revoked = [c \in Callers |-> FALSE]
    /\ reasons = 0

GoTo(c, point) == pc' = [pc EXCEPT ![c] = point]

-----------------------------------------------------------------------------
(* newRequest, up to ensureToken.                                          *)
Call(c) ==
    /\ pc[c] = "idle"
    /\ calls[c] < MaxCalls
    /\ calls' = [calls EXCEPT ![c] = @ + 1]
    /\ creates' \in {[creates EXCEPT ![c] = b] : b \in BOOLEAN}
    /\ result' = [result EXCEPT ![c] = "none"]
    /\ effects' = [effects EXCEPT ![c] = 0]
    /\ GoTo(c, "ensure")
    /\ UNCHANGED <<mutex, api, bearer, attempt, answer, revoked, reasons>>

(* The call returns to its caller.                                         *)
Return(c, r) ==
    /\ result' = [result EXCEPT ![c] = r]
    /\ attempt' = [attempt EXCEPT ![c] = 1]
    /\ answer' = [answer EXCEPT ![c] = "none"]
    /\ bearer' = [bearer EXCEPT ![c] = 0]
    /\ GoTo(c, "idle")
    /\ UNCHANGED <<creates, calls, revoked>>

(* ensureToken finds a token that is good for longer than the leeway.      *)
ReuseToken(c) ==
    /\ pc[c] = "ensure" /\ holder = Nobody
    /\ token # 0 /\ fresh
    /\ bearer' = [bearer EXCEPT ![c] = token]
    /\ GoTo(c, "send")
    /\ UNCHANGED <<mutex, api, creates, attempt, answer, history>>

(* Mutant: c.mu is released before the login request.                      *)
LoginUnlocked(c) ==
    /\ pc[c] = "ensure" /\ holder = Nobody
    /\ token = 0 \/ ~fresh
    /\ GoTo(c, "login")
    /\ UNCHANGED <<mutex, api, locals, history>>

(* ensureToken finds none and sends the login request, c.mu held.          *)
Login(c) ==
    /\ pc[c] = "ensure" /\ holder = Nobody
    /\ token = 0 \/ ~fresh
    /\ holder' = c
    /\ GoTo(c, "login")
    /\ UNCHANGED <<token, fresh, api, locals, history>>

(* The API grants a token.                                                 *)
GrantToken(c) ==
    /\ pc[c] = "login"
    /\ granted' = granted + 1
    /\ valid' = valid \cup {granted'}
    /\ bearer' = [bearer EXCEPT ![c] = granted']
    /\ GoTo(c, "granted")
    /\ UNCHANGED <<mutex, creates, attempt, answer, history>>

(* The login's answer arrives; the token may be as good as expired.        *)
LoginReturns(c) ==
    /\ pc[c] = "granted"
    /\ token' = bearer[c]
    /\ fresh' \in BOOLEAN
    /\ holder' = Nobody
    /\ reasons' = IF fresh' THEN reasons ELSE reasons + 1
    /\ GoTo(c, "send")
    /\ UNCHANGED <<api, locals, calls, result, effects, revoked>>

(* Mutant: the mutex is not released when the login fails.                 *)
LoginFailsLocked(c) ==
    /\ pc[c] \in {"login", "granted"}
    /\ reasons' = reasons + 1
    /\ Return(c, "error")
    /\ UNCHANGED <<mutex, api, effects>>

(* The login fails, or its answer is lost or cannot be read.               *)
LoginFails(c) ==
    /\ pc[c] \in {"login", "granted"}
    /\ holder' = Nobody
    /\ reasons' = reasons + 1
    /\ Return(c, "error")
    /\ UNCHANGED <<token, fresh, api, effects>>

-----------------------------------------------------------------------------
(* doJSON.                                                                 *)

(* The API answers the request, the first one or the retry: 401 if it does *)
(* not accept the token, else what the call asked for or another status.   *)
Serve(c) ==
    /\ pc[c] = "send"
    /\ \/ /\ bearer[c] \notin valid
          /\ answer' = [answer EXCEPT ![c] = "unauthorized"]
          /\ revoked' = [revoked EXCEPT ![c] = attempt[c] = 2 /\ @]
          /\ UNCHANGED effects
       \/ /\ bearer[c] \in valid
          /\ answer' = [answer EXCEPT ![c] = "ok"]
          /\ effects' = [effects EXCEPT ![c] = IF creates[c] THEN @ + 1 ELSE @]
          /\ UNCHANGED revoked
       \/ /\ bearer[c] \in valid
          /\ answer' = [answer EXCEPT ![c] = "refused"]
          /\ UNCHANGED <<effects, revoked>>
    /\ GoTo(c, "answered")
    /\ UNCHANGED <<mutex, api, bearer, creates, attempt, calls, result, reasons>>

(* Mutant: a request without an answer is sent again.                      *)
RetriesAfterError(c) ==
    /\ pc[c] \in {"send", "answered"}
    /\ attempt' = [attempt EXCEPT ![c] = 2]
    /\ \/ attempt[c] = 1 /\ GoTo(c, "ensure") /\ UNCHANGED <<bearer, answer, result>>
       \/ attempt[c] = 2 /\ GoTo(c, "idle") /\ answer' = [answer EXCEPT ![c] = "none"]
            /\ result' = [result EXCEPT ![c] = "error"] /\ UNCHANGED bearer
    /\ UNCHANGED <<mutex, api, creates, calls, effects, revoked, reasons>>

(* client.Do or reading the body fails, before or after the API acted, or  *)
(* the body does not decode.  A retried POST may fail here for its body    *)
(* was consumed by the first attempt; net/http restores it only when it    *)
(* reuses a connection.                                                    *)
RequestFails(c) ==
    /\ pc[c] = "send" \/ (pc[c] = "answered" /\ answer[c] # "unauthorized")
    /\ Return(c, "error")
    /\ UNCHANGED <<mutex, api, effects, reasons>>

(* Mutant: the token stays in the client.                                  *)
TokenKept(c) ==
    /\ pc[c] = "answered" /\ answer[c] = "unauthorized" /\ attempt[c] = 1
    /\ holder = Nobody
    /\ attempt' = [attempt EXCEPT ![c] = 2]
    /\ answer' = [answer EXCEPT ![c] = "none"]
    /\ reasons' = reasons + 1
    /\ GoTo(c, "ensure")
    /\ UNCHANGED <<mutex, api, bearer, creates, calls, result, effects, revoked>>

(* Mutant: every 401 is tried again.                                       *)
ClearTokenAlways(c) ==
    /\ pc[c] = "answered" /\ answer[c] = "unauthorized"
    /\ holder = Nobody
    /\ token' = 0
    /\ fresh' = FALSE
    /\ attempt' = [attempt EXCEPT ![c] = @ + 1]
    /\ answer' = [answer EXCEPT ![c] = "none"]
    /\ reasons' = reasons + 1
    /\ GoTo(c, "ensure")
    /\ UNCHANGED <<holder, api, bearer, creates, calls, result, effects, revoked>>

(* clearToken after the first 401, whichever token is there by then; then  *)
(* ensureToken for the retry.                                              *)
ClearToken(c) ==
    /\ pc[c] = "answered" /\ answer[c] = "unauthorized" /\ attempt[c] = 1
    /\ holder = Nobody
    /\ token' = 0
    /\ fresh' = FALSE
    /\ attempt' = [attempt EXCEPT ![c] = 2]
    /\ answer' = [answer EXCEPT ![c] = "none"]
    /\ reasons' = reasons + 1
    /\ GoTo(c, "ensure")
    /\ UNCHANGED <<holder, api, bearer, creates, calls, result, effects, revoked>>

(* doJSON decodes the answer or reports its status.                        *)
Finish(c) ==
    /\ pc[c] = "answered"
    /\ \/ answer[c] = "ok" /\ Return(c, "ok")
       \/ answer[c] = "refused" /\ Return(c, "error")
       \/ answer[c] = "unauthorized" /\ attempt[c] = 2 /\ Return(c, "unauthorized")
    /\ UNCHANGED <<mutex, api, effects, reasons>>

-----------------------------------------------------------------------------
(* The API stops to accept a token.                                        *)
Revoke(t) ==
    /\ t \in valid
    /\ valid' = valid \ {t}
    /\ revoked' = [c \in Callers |-> TRUE]
    /\ UNCHANGED <<mutex, granted, pc, locals, calls, result, effects, reasons>>

(* Time passes and the token comes within the leeway of its expiry.        *)
Expire ==
    /\ fresh
    /\ fresh' = FALSE
    /\ reasons' = reasons + 1
    /\ UNCHANGED <<token, holder, api, pc, locals, calls, result, effects, revoked>>

Step(c) ==
    \/ ReuseToken(c) \/ Login(c) \/ GrantToken(c) \/ LoginReturns(c) \/ LoginFails(c)
    \/ Serve(c) \/ RequestFails(c) \/ ClearToken(c) \/ Finish(c)

Next ==
    \/ \E c \in Callers : Call(c) \/ Step(c)
    \/ \E t \in valid : Revoke(t)
    \/ Expire

Spec == Init /\ [][Next]_vars

(* A call that is under way goes on: http.Client's timeout ends a request  *)
(* that is not answered, and sync.Mutex does not starve who waits for it.  *)
FairSpec == Spec /\ \A c \in Callers : WF_vars(Step(c))

-----------------------------------------------------------------------------
(* Every variable keeps its type.                                          *)
TypeOK ==
    /\ token \in Nat
    /\ fresh \in BOOLEAN
    /\ holder \in Callers \cup {Nobody}
    /\ granted \in Nat
    /\ valid \subseteq 1..granted
    /\ pc \in [Callers -> {"idle", "ensure", "login", "granted", "send", "answered"}]
    /\ bearer \in [Callers -> Nat]
    /\ creates \in [Callers -> BOOLEAN]
    /\ attempt \in [Callers -> {1, 2}]
    /\ answer \in [Callers -> {"none", "ok", "refused", "unauthorized"}]
    /\ calls \in [Callers -> Nat]
    /\ result \in [Callers -> {"none", "ok", "error", "unauthorized"}]
    /\ effects \in [Callers -> Nat]
    /\ revoked \in [Callers -> BOOLEAN]
    /\ reasons \in Nat

(* c.mu is held by exactly the caller that is in the login, so that nobody *)
(* reads or clears the token between the check and the new token.          *)
LoginsExclude ==
    \A c \in Callers : pc[c] \in {"login", "granted"} <=> holder = c

(* A call is refused with a second 401 only if the API revoked a token     *)
(* after the first one: the retry never uses a token that was stale when   *)
(* the first was rejected, whoever logs in or clears it meanwhile.         *)
SecondRejectionJustified ==
    \A c \in Callers : result[c] = "unauthorized" => revoked[c]

(* One call creates at most one channel: the retry after a 401 repeats     *)
(* only what had no effect.                                                *)
CreatedOnce == \A c \in Callers : effects[c] <= 1

(* Concurrent callers share a login: there is one for each token that was  *)
(* rejected, came near its expiry or never arrived, and the first.         *)
LoginsShared == granted <= reasons + 1

(* For the induction: in the retry, unless a token was revoked since   *)
(* the first 401, the token in use and any on its way are valid.           *)
RetryHasValidToken ==
    \A c \in Callers : attempt[c] = 2 /\ ~revoked[c] =>
        /\ token # 0 => token \in valid
        /\ \A d \in Callers : pc[d] = "granted" => bearer[d] \in valid
        /\ pc[c] = "send" => bearer[c] \in valid
        /\ pc[c] = "answered" => answer[c] # "unauthorized"

(* For the induction: a call that is under way has not ended yet.          *)
ResultPending == \A c \in Callers : pc[c] # "idle" => result[c] = "none"

(* For the induction: the API acts only on a request's way to its answer.  *)
EffectsCounted ==
    \A c \in Callers :
        /\ effects[c] \in {0, 1}
        /\ pc[c] \in {"ensure", "login", "granted", "send"} => effects[c] = 0
        /\ pc[c] = "answered" /\ answer[c] = "unauthorized" => effects[c] = 0

(* For the induction: a login is begun only with a reason left to count.   *)
LoginsCounted ==
    /\ granted <= reasons + 1
    /\ holder = Nobody /\ (token = 0 \/ ~fresh) => granted <= reasons
    /\ \A c \in Callers : /\ pc[c] = "login" => granted <= reasons
                          /\ pc[c] = "granted" => bearer[c] # 0

(* The inductive invariant.                                                *)
IInv ==
    /\ TypeOK
    /\ LoginsExclude
    /\ RetryHasValidToken
    /\ ResultPending
    /\ SecondRejectionJustified
    /\ EffectsCounted
    /\ LoginsCounted

(* Every call ends, though each of its requests may wait for c.mu while    *)
(* another caller's login is under way.                                    *)
CallsEnd == \A c \in Callers : pc[c] # "idle" ~> pc[c] = "idle"

=============================================================================
