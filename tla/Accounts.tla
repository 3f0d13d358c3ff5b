------------------------------- MODULE Accounts -------------------------------
(***************************************************************************)
(* The authentication routes of services/api: AuthHandler -> AuthService   *)
(* -> CognitoAuthProvider.  Requests race with each other; the AWS SDK,    *)
(* used with its default retryer, repeats an attempt whose answer it did   *)
(* not get, whether Cognito applied it or not.  Nothing deduplicates these *)
(* routes: the idempotency middleware wraps POST /v1/provision alone.      *)
(***************************************************************************)
EXTENDS Integers, FiniteSets

CONSTANTS
    Requests,  \* HTTP requests to /v1/auth/*, retries by clients included
    Users,     \* e-mail addresses
    Secrets,   \* what a request carries as its password or confirmation code
    Code,      \* the confirmation code Cognito mails
    Attempts,  \* attempts of the SDK's retryer per call
    None       \* nothing yet

ASSUME ConstantsAssumption ==
    /\ Code \in Secrets
    /\ Attempts \in Nat \ {0}
    /\ None \notin Secrets \cup {200, 201, 400, 401, 500} /\ None # "ok"

Routes == {"signup", "signin", "confirm"}
Statuses == {200, 201, 400, 401, 500}

VARIABLES
    local,    \* ENVIRONMENT is "local": the handler's service is a nil pointer
    account,  \* Cognito: [state, password] of every user
    request,  \* what each request asks for
    pc,       \* how far its handler is
    attempt,  \* attempts of its Cognito call so far
    result,   \* what the provider returns to the handler
    status,   \* the status the client gets
    applied,  \* requests Cognito applied (history)
    unsure    \* requests with an attempt whose answer was lost (history)

vars == <<local, account, request, pc, attempt, result, status, applied, unsure>>

NoRequest == [route |-> None, user |-> None, secret |-> None]
Asks == [route : Routes, user : Users, secret : Secrets]

Init ==
    /\ local \in BOOLEAN
    /\ account = [u \in Users |-> [state |-> "absent", password |-> None]]
    /\ request = [r \in Requests |-> NoRequest]
    /\ pc = [r \in Requests |-> "idle"]
    /\ attempt = [r \in Requests |-> 0]
    /\ result = [r \in Requests |-> None]
    /\ status = [r \in Requests |-> None]
    /\ applied = {} /\ unsure = {}

Step(r, from, to) == pc[r] = from /\ pc' = [pc EXCEPT ![r] = to]
Reply(r, s) == status' = [status EXCEPT ![r] = s]
Return(r, v) == result' = [result EXCEPT ![r] = v]

-----------------------------------------------------------------------------
(***************************************************************************)
(* The handler: decode, validate, call the service, translate the result.  *)
(***************************************************************************)
Arrive(r) ==
    /\ Step(r, "idle", "decode")
    /\ \E q \in Asks : request' = [request EXCEPT ![r] = q]
    /\ UNCHANGED <<local, account, attempt, result, status, applied, unsure>>

\* Broken form: the handler goes on after DecodeAndValidate has answered.
RejectContinues(r) ==
    /\ Step(r, "decode", "call") /\ Reply(r, 400)
    /\ UNCHANGED <<local, account, request, attempt, result, applied, unsure>>

\* DecodeAndValidate: INVALID_JSON or VALIDATION_ERROR, before any call.
Reject(r) ==
    /\ Step(r, "decode", "done") /\ Reply(r, 400)
    /\ UNCHANGED <<local, account, request, attempt, result, applied, unsure>>

Decode(r) ==
    /\ ~local /\ Step(r, "decode", "call")
    /\ UNCHANGED <<local, account, request, attempt, result, status, applied, unsure>>

\* In local mode the service is nil: its method panics, Recovery answers 500.
NoService(r) ==
    /\ local /\ Step(r, "decode", "done") /\ Reply(r, 500)
    /\ UNCHANGED <<local, account, request, attempt, result, applied, unsure>>

\* What each handler answers, and the domain error CognitoAuthProvider makes of
\* any error of its call (the handlers do not look at which one it is).
SignUp == [success |-> 201, error |-> 500]
SignIn == [success |-> 200, error |-> 401]
ConfirmSignUp == [success |-> 200, error |-> 500]
Handler(route) == [signup |-> SignUp, signin |-> SignIn, confirm |-> ConfirmSignUp][route]

SignUpError == "USER_ALREADY_EXISTS"
SignInError == "INVALID_CREDENTIALS"
ConfirmSignUpError == "INVALID_CONFIRMATION_CODE"
Failure(route) ==
    [signup |-> SignUpError, signin |-> SignInError, confirm |-> ConfirmSignUpError][route]

Answer(r, good) ==
    LET h == Handler(request[r].route) IN
    /\ Step(r, "returned", "done")
    /\ Reply(r, IF good THEN h.success ELSE h.error)
    /\ UNCHANGED <<local, account, request, attempt, result, applied, unsure>>

\* Broken form: SignUp answers before it looks at the error.
RespondSignUpFirst(r) == Answer(r, result[r] = "ok" \/ request[r].route = "signup")

Respond(r) == Answer(r, result[r] = "ok")

-----------------------------------------------------------------------------
(***************************************************************************)
(* The Cognito user pool, and the SDK's attempts to reach it.              *)
(***************************************************************************)
Accepts(q) ==
    LET a == account[q.user] IN
    \/ q.route = "signup" /\ a.state = "absent"
    \/ q.route = "confirm" /\ a.state = "unconfirmed" /\ q.secret = Code
    \/ q.route = "signin" /\ a = [state |-> "confirmed", password |-> q.secret]

\* A sign-in is accepted of confirmed accounts only and changes nothing.
Effect(q) ==
    [account EXCEPT ![q.user] =
        IF q.route = "signup" THEN [state |-> "unconfirmed", password |-> q.secret]
        ELSE [@ EXCEPT !.state = "confirmed"]]

\* Cognito takes the request: its effect, if it accepts it.
Applies(r) ==
    /\ Accepts(request[r])
    /\ account' = Effect(request[r]) /\ applied' = applied \cup {r}

Ignores == UNCHANGED <<account, applied>>

Answered(r) ==
    /\ Step(r, "call", "returned") /\ Applies(r) /\ Return(r, "ok")
    /\ UNCHANGED <<local, request, attempt, status, unsure>>

\* Broken form: an account that exists already counts as signed up.
RefusedTolerant(r) ==
    /\ Step(r, "call", "returned") /\ ~Accepts(request[r]) /\ Ignores
    /\ Return(r, IF request[r].route = "signup" THEN "ok" ELSE Failure(request[r].route))
    /\ UNCHANGED <<local, request, attempt, status, unsure>>

\* A refusal is an answer and is not tried again.  The user pool's password
\* policy is stricter than min=8: it may refuse a sign-up of its own.
Refused(r) ==
    /\ Step(r, "call", "returned") /\ Ignores
    /\ request[r].route = "signup" \/ ~Accepts(request[r])
    /\ Return(r, Failure(request[r].route))
    /\ UNCHANGED <<local, request, attempt, status, unsure>>

\* Broken form: SignIn does not look whether there is an AuthenticationResult.
ChallengedUnchecked(r) ==
    /\ request[r].route = "signin" /\ Accepts(request[r])
    /\ Step(r, "call", "returned") /\ Ignores /\ Return(r, "ok")
    /\ UNCHANGED <<local, request, attempt, status, unsure>>

\* Cognito answers InitiateAuth with a challenge and no AuthenticationResult.
Challenged(r) ==
    /\ request[r].route = "signin" /\ Accepts(request[r])
    /\ Step(r, "call", "returned") /\ Ignores /\ Return(r, "AUTH_FAILED")
    /\ UNCHANGED <<local, request, attempt, status, unsure>>

\* An attempt with no usable answer (connection lost, 5xx, throttled): the
\* retryer tries again until it has made Attempts.
Lost(r) ==
    /\ pc[r] = "call" /\ Ignores
    /\ attempt' = [attempt EXCEPT ![r] = @ + 1]
    /\ IF attempt[r] + 1 < Attempts THEN UNCHANGED <<pc, result>>
       ELSE Step(r, "call", "returned") /\ Return(r, Failure(request[r].route))
    /\ unsure' = unsure \cup {r}
    /\ UNCHANGED <<local, request, status>>

\* The client goes away: r.Context() is cancelled and the call with it.
Cancel(r) ==
    /\ Step(r, "call", "returned") /\ Ignores
    /\ Return(r, Failure(request[r].route))
    /\ unsure' = unsure \cup {r}
    /\ UNCHANGED <<local, request, attempt, status>>

\* What was lost or cancelled on the client's side may yet reach Cognito, at
\* any time: before the next attempt, or after the request was answered.
TakesEffect(r) ==
    /\ r \in unsure \ applied /\ Applies(r)
    /\ UNCHANGED <<local, request, pc, attempt, result, status, unsure>>

CallEnds(r) == Answered(r) \/ Refused(r) \/ Challenged(r) \/ Lost(r) \/ Cancel(r)

Handle(r) == Decode(r) \/ Reject(r) \/ NoService(r) \/ CallEnds(r) \/ Respond(r)

AllDone == (\A r \in Requests : pc[r] = "done") /\ UNCHANGED vars

Next == (\E r \in Requests : Arrive(r) \/ Handle(r) \/ TakesEffect(r)) \/ AllDone

Spec == Init /\ [][Next]_vars

-----------------------------------------------------------------------------
(***************************************************************************)
(* Properties.                                                             *)
(***************************************************************************)
Done(r) == pc[r] = "done"
Succeeded(r) == status[r] \in {200, 201}

\* Every variable keeps its type, and a request is answered once, when its
\* handler returns (DecodeAndValidate answers in the handler's place).
TypeOK ==
    /\ local \in BOOLEAN
    /\ account \in [Users -> [state : {"absent", "unconfirmed", "confirmed"},
                              password : Secrets \cup {None}]]
    /\ request \in [Requests -> Asks \cup {NoRequest}]
    /\ pc \in [Requests -> {"idle", "decode", "call", "returned", "done"}]
    /\ attempt \in [Requests -> 0..Attempts]
    /\ result \in [Requests -> {None, "ok", "AUTH_FAILED"} \cup {Failure(p) : p \in Routes}]
    /\ status \in [Requests -> Statuses \cup {None}]
    /\ applied \subseteq Requests /\ unsure \subseteq Requests
    /\ \A r \in Requests : status[r] # None <=> Done(r)
    /\ \A r \in Requests : pc[r] # "idle" => request[r] \in Asks
    /\ \A r \in Requests : pc[r] \in {"idle", "decode", "call"} => attempt[r] < Attempts

\* A success was Cognito's: what the client is told happened, happened, for
\* this very request, whatever was lost and repeated on the way.
SuccessMeansApplied == \A r \in Requests : Done(r) /\ Succeeded(r) => r \in applied

\* An error after which the request had taken effect all the same means that
\* an answer was lost; and a 400, or any answer in local mode, changed nothing.
ErrorMeansNotApplied ==
    \A r \in Requests : Done(r) /\ ~Succeeded(r) /\ r \in applied =>
        r \in unsure /\ status[r] # 400 /\ ~local

\* What a client is told of its request is what became of it, lost answers
\* excepted; in particular the SDK's retry of a sign-up that had already worked
\* must not turn into a success of its own.
TruthfulAnswers == SuccessMeansApplied /\ ErrorMeansNotApplied

\* Of all the sign-ups for one address at most one is answered 201, and it is
\* the one whose password the account has.
OneSignUpWins ==
    \A r \in Requests : Done(r) /\ status[r] = 201 =>
        /\ account[request[r].user].password = request[r].secret
        /\ \A s \in Requests \ {r} :
              Done(s) /\ status[s] = 201 => request[s].user # request[r].user

\* Tokens are only for a confirmed account and its password, and the account
\* was confirmed by a request that carried the mailed code.
TokensNeedConfirmation ==
    \A r \in Requests : Done(r) /\ request[r].route = "signin" /\ status[r] = 200 =>
        /\ r \in applied
        /\ account[request[r].user] = [state |-> "confirmed", password |-> request[r].secret]
        /\ \E c \in applied : request[c] =
              [route |-> "confirm", user |-> request[r].user, secret |-> Code]
=============================================================================
