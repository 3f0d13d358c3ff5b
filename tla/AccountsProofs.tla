---------------------------- MODULE AccountsProofs ----------------------------
(***************************************************************************)
(* Proofs about Accounts, for any requests, users and secrets and any      *)
(* number of attempts.                                                     *)
(***************************************************************************)
EXTENDS Accounts, TLAPS

\* What the provider returned, what the client is told and what took effect
\* agree for each request.
Told(r) ==
    /\ result[r] = "ok" => r \in applied
    /\ Succeeded(r) => result[r] = "ok"
    /\ Done(r) /\ result[r] = "ok" => Succeeded(r)
    /\ r \in applied => result[r] = "ok" \/ r \in unsure
    /\ pc[r] \in {"idle", "decode"} \/ status[r] = 400 \/ local =>
          r \notin applied \cup unsure /\ result[r] # "ok"
    /\ pc[r] = "call" => result[r] # "ok"
    /\ local => pc[r] \notin {"call", "returned"}
    /\ status[r] = 201 => request[r].route = "signup"

\* What an applied request left in the account, as long as the account lives.
Kept(r) ==
    /\ request[r].route = "signup" =>
          /\ account[request[r].user].state # "absent"
          /\ account[request[r].user].password = request[r].secret
    /\ request[r].route = "signin" =>
          account[request[r].user] = [state |-> "confirmed", password |-> request[r].secret]

Confirms(c, u) == request[c] = [route |-> "confirm", user |-> u, secret |-> Code]

\* An account is made once, and confirmed with the code only.
AccountInv ==
    /\ \A r \in applied : pc[r] # "idle" /\ Kept(r)
    /\ \A r, s \in applied :
          /\ request[r].route = "signup" /\ request[s].route = "signup"
          /\ request[r].user = request[s].user
          => r = s
    /\ \A u \in Users : account[u].state = "confirmed" => \E c \in applied : Confirms(c, u)

AccountsInv == TypeOK /\ (\A r \in Requests : Told(r)) /\ AccountInv

LEMMA InitAccounts == Init => AccountsInv
<1> SUFFICES ASSUME Init PROVE AccountsInv
  OBVIOUS
<1>1. TypeOK
  <2>1. attempt \in [Requests -> 0..Attempts] /\ \A r \in Requests : attempt[r] < Attempts
    BY ConstantsAssumption DEF Init
  <2>2. account \in [Users -> [state : {"absent", "unconfirmed", "confirmed"},
                              password : Secrets \cup {None}]]
    BY DEF Init
  <2> QED
    BY <2>1, <2>2 DEF Init, TypeOK, Done
<1>2. \A r \in Requests : Told(r)
  BY ConstantsAssumption DEF Init, Told, Done, Succeeded
<1>3. AccountInv
  BY DEF Init, AccountInv
<1> QED
  BY <1>1, <1>2, <1>3 DEF AccountsInv

\* The handlers answer with a status of their own.
LEMMA HandlerStatus ==
  ASSUME NEW p \in Routes
  PROVE  /\ Handler(p).success \in {200, 201} /\ Handler(p).error \in {401, 500}
         /\ Handler(p).success = 201 => p = "signup"
         /\ Failure(p) # "ok"
  BY DEF Routes, Handler, SignUp, SignIn, ConfirmSignUp, Failure, SignUpError,
         SignInError, ConfirmSignUpError

\* The effect of an accepted request keeps the accounts well-formed.
LEMMA EffectType ==
  ASSUME TypeOK, NEW q \in Asks
  PROVE  Effect(q) \in [Users -> [state : {"absent", "unconfirmed", "confirmed"},
                                  password : Secrets \cup {None}]]
<1>1. q.user \in Users /\ q.secret \in Secrets
  BY DEF Asks
<1> QED
  BY <1>1 DEF Effect, TypeOK

LEMMA NextTypeOK == AccountsInv /\ [Next]_vars => TypeOK'
<1> SUFFICES ASSUME AccountsInv, [Next]_vars PROVE TypeOK'
  OBVIOUS
<1> USE ConstantsAssumption
<1>0. TypeOK /\ \A r \in Requests : Told(r)
  BY DEF AccountsInv
<1>1. ASSUME NEW r \in Requests, Arrive(r) PROVE TypeOK'
  BY <1>0, <1>1 DEF TypeOK, Arrive, Step, Done
<1>2. ASSUME NEW r \in Requests, Decode(r) PROVE TypeOK'
  BY <1>0, <1>2 DEF TypeOK, Decode, Step, Done
<1>3. ASSUME NEW r \in Requests, Reject(r) PROVE TypeOK'
  BY <1>0, <1>3 DEF TypeOK, Reject, Step, Reply, Done, Statuses
<1>4. ASSUME NEW r \in Requests, NoService(r) PROVE TypeOK'
  BY <1>0, <1>4 DEF TypeOK, NoService, Step, Reply, Done, Statuses
<1>5. ASSUME NEW r \in Requests, Respond(r) PROVE TypeOK'
  <2>1. request[r].route \in Routes
    BY <1>0, <1>5 DEF Respond, Answer, Step, TypeOK, Asks
  <2>2. Handler(request[r].route).success \in Statuses /\ Handler(request[r].route).error \in Statuses
    BY <2>1, HandlerStatus DEF Statuses
  <2> QED
    BY <1>0, <1>5, <2>2 DEF TypeOK, Respond, Answer, Step, Reply, Done, Statuses
<1>6. ASSUME NEW r \in Requests, CallEnds(r) PROVE TypeOK'
  <2>1. pc[r] = "call" /\ request[r] \in Asks
    BY <1>0, <1>6 DEF CallEnds, Answered, Refused, Challenged, Lost, Cancel, Step, TypeOK
  <2>2. request[r].route \in Routes
    BY <2>1 DEF Asks
  <2>3. CASE Answered(r)
    BY <1>0, <2>1, <2>3, EffectType DEF TypeOK, Answered, Applies, Step, Return, Done
  <2>4. CASE Refused(r)
    BY <1>0, <2>2, <2>4 DEF TypeOK, Refused, Ignores, Step, Return, Done
  <2>5. CASE Challenged(r)
    BY <1>0, <2>5 DEF TypeOK, Challenged, Ignores, Step, Return, Done
  <2>6. CASE Lost(r)
    <3>1. CASE attempt[r] + 1 < Attempts
      BY <1>0, <3>1, <2>6 DEF TypeOK, Lost, Ignores, Done
    <3>2. CASE ~(attempt[r] + 1 < Attempts)
      BY <1>0, <3>2, <2>2, <2>6 DEF TypeOK, Lost, Ignores, Step, Return, Done
    <3> QED
      BY <3>1, <3>2
  <2>7. CASE Cancel(r)
    BY <1>0, <2>2, <2>7 DEF TypeOK, Cancel, Ignores, Step, Return, Done
  <2> QED
    BY <1>6, <2>3, <2>4, <2>5, <2>6, <2>7 DEF CallEnds
<1>7. ASSUME NEW r \in Requests, TakesEffect(r) PROVE TypeOK'
  <2>1. request[r] \in Asks
    BY <1>0, <1>7 DEF TakesEffect, Told, TypeOK
  <2> QED
    BY <1>0, <1>7, <2>1, EffectType DEF TypeOK, TakesEffect, Applies, Done
<1>8. ASSUME UNCHANGED vars PROVE TypeOK'
  BY <1>0, <1>8 DEF TypeOK, vars, Done
<1> QED
  BY <1>1, <1>2, <1>3, <1>4, <1>5, <1>6, <1>7, <1>8 DEF Next, Handle, AllDone

\* Nothing but the Cognito call of a request, or a lost attempt of it that
\* arrives, changes the accounts.
LEMMA QuietStep ==
  ASSUME AccountsInv, UNCHANGED <<account, applied>>,
         \A r \in Requests : pc[r] # "idle" => request'[r] = request[r] /\ pc'[r] # "idle"
  PROVE  AccountInv'
<1>1. \A r \in applied : r \in Requests /\ pc[r] # "idle"
  BY DEF AccountsInv, AccountInv, TypeOK
<1> QED
  BY <1>1 DEF AccountsInv, AccountInv, Kept, Confirms

\* An accepted request keeps the accounts as they should be.
LEMMA AppliedStep ==
  ASSUME AccountsInv, NEW r \in Requests, Applies(r), request' = request,
         pc[r] # "idle", \A q \in Requests : pc[q] # "idle" => pc'[q] # "idle"
  PROVE  AccountInv'
<1> DEFINE u == request[r].user
<1>0. /\ TypeOK /\ AccountInv /\ request[r] \in Asks /\ u \in Users
      /\ request[r].secret \in Secrets /\ applied' = applied \cup {r}
      /\ request[r].route \in {"signup", "signin", "confirm"}
  BY DEF AccountsInv, TypeOK, Asks, Routes, Applies
<1>1. \A q \in applied : q \in Requests /\ request[q] \in Asks /\ pc[q] # "idle" /\ Kept(q)
  BY <1>0 DEF AccountInv, TypeOK
<1>2. CASE request[r].route = "signup"
  <2>1. /\ account[u].state = "absent"
        /\ account' = [account EXCEPT ![u] = [state |-> "unconfirmed",
                                             password |-> request[r].secret]]
    BY <1>2 DEF Applies, Accepts, Effect
  <2>2. \A q \in applied : request[q].route \in {"signup", "signin"} => request[q].user # u
    <3> SUFFICES ASSUME NEW q \in applied, request[q].user = u,
                        request[q].route \in {"signup", "signin"}
                 PROVE  FALSE
      OBVIOUS
    <3>1. Kept(q)
      BY <1>1
    <3> QED
      BY <2>1, <3>1 DEF Kept
  <2>3. Kept(r)'
    BY <1>0, <1>2, <2>1 DEF Kept, TypeOK
  <2>4. \A q \in applied : Kept(q)'
    BY <1>0, <1>1, <2>1, <2>2 DEF Kept, TypeOK, Asks
  <2>5. \A w \in Users : account'[w].state = "confirmed" => \E c \in applied' : Confirms(c, w)'
    BY <1>0, <2>1 DEF AccountInv, TypeOK, Confirms
  <2> QED
    BY <1>0, <1>1, <1>2, <2>2, <2>3, <2>4, <2>5 DEF AccountInv
<1>3. CASE request[r].route = "confirm"
  <2>1. /\ account[u].state = "unconfirmed" /\ Confirms(r, u)
        /\ account' = [account EXCEPT ![u] = [@ EXCEPT !.state = "confirmed"]]
    BY <1>0, <1>3 DEF Applies, Accepts, Effect, Confirms, Asks
  <2>2. \A q \in applied' : Kept(q)'
    BY <1>0, <1>1, <1>3, <2>1 DEF Kept, TypeOK, Asks
  <2>3. \A w \in Users : account'[w].state = "confirmed" => \E c \in applied' : Confirms(c, w)'
    BY <1>0, <2>1 DEF AccountInv, TypeOK, Confirms
  <2> QED
    BY <1>0, <1>1, <1>3, <2>2, <2>3 DEF AccountInv
<1>4. CASE request[r].route = "signin"
  <2>1. /\ account[u] = [state |-> "confirmed", password |-> request[r].secret]
        /\ account' = account
    BY <1>0, <1>4 DEF Applies, Accepts, Effect, TypeOK
  <2>2. \A q \in applied' : Kept(q)'
    BY <1>0, <1>1, <1>4, <2>1 DEF Kept
  <2>3. \A w \in Users : account'[w].state = "confirmed" => \E c \in applied' : Confirms(c, w)'
    BY <1>0, <2>1 DEF AccountInv, Confirms
  <2> QED
    BY <1>0, <1>1, <1>4, <2>2, <2>3 DEF AccountInv
<1> QED
  BY <1>0, <1>2, <1>3, <1>4

\* The step of one request leaves what the others were told alone.
LEMMA OthersTold ==
  ASSUME AccountsInv, NEW r \in Requests, local' = local, Told(r)',
         \A q \in Requests \ {r} :
            /\ pc'[q] = pc[q] /\ request'[q] = request[q]
            /\ result'[q] = result[q] /\ status'[q] = status[q]
            /\ q \in applied' <=> q \in applied
            /\ q \in unsure' <=> q \in unsure
  PROVE  \A q \in Requests : Told(q)'
  BY DEF AccountsInv, Told, Done, Succeeded

LEMMA NextTold == AccountsInv /\ [Next]_vars => \A r \in Requests : Told(r)'
<1> SUFFICES ASSUME AccountsInv, [Next]_vars PROVE \A r \in Requests : Told(r)'
  OBVIOUS
<1>0. TypeOK /\ \A r \in Requests : Told(r)
  BY DEF AccountsInv
<1>1. ASSUME NEW r \in Requests, Arrive(r) PROVE \A q \in Requests : Told(q)'
  <2>1. Told(r)'
    BY <1>0, <1>1, ConstantsAssumption DEF Told, Arrive, Step, TypeOK, Done, Succeeded
  <2> QED
    BY <1>0, <1>1, <2>1, OthersTold DEF Arrive, Step, TypeOK
<1>2. ASSUME NEW r \in Requests, Decode(r) PROVE \A q \in Requests : Told(q)'
  <2>1. Told(r)'
    BY <1>0, <1>2, ConstantsAssumption DEF Told, Decode, Step, TypeOK, Done, Succeeded
  <2> QED
    BY <1>0, <1>2, <2>1, OthersTold DEF Decode, Step, TypeOK
<1>3. ASSUME NEW r \in Requests, Reject(r) PROVE \A q \in Requests : Told(q)'
  <2>1. Told(r)'
    BY <1>0, <1>3 DEF Told, Reject, Step, Reply, TypeOK, Done, Succeeded
  <2> QED
    BY <1>0, <1>3, <2>1, OthersTold DEF Reject, Step, Reply, TypeOK
<1>4. ASSUME NEW r \in Requests, NoService(r) PROVE \A q \in Requests : Told(q)'
  <2>1. Told(r)'
    BY <1>0, <1>4 DEF Told, NoService, Step, Reply, TypeOK, Done, Succeeded
  <2> QED
    BY <1>0, <1>4, <2>1, OthersTold DEF NoService, Step, Reply, TypeOK
<1>5. ASSUME NEW r \in Requests, Respond(r) PROVE \A q \in Requests : Told(q)'
  <2> DEFINE h == Handler(request[r].route)
  <2>1. pc[r] = "returned" /\ request[r].route \in Routes /\ ~local
    BY <1>0, <1>5 DEF Respond, Answer, Step, TypeOK, Asks, Told
  <2>2. /\ h.success \in {200, 201} /\ h.error \in {401, 500}
        /\ h.success = 201 => request[r].route = "signup"
    BY <2>1, HandlerStatus
  <2>3. /\ pc' = [pc EXCEPT ![r] = "done"]
        /\ status' = [status EXCEPT ![r] = IF result[r] = "ok" THEN h.success ELSE h.error]
        /\ UNCHANGED <<local, account, request, attempt, result, applied, unsure>>
    BY <1>5 DEF Respond, Answer, Step, Reply
  <2> HIDE DEF h
  <2>4. Told(r)'
    BY <1>0, <2>1, <2>2, <2>3 DEF Told, TypeOK, Done, Succeeded
  <2> QED
    BY <1>0, <2>3, <2>4, OthersTold DEF TypeOK
<1>6. ASSUME NEW r \in Requests, CallEnds(r) PROVE \A q \in Requests : Told(q)'
  <2>1. pc[r] = "call" /\ request[r].route \in Routes /\ ~local /\ status[r] = None
    BY <1>0, <1>6 DEF CallEnds, Answered, Refused, Challenged, Lost, Cancel, Step,
                      TypeOK, Asks, Told, Done
  <2>2. Failure(request[r].route) # "ok"
    BY <2>1, HandlerStatus
  <2>3. Told(r)'
    <3>1. CASE Answered(r)
      BY <1>0, <2>1, <3>1, ConstantsAssumption
         DEF Answered, Applies, Step, Return, Told, TypeOK, Done, Succeeded
    <3>2. CASE Refused(r)
      BY <1>0, <2>1, <2>2, <3>2, ConstantsAssumption
         DEF Refused, Ignores, Step, Return, Told, TypeOK, Done, Succeeded
    <3>3. CASE Challenged(r)
      BY <1>0, <2>1, <3>3, ConstantsAssumption
         DEF Challenged, Ignores, Step, Return, Told, TypeOK, Done, Succeeded
    <3>4. CASE Lost(r)
      BY <1>0, <2>1, <2>2, <3>4, ConstantsAssumption
         DEF Lost, Ignores, Step, Return, Told, TypeOK, Done, Succeeded
    <3>5. CASE Cancel(r)
      BY <1>0, <2>1, <2>2, <3>5, ConstantsAssumption
         DEF Cancel, Ignores, Step, Return, Told, TypeOK, Done, Succeeded
    <3> QED
      BY <1>6, <3>1, <3>2, <3>3, <3>4, <3>5 DEF CallEnds
  <2> QED
    BY <1>0, <1>6, <2>3, OthersTold
       DEF CallEnds, Answered, Applies, Refused, Challenged, Lost, Cancel, Ignores, Step,
           Return, TypeOK
<1>7. ASSUME NEW r \in Requests, TakesEffect(r) PROVE \A q \in Requests : Told(q)'
  <2>1. Told(r)'
    BY <1>0, <1>7 DEF Told, TakesEffect, Applies, TypeOK, Done, Succeeded
  <2> QED
    BY <1>0, <1>7, <2>1, OthersTold DEF TakesEffect, Applies, TypeOK
<1>8. ASSUME UNCHANGED vars PROVE \A q \in Requests : Told(q)'
  BY <1>0, <1>8 DEF Told, vars, Done, Succeeded
<1> QED
  BY <1>1, <1>2, <1>3, <1>4, <1>5, <1>6, <1>7, <1>8 DEF Next, Handle, AllDone

LEMMA NextAccounts == AccountsInv /\ [Next]_vars => AccountInv'
<1> SUFFICES ASSUME AccountsInv, [Next]_vars PROVE AccountInv'
  OBVIOUS
<1>0. TypeOK /\ \A r \in Requests : Told(r)
  BY DEF AccountsInv
<1>1. ASSUME NEW r \in Requests,
             Arrive(r) \/ Decode(r) \/ Reject(r) \/ NoService(r) \/ Respond(r)
      PROVE  AccountInv'
  BY <1>0, <1>1, QuietStep
     DEF Arrive, Decode, Reject, NoService, Respond, Answer, Step, TypeOK
<1>2. ASSUME NEW r \in Requests, Refused(r) \/ Challenged(r) \/ Lost(r) \/ Cancel(r)
      PROVE  AccountInv'
  BY <1>0, <1>2, QuietStep DEF Refused, Challenged, Lost, Cancel, Ignores, Step, TypeOK
<1>3. ASSUME NEW r \in Requests, Answered(r) PROVE AccountInv'
  BY <1>0, <1>3, AppliedStep DEF Answered, Step, TypeOK
<1>4. ASSUME NEW r \in Requests, TakesEffect(r) PROVE AccountInv'
  <2>1. pc[r] # "idle"
    BY <1>0, <1>4 DEF TakesEffect, Told
  <2> QED
    BY <1>0, <1>4, <2>1, AppliedStep DEF TakesEffect, TypeOK
<1>5. ASSUME UNCHANGED vars PROVE AccountInv'
  BY <1>5, QuietStep DEF vars
<1> QED
  BY <1>1, <1>2, <1>3, <1>4, <1>5 DEF Next, Handle, CallEnds, AllDone

\* The invariant all theorems rest on.
THEOREM AccountsInvariant == Spec => []AccountsInv
<1>1. AccountsInv /\ [Next]_vars => AccountsInv'
  BY NextTypeOK, NextTold, NextAccounts DEF AccountsInv
<1> QED
  BY InitAccounts, <1>1, PTL DEF Spec

\* Every variable keeps its type, and a request is answered exactly when its
\* handler is through, whatever races, is lost or is repeated.
THEOREM AccountsTypeCorrect == Spec => []TypeOK
<1>1. AccountsInv => TypeOK
  BY DEF AccountsInv
<1> QED
  BY AccountsInvariant, <1>1, PTL

\* What SignUp, SignIn and ConfirmSignUp tell a client is what became of its
\* request, unless an answer of Cognito was lost.
THEOREM AccountsAnswersAreTrue == Spec => []TruthfulAnswers
<1>1. AccountsInv => TruthfulAnswers
  BY ConstantsAssumption
     DEF AccountsInv, TruthfulAnswers, SuccessMeansApplied, ErrorMeansNotApplied, Told
<1> QED
  BY AccountsInvariant, <1>1, PTL

\* Of racing sign-ups for one address one is told 201, and its password counts.
THEOREM AccountsOneSignUpWins == Spec => []OneSignUpWins
<1>1. AccountsInv => OneSignUpWins
  <2> SUFFICES ASSUME AccountsInv, NEW r \in Requests, status[r] = 201
               PROVE  /\ account[request[r].user].password = request[r].secret
                      /\ \A s \in Requests \ {r} :
                            Done(s) /\ status[s] = 201 => request[s].user # request[r].user
    BY DEF OneSignUpWins
  <2>1. \A s \in Requests : status[s] = 201 => s \in applied /\ request[s].route = "signup"
    BY DEF AccountsInv, Told, Succeeded
  <2>2. Kept(r)
    BY <2>1 DEF AccountsInv, AccountInv
  <2> QED
    BY <2>1, <2>2 DEF AccountsInv, AccountInv, Kept
<1> QED
  BY AccountsInvariant, <1>1, PTL

\* SignIn hands out tokens only for the right password of an account that a
\* request with the mailed code confirmed.
THEOREM AccountsTokensNeedConfirmation == Spec => []TokensNeedConfirmation
<1>1. AccountsInv => TokensNeedConfirmation
  <2> SUFFICES ASSUME AccountsInv, NEW r \in Requests, Done(r),
                      request[r].route = "signin", status[r] = 200
               PROVE  /\ r \in applied
                      /\ account[request[r].user] =
                            [state |-> "confirmed", password |-> request[r].secret]
                      /\ \E c \in applied : Confirms(c, request[r].user)
    BY DEF TokensNeedConfirmation, Confirms
  <2>1. r \in applied
    BY DEF AccountsInv, Told, Succeeded
  <2>2. account[request[r].user] = [state |-> "confirmed", password |-> request[r].secret]
    BY <2>1 DEF AccountsInv, AccountInv, Kept
  <2>3. request[r].user \in Users
    BY DEF AccountsInv, TypeOK, Done, Asks
  <2> QED
    BY <2>1, <2>2, <2>3 DEF AccountsInv, AccountInv
<1> QED
  BY AccountsInvariant, <1>1, PTL
=============================================================================
