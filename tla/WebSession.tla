------------------------------- MODULE WebSession -------------------------------
(***************************************************************************)
(* Who is signed in in a browser tab (frontend/src/contexts/auth-context,  *)
(* lib/auth/jwt-auth.service): the token is kept in localStorage, in a     *)
(* cookie and in the state of the page, next to the user it stands for.    *)
(* Whoever asks the API with it and is answered 401 signs the page out     *)
(* (lib/auth-fetch, lib/api-client, lib/axios-interceptor), and so do the  *)
(* settings after a new password or the end of the account.                *)
(*                                                                         *)
(* A token is a number and its user has the same; 0 is none.  This is one  *)
(* tab, the only one that is open.                                         *)
(***************************************************************************)
EXTENDS Integers

CONSTANTS
  ApiCall,           \* requests in flight at once
  MaxToken        \* bound: tokens given out

ASSUME WebSessionConstants == MaxToken \in Nat \ {0}

VARIABLES
  accepted,       \* tokens that the API accepts
  issued,         \* tokens given out
  savedToken,     \* localStorage
  cookie,
  token,          \* the state of the page
  user,
  loading,        \* initializeAuth goes on: "validate", "me"; nothing else is rendered
  asks,           \* the requests in flight
  mixed,          \* history: the user is from a refresh that an earlier session asked for
  ended           \* history: tokens whose user learnt here that a request has ended them

apiSide        == <<accepted, issued>>
webSessionVars == <<apiSide, savedToken, cookie, token, user, loading, asks, mixed,
                    ended>>

NoAsk == [op |-> "none", token |-> 0]

\* What the settings ask for: another name; a new password or no account, which end
\* the sessions of the user.
Ending == {"password", "deactivate"}
Forms  == {"profile"} \cup Ending

\* Every variable has its type.
WebSessionTypeOK ==
  /\ issued \in 0..MaxToken /\ accepted \subseteq 1..issued
  /\ {savedToken, cookie, token, user} \subseteq 0..issued
  /\ loading \in {"validate", "me", "done"}
  /\ asks \in [ApiCall -> [op : {"none", "call", "refreshUser", "login", "changed",
                                 "deactivated"} \cup Forms,
                           token : 0..MaxToken]]
  /\ mixed \in BOOLEAN /\ ended \subseteq 1..issued

\* The page is opened with or without a token from an earlier visit.
WebSessionInit ==
  /\ issued = 1 /\ accepted = {1}
  /\ savedToken \in {0, 1} /\ cookie = savedToken
  /\ token = 0 /\ user = 0
  /\ loading = (IF savedToken = 0 THEN "done" ELSE "validate")
  /\ asks = [a \in ApiCall |-> NoAsk]
  /\ mixed = FALSE /\ ended = {}

SetSession(t) == savedToken' = t /\ cookie' = t /\ token' = t /\ user' = t /\ mixed' = FALSE
Answered(a)   == asks' = [asks EXCEPT ![a] = NoAsk]

\* Mutation: the cookie stays.
clearAuthState_KeepsCookie ==
  savedToken' = 0 /\ token' = 0 /\ user' = 0 /\ mixed' = FALSE /\ UNCHANGED cookie

clearAuthState == SetSession(0)

-----------------------------------------------------------------------------
\* Token validated; a token refused, or no answer, ends the session.
validateSavedToken(ok) ==
  /\ loading = "validate"
  /\ ok => savedToken \in accepted
  /\ IF ok THEN loading' = "me" /\ UNCHANGED <<savedToken, cookie, token, user, mixed>>
     ELSE loading' = "done" /\ clearAuthState
  /\ UNCHANGED <<apiSide, asks, ended>>

initializeAuth(ok) ==
  /\ loading = "me"
  /\ ok => savedToken \in accepted
  /\ IF ok THEN SetSession(savedToken) ELSE clearAuthState
  /\ loading' = "done"
  /\ UNCHANGED <<apiSide, asks, ended>>

logout ==
  /\ loading = "done" /\ user # 0
  /\ clearAuthState
  /\ UNCHANGED <<apiSide, loading, asks, ended>>

\* A request with the token there is, or to log in.
SendAsk(a, op) ==
  /\ loading = "done" /\ asks[a] = NoAsk
  /\ op # "login" => savedToken # 0
  /\ asks' = [asks EXCEPT ![a] = [op |-> op, token |-> IF op = "login" THEN 0 ELSE savedToken]]
  /\ UNCHANGED <<apiSide, savedToken, cookie, token, user, loading, mixed,
                 ended>>

\* The API gives out a token.
POSTLogin ==
  issued < MaxToken /\ issued' = issued + 1 /\ accepted' = accepted \cup {issued + 1}

\* The token is stored, then the state and the cookie are set, in one go.
signIn(a) ==
  /\ asks[a].op = "login"
  /\ \/ POSTLogin /\ SetSession(issued + 1)
     \/ UNCHANGED <<apiSide, savedToken, cookie, token, user, mixed>>
  /\ Answered(a)
  /\ UNCHANGED <<loading, ended>>

\* A request is answered 401 when its token is not accepted, ...
withAdminAuth(a) == asks[a].token \notin accepted

\* ... or when the current password in it is wrong.
WrongPassword(a) == asks[a].op \in Ending

\* The answer to a request: 401 signs out whoever is signed in by now.
authFetch(a) ==
  /\ asks[a].op \in {"call"} \cup Forms
  /\ \/ UNCHANGED <<savedToken, cookie, token, user, mixed>>
     \/ (withAdminAuth(a) \/ WrongPassword(a)) /\ clearAuthState
  /\ Answered(a)
  /\ UNCHANGED <<apiSide, loading, ended>>

\* The user is set, or anything but a user signs out.
refreshUser(a) ==
  /\ asks[a].op = "refreshUser"
  /\ \/ /\ user' = asks[a].token
        /\ mixed' = (mixed \/ asks[a].token # savedToken)
        /\ UNCHANGED <<savedToken, cookie, token>>
     \/ clearAuthState
  /\ Answered(a)
  /\ UNCHANGED <<apiSide, loading, ended>>

\* The name is stored; the user is asked for anew with the token there is now.
ProfileForm(a) ==
  /\ asks[a].op = "profile" /\ asks[a].token \in accepted
  /\ IF savedToken = 0
     THEN clearAuthState /\ Answered(a)
     ELSE /\ asks' = [asks EXCEPT ![a] = [op |-> "refreshUser", token |-> savedToken]]
          /\ UNCHANGED <<savedToken, cookie, token, user, mixed>>
  /\ UNCHANGED <<apiSide, loading, ended>>

\* The API ends the sessions of the user.
EndSessions(a, op, then) ==
  /\ asks[a].op = op /\ asks[a].token \in accepted
  /\ accepted' = accepted \ {asks[a].token}
  /\ asks' = [asks EXCEPT ![a].op = then]
  /\ UNCHANGED <<issued, savedToken, cookie, token, user, loading, mixed, ended>>

changePassword(a) == EndSessions(a, "password", "changed")
deleteAccount(a)  == EndSessions(a, "deactivate", "deactivated")

\* A form whose answer is lost leaves the page as it is.
FormFails ==
  UNCHANGED <<savedToken, cookie, token, user, mixed, ended>>

\* The form learns that it is done, and signs out.
PasswordForm(a) ==
  /\ asks[a].op = "changed"
  /\ FormFails \/ (clearAuthState /\ ended' = ended \cup {asks[a].token})
  /\ Answered(a)
  /\ UNCHANGED <<apiSide, loading>>

DeleteAccount(a) ==
  /\ asks[a].op = "deactivated"
  /\ FormFails \/ (clearAuthState /\ ended' = ended \cup {asks[a].token})
  /\ Answered(a)
  /\ UNCHANGED <<apiSide, loading>>

\* A password is changed elsewhere, or the token expires.
RevokeToken(t) ==
  /\ t \in accepted
  /\ accepted' = accepted \ {t}
  /\ UNCHANGED <<issued, savedToken, cookie, token, user, loading, asks, mixed,
                 ended>>

WebSessionNext ==
  \/ \E ok \in BOOLEAN : validateSavedToken(ok) \/ initializeAuth(ok)
  \/ logout
  \/ \E a \in ApiCall :
       \/ \E op \in {"call", "refreshUser", "login"} \cup Forms : SendAsk(a, op)
       \/ signIn(a) \/ authFetch(a) \/ refreshUser(a)
       \/ ProfileForm(a) \/ changePassword(a) \/ deleteAccount(a)
       \/ PasswordForm(a) \/ DeleteAccount(a)
  \/ \E t \in 1..MaxToken : RevokeToken(t)

WebSessionSpec == WebSessionInit /\ [][WebSessionNext]_webSessionVars

-----------------------------------------------------------------------------
(* Properties *)

\* Once the page is loaded, localStorage, the cookie and the page agree on the session:
\* none of them outlives a sign-out, whichever request causes it, and requests are made
\* as the user shown - unless the user is refreshed by an answer to an earlier session.
\* Nor does the page go on with a session that the settings said is over.
SessionAgrees ==
  loading = "done" =>
    /\ savedToken \notin ended
    /\ savedToken = cookie /\ savedToken = token
    /\ mixed \/ savedToken = user
=============================================================================
