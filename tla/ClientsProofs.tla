---------------------------- MODULE ClientsProofs ----------------------------
(* Theorems about the API's clients: the web frontend's loader of dashboards    *)
(* (BundleLoader), its session (WebSession), the dashboard's list and panel     *)
(* (DashboardBots), the page of API keys (ApiKeyPage), the live view of a bot   *)
(* (BotStream), the users page (UsersPage) and the pages of the custom bots     *)
(* (CustomBotPages); and the state functions of the SDKs (SdkState).            *)
EXTENDS BundleLoader, WebSession, DashboardBots, ApiKeyPage, BotStream, SdkState, UsersPage,
        CustomBotPages, FiniteSetTheorems, FunctionTheorems, SequenceTheorems, TLAPS

-----------------------------------------------------------------------------
(* Loading the dashboard of a custom bot.                                      *)

\* A run whose outcome will be looked at.
Live(l) == loads[l].pc # "none" /\ ~loads[l].cancelled

\* The states of a run of the effect.
LoadState == [pc : {"none", "cache", "fetch", "import"}, bundle : Bundle \cup {NoBundle},
              keyed : BOOLEAN, cancelled : BOOLEAN]

\* The inductive invariant: at most one run is live, the one with the timeout, and it is for
\* the bundle that is asked for.
BundleInv ==
  /\ BundleTypeOK
  /\ \A l \in Load : Live(l) => timeout = {l} /\ loads[l].bundle = asked.id
  /\ \A l \in timeout : Live(l)
  /\ loadPhase = "dashboard" <=> timeout # {}
  /\ loadPhase = "dashboard" => BotDashboard = NoBundle /\ ~loadError
  /\ BotDashboard # NoBundle => BotDashboard = asked.id /\ loadPhase = "events" /\ ~loadError

LEMMA BundleStarts == BundleInit => BundleInv
<1> SUFFICES ASSUME BundleInit PROVE BundleInv
  OBVIOUS
<1>1. NoLoad \in LoadState
  BY DEF NoLoad, LoadState
<1>2. loads \in [Load -> LoadState] /\ \A l \in Load : loads[l].pc = "none"
  BY <1>1 DEF BundleInit, NoLoad
<1>3. BundleTypeOK
  BY <1>2 DEF BundleInit, BundleTypeOK, LoadState
<1>4. QED
  BY <1>2, <1>3 DEF BundleInit, BundleInv, Live

LEMMA BotDashboardLoaderKeeps ==
  ASSUME BundleInv, NEW id \in Bundle \cup {NoBundle}, NEW versioned \in BOOLEAN,
         BotDashboardLoader(id, versioned)
  PROVE  BundleInv'
<1>1. /\ loads \in [Load -> LoadState]
      /\ asked' = [id |-> id, versioned |-> versioned]
      /\ BotDashboard' = NoBundle /\ loadError' = FALSE /\ cached' = cached
      /\ BundleTypeOK
  BY DEF BundleInv, BundleTypeOK, BotDashboardLoader, LoadState
<1>2. /\ CancelLoads \in [Load -> LoadState]
      /\ \A l \in Load : CancelLoads[l].pc = "none" \/ CancelLoads[l].cancelled
  BY <1>1 DEF CancelLoads, NoLoad, LoadState
<1>3. CASE id = NoBundle
  <2>1. loads' = CancelLoads /\ loadPhase' = "none" /\ timeout' = {}
    BY <1>3 DEF BotDashboardLoader
  <2>2. QED
    BY <1>1, <1>2, <2>1 DEF BundleInv, BundleTypeOK, Live, LoadState
<1>4. CASE id # NoBundle
  <2> DEFINE r == [pc |-> "cache", bundle |-> id, keyed |-> versioned, cancelled |-> FALSE]
  <2>1. PICK l \in Load : /\ loads' = [CancelLoads EXCEPT ![l] = r]
                          /\ loadPhase' = "dashboard" /\ timeout' = {l}
    BY <1>4 DEF BotDashboardLoader
  <2>2. r \in LoadState /\ r.pc = "cache" /\ ~r.cancelled /\ r.bundle = id
    BY DEF LoadState
  <2> HIDE DEF r
  <2>3. loads' \in [Load -> LoadState] /\ loads'[l] = r
        /\ \A m \in Load \ {l} : loads'[m] = CancelLoads[m]
    BY <1>2, <2>1, <2>2
  <2>4. \A m \in Load : Live(m)' <=> m = l
    BY <1>2, <2>2, <2>3 DEF Live
  <2>5. BundleTypeOK'
    BY <1>1, <2>1, <2>3 DEF BundleTypeOK, LoadState
  <2>6. asked'.id = id
    BY <1>1
  <2>7. QED
    BY <1>1, <2>1, <2>2, <2>3, <2>4, <2>5, <2>6 DEF BundleInv
<1>5. QED
  BY <1>3, <1>4

\* What a run that ends leaves of the others.
LEMMA RunEnds ==
  ASSUME BundleInv, NEW l \in Load, Over(l), loads[l].pc # "none"
  PROVE  /\ loads' \in [Load -> LoadState]
         /\ \A m \in Load : Live(m)' <=> m # l /\ Live(m)
         /\ \A m \in Load \ {l} : loads'[m] = loads[m]
  BY DEF BundleInv, BundleTypeOK, Over, NoLoad, LoadState, Live

LEMMA ImportedKeeps ==
  ASSUME BundleInv, NEW l \in Load, Imported(l), loads[l].pc # "none", asked' = asked,
         cached' \in [Bundle -> {"none", "good", "bad"}]
  PROVE  BundleInv'
<1>1. Over(l) /\ loadError' = loadError
  BY DEF Imported
<1>2. /\ loads' \in [Load -> LoadState]
      /\ \A m \in Load : Live(m)' <=> m # l /\ Live(m)
      /\ \A m \in Load \ {l} : loads'[m] = loads[m]
  BY <1>1, RunEnds
<1>3. CASE loads[l].cancelled
  <2>1. UNCHANGED <<loadPhase, BotDashboard, timeout>> /\ ~Live(l)
    BY <1>3 DEF Imported, Live
  <2>2. QED
    BY <1>1, <1>2, <2>1 DEF BundleInv, BundleTypeOK, LoadState
<1>4. CASE ~loads[l].cancelled
  <2>1. Live(l) /\ timeout = {l} /\ loads[l].bundle = asked.id
    BY <1>4 DEF BundleInv, Live
  <2>2. BotDashboard' = asked.id /\ loadPhase' = "events" /\ timeout' = {}
    BY <1>4, <2>1 DEF Imported
  <2>3. loadPhase = "dashboard" /\ ~loadError
    BY <2>1 DEF BundleInv
  <2>4. \A m \in Load : ~Live(m)'
    BY <1>2, <2>1 DEF BundleInv
  <2>5. BundleTypeOK'
    BY <1>1, <1>2, <2>2 DEF BundleInv, BundleTypeOK, LoadState
  <2>6. QED
    BY <1>1, <2>2, <2>3, <2>4, <2>5 DEF BundleInv
<1>5. QED
  BY <1>3, <1>4

LEMMA LoadFailsKeeps ==
  ASSUME BundleInv, NEW l \in Load, LoadFails(l), loads[l].pc # "none", asked' = asked,
         cached' = cached
  PROVE  BundleInv'
<1>1. Over(l) /\ BotDashboard' = BotDashboard
  BY DEF LoadFails
<1>2. /\ loads' \in [Load -> LoadState]
      /\ \A m \in Load : Live(m)' <=> m # l /\ Live(m)
      /\ \A m \in Load \ {l} : loads'[m] = loads[m]
  BY <1>1, RunEnds
<1>3. CASE loads[l].cancelled
  <2>1. UNCHANGED <<loadPhase, loadError, timeout>> /\ ~Live(l)
    BY <1>3 DEF LoadFails, Live
  <2>2. QED
    BY <1>1, <1>2, <2>1 DEF BundleInv, BundleTypeOK, LoadState
<1>4. CASE ~loads[l].cancelled
  <2>1. Live(l) /\ timeout = {l}
    BY <1>4 DEF BundleInv, Live
  <2>2. loadError' = TRUE /\ loadPhase' = "none" /\ timeout' = {}
    BY <1>4, <2>1 DEF LoadFails
  <2>3. BotDashboard = NoBundle
    BY <2>1 DEF BundleInv
  <2>4. \A m \in Load : ~Live(m)'
    BY <1>2, <2>1 DEF BundleInv
  <2>5. BundleTypeOK'
    BY <1>1, <1>2, <2>2 DEF BundleInv, BundleTypeOK, LoadState
  <2>6. QED
    BY <1>1, <2>2, <2>3, <2>4, <2>5 DEF BundleInv
<1>5. QED
  BY <1>3, <1>4

\* A step of a run from one stage to the next changes nothing else but the cache.
LEMMA StageKeeps ==
  ASSUME BundleInv, NEW l \in Load, NEW pc \in {"fetch", "import"}, loads[l].pc # "none",
         loads' = [loads EXCEPT ![l].pc = pc], cached' \in [Bundle -> {"none", "good", "bad"}],
         UNCHANGED <<asked, loadPhase, loadError, BotDashboard, timeout>>
  PROVE  BundleInv'
<1>1. /\ loads' \in [Load -> LoadState]
      /\ \A m \in Load : /\ loads'[m].pc # "none" <=> loads[m].pc # "none"
                         /\ loads'[m].cancelled = loads[m].cancelled
                         /\ loads'[m].bundle = loads[m].bundle
  <2> DEFINE r == [loads[l] EXCEPT !.pc = pc]
  <2>1. loads \in [Load -> LoadState] /\ loads[l] \in LoadState
    BY DEF BundleInv, BundleTypeOK, LoadState
  <2>2. r \in LoadState /\ r.pc = pc /\ r.cancelled = loads[l].cancelled
        /\ r.bundle = loads[l].bundle
    BY <2>1 DEF LoadState
  <2>3. loads' = [loads EXCEPT ![l] = r]
    BY <2>1
  <2> HIDE DEF r
  <2>4. loads' \in [Load -> LoadState] /\ loads'[l] = r
          /\ \A m \in Load \ {l} : loads'[m] = loads[m]
    BY <2>1, <2>2, <2>3
  <2>5. QED
    BY <2>2, <2>4
<1>2. \A m \in Load : Live(m)' <=> Live(m)
  BY <1>1 DEF Live
<1>3. BundleTypeOK'
  BY <1>1 DEF BundleInv, BundleTypeOK, LoadState
<1>4. timeout \subseteq Load /\ timeout' = timeout
  BY DEF BundleInv, BundleTypeOK
<1>5. QED
  BY <1>1, <1>2, <1>3, <1>4 DEF BundleInv

LEMMA TimeoutKeeps == ASSUME BundleInv, NEW l \in Load, LoadTimesOut(l) PROVE BundleInv'
<1>1. l \in timeout /\ Live(l) /\ timeout = {l} /\ BotDashboard = NoBundle
  BY DEF BundleInv, LoadTimesOut
<1>2. timeout' = {} /\ loadError' = TRUE /\ loadPhase' = "none" /\ BotDashboard' = NoBundle
      /\ asked' = asked /\ cached' = cached
  BY <1>1 DEF LoadTimesOut
<1>3. loads' \in [Load -> LoadState] /\ loads'[l].cancelled
      /\ \A m \in Load \ {l} : loads'[m] = loads[m]
  <2> DEFINE r == [loads[l] EXCEPT !.cancelled = TRUE]
  <2>1. loads \in [Load -> LoadState] /\ loads[l] \in LoadState
    BY DEF BundleInv, BundleTypeOK, LoadState
  <2>2. r \in LoadState /\ r.cancelled
    BY <2>1 DEF LoadState
  <2>3. loads' = [loads EXCEPT ![l] = r]
    BY DEF LoadTimesOut
  <2> HIDE DEF r
  <2>4. QED
    BY <2>1, <2>2, <2>3
<1>4. \A m \in Load : ~Live(m)'
  BY <1>1, <1>3 DEF Live, BundleInv
<1>5. BundleTypeOK'
  BY <1>2, <1>3 DEF BundleInv, BundleTypeOK, LoadState
<1>6. QED
  BY <1>2, <1>4, <1>5 DEF BundleInv

LEMMA BundleStep == BundleInv /\ [BundleNext]_bundleVars => BundleInv'
<1> SUFFICES ASSUME BundleInv, [BundleNext]_bundleVars PROVE BundleInv'
  OBVIOUS
<1>1. CASE UNCHANGED bundleVars
  BY <1>1 DEF BundleInv, BundleTypeOK, Live, bundleVars
<1>2. ASSUME NEW id \in Bundle \cup {NoBundle}, NEW versioned \in BOOLEAN,
             BotDashboardLoader(id, versioned)
      PROVE  BundleInv'
  BY <1>2, BotDashboardLoaderKeeps
<1>3. ASSUME NEW l \in Load, importBundle(l) PROVE BundleInv'
  <2>1. loads[l].pc # "none" /\ asked' = asked /\ cached' = cached
        /\ cached \in [Bundle -> {"none", "good", "bad"}]
    BY <1>3 DEF importBundle, BundleInv, BundleTypeOK
  <2>2. CASE Imported(l)
    BY <2>1, <2>2, ImportedKeeps
  <2>3. CASE ~Imported(l)
    <3>1. /\ loads' = [loads EXCEPT ![l].pc = "fetch"]
          /\ UNCHANGED <<loadPhase, loadError, BotDashboard, timeout>>
      BY <1>3, <2>3 DEF importBundle
    <3>2. QED
      BY <2>1, <3>1, StageKeeps
  <2>4. QED
    BY <2>2, <2>3
<1>4. ASSUME NEW l \in Load, FetchBundle(l) PROVE BundleInv'
  <2>1. loads[l].pc # "none" /\ asked' = asked
    BY <1>4 DEF FetchBundle
  <2>2. CASE LoadFails(l) /\ cached' = cached
    BY <2>1, <2>2, LoadFailsKeeps
  <2>3. CASE ~(LoadFails(l) /\ cached' = cached)
    <3>1. /\ loads' = [loads EXCEPT ![l].pc = "import"]
          /\ UNCHANGED <<loadPhase, loadError, BotDashboard, timeout>>
          /\ \/ cached' = cached
             \/ \E text \in {"good", "bad"} : cached' = [cached EXCEPT ![loads[l].bundle] = text]
      BY <1>4, <2>3 DEF FetchBundle
    <3>2. cached' \in [Bundle -> {"none", "good", "bad"}]
      BY <3>1 DEF BundleInv, BundleTypeOK
    <3>3. QED
      BY <2>1, <3>1, <3>2, StageKeeps
  <2>4. QED
    BY <2>2, <2>3
<1>5. ASSUME NEW l \in Load, ImportFetched(l) PROVE BundleInv'
  <2>1. loads[l].pc # "none" /\ asked' = asked /\ cached' = cached
        /\ cached \in [Bundle -> {"none", "good", "bad"}]
    BY <1>5 DEF ImportFetched, BundleInv, BundleTypeOK
  <2>2. QED
    BY <1>5, <2>1, ImportedKeeps, LoadFailsKeeps DEF ImportFetched
<1>6. QED
  BY <1>1, <1>2, <1>3, <1>4, <1>5, TimeoutKeeps DEF BundleNext

LEMMA BundleInvariant == BundleSpec => []BundleInv
  BY BundleStarts, BundleStep, PTL DEF BundleSpec

\* Every reachable state of BundleLoader is well typed.
THEOREM BundleTypeCorrect == BundleSpec => []BundleTypeOK
<1>1. BundleInv => BundleTypeOK
  BY DEF BundleInv
<1>2. QED
  BY <1>1, BundleInvariant, PTL

\* BotDashboardLoader's effect starts a run for every bundle that the user goes to, whose answers
\* may come in any order, after its timeout or after the cleanup: what is shown is the dashboard of
\* the bundle asked for last, and the page waits only while a timeout is set for a live run of it.
THEOREM LatestBundleWins == BundleSpec => []DashboardIsTheOneAsked
<1>1. BundleInv => DashboardIsTheOneAsked
  BY DEF BundleInv, DashboardIsTheOneAsked, Live, BundleTypeOK
<1>2. QED
  BY <1>1, BundleInvariant, PTL

-----------------------------------------------------------------------------
(* The session of the web frontend.                                            *)

\* The states of a request of the page.
AskState == [op : {"none", "call", "refreshUser", "login", "changed", "deactivated"} \cup Forms,
             token : 0..MaxToken]

\* A request has a token that was given out, unless it is one to log in.
TokensInUse ==
  \A a \in ApiCall : asks[a].op \notin {"none", "login"} => asks[a].token \in 1..issued

\* The inductive invariant: nothing is asked for before the page has loaded.
WebSessionInv ==
  /\ WebSessionTypeOK
  /\ SessionAgrees
  /\ loading # "done" => ended = {} /\ asks = [a \in ApiCall |-> NoAsk]
  /\ TokensInUse

LEMMA WebSessionStarts == WebSessionInit => WebSessionInv
<1> SUFFICES ASSUME WebSessionInit PROVE WebSessionInv
  OBVIOUS
<1>1. MaxToken \in Nat /\ 1 <= MaxToken
  BY WebSessionConstants
<1>2. NoAsk \in AskState
  BY <1>1 DEF NoAsk, AskState
<1>3. asks \in [ApiCall -> AskState] /\ \A a \in ApiCall : asks[a].op = "none"
  BY <1>2 DEF WebSessionInit, NoAsk
<1>4. WebSessionTypeOK
  <2>1. issued \in 0..MaxToken /\ accepted \subseteq 1..issued
    BY <1>1 DEF WebSessionInit
  <2>2. {savedToken, cookie, token, user} \subseteq 0..issued
    BY DEF WebSessionInit
  <2>3. loading \in {"validate", "me", "done"} /\ mixed \in BOOLEAN /\ ended \subseteq 1..issued
    BY DEF WebSessionInit
  <2>4. QED
    BY <1>3, <2>1, <2>2, <2>3 DEF WebSessionTypeOK, AskState
<1>5. SessionAgrees
  BY DEF WebSessionInit, SessionAgrees
<1>6. QED
  BY <1>3, <1>4, <1>5 DEF WebSessionInit, WebSessionInv, TokensInUse

\* A request is answered: it is gone, and what else there is to know of the requests stays.
LEMMA AnsweredKeeps ==
  ASSUME WebSessionInv, NEW a \in ApiCall, Answered(a), loading = "done", loading' = "done",
         issued' \in 0..MaxToken, issued <= issued'
  PROVE  asks' \in [ApiCall -> AskState] /\ TokensInUse'
<1>1. asks \in [ApiCall -> AskState] /\ NoAsk \in AskState /\ issued \in Nat /\ issued' \in Nat
  BY WebSessionConstants DEF WebSessionInv, WebSessionTypeOK, AskState, NoAsk
<1>2. /\ asks' \in [ApiCall -> AskState] /\ asks'[a].op = "none"
      /\ \A b \in ApiCall \ {a} : asks'[b] = asks[b]
  BY <1>1 DEF Answered, NoAsk
<1>3. QED
  BY <1>1, <1>2 DEF WebSessionInv, TokensInUse

\* What the page is left with by a step that signs in, signs out or does neither.
LEMMA SessionKeeps ==
  ASSUME WebSessionInv, asks' \in [ApiCall -> AskState], TokensInUse', loading' = "done",
         issued' \in 0..MaxToken, issued <= issued', accepted' \subseteq 1..issued',
         \/ \E t \in 0..issued' : SetSession(t) /\ t \notin ended'
         \/ UNCHANGED <<savedToken, cookie, token, user, mixed>> /\ savedToken \notin ended'
            /\ loading = "done",
         ended' \subseteq 1..issued'
  PROVE  WebSessionInv'
<1>1. issued \in Nat /\ issued' \in Nat /\ {savedToken, cookie, token, user} \subseteq 0..issued
      /\ mixed \in BOOLEAN
  BY WebSessionConstants DEF WebSessionInv, WebSessionTypeOK
<1>2. {savedToken', cookie', token', user'} \subseteq 0..issued'
  BY <1>1 DEF SetSession
<1>3. mixed' \in BOOLEAN
  BY <1>1 DEF SetSession
<1>4. WebSessionTypeOK'
  BY <1>2, <1>3 DEF WebSessionTypeOK, AskState
<1>5. SessionAgrees'
  BY DEF SessionAgrees, SetSession, WebSessionInv
<1>6. QED
  BY <1>4, <1>5 DEF WebSessionInv

LEMMA LoadingKeeps ==
  ASSUME WebSessionInv, NEW ok \in BOOLEAN, validateSavedToken(ok) \/ initializeAuth(ok)
  PROVE  WebSessionInv'
<1>1. /\ UNCHANGED <<accepted, issued, asks, ended>> /\ ended = {} /\ loading # "done"
      /\ asks \in [ApiCall -> AskState] /\ TokensInUse /\ issued \in 0..MaxToken
      /\ accepted \subseteq 1..issued /\ savedToken \in 0..issued /\ issued \in Nat
      /\ asks = [a \in ApiCall |-> NoAsk]
  BY WebSessionConstants
     DEF WebSessionInv, WebSessionTypeOK, AskState, validateSavedToken, initializeAuth, apiSide
<1>2. CASE loading' = "me"
  <2>1. UNCHANGED <<savedToken, cookie, token, user, mixed>>
    BY <1>2 DEF validateSavedToken, initializeAuth
  <2>2. WebSessionTypeOK'
    BY <1>1, <1>2, <2>1 DEF WebSessionInv, WebSessionTypeOK, AskState
  <2>3. QED
    BY <1>1, <1>2, <2>2 DEF WebSessionInv, SessionAgrees, TokensInUse
<1>3. CASE loading' # "me"
  <2>1. loading' = "done" /\ \E t \in 0..issued' : SetSession(t)
    BY <1>1, <1>3 DEF validateSavedToken, initializeAuth, clearAuthState
  <2>2. TokensInUse'
    BY <1>1 DEF TokensInUse
  <2>3. QED
    BY <1>1, <2>1, <2>2, SessionKeeps
<1>4. QED
  BY <1>2, <1>3

LEMMA SendAskKeeps ==
  ASSUME WebSessionInv, NEW a \in ApiCall,
         NEW op \in {"call", "refreshUser", "login"} \cup Forms, SendAsk(a, op)
  PROVE  WebSessionInv'
<1> DEFINE r == [op |-> op, token |-> IF op = "login" THEN 0 ELSE savedToken]
<1>1. /\ UNCHANGED <<accepted, issued, savedToken, cookie, token, user, loading, mixed, ended>>
      /\ asks' = [asks EXCEPT ![a] = r] /\ loading = "done"
      /\ asks \in [ApiCall -> AskState] /\ issued \in 0..MaxToken /\ savedToken \in 0..issued
      /\ (op # "login" => savedToken # 0)
  BY DEF SendAsk, WebSessionInv, WebSessionTypeOK, AskState, apiSide
<1>2. r \in AskState /\ r.op = op /\ (op # "login" => r.token \in 1..issued)
  BY <1>1, WebSessionConstants DEF AskState
<1> HIDE DEF r
<1>3. asks' \in [ApiCall -> AskState] /\ asks'[a] = r /\ \A b \in ApiCall \ {a} : asks'[b] = asks[b]
  BY <1>1, <1>2
<1>4. WebSessionTypeOK'
  BY <1>1, <1>3 DEF WebSessionInv, WebSessionTypeOK, AskState
<1>5. TokensInUse'
  BY <1>1, <1>2, <1>3 DEF WebSessionInv, TokensInUse
<1>6. QED
  BY <1>1, <1>4, <1>5 DEF WebSessionInv, SessionAgrees

\* The answers but that to refreshUser: they sign in, sign out or change nothing here.
LEMMA AnswerKeeps ==
  ASSUME WebSessionInv, NEW a \in ApiCall,
         signIn(a) \/ authFetch(a) \/ PasswordForm(a) \/ DeleteAccount(a)
  PROVE  WebSessionInv'
<1>1. /\ issued \in Nat /\ issued \in 0..MaxToken /\ accepted \subseteq 1..issued
      /\ ended \subseteq 1..issued /\ asks \in [ApiCall -> AskState]
  BY WebSessionConstants DEF WebSessionInv, WebSessionTypeOK, AskState
<1>2. asks[a].op # "none" /\ Answered(a) /\ loading' = loading
  BY DEF signIn, authFetch, PasswordForm, DeleteAccount, Forms, Ending
<1>3. loading = "done"
  BY <1>1, <1>2 DEF WebSessionInv, NoAsk
<1>4. savedToken \notin ended
  BY <1>3 DEF WebSessionInv, SessionAgrees
<1>5. CASE signIn(a) /\ POSTLogin /\ SetSession(issued + 1)
  <2>1. /\ issued' = issued + 1 /\ issued' \in 0..MaxToken /\ accepted' \subseteq 1..issued'
        /\ ended' = ended /\ issued + 1 \notin ended
    BY <1>1, <1>5, WebSessionConstants DEF POSTLogin, signIn
  <2>2. asks' \in [ApiCall -> AskState] /\ TokensInUse'
    BY <1>1, <1>2, <1>3, <2>1, AnsweredKeeps
  <2>3. QED
    BY <1>1, <1>2, <1>3, <1>5, <2>1, <2>2, SessionKeeps
<1>6. CASE ~(signIn(a) /\ POSTLogin /\ SetSession(issued + 1))
  <2>1. /\ UNCHANGED <<accepted, issued>> /\ ended' \subseteq 1..issued
        /\ \/ clearAuthState
           \/ UNCHANGED <<savedToken, cookie, token, user, mixed>> /\ ended' = ended
    BY <1>1, <1>6 DEF signIn, authFetch, PasswordForm, DeleteAccount, FormFails, apiSide,
                      WebSessionInv, TokensInUse
  <2>2. asks' \in [ApiCall -> AskState] /\ TokensInUse'
    BY <1>1, <1>2, <1>3, <2>1, AnsweredKeeps
  <2>3. \/ SetSession(0) /\ 0 \in 0..issued' /\ 0 \notin ended'
        \/ UNCHANGED <<savedToken, cookie, token, user, mixed>> /\ savedToken \notin ended'
    BY <1>1, <1>4, <2>1 DEF clearAuthState
  <2>4. QED
    BY <1>1, <1>2, <1>3, <2>1, <2>2, <2>3, SessionKeeps
<1>7. QED
  BY <1>5, <1>6

LEMMA LogoutKeeps == ASSUME WebSessionInv, logout PROVE WebSessionInv'
<1>1. UNCHANGED <<accepted, issued, loading, asks, ended>> /\ loading = "done" /\ SetSession(0)
  BY DEF logout, clearAuthState, apiSide
<1>2. /\ issued \in Nat /\ issued \in 0..MaxToken /\ accepted \subseteq 1..issued
      /\ ended \subseteq 1..issued /\ asks \in [ApiCall -> AskState] /\ TokensInUse
  BY WebSessionConstants DEF WebSessionInv, WebSessionTypeOK, AskState
<1>3. TokensInUse' /\ 0 \in 0..issued' /\ 0 \notin ended'
  BY <1>1, <1>2 DEF TokensInUse
<1>4. QED
  BY <1>1, <1>2, <1>3, SessionKeeps

LEMMA RefreshKeeps == ASSUME WebSessionInv, NEW a \in ApiCall, refreshUser(a) PROVE WebSessionInv'
<1>1. /\ issued \in Nat /\ issued \in 0..MaxToken /\ accepted \subseteq 1..issued
      /\ ended \subseteq 1..issued /\ asks \in [ApiCall -> AskState]
  BY WebSessionConstants DEF WebSessionInv, WebSessionTypeOK, AskState
<1>2. /\ asks[a].op = "refreshUser" /\ Answered(a)
      /\ UNCHANGED <<accepted, issued, loading, ended>>
  BY DEF refreshUser, apiSide
<1>3. loading = "done" /\ asks[a].token \in 1..issued
  BY <1>1, <1>2 DEF WebSessionInv, TokensInUse, NoAsk
<1>4. asks' \in [ApiCall -> AskState] /\ TokensInUse'
  BY <1>1, <1>2, <1>3, AnsweredKeeps
<1>5. CASE clearAuthState
  <2>1. SetSession(0) /\ 0 \in 0..issued' /\ 0 \notin ended'
    BY <1>1, <1>2, <1>5 DEF clearAuthState
  <2>2. QED
    BY <1>1, <1>2, <1>3, <1>4, <2>1, SessionKeeps
<1>6. CASE ~clearAuthState
  <2>1. /\ user' = asks[a].token
        /\ mixed' = (mixed \/ asks[a].token # savedToken)
        /\ UNCHANGED <<savedToken, cookie, token>>
    BY <1>6 DEF refreshUser
  <2>2. mixed' \in BOOLEAN /\ (mixed' \/ savedToken = user')
    BY <2>1
  <2>3. WebSessionTypeOK'
    BY <1>2, <1>3, <1>4, <2>1, <2>2 DEF WebSessionInv, WebSessionTypeOK, AskState
  <2>4. SessionAgrees'
    BY <1>2, <1>3, <2>1, <2>2 DEF WebSessionInv, SessionAgrees
  <2>5. QED
    BY <1>2, <1>3, <1>4, <2>3, <2>4 DEF WebSessionInv
<1>7. QED
  BY <1>5, <1>6

LEMMA ProfileKeeps == ASSUME WebSessionInv, NEW a \in ApiCall, ProfileForm(a) PROVE WebSessionInv'
<1>1. /\ issued \in Nat /\ issued \in 0..MaxToken /\ accepted \subseteq 1..issued
      /\ ended \subseteq 1..issued /\ asks \in [ApiCall -> AskState] /\ savedToken \in 0..issued
  BY WebSessionConstants DEF WebSessionInv, WebSessionTypeOK, AskState
<1>2. asks[a].op = "profile" /\ UNCHANGED <<accepted, issued, loading, ended>>
  BY DEF ProfileForm, apiSide
<1>3. loading = "done"
  BY <1>1, <1>2 DEF WebSessionInv, NoAsk
<1>4. CASE savedToken = 0
  <2>1. SetSession(0) /\ Answered(a) /\ 0 \in 0..issued' /\ 0 \notin ended'
    BY <1>1, <1>2, <1>4 DEF ProfileForm, clearAuthState
  <2>2. asks' \in [ApiCall -> AskState] /\ TokensInUse'
    BY <1>1, <1>2, <1>3, <2>1, AnsweredKeeps
  <2>3. QED
    BY <1>1, <1>2, <1>3, <2>1, <2>2, SessionKeeps
<1>5. CASE savedToken # 0
  <2> DEFINE r == [op |-> "refreshUser", token |-> savedToken]
  <2>1. asks' = [asks EXCEPT ![a] = r] /\ UNCHANGED <<savedToken, cookie, token, user, mixed>>
    BY <1>5 DEF ProfileForm
  <2>2. r \in AskState /\ r.token \in 1..issued
    BY <1>1, <1>5, WebSessionConstants DEF AskState
  <2> HIDE DEF r
  <2>3. asks' \in [ApiCall -> AskState] /\ asks'[a] = r
        /\ \A b \in ApiCall \ {a} : asks'[b] = asks[b]
    BY <1>1, <2>1, <2>2
  <2>4. TokensInUse'
    BY <1>1, <1>2, <2>2, <2>3 DEF WebSessionInv, TokensInUse
  <2>5. savedToken \notin ended'
    BY <1>2, <1>3 DEF WebSessionInv, SessionAgrees
  <2>6. QED
    BY <1>1, <1>2, <1>3, <2>1, <2>3, <2>4, <2>5, SessionKeeps
<1>6. QED
  BY <1>4, <1>5

\* The API takes back a token, for a request or on its own.
LEMMA EndSessionsKeeps ==
  ASSUME WebSessionInv, NEW a \in ApiCall, NEW op \in Ending,
    NEW then \in {"changed", "deactivated"},
         EndSessions(a, op, then)
  PROVE  WebSessionInv'
<1> DEFINE r == [asks[a] EXCEPT !.op = then]
<1>1. /\ UNCHANGED <<issued, savedToken, cookie, token, user, loading, mixed, ended>>
      /\ accepted' \subseteq accepted /\ asks[a].op = op
      /\ asks \in [ApiCall -> AskState] /\ asks[a] \in AskState
      /\ asks' = [asks EXCEPT ![a] = r]
  BY DEF EndSessions, WebSessionInv, WebSessionTypeOK, AskState
<1>2. r \in AskState /\ r.token = asks[a].token
  BY <1>1 DEF AskState
<1> HIDE DEF r
<1>3. asks' \in [ApiCall -> AskState] /\ asks'[a] = r /\ \A b \in ApiCall \ {a} : asks'[b] = asks[b]
  BY <1>1, <1>2
<1>4. loading = "done"
  BY <1>1 DEF WebSessionInv, NoAsk, Ending
<1>5. WebSessionTypeOK'
  BY <1>1, <1>3 DEF WebSessionInv, WebSessionTypeOK, AskState
<1>6. TokensInUse'
  BY <1>1, <1>2, <1>3 DEF WebSessionInv, TokensInUse, Ending
<1>7. QED
  BY <1>1, <1>4, <1>5, <1>6 DEF WebSessionInv, SessionAgrees

LEMMA WebSessionStep == WebSessionInv /\ [WebSessionNext]_webSessionVars => WebSessionInv'
<1> SUFFICES ASSUME WebSessionInv, [WebSessionNext]_webSessionVars PROVE WebSessionInv'
  OBVIOUS
<1>1. CASE UNCHANGED webSessionVars
  BY <1>1 DEF WebSessionInv, WebSessionTypeOK, SessionAgrees, TokensInUse, webSessionVars, apiSide
<1>2. ASSUME NEW a \in ApiCall, changePassword(a) PROVE WebSessionInv'
  BY <1>2, EndSessionsKeeps DEF changePassword, Ending
<1>3. ASSUME NEW a \in ApiCall, deleteAccount(a) PROVE WebSessionInv'
  BY <1>3, EndSessionsKeeps DEF deleteAccount, Ending
<1>4. ASSUME NEW t \in 1..MaxToken, RevokeToken(t) PROVE WebSessionInv'
  BY <1>4 DEF RevokeToken, WebSessionInv, WebSessionTypeOK, SessionAgrees, TokensInUse
<1>5. QED
  BY <1>1, <1>2, <1>3, <1>4, LoadingKeeps, SendAskKeeps, AnswerKeeps, LogoutKeeps, RefreshKeeps,
     ProfileKeeps DEF WebSessionNext

LEMMA WebSessionInvariant == WebSessionSpec => []WebSessionInv
  BY WebSessionStarts, WebSessionStep, PTL DEF WebSessionSpec

\* Every reachable state of WebSession is well typed.
THEOREM WebSessionTypeCorrect == WebSessionSpec => []WebSessionTypeOK
<1>1. WebSessionInv => WebSessionTypeOK
  BY DEF WebSessionInv
<1>2. QED
  BY <1>1, WebSessionInvariant, PTL

\* localStorage, the cookie and the React state are written one after the other, by logging in and
\* out, by answers 401 to any request and by the settings' forms: on a page that has loaded they
\* agree on the session, and none holds one that has ended.
THEOREM SignOutsAreComplete == WebSessionSpec => []SessionAgrees
<1>1. WebSessionInv => SessionAgrees
  BY DEF WebSessionInv
<1>2. QED
  BY <1>1, WebSessionInvariant, PTL

-----------------------------------------------------------------------------
(* The dashboard: the list of bots and the panel of one.                       *)

\* What is stored of a bot; the requests of the panel and of the list.
Settings == [enabled : BOOLEAN, edition : Nat]
PanelRequest ==
  [op : {"get", "put", "delete"}, bot : Listed, own : BOOLEAN, done : BOOLEAN,
   config : Settings \cup {Absent}, others : SUBSET Listed]
ListFetch ==
  [op : {"list"}, done : BOOLEAN, read : [Listed -> Settings \cup {Absent}], since : SUBSET Listed]
RequestTable == [1..MaxRequest -> PanelRequest \cup ListFetch \cup {Vacant}]

\* A request of the panel that is open.
Own(r) == r # Vacant /\ r.op # "list" /\ r.own

\* What request r carries is true of the page p and of the bots st that are stored.
TrueList(r, st) == r.done => \A b \in Listed \ r.since : r.read[b] = st[b]
\* A deleted bot is not stored again: its request is over for good.
TrueRequest(r, p, st) ==
  /\ r.own => r.bot = p
  /\ r.op = "delete" => r.bot \notin r.others /\ (r.done => st[r.bot] = Absent)
Sound(r, p, st) ==
  \/ r = Vacant
  \/ r \in ListFetch /\ TrueList(r, st)
  \/ r \in PanelRequest /\ TrueRequest(r, p, st)

\* The types that the proof needs.
DashboardTypes ==
  /\ storedBots \in [Listed -> Settings \cup {Absent}]
  /\ listedBots \in [Listed -> Settings \cup {Absent}]
  /\ page \in Listed \cup {Home} /\ panelBot \in Settings \cup {Absent}
  /\ requests \in RequestTable

\* The list is as stored, but for what has changed since.
ListTrue == \A b \in Listed \ unseen : listedBots[b] = storedBots[b]

\* An undisturbed panel has one request at a time, and shows its bot until it is stored anew.
OneRequest == \A i, j \in 1..MaxRequest : Own(requests[i]) /\ Own(requests[j]) => i = j
\* What is answered to the panel is its bot as it is stored.
AnswersTrue ==
  \A i \in 1..MaxRequest :
    Own(requests[i]) /\ requests[i].done /\ requests[i].op # "delete" =>
      requests[i].config = storedBots[page]
\* The panel shows what is stored, nothing yet, or what an answer is about to replace.
PanelTrue ==
  \/ panelBot \in {Absent, storedBots[page]}
  \/ \E i \in 1..MaxRequest : Own(requests[i]) /\ requests[i].done /\ requests[i].op # "get"

\* The inductive invariant.
DashboardInv ==
  /\ DashboardTypes
  /\ \A i \in 1..MaxRequest : Sound(requests[i], page, storedBots)
  /\ ListTrue
  /\ page # Home /\ ~panelDisturbed => OneRequest /\ AnswersTrue /\ PanelTrue

\* Requests are of one kind.
LEMMA KindsOfRequest ==
  /\ \A r \in PanelRequest : r.op \in {"get", "put", "delete"} /\ r # Vacant /\ r \notin ListFetch
  /\ \A r \in ListFetch : r.op = "list" /\ r # Vacant /\ r \notin PanelRequest
  /\ Vacant.op = "none"
  BY DEF PanelRequest, ListFetch, Vacant

LEMMA RequestsAre ==
  ASSUME DashboardInv, NEW i \in 1..MaxRequest
  PROVE  /\ requests[i].op \in {"get", "put", "delete"} =>
              requests[i] \in PanelRequest /\ TrueRequest(requests[i], page, storedBots)
         /\ requests[i].op = "list" =>
              requests[i] \in ListFetch /\ TrueList(requests[i], storedBots)
         /\ requests[i].op \notin {"get", "put", "delete", "list"} => requests[i] = Vacant
         /\ Own(requests[i]) => requests[i].op \in {"get", "put", "delete"} /\ page # Home
                                /\ requests[i].bot = page
<1>1. Sound(requests[i], page, storedBots)
  BY DEF DashboardInv
<1>2. CASE requests[i] \in PanelRequest /\ TrueRequest(requests[i], page, storedBots)
  <2>1. requests[i].bot \in Listed
    BY <1>2 DEF PanelRequest
  <2>2. QED
    BY <1>2, <2>1, KindsOfRequest, DashboardConstants DEF TrueRequest, Own
<1>3. QED
  BY <1>1, <1>2, KindsOfRequest DEF Sound, Own

-----------------------------------------------------------------------------
(* Steps by what they do to the requests. *)

\* A request more, in a place of its own.
Joins(n, rs, r, new) ==
  /\ n \in 1..MaxRequest /\ rs[n] = Vacant /\ new[n] = r
  /\ \A j \in (1..MaxRequest) \ {n} : new[j] = rs[j]

LEMMA Placed ==
  ASSUME NEW rs \in RequestTable, NEW r \in PanelRequest \cup ListFetch,
         \E i \in 1..MaxRequest : rs[i] = Vacant, NEW new, new = Send(rs, r)
  PROVE  new \in RequestTable /\ \E n : Joins(n, rs, r, new)
<1>1. PICK n \in 1..MaxRequest : n = CHOOSE i \in 1..MaxRequest : rs[i] = Vacant
  OBVIOUS
<1>2. rs[n] = Vacant
  BY <1>1
<1>3. new = [rs EXCEPT ![n] = r]
  BY <1>1 DEF Send
<1>4. Joins(n, rs, r, new)
  BY <1>2, <1>3 DEF Joins, RequestTable
<1>5. QED
  BY <1>3, <1>4 DEF RequestTable

LEMMA RoomForOne == ASSUME Room(1) PROVE \E i \in 1..MaxRequest : requests[i] = Vacant
<1>1. SUFFICES ASSUME {i \in 1..MaxRequest : requests[i] = Vacant} = {} PROVE FALSE
  OBVIOUS
<1>2. Cardinality({}) = 0
  BY FS_EmptySet
<1>3. QED
  BY <1>1, <1>2 DEF Room

LEMMA RoomForTwo ==
  ASSUME Room(2), NEW n \in 1..MaxRequest
  PROVE  \E i \in (1..MaxRequest) \ {n} : requests[i] = Vacant
<1>1. SUFFICES ASSUME {i \in 1..MaxRequest : requests[i] = Vacant} \subseteq {n} PROVE FALSE
  OBVIOUS
<1>2. Cardinality({n}) = 1 /\ IsFiniteSet({n})
  BY FS_Singleton
<1>3. Cardinality({i \in 1..MaxRequest : requests[i] = Vacant}) <= 1
      /\ Cardinality({i \in 1..MaxRequest : requests[i] = Vacant}) \in Nat
  BY <1>1, <1>2, FS_Subset, FS_CardinalityType
<1>4. QED
  BY <1>3 DEF Room

\* Steps that leave the panel's own requests alone.
LEMMA PanelKept ==
  ASSUME DashboardInv, UNCHANGED <<page, panelBot>>,
         storedBots'[page] = storedBots[page], panelDisturbed => panelDisturbed',
         \A j \in 1..MaxRequest : Own(requests'[j]) => requests'[j] = requests[j],
         \A j \in 1..MaxRequest :
           Own(requests[j]) /\ requests[j].done /\ requests[j].op # "get" =>
             panelDisturbed' \/ requests'[j] = requests[j]
  PROVE  page' # Home /\ ~panelDisturbed' => (OneRequest /\ AnswersTrue /\ PanelTrue)'
<1> SUFFICES ASSUME page' # Home, ~panelDisturbed' PROVE (OneRequest /\ AnswersTrue /\ PanelTrue)'
  OBVIOUS
<1>1. OneRequest /\ AnswersTrue /\ PanelTrue
  BY DEF DashboardInv
<1>2. OneRequest'
  BY <1>1 DEF OneRequest
<1>3. AnswersTrue'
  BY <1>1 DEF AnswersTrue
<1>4. PanelTrue'
  BY <1>1 DEF PanelTrue
<1>5. QED
  BY <1>2, <1>3, <1>4

LEMMA AskedAre ==
  /\ AskList \in ListFetch /\ AskList.op = "list" /\ ~AskList.done
  /\ \A o \in {"get", "put", "delete"}, b \in Listed, c \in Settings \cup {Absent},
        bs \in SUBSET Listed :
       LET r == Ask(o, b, c, bs)
       IN r \in PanelRequest /\ r.op = o /\ r.bot = b /\ r.own /\ ~r.done /\ r.others = bs
  BY DEF AskList, ListFetch, Ask, PanelRequest

LEMMA ListAsks ==
  ASSUME DashboardInv, Room(1), requests' = Send(requests, AskList),
         UNCHANGED <<storedBots, listedBots, page, panelBot, unseen, panelDisturbed>>
  PROVE  DashboardInv'
<1>1. requests \in RequestTable
  BY DEF DashboardInv, DashboardTypes
<1>2. requests' \in RequestTable /\ \E n : Joins(n, requests, AskList, requests')
  BY <1>1, RoomForOne, AskedAre, Placed
<1>3. PICK n : Joins(n, requests, AskList, requests')
  BY <1>2
<1>4. DashboardTypes' /\ ListTrue'
  BY <1>2 DEF DashboardInv, DashboardTypes, ListTrue
<1>5. ASSUME NEW i \in 1..MaxRequest PROVE Sound(requests'[i], page', storedBots')
  <2>1. requests'[i] = AskList \/ requests'[i] = requests[i]
    BY <1>3 DEF Joins
  <2>2. Sound(AskList, page', storedBots')
    BY AskedAre DEF Sound, TrueList
  <2>3. QED
    BY <2>1, <2>2 DEF DashboardInv
<1>6. page' # Home /\ ~panelDisturbed' => (OneRequest /\ AnswersTrue /\ PanelTrue)'
  <2>1. \A j \in 1..MaxRequest : Own(requests'[j]) => requests'[j] = requests[j]
    BY <1>3, AskedAre DEF Joins, Own
  <2>2. \A j \in 1..MaxRequest : Own(requests[j]) => requests'[j] = requests[j]
    BY <1>3 DEF Joins, Own
  <2>3. QED
    BY <2>1, <2>2, PanelKept
<1>7. QED
  BY <1>4, <1>5, <1>6 DEF DashboardInv

\* A request of the panel, about its bot, for which nothing else is asked.
LEMMA PanelAsks ==
  ASSUME DashboardInv, NEW r \in PanelRequest, r.own, r.bot = page, ~r.done,
         r.op = "delete" => r.bot \notin r.others,
         NEW rs \in RequestTable, \E i \in 1..MaxRequest : rs[i] = Vacant,
         requests' = Send(rs, r),
         \A j \in 1..MaxRequest : rs[j] \in {requests[j], AskList}
           /\ (Own(requests[j]) => Own(rs[j])),
         panelDisturbed' = (panelDisturbed \/ OwnPending # {}),
         UNCHANGED <<storedBots, listedBots, page, panelBot, unseen>>
  PROVE  DashboardInv'
<1>1. requests' \in RequestTable /\ \E n : Joins(n, rs, r, requests')
  BY Placed
<1>2. PICK n : Joins(n, rs, r, requests')
  BY <1>1
<1>3. DashboardTypes' /\ ListTrue'
  BY <1>1 DEF DashboardInv, DashboardTypes, ListTrue
<1>4. \A i \in 1..MaxRequest : \/ i = n /\ requests'[i] = r
                               \/ i # n /\ requests'[i] \in {requests[i], AskList}
  BY <1>2 DEF Joins
<1>5. ASSUME NEW i \in 1..MaxRequest PROVE Sound(requests'[i], page', storedBots')
  <2>1. Sound(r, page', storedBots') /\ Sound(AskList, page', storedBots')
    BY AskedAre DEF Sound, TrueRequest, TrueList
  <2>2. QED
    BY <1>4, <2>1 DEF DashboardInv
<1>6. ASSUME page' # Home, ~panelDisturbed' PROVE (OneRequest /\ AnswersTrue /\ PanelTrue)'
  <2>1. OneRequest /\ AnswersTrue /\ PanelTrue
    BY <1>6 DEF DashboardInv
  <2>2. \A i \in 1..MaxRequest : ~Own(requests[i])
    BY <1>6 DEF OwnPending, Own
  <2>3. \A i \in 1..MaxRequest : Own(requests'[i]) => i = n /\ requests'[i] = r
    BY <1>4, <2>2, AskedAre DEF Own
  <2>4. OneRequest'
    BY <2>3 DEF OneRequest
  <2>5. AnswersTrue'
    BY <2>3 DEF AnswersTrue
  <2>6. PanelTrue'
    BY <2>1, <2>2 DEF PanelTrue
  <2>7. QED
    BY <2>4, <2>5, <2>6
<1>7. QED
  BY <1>3, <1>5, <1>6 DEF DashboardInv

\* Requests of a panel that is unmounted.
LEMMA Disowned ==
  ASSUME DashboardInv, NEW rs \in RequestTable,
         \A j \in 1..MaxRequest : rs[j] \in {requests[j], Vacant}
  PROVE  /\ Disown(rs) \in RequestTable
         /\ \A j \in 1..MaxRequest :
              /\ ~Own(Disown(rs)[j]) /\ (rs[j] = Vacant => Disown(rs)[j] = Vacant)
              /\ \A p : Sound(Disown(rs)[j], p, storedBots)
<1> SUFFICES ASSUME NEW j \in 1..MaxRequest
             PROVE  /\ Disown(rs)[j] \in PanelRequest \cup ListFetch \cup {Vacant}
                    /\ ~Own(Disown(rs)[j]) /\ (rs[j] = Vacant => Disown(rs)[j] = Vacant)
                    /\ \A p : Sound(Disown(rs)[j], p, storedBots)
  BY DEF Disown, RequestTable
<1>1. rs[j] = Vacant \/ Sound(rs[j], page, storedBots)
  BY DEF DashboardInv
<1>2. CASE rs[j] = Vacant \/ (rs[j] \in ListFetch /\ TrueList(rs[j], storedBots))
  <2>1. Disown(rs)[j] = rs[j]
    BY <1>2, KindsOfRequest DEF Disown
  <2>2. QED
    BY <1>2, <2>1, KindsOfRequest DEF Own, Sound
<1>3. CASE rs[j] \in PanelRequest /\ TrueRequest(rs[j], page, storedBots)
  <2> DEFINE d == [rs[j] EXCEPT !.own = FALSE]
  <2>1. Disown(rs)[j] = d
    BY <1>3, KindsOfRequest DEF Disown
  <2>2. d \in PanelRequest /\ ~d.own /\ d.op = rs[j].op /\ d.bot = rs[j].bot
        /\ d.others = rs[j].others /\ d.done = rs[j].done
    BY <1>3 DEF PanelRequest
  <2> HIDE DEF d
  <2>3. \A p : Sound(d, p, storedBots)
    BY <1>3, <2>2 DEF Sound, TrueRequest
  <2>4. d # Vacant
    BY <2>2, KindsOfRequest
  <2>5. rs[j] # Vacant
    BY <1>3, KindsOfRequest
  <2>6. QED
    BY <2>1, <2>2, <2>3, <2>4, <2>5 DEF Own
<1>4. QED
  BY <1>1, <1>2, <1>3 DEF Sound

\* Another page: its panel starts with a request of its own.
LEMMA GoesElsewhere ==
  ASSUME DashboardInv, NEW p \in Listed \cup {Home}, p # page, NEW rs \in RequestTable,
         \A j \in 1..MaxRequest : rs[j] \in {requests[j], Vacant},
         p # Home => \E j \in 1..MaxRequest : rs[j] = Vacant,
         GoTo(p, rs), UNCHANGED storedBots,
         listedBots' \in [Listed -> Settings \cup {Absent}], ListTrue'
  PROVE  DashboardInv'
<1> DEFINE g == Ask("get", p, Absent, {})
<1>1. /\ page' = p /\ panelBot' = Absent
      /\ IF p = Home THEN requests' = Disown(rs) ELSE requests' = Send(Disown(rs), g)
  BY DEF GoTo
<1>2. PICK ds \in RequestTable : ds = Disown(rs)
  BY Disowned
<1>3. \A j \in 1..MaxRequest : /\ ~Own(ds[j]) /\ (rs[j] = Vacant => ds[j] = Vacant)
                               /\ Sound(ds[j], p, storedBots)
  BY <1>2, Disowned
<1>4. CASE p = Home
  <2>1. requests' = ds
    BY <1>1, <1>2, <1>4
  <2>2. DashboardTypes'
    BY <1>1, <2>1 DEF DashboardInv, DashboardTypes
  <2>3. QED
    BY <1>1, <1>3, <1>4, <2>1, <2>2 DEF DashboardInv
<1>5. CASE p # Home
  <2>1. g \in PanelRequest /\ g.op = "get" /\ g.bot = p /\ ~g.done
    BY <1>5, AskedAre
  <2>2. requests' = Send(ds, g) /\ \E j \in 1..MaxRequest : ds[j] = Vacant
    BY <1>1, <1>2, <1>3, <1>5
  <2> HIDE DEF g
  <2>3. requests' \in RequestTable /\ \E n : Joins(n, ds, g, requests')
    BY <2>1, <2>2, Placed
  <2>4. PICK n : Joins(n, ds, g, requests')
    BY <2>3
  <2>5. DashboardTypes'
    BY <1>1, <2>3 DEF DashboardInv, DashboardTypes
  <2>6. \A i \in 1..MaxRequest : \/ i = n /\ requests'[i] = g
                                 \/ i # n /\ requests'[i] = ds[i]
    BY <2>4 DEF Joins
  <2>7. \A i \in 1..MaxRequest : Sound(requests'[i], page', storedBots')
    <3>1. Sound(g, p, storedBots)
      BY <2>1 DEF Sound, TrueRequest
    <3>2. QED
      BY <1>1, <1>3, <2>6, <3>1
  <2>8. \A i \in 1..MaxRequest : Own(requests'[i]) => i = n /\ ~requests'[i].done
    BY <1>3, <2>1, <2>6
  <2>9. (OneRequest /\ AnswersTrue /\ PanelTrue)'
    BY <1>1, <2>8 DEF OneRequest, AnswersTrue, PanelTrue
  <2>10. QED
    BY <2>5, <2>7, <2>9 DEF DashboardInv
<1>6. QED
  BY <1>4, <1>5

\* A request is answered or fails, and what the panel shows of it is true.
LEMMA RequestEnds ==
  ASSUME DashboardInv, NEW i \in 1..MaxRequest, requests' = [requests EXCEPT ![i] = Vacant],
         UNCHANGED <<storedBots, page>>, listedBots' \in [Listed -> Settings \cup {Absent}],
         ListTrue', panelBot' \in Settings \cup {Absent}, panelDisturbed => panelDisturbed',
         IF Own(requests[i])
         THEN panelDisturbed' \/ panelBot' \in {Absent, storedBots[page]}
                              \/ (panelBot' = panelBot
                                   /\ (requests[i].op = "get" \/ ~requests[i].done))
         ELSE panelBot' = panelBot
  PROVE  DashboardInv'
<1>1. requests' \in RequestTable /\ requests'[i] = Vacant
      /\ \A j \in (1..MaxRequest) \ {i} : requests'[j] = requests[j]
  BY DEF DashboardInv, DashboardTypes, RequestTable
<1>2. DashboardTypes'
  BY <1>1 DEF DashboardInv, DashboardTypes
<1>3. \A j \in 1..MaxRequest : Sound(requests'[j], page', storedBots')
  BY <1>1 DEF DashboardInv, Sound
<1>4. ~Own(Vacant)
  BY DEF Own
<1>5. ASSUME page' # Home, ~panelDisturbed' PROVE (OneRequest /\ AnswersTrue /\ PanelTrue)'
  <2>1. OneRequest /\ AnswersTrue /\ PanelTrue
    BY <1>5 DEF DashboardInv
  <2>2. OneRequest'
    BY <1>1, <1>4, <2>1 DEF OneRequest
  <2>3. AnswersTrue'
    BY <1>1, <1>4, <2>1 DEF AnswersTrue
  <2>4. PanelTrue'
    <3>1. CASE panelBot' \in {Absent, storedBots[page]}
      BY <3>1 DEF PanelTrue
    <3>2. CASE panelBot' = panelBot /\ panelBot \notin {Absent, storedBots[page]}
      <4>1. PICK j \in 1..MaxRequest : Own(requests[j]) /\ requests[j].done
              /\ requests[j].op # "get"
        BY <2>1, <3>2 DEF PanelTrue
      <4>2. j # i
        BY <1>5, <3>2, <4>1
      <4>3. requests'[j] = requests[j]
        BY <1>1, <4>2
      <4>4. QED
        BY <4>1, <4>3 DEF PanelTrue
    <3>3. QED
      BY <1>5, <3>1, <3>2
  <2>5. QED
    BY <2>2, <2>3, <2>4
<1>6. QED
  BY <1>2, <1>3, <1>5 DEF DashboardInv

-----------------------------------------------------------------------------
(* The API's steps. *)

LEMMA ReadKeeps ==
  ASSUME DashboardInv, NEW i \in 1..MaxRequest, HandleRead(i)
  PROVE  DashboardInv'
<1>1. /\ ~requests[i].done /\ UNCHANGED <<storedBots, unseen, panelDisturbed>>
      /\ UNCHANGED <<listedBots, page, panelBot>>
  BY DEF HandleRead, Kept, listVars, detailVars
<1>2. requests \in RequestTable /\ storedBots \in [Listed -> Settings \cup {Absent}]
  BY DEF DashboardInv, DashboardTypes
<1>3. ASSUME NEW r \in PanelRequest \cup ListFetch, requests' = [requests EXCEPT ![i] = r],
             Sound(r, page, storedBots), r.op = requests[i].op,
             Own(requests[i]) => Own(r) /\ r.op = "get" /\ r.config = storedBots[page],
             Own(r) => Own(requests[i])
      PROVE  DashboardInv'
  <2>1. requests' \in RequestTable /\ requests'[i] = r
        /\ \A j \in (1..MaxRequest) \ {i} : requests'[j] = requests[j]
    BY <1>2, <1>3 DEF RequestTable
  <2>2. DashboardTypes' /\ ListTrue'
    BY <1>1, <2>1 DEF DashboardInv, DashboardTypes, ListTrue
  <2>3. \A j \in 1..MaxRequest : Sound(requests'[j], page', storedBots')
    BY <1>1, <1>3, <2>1 DEF DashboardInv
  <2>4. ASSUME page' # Home, ~panelDisturbed' PROVE (OneRequest /\ AnswersTrue /\ PanelTrue)'
    <3>1. OneRequest /\ AnswersTrue /\ PanelTrue
      BY <1>1, <2>4 DEF DashboardInv
    <3>2. OneRequest'
      BY <1>3, <2>1, <3>1 DEF OneRequest
    <3>3. AnswersTrue'
      BY <1>1, <1>3, <2>1, <3>1 DEF AnswersTrue
    <3>4. PanelTrue'
      BY <1>1, <1>3, <2>1, <3>1 DEF PanelTrue
    <3>5. QED
      BY <3>2, <3>3, <3>4
  <2>5. QED
    BY <2>2, <2>3, <2>4 DEF DashboardInv
<1>4. CASE requests[i].op = "list"
  <2> DEFINE r == [requests[i] EXCEPT !.done = TRUE, !.read = storedBots]
  <2>1. requests[i] \in ListFetch
    BY <1>4, RequestsAre
  <2>2. r \in ListFetch /\ r.op = "list" /\ r.read = storedBots
    BY <1>2, <2>1 DEF ListFetch
  <2>3. requests' = [requests EXCEPT ![i] = r]
    BY <1>4 DEF HandleRead
  <2> HIDE DEF r
  <2>4. Sound(r, page, storedBots)
    BY <2>2 DEF Sound, TrueList
  <2>5. QED
    BY <1>3, <1>4, <2>2, <2>3, <2>4 DEF Own
<1>5. CASE requests[i].op = "get"
  <2> DEFINE r == [requests[i] EXCEPT !.done = TRUE, !.config = storedBots[requests[i].bot]]
  <2>1. requests[i] \in PanelRequest /\ TrueRequest(requests[i], page, storedBots)
    BY <1>5, RequestsAre
  <2>2. storedBots[requests[i].bot] \in Settings \cup {Absent}
    BY <1>2, <2>1 DEF PanelRequest
  <2>3. r \in PanelRequest /\ r.op = "get" /\ r.own = requests[i].own /\ r.bot = requests[i].bot
        /\ r.config = storedBots[requests[i].bot]
    BY <1>5, <2>1, <2>2 DEF PanelRequest
  <2>4. requests' = [requests EXCEPT ![i] = r]
    BY <1>5 DEF HandleRead
  <2> HIDE DEF r
  <2>5. Sound(r, page, storedBots)
    BY <2>1, <2>3 DEF Sound, TrueRequest
  <2>6. r # Vacant /\ requests[i] # Vacant
    BY <2>1, <2>3, KindsOfRequest
  <2>7. Own(requests[i]) => Own(r) /\ r.config = storedBots[page]
    BY <2>3, <2>6, RequestsAre DEF Own
  <2>8. Own(r) => Own(requests[i])
    BY <1>5, <2>3, <2>6 DEF Own
  <2>9. QED
    BY <1>3, <1>5, <2>3, <2>4, <2>5, <2>7, <2>8
<1>6. QED
  BY <1>4, <1>5 DEF HandleRead

\* Request q has done what r asked for: bot b is c.
DoneAs(q, r, b, c) ==
  /\ q \in PanelRequest /\ r \in PanelRequest /\ q.done /\ q.bot = b
  /\ q.op = r.op /\ q.bot = r.bot /\ q.own = r.own /\ q.others = r.others /\ q.config = r.config
  /\ \/ q.op = "put" /\ q.config = c
     \/ q.op = "delete" /\ c = Absent

\* Bot b, which there is, becomes c, for request i of the list rs if that is for anyone.
LEMMA StoredAnew ==
  ASSUME DashboardInv, NEW b \in Listed, NEW c \in Settings \cup {Absent}, NEW own,
         NEW rs \in RequestTable, storedBots[b] # Absent, StoreBot(b, c, own, rs),
         UNCHANGED <<listedBots, page, panelBot>>,
         NEW i \in 0..MaxRequest,
         \A j \in 1..MaxRequest : IF j = i THEN DoneAs(rs[j], requests[j], b, c)
           ELSE rs[j] = requests[j],
         own => i # 0 /\ rs[i].own, ~own => i = 0 \/ ~rs[i].own
  PROVE  DashboardInv'
<1>1. storedBots \in [Listed -> Settings \cup {Absent}] /\ requests \in RequestTable
  BY DEF DashboardInv, DashboardTypes
<1>2. /\ storedBots' \in [Listed -> Settings \cup {Absent}] /\ storedBots'[b] = c
      /\ \A d \in Listed \ {b} : storedBots'[d] = storedBots[d]
  BY <1>1 DEF StoreBot
<1>3. unseen' = unseen \cup {b} /\ (panelDisturbed' = (panelDisturbed \/ (b = page /\ ~own)))
  BY DEF StoreBot
<1>4. ASSUME NEW j \in 1..MaxRequest
      PROVE  /\ requests'[j] \in PanelRequest \cup ListFetch \cup {Vacant}
             /\ Sound(requests'[j], page', storedBots')
             /\ Own(requests'[j]) \/ Own(rs[j]) => requests'[j] = rs[j]
  <2>1. requests'[j] = IF rs[j] # Vacant /\ rs[j].op = "list" /\ rs[j].done
                       THEN [rs[j] EXCEPT !.since = @ \cup {b}] ELSE rs[j]
    BY DEF StoreBot
  <2>2. CASE j = i
    <3>1. rs[j] \in PanelRequest /\ requests[j] \in PanelRequest
      BY <2>2 DEF DoneAs
    <3>2. requests'[j] = rs[j]
      BY <2>1, <3>1, KindsOfRequest
    <3>3. TrueRequest(requests[j], page, storedBots)
      BY <3>1, RequestsAre DEF PanelRequest
    <3>4. TrueRequest(rs[j], page, storedBots')
      BY <1>2, <2>2, <3>3 DEF TrueRequest, DoneAs
    <3>5. QED
      BY <3>1, <3>2, <3>4 DEF Sound
  <2>3. CASE j # i /\ rs[j] \in ListFetch
    <3> DEFINE r == [rs[j] EXCEPT !.since = @ \cup {b}]
    <3>1. rs[j] = requests[j] /\ rs[j].op = "list" /\ TrueList(rs[j], storedBots) /\ rs[j] # Vacant
      BY <2>3, KindsOfRequest, RequestsAre
    <3>2. r \in ListFetch /\ r.op = "list" /\ r.since = rs[j].since \cup {b} /\ r.read = rs[j].read
          /\ r.done = rs[j].done
      BY <2>3 DEF ListFetch
    <3>3. requests'[j] = IF rs[j].done THEN r ELSE rs[j]
      BY <2>1, <3>1
    <3> HIDE DEF r
    <3>4. rs[j].done => TrueList(r, storedBots')
      BY <1>2, <3>1, <3>2 DEF TrueList
    <3>5. ~rs[j].done => TrueList(rs[j], storedBots')
      BY DEF TrueList
    <3>6. ~Own(r) /\ ~Own(rs[j])
      BY <3>1, <3>2 DEF Own
    <3>7. CASE rs[j].done
      BY <3>2, <3>3, <3>4, <3>6, <3>7 DEF Sound
    <3>8. CASE ~rs[j].done
      BY <2>3, <3>3, <3>5, <3>6, <3>8 DEF Sound
    <3>9. QED
      BY <3>7, <3>8
  <2>4. CASE j # i /\ rs[j] \in PanelRequest
    <3>1. requests'[j] = rs[j] /\ rs[j] = requests[j] /\ TrueRequest(requests[j], page, storedBots)
      BY <2>1, <2>4, KindsOfRequest, RequestsAre
    <3>2. TrueRequest(rs[j], page, storedBots')
      BY <1>2, <2>4, <3>1 DEF TrueRequest, PanelRequest
    <3>3. QED
      BY <2>4, <3>1, <3>2 DEF Sound
  <2>5. CASE rs[j] = Vacant
    BY <2>1, <2>5 DEF Sound
  <2>6. QED
    BY <2>2, <2>3, <2>4, <2>5 DEF RequestTable
<1>5. DashboardTypes'
  <2>1. requests' \in RequestTable
    BY <1>4 DEF StoreBot, RequestTable
  <2>2. QED
    BY <1>2, <2>1 DEF DashboardInv, DashboardTypes
<1>6. ListTrue'
  BY <1>2, <1>3 DEF DashboardInv, ListTrue
<1>7. ASSUME page' # Home, ~panelDisturbed' PROVE (OneRequest /\ AnswersTrue /\ PanelTrue)'
  <2>1. OneRequest /\ AnswersTrue /\ PanelTrue /\ (b = page => own)
    BY <1>3, <1>7 DEF DashboardInv
  <2>2. ASSUME NEW j \in 1..MaxRequest
        PROVE  /\ Own(requests'[j]) => Own(requests[j]) /\ requests'[j] = rs[j]
               /\ Own(requests[j]) => Own(requests'[j]) /\ requests'[j] = rs[j]
    <3>1. Own(rs[j]) <=> Own(requests[j])
      BY KindsOfRequest DEF DoneAs, Own
    <3>2. QED
      BY <1>4, <3>1
  <2>3. OneRequest'
    BY <2>1, <2>2 DEF OneRequest
  <2>4. CASE own
    <3>1. i \in 1..MaxRequest /\ DoneAs(rs[i], requests[i], b, c) /\ rs[i].own
      BY <2>4
    <3>2. Own(rs[i])
      BY <3>1, KindsOfRequest DEF DoneAs, Own
    <3>3. requests'[i] = rs[i] /\ Own(requests'[i])
      BY <1>4, <3>1, <3>2
    <3>4. \A j \in 1..MaxRequest : Own(requests'[j]) => j = i
      BY <2>3, <3>1, <3>3 DEF OneRequest
    <3>5. b = page
      <4>1. Own(requests[i]) /\ requests[i].bot = b
        BY <2>2, <3>1, <3>3 DEF DoneAs
      <4>2. QED
        BY <3>1, <4>1, RequestsAre
    <3>6. AnswersTrue'
      BY <1>2, <3>1, <3>3, <3>4, <3>5 DEF AnswersTrue, DoneAs
    <3>7. rs[i].done /\ rs[i].op # "get"
      BY <3>1 DEF DoneAs
    <3>8. PanelTrue'
      BY <3>1, <3>3, <3>7 DEF PanelTrue
    <3>9. QED
      BY <2>3, <3>6, <3>8
  <2>5. CASE ~own
    <3>1. storedBots'[page] = storedBots[page]
      BY <1>2, <1>7, <2>1, <2>5 DEF DashboardInv, DashboardTypes
    <3>2. \A j \in 1..MaxRequest : Own(requests[j]) \/ Own(requests'[j]) =>
                                   requests'[j] = requests[j] /\ Own(requests[j])
      <4>1. \A j \in 1..MaxRequest : j = i => ~Own(rs[j])
        BY <2>5 DEF Own
      <4>2. QED
        BY <2>2, <4>1
    <3>3. QED
      BY <2>3, <3>1, <3>2, <2>1 DEF AnswersTrue, PanelTrue
  <2>6. QED
    BY <2>4, <2>5
<1>8. QED
  BY <1>4, <1>5, <1>6, <1>7 DEF DashboardInv

LEMMA PutKeeps ==
  ASSUME DashboardInv, NEW i \in 1..MaxRequest, HandlePut(i) \/ HandleDelete(i)
  PROVE  DashboardInv'
<1>1. /\ requests[i] \in PanelRequest /\ storedBots[requests[i].bot] # Absent
      /\ UNCHANGED <<listedBots, page, panelBot>> /\ requests[i].op \in {"put", "delete"}
  BY RequestsAre DEF HandlePut, HandleDelete, Kept, listVars, detailVars
<1> DEFINE q == [requests[i] EXCEPT !.done = TRUE]
           rs == [requests EXCEPT ![i] = q]
<1>2. PICK b \in Listed, c \in Settings \cup {Absent}, own \in BOOLEAN :
        /\ b = requests[i].bot /\ own = requests[i].own
        /\ c = IF requests[i].op = "put" THEN requests[i].config ELSE Absent
  BY <1>1 DEF PanelRequest
<1>3. StoreBot(b, c, own, rs)
  <2>1. rs = [requests EXCEPT ![i].done = TRUE]
    OBVIOUS
  <2>2. QED
    BY <1>2, <2>1 DEF HandlePut, HandleDelete
<1>4. q \in PanelRequest /\ q.done /\ q.op = requests[i].op /\ q.bot = requests[i].bot
      /\ q.own = requests[i].own /\ q.others = requests[i].others /\ q.config = requests[i].config
  BY <1>1 DEF PanelRequest
<1> HIDE DEF q
<1>5. /\ rs \in RequestTable /\ rs[i] = q
      /\ \A j \in 1..MaxRequest : j # i => rs[j] = requests[j]
  BY <1>4 DEF DashboardInv, DashboardTypes, RequestTable
<1> HIDE DEF rs
<1>6. DoneAs(rs[i], requests[i], b, c)
  BY <1>1, <1>2, <1>4, <1>5 DEF DoneAs
<1>7. /\ storedBots[b] # Absent /\ i \in 0..MaxRequest /\ i # 0 /\ rs[i].own = own
      /\ \A j \in 1..MaxRequest :
           IF j = i THEN DoneAs(rs[j], requests[j], b, c) ELSE rs[j] = requests[j]
  BY <1>1, <1>2, <1>4, <1>5, <1>6
<1>8. QED
  BY <1>1, <1>3, <1>5, <1>7, StoredAnew

LEMMA ChangedElsewhereKeeps ==
  ASSUME DashboardInv, NEW b \in Listed, ChangedElsewhere(b)
  PROVE  DashboardInv'
<1>1. storedBots[b] # Absent /\ UNCHANGED <<listedBots, page, panelBot>>
  BY DEF ChangedElsewhere, listVars, detailVars
<1>2. storedBots[b] \in Settings /\ requests \in RequestTable
  BY <1>1 DEF DashboardInv, DashboardTypes
<1>3. PICK c \in Settings \cup {Absent} : StoreBot(b, c, FALSE, requests)
  <2>1. [storedBots[b] EXCEPT !.edition = @ + 1] \in Settings
    BY <1>2 DEF Settings
  <2>2. QED
    BY <2>1 DEF ChangedElsewhere
<1>4. 0 \in 0..MaxRequest /\ \A j \in 1..MaxRequest : j # 0
  BY DashboardConstants
<1>5. QED
  BY <1>1, <1>2, <1>3, <1>4, StoredAnew

-----------------------------------------------------------------------------
(* Answers. *)

LEMMA ListAnsweredKeeps ==
  ASSUME DashboardInv, NEW i \in 1..MaxRequest, ListAnswered(i)
  PROVE  DashboardInv'
<1>1. requests[i] \in ListFetch /\ TrueList(requests[i], storedBots) /\ requests[i].done
      /\ ~Own(requests[i])
  BY RequestsAre DEF ListAnswered, Own
<1>2. /\ listedBots' = requests[i].read /\ unseen' = requests[i].since
      /\ requests' = [requests EXCEPT ![i] = Vacant]
      /\ UNCHANGED <<storedBots, page, panelBot, panelDisturbed>>
  BY DEF ListAnswered, detailVars
<1>3. listedBots' \in [Listed -> Settings \cup {Absent}]
  BY <1>1, <1>2 DEF ListFetch
<1>4. ListTrue'
  BY <1>1, <1>2 DEF ListTrue, TrueList
<1>5. panelBot' \in Settings \cup {Absent}
  BY <1>2 DEF DashboardInv, DashboardTypes
<1>6. QED
  BY <1>1, <1>2, <1>3, <1>4, <1>5, RequestEnds

LEMMA PanelAnsweredKeeps ==
  ASSUME DashboardInv, NEW i \in 1..MaxRequest, GetAnswered(i) \/ PutAnswered(i)
  PROVE  DashboardInv'
<1>1. /\ requests[i] \in PanelRequest /\ requests[i].done /\ requests[i].op \in {"get", "put"}
      /\ requests[i] # Vacant
  BY RequestsAre, KindsOfRequest DEF GetAnswered, PutAnswered
<1>2. /\ requests' = [requests EXCEPT ![i] = Vacant]
      /\ UNCHANGED <<storedBots, listedBots, page, unseen, panelDisturbed>>
      /\ IF requests[i].own THEN panelBot' \in {panelBot, Absent, requests[i].config}
           ELSE panelBot' = panelBot
  BY DEF GetAnswered, PutAnswered, listVars
<1>3. listedBots' \in [Listed -> Settings \cup {Absent}] /\ ListTrue'
      /\ panelBot' \in Settings \cup {Absent}
  BY <1>1, <1>2 DEF DashboardInv, DashboardTypes, ListTrue, PanelRequest
<1>4. Own(requests[i]) <=> requests[i].own
  BY <1>1 DEF Own
<1>5. ASSUME Own(requests[i]), ~panelDisturbed'
      PROVE  panelBot' \in {Absent, storedBots[page]}
        \/ (panelBot' = panelBot /\ requests[i].op = "get")
  <2>1. requests[i].config = storedBots[page]
    BY <1>1, <1>2, <1>5, RequestsAre DEF DashboardInv, AnswersTrue
  <2>2. CASE GetAnswered(i)
    BY <1>4, <1>5, <2>1, <2>2 DEF GetAnswered
  <2>3. CASE PutAnswered(i)
    BY <1>4, <1>5, <2>1, <2>3 DEF PutAnswered
  <2>4. QED
    BY <2>2, <2>3
<1>6. QED
  BY <1>2, <1>3, <1>4, <1>5, RequestEnds

LEMMA DeleteAnsweredKeeps ==
  ASSUME DashboardInv, NEW i \in 1..MaxRequest, DeleteAnswered(i)
  PROVE  DashboardInv'
<1> DEFINE rs == [requests EXCEPT ![i] = Vacant]
<1>1. /\ requests[i] \in PanelRequest /\ TrueRequest(requests[i], page, storedBots)
      /\ requests[i].done /\ requests[i].op = "delete"
  BY RequestsAre DEF DeleteAnswered
<1>2. PICK b \in Listed : b = requests[i].bot
  BY <1>1 DEF PanelRequest
<1>3. /\ listedBots' = [listedBots EXCEPT ![b] = Absent] /\ unseen' = unseen \ {b}
      /\ UNCHANGED storedBots
  BY <1>2 DEF DeleteAnswered, removeBotFromList
<1>4. listedBots' \in [Listed -> Settings \cup {Absent}] /\ ListTrue'
  <2>1. storedBots[b] = Absent /\ b \notin requests[i].others
    BY <1>1, <1>2 DEF TrueRequest
  <2>2. listedBots' \in [Listed -> Settings \cup {Absent}] /\ listedBots'[b] = Absent
        /\ \A d \in Listed \ {b} : listedBots'[d] = listedBots[d]
    BY <1>3 DEF DashboardInv, DashboardTypes
  <2>3. QED
    BY <1>3, <2>1, <2>2 DEF DashboardInv, ListTrue
<1>5. PICK p \in Listed \cup {Home} : GoTo(p, rs) /\ (p = Home \/ p \in requests[i].others)
  BY <1>1 DEF DeleteAnswered, PanelRequest
<1>6. /\ rs \in RequestTable /\ rs[i] = Vacant
      /\ \A j \in 1..MaxRequest : rs[j] \in {requests[j], Vacant}
  BY DEF DashboardInv, DashboardTypes, RequestTable
<1>7. CASE p # page
  <2>1. \E j \in 1..MaxRequest : rs[j] = Vacant
    BY <1>6
  <2> HIDE DEF rs
  <2>2. QED
    BY <1>3, <1>4, <1>5, <1>6, <1>7, <2>1, GoesElsewhere
<1>8. CASE p = page
  <2>1. requests' = rs /\ UNCHANGED <<page, panelBot, panelDisturbed>>
    BY <1>5, <1>8 DEF GoTo, detailVars
  <2>2. ~Own(requests[i])
    BY <1>1, <1>5, <1>8, RequestsAre DEF TrueRequest
  <2>3. panelBot' \in Settings \cup {Absent}
    BY <2>1 DEF DashboardInv, DashboardTypes
  <2>4. QED
    BY <1>3, <1>4, <2>1, <2>2, <2>3, RequestEnds
<1>9. QED
  BY <1>7, <1>8

LEMMA FailedKeeps ==
  ASSUME DashboardInv, NEW i \in 1..MaxRequest, Failed(i)
  PROVE  DashboardInv'
<1>1. /\ requests' = [requests EXCEPT ![i] = Vacant]
      /\ UNCHANGED <<storedBots, listedBots, page, panelBot, unseen>>
      /\ panelDisturbed => panelDisturbed'
      /\ Own(requests[i]) /\ requests[i].op # "get" /\ requests[i].done => panelDisturbed'
  BY DEF Failed, Own
<1>2. listedBots' \in [Listed -> Settings \cup {Absent}] /\ ListTrue'
      /\ panelBot' \in Settings \cup {Absent}
  BY <1>1 DEF DashboardInv, DashboardTypes, ListTrue
<1>3. QED
  BY <1>1, <1>2, RequestEnds

-----------------------------------------------------------------------------
(* The user's steps. *)

LEMMA NavigationKeeps ==
  ASSUME DashboardInv,
         GoHome \/ AutoRedirect \/ \E b \in Listed : handleSelectBot(b) \/ MobileBotList(b)
  PROVE  DashboardInv'
<1>1. PICK p \in Listed \cup {Home} : GoTo(p, requests) /\ (p = Home \/ Room(1))
  BY DEF GoHome, AutoRedirect, handleSelectBot, MobileBotList, In
<1>2. UNCHANGED <<storedBots, listedBots, unseen>>
  BY DEF GoHome, AutoRedirect, handleSelectBot, MobileBotList, listVars
<1>3. requests \in RequestTable /\ listedBots' \in [Listed -> Settings \cup {Absent}] /\ ListTrue'
  BY <1>2 DEF DashboardInv, DashboardTypes, ListTrue
<1>4. CASE p # page
  <2>1. p # Home => \E j \in 1..MaxRequest : requests[j] = Vacant
    BY <1>1, RoomForOne
  <2>2. QED
    BY <1>1, <1>2, <1>3, <1>4, <2>1, GoesElsewhere
<1>5. CASE p = page
  <2>1. UNCHANGED <<requests, page, panelBot, panelDisturbed>>
    BY <1>1, <1>5 DEF GoTo, detailVars
  <2>2. QED
    BY <1>2, <2>1 DEF DashboardInv, DashboardTypes, ListTrue, OneRequest, AnswersTrue, PanelTrue
<1>6. QED
  BY <1>4, <1>5

LEMMA RefreshButtonKeeps == ASSUME DashboardInv, refetchBots \/ UserRefreshed PROVE DashboardInv'
<1>1. UNCHANGED <<storedBots, listedBots, page, panelBot, unseen>>
  BY DEF refetchBots, UserRefreshed, detailVars
<1>2. CASE refetchBots
  BY <1>1, <1>2, ListAsks DEF refetchBots
<1>3. CASE UserRefreshed /\ page = Home
  <2>1. Room(1) /\ requests' = Send(requests, AskList) /\ UNCHANGED panelDisturbed
    <3>1. Room(2)
      BY <1>3 DEF UserRefreshed
    <3>2. Cardinality({j \in 1..MaxRequest : requests[j] = Vacant}) \in Nat
      <4>1. IsFiniteSet(1..MaxRequest)
        BY FS_Interval, DashboardConstants
      <4>2. QED
        BY <4>1, FS_Subset, FS_CardinalityType
    <3>3. QED
      BY <1>3, <3>1, <3>2 DEF UserRefreshed, Room
  <2>2. QED
    BY <1>1, <2>1, ListAsks
<1>4. CASE UserRefreshed /\ page # Home
  <2> DEFINE g == Ask("get", page, Absent, {})
             rs == Send(requests, AskList)
  <2>1. /\ Room(2) /\ requests' = Send(rs, g)
        /\ panelDisturbed' = (panelDisturbed \/ OwnPending # {})
    BY <1>4 DEF UserRefreshed
  <2>2. requests \in RequestTable /\ page \in Listed
    BY <1>4 DEF DashboardInv, DashboardTypes
  <2>3. g \in PanelRequest /\ g.op = "get" /\ g.bot = page /\ g.own /\ ~g.done
    BY <2>2, AskedAre
  <2> HIDE DEF g
  <2>4. \E j \in 1..MaxRequest : requests[j] = Vacant
    <3>1. CASE MaxRequest = 0
      <4>1. {j \in 1..MaxRequest : requests[j] = Vacant} = {}
        BY <3>1
      <4>2. QED
        BY <2>1, <4>1, FS_EmptySet DEF Room
    <3>2. CASE MaxRequest # 0
      <4>1. 1 \in 1..MaxRequest
        BY <3>2, DashboardConstants
      <4>2. QED
        BY <2>1, <4>1, RoomForTwo
    <3>3. QED
      BY <3>1, <3>2
  <2>5. rs \in RequestTable /\ \E n : Joins(n, requests, AskList, rs)
    BY <2>2, <2>4, AskedAre, Placed
  <2> HIDE DEF rs
  <2>6. PICK n : Joins(n, requests, AskList, rs)
    BY <2>5
  <2>7. PICK j \in (1..MaxRequest) \ {n} : requests[j] = Vacant
    BY <2>1, <2>6, RoomForTwo DEF Joins
  <2>8. \E k \in 1..MaxRequest : rs[k] = Vacant
    BY <2>6, <2>7 DEF Joins
  <2>9. \A k \in 1..MaxRequest : rs[k] \in {requests[k], AskList}
          /\ (Own(requests[k]) => Own(rs[k]))
    BY <2>6 DEF Joins, Own
  <2>10. QED
    BY <1>1, <2>1, <2>3, <2>5, <2>8, <2>9, PanelAsks
<1>5. QED
  BY <1>2, <1>3, <1>4

LEMMA PanelButtonsKeep ==
  ASSUME DashboardInv, handleToggleEnabled \/ handleDeleteBot
  PROVE  DashboardInv'
<1>1. PICK o \in {"put", "delete"}, c \in Settings \cup {Absent}, bs \in SUBSET Listed :
        /\ requests' = Send(requests, Ask(o, page, c, bs)) /\ page \notin bs
  <2>1. CASE handleToggleEnabled
    <3>1. panelBot \in Settings
      BY <2>1 DEF handleToggleEnabled, SwitchIsLive, PanelShows, DashboardInv, DashboardTypes
    <3>2. [panelBot EXCEPT !.enabled = ~@] \in Settings
      BY <3>1, Zenon DEF Settings
    <3>3. QED
      BY <2>1, <3>2 DEF handleToggleEnabled
  <2>2. CASE handleDeleteBot
    BY <2>2 DEF handleDeleteBot, In
  <2>3. QED
    BY <2>1, <2>2
<1>2. /\ Room(1) /\ page \in Listed /\ panelDisturbed' = (panelDisturbed \/ OwnPending # {})
      /\ UNCHANGED <<storedBots, listedBots, page, panelBot, unseen>>
  BY DEF handleToggleEnabled, handleDeleteBot, SwitchIsLive, DeleteIsLive, PanelShows, listVars,
     DashboardInv, DashboardTypes
<1> DEFINE r == Ask(o, page, c, bs)
<1>3. r \in PanelRequest /\ r.bot = page /\ r.own /\ ~r.done /\ r.bot \notin r.others
  BY <1>1, <1>2, AskedAre
<1>4. requests' = Send(requests, r)
  BY <1>1
<1> HIDE DEF r
<1>5. requests \in RequestTable /\ \E j \in 1..MaxRequest : requests[j] = Vacant
  BY <1>2, RoomForOne DEF DashboardInv, DashboardTypes
<1>6. QED
  BY <1>2, <1>3, <1>4, <1>5, PanelAsks

LEMMA DashboardStarts == DashboardInit => DashboardInv
<1> SUFFICES ASSUME DashboardInit PROVE DashboardInv
  OBVIOUS
<1>1. Absent \in Settings \cup {Absent} /\ [enabled |-> TRUE, edition |-> 0] \in Settings
  BY DEF Settings
<1>2. \A i \in 1..MaxRequest : requests[i] \in {Vacant, AskList}
  BY DEF DashboardInit, Send
<1>3. requests \in RequestTable
  BY <1>2, AskedAre DEF DashboardInit, Send, RequestTable
<1>4. DashboardTypes
  BY <1>1, <1>3 DEF DashboardInit, DashboardTypes
<1>5. Sound(AskList, page, storedBots) /\ Sound(Vacant, page, storedBots)
  BY AskedAre DEF Sound, TrueList
<1>6. ListTrue
  BY DEF DashboardInit, ListTrue
<1>7. page = Home
  BY DEF DashboardInit
<1>8. QED
  BY <1>2, <1>4, <1>5, <1>6, <1>7 DEF DashboardInv

LEMMA DashboardStep == DashboardInv /\ [DashboardNext]_dashboardVars => DashboardInv'
<1> SUFFICES ASSUME DashboardInv, [DashboardNext]_dashboardVars PROVE DashboardInv'
  OBVIOUS
<1>1. CASE UNCHANGED dashboardVars \/ \E s \in {"enabled", "disabled"} : setStatus(s)
  <2>1. UNCHANGED <<storedBots, listedBots, page, panelBot, requests, unseen, panelDisturbed>>
    BY <1>1 DEF dashboardVars, listVars, detailVars, setStatus
  <2>2. QED
    BY <2>1 DEF DashboardInv, DashboardTypes, ListTrue, OneRequest, AnswersTrue, PanelTrue
<1>2. CASE \E i \in 1..MaxRequest :
             \/ HandleRead(i) \/ HandlePut(i) \/ HandleDelete(i) \/ Failed(i)
             \/ ListAnswered(i) \/ GetAnswered(i) \/ PutAnswered(i) \/ DeleteAnswered(i)
  BY <1>2, ReadKeeps, PutKeeps, FailedKeeps, ListAnsweredKeeps, PanelAnsweredKeeps,
     DeleteAnsweredKeeps
<1>3. QED
  BY <1>1, <1>2, NavigationKeeps, RefreshButtonKeeps, PanelButtonsKeep, ChangedElsewhereKeeps
     DEF DashboardNext

\* The panel's reads, saves and deletes and the fetches of the list are answered in any order, also
\* after the user has gone to another page: with no request of its own under way the panel shows its
\* bot as it is stored, and the list shows the stored bots, but for those changed elsewhere since.
THEOREM PanelAndListAreStored == DashboardSpec => []ShownBotsAreStored
<1>1. ASSUME DashboardInv PROVE ShownBotsAreStored
  <2>1. ASSUME PanelShows, ~panelDisturbed, OwnPending = {} PROVE panelBot = storedBots[page]
    <3>1. PanelTrue /\ panelBot # Absent
      BY <1>1, <2>1 DEF DashboardInv, PanelShows
    <3>2. \A i \in 1..MaxRequest : ~Own(requests[i])
      BY <2>1 DEF OwnPending, Own
    <3>3. QED
      BY <3>1, <3>2 DEF PanelTrue
  <2>2. filterBots(listedBots) \ unseen = filterBots(storedBots) \ unseen
    BY <1>1 DEF DashboardInv, ListTrue, filterBots, In
  <2>3. QED
    BY <2>1, <2>2 DEF ShownBotsAreStored
<1>2. QED
  BY <1>1, DashboardStarts, DashboardStep, PTL DEF DashboardSpec

-----------------------------------------------------------------------------
(* The page of API keys.                                                       *)

\* The requests of the page, and the types that the proof needs.
KeyAskTable == [1..MaxAsk -> KeyAsk \cup KeyFetch \cup {NoRequest}]

KeyPageTypes ==
  /\ keyAsks \in KeyAskTable
  /\ issuedKeys \subseteq ApiKeys /\ keyCounter \in 0..MaxKey /\ selectedApiKey \in 0..MaxKey

\* One key at a time is created: until the list that follows it is there, the form is busy.
Making(r) == r.op = "create" \/ (IsFetch(r) /\ r.caller = "create")
\* Until then the page has no other key to show, and a key that is made has its number.
OneIsMade ==
  /\ \A i, j \in 1..MaxAsk : Making(keyAsks[i]) /\ Making(keyAsks[j]) => i = j
  /\ \A i \in 1..MaxAsk : Making(keyAsks[i]) => creating
  /\ \A i \in 1..MaxAsk : keyAsks[i].op = "create" =>
       newApiKey = NoKey /\ (keyAsks[i].done => keyAsks[i].named \in ApiKeys)

\* The key of an open screen has been displayed.
KeysDisplayed ==
  /\ givenKeys \ seenKeys \subseteq {newApiKey} /\ NoKey \notin givenKeys /\ NoKey \notin seenKeys
  /\ hasBeenCopied => newApiKey \in seenKeys
  /\ createDialogOpen /\ newApiKey # NoKey => newApiKey \in seenKeys

\* A change whose answer, or whose loss, is still to come.
Changed(as) == \E i \in 1..MaxAsk : as[i].op \in {"create", "delete"} /\ as[i].done
\* A fetch of the list is under way.
Fetching(as) == \E i \in 1..MaxAsk : IsFetch(as[i])

\* Fetches that nothing overlaps read the keys as they are, or as they were before a change
\* that another fetch follows.
FetchesTrue(as, keys) ==
  \A i \in 1..MaxAsk : IsFetch(as[i]) /\ ~as[i].overlaps =>
    /\ as[i].keysRead => as[i].keys = keys
    /\ as[i].statsRead => as[i].stats = Cardinality(keys)
\* Of two fetches each counts as overlapped.
OneFetch(as) ==
  \A i, j \in 1..MaxAsk : IsFetch(as[i]) /\ IsFetch(as[j]) /\ i # j => as[i].overlaps

\* Every change is followed by a fetch, unless it, or the fetch, is still to be answered.
ListFollows ==
  /\ OneFetch(keyAsks)
  /\ Changed(keyAsks) \/ FetchesTrue(keyAsks, issuedKeys)
  /\ \/ outdated \/ Changed(keyAsks) \/ Fetching(keyAsks)
     \/ apiKeys = issuedKeys /\ keyStats = Cardinality(issuedKeys)

\* The inductive invariant.
KeyPageInv == KeyPageTypes /\ OneIsMade /\ KeysDisplayed /\ ListFollows

LEMMA KindsOfAsk ==
  /\ \A r \in KeyAsk : r.op \in {"create", "delete"} /\ ~IsFetch(r)
  /\ \A r \in KeyFetch : r.op = "fetch" /\ IsFetch(r)
  /\ NoRequest.op = "none" /\ ~IsFetch(NoRequest) /\ ~Making(NoRequest)
  BY DEF KeyAsk, KeyFetch, NoRequest, IsFetch, Making

LEMMA AsksAre ==
  ASSUME KeyPageInv, NEW i \in 1..MaxAsk
  PROVE  /\ IsFetch(keyAsks[i]) => keyAsks[i] \in KeyFetch
         /\ keyAsks[i].op \in {"create", "delete"} => keyAsks[i] \in KeyAsk
         /\ ~IsFetch(keyAsks[i]) /\ keyAsks[i].op \notin {"create", "delete"} =>
              keyAsks[i] = NoRequest
  BY KindsOfAsk DEF KeyPageInv, KeyPageTypes, KeyAskTable, IsFetch

LEMMA KeysAreCounted ==
  ASSUME NEW S, S \subseteq ApiKeys
  PROVE  Cardinality(S) \in 0..MaxKey
<1>1. IsFiniteSet(ApiKeys) /\ Cardinality(ApiKeys) = MaxKey /\ MaxKey \in Nat
  BY FS_Interval, KeyPageConstants DEF ApiKeys
<1>2. QED
  BY <1>1, FS_Subset, FS_CardinalityType

\* A request more, in a place of its own.
AskJoins(n, as, r, new) ==
  /\ n \in 1..MaxAsk /\ as[n] = NoRequest /\ new[n] = r
  /\ \A j \in (1..MaxAsk) \ {n} : new[j] = as[j]

LEMMA AskPlaced ==
  ASSUME NEW as \in KeyAskTable, NEW r \in KeyAsk \cup KeyFetch,
         \E i \in 1..MaxAsk : as[i] = NoRequest, NEW new, new = AddAsk(as, r)
  PROVE  new \in KeyAskTable /\ \E n : AskJoins(n, as, r, new)
<1>1. PICK n \in 1..MaxAsk : n = CHOOSE i \in 1..MaxAsk : as[i] = NoRequest
  OBVIOUS
<1>2. as[n] = NoRequest
  BY <1>1
<1>3. new = [as EXCEPT ![n] = r]
  BY <1>1 DEF AddAsk
<1>4. AskJoins(n, as, r, new)
  BY <1>2, <1>3 DEF AskJoins, KeyAskTable
<1>5. QED
  BY <1>3, <1>4 DEF KeyAskTable

\* Fetches that count as overlapped are otherwise as they were.
LEMMA OverlappedAre ==
  ASSUME NEW as \in KeyAskTable
  PROVE  /\ Overlapped(as) \in KeyAskTable
         /\ \A i \in 1..MaxAsk :
              /\ ~IsFetch(as[i]) => Overlapped(as)[i] = as[i]
              /\ IsFetch(as[i]) => /\ IsFetch(Overlapped(as)[i]) /\ Overlapped(as)[i].overlaps
                                   /\ Overlapped(as)[i].caller = as[i].caller
                                   /\ Overlapped(as)[i] \in KeyFetch
<1> SUFFICES ASSUME NEW i \in 1..MaxAsk
             PROVE  /\ Overlapped(as)[i] \in KeyAsk \cup KeyFetch \cup {NoRequest}
                    /\ ~IsFetch(as[i]) => Overlapped(as)[i] = as[i]
                    /\ IsFetch(as[i]) => /\ IsFetch(Overlapped(as)[i]) /\ Overlapped(as)[i].overlaps
                                         /\ Overlapped(as)[i].caller = as[i].caller
                                         /\ Overlapped(as)[i] \in KeyFetch
  BY DEF Overlapped, KeyAskTable
<1>1. CASE ~IsFetch(as[i])
  BY <1>1 DEF Overlapped, KeyAskTable
<1>2. CASE IsFetch(as[i])
  <2> DEFINE r == [as[i] EXCEPT !.overlaps = TRUE]
  <2>1. as[i] \in KeyFetch
    BY <1>2, KindsOfAsk DEF KeyAskTable
  <2>2. r \in KeyFetch /\ r.overlaps /\ r.caller = as[i].caller
    BY <2>1 DEF KeyFetch
  <2>3. Overlapped(as)[i] = r
    BY <1>2 DEF Overlapped
  <2> HIDE DEF r
  <2>4. QED
    BY <1>2, <2>2, <2>3, KindsOfAsk
<1>3. QED
  BY <1>1, <1>2

-----------------------------------------------------------------------------
(* Steps by what they do to the requests. *)

\* Request i, whose answer came or will not, is followed by a fetch.
LEMMA FetchFollows ==
  ASSUME KeyPageInv, NEW i \in 1..MaxAsk, NEW from \in {"create", "delete"},
         keyAsks' = fetchApiKeys([keyAsks EXCEPT ![i] = NoRequest], from)
  PROVE  /\ keyAsks' \in KeyAskTable
         /\ OneFetch(keyAsks') /\ FetchesTrue(keyAsks', issuedKeys) /\ Fetching(keyAsks')
         /\ \A j \in 1..MaxAsk : keyAsks'[j].op = "create" => j # i /\ keyAsks'[j] = keyAsks[j]
         /\ \A j \in 1..MaxAsk : Making(keyAsks'[j]) =>
              \/ Making(keyAsks[j]) /\ j # i
              \/ from = "create" /\ (keyAsks[j] = NoRequest \/ j = i)
         /\ \A j, k \in 1..MaxAsk :
              Making(keyAsks'[j]) /\ Making(keyAsks'[k]) /\ j # k =>
                (Making(keyAsks[j]) /\ j # i) \/ (Making(keyAsks[k]) /\ k # i)
<1> DEFINE rest == [keyAsks EXCEPT ![i] = NoRequest]
           other == \E j \in 1..MaxAsk : IsFetch(rest[j])
           r == [op |-> "fetch", caller |-> from, overlaps |-> other,
                 keysRead |-> FALSE, keys |-> {}, statsRead |-> FALSE, stats |-> 0]
<1>1. rest \in KeyAskTable /\ rest[i] = NoRequest
      /\ \A j \in (1..MaxAsk) \ {i} : rest[j] = keyAsks[j]
  BY DEF KeyPageInv, KeyPageTypes, KeyAskTable
<1>2. r \in KeyFetch /\ r.op = "fetch" /\ r.caller = from /\ ~r.keysRead /\ ~r.statsRead
  BY KeyPageConstants DEF KeyFetch, ApiKeys
<1>3. r.overlaps <=> other
  OBVIOUS
<1>4. keyAsks' = AddAsk(Overlapped(rest), r)
  BY DEF fetchApiKeys
<1> HIDE DEF r, rest
<1>5. PICK os \in KeyAskTable : os = Overlapped(rest)
  BY <1>1, OverlappedAre
<1>6. \A j \in 1..MaxAsk :
        /\ ~IsFetch(rest[j]) => os[j] = rest[j]
        /\ IsFetch(rest[j]) => IsFetch(os[j]) /\ os[j].overlaps /\ os[j].caller = rest[j].caller
  BY <1>1, <1>5, OverlappedAre
<1>7. os[i] = NoRequest
  BY <1>1, <1>6, KindsOfAsk
<1>8. keyAsks' \in KeyAskTable /\ \E n : AskJoins(n, os, r, keyAsks')
  BY <1>2, <1>4, <1>5, <1>7, AskPlaced
<1>9. PICK n : AskJoins(n, os, r, keyAsks')
  BY <1>8
<1>10. n \in 1..MaxAsk /\ keyAsks'[n] = r /\ IsFetch(r) /\ os[n] = NoRequest
       /\ \A j \in (1..MaxAsk) \ {n} : keyAsks'[j] = os[j]
  BY <1>2, <1>9 DEF AskJoins, IsFetch
<1>11. ~IsFetch(rest[n]) /\ rest[n] = NoRequest
  <2>1. ~IsFetch(rest[n])
    BY <1>6, <1>10, KindsOfAsk
  <2>2. QED
    BY <1>6, <1>10, <2>1
<1>12. \A j \in (1..MaxAsk) \ {n} : IsFetch(keyAsks'[j]) => IsFetch(rest[j]) /\ keyAsks'[j].overlaps
  BY <1>6, <1>10
<1>13. OneFetch(keyAsks')
  BY <1>3, <1>10, <1>12 DEF OneFetch
<1>14. FetchesTrue(keyAsks', issuedKeys)
  BY <1>2, <1>10, <1>12 DEF FetchesTrue
<1>15. Fetching(keyAsks')
  BY <1>10 DEF Fetching
<1>16. \A j \in (1..MaxAsk) \ {n} : Making(keyAsks'[j]) <=> Making(rest[j])
  BY <1>6, <1>10 DEF Making, IsFetch
<1>17. Making(r) => from = "create"
  BY <1>2 DEF Making, IsFetch
<1>18. ~Making(rest[n]) /\ ~Making(rest[i])
  BY <1>1, <1>11, KindsOfAsk
<1>19. \A j \in 1..MaxAsk : keyAsks'[j].op = "create" => j # i /\ keyAsks'[j] = keyAsks[j]
  <2> SUFFICES ASSUME NEW j \in 1..MaxAsk, keyAsks'[j].op = "create"
               PROVE  j # i /\ keyAsks'[j] = keyAsks[j]
    OBVIOUS
  <2>1. j # n /\ ~IsFetch(keyAsks'[j])
    BY <1>2, <1>10 DEF IsFetch
  <2>2. keyAsks'[j] = rest[j]
    BY <1>6, <1>10, <2>1
  <2>3. QED
    BY <1>1, <2>2, KindsOfAsk
<1>20. \A j \in 1..MaxAsk : Making(keyAsks'[j]) =>
         \/ Making(keyAsks[j]) /\ j # i
         \/ from = "create" /\ j = n
  BY <1>1, <1>10, <1>16, <1>17, <1>18
<1>21. keyAsks[n] = NoRequest \/ n = i
  BY <1>1, <1>10, <1>11
<1>22. QED
  BY <1>8, <1>13, <1>14, <1>15, <1>19, <1>20, <1>21

\* A request that the user sends.
LEMMA UserAsks ==
  ASSUME KeyPageInv, NEW r \in KeyAsk, ~r.done, keyAsks' = AddAsk(keyAsks, r), AskRoom,
         UNCHANGED <<keyServerVars, sectionVars, createDialogOpen, selectedApiKey, newApiKey,
                     hasBeenCopied, keyHistory, seenKeys>>,
         creating => creating',
         r.op = "create" => newApiKey = NoKey /\ ~creating /\ creating'
  PROVE  KeyPageInv'
<1>1. keyAsks \in KeyAskTable /\ \E j \in 1..MaxAsk : keyAsks[j] = NoRequest
  BY DEF KeyPageInv, KeyPageTypes, AskRoom
<1>2. keyAsks' \in KeyAskTable /\ \E n : AskJoins(n, keyAsks, r, keyAsks')
  BY <1>1, AskPlaced
<1>3. PICK n : AskJoins(n, keyAsks, r, keyAsks')
  BY <1>2
<1>4. n \in 1..MaxAsk /\ keyAsks'[n] = r /\ keyAsks[n] = NoRequest
      /\ \A j \in (1..MaxAsk) \ {n} : keyAsks'[j] = keyAsks[j]
  BY <1>3 DEF AskJoins
<1>5. ~IsFetch(r) /\ r.op \in {"create", "delete"}
  BY KindsOfAsk
<1>6. KeyPageTypes'
  BY <1>2 DEF KeyPageInv, KeyPageTypes, keyServerVars
<1>7. OneIsMade'
  <2>1. CASE r.op = "create"
    <3>1. \A j \in 1..MaxAsk : ~Making(keyAsks[j])
      BY <2>1 DEF KeyPageInv, OneIsMade
    <3>2. \A j \in 1..MaxAsk : Making(keyAsks'[j]) => j = n
      BY <1>4, <3>1
    <3>3. \A j \in 1..MaxAsk : keyAsks'[j].op = "create" => j = n
      BY <3>2 DEF Making
    <3>4. QED
      BY <1>4, <2>1, <3>2, <3>3 DEF OneIsMade
  <2>2. CASE r.op # "create"
    <3>1. ~Making(r)
      BY <1>5, <2>2 DEF Making
    <3>2. QED
      BY <1>4, <2>2, <3>1 DEF KeyPageInv, OneIsMade
  <2>3. QED
    BY <2>1, <2>2
<1>8. KeysDisplayed'
  BY DEF KeyPageInv, KeysDisplayed, keyHistory
<1>9. ListFollows'
  <2>1. Changed(keyAsks') <=> Changed(keyAsks)
    BY <1>4, KindsOfAsk DEF Changed
  <2>2. Fetching(keyAsks') <=> Fetching(keyAsks)
    BY <1>4, <1>5, KindsOfAsk DEF Fetching
  <2>3. FetchesTrue(keyAsks, issuedKeys) => FetchesTrue(keyAsks', issuedKeys)
    BY <1>4, <1>5 DEF FetchesTrue
  <2>4. OneFetch(keyAsks')
    BY <1>4, <1>5 DEF KeyPageInv, ListFollows, OneFetch
  <2>5. QED
    BY <2>1, <2>2, <2>3, <2>4 DEF KeyPageInv, ListFollows, keyServerVars, sectionVars, keyHistory
<1>10. QED
  BY <1>6, <1>7, <1>8, <1>9 DEF KeyPageInv

LEMMA ButtonsKeep == ASSUME KeyPageInv, handleSubmit \/ handleRevoke PROVE KeyPageInv'
<1>1. CASE handleSubmit
  <2> DEFINE r == [op |-> "create", named |-> NoKey, done |-> FALSE]
  <2>1. r \in KeyAsk /\ ~r.done
    BY KeyPageConstants DEF KeyAsk, NoKey
  <2>2. keyAsks' = AddAsk(keyAsks, r)
    BY <1>1 DEF handleSubmit
  <2> HIDE DEF r
  <2>3. QED
    BY <1>1, <2>1, <2>2, UserAsks DEF handleSubmit
<1>2. CASE handleRevoke
  <2> DEFINE r == [op |-> "delete", named |-> selectedApiKey, done |-> FALSE]
  <2>1. r \in KeyAsk /\ ~r.done /\ r.op = "delete"
    BY DEF KeyAsk, KeyPageInv, KeyPageTypes
  <2>2. keyAsks' = AddAsk(keyAsks, r)
    BY <1>2 DEF handleRevoke
  <2> HIDE DEF r
  <2>3. QED
    BY <1>2, <2>1, <2>2, UserAsks DEF handleRevoke
<1>3. QED
  BY <1>1, <1>2

\* The dialogs: no request and no key changes.
LEMMA DialogsKeep ==
  ASSUME KeyPageInv,
         \/ OpenCreateDialog \/ copyKey \/ handleCreateDialogClose \/ CloseDetails
         \/ \E k \in ApiKeys : openDeleteDialog(k) \/ openSetupDialog(k)
  PROVE  KeyPageInv'
<1>1. /\ UNCHANGED <<keyServerVars, sectionVars, creating, keyAsks, keyHistory>>
      /\ newApiKey' \in {newApiKey, NoKey} /\ selectedApiKey' \in {selectedApiKey} \cup ApiKeys
  BY DEF OpenCreateDialog, copyKey, handleCreateDialogClose, CloseDetails, openDeleteDialog,
     openSetupDialog
<1>2. KeyPageTypes'
  BY <1>1, KeyPageConstants DEF KeyPageInv, KeyPageTypes, keyServerVars, ApiKeys
<1>3. OneIsMade'
  BY <1>1 DEF KeyPageInv, OneIsMade
<1>4. ListFollows'
  BY <1>1 DEF KeyPageInv, ListFollows, keyServerVars, sectionVars, keyHistory
<1>5. KeysDisplayed'
  <2>1. KeysDisplayed /\ givenKeys' = givenKeys
    BY <1>1 DEF KeyPageInv, keyHistory
  <2>2. CASE OpenCreateDialog
    BY <2>1, <2>2 DEF OpenCreateDialog, Display, KeysDisplayed
  <2>3. CASE copyKey
    BY <2>1, <2>3 DEF copyKey, KeysDisplayed
  <2>4. CASE handleCreateDialogClose
    BY <2>1, <2>4 DEF handleCreateDialogClose, KeysDisplayed
  <2>5. CASE CloseDetails \/ \E k \in ApiKeys : openDeleteDialog(k) \/ openSetupDialog(k)
    <3>1. UNCHANGED <<createDialogOpen, newApiKey, hasBeenCopied, seenKeys>>
      BY <2>5 DEF CloseDetails, openDeleteDialog, openSetupDialog
    <3>2. QED
      BY <2>1, <3>1 DEF KeysDisplayed
  <2>6. QED
    BY <2>2, <2>3, <2>4, <2>5
<1>6. QED
  BY <1>2, <1>3, <1>4, <1>5 DEF KeyPageInv

\* Request i has been handled by the API, which may have changed the keys.
LEMMA RequestHandled ==
  ASSUME KeyPageInv, NEW i \in 1..MaxAsk, NEW r \in KeyAsk \cup KeyFetch,
         keyAsks' = [keyAsks EXCEPT ![i] = r], r.op = keyAsks[i].op,
         IsFetch(r) => r.caller = keyAsks[i].caller /\ r.overlaps = keyAsks[i].overlaps
                       /\ UNCHANGED keyServerVars
                       /\ (r.keysRead => r.keys = issuedKeys
                                         \/ (keyAsks[i].keysRead /\ r.keys = keyAsks[i].keys))
                       /\ (r.statsRead => r.stats = Cardinality(issuedKeys)
                                          \/ (keyAsks[i].statsRead /\ r.stats = keyAsks[i].stats)),
         ~IsFetch(r) => r.done /\ (r.op = "create" => r.named \in ApiKeys),
         issuedKeys' \subseteq ApiKeys, keyCounter' \in 0..MaxKey,
         UNCHANGED <<sectionVars, dialogVars, keyHistory, seenKeys>>
  PROVE  KeyPageInv'
<1>1. keyAsks' \in KeyAskTable /\ keyAsks'[i] = r
      /\ \A j \in (1..MaxAsk) \ {i} : keyAsks'[j] = keyAsks[j]
  BY DEF KeyPageInv, KeyPageTypes, KeyAskTable
<1>2. KeyPageTypes'
  BY <1>1 DEF KeyPageInv, KeyPageTypes, dialogVars
<1>3. OneIsMade'
  <2>1. \A j \in 1..MaxAsk : Making(keyAsks'[j]) => Making(keyAsks[j])
    BY <1>1 DEF Making, IsFetch
  <2>2. \A j \in 1..MaxAsk : keyAsks'[j].op = "create" => keyAsks[j].op = "create"
    BY <1>1
  <2>3. \A j \in 1..MaxAsk : keyAsks'[j].op = "create" /\ keyAsks'[j].done =>
          keyAsks'[j].named \in ApiKeys
    <3>1. r.op = "create" => ~IsFetch(r)
      BY DEF IsFetch
    <3>2. QED
      BY <1>1, <3>1 DEF KeyPageInv, OneIsMade
  <2>4. QED
    BY <2>1, <2>2, <2>3 DEF KeyPageInv, OneIsMade, dialogVars
<1>4. KeysDisplayed'
  BY DEF KeyPageInv, KeysDisplayed, dialogVars, keyHistory
<1>5. ListFollows'
  <2>1. \A j \in 1..MaxAsk : IsFetch(keyAsks'[j]) =>
          IsFetch(keyAsks[j]) /\ keyAsks'[j].overlaps = keyAsks[j].overlaps
    BY <1>1 DEF IsFetch
  <2>2. OneFetch(keyAsks')
    BY <2>1 DEF KeyPageInv, ListFollows, OneFetch
  <2>3. CASE ~IsFetch(r)
    <3>1. Changed(keyAsks')
      BY <1>1, <2>3, KindsOfAsk DEF Changed
    <3>2. QED
      BY <2>2, <3>1 DEF ListFollows
  <2>4. CASE IsFetch(r)
    <3>1. issuedKeys' = issuedKeys
      BY <2>4 DEF keyServerVars
    <3>2. Fetching(keyAsks')
      BY <1>1, <2>4 DEF Fetching
    <3>3. Changed(keyAsks) => Changed(keyAsks')
      BY <1>1, <2>4 DEF Changed, IsFetch
    <3>4. FetchesTrue(keyAsks, issuedKeys) => FetchesTrue(keyAsks', issuedKeys)
      <4>1. SUFFICES ASSUME FetchesTrue(keyAsks, issuedKeys), NEW j \in 1..MaxAsk,
                            IsFetch(keyAsks'[j]), ~keyAsks'[j].overlaps
                     PROVE  /\ keyAsks'[j].keysRead => keyAsks'[j].keys = issuedKeys
                            /\ keyAsks'[j].statsRead => keyAsks'[j].stats = Cardinality(issuedKeys)
        BY DEF FetchesTrue
      <4>2. CASE j # i
        BY <1>1, <4>1, <4>2 DEF FetchesTrue
      <4>3. CASE j = i
        <5>1. /\ keyAsks[i].keysRead => keyAsks[i].keys = issuedKeys
              /\ keyAsks[i].statsRead => keyAsks[i].stats = Cardinality(issuedKeys)
          BY <1>1, <2>1, <4>1, <4>3 DEF FetchesTrue
        <5>2. QED
          BY <1>1, <2>4, <4>1, <4>3, <5>1
      <4>4. QED
        BY <4>2, <4>3
    <3>5. QED
      BY <2>2, <3>1, <3>2, <3>3, <3>4 DEF KeyPageInv, ListFollows
  <2>5. QED
    BY <2>3, <2>4
<1>6. QED
  BY <1>2, <1>3, <1>4, <1>5 DEF KeyPageInv

LEMMA RoutesKeep ==
  ASSUME KeyPageInv, NEW i \in 1..MaxAsk,
         POSTKey(i) \/ DELETEKey(i) \/ GETKeys(i) \/ GETKeyStats(i)
  PROVE  KeyPageInv'
<1>1. issuedKeys \subseteq ApiKeys /\ keyCounter \in 0..MaxKey /\ MaxKey \in Nat
  BY KeyPageConstants DEF KeyPageInv, KeyPageTypes
<1>2. CASE POSTKey(i)
  <2> DEFINE r == [keyAsks[i] EXCEPT !.done = TRUE, !.named = keyCounter + 1]
  <2>1. keyAsks[i] \in KeyAsk /\ keyAsks[i].op = "create"
    BY <1>2, AsksAre DEF POSTKey
  <2>2. keyCounter + 1 \in ApiKeys /\ keyCounter + 1 \in 0..MaxKey
    BY <1>1, <1>2 DEF POSTKey, ApiKeys
  <2>3. r \in KeyAsk /\ r.done /\ r.op = "create" /\ r.named \in ApiKeys
    BY <2>1, <2>2 DEF KeyAsk
  <2>4. keyAsks' = [keyAsks EXCEPT ![i] = r]
    BY <1>2 DEF POSTKey
  <2> HIDE DEF r
  <2>5. issuedKeys' \subseteq ApiKeys /\ keyCounter' \in 0..MaxKey
        /\ UNCHANGED <<sectionVars, dialogVars, keyHistory, seenKeys>>
    BY <1>1, <1>2, <2>2 DEF POSTKey, createApiKey
  <2>6. ~IsFetch(r)
    BY <2>3, KindsOfAsk
  <2>7. QED
    BY <2>1, <2>3, <2>4, <2>5, <2>6, RequestHandled
<1>3. CASE DELETEKey(i)
  <2> DEFINE r == [keyAsks[i] EXCEPT !.done = TRUE]
  <2>1. keyAsks[i] \in KeyAsk /\ keyAsks[i].op = "delete"
    BY <1>3, AsksAre DEF DELETEKey
  <2>2. r \in KeyAsk /\ r.done /\ r.op = "delete"
    BY <2>1 DEF KeyAsk
  <2>3. keyAsks' = [keyAsks EXCEPT ![i] = r]
    BY <1>3 DEF DELETEKey
  <2> HIDE DEF r
  <2>4. issuedKeys' \subseteq ApiKeys /\ keyCounter' \in 0..MaxKey
        /\ UNCHANGED <<sectionVars, dialogVars, keyHistory, seenKeys>>
    BY <1>1, <1>3 DEF DELETEKey, deleteApiKey
  <2>5. ~IsFetch(r)
    BY <2>2, KindsOfAsk
  <2>6. QED
    BY <2>1, <2>2, <2>3, <2>4, <2>5, RequestHandled
<1>4. CASE GETKeys(i)
  <2> DEFINE r == [keyAsks[i] EXCEPT !.keysRead = TRUE, !.keys = issuedKeys]
  <2>1. keyAsks[i] \in KeyFetch
    BY <1>4, AsksAre DEF GETKeys
  <2>2. r \in KeyFetch /\ r.keys = issuedKeys /\ r.caller = keyAsks[i].caller
        /\ r.overlaps = keyAsks[i].overlaps /\ r.op = keyAsks[i].op
        /\ r.statsRead = keyAsks[i].statsRead /\ r.stats = keyAsks[i].stats
    BY <1>1, <2>1 DEF KeyFetch
  <2>3. keyAsks' = [keyAsks EXCEPT ![i] = r]
    BY <1>4 DEF GETKeys, getApiKeys
  <2> HIDE DEF r
  <2>4. UNCHANGED <<keyServerVars, sectionVars, dialogVars, keyHistory, seenKeys>>
    BY <1>4 DEF GETKeys
  <2>5. IsFetch(r) /\ issuedKeys' \subseteq ApiKeys /\ keyCounter' \in 0..MaxKey
    BY <1>1, <2>2, <2>4, KindsOfAsk DEF keyServerVars
  <2>6. QED
    BY <2>2, <2>3, <2>4, <2>5, RequestHandled
<1>5. CASE GETKeyStats(i)
  <2> DEFINE r == [keyAsks[i] EXCEPT !.statsRead = TRUE, !.stats = Cardinality(issuedKeys)]
  <2>1. keyAsks[i] \in KeyFetch
    BY <1>5, AsksAre DEF GETKeyStats
  <2>2. Cardinality(issuedKeys) \in 0..MaxKey
    BY <1>1, KeysAreCounted
  <2>3. r \in KeyFetch /\ r.stats = Cardinality(issuedKeys) /\ r.caller = keyAsks[i].caller
        /\ r.overlaps = keyAsks[i].overlaps /\ r.op = keyAsks[i].op
        /\ r.keysRead = keyAsks[i].keysRead /\ r.keys = keyAsks[i].keys
    BY <2>1, <2>2 DEF KeyFetch
  <2>4. keyAsks' = [keyAsks EXCEPT ![i] = r]
    BY <1>5 DEF GETKeyStats, getApiKeyStats
  <2> HIDE DEF r
  <2>5. UNCHANGED <<keyServerVars, sectionVars, dialogVars, keyHistory, seenKeys>>
    BY <1>5 DEF GETKeyStats
  <2>6. IsFetch(r) /\ issuedKeys' \subseteq ApiKeys /\ keyCounter' \in 0..MaxKey
    BY <1>1, <2>3, <2>5, KindsOfAsk DEF keyServerVars
  <2>7. QED
    BY <2>3, <2>4, <2>5, <2>6, RequestHandled
<1>6. QED
  BY <1>2, <1>3, <1>4, <1>5

LEMMA CreateAnsweredKeeps ==
  ASSUME KeyPageInv, NEW i \in 1..MaxAsk, handleCreateApiKey(i)
  PROVE  KeyPageInv'
<1>1. /\ keyAsks[i].op = "create" /\ keyAsks[i].done /\ newApiKey = NoKey
      /\ keyAsks[i].named \in ApiKeys /\ Making(keyAsks[i]) /\ creating
  BY DEF handleCreateApiKey, KeyPageInv, OneIsMade, Making
<1>2. /\ UNCHANGED <<keyServerVars, createDialogOpen, selectedApiKey, creating, hasBeenCopied>>
      /\ keyAsks' = fetchApiKeys([keyAsks EXCEPT ![i] = NoRequest], "create")
      /\ newApiKey' = keyAsks[i].named /\ givenKeys' = givenKeys \cup {keyAsks[i].named}
      /\ Display
  BY DEF handleCreateApiKey
<1>3. PICK n \in ApiKeys : n = keyAsks[i].named
  BY <1>1
<1>4. KeyPageTypes'
  BY <1>2, FetchFollows DEF KeyPageInv, KeyPageTypes, keyServerVars
<1>5. OneIsMade'
  <2>1. \A j \in 1..MaxAsk : keyAsks'[j].op # "create"
    <3>1. \A j \in 1..MaxAsk : keyAsks[j].op = "create" => j = i
      BY <1>1 DEF KeyPageInv, OneIsMade, Making
    <3>2. QED
      BY <1>2, <3>1, FetchFollows
  <2>2. \A j \in 1..MaxAsk : Making(keyAsks[j]) => j = i
    BY <1>1 DEF KeyPageInv, OneIsMade
  <2>3. \A j, k \in 1..MaxAsk : Making(keyAsks'[j]) /\ Making(keyAsks'[k]) => j = k
    BY <1>2, <2>2, FetchFollows
  <2>4. QED
    BY <1>1, <1>2, <2>1, <2>3 DEF OneIsMade
<1>6. KeysDisplayed'
  <2>1. n # NoKey
    BY KeyPageConstants DEF ApiKeys, NoKey
  <2>2. KeysDisplayed /\ newApiKey' = n /\ givenKeys' = givenKeys \cup {n} /\ ~hasBeenCopied
    BY <1>1, <1>2, <1>3 DEF KeyPageInv, KeysDisplayed
  <2>3. seenKeys' = IF createDialogOpen THEN seenKeys \cup {n} ELSE seenKeys
    BY <1>2, <2>1, <2>2 DEF Display
  <2>4. QED
    BY <1>1, <1>2, <2>1, <2>2, <2>3 DEF KeysDisplayed
<1>7. ListFollows'
  BY <1>2, FetchFollows DEF ListFollows, keyServerVars
<1>8. QED
  BY <1>4, <1>5, <1>6, <1>7 DEF KeyPageInv

LEMMA DeleteKeyAnsweredKeeps ==
  ASSUME KeyPageInv, NEW i \in 1..MaxAsk, handleDeleteApiKey(i)
  PROVE  KeyPageInv'
<1>1. /\ selectedApiKey' = NoKey
      /\ keyAsks' = fetchApiKeys([keyAsks EXCEPT ![i] = NoRequest], "delete")
      /\ UNCHANGED <<keyServerVars, createDialogOpen, newApiKey, creating, hasBeenCopied,
                     keyHistory, seenKeys>>
  BY DEF handleDeleteApiKey
<1>2. KeyPageTypes'
  <2>1. keyAsks' \in KeyAskTable
    BY <1>1, FetchFollows
  <2>2. selectedApiKey' \in 0..MaxKey
    BY <1>1, KeyPageConstants DEF NoKey
  <2>3. QED
    BY <1>1, <2>1, <2>2 DEF KeyPageInv, KeyPageTypes, keyServerVars
<1>3. OneIsMade'
  <2>1. \A j \in 1..MaxAsk : /\ Making(keyAsks'[j]) => Making(keyAsks[j])
                             /\ keyAsks'[j].op = "create" => keyAsks'[j] = keyAsks[j]
    BY <1>1, FetchFollows
  <2>2. QED
    BY <1>1, <2>1 DEF KeyPageInv, OneIsMade
<1>4. KeysDisplayed'
  BY <1>1 DEF KeyPageInv, KeysDisplayed, keyHistory
<1>5. ListFollows'
  BY <1>1, FetchFollows DEF ListFollows, keyServerVars
<1>6. QED
  BY <1>2, <1>3, <1>4, <1>5 DEF KeyPageInv

LEMMA FetchedKeeps == ASSUME KeyPageInv, NEW i \in 1..MaxAsk, Fetched(i) PROVE KeyPageInv'
<1>1. /\ IsFetch(keyAsks[i]) /\ keyAsks[i].keysRead /\ keyAsks[i].statsRead
      /\ apiKeys' = keyAsks[i].keys /\ keyStats' = keyAsks[i].stats
      /\ creating' = (creating /\ keyAsks[i].caller # "create")
      /\ outdated' = keyAsks[i].overlaps
      /\ keyAsks' = [keyAsks EXCEPT ![i] = NoRequest]
      /\ UNCHANGED <<keyServerVars, createDialogOpen, selectedApiKey, newApiKey, hasBeenCopied,
                     givenKeys, seenKeys>>
  BY DEF Fetched
<1>2. keyAsks' \in KeyAskTable /\ keyAsks'[i] = NoRequest
      /\ \A j \in (1..MaxAsk) \ {i} : keyAsks'[j] = keyAsks[j]
  BY <1>1 DEF KeyPageInv, KeyPageTypes, KeyAskTable
<1>3. KeyPageTypes'
  BY <1>1, <1>2 DEF KeyPageInv, KeyPageTypes, keyServerVars
<1>4. OneIsMade'
  <2>1. \A j \in 1..MaxAsk : Making(keyAsks'[j]) => Making(keyAsks[j]) /\ j # i
    BY <1>2, KindsOfAsk
  <2>2. ASSUME NEW j \in 1..MaxAsk, Making(keyAsks'[j]) PROVE creating'
    <3>1. Making(keyAsks[j]) /\ j # i /\ creating /\ ~Making(keyAsks[i])
      BY <2>1, <2>2 DEF KeyPageInv, OneIsMade
    <3>2. QED
      BY <1>1, <3>1 DEF Making
  <2>3. \A j \in 1..MaxAsk : keyAsks'[j].op = "create" => keyAsks'[j] = keyAsks[j]
    BY <1>2, KindsOfAsk
  <2>4. QED
    BY <1>1, <2>1, <2>2, <2>3 DEF KeyPageInv, OneIsMade
<1>5. KeysDisplayed'
  BY <1>1 DEF KeyPageInv, KeysDisplayed
<1>6. ListFollows'
  <2>1. OneFetch(keyAsks')
    BY <1>2, KindsOfAsk DEF KeyPageInv, ListFollows, OneFetch
  <2>2. Changed(keyAsks) <=> Changed(keyAsks')
    BY <1>1, <1>2, KindsOfAsk DEF Changed, IsFetch
  <2>3. FetchesTrue(keyAsks, issuedKeys) => FetchesTrue(keyAsks', issuedKeys)
    BY <1>2, KindsOfAsk DEF FetchesTrue
  <2>4. ASSUME ~outdated', ~Changed(keyAsks')
        PROVE  apiKeys' = issuedKeys /\ keyStats' = Cardinality(issuedKeys)
    <3>1. FetchesTrue(keyAsks, issuedKeys) /\ ~keyAsks[i].overlaps
      BY <1>1, <2>2, <2>4 DEF KeyPageInv, ListFollows
    <3>2. QED
      BY <1>1, <3>1 DEF FetchesTrue
  <2>5. issuedKeys' = issuedKeys
    BY <1>1 DEF keyServerVars
  <2>6. QED
    BY <2>1, <2>2, <2>3, <2>4, <2>5 DEF KeyPageInv, ListFollows
<1>7. QED
  BY <1>3, <1>4, <1>5, <1>6 DEF KeyPageInv

LEMMA AskFailedKeeps == ASSUME KeyPageInv, NEW i \in 1..MaxAsk, AskFailed(i) PROVE KeyPageInv'
<1> DEFINE rest == [keyAsks EXCEPT ![i] = NoRequest]
           late == ~IsFetch(keyAsks[i]) /\ keyAsks[i].done
<1>1. /\ keyAsks' = IF late THEN Overlapped(rest) ELSE rest
      /\ outdated' = (outdated \/ IsFetch(keyAsks[i]) \/ keyAsks[i].done)
      /\ creating' = (creating /\ keyAsks[i].op # "create"
                      /\ ~(IsFetch(keyAsks[i]) /\ keyAsks[i].caller = "create"))
      /\ UNCHANGED <<keyServerVars, apiKeys, keyStats, createDialogOpen, selectedApiKey,
                     newApiKey, hasBeenCopied, givenKeys, seenKeys>>
  BY DEF AskFailed
<1>2. rest \in KeyAskTable /\ rest[i] = NoRequest
      /\ \A j \in (1..MaxAsk) \ {i} : rest[j] = keyAsks[j]
  BY DEF KeyPageInv, KeyPageTypes, KeyAskTable
<1> HIDE DEF rest
<1>3. /\ keyAsks' \in KeyAskTable
      /\ \A j \in 1..MaxAsk :
           /\ IsFetch(keyAsks'[j]) => IsFetch(rest[j]) /\ keyAsks'[j].caller = rest[j].caller
                /\ (keyAsks'[j] = rest[j] \/ keyAsks'[j].overlaps) /\ (late => keyAsks'[j].overlaps)
           /\ ~IsFetch(keyAsks'[j]) => keyAsks'[j] = rest[j]
  <2>1. CASE late
    BY <1>1, <1>2, <2>1, OverlappedAre
  <2>2. CASE ~late
    BY <1>1, <1>2, <2>2
  <2>3. QED
    BY <2>1, <2>2
<1>4. KeyPageTypes'
  BY <1>1, <1>3 DEF KeyPageInv, KeyPageTypes, keyServerVars
<1>5. OneIsMade'
  <2>1. ASSUME NEW j \in 1..MaxAsk, Making(keyAsks'[j]) PROVE Making(rest[j])
    <3>1. CASE IsFetch(keyAsks'[j])
      <4>1. IsFetch(rest[j]) /\ keyAsks'[j].caller = rest[j].caller
        BY <1>3, <3>1
      <4>2. keyAsks'[j].caller = "create"
        BY <2>1, <3>1 DEF Making, IsFetch
      <4>3. QED
        BY <4>1, <4>2 DEF Making
    <3>2. CASE ~IsFetch(keyAsks'[j])
      <4>1. keyAsks'[j] = rest[j]
        BY <1>3, <3>2
      <4>2. QED
        BY <2>1, <4>1
    <3>3. QED
      BY <3>1, <3>2
  <2>2. \A j \in 1..MaxAsk : Making(keyAsks'[j]) => Making(keyAsks[j]) /\ j # i
    BY <1>2, <2>1, KindsOfAsk
  <2>3. ASSUME NEW j \in 1..MaxAsk, Making(keyAsks'[j]) PROVE creating'
    <3>1. creating /\ ~Making(keyAsks[i])
      BY <2>2, <2>3 DEF KeyPageInv, OneIsMade
    <3>2. QED
      BY <1>1, <3>1 DEF Making
  <2>4. \A j \in 1..MaxAsk : keyAsks'[j].op = "create" => keyAsks'[j] = keyAsks[j]
    <3>1. \A j \in 1..MaxAsk : keyAsks'[j].op = "create" => ~IsFetch(keyAsks'[j])
      BY DEF IsFetch
    <3>2. QED
      BY <1>2, <1>3, <3>1, KindsOfAsk
  <2>5. QED
    BY <1>1, <2>2, <2>3, <2>4 DEF KeyPageInv, OneIsMade
<1>6. KeysDisplayed'
  BY <1>1 DEF KeyPageInv, KeysDisplayed
<1>7. ListFollows'
  <2>1. issuedKeys' = issuedKeys
    BY <1>1 DEF keyServerVars
  <2>2. \A j \in 1..MaxAsk : IsFetch(keyAsks'[j]) =>
          IsFetch(keyAsks[j]) /\ (keyAsks[j].overlaps => keyAsks'[j].overlaps)
    BY <1>2, <1>3, KindsOfAsk
  <2>3. OneFetch(keyAsks')
    BY <2>2 DEF KeyPageInv, ListFollows, OneFetch
  <2>4. CASE late
    <3>1. outdated' /\ FetchesTrue(keyAsks', issuedKeys)
      BY <1>1, <1>3, <2>4 DEF FetchesTrue
    <3>2. QED
      BY <2>1, <2>3, <3>1 DEF ListFollows
  <2>5. CASE ~late
    <3>1. keyAsks' = rest
      BY <1>1, <2>5
    <3>2. Changed(keyAsks) => Changed(keyAsks')
      BY <1>2, <2>5, <3>1 DEF Changed, IsFetch
    <3>3. FetchesTrue(keyAsks, issuedKeys) => FetchesTrue(keyAsks', issuedKeys)
      BY <1>2, <3>1, KindsOfAsk DEF FetchesTrue
    <3>4. outdated' \/ (Fetching(keyAsks) => Fetching(keyAsks'))
      BY <1>1, <1>2, <3>1 DEF Fetching
    <3>5. outdated => outdated'
      BY <1>1
    <3>6. QED
      BY <1>1, <2>1, <2>3, <3>2, <3>3, <3>4, <3>5 DEF KeyPageInv, ListFollows
  <2>6. QED
    BY <2>4, <2>5
<1>8. QED
  BY <1>4, <1>5, <1>6, <1>7 DEF KeyPageInv

LEMMA KeyPageStarts == KeyPageInit => KeyPageInv
<1> SUFFICES ASSUME KeyPageInit PROVE KeyPageInv
  OBVIOUS
<1> DEFINE none == [i \in 1..MaxAsk |-> NoRequest]
           r == [op |-> "fetch", caller |-> "page",
                 overlaps |-> \E i \in 1..MaxAsk : IsFetch(none[i]),
                 keysRead |-> FALSE, keys |-> {}, statsRead |-> FALSE, stats |-> 0]
<1>1. r \in KeyFetch /\ ~r.keysRead /\ ~r.statsRead /\ r.caller = "page"
  BY KeyPageConstants DEF KeyFetch, ApiKeys
<1>2. none \in KeyAskTable /\ \A i \in 1..MaxAsk : none[i] = NoRequest
  BY DEF KeyAskTable
<1>3. keyAsks = AddAsk(Overlapped(none), r)
  BY DEF KeyPageInit, fetchApiKeys
<1> HIDE DEF r, none
<1>4. PICK os \in KeyAskTable : os = Overlapped(none)
  BY <1>2, OverlappedAre
<1>5. \A i \in 1..MaxAsk : os[i] = NoRequest
  BY <1>2, <1>4, OverlappedAre, KindsOfAsk
<1>6. keyAsks \in KeyAskTable /\ \A i, j \in 1..MaxAsk :
        /\ keyAsks[i] \in {NoRequest, r}
        /\ keyAsks[i] = r /\ keyAsks[j] = r => i = j
  <2>1. CASE MaxAsk = 0
    <3>1. 1..MaxAsk = {}
      BY <2>1
    <3>2. DOMAIN keyAsks = 1..MaxAsk /\ keyAsks = [j \in 1..MaxAsk |-> keyAsks[j]]
      BY <1>3, <1>4 DEF AddAsk, KeyAskTable
    <3>3. QED
      BY <3>1, <3>2 DEF KeyAskTable
  <2>2. CASE MaxAsk # 0
    <3>1. 1 \in 1..MaxAsk
      BY <2>2, KeyPageConstants
    <3>2. keyAsks \in KeyAskTable /\ \E n : AskJoins(n, os, r, keyAsks)
      BY <1>1, <1>3, <1>4, <1>5, <3>1, AskPlaced
    <3>3. r # NoRequest
      BY <1>1, KindsOfAsk
    <3>4. QED
      BY <1>5, <3>2, <3>3 DEF AskJoins
  <2>3. QED
    BY <2>1, <2>2
<1>7. KeyPageTypes
  BY <1>6, KeyPageConstants DEF KeyPageInit, KeyPageTypes, NoKey
<1>8. \A i \in 1..MaxAsk : ~Making(keyAsks[i])
  BY <1>1, <1>6, KindsOfAsk DEF Making
<1>9. OneIsMade
  BY <1>8 DEF OneIsMade, Making
<1>10. KeysDisplayed
  BY DEF KeyPageInit, KeysDisplayed
<1>11. ListFollows
  <2>1. OneFetch(keyAsks)
    BY <1>6, KindsOfAsk DEF OneFetch
  <2>2. FetchesTrue(keyAsks, issuedKeys)
    BY <1>1, <1>6, KindsOfAsk DEF FetchesTrue
  <2>3. apiKeys = issuedKeys /\ keyStats = Cardinality(issuedKeys)
    BY FS_EmptySet DEF KeyPageInit
  <2>4. QED
    BY <2>1, <2>2, <2>3 DEF ListFollows
<1>12. QED
  BY <1>7, <1>9, <1>10, <1>11 DEF KeyPageInv

LEMMA KeyPageStep == KeyPageInv /\ [KeyPageNext]_keyPageVars => KeyPageInv'
<1> SUFFICES ASSUME KeyPageInv, [KeyPageNext]_keyPageVars PROVE KeyPageInv'
  OBVIOUS
<1>1. CASE UNCHANGED keyPageVars
  BY <1>1 DEF keyPageVars, keyServerVars, sectionVars, dialogVars, keyHistory, KeyPageInv,
     KeyPageTypes, OneIsMade, KeysDisplayed, ListFollows
<1>2. ASSUME NEW i \in 1..MaxAsk,
             \/ POSTKey(i) \/ DELETEKey(i) \/ GETKeys(i) \/ GETKeyStats(i)
             \/ handleCreateApiKey(i) \/ handleDeleteApiKey(i) \/ Fetched(i) \/ AskFailed(i)
      PROVE  KeyPageInv'
  BY <1>2, RoutesKeep, CreateAnsweredKeeps, DeleteKeyAnsweredKeeps, FetchedKeeps, AskFailedKeeps
<1>3. QED
  BY <1>1, <1>2, ButtonsKeep, DialogsKeep DEF KeyPageNext

\* What a step sets to a value of its type, beyond what KeyPageInv says.
KeyPageRest ==
  /\ apiKeys \subseteq ApiKeys /\ givenKeys \subseteq ApiKeys /\ seenKeys \subseteq ApiKeys
  /\ keyStats \in 0..MaxKey /\ newApiKey \in 0..MaxKey /\ lost \in 0..MaxLost
  /\ keysLoading \in BOOLEAN /\ createDialogOpen \in BOOLEAN /\ deleteDialogOpen \in BOOLEAN
  /\ detailsDialogOpen \in BOOLEAN /\ creating \in BOOLEAN /\ hasBeenCopied \in BOOLEAN
  /\ revoking \in BOOLEAN /\ outdated \in BOOLEAN

LEMMA KeyPageRestStep ==
  ASSUME KeyPageInv, KeyPageRest, KeyPageNext PROVE KeyPageRest'
<1>0. MaxKey \in Nat /\ MaxLost \in Nat
  BY KeyPageConstants
<1> USE <1>0 DEF KeyPageRest
<1>1. CASE \/ OpenCreateDialog \/ handleSubmit \/ copyKey \/ handleCreateDialogClose
           \/ CloseDetails \/ handleRevoke
           \/ \E k \in ApiKeys : openDeleteDialog(k) \/ openSetupDialog(k)
  <2>1. UNCHANGED <<apiKeys, keyStats, keysLoading, givenKeys, outdated, lost>>
    BY <1>1 DEF OpenCreateDialog, handleSubmit, copyKey, handleCreateDialogClose, CloseDetails,
       handleRevoke, openDeleteDialog, openSetupDialog, sectionVars, keyHistory
  <2>2. seenKeys' = seenKeys
          \/ (Display /\ newApiKey' # NoKey /\ seenKeys' = seenKeys \cup {newApiKey'})
    BY <1>1 DEF OpenCreateDialog, handleSubmit, copyKey, handleCreateDialogClose, CloseDetails,
       handleRevoke, openDeleteDialog, openSetupDialog, Display
  <2>3. newApiKey' \in 0..MaxKey
    BY <1>1 DEF OpenCreateDialog, handleSubmit, copyKey, handleCreateDialogClose, CloseDetails,
       handleRevoke, openDeleteDialog, openSetupDialog, NoKey
  <2>4. seenKeys' \subseteq ApiKeys
    <3>1. newApiKey' # NoKey => newApiKey' \in ApiKeys
      BY <2>3 DEF ApiKeys, NoKey
    <3>2. QED
      BY <2>2, <3>1
  <2>5. createDialogOpen' \in BOOLEAN /\ deleteDialogOpen' \in BOOLEAN
        /\ detailsDialogOpen' \in BOOLEAN
    BY <1>1 DEF OpenCreateDialog, handleSubmit, copyKey, handleCreateDialogClose, CloseDetails,
       handleRevoke, openDeleteDialog, openSetupDialog
  <2>6. creating' \in BOOLEAN /\ revoking' \in BOOLEAN
    BY <1>1 DEF OpenCreateDialog, handleSubmit, copyKey, handleCreateDialogClose, CloseDetails,
       handleRevoke, openDeleteDialog, openSetupDialog
  <2>7. hasBeenCopied' \in BOOLEAN
    BY <1>1 DEF OpenCreateDialog, handleSubmit, copyKey, handleCreateDialogClose, CloseDetails,
       handleRevoke, openDeleteDialog, openSetupDialog
  <2>8. QED
    BY <2>1, <2>3, <2>4, <2>5, <2>6, <2>7
<1>2. ASSUME NEW i \in 1..MaxAsk, POSTKey(i) \/ DELETEKey(i) \/ GETKeys(i) \/ GETKeyStats(i)
      PROVE  KeyPageRest'
  BY <1>2 DEF POSTKey, DELETEKey, GETKeys, GETKeyStats, sectionVars, dialogVars, keyHistory
<1>3. ASSUME NEW i \in 1..MaxAsk, handleCreateApiKey(i) PROVE KeyPageRest'
  <2>1. keyAsks[i].named \in ApiKeys
    BY <1>3 DEF handleCreateApiKey, KeyPageInv, OneIsMade
  <2>2. /\ newApiKey' = keyAsks[i].named /\ givenKeys' = givenKeys \cup {keyAsks[i].named}
        /\ UNCHANGED <<apiKeys, keyStats, keysLoading, createDialogOpen, deleteDialogOpen,
                      detailsDialogOpen, creating, hasBeenCopied, revoking, lost, outdated>>
    BY <1>3 DEF handleCreateApiKey, sectionVars
  <2>3. seenKeys' = seenKeys \/ seenKeys' = seenKeys \cup {keyAsks[i].named}
    BY <1>3 DEF handleCreateApiKey, Display
  <2>4. newApiKey' \in 0..MaxKey
    BY <2>1, <2>2 DEF ApiKeys
  <2>5. seenKeys' \subseteq ApiKeys /\ givenKeys' \subseteq ApiKeys
    BY <2>1, <2>2, <2>3
  <2>6. QED
    BY <2>2, <2>4, <2>5
<1>4. ASSUME NEW i \in 1..MaxAsk, handleDeleteApiKey(i) PROVE KeyPageRest'
  BY <1>4 DEF handleDeleteApiKey, keyServerVars, sectionVars, keyHistory
<1>5. ASSUME NEW i \in 1..MaxAsk, Fetched(i) PROVE KeyPageRest'
  <2>1. keyAsks[i] \in KeyFetch
    BY <1>5, AsksAre DEF Fetched
  <2>2. keyAsks[i].keys \subseteq ApiKeys /\ keyAsks[i].stats \in 0..MaxKey
        /\ keyAsks[i].overlaps \in BOOLEAN
    BY <2>1 DEF KeyFetch
  <2>3. QED
    BY <1>5, <2>2 DEF Fetched, keyServerVars
<1>6. ASSUME NEW i \in 1..MaxAsk, AskFailed(i) PROVE KeyPageRest'
  <2>1. lost' \in 0..MaxLost
    BY <1>6 DEF AskFailed
  <2>2. /\ UNCHANGED <<apiKeys, givenKeys, seenKeys, keyStats, newApiKey, createDialogOpen,
                      deleteDialogOpen, detailsDialogOpen, hasBeenCopied>>
        /\ keysLoading' \in BOOLEAN /\ creating' \in BOOLEAN /\ revoking' \in BOOLEAN
    BY <1>6 DEF AskFailed
  <2>3. outdated' \in BOOLEAN
    BY <1>6 DEF AskFailed
  <2>4. QED
    BY <2>1, <2>2, <2>3
<1>7. QED
  BY <1>1, <1>2, <1>3, <1>4, <1>5, <1>6 DEF KeyPageNext

\* Every reachable state of ApiKeyPage is well typed.
THEOREM KeyPageTypeCorrect == KeyPageSpec => []KeyPageTypeOK
<1>1. KeyPageInit => KeyPageRest
  <2>1. MaxKey \in Nat /\ MaxLost \in Nat
    BY KeyPageConstants
  <2> SUFFICES ASSUME KeyPageInit PROVE KeyPageRest
    OBVIOUS
  <2>2. keyStats \in 0..MaxKey /\ newApiKey \in 0..MaxKey /\ lost \in 0..MaxLost
    BY <2>1 DEF KeyPageInit, NoKey
  <2>3. QED
    BY <2>2 DEF KeyPageInit, KeyPageRest
<1>2. KeyPageInv /\ KeyPageRest /\ [KeyPageNext]_keyPageVars => KeyPageRest'
  <2>1. KeyPageRest /\ UNCHANGED keyPageVars => KeyPageRest'
    BY DEF KeyPageRest, keyPageVars, keyServerVars, sectionVars, dialogVars, keyHistory
  <2>2. QED
    BY <2>1, KeyPageRestStep
<1>3. KeyPageInv /\ KeyPageRest => KeyPageTypeOK
  BY DEF KeyPageInv, KeyPageTypes, KeyAskTable, KeyPageRest, KeyPageTypeOK
<1>4. QED
  BY <1>1, <1>2, <1>3, KeyPageStarts, KeyPageStep, PTL DEF KeyPageSpec

\* A key can be read only on the screen of the dialog that made it.  Whenever the dialog is closed,
\* by the user or by the Escape key, and in whatever order the answers and the fetches of the list
\* come: no key that the page received is replaced or dropped before it has been displayed, what is
\* copied is a key displayed, and an undisturbed list is the API's.
THEOREM NoKeyIsMissed == KeyPageSpec => []NewKeysAreSeen
<1>1. ASSUME KeyPageInv PROVE NewKeysAreSeen
  <2>1. ASSUME \A i \in 1..MaxAsk : keyAsks[i] = NoRequest, ~outdated
        PROVE  apiKeys = issuedKeys /\ keyStats = Cardinality(issuedKeys)
    <3>1. ~Changed(keyAsks) /\ ~Fetching(keyAsks)
      BY <2>1, KindsOfAsk DEF Changed, Fetching
    <3>2. QED
      BY <1>1, <2>1, <3>1 DEF KeyPageInv, ListFollows
  <2>2. QED
    BY <1>1, <2>1 DEF NewKeysAreSeen, KeyPageInv, KeysDisplayed
<1>2. QED
  BY <1>1, KeyPageStarts, KeyPageStep, PTL DEF KeyPageSpec

-----------------------------------------------------------------------------
(* The live view of one bot.                                                   *)

\* The states of an SSEClient.
ClientType ==
  [live : [Source -> Watched \cup {Nothing}], open : SUBSET Source,
   connections : [Watched -> Source \cup {0}],
   reconnectAttempts : [Watched -> 0..maxReconnectAttempts],
   timers : [Watched -> Nat], reconnectTimeouts : [Watched -> BOOLEAN]]

\* The client serves one URL at most, by its EventSource or by the timer of a retry, and
\* finds either in its maps.
Serves(c, url) ==
  /\ c \in ClientType
  /\ \A s \in Source : c.live[s] # Nothing => c.live[s] = url /\ c.connections[url] = s
  /\ \A b \in Watched : c.connections[b] # 0 => c.live[c.connections[b]] = b
  /\ \A b \in Watched : c.timers[b] # 0 =>
       b = url /\ c.timers[b] = 1 /\ \A s \in Source : c.live[s] = Nothing
  /\ \A b \in Watched : c.reconnectTimeouts[b] <=> c.timers[b] = 1

\* The URL is that of the bot on show, or none without a user or a view.
ViewServed ==
  /\ Serves(client, disconnectRef)
  /\ botName \in Watched /\ disconnectRef \in {botName, Nothing}
  /\ disconnectRef # Nothing => mounted /\ signedIn

\* The inductive invariant: until a timer of reconnect() outlives what it was set for.
ViewInv == strayed \/ ViewServed

LEMMA IdleServesAny ==
  ASSUME NEW c, Serves(c, Nothing), NEW url \in Watched
  PROVE  /\ Serves(c, url)
         /\ \A s \in Source : c.live[s] = Nothing
         /\ \A b \in Watched : c.timers[b] = 0 /\ c.connections[b] = 0 /\ ~c.reconnectTimeouts[b]
<1>1. Nothing \notin Watched
  BY StreamConstants
<1>2. \A s \in Source : c.live[s] = Nothing
  BY DEF Serves
<1>3. \A b \in Watched : c.timers[b] = 0
  BY <1>1 DEF Serves
<1>4. \A b \in Watched : c.connections[b] = 0
  BY <1>1, <1>2 DEF Serves, ClientType
<1>5. \A b \in Watched : ~c.reconnectTimeouts[b]
  BY <1>3 DEF Serves
<1>6. Serves(c, url)
  BY <1>2, <1>3, <1>4, <1>5 DEF Serves
<1>7. QED
  BY <1>2, <1>3, <1>4, <1>5, <1>6

\* The EventSource of a URL is closed and forgotten.
Forgotten(c, url) == [Closed(c, c.connections[url]) EXCEPT !.connections[url] = 0]

LEMMA ForgottenIs ==
  ASSUME NEW c, NEW url \in Watched, Serves(c, url), NEW d, d = Forgotten(c, url)
  PROVE  /\ d \in ClientType
         /\ \A s \in Source : d.live[s] = Nothing
         /\ \A b \in Watched : d.connections[b] = 0
         /\ d.timers = c.timers /\ d.reconnectTimeouts = c.reconnectTimeouts
         /\ d.reconnectAttempts = c.reconnectAttempts
<1> DEFINE n == c.connections[url]
           gone == [x \in Source |-> IF x = n THEN Nothing ELSE c.live[x]]
<1>1. c \in ClientType
  BY DEF Serves
<1>2. gone \in [Source -> Watched \cup {Nothing}] /\ \A s \in Source : gone[s] = Nothing
  BY <1>1 DEF ClientType, Serves
<1>3. Nothing \notin Watched
  BY StreamConstants
<1>4. \A b \in Watched \ {url} : c.connections[b] = 0
  <2> SUFFICES ASSUME NEW b \in Watched \ {url}, c.connections[b] # 0 PROVE FALSE
    OBVIOUS
  <2>1. c.connections[b] \in Source /\ c.live[c.connections[b]] = b
    BY <1>1 DEF ClientType, Serves
  <2>2. c.live[c.connections[b]] = url
    BY <1>3, <2>1 DEF Serves
  <2>3. QED
    BY <2>1, <2>2
<1>5. /\ d.live = gone /\ d.open = c.open \ {n}
      /\ d.connections = [c.connections EXCEPT ![url] = 0]
      /\ d.timers = c.timers /\ d.reconnectTimeouts = c.reconnectTimeouts
      /\ d.reconnectAttempts = c.reconnectAttempts
  BY <1>1 DEF Forgotten, Closed, ClientType
<1>6. /\ c.connections \in [Watched -> Source \cup {0}] /\ c.open \subseteq Source
      /\ d.connections = [c.connections EXCEPT ![url] = 0]
  BY <1>1, <1>5 DEF ClientType
<1>7. /\ d.connections \in [Watched -> Source \cup {0}]
      /\ \A b \in Watched : d.connections[b] = 0
  BY <1>4, <1>6
<1>8. d \in ClientType
  <2>1. d = [c EXCEPT !.live = gone, !.open = c.open \ {n}, !.connections = d.connections]
    BY <1>1, <1>6 DEF Forgotten, Closed, ClientType
  <2> HIDE DEF gone, n
  <2>2. QED
    BY <1>1, <1>2, <1>6, <1>7, <2>1 DEF ClientType
<1>9. QED
  BY <1>2, <1>5, <1>7, <1>8

LEMMA Disconnected ==
  ASSUME NEW c, NEW url \in Watched, Serves(c, url)
  PROVE  Serves(disconnect(c, url), Nothing)
<1>0. PICK d : d = Forgotten(c, url)
  OBVIOUS
<1> DEFINE e == disconnect(c, url)
           left == IF c.reconnectTimeouts[url] THEN c.timers[url] - 1 ELSE c.timers[url]
<1>1. /\ d \in ClientType
      /\ \A s \in Source : d.live[s] = Nothing
      /\ \A b \in Watched : d.connections[b] = 0
      /\ d.timers = c.timers /\ d.reconnectTimeouts = c.reconnectTimeouts
  BY <1>0, ForgottenIs
<1>2. e = [d EXCEPT !.timers[url] = left, !.reconnectTimeouts[url] = FALSE,
                    !.reconnectAttempts[url] = 0]
  BY <1>0, <1>1 DEF disconnect, Forgotten, Closed, ClientType
<1>3. left = 0
  BY DEF Serves, ClientType
<1> HIDE DEF e, left
<1>4. /\ e \in ClientType /\ e.live = d.live /\ e.connections = d.connections
      /\ e.timers = [d.timers EXCEPT ![url] = 0]
      /\ e.reconnectTimeouts = [d.reconnectTimeouts EXCEPT ![url] = FALSE]
  <2> DEFINE ts == [d.timers EXCEPT ![url] = 0]
             rt == [d.reconnectTimeouts EXCEPT ![url] = FALSE]
             ra == [d.reconnectAttempts EXCEPT ![url] = 0]
  <2>1. /\ ts \in [Watched -> Nat] /\ rt \in [Watched -> BOOLEAN]
        /\ ra \in [Watched -> 0..maxReconnectAttempts]
    BY <1>1, StreamConstants DEF ClientType
  <2>2. e = [d EXCEPT !.timers = ts, !.reconnectTimeouts = rt, !.reconnectAttempts = ra]
    BY <1>1, <1>2, <1>3 DEF ClientType
  <2> HIDE DEF ts, rt, ra
  <2>3. /\ e \in ClientType /\ e.live = d.live /\ e.connections = d.connections
        /\ e.timers = ts /\ e.reconnectTimeouts = rt
    BY <1>1, <2>1, <2>2 DEF ClientType
  <2>4. QED
    BY <2>3 DEF ts, rt
<1>5. \A b \in Watched : e.timers[b] = 0 /\ ~e.reconnectTimeouts[b]
  <2>1. \A b \in Watched \ {url} : c.timers[b] = 0 /\ ~c.reconnectTimeouts[b]
    BY DEF Serves
  <2>2. QED
    BY <1>1, <1>4, <2>1 DEF ClientType
<1>6. Serves(e, Nothing)
  BY <1>1, <1>4, <1>5 DEF Serves
<1>7. QED
  BY <1>6 DEF e

LEMMA Opened ==
  ASSUME NEW c, Serves(c, Nothing), NEW url \in Watched
  PROVE  Serves(OpenSource(c, url), url)
<1> DEFINE e == OpenSource(c, url)
<1>1. PICK s \in Source : s = CHOOSE x \in Source : c.live[x] = Nothing
  BY IdleServesAny, StreamConstants DEF Source
<1>2. e = [c EXCEPT !.live[s] = url, !.connections[url] = s]
  BY <1>1 DEF OpenSource
<1>3. c \in ClientType
  BY DEF Serves
<1>4. s # 0 /\ Nothing \notin Watched
  BY StreamConstants DEF Source
<1> HIDE DEF e
<1>5. /\ e \in ClientType /\ e.live = [c.live EXCEPT ![s] = url]
      /\ e.connections = [c.connections EXCEPT ![url] = s]
      /\ e.timers = c.timers /\ e.reconnectTimeouts = c.reconnectTimeouts
  BY <1>2, <1>3 DEF ClientType
<1>6. /\ \A x \in Source : c.live[x] = Nothing
      /\ \A b \in Watched : c.timers[b] = 0 /\ c.connections[b] = 0 /\ ~c.reconnectTimeouts[b]
  BY IdleServesAny
<1>7. \A x \in Source : e.live[x] = IF x = s THEN url ELSE Nothing
  BY <1>3, <1>5, <1>6 DEF ClientType
<1>8. \A b \in Watched : e.connections[b] = IF b = url THEN s ELSE 0
  BY <1>3, <1>5, <1>6 DEF ClientType
<1>9. Serves(e, url)
  BY <1>4, <1>5, <1>6, <1>7, <1>8 DEF Serves
<1>10. QED
  BY <1>9 DEF e

LEMMA CleanedUp ==
  ASSUME NEW c, NEW ref \in Watched \cup {Nothing}, Serves(c, ref)
  PROVE  Serves(CleanUp(c, ref), Nothing)
  BY Disconnected DEF CleanUp

LEMMA Connected ==
  ASSUME NEW c, Serves(c, Nothing), NEW url \in Watched
  PROVE  Serves(connect(c, url), url)
  BY IdleServesAny, Disconnected, Opened DEF connect

\* The EventSource fails: a retry takes its place, or nothing.
LEMMA FailedIs ==
  ASSUME NEW c, NEW url \in Watched, Serves(c, url), NEW s \in Source, c.live[s] = url
  PROVE  Serves(SourceFailed(c, url), url)
<1>0. PICK d : d = Forgotten(c, url)
  OBVIOUS
<1> DEFINE e == SourceFailed(c, url)
           attempts == c.reconnectAttempts[url]
<1>1. /\ d \in ClientType
      /\ \A x \in Source : d.live[x] = Nothing
      /\ \A b \in Watched : d.connections[b] = 0
      /\ d.timers = c.timers /\ d.reconnectTimeouts = c.reconnectTimeouts
      /\ d.reconnectAttempts = c.reconnectAttempts
  BY <1>0, ForgottenIs
<1>2. Nothing \notin Watched /\ maxReconnectAttempts \in Nat
  BY StreamConstants
<1>3. \A b \in Watched : c.timers[b] = 0 /\ ~c.reconnectTimeouts[b]
  BY <1>2 DEF Serves
<1>4. e = IF attempts < maxReconnectAttempts
          THEN [d EXCEPT !.reconnectAttempts[url] = attempts + 1,
                         !.timers[url] = @ + 1, !.reconnectTimeouts[url] = TRUE]
          ELSE [d EXCEPT !.reconnectAttempts[url] = 0]
  BY <1>0 DEF SourceFailed, Forgotten
<1>5. attempts \in 0..maxReconnectAttempts
  BY DEF Serves, ClientType
<1> HIDE DEF e, attempts
<1>6. CASE attempts < maxReconnectAttempts
  <2>1. attempts + 1 \in 0..maxReconnectAttempts
    BY <1>2, <1>5, <1>6
  <2>2. d.timers[url] = 0
    BY <1>1, <1>3
  <2>3. /\ e \in ClientType /\ e.live = d.live /\ e.connections = d.connections
        /\ e.timers = [d.timers EXCEPT ![url] = 1]
        /\ e.reconnectTimeouts = [d.reconnectTimeouts EXCEPT ![url] = TRUE]
    <3> DEFINE ts == [d.timers EXCEPT ![url] = 1]
               rt == [d.reconnectTimeouts EXCEPT ![url] = TRUE]
               ra == [d.reconnectAttempts EXCEPT ![url] = attempts + 1]
    <3>1. /\ ts \in [Watched -> Nat] /\ rt \in [Watched -> BOOLEAN]
          /\ ra \in [Watched -> 0..maxReconnectAttempts]
      BY <1>1, <2>1 DEF ClientType
    <3>2. e = [d EXCEPT !.timers = ts, !.reconnectTimeouts = rt, !.reconnectAttempts = ra]
      <4>1. e = [d EXCEPT !.reconnectAttempts[url] = attempts + 1,
                          !.timers[url] = @ + 1, !.reconnectTimeouts[url] = TRUE]
        BY <1>4, <1>6
      <4>2. e = [d EXCEPT !.reconnectAttempts[url] = attempts + 1,
                          !.timers[url] = 1, !.reconnectTimeouts[url] = TRUE]
        BY <1>1, <2>2, <4>1 DEF ClientType
      <4>3. QED
        BY <1>1, <4>2 DEF ClientType
    <3> HIDE DEF ts, rt, ra
    <3>3. /\ e \in ClientType /\ e.live = d.live /\ e.connections = d.connections
          /\ e.timers = ts /\ e.reconnectTimeouts = rt
      BY <1>1, <3>1, <3>2 DEF ClientType
    <3>4. QED
      BY <3>3 DEF ts, rt
  <2>4. \A b \in Watched : /\ e.timers[b] = IF b = url THEN 1 ELSE 0
                           /\ e.reconnectTimeouts[b] <=> b = url
    BY <1>1, <1>3, <2>3 DEF ClientType
  <2>5. Serves(e, url)
    BY <1>1, <2>3, <2>4 DEF Serves
  <2>6. QED
    BY <2>5 DEF e
<1>7. CASE ~(attempts < maxReconnectAttempts)
  <2>1. /\ e \in ClientType /\ e.live = d.live /\ e.connections = d.connections
        /\ e.timers = d.timers /\ e.reconnectTimeouts = d.reconnectTimeouts
    BY <1>1, <1>2, <1>4, <1>7 DEF ClientType
  <2>2. Serves(e, url)
    BY <1>1, <1>3, <2>1 DEF Serves
  <2>3. QED
    BY <2>2 DEF e
<1>8. QED
  BY <1>6, <1>7

-----------------------------------------------------------------------------

LEMMA EffectServes ==
  ASSUME NEW c, NEW url \in Watched, NEW wanted \in BOOLEAN,
         disconnectRef \in Watched \cup {Nothing}, Serves(c, disconnectRef),
         RunEffect(c, url, wanted)
  PROVE  /\ Serves(client', disconnectRef')
         /\ disconnectRef' = IF wanted THEN url ELSE Nothing
<1>1. Serves(CleanUp(c, disconnectRef), Nothing)
  BY CleanedUp
<1>2. CASE wanted
  BY <1>1, <1>2, Connected DEF RunEffect
<1>3. CASE ~wanted
  BY <1>1, <1>3 DEF RunEffect
<1>4. QED
  BY <1>2, <1>3

LEMMA StateSet ==
  ASSUME ViewServed, signedIn \in BOOLEAN, NEW c, Serves(c, disconnectRef), NEW l, NEW e,
         SetState(c, l, e), UNCHANGED <<botName, signedIn, mounted, strayed>>
  PROVE  ViewInv'
<1>1. disconnectRef \in Watched \cup {Nothing} /\ botName \in Watched
  BY DEF ViewServed
<1>2. CASE RunEffect(c, botName, signedIn) /\ mounted
  <2>1. /\ Serves(client', disconnectRef')
        /\ disconnectRef' = IF signedIn THEN botName ELSE Nothing
    BY <1>1, <1>2, EffectServes
  <2>2. QED
    BY <1>1, <1>2, <2>1 DEF ViewServed, ViewInv
<1>3. CASE client' = c /\ UNCHANGED disconnectRef
  BY <1>1, <1>3 DEF ViewServed, ViewInv
<1>4. QED
  BY <1>2, <1>3 DEF SetState

LEMMA ErrorHandled ==
  ASSUME ViewServed, signedIn \in BOOLEAN, NEW c, Serves(c, disconnectRef), HandleError(c)
  PROVE  ViewInv'
<1>1. UNCHANGED <<botName, signedIn, mounted, strayed>>
  BY DEF HandleError
<1>2. SetState(c, TRUE, "retrying") \/ SetState(c, FALSE, "none")
  BY DEF HandleError
<1>3. QED
  BY <1>1, <1>2, StateSet

LEMMA StreamServed ==
  ASSUME ViewServed, signedIn \in BOOLEAN, NEW s \in Source, client.live[s] # Nothing
  PROVE  client.live[s] = disconnectRef /\ disconnectRef \in Watched
  BY StreamConstants DEF ViewServed, Serves

LEMMA ViewStep ==
  ASSUME ViewServed, signedIn \in BOOLEAN, ~strayed', [StreamNext]_viewStreamVars
  PROVE  ViewInv'
<1>1. /\ Serves(client, disconnectRef) /\ client \in ClientType
      /\ botName \in Watched /\ disconnectRef \in Watched \cup {Nothing}
  BY DEF ViewServed, Serves
<1>2. ASSUME NEW s \in Source, onopen(s) PROVE ViewInv'
  <2> DEFINE url == client.live[s]
             c == [client EXCEPT !.open = @ \cup {s}, !.reconnectAttempts[url] = 0]
             e == IF error = "retrying" THEN "none" ELSE error
  <2>1. url \in Watched
    BY <1>2, StreamServed DEF onopen
  <2>2. /\ c \in ClientType /\ c.live = client.live /\ c.connections = client.connections
        /\ c.timers = client.timers /\ c.reconnectTimeouts = client.reconnectTimeouts
    <3>1. 0 \in 0..maxReconnectAttempts
      BY StreamConstants
    <3> HIDE DEF url
    <3>2. QED
      BY <1>1, <2>1, <3>1 DEF ClientType
  <2>3. SetState(c, loaded, e) /\ UNCHANGED <<botName, signedIn, mounted, strayed>>
    BY <1>2 DEF onopen
  <2> HIDE DEF c, e
  <2>4. Serves(c, disconnectRef)
    BY <1>1, <2>2 DEF Serves
  <2>5. QED
    BY <2>3, <2>4, StateSet
<1>3. ASSUME NEW s \in Source, onmessage(s) PROVE ViewInv'
  BY <1>1, <1>3, StateSet DEF onmessage
<1>4. ASSUME NEW s \in Source, ErrorMessage(s) PROVE ViewInv'
  BY <1>1, <1>4, ErrorHandled DEF ErrorMessage
<1>5. ASSUME NEW s \in Source, onerror(s) PROVE ViewInv'
  <2>1. client.live[s] = disconnectRef /\ disconnectRef \in Watched
    BY <1>5, StreamServed DEF onerror
  <2>2. Serves(SourceFailed(client, disconnectRef), disconnectRef)
    BY <1>1, <2>1, FailedIs
  <2>3. HandleError(SourceFailed(client, disconnectRef))
    BY <1>5, <2>1 DEF onerror
  <2>4. QED
    BY <2>2, <2>3, ErrorHandled
<1>6. ASSUME NEW b \in Watched, RetryTimer(b) PROVE ViewInv'
  <2> DEFINE ts == [client.timers EXCEPT ![b] = 0]
             rt == [client.reconnectTimeouts EXCEPT ![b] = FALSE]
             c == [client EXCEPT !.timers[b] = @ - 1, !.reconnectTimeouts[b] = FALSE]
  <2>1. client.timers[b] = 1 /\ b = disconnectRef
        /\ \A s \in Source : client.live[s] = Nothing
    BY <1>1, <1>6 DEF RetryTimer, Serves, ClientType
  <2>2. ts \in [Watched -> Nat] /\ rt \in [Watched -> BOOLEAN]
    BY <1>1 DEF ClientType
  <2>3. c = [client EXCEPT !.timers = ts, !.reconnectTimeouts = rt]
    BY <1>1, <2>1 DEF ClientType
  <2>4. client' = OpenSource(c, b)
        /\ UNCHANGED <<disconnectRef, botName, signedIn, mounted, strayed>>
    BY <1>6 DEF RetryTimer
  <2> HIDE DEF ts, rt, c
  <2>5. /\ c \in ClientType /\ c.live = client.live /\ c.connections = client.connections
        /\ c.timers = ts /\ c.reconnectTimeouts = rt
    BY <1>1, <2>2, <2>3 DEF ClientType
  <2>6. \A x \in Watched : ts[x] = 0 /\ ~rt[x]
    BY <1>1, <2>1 DEF ts, rt, Serves, ClientType
  <2>7. Serves(c, Nothing)
    BY <1>1, <2>1, <2>5, <2>6 DEF Serves
  <2>8. Serves(client', disconnectRef')
    BY <2>1, <2>4, <2>7, Opened
  <2>9. QED
    BY <2>4, <2>8 DEF ViewServed, ViewInv
<1>7. ASSUME reconnect PROVE ViewInv'
  BY <1>1, <1>7, CleanedUp DEF reconnect, ViewServed, ViewInv
<1>8. ASSUME NEW b \in Watched, ReconnectTimer(b) PROVE ViewInv'
  <2>1. CASE signedIn
    <3>1. /\ client' = connect(CleanUp(client, disconnectRef), b) /\ disconnectRef' = b
          /\ UNCHANGED <<botName, signedIn, mounted>> /\ mounted /\ b = botName
      BY <1>8, <2>1 DEF ReconnectTimer
    <3>2. Serves(client', b)
      BY <1>1, <3>1, CleanedUp, Connected
    <3>3. QED
      BY <2>1, <3>1, <3>2 DEF ViewServed, ViewInv
  <2>2. CASE ~signedIn
    BY <1>8, <2>2 DEF ReconnectTimer, ViewServed, ViewInv
  <2>3. QED
    BY <2>1, <2>2
<1>9. ASSUME fetchCustomBot PROVE ViewInv'
  BY <1>1, <1>9, StateSet DEF fetchCustomBot
<1>10. ASSUME NEW b \in Watched, FetchAnswered(b) PROVE ViewInv'
  BY <1>1, <1>10, StateSet DEF FetchAnswered
<1>11. ASSUME NEW b \in Watched, ShowBot(b) PROVE ViewInv'
  <2>1. /\ Serves(client', disconnectRef')
        /\ disconnectRef' = IF signedIn THEN b ELSE Nothing
    BY <1>1, <1>11, EffectServes DEF ShowBot
  <2>2. QED
    BY <1>11, <2>1 DEF ShowBot, ViewServed, ViewInv
<1>12. ASSUME UserChanges PROVE ViewInv'
  <2>1. /\ Serves(client', disconnectRef')
        /\ disconnectRef' = IF ~signedIn THEN botName ELSE Nothing
    BY <1>1, <1>12, EffectServes DEF UserChanges
  <2>2. QED
    BY <1>1, <1>12, <2>1 DEF UserChanges, ViewServed, ViewInv
<1>13. ASSUME UnmountView PROVE ViewInv'
  BY <1>1, <1>13, CleanedUp DEF UnmountView, ViewServed, ViewInv
<1>14. ASSUME UNCHANGED viewStreamVars PROVE ViewInv'
  BY <1>14 DEF viewStreamVars, ViewServed, ViewInv
<1>15. QED
  BY <1>2, <1>3, <1>4, <1>5, <1>6, <1>7, <1>8, <1>9, <1>10, <1>11, <1>12, <1>13, <1>14
     DEF StreamNext

\* That signedIn is a Boolean, and that strayed stays true.
LEMMA StreamStepsStray ==
  ASSUME signedIn \in BOOLEAN, [StreamNext]_viewStreamVars
  PROVE  signedIn' \in BOOLEAN /\ (strayed => strayed')
<1>1. signedIn' \in BOOLEAN
  <2>1. signedIn' = signedIn \/ signedIn' = ~signedIn
    BY DEF StreamNext, onopen, onmessage, ErrorMessage, onerror, HandleError, RetryTimer,
           ReconnectTimer, FetchAnswered, ShowBot, reconnect, fetchCustomBot, UserChanges,
           UnmountView, viewStreamVars
  <2>2. QED
    BY <2>1
<1>2. (\E b \in Watched : ReconnectTimer(b)) \/ strayed' = strayed
  BY DEF StreamNext, onopen, onmessage, ErrorMessage, onerror, HandleError, RetryTimer,
         FetchAnswered, ShowBot, reconnect, fetchCustomBot, UserChanges, UnmountView,
         viewStreamVars
<1>3. (\E b \in Watched : ReconnectTimer(b)) => (strayed => strayed')
  BY DEF ReconnectTimer
<1>4. QED
  BY <1>1, <1>2, <1>3

LEMMA StreamStarts == StreamInit => ViewInv /\ signedIn \in BOOLEAN
<1> SUFFICES ASSUME StreamInit PROVE ViewInv
  BY DEF StreamInit
<1> DEFINE c == [live |-> [s \in Source |-> Nothing], open |-> {},
                 connections |-> [b \in Watched |-> 0],
                 reconnectAttempts |-> [b \in Watched |-> 0],
                 timers |-> [b \in Watched |-> 0],
                 reconnectTimeouts |-> [b \in Watched |-> FALSE]]
<1>1. Serves(c, Nothing)
  BY StreamConstants DEF Serves, ClientType
<1> HIDE DEF c
<1>2. botName \in Watched /\ client = connect(c, botName) /\ disconnectRef = botName
      /\ mounted /\ signedIn
  BY DEF StreamInit, c
<1>3. Serves(client, disconnectRef)
  BY <1>1, <1>2, Connected
<1>4. QED
  BY <1>2, <1>3 DEF ViewServed, ViewInv

\* What is served is one stream or one retry, of the bot on show.
LEMMA ServedIsOne == ViewInv => OneStreamPerView
<1> SUFFICES ASSUME ViewServed PROVE OneStreamPerView
  BY DEF ViewInv, OneStreamPerView
<1> DEFINE sources == {s \in Source : client.live[s] # Nothing}
           waiting == {b \in Watched : client.timers[b] > 0}
<1>1. /\ client \in ClientType /\ botName \in Watched /\ Nothing \notin Watched
      /\ disconnectRef \in {botName, Nothing}
  BY StreamConstants DEF ViewServed, Serves
<1>2. \A s \in sources : /\ client.live[s] = botName /\ client.connections[botName] = s
                         /\ disconnectRef = botName
  BY <1>1 DEF ViewServed, Serves
<1>3. \A b \in Watched : client.timers[b] <= 1
  BY <1>1 DEF ViewServed, Serves, ClientType
<1>4. \A b \in waiting : b = botName /\ disconnectRef = botName /\ sources = {}
  BY <1>1 DEF ViewServed, Serves, ClientType
<1>5. ~mounted \/ ~signedIn => sources \cup waiting = {}
  BY <1>1, <1>2, <1>4 DEF ViewServed
<1>6. Cardinality(sources) + Cardinality(waiting) <= 1
  <2>1. CASE sources = {} /\ waiting = {}
    BY <2>1, FS_EmptySet
  <2>2. CASE sources = {} /\ waiting # {}
    <3>1. waiting = {botName}
      BY <1>4, <2>2
    <3> HIDE DEF sources, waiting
    <3>2. QED
      BY <2>2, <3>1, FS_EmptySet, FS_Singleton
  <2>3. CASE sources # {}
    <3>1. waiting = {} /\ \E x : sources = {x}
      BY <1>2, <1>4, <2>3
    <3> HIDE DEF sources, waiting
    <3>2. Cardinality(waiting) = 0
      BY <3>1, FS_EmptySet
    <3>3. Cardinality(sources) = 1
      BY <3>1, FS_Singleton
    <3>4. QED
      BY <3>2, <3>3
  <2>4. QED
    BY <2>1, <2>2, <2>3
<1>7. QED
  BY <1>2, <1>3, <1>4, <1>5, <1>6 DEF OneStreamPerView

\* Errors, retries after a delay, changes of the hook's callbacks, of the bot and of the user, and
\* the unmount each close and open EventSources and set timers: at any time the hook has at most one
\* EventSource or one retry under way, for the bot on show, and none without a user or a view, unless
\* a timer of reconnect() has fired after the hook had moved on.
THEOREM ViewsKeepOneStream == StreamSpec => []OneStreamPerView
<1>1. StreamInit => ViewInv /\ signedIn \in BOOLEAN
  BY StreamStarts
<1>2. ViewInv /\ signedIn \in BOOLEAN /\ [StreamNext]_viewStreamVars =>
        (ViewInv /\ signedIn \in BOOLEAN)'
  <2> SUFFICES ASSUME ViewInv, signedIn \in BOOLEAN, [StreamNext]_viewStreamVars
               PROVE  ViewInv' /\ signedIn' \in BOOLEAN
    OBVIOUS
  <2>1. signedIn' \in BOOLEAN /\ (strayed => strayed')
    BY StreamStepsStray
  <2>2. CASE strayed'
    BY <2>1, <2>2 DEF ViewInv
  <2>3. CASE ~strayed'
    <3>1. ViewServed
      BY <2>1, <2>3 DEF ViewInv
    <3>2. QED
      BY <2>1, <2>3, <3>1, ViewStep
  <2>4. QED
    BY <2>2, <2>3
<1>3. QED
  BY <1>1, <1>2, ServedIsOne, PTL DEF StreamSpec

-----------------------------------------------------------------------------
(* The state functions of the SDKs.                                            *)

\* The states of a process's call.
Write == {NoWrite} \cup [op : {"clear"}, keys : SUBSET StateKey]
         \cup [op : {"set"}, keys : SUBSET StateKey, value : StateValue]

\* A key with one call at it.
Sole(k) == \A p, q \in Process : k \in writing[p].keys /\ k \in writing[q].keys => p = q

\* Such a key is torn while its file is being written, and otherwise as its last call left it.
Settled(k) ==
  /\ Sole(k)
  /\ \A p \in Process : writing[p].op = "set" /\ k \in writing[p].keys => stateFile[k] = Torn
  /\ (\A p \in Process : k \notin writing[p].keys) => stateFile[k] = lastWritten[k]

\* The inductive invariant.
SdkInv ==
  /\ stateFile \in [StateKey -> KeyFile]
  /\ lastWritten \in [StateKey -> StateValue \cup {Gone}]
  /\ muddledKeys \subseteq StateKey
  /\ writing \in [Process -> Write]
  /\ \A p \in Process : writing[p].op = "set" => \E k \in StateKey : writing[p].keys = {k}
  /\ queryMode => /\ writing = [p \in Process |-> NoWrite]
                  /\ stateFile = lastWritten /\ muddledKeys = {}
  /\ \A k \in StateKey \ muddledKeys : Settled(k)

LEMMA SdkStarts == SdkInit => SdkInv
<1> SUFFICES ASSUME SdkInit PROVE SdkInv
  OBVIOUS
<1>1. /\ writing \in [Process -> Write]
      /\ \A p \in Process : writing[p].op = "none" /\ writing[p].keys = {}
  BY DEF SdkInit, Write, NoWrite
<1>2. stateFile \in [StateKey -> KeyFile] /\ lastWritten \in [StateKey -> StateValue \cup {Gone}]
  BY DEF SdkInit, KeyFile
<1>3. QED
  BY <1>1, <1>2 DEF SdkInit, SdkInv, Settled, Sole

LEMMA Elsewheres ==
  ASSUME NEW p \in Process, NEW k
  PROVE  k \in Elsewhere(p) <=> \E o \in Process \ {p} : k \in writing[o].keys
  BY DEF Elsewhere

\* A step in which p goes on to w leaves key j alone ...
Untouched(p, w, j) ==
  j \notin muddledKeys' =>
    /\ j \notin muddledKeys
    /\ stateFile'[j] = stateFile[j] /\ lastWritten'[j] = lastWritten[j]
    /\ j \in w.keys => j \notin Elsewhere(p) /\ w.op # "set"
    /\ j \in writing[p].keys => j \in w.keys

\* ... or is the only one at it.
Redone(p, w, j) ==
  j \notin muddledKeys' =>
    /\ j \notin Elsewhere(p)
    /\ w.op = "set" /\ j \in w.keys => stateFile'[j] = Torn
    /\ j \notin w.keys => stateFile'[j] = lastWritten'[j]

\* Process p goes from one write to another, w, and changes no files but those of K.
LEMMA WriteKeeps ==
  ASSUME SdkInv, ~queryMode, queryMode' = queryMode, NEW p \in Process, NEW w \in Write,
         writing' = [writing EXCEPT ![p] = w], NEW K \in SUBSET StateKey,
         stateFile' \in [StateKey -> KeyFile],
         lastWritten' \in [StateKey -> StateValue \cup {Gone}],
         muddledKeys' \subseteq StateKey,
         w.op = "set" => \E j \in StateKey : w.keys = {j},
         \A j \in StateKey \ K : Untouched(p, w, j),
         \A j \in K : Redone(p, w, j)
  PROVE  SdkInv'
<1>1. /\ writing' \in [Process -> Write] /\ writing'[p] = w
      /\ \A q \in Process \ {p} : writing'[q] = writing[q]
  BY DEF SdkInv
<1>2. \A q \in Process : writing'[q].op = "set" => \E j \in StateKey : writing'[q].keys = {j}
  BY <1>1 DEF SdkInv
<1>3. ASSUME NEW j \in K, j \notin muddledKeys' PROVE Settled(j)'
  BY <1>1, <1>3, Elsewheres DEF Redone, Settled, Sole
<1>4. ASSUME NEW j \in StateKey \ K, j \notin muddledKeys' PROVE Settled(j)'
  <2>1. Settled(j)
    BY <1>4 DEF SdkInv, Untouched
  <2>2. Sole(j)'
    BY <1>1, <1>4, <2>1, Elsewheres DEF Untouched, Settled, Sole
  <2>3. \A q \in Process : writing'[q].op = "set" /\ j \in writing'[q].keys => stateFile'[j] = Torn
    BY <1>1, <1>4, <2>1 DEF Untouched, Settled
  <2>4. (\A q \in Process : j \notin writing'[q].keys) => stateFile'[j] = lastWritten'[j]
    BY <1>1, <1>4, <2>1 DEF Untouched, Settled
  <2>5. QED
    BY <2>2, <2>3, <2>4 DEF Settled
<1>5. QED
  BY <1>1, <1>2, <1>3, <1>4 DEF SdkInv

\* A call is over, or only files of keys that nobody else is at are changed.
LEMMA SetKeyKeeps ==
  ASSUME SdkInv, NEW p \in Process, NEW k \in StateKey, NEW v \in StateValue, setKey(p, k, v)
  PROVE  SdkInv'
<1> DEFINE w == [op |-> "set", keys |-> {k}, value |-> v]
<1>1. /\ w \in Write /\ w.op = "set" /\ w.keys = {k} /\ writing' = [writing EXCEPT ![p] = w]
  BY DEF Write, setKey
<1> HIDE DEF w
<1>2. /\ ~queryMode /\ queryMode' = queryMode /\ lastWritten' = lastWritten
      /\ writing[p].keys = {} /\ stateFile' = [stateFile EXCEPT ![k] = Torn]
      /\ muddledKeys' = IF k \in Elsewhere(p) THEN muddledKeys \cup {k} ELSE muddledKeys
  BY DEF setKey, checkWriteAllowed, NoWrite
<1>3. /\ stateFile' \in [StateKey -> KeyFile] /\ stateFile'[k] = Torn
      /\ \A j \in StateKey \ {k} : stateFile'[j] = stateFile[j]
      /\ lastWritten' \in [StateKey -> StateValue \cup {Gone}] /\ muddledKeys' \subseteq StateKey
  BY <1>2 DEF SdkInv, KeyFile
<1>4. SdkInv /\ {k} \in SUBSET StateKey /\ \E j \in StateKey : w.keys = {j}
  BY <1>1
<1>5. \A j \in StateKey \ {k} : Untouched(p, w, j)
  BY <1>1, <1>2, <1>3 DEF Untouched
<1>6. \A j \in {k} : Redone(p, w, j)
  BY <1>1, <1>2, <1>3 DEF Redone
<1>7. QED
  BY <1>1, <1>2, <1>3, <1>4, <1>5, <1>6, WriteKeeps

LEMMA SetEndsKeeps == ASSUME SdkInv, NEW p \in Process, SetEnds(p) PROVE SdkInv'
<1>1. PICK k \in writing[p].keys, v \in KeyFile :
        /\ stateFile' = [stateFile EXCEPT ![k] = v]
        /\ lastWritten' = [lastWritten EXCEPT ![k] = writing[p].value]
        /\ muddledKeys' = IF k \in Elsewhere(p) \/ v # writing[p].value \/ stateFile[k] # Torn
                          THEN muddledKeys \cup {k} ELSE muddledKeys \ {k}
  BY DEF SetEnds
<1>2. /\ writing[p].op = "set" /\ writing' = [writing EXCEPT ![p] = NoWrite]
      /\ queryMode' = queryMode /\ writing[p] \in Write
  BY DEF SetEnds, SdkInv
<1>3. k \in StateKey /\ writing[p].keys = {k} /\ writing[p].value \in StateValue
  BY <1>2 DEF SdkInv, Write, NoWrite
<1>4. ~queryMode
  BY <1>2 DEF SdkInv, NoWrite
<1>5. /\ stateFile' \in [StateKey -> KeyFile] /\ stateFile'[k] = v
      /\ \A j \in StateKey \ {k} : stateFile'[j] = stateFile[j]
      /\ lastWritten' \in [StateKey -> StateValue \cup {Gone}]
      /\ lastWritten'[k] = writing[p].value
      /\ \A j \in StateKey \ {k} : lastWritten'[j] = lastWritten[j]
      /\ muddledKeys' \subseteq StateKey
  BY <1>1, <1>3 DEF SdkInv
<1>6. NoWrite \in Write /\ NoWrite.op # "set" /\ NoWrite.keys = {} /\ {k} \in SUBSET StateKey
  BY <1>3 DEF NoWrite, Write
<1>7. \A j \in StateKey \ {k} : Untouched(p, NoWrite, j)
  BY <1>1, <1>3, <1>5, <1>6 DEF Untouched
<1>8. \A j \in {k} : Redone(p, NoWrite, j)
  BY <1>1, <1>3, <1>5, <1>6 DEF Redone
<1>9. NoWrite.op = "set" => \E j \in StateKey : NoWrite.keys = {j}
  BY <1>6
<1>10. QED
  BY <1>2, <1>4, <1>5, <1>6, <1>7, <1>8, <1>9, WriteKeeps

LEMMA RemoveKeyKeeps ==
  ASSUME SdkInv, NEW p \in Process, NEW k \in StateKey, removeKey(p, k)
  PROVE  SdkInv'
<1>1. /\ ~queryMode /\ queryMode' = queryMode /\ writing[p] = NoWrite
      /\ stateFile' = [stateFile EXCEPT ![k] = Gone]
      /\ lastWritten' = [lastWritten EXCEPT ![k] = Gone]
      /\ muddledKeys' = IF k \in Elsewhere(p) THEN muddledKeys \cup {k} ELSE muddledKeys \ {k}
  BY DEF removeKey, checkWriteAllowed, Left
<1>2. writing' = [writing EXCEPT ![p] = NoWrite]
  BY <1>1 DEF removeKey, SdkInv
<1>3. /\ stateFile' \in [StateKey -> KeyFile] /\ stateFile'[k] = Gone
      /\ \A j \in StateKey \ {k} : stateFile'[j] = stateFile[j]
      /\ lastWritten' \in [StateKey -> StateValue \cup {Gone}] /\ lastWritten'[k] = Gone
      /\ \A j \in StateKey \ {k} : lastWritten'[j] = lastWritten[j]
      /\ muddledKeys' \subseteq StateKey
  BY <1>1 DEF SdkInv, KeyFile
<1>4. NoWrite \in Write /\ NoWrite.op # "set" /\ NoWrite.keys = {} /\ {k} \in SUBSET StateKey
  BY DEF NoWrite, Write
<1>5. \A j \in StateKey \ {k} : Untouched(p, NoWrite, j)
  BY <1>1, <1>3, <1>4 DEF Untouched
<1>6. \A j \in {k} : Redone(p, NoWrite, j)
  BY <1>1, <1>3, <1>4 DEF Redone
<1>7. NoWrite.op = "set" => \E j \in StateKey : NoWrite.keys = {j}
  BY <1>4
<1>8. ~queryMode /\ queryMode' = queryMode
  BY <1>1
<1>9. QED
  BY <1>2, <1>3, <1>4, <1>5, <1>6, <1>7, <1>8, WriteKeeps

LEMMA ClearOneKeeps ==
  ASSUME SdkInv, NEW p \in Process, NEW k \in StateKey, ClearOne(p, k)
  PROVE  SdkInv'
<1> DEFINE w == [writing[p] EXCEPT !.keys = @ \ {k}]
<1>1. /\ writing[p] \in Write /\ writing[p].op = "clear" /\ k \in writing[p].keys
      /\ queryMode' = queryMode /\ stateFile' = [stateFile EXCEPT ![k] = Gone]
      /\ lastWritten' = [lastWritten EXCEPT ![k] = Gone]
      /\ muddledKeys' = IF k \in Elsewhere(p) THEN muddledKeys \cup {k} ELSE muddledKeys \ {k}
  BY DEF ClearOne, Left, SdkInv
<1>2. writing[p] \in [op : {"clear"}, keys : SUBSET StateKey]
  BY <1>1 DEF Write, NoWrite
<1>3. w \in Write /\ w.op = "clear" /\ w.keys = writing[p].keys \ {k}
  BY <1>2 DEF Write
<1>4. writing' = [writing EXCEPT ![p] = w]
  BY DEF ClearOne
<1> HIDE DEF w
<1>5. ~queryMode
  BY <1>1 DEF SdkInv, NoWrite
<1>6. /\ stateFile' \in [StateKey -> KeyFile] /\ stateFile'[k] = Gone
      /\ \A j \in StateKey \ {k} : stateFile'[j] = stateFile[j]
      /\ lastWritten' \in [StateKey -> StateValue \cup {Gone}] /\ lastWritten'[k] = Gone
      /\ \A j \in StateKey \ {k} : lastWritten'[j] = lastWritten[j]
      /\ muddledKeys' \subseteq StateKey /\ {k} \in SUBSET StateKey
  BY <1>1 DEF SdkInv, KeyFile
<1>7. ASSUME NEW j \in StateKey \ {k}, j \notin muddledKeys', j \in w.keys
        PROVE j \notin Elsewhere(p)
  <2>1. j \in writing[p].keys /\ j \notin muddledKeys
    BY <1>1, <1>3, <1>7
  <2>2. Sole(j)
    BY <2>1 DEF SdkInv, Settled
  <2>3. QED
    BY <2>1, <2>2, Elsewheres DEF Sole
<1>8. \A j \in StateKey \ {k} : Untouched(p, w, j)
  BY <1>1, <1>3, <1>6, <1>7 DEF Untouched
<1>9. \A j \in {k} : Redone(p, w, j)
  BY <1>1, <1>3, <1>6 DEF Redone
<1>10. w.op = "set" => \E j \in StateKey : w.keys = {j}
  BY <1>3
<1>11. queryMode' = queryMode
  BY <1>1
<1>12. QED
  BY <1>3, <1>4, <1>5, <1>6, <1>8, <1>9, <1>10, <1>11, WriteKeeps

LEMMA ClearKeeps ==
  ASSUME SdkInv, NEW p \in Process, clearKeys(p) \/ ClearEnds(p)
  PROVE  SdkInv'
<1>1. /\ UNCHANGED <<queryMode, stateFile, lastWritten>> /\ {} \in SUBSET StateKey
      /\ stateFile' \in [StateKey -> KeyFile]
      /\ lastWritten' \in [StateKey -> StateValue \cup {Gone}]
      /\ writing[p] \in Write
  BY DEF SdkInv, clearKeys, ClearEnds
<1>2. CASE clearKeys(p)
  <2> DEFINE w == [op |-> "clear", keys |-> listKeys]
  <2>1. /\ w \in Write /\ w.op = "clear" /\ w.keys = listKeys
        /\ writing' = [writing EXCEPT ![p] = w]
    BY <1>2 DEF clearKeys, Write, listKeys
  <2> HIDE DEF w
  <2>2. /\ ~queryMode /\ writing[p].keys = {}
        /\ muddledKeys' = muddledKeys \cup (listKeys \cap Elsewhere(p))
    BY <1>2 DEF clearKeys, checkWriteAllowed, NoWrite
  <2>3. muddledKeys' \subseteq StateKey
    BY <2>2 DEF SdkInv, listKeys
  <2>4. QED
    BY <1>1, <2>1, <2>2, <2>3, WriteKeeps DEF Untouched
<1>3. CASE ClearEnds(p)
  <2>1. /\ NoWrite \in Write /\ NoWrite.op = "none" /\ NoWrite.keys = {}
        /\ writing' = [writing EXCEPT ![p] = NoWrite] /\ writing[p].op = "clear"
        /\ muddledKeys' = muddledKeys \cup writing[p].keys
    BY <1>3 DEF ClearEnds, NoWrite, Write
  <2>2. ~queryMode
    BY <2>1 DEF SdkInv
  <2>3. muddledKeys' \subseteq StateKey
    BY <1>1, <2>1 DEF SdkInv, Write, NoWrite
  <2>4. QED
    BY <1>1, <2>1, <2>2, <2>3, WriteKeeps DEF Untouched
<1>4. QED
  BY <1>2, <1>3

LEMMA KilledKeeps == ASSUME SdkInv, Killed PROVE SdkInv'
<1>1. /\ UNCHANGED <<queryMode, stateFile, lastWritten>>
      /\ writing' = [p \in Process |-> NoWrite]
      /\ muddledKeys' = muddledKeys \cup UNION {writing[p].keys : p \in Process}
  BY DEF Killed
<1>2. /\ writing' \in [Process -> Write]
      /\ \A p \in Process : writing'[p].op = "none" /\ writing'[p].keys = {}
  BY <1>1 DEF Write, NoWrite
<1>3. \A p \in Process : writing[p].keys \subseteq StateKey
  BY DEF SdkInv, Write, NoWrite
<1>4. muddledKeys' \subseteq StateKey
  BY <1>1, <1>3 DEF SdkInv
<1>5. \A k \in StateKey \ muddledKeys' : k \notin muddledKeys
        /\ \A p \in Process : k \notin writing[p].keys
  BY <1>1
<1>6. \A k \in StateKey \ muddledKeys' : Settled(k)'
  BY <1>1, <1>2, <1>5 DEF SdkInv, Settled, Sole
<1>7. queryMode => muddledKeys' = {}
  BY <1>1 DEF SdkInv, NoWrite
<1>8. QED
  BY <1>1, <1>2, <1>4, <1>6, <1>7 DEF SdkInv

LEMMA SdkStep == SdkInv /\ [SdkNext]_sdkVars => SdkInv'
<1> SUFFICES ASSUME SdkInv, [SdkNext]_sdkVars PROVE SdkInv'
  OBVIOUS
<1>1. CASE UNCHANGED sdkVars
  BY <1>1 DEF SdkInv, Settled, Sole, sdkVars
<1>2. QED
  BY <1>1, SetKeyKeeps, SetEndsKeeps, RemoveKeyKeeps, ClearOneKeeps, ClearKeeps, KilledKeeps
     DEF SdkNext

LEMMA SdkInvariant == SdkSpec => []SdkInv
  BY SdkStarts, SdkStep, PTL DEF SdkSpec

\* Every reachable state of SdkState is well typed.
THEOREM SdkTypeCorrect == SdkSpec => []SdkTypeOK
<1>1. SdkInit => queryMode \in BOOLEAN
  BY DEF SdkInit
<1>2. queryMode \in BOOLEAN /\ [SdkNext]_sdkVars => (queryMode \in BOOLEAN)'
  BY DEF SdkNext, sdkVars, setKey, SetEnds, removeKey, clearKeys, ClearOne, ClearEnds, Killed
<1>3. SdkInv /\ queryMode \in BOOLEAN => SdkTypeOK
  BY DEF SdkInv, SdkTypeOK, Write
<1>4. QED
  BY <1>1, <1>2, <1>3, SdkInvariant, PTL DEF SdkSpec

\* The processes of a bot set, clear and read keys in several steps each, and may be killed at any
\* of them: a key that no call is at reads as the last call left it and is listed just when that set
\* it, but where two processes met or a write was cut short; and a query's own copy never changes.
THEOREM CallsLeaveTheirState == SdkSpec => []StateIsAsLeft
<1>1. SdkInv => StateIsAsLeft
  BY DEF SdkInv, Settled, StateIsAsLeft, getKey, existsKey
<1>2. QED
  BY <1>1, SdkInvariant, PTL

-----------------------------------------------------------------------------
(* The table of the users page.                                               *)

\* A set of rows in any order: each of them in one place.
LEMMA RowsInOrder ==
  ASSUME NEW S, IsFiniteSet(S)
  PROVE  /\ SetToSeq(S) \in [1..Cardinality(S) -> S] /\ IsInjective(SetToSeq(S))
         /\ \A r \in S : \E k \in 1..Cardinality(S) : SetToSeq(S)[k] = r
<1>1. ExistsBijection(1..Cardinality(S), S) /\ Cardinality(S) \in Nat
  BY FS_CardinalityType
<1>2. PICK g \in [1..Cardinality(S) -> S] : IsInjective(g)
  BY <1>1 DEF ExistsBijection, Bijection, Injection
<1>3. SetToSeq(S) \in [1..Cardinality(S) -> S] /\ IsInjective(SetToSeq(S))
  BY <1>2 DEF SetToSeq
<1>4. PICK f : f = SetToSeq(S)
  OBVIOUS
<1>5. f \in Injection(1..Cardinality(S), S)
  BY <1>3, <1>4 DEF Injection
<1>6. IsFiniteSet(1..Cardinality(S)) /\ Cardinality(1..Cardinality(S)) = Cardinality(S)
  BY <1>1, FS_Interval
<1>7. f \in Surjection(1..Cardinality(S), S)
  BY <1>5, <1>6, FS_Injection
<1>8. QED
  BY <1>3, <1>4, <1>7 DEF Surjection

\* The rows of one user among S.
RowsOf(S, u) == {r \in S : r.id = u}

\* A user has at most one row.
OneEach(S) == \A r, q \in S : r.id = q.id => r = q

Places(table, u) == {k \in DOMAIN table : table[k].id = u}

\* A table shows of u what S has, in one place.
Mirrors(table, S, u) ==
  /\ RowsOf(ToSet(table), u) = RowsOf(S, u)
  /\ \A k, l \in Places(table, u) : k = l

Table == Seq(Row)

\* The table of a list has each of its rows once.
LEMMA ListedTable ==
  ASSUME NEW S, S \subseteq Row, IsFiniteSet(S), OneEach(S)
  PROVE  /\ SetToSeq(S) \in Table
         /\ \A k \in DOMAIN SetToSeq(S) : SetToSeq(S)[k] \in S
         /\ \A u : Mirrors(SetToSeq(S), S, u)
<1>1. PICK t : t = SetToSeq(S)
  OBVIOUS
<1>2. Cardinality(S) \in Nat
  BY FS_CardinalityType
<1>3. /\ t \in [1..Cardinality(S) -> S] /\ IsInjective(t)
      /\ \A r \in S : \E k \in 1..Cardinality(S) : t[k] = r
  BY <1>1, RowsInOrder
<1>4. t \in Table
  BY <1>2, <1>3 DEF Table
<1>5. ToSet(t) = S
  BY <1>3 DEF ToSet
<1>6. ASSUME NEW u PROVE Mirrors(t, S, u)
  BY <1>3, <1>5 DEF Mirrors, Places, IsInjective, OneEach
<1>7. QED
  BY <1>1, <1>3, <1>4, <1>6

\* A row set in place of those of its user.
LEMMA UpdatedTable ==
  ASSUME NEW table \in Table, NEW r \in Row, NEW t,
         t = [k \in DOMAIN table |-> IF table[k].id = r.id THEN r ELSE table[k]]
  PROVE  /\ t \in Table /\ DOMAIN t = DOMAIN table
         /\ \A k \in DOMAIN t : t[k].id = table[k].id
         /\ \A u : Places(t, u) = Places(table, u)
         /\ \A u, S : u # r.id => (Mirrors(t, S, u) <=> Mirrors(table, S, u))
         /\ \A S : /\ RowsOf(S, r.id) = {r}
                   /\ \E k \in Places(table, r.id) : TRUE
                   /\ \A k, l \in Places(table, r.id) : k = l
                   => Mirrors(t, S, r.id)
<1>1. DOMAIN t = DOMAIN table
  OBVIOUS
<1>2. t \in Table
  BY DEF Table
<1>3. \A k \in DOMAIN t : t[k].id = table[k].id
  OBVIOUS
<1>4. \A u : Places(t, u) = Places(table, u)
  BY <1>1, <1>3 DEF Places
<1>5. ASSUME NEW u, u # r.id PROVE RowsOf(ToSet(t), u) = RowsOf(ToSet(table), u)
  BY <1>1, <1>5 DEF RowsOf, ToSet
<1>6. ASSUME NEW k \in Places(table, r.id) PROVE RowsOf(ToSet(t), r.id) = {r}
  <2>1. t[k] = r /\ k \in DOMAIN t
    BY <1>1 DEF Places
  <2>2. \A l \in DOMAIN t : t[l].id = r.id => t[l] = r
    BY <1>1, <1>3
  <2>3. QED
    BY <2>1, <2>2 DEF RowsOf, ToSet
<1>7. QED
  BY <1>1, <1>2, <1>3, <1>4, <1>5, <1>6 DEF Mirrors

\* The table t is `table' with the row r besides.
WithRow(t, table, r) ==
  /\ t \in Table
  /\ \A k \in DOMAIN t : t[k] = r \/ \E l \in DOMAIN table : t[k] = table[l]
  /\ \A u : u # r.id => Places(t, u) = Places(table, u)
  /\ \A u, S : u # r.id => (Mirrors(t, S, u) <=> Mirrors(table, S, u))
  /\ \A S : RowsOf(S, r.id) = {r} /\ Places(table, r.id) = {} => Mirrors(t, S, r.id)

\* A row appended to the table.
LEMMA AppendedTable ==
  ASSUME NEW table \in Table, NEW r \in Row, NEW t, t = table \o SetToSeq({r})
  PROVE  WithRow(t, table, r)
<1>1. PICK s : s = SetToSeq({r})
  OBVIOUS
<1>2. IsFiniteSet({r}) /\ Cardinality({r}) = 1
  BY FS_Singleton
<1>3. s \in [1..1 -> {r}]
  BY <1>1, <1>2, RowsInOrder
<1>4. s \in Seq(Row) /\ Len(s) = 1 /\ s[1] = r
  <2>1. s \in [1..1 -> Row]
    BY <1>3
  <2>2. \A n \in Nat : s \in [1..n -> Row] => s \in Seq(Row)
    OBVIOUS
  <2>. s \in Seq(Row)
    BY <2>1, <2>2
  <2>3. Len(s) = 1
    BY <2>1, <2>2
  <2>4. s[1] = r
    BY <1>3
  <2>5. QED
    BY <2>1, <2>2, <2>3, <2>4
<1>5. /\ t \in Seq(Row) /\ Len(t) = Len(table) + 1
      /\ \A k \in 1..Len(table) : t[k] = table[k]
      /\ t[Len(table) + 1] = r
  <2>1. table \in Seq(Row) /\ t = table \o s /\ Len(table) \in Nat
    BY <1>1 DEF Table
  <2>2. /\ t \in Seq(Row) /\ Len(t) = Len(table) + Len(s)
        /\ \A k \in 1..(Len(table) + Len(s)) :
              t[k] = IF k <= Len(table) THEN table[k] ELSE s[k - Len(table)]
    <3>1. /\ table \o s \in Seq(Row) /\ Len(table \o s) = Len(table) + Len(s)
          /\ \A k \in 1..(Len(table) + Len(s)) :
               (table \o s)[k] = IF k <= Len(table) THEN table[k] ELSE s[k - Len(table)]
      BY <1>4, <2>1, ConcatProperties, Zenon
    <3>2. QED
      BY <2>1, <3>1, Zenon
  <2>3. \A k \in 1..Len(table) : t[k] = table[k]
    BY <1>4, <2>1, <2>2
  <2>4. t[Len(table) + 1] = r
    <3>1. Len(table) + 1 \in 1..(Len(table) + Len(s)) /\ ~(Len(table) + 1 <= Len(table))
      BY <1>4, <2>1
    <3>2. t[Len(table) + 1] = s[(Len(table) + 1) - Len(table)]
      BY <2>2, <3>1
    <3>3. (Len(table) + 1) - Len(table) = 1
      BY <2>1
    <3>4. QED
      BY <1>4, <3>2, <3>3, Zenon
  <2>5. QED
    BY <1>4, <2>2, <2>3, <2>4
<1>6. /\ DOMAIN t = 1..(Len(table) + 1) /\ DOMAIN table = 1..Len(table)
      /\ Len(table) \in Nat
  BY <1>5 DEF Table
<1>7. DOMAIN t = DOMAIN table \cup {Len(table) + 1}
  BY <1>6
<1>8. ToSet(t) = ToSet(table) \cup {r}
  <2>1. ToSet(t) = {t[k] : k \in DOMAIN t} /\ ToSet(table) = {table[k] : k \in DOMAIN table}
    BY DEF ToSet
  <2>2. ToSet(t) \subseteq ToSet(table) \cup {r}
    BY <1>5, <1>6, <1>7, <2>1
  <2>3. r \in ToSet(t)
    BY <1>5, <1>7, <2>1
  <2>4. ToSet(table) \subseteq ToSet(t)
    BY <1>5, <1>6, <1>7, <2>1
  <2>5. QED
    BY <2>2, <2>3, <2>4
<1>9. ASSUME NEW u, u # r.id
      PROVE  RowsOf(ToSet(t), u) = RowsOf(ToSet(table), u) /\ Places(t, u) = Places(table, u)
  BY <1>5, <1>6, <1>7, <1>8, <1>9 DEF RowsOf, Places
<1>10. ASSUME Places(table, r.id) = {}
       PROVE  RowsOf(ToSet(t), r.id) = {r} /\ Places(t, r.id) = {Len(table) + 1}
  <2>1. \A k \in DOMAIN table : table[k].id # r.id
    BY <1>10 DEF Places
  <2>2. \A q \in ToSet(table) : q.id # r.id
    BY <2>1 DEF ToSet
  <2>3. RowsOf(ToSet(t), r.id) = {r}
    BY <1>8, <2>2 DEF RowsOf
  <2>4. Places(t, r.id) = {Len(table) + 1}
    BY <1>5, <1>6, <1>7, <2>1 DEF Places
  <2>5. QED
    BY <2>3, <2>4
<1>11. QED
  BY <1>5, <1>6, <1>7, <1>8, <1>9, <1>10 DEF Mirrors, Table, WithRow

-----------------------------------------------------------------------------

HasAccount(u) == \E r \in accounts : r.id = u

\* A request as it was sent, and what has been answered to it.
Proper(j) ==
  /\ j \in Job /\ j.entangled \subseteq About(j)
  /\ j.op = "list" => j.id = 0 /\ j.pc # "refused"
  /\ j.op # "list" => j.id \in User
  /\ j.op = "update" => j.input \in Change
  /\ j.op \in {"update", "reset"} => HasAccount(j.id)

\* A list that was read shows the users nothing else was asked about as they are.
ListedTruly(j) ==
  j.op = "list" /\ j.pc = "done" =>
    /\ j.rows \subseteq Row /\ IsFiniteSet(j.rows) /\ OneEach(j.rows)
    /\ \A r \in j.rows : HasAccount(r.id)
    /\ \A u \in User \ j.entangled : RowsOf(j.rows, u) = RowsOf(accounts, u)

\* The row a change was answered with.
AnsweredWith(j) ==
  j.op \in {"update", "create"} /\ j.pc = "done" =>
    HasAccount(j.id) /\ \E r \in Row : j.rows = {r} /\ r.id = j.id

JobsProper ==
  /\ jobs \in [1..MaxJob -> Job \cup {NoJob}]
  /\ \A i \in 1..MaxJob : jobs[i] # NoJob =>
       Proper(jobs[i]) /\ ListedTruly(jobs[i]) /\ AnsweredWith(jobs[i])

\* Two requests about a user are entangled there, both of them.
Apart ==
  \A i, k \in 1..MaxJob : i # k /\ jobs[i] # NoJob /\ jobs[k] # NoJob =>
    About(jobs[i]) \cap About(jobs[k]) \subseteq jobs[i].entangled

AccountsProper ==
  /\ accounts \subseteq Row /\ IsFiniteSet(accounts) /\ OneEach(accounts) /\ HasAccount(Me)
  /\ managed \in Table /\ \A k \in DOMAIN managed : HasAccount(managed[k].id)
  /\ {usersFetching, formOpen, isSubmitting} \subseteq BOOLEAN /\ tangled \subseteq User

\* A creation under way disables the form.
FormFollows == isSubmitting => \E i \in 1..MaxJob : jobs[i].op = "create"

Entangled(u) == \E i \in 1..MaxJob : jobs[i] # NoJob /\ u \in jobs[i].entangled

\* A change of u that the API has made and the page has yet to hear of.
Made(j, u) == j # NoJob /\ j.op \in {"update", "create"} /\ j.id = u /\ j.pc = "done"

Unheard(i, u) ==
  /\ Made(jobs[i], u) /\ jobs[i].rows = RowsOf(accounts, u)
  /\ jobs[i].op = "update" => /\ \E k \in Places(managed, u) : TRUE
                              /\ \A k, l \in Places(managed, u) : k = l
  /\ jobs[i].op = "create" => Places(managed, u) = {}

\* Of u the table shows what the API has, or one answer is missing that makes it so.
Followed(u) ==
  \/ Mirrors(managed, accounts, u) /\ \A i \in 1..MaxJob : ~Made(jobs[i], u)
  \/ \E i \in 1..MaxJob : Unheard(i, u)

Tracked == \A u \in User : u \in tangled \/ Entangled(u) \/ Followed(u)

UsersPageInv == AccountsProper /\ JobsProper /\ Apart /\ FormFollows /\ Tracked

LEMMA MirrorsShows == \A u : Mirrors(managed, accounts, u) => ShowsUser(u)
  BY DEF Mirrors, ShowsUser, RowsOf, Places

-----------------------------------------------------------------------------
(* Sending. *)

Overlap(j, k) == About(j) \cap About(k)

\* What AddJob makes of the requests js when j is sent: it is in a free place f.
IsAdded(js, n, j, f) ==
  /\ f \in 1..MaxJob /\ js[f] = NoJob
  /\ n \in [1..MaxJob -> Job \cup {NoJob}] /\ n[f] # NoJob
  /\ n[f].op = j.op /\ n[f].id = j.id /\ n[f].input = j.input /\ n[f].pc = "asked"
  /\ n[f].entangled \subseteq About(j)
  /\ \A k \in 1..MaxJob : js[k] # NoJob => Overlap(js[k], j) \subseteq n[f].entangled
  /\ \A u \in n[f].entangled : \E k \in 1..MaxJob : js[k] # NoJob /\ u \in Overlap(js[k], j)
  /\ \A i \in 1..MaxJob \ {f} :
       /\ js[i] = NoJob <=> n[i] = NoJob
       /\ js[i] # NoJob =>
            /\ n[i].op = js[i].op /\ n[i].id = js[i].id /\ n[i].input = js[i].input
            /\ n[i].pc = js[i].pc /\ n[i].rows = js[i].rows
            /\ n[i].entangled = js[i].entangled \cup Overlap(js[i], j)

LEMMA NoJobIsNone == NoJob \notin Job /\ NoJob.op = "none" /\ About(NoJob) = {}
  BY DEF NoJob, Job, About, User

LEMMA Adds ==
  ASSUME NEW js \in [1..MaxJob -> Job \cup {NoJob}], \E i \in 1..MaxJob : js[i] = NoJob,
         NEW op \in {"list", "update", "reset", "create"}, NEW id \in 0..MaxUser,
         NEW input \in Change \cup {<<>>}
  PROVE  \E f : IsAdded(js, AddJob(js, Sent(op, id, input)), Sent(op, id, input), f)
<1>1. PICK f : f = CHOOSE i \in 1..MaxJob : js[i] = NoJob
  OBVIOUS
<1>2. f \in 1..MaxJob /\ js[f] = NoJob
  BY <1>1
<1>3. PICK j : j = Sent(op, id, input)
  OBVIOUS
<1>4. /\ j.op = op /\ j.id = id /\ j.input = input /\ j.pc = "asked" /\ j.rows = {}
      /\ j.entangled = {}
      /\ j = [op |-> op, id |-> id, input |-> input, pc |-> "asked", rows |-> {},
              entangled |-> {}]
  BY <1>3 DEF Sent
<1>5. PICK met : met = UNION {Overlap(js[k], j) : k \in 1..MaxJob}
  OBVIOUS
<1>6. met \subseteq About(j) /\ About(j) \subseteq User
  BY <1>5 DEF Overlap, About
<1>7. PICK sent : sent = [j EXCEPT !.entangled = met]
  OBVIOUS
<1>8. /\ sent \in Job
      /\ sent.op = op /\ sent.id = id /\ sent.input = input /\ sent.pc = "asked"
      /\ sent.entangled = met
  BY <1>4, <1>6, <1>7 DEF Job
<1>9. PICK n : n = AddJob(js, j)
  OBVIOUS
<1>10. n = [i \in 1..MaxJob |->
             IF i = f THEN sent
             ELSE IF js[i] = NoJob THEN NoJob
             ELSE [js[i] EXCEPT !.entangled = @ \cup Overlap(js[i], j)]]
  BY <1>1, <1>5, <1>7, <1>9 DEF AddJob, Overlap
<1>11. ASSUME NEW q \in Job, NEW r, r = [q EXCEPT !.entangled = @ \cup Overlap(q, j)]
       PROVE  /\ r \in Job
              /\ r.op = q.op /\ r.id = q.id /\ r.input = q.input /\ r.pc = q.pc /\ r.rows = q.rows
              /\ r.entangled = q.entangled \cup Overlap(q, j)
  <2>1. Overlap(q, j) \subseteq User
    BY DEF Overlap, About
  <2>2. QED
    BY <1>11, <2>1 DEF Job
<1>12. ASSUME NEW i \in 1..MaxJob, i # f
       PROVE  /\ n[i] \in Job \cup {NoJob} /\ (js[i] = NoJob <=> n[i] = NoJob)
              /\ js[i] # NoJob =>
                   /\ n[i].op = js[i].op /\ n[i].id = js[i].id /\ n[i].input = js[i].input
                   /\ n[i].pc = js[i].pc /\ n[i].rows = js[i].rows
                   /\ n[i].entangled = js[i].entangled \cup Overlap(js[i], j)
  <2>1. CASE js[i] = NoJob
    BY <1>10, <1>12, <2>1
  <2>2. CASE js[i] # NoJob
    <3>1. js[i] \in Job
      BY <2>2
    <3>2. n[i] = [js[i] EXCEPT !.entangled = @ \cup Overlap(js[i], j)]
      BY <1>10, <1>12, <2>2
    <3>3. QED
      BY <1>11, <2>2, <3>1, <3>2, NoJobIsNone
  <2>3. QED
    BY <2>1, <2>2
<1>13. n[f] = sent /\ n[f] # NoJob /\ n[f] \in Job
  BY <1>2, <1>8, <1>10, NoJobIsNone
<1>14. n \in [1..MaxJob -> Job \cup {NoJob}]
  <2>1. DOMAIN n = 1..MaxJob /\ n = [i \in 1..MaxJob |-> n[i]]
    BY <1>10
  <2>2. QED
    BY <1>12, <1>13, <2>1
<1>15. \A k \in 1..MaxJob : Overlap(js[k], j) \subseteq met
  BY <1>5
<1>16. \A u \in met : \E k \in 1..MaxJob : js[k] # NoJob /\ u \in Overlap(js[k], j)
  BY <1>5, NoJobIsNone DEF Overlap
<1>17. IsAdded(js, n, j, f)
  BY <1>2, <1>4, <1>6, <1>8, <1>12, <1>13, <1>14, <1>15, <1>16 DEF IsAdded
<1>18. QED
  BY <1>3, <1>9, <1>17

\* Who is asked about, depends on the operation and the id.
LEMMA SameAbout ==
  ASSUME NEW a, NEW b, a.op = b.op, a.id = b.id
  PROVE  About(a) = About(b)
  BY DEF About

\* Sending j keeps every part of the invariant that speaks of requests.
LEMMA SendKeeps ==
  ASSUME UsersPageInv, NEW j, NEW f, IsAdded(jobs, jobs', j, f),
         jobs'[f] \in Job => Proper(jobs[f])',
         UNCHANGED <<accounts, managed, tangled>>
  PROVE  JobsProper' /\ Apart' /\ Tracked'
<1>1. /\ f \in 1..MaxJob /\ jobs[f] = NoJob /\ jobs'[f] # NoJob
      /\ jobs' \in [1..MaxJob -> Job \cup {NoJob}]
      /\ jobs'[f].op = j.op /\ jobs'[f].id = j.id /\ jobs'[f].pc = "asked"
      /\ jobs'[f].entangled \subseteq About(j)
      /\ \A k \in 1..MaxJob : jobs[k] # NoJob => Overlap(jobs[k], j) \subseteq jobs'[f].entangled
      /\ \A u \in jobs'[f].entangled :
           \E k \in 1..MaxJob : jobs[k] # NoJob /\ u \in Overlap(jobs[k], j)
  BY DEF IsAdded
<1>2. \A i \in 1..MaxJob \ {f} :
        /\ jobs[i] = NoJob <=> jobs'[i] = NoJob
        /\ jobs[i] # NoJob =>
             /\ jobs'[i].op = jobs[i].op /\ jobs'[i].id = jobs[i].id
             /\ jobs'[i].input = jobs[i].input
             /\ jobs'[i].pc = jobs[i].pc /\ jobs'[i].rows = jobs[i].rows
             /\ jobs'[i].entangled = jobs[i].entangled \cup Overlap(jobs[i], j)
  BY DEF IsAdded
<1>3. /\ JobsProper /\ Apart /\ Tracked
      /\ jobs \in [1..MaxJob -> Job \cup {NoJob}]
      /\ \A i \in 1..MaxJob : jobs[i] # NoJob =>
           jobs[i] \in Job /\ Proper(jobs[i]) /\ ListedTruly(jobs[i]) /\ AnsweredWith(jobs[i])
  BY DEF UsersPageInv, JobsProper
<1>4. \A u : HasAccount(u) <=> HasAccount(u)'
  BY DEF HasAccount
<1>5. ASSUME NEW i \in 1..MaxJob, jobs'[i] # NoJob
      PROVE  Proper(jobs[i])' /\ ListedTruly(jobs[i])' /\ AnsweredWith(jobs[i])'
  <2>1. CASE i = f
    <3>1. jobs'[f] \in Job
      BY <1>1
    <3>2. QED
      BY <1>1, <2>1, <3>1 DEF ListedTruly, AnsweredWith
  <2>2. CASE i # f
    <3>1. /\ jobs[i] # NoJob /\ jobs[i] \in Job /\ jobs'[i] \in Job
          /\ jobs'[i].op = jobs[i].op /\ jobs'[i].id = jobs[i].id
          /\ jobs'[i].input = jobs[i].input
          /\ jobs'[i].pc = jobs[i].pc /\ jobs'[i].rows = jobs[i].rows
          /\ jobs'[i].entangled = jobs[i].entangled \cup Overlap(jobs[i], j)
      BY <1>1, <1>2, <1>3, <1>5, <2>2
    <3>2. Proper(jobs[i]) /\ ListedTruly(jobs[i]) /\ AnsweredWith(jobs[i])
      BY <1>3, <3>1
    <3>3. About(jobs'[i]) = About(jobs[i]) /\ Overlap(jobs[i], j) \subseteq About(jobs[i])
      BY <3>1, SameAbout DEF Overlap
    <3>4. Proper(jobs[i])'
      BY <1>4, <3>1, <3>2, <3>3 DEF Proper
    <3>5. ListedTruly(jobs[i])'
      BY <1>4, <3>1, <3>2 DEF ListedTruly
    <3>6. AnsweredWith(jobs[i])'
      BY <1>4, <3>1, <3>2 DEF AnsweredWith
    <3>7. QED
      BY <3>4, <3>5, <3>6
  <2>3. QED
    BY <2>1, <2>2
<1>6. JobsProper'
  BY <1>1, <1>5 DEF JobsProper
<1>7. About(jobs'[f]) = About(j)
  BY <1>1, SameAbout
<1>8. \A i \in 1..MaxJob \ {f} : jobs'[i] # NoJob => About(jobs'[i]) = About(jobs[i])
  BY <1>2, SameAbout
<1>9. Apart'
  <2>1. ASSUME NEW i \in 1..MaxJob, NEW k \in 1..MaxJob, i # k, jobs'[i] # NoJob, jobs'[k] # NoJob
        PROVE  About(jobs'[i]) \cap About(jobs'[k]) \subseteq jobs'[i].entangled
    <3>1. CASE i = f
      <4>1. k # f /\ jobs[k] # NoJob
        BY <1>2, <2>1, <3>1
      <4>2. About(jobs'[k]) = About(jobs[k])
        BY <1>8, <2>1, <4>1
      <4>3. QED
        BY <1>1, <1>7, <3>1, <4>1, <4>2 DEF Overlap
    <3>2. CASE k = f
      <4>1. i # f /\ jobs[i] # NoJob
        BY <1>2, <2>1, <3>2
      <4>2. About(jobs'[i]) = About(jobs[i])
        BY <1>8, <2>1, <4>1
      <4>3. QED
        BY <1>2, <1>7, <3>2, <4>1, <4>2 DEF Overlap
    <3>3. CASE i # f /\ k # f
      <4>1. jobs[i] # NoJob /\ jobs[k] # NoJob
        BY <1>2, <2>1, <3>3
      <4>2. About(jobs'[i]) = About(jobs[i]) /\ About(jobs'[k]) = About(jobs[k])
        BY <1>8, <2>1, <3>3
      <4>3. About(jobs[i]) \cap About(jobs[k]) \subseteq jobs[i].entangled
        BY <1>3, <2>1, <4>1 DEF Apart
      <4>4. QED
        BY <1>2, <3>3, <4>1, <4>2, <4>3
    <3>4. QED
      BY <3>1, <3>2, <3>3
  <2>2. QED
    BY <2>1 DEF Apart
<1>10. ASSUME NEW u \in User
       PROVE  u \in tangled' \/ Entangled(u)' \/ Followed(u)'
  <2>1. CASE u \in tangled
    BY <2>1
  <2>2. CASE Entangled(u)
    <3>1. PICK i \in 1..MaxJob : jobs[i] # NoJob /\ u \in jobs[i].entangled
      BY <2>2 DEF Entangled
    <3>2. i # f
      BY <1>1, <3>1
    <3>3. jobs'[i] # NoJob /\ u \in jobs'[i].entangled
      BY <1>2, <3>1, <3>2
    <3>4. QED
      BY <3>3 DEF Entangled
  <2>3. CASE ~Entangled(u)' /\ Followed(u)
    <3>1. ~Made(jobs'[f], u)
      BY <1>1 DEF Made
    <3>2. \A i \in 1..MaxJob \ {f} : Made(jobs'[i], u) <=> Made(jobs[i], u)
      BY <1>2 DEF Made
    <3>3. CASE Mirrors(managed, accounts, u) /\ \A i \in 1..MaxJob : ~Made(jobs[i], u)
      <4>1. Mirrors(managed', accounts', u)
        BY <3>3
      <4>2. \A i \in 1..MaxJob : ~Made(jobs'[i], u)
        BY <3>1, <3>2, <3>3
      <4>3. QED
        BY <4>1, <4>2 DEF Followed
    <3>4. CASE \E i \in 1..MaxJob : Unheard(i, u)
      <4>1. PICK i \in 1..MaxJob : Unheard(i, u)
        BY <3>4
      <4>2. i # f /\ jobs[i] # NoJob
        BY <1>1, <4>1 DEF Unheard, Made
      <4>3. Unheard(i, u)'
        BY <1>2, <4>1, <4>2 DEF Unheard, Made
      <4>4. QED
        BY <4>3 DEF Followed
    <3>5. QED
      BY <2>3, <3>3, <3>4 DEF Followed
  <2>4. QED
    BY <1>3, <2>1, <2>2, <2>3 DEF Tracked
<1>11. Tracked'
  BY <1>10 DEF Tracked
<1>12. QED
  BY <1>6, <1>9, <1>11

LEMMA Sending ==
  ASSUME UsersPageInv, Vacancy,
         NEW op \in {"list", "update", "reset", "create"}, NEW id \in 0..MaxUser,
         NEW input \in Change \cup {<<>>},
         op = "list" => id = 0, op # "list" => id \in User,
         op = "update" => input \in Change, op \in {"update", "reset"} => HasAccount(id),
         jobs' = AddJob(jobs, Sent(op, id, input)), UNCHANGED <<accounts, managed, tangled>>
  PROVE  /\ JobsProper' /\ Apart' /\ Tracked'
         /\ \A i \in 1..MaxJob : jobs[i].op = "create" => jobs'[i].op = "create"
         /\ \E i \in 1..MaxJob : jobs'[i].op = op
<1>1. PICK j : j = Sent(op, id, input)
  OBVIOUS
<1>2. jobs \in [1..MaxJob -> Job \cup {NoJob}] /\ \E i \in 1..MaxJob : jobs[i] = NoJob
  BY DEF UsersPageInv, JobsProper, Vacancy
<1>3. PICK f : IsAdded(jobs, jobs', j, f)
  BY <1>1, <1>2, Adds
<1>4. j.op = op /\ j.id = id /\ j.input = input
  BY <1>1 DEF Sent
<1>5. /\ f \in 1..MaxJob /\ jobs[f] = NoJob
      /\ jobs'[f].op = op /\ jobs'[f].id = id /\ jobs'[f].input = input
      /\ jobs'[f].pc = "asked" /\ jobs'[f].entangled \subseteq About(j)
  BY <1>3, <1>4 DEF IsAdded
<1>6. About(jobs'[f]) = About(j)
  BY <1>4, <1>5, SameAbout
<1>7. HasAccount(id) => HasAccount(id)'
  BY DEF HasAccount
<1>8. jobs'[f] \in Job => Proper(jobs[f])'
  BY <1>5, <1>6, <1>7 DEF Proper
<1>9. JobsProper' /\ Apart' /\ Tracked'
  BY <1>3, <1>8, SendKeeps
<1>10. ASSUME NEW i \in 1..MaxJob, jobs[i].op = "create" PROVE jobs'[i].op = "create"
  <2>1. jobs[i] # NoJob /\ i # f
    BY <1>5, <1>10, NoJobIsNone
  <2>2. QED
    BY <1>3, <1>10, <2>1 DEF IsAdded
<1>11. QED
  BY <1>5, <1>9, <1>10

-----------------------------------------------------------------------------
(* The API. *)

LEMMA Replied ==
  ASSUME JobsProper, NEW i \in 1..MaxJob, jobs[i] # NoJob, NEW rows \in SUBSET Row,
         Replies(i, rows)
  PROVE  /\ jobs' \in [1..MaxJob -> Job \cup {NoJob}] /\ jobs'[i] \in Job
         /\ jobs'[i].op = jobs[i].op /\ jobs'[i].id = jobs[i].id
         /\ jobs'[i].input = jobs[i].input /\ jobs'[i].entangled = jobs[i].entangled
         /\ jobs'[i].pc = (IF rows = {} THEN "refused" ELSE "done") /\ jobs'[i].rows = rows
         /\ \A k \in 1..MaxJob \ {i} : jobs'[k] = jobs[k]
<1>1. jobs \in [1..MaxJob -> Job \cup {NoJob}] /\ jobs[i] \in Job
  BY DEF JobsProper
<1>2. PICK r : r = [jobs[i] EXCEPT !.pc = IF rows = {} THEN "refused" ELSE "done", !.rows = rows]
  OBVIOUS
<1>3. jobs' = [jobs EXCEPT ![i] = r]
  BY <1>2 DEF Replies
<1>4. /\ r \in Job
      /\ r.op = jobs[i].op /\ r.id = jobs[i].id /\ r.input = jobs[i].input
      /\ r.entangled = jobs[i].entangled
      /\ r.pc = (IF rows = {} THEN "refused" ELSE "done") /\ r.rows = rows
  BY <1>1, <1>2 DEF Job
<1>5. QED
  BY <1>1, <1>3, <1>4

\* What the API did left u alone, or it is what the page has yet to hear of u.
LeftAlone(i, u) == RowsOf(accounts', u) = RowsOf(accounts, u) /\ ~Made(jobs[i], u)'

LEMMA ReplyKeeps ==
  ASSUME UsersPageInv, NEW i \in 1..MaxJob, jobs[i] # NoJob, jobs[i].pc = "asked",
         NEW rows \in SUBSET Row, Replies(i, rows), UNCHANGED <<managed, tangled>>,
         \A u : HasAccount(u) => HasAccount(u)',
         jobs[i].op = "list" => rows # {},
         ListedTruly(jobs[i])', AnsweredWith(jobs[i])',
         \A u \in User : \/ LeftAlone(i, u)
                         \/ /\ u = jobs[i].id /\ jobs[i].op # "list"
                            /\ u \in tangled \/ Entangled(u) \/ Followed(u)'
  PROVE  JobsProper' /\ Apart' /\ Tracked'
<1>1. /\ JobsProper /\ Apart /\ Tracked
      /\ \A k \in 1..MaxJob : jobs[k] # NoJob =>
           Proper(jobs[k]) /\ ListedTruly(jobs[k]) /\ AnsweredWith(jobs[k])
  BY DEF UsersPageInv, JobsProper
<1>2. /\ jobs' \in [1..MaxJob -> Job \cup {NoJob}] /\ jobs'[i] \in Job
      /\ jobs'[i].op = jobs[i].op /\ jobs'[i].id = jobs[i].id
      /\ jobs'[i].input = jobs[i].input /\ jobs'[i].entangled = jobs[i].entangled
      /\ jobs'[i].pc = (IF rows = {} THEN "refused" ELSE "done") /\ jobs'[i].rows = rows
      /\ \A k \in 1..MaxJob \ {i} : jobs'[k] = jobs[k]
  BY <1>1, Replied
<1>3. About(jobs'[i]) = About(jobs[i])
  BY <1>2, SameAbout
<1>4. Proper(jobs[i])'
  <2>1. Proper(jobs[i])
    BY <1>1
  <2>2. QED
    BY <1>2, <1>3, <2>1 DEF Proper
<1>5. ASSUME NEW k \in 1..MaxJob, k # i, jobs[k] # NoJob
      PROVE  Proper(jobs[k])' /\ ListedTruly(jobs[k])' /\ AnsweredWith(jobs[k])'
  <2>1. Proper(jobs[k]) /\ ListedTruly(jobs[k]) /\ AnsweredWith(jobs[k]) /\ jobs'[k] = jobs[k]
    BY <1>1, <1>2, <1>5
  <2>2. Proper(jobs[k])' /\ AnsweredWith(jobs[k])'
    BY <2>1 DEF Proper, AnsweredWith
  <2>3. ASSUME jobs[k].op = "list", NEW u \in User \ jobs[k].entangled
        PROVE  RowsOf(accounts', u) = RowsOf(accounts, u)
    <3>1. About(jobs[k]) = User
      BY <2>3 DEF About
    <3>2. u \notin About(jobs[i])
      BY <1>1, <1>5, <2>3, <3>1 DEF Apart
    <3>3. ~(u = jobs[i].id /\ jobs[i].op # "list")
      BY <2>3, <3>2 DEF About
    <3>4. QED
      BY <3>3 DEF LeftAlone
  <2>4. ListedTruly(jobs[k])'
    BY <2>1, <2>3 DEF ListedTruly
  <2>5. QED
    BY <2>2, <2>4
<1>6. JobsProper'
  BY <1>2, <1>4, <1>5 DEF JobsProper
<1>7. Apart'
  <2>1. \A k \in 1..MaxJob :
          /\ jobs'[k] # NoJob => jobs[k] # NoJob
          /\ About(jobs'[k]) = About(jobs[k])
          /\ jobs[k] # NoJob => jobs'[k].entangled = jobs[k].entangled
    BY <1>2, <1>3
  <2>2. QED
    BY <1>1, <2>1 DEF Apart
<1>8. jobs'[i] # NoJob
  BY <1>2, NoJobIsNone
<1>9. ASSUME NEW u \in User
      PROVE  u \in tangled' \/ Entangled(u)' \/ Followed(u)'
  <2>1. CASE u \in tangled
    BY <2>1
  <2>2. CASE Entangled(u)
    BY <1>2, <1>8, <2>2 DEF Entangled
  <2>3. CASE Followed(u) /\ LeftAlone(i, u)
    <3>1. CASE Mirrors(managed, accounts, u) /\ \A k \in 1..MaxJob : ~Made(jobs[k], u)
      <4>1. Mirrors(managed', accounts', u)
        BY <2>3, <3>1 DEF LeftAlone, Mirrors
      <4>2. \A k \in 1..MaxJob : ~Made(jobs'[k], u)
        BY <1>2, <2>3, <3>1 DEF LeftAlone
      <4>3. QED
        BY <4>1, <4>2 DEF Followed
    <3>2. CASE \E k \in 1..MaxJob : Unheard(k, u)
      <4>1. PICK k \in 1..MaxJob : Unheard(k, u)
        BY <3>2
      <4>2. k # i
        BY <4>1 DEF Unheard, Made
      <4>3. Unheard(k, u)'
        BY <1>2, <2>3, <4>1, <4>2 DEF Unheard, Made, LeftAlone
      <4>4. QED
        BY <4>3 DEF Followed
    <3>3. QED
      BY <2>3, <3>1, <3>2 DEF Followed
  <2>4. QED
    BY <1>1, <2>1, <2>2, <2>3 DEF Tracked
<1>10. QED
  BY <1>6, <1>7, <1>9 DEF Tracked

\* The accounts and the table stay well typed.
LEMMA AccountOf ==
  ASSUME AccountsProper, NEW u, HasAccount(u)
  PROVE  /\ Account(u) \in accounts /\ Account(u) \in Row /\ Account(u).id = u
         /\ RowsOf(accounts, u) = {Account(u)}
<1>1. Account(u) \in accounts /\ Account(u).id = u
  BY DEF HasAccount, Account
<1>2. QED
  BY <1>1 DEF AccountsProper, OneEach, RowsOf

LEMMA ListReplies ==
  ASSUME UsersPageInv, NEW i \in 1..MaxJob, listUsers(i)
  PROVE  UsersPageInv'
<1>1. /\ jobs[i].op = "list" /\ jobs[i].pc = "asked" /\ Replies(i, accounts)
      /\ UNCHANGED <<accounts, tableVars, formVars, tangled>>
  BY DEF listUsers
<1>2. jobs[i] # NoJob
  BY <1>1, NoJobIsNone
<1>3. AccountsProper /\ JobsProper /\ FormFollows
  BY DEF UsersPageInv
<1>4. accounts \subseteq Row /\ accounts # {}
  BY <1>3 DEF AccountsProper, HasAccount
<1>5. /\ jobs'[i].op = "list" /\ jobs'[i].rows = accounts
      /\ \A k \in 1..MaxJob : jobs'[k].op = jobs[k].op
  BY <1>1, <1>2, <1>3, <1>4, Replied
<1>6. ListedTruly(jobs[i])'
  BY <1>1, <1>3, <1>5 DEF ListedTruly, AccountsProper, HasAccount
<1>7. AnsweredWith(jobs[i])'
  BY <1>5 DEF AnsweredWith
<1>8. \A u \in User : LeftAlone(i, u)
  BY <1>1, <1>5 DEF LeftAlone, Made
<1>9. \A u : HasAccount(u) => HasAccount(u)'
  BY <1>1 DEF HasAccount
<1>10. JobsProper' /\ Apart' /\ Tracked'
  BY <1>1, <1>2, <1>4, <1>6, <1>7, <1>8, <1>9, ReplyKeeps DEF tableVars
<1>11. AccountsProper'
  BY <1>1, <1>3, <1>9 DEF AccountsProper, tableVars, formVars
<1>12. FormFollows'
  BY <1>1, <1>3, <1>5 DEF FormFollows, formVars
<1>13. QED
  BY <1>10, <1>11, <1>12 DEF UsersPageInv

LEMMA ResetReplies ==
  ASSUME UsersPageInv, NEW i \in 1..MaxJob, resetUserPassword(i)
  PROVE  UsersPageInv'
<1>1. /\ jobs[i].op = "reset" /\ jobs[i].pc = "asked"
      /\ Replies(i, IF jobs[i].id = Me THEN {} ELSE {Account(jobs[i].id)})
      /\ UNCHANGED <<accounts, tableVars, formVars, tangled>>
  BY DEF resetUserPassword
<1>2. jobs[i] # NoJob
  BY <1>1, NoJobIsNone
<1>3. AccountsProper /\ JobsProper /\ FormFollows
  BY DEF UsersPageInv
<1>4. HasAccount(jobs[i].id)
  BY <1>1, <1>2, <1>3 DEF JobsProper, Proper
<1>5. PICK rows : rows = IF jobs[i].id = Me THEN {} ELSE {Account(jobs[i].id)}
  OBVIOUS
<1>6. rows \in SUBSET Row /\ Replies(i, rows)
  BY <1>1, <1>3, <1>4, <1>5, AccountOf
<1>7. jobs'[i].op = "reset" /\ \A k \in 1..MaxJob : jobs'[k].op = jobs[k].op
  BY <1>1, <1>2, <1>3, <1>6, Replied
<1>8. ListedTruly(jobs[i])' /\ AnsweredWith(jobs[i])'
  BY <1>7 DEF ListedTruly, AnsweredWith
<1>9. \A u \in User : LeftAlone(i, u)
  BY <1>1, <1>7 DEF LeftAlone, Made
<1>10. \A u : HasAccount(u) => HasAccount(u)'
  BY <1>1 DEF HasAccount
<1>11. JobsProper' /\ Apart' /\ Tracked'
  BY <1>1, <1>2, <1>6, <1>8, <1>9, <1>10, ReplyKeeps DEF tableVars
<1>12. AccountsProper'
  BY <1>1, <1>3, <1>10 DEF AccountsProper, tableVars, formVars
<1>13. FormFollows'
  BY <1>1, <1>3, <1>7 DEF FormFollows, formVars
<1>14. QED
  BY <1>11, <1>12, <1>13 DEF UsersPageInv

\* A request about u that has yet to be handled is the only one about u, or entangled.
LEMMA Alone ==
  ASSUME UsersPageInv, NEW i \in 1..MaxJob, jobs[i] # NoJob, jobs[i].pc # "done",
         jobs[i].op # "list", NEW u \in User, u = jobs[i].id, u \notin tangled, ~Entangled(u)
  PROVE  Mirrors(managed, accounts, u) /\ \A k \in 1..MaxJob : ~Made(jobs[k], u)
<1>1. Followed(u)
  BY DEF UsersPageInv, Tracked
<1>2. u \in About(jobs[i])
  BY DEF About
<1>3. ASSUME NEW k \in 1..MaxJob, Made(jobs[k], u) PROVE FALSE
  <2>1. k # i /\ jobs[k] # NoJob /\ u \in About(jobs[k])
    BY <1>3 DEF Made, About
  <2>2. u \in jobs[i].entangled
    BY <1>2, <2>1 DEF UsersPageInv, Apart
  <2>3. QED
    BY <2>2 DEF Entangled
<1>4. QED
  BY <1>1, <1>3 DEF Followed, Unheard

\* A row of u that the API writes is what the page has yet to hear of u.
LEMMA AccountWriteKeeps ==
  ASSUME UsersPageInv, NEW i \in 1..MaxJob, jobs[i] # NoJob, jobs[i].pc = "asked",
         jobs[i].op \in {"update", "create"}, NEW new \in Row, new.id = jobs[i].id,
         Replies(i, {new}), UNCHANGED <<tableVars, formVars, tangled>>,
         accounts' = (accounts \ RowsOf(accounts, new.id)) \cup {new},
         jobs[i].op = "update" <=> HasAccount(new.id)
  PROVE  UsersPageInv'
<1>1. AccountsProper /\ JobsProper /\ FormFollows
  BY DEF UsersPageInv
<1>2. /\ jobs'[i] # NoJob /\ jobs'[i].op = jobs[i].op /\ jobs'[i].id = jobs[i].id
      /\ jobs'[i].rows = {new} /\ jobs'[i].pc = "done"
      /\ \A k \in 1..MaxJob : jobs'[k].op = jobs[k].op
  BY <1>1, Replied, NoJobIsNone
<1>3. \A u : u # new.id => RowsOf(accounts', u) = RowsOf(accounts, u)
  BY DEF RowsOf
<1>4. RowsOf(accounts', new.id) = {new}
  BY DEF RowsOf
<1>5. \A u : HasAccount(u) => HasAccount(u)'
  BY DEF HasAccount, RowsOf
<1>6. HasAccount(new.id)'
  BY DEF HasAccount
<1>7. ListedTruly(jobs[i])'
  BY <1>2 DEF ListedTruly
<1>8. AnsweredWith(jobs[i])'
  BY <1>2, <1>6 DEF AnsweredWith
<1>9. ASSUME NEW u \in User
      PROVE  \/ LeftAlone(i, u)
             \/ /\ u = jobs[i].id /\ jobs[i].op # "list"
                /\ u \in tangled \/ Entangled(u) \/ Followed(u)'
  <2>1. CASE u # new.id
    BY <1>2, <1>3, <2>1 DEF LeftAlone, Made
  <2>2. CASE u = new.id /\ u \notin tangled /\ ~Entangled(u)
    <3>1. Mirrors(managed, accounts, u)
      BY <2>2, Alone
    <3>2. RowsOf(accounts, u) = {} <=> jobs[i].op = "create"
      BY <2>2 DEF HasAccount, RowsOf
    <3>3. Places(managed, u) = {} <=> RowsOf(ToSet(managed), u) = {}
      BY DEF Places, RowsOf, ToSet
    <3>4. Places(managed, u) = {} <=> jobs[i].op = "create"
      BY <3>1, <3>2, <3>3 DEF Mirrors
    <3>5. Made(jobs[i], u)'
      BY <1>2, <2>2 DEF Made
    <3>6. managed' = managed
      BY DEF tableVars
    <3>7. Unheard(i, u)'
      BY <1>2, <1>4, <2>2, <3>1, <3>4, <3>5, <3>6 DEF Unheard, Mirrors
    <3>8. QED
      BY <2>2, <3>7 DEF Followed
  <2>3. QED
    BY <2>1, <2>2
<1>10. JobsProper' /\ Apart' /\ Tracked'
  <2>1. {new} \in SUBSET Row /\ UNCHANGED <<managed, tangled>>
    BY DEF tableVars
  <2>2. jobs[i].op # "list"
    OBVIOUS
  <2>3. QED
    BY <1>5, <1>7, <1>8, <1>9, <2>1, <2>2, ReplyKeeps
<1>11. AccountsProper'
  <2>1. IsFiniteSet(accounts')
    <3>1. IsFiniteSet(accounts \ RowsOf(accounts, new.id))
      BY <1>1, FS_Subset DEF AccountsProper
    <3>2. QED
      BY <3>1, FS_AddElement
  <2>2. accounts' \subseteq Row
    BY <1>1 DEF AccountsProper
  <2>3. OneEach(accounts')
    BY <1>1 DEF AccountsProper, OneEach, RowsOf
  <2>4. QED
    BY <1>1, <1>5, <2>1, <2>2, <2>3 DEF AccountsProper, tableVars, formVars
<1>12. FormFollows'
  BY <1>1, <1>2 DEF FormFollows, formVars
<1>13. QED
  BY <1>10, <1>11, <1>12 DEF UsersPageInv

\* A refusal changes nothing.
LEMMA RefusalKeeps ==
  ASSUME UsersPageInv, NEW i \in 1..MaxJob, jobs[i] # NoJob, jobs[i].pc = "asked",
         jobs[i].op # "list", Replies(i, {}),
         UNCHANGED <<accounts, tableVars, formVars, tangled>>
  PROVE  UsersPageInv'
<1>1. AccountsProper /\ JobsProper /\ FormFollows
  BY DEF UsersPageInv
<1>2. /\ jobs'[i].op = jobs[i].op /\ jobs'[i].pc = "refused"
      /\ \A k \in 1..MaxJob : jobs'[k].op = jobs[k].op
  BY <1>1, Replied
<1>3. ListedTruly(jobs[i])' /\ AnsweredWith(jobs[i])'
  BY <1>2 DEF ListedTruly, AnsweredWith
<1>4. \A u \in User : LeftAlone(i, u)
  BY <1>2 DEF LeftAlone, Made
<1>5. \A u : HasAccount(u) => HasAccount(u)'
  BY DEF HasAccount
<1>6. JobsProper' /\ Apart' /\ Tracked'
  BY <1>3, <1>4, <1>5, ReplyKeeps DEF tableVars
<1>7. AccountsProper'
  BY <1>1, <1>5 DEF AccountsProper, tableVars, formVars
<1>8. FormFollows'
  BY <1>1, <1>2 DEF FormFollows, formVars
<1>9. QED
  BY <1>6, <1>7, <1>8 DEF UsersPageInv

LEMMA PatchReplies ==
  ASSUME UsersPageInv, NEW i \in 1..MaxJob, PATCHUser(i)
  PROVE  UsersPageInv'
<1>1. PICK j : j = jobs[i]
  OBVIOUS
<1>2. j.op = "update" /\ j.pc = "asked" /\ j # NoJob
  BY <1>1, NoJobIsNone DEF PATCHUser
<1>3. AccountsProper /\ Proper(j)
  BY <1>1, <1>2 DEF UsersPageInv, JobsProper
<1>4. HasAccount(j.id) /\ j.input \in Change
  BY <1>2, <1>3 DEF Proper
<1>5. PICK row : row = Account(j.id)
  OBVIOUS
<1>6. row \in Row /\ row.id = j.id /\ RowsOf(accounts, j.id) = {row}
  BY <1>3, <1>4, <1>5, AccountOf
<1>7. PICK new : new = [f \in DOMAIN row |-> IF f \in DOMAIN j.input THEN j.input[f] ELSE row[f]]
  OBVIOUS
<1>8. new \in Row /\ new.id = j.id
  BY <1>4, <1>6, <1>7 DEF Row, Change
<1>9. \/ Replies(i, {}) /\ UNCHANGED accounts
      \/ Replies(i, {new}) /\ accounts' = (accounts \ {row}) \cup {new}
  BY <1>1, <1>5, <1>7 DEF PATCHUser
<1>10. UNCHANGED <<tableVars, formVars, tangled>>
  BY DEF PATCHUser
<1>11. CASE Replies(i, {}) /\ UNCHANGED accounts
  BY <1>1, <1>2, <1>10, <1>11, RefusalKeeps
<1>12. CASE Replies(i, {new}) /\ accounts' = (accounts \ {row}) \cup {new}
  BY <1>1, <1>2, <1>4, <1>6, <1>8, <1>10, <1>12, AccountWriteKeeps
<1>13. QED
  BY <1>9, <1>11, <1>12

LEMMA PostReplies ==
  ASSUME UsersPageInv, NEW i \in 1..MaxJob, POSTUser(i)
  PROVE  UsersPageInv'
<1>1. jobs[i].op = "create" /\ jobs[i].pc = "asked" /\ jobs[i] # NoJob
  BY NoJobIsNone DEF POSTUser
<1>2. Proper(jobs[i])
  BY <1>1 DEF UsersPageInv, JobsProper
<1>3. jobs[i].id \in User
  BY <1>1, <1>2 DEF Proper
<1>4. PICK new : new = [id |-> jobs[i].id, role |-> "user", isActive |-> TRUE]
  OBVIOUS
<1>5. new \in Row /\ new.id = jobs[i].id
  BY <1>3, <1>4 DEF Row, Role
<1>6. UNCHANGED <<tableVars, formVars, tangled>>
  BY DEF POSTUser
<1>7. CASE HasAccount(new.id)
  <2>1. Replies(i, {}) /\ UNCHANGED accounts
    BY <1>4, <1>5, <1>7 DEF POSTUser, HasAccount
  <2>2. QED
    BY <1>1, <1>6, <2>1, RefusalKeeps
<1>8. CASE ~HasAccount(new.id)
  <2>1. Replies(i, {new}) /\ accounts' = accounts \cup {new}
    BY <1>4, <1>5, <1>8 DEF POSTUser, HasAccount
  <2>2. RowsOf(accounts, new.id) = {}
    BY <1>8 DEF HasAccount, RowsOf
  <2>3. QED
    BY <1>1, <1>5, <1>6, <1>8, <2>1, <2>2, AccountWriteKeeps
<1>9. QED
  BY <1>7, <1>8

-----------------------------------------------------------------------------
(* Answers. *)

Ends(i) == jobs' = [jobs EXCEPT ![i] = NoJob] /\ UNCHANGED accounts

LEMMA EndKeeps ==
  ASSUME UsersPageInv, NEW i \in 1..MaxJob, jobs[i] # NoJob, Ends(i)
  PROVE  /\ JobsProper' /\ Apart'
         /\ jobs'[i] = NoJob /\ \A k \in 1..MaxJob \ {i} : jobs'[k] = jobs[k]
         /\ \A u : HasAccount(u) => HasAccount(u)'
<1>1. /\ jobs \in [1..MaxJob -> Job \cup {NoJob}]
      /\ \A k \in 1..MaxJob : jobs[k] # NoJob =>
           Proper(jobs[k]) /\ ListedTruly(jobs[k]) /\ AnsweredWith(jobs[k])
  BY DEF UsersPageInv, JobsProper
<1>2. /\ jobs'[i] = NoJob /\ \A k \in 1..MaxJob \ {i} : jobs'[k] = jobs[k]
      /\ jobs' \in [1..MaxJob -> Job \cup {NoJob}]
  BY <1>1 DEF Ends
<1>3. \A u : HasAccount(u) <=> HasAccount(u)'
  BY DEF HasAccount, Ends
<1>4. ASSUME NEW k \in 1..MaxJob, jobs'[k] # NoJob
      PROVE  Proper(jobs[k])' /\ ListedTruly(jobs[k])' /\ AnsweredWith(jobs[k])'
  <2>1. jobs'[k] = jobs[k] /\ accounts' = accounts
    BY <1>2, <1>4 DEF Ends
  <2>2. Proper(jobs[k]) /\ ListedTruly(jobs[k]) /\ AnsweredWith(jobs[k])
    BY <1>1, <1>4, <2>1
  <2>3. Proper(jobs[k])'
    BY <1>3, <2>1, <2>2 DEF Proper
  <2>4. ListedTruly(jobs[k])'
    BY <1>3, <2>1, <2>2 DEF ListedTruly
  <2>5. AnsweredWith(jobs[k])'
    BY <1>3, <2>1, <2>2 DEF AnsweredWith
  <2>6. QED
    BY <2>3, <2>4, <2>5
<1>5. JobsProper'
  BY <1>2, <1>4 DEF JobsProper
<1>6. Apart'
  BY <1>2 DEF UsersPageInv, Apart
<1>7. QED
  BY <1>2, <1>3, <1>5, <1>6

LEMMA FormKeeps ==
  ASSUME UsersPageInv, NEW i \in 1..MaxJob, jobs[i] # NoJob, Ends(i), NEW ok \in BOOLEAN,
         FormAfter(jobs[i], ok)
  PROVE  FormFollows' /\ {formOpen, isSubmitting}' \subseteq BOOLEAN
<1>1. /\ FormFollows /\ formOpen \in BOOLEAN /\ isSubmitting \in BOOLEAN
      /\ jobs'[i] = NoJob /\ \A k \in 1..MaxJob \ {i} : jobs'[k] = jobs[k]
  BY EndKeeps DEF UsersPageInv, AccountsProper
<1>2. CASE jobs[i].op = "create"
  BY <1>1, <1>2 DEF FormAfter, FormFollows
<1>3. CASE jobs[i].op # "create"
  BY <1>1, <1>3 DEF FormAfter, FormFollows, formVars
<1>4. QED
  BY <1>2, <1>3

\* Two requests about u are entangled there.
LEMMA TwoEntangle ==
  ASSUME UsersPageInv, NEW i \in 1..MaxJob, NEW k \in 1..MaxJob, i # k,
         jobs[i] # NoJob, jobs[k] # NoJob, NEW u, u \in About(jobs[i]), u \in About(jobs[k])
  PROVE  u \in jobs[i].entangled /\ Entangled(u)
  BY DEF UsersPageInv, Apart, Entangled

\* An end that leaves the table as it is for u, with nothing made about u.
LEMMA EndTracks ==
  ASSUME UsersPageInv, NEW i \in 1..MaxJob, jobs[i] # NoJob, Ends(i), NEW u \in User,
         tangled \cup jobs[i].entangled \subseteq tangled',
         ~Made(jobs[i], u), Places(managed', u) = Places(managed, u),
         Mirrors(managed, accounts, u) => Mirrors(managed', accounts, u)
  PROVE  u \in tangled' \/ Entangled(u)' \/ Followed(u)'
<1>1. /\ jobs'[i] = NoJob /\ \A k \in 1..MaxJob \ {i} : jobs'[k] = jobs[k]
      /\ accounts' = accounts
  BY EndKeeps DEF Ends
<1>2. CASE u \in tangled \cup jobs[i].entangled
  BY <1>2
<1>3. CASE \E k \in 1..MaxJob \ {i} : jobs[k] # NoJob /\ u \in jobs[k].entangled
  BY <1>1, <1>3 DEF Entangled
<1>4. CASE Mirrors(managed, accounts, u) /\ \A k \in 1..MaxJob : ~Made(jobs[k], u)
  BY <1>1, <1>4 DEF Followed, Made
<1>5. CASE \E k \in 1..MaxJob : Unheard(k, u)
  <2>1. PICK k \in 1..MaxJob : Unheard(k, u)
    BY <1>5
  <2>2. k # i
    BY <2>1 DEF Unheard
  <2>3. Unheard(k, u)'
    BY <1>1, <2>1, <2>2 DEF Unheard
  <2>4. QED
    BY <2>3 DEF Followed
<1>6. QED
  BY <1>2, <1>3, <1>4, <1>5 DEF UsersPageInv, Tracked, Entangled, Followed

LEMMA LostAnswer ==
  ASSUME UsersPageInv, NEW i \in 1..MaxJob, AnswerIsLost(i)
  PROVE  UsersPageInv'
<1>1. /\ jobs[i] # NoJob /\ Ends(i) /\ FormAfter(jobs[i], FALSE)
      /\ usersFetching' = (usersFetching /\ jobs[i].op # "list")
      /\ tangled' = tangled \cup jobs[i].entangled
                      \cup (IF jobs[i].pc = "done" THEN About(jobs[i]) ELSE {})
      /\ managed' = managed /\ accounts' = accounts
  BY DEF AnswerIsLost, Ends
<1>2. /\ JobsProper' /\ Apart' /\ \A u : HasAccount(u) => HasAccount(u)'
  BY <1>1, EndKeeps
<1>3. FormFollows' /\ {formOpen, isSubmitting}' \subseteq BOOLEAN
  BY <1>1, FormKeeps
<1>4. AccountsProper /\ Proper(jobs[i])
  BY <1>1 DEF UsersPageInv, JobsProper
<1>5. tangled' \subseteq User
  BY <1>1, <1>4 DEF AccountsProper, Proper, Job, About
<1>6. AccountsProper'
  BY <1>1, <1>2, <1>3, <1>4, <1>5 DEF AccountsProper
<1>7. ASSUME NEW u \in User PROVE u \in tangled' \/ Entangled(u)' \/ Followed(u)'
  <2>1. CASE Made(jobs[i], u)
    BY <1>1, <2>1 DEF Made, About
  <2>2. CASE ~Made(jobs[i], u)
    BY <1>1, <2>2, EndTracks
  <2>3. QED
    BY <2>1, <2>2
<1>8. QED
  BY <1>2, <1>3, <1>6, <1>7 DEF UsersPageInv, Tracked

\* An answer that the table follows.
LEMMA ArrivalKeeps ==
  ASSUME UsersPageInv, NEW i \in 1..MaxJob, AnswerArrives(i),
         managed' \in Table, \A k \in DOMAIN managed' : HasAccount(managed'[k].id),
         \A u \in User : u \in tangled' \/ Entangled(u)' \/ Followed(u)'
  PROVE  UsersPageInv'
<1>1. /\ jobs[i] # NoJob /\ Ends(i)
      /\ usersFetching' = (usersFetching /\ jobs[i].op # "list")
      /\ tangled' = tangled \cup jobs[i].entangled \/ tangled' = jobs[i].entangled
      /\ accounts' = accounts
  BY DEF AnswerArrives, Ends
<1>2. FormAfter(jobs[i], TRUE) \/ FormAfter(jobs[i], FALSE)
  BY DEF AnswerArrives
<1>3. /\ JobsProper' /\ Apart' /\ \A u : HasAccount(u) => HasAccount(u)'
  BY <1>1, EndKeeps
<1>4. FormFollows' /\ {formOpen, isSubmitting}' \subseteq BOOLEAN
  BY <1>1, <1>2, FormKeeps
<1>5. AccountsProper /\ Proper(jobs[i])
  BY <1>1 DEF UsersPageInv, JobsProper
<1>6. tangled' \subseteq User
  BY <1>1, <1>5 DEF AccountsProper, Proper, Job
<1>7. AccountsProper'
  BY <1>1, <1>3, <1>4, <1>5, <1>6 DEF AccountsProper
<1>8. QED
  BY <1>3, <1>4, <1>7 DEF UsersPageInv, Tracked

LEMMA ListArrives ==
  ASSUME UsersPageInv, NEW i \in 1..MaxJob, AnswerArrives(i), jobs[i].op = "list"
  PROVE  UsersPageInv'
<1>1. PICK j : j = jobs[i]
  OBVIOUS
<1>2. /\ j # NoJob /\ j.pc # "asked" /\ Ends(i) /\ accounts' = accounts
      /\ tangled' = j.entangled
  BY <1>1 DEF AnswerArrives, Ends
<1>3. Proper(j) /\ ListedTruly(j)
  BY <1>1, <1>2 DEF UsersPageInv, JobsProper
<1>4. j.pc = "done" /\ j.op = "list"
  BY <1>1, <1>2, <1>3 DEF Proper, Job
<1>5. managed' = SetToSeq(j.rows)
  BY <1>1, <1>4 DEF AnswerArrives, Merged
<1>6. /\ j.rows \subseteq Row /\ IsFiniteSet(j.rows) /\ OneEach(j.rows)
      /\ \A r \in j.rows : HasAccount(r.id)
      /\ \A u \in User \ j.entangled : RowsOf(j.rows, u) = RowsOf(accounts, u)
  BY <1>3, <1>4 DEF ListedTruly
<1>7. /\ managed' \in Table
      /\ \A k \in DOMAIN managed' : managed'[k] \in j.rows
      /\ \A u : Mirrors(managed', j.rows, u)
  BY <1>5, <1>6, ListedTable
<1>8. \A k \in DOMAIN managed' : HasAccount(managed'[k].id)
  BY <1>6, <1>7
<1>9. ASSUME NEW u \in User, u \notin tangled' PROVE Followed(u)'
  <2>1. Mirrors(managed', accounts', u)
    BY <1>2, <1>6, <1>7, <1>9 DEF Mirrors
  <2>2. ASSUME NEW k \in 1..MaxJob, Made(jobs'[k], u) PROVE FALSE
    <3>1. k # i /\ jobs'[k] = jobs[k]
      BY <1>1, <1>2, <2>2, EndKeeps DEF Made
    <3>2. jobs[k] # NoJob /\ u \in About(jobs[k]) /\ u \in About(jobs[i])
      BY <1>1, <1>4, <2>2, <3>1 DEF Made, About
    <3>3. u \in jobs[i].entangled
      BY <1>1, <1>2, <3>1, <3>2, TwoEntangle
    <3>4. QED
      BY <1>1, <1>2, <1>9, <3>3
  <2>3. QED
    BY <2>1, <2>2 DEF Followed
<1>10. QED
  BY <1>7, <1>8, <1>9, ArrivalKeeps

\* The answer to a change of u that was made.
LEMMA ChangeArrives ==
  ASSUME UsersPageInv, NEW i \in 1..MaxJob, AnswerArrives(i), NEW u \in User,
         Made(jobs[i], u), u \notin tangled, ~Entangled(u),
         Unheard(i, u) => Mirrors(managed', accounts, u)
  PROVE  Followed(u)'
<1>1. jobs[i] # NoJob /\ Ends(i) /\ accounts' = accounts
  BY DEF AnswerArrives, Ends
<1>2. u \in About(jobs[i])
  BY DEF Made, About
<1>3. ASSUME NEW k \in 1..MaxJob, Made(jobs[k], u) PROVE k = i
  <2>1. u \in About(jobs[k]) /\ jobs[k] # NoJob
    BY <1>3 DEF Made, About
  <2>2. QED
    BY <1>1, <1>2, <2>1, TwoEntangle
<1>4. Unheard(i, u)
  BY <1>3 DEF UsersPageInv, Tracked, Followed, Unheard
<1>5. \A k \in 1..MaxJob : ~Made(jobs'[k], u)
  BY <1>1, <1>3, EndKeeps DEF Made
<1>6. QED
  BY <1>1, <1>4, <1>5 DEF Followed

LEMMA UpdateArrives ==
  ASSUME UsersPageInv, NEW i \in 1..MaxJob, AnswerArrives(i),
         jobs[i].op = "update", jobs[i].pc = "done"
  PROVE  UsersPageInv'
<1>1. PICK j : j = jobs[i]
  OBVIOUS
<1>2. /\ j # NoJob /\ Ends(i) /\ accounts' = accounts
      /\ tangled' = tangled \cup j.entangled
  BY <1>1 DEF AnswerArrives, Ends
<1>3. AccountsProper /\ AnsweredWith(j)
  BY <1>1, <1>2 DEF UsersPageInv, JobsProper
<1>4. PICK r \in Row : j.rows = {r} /\ r.id = j.id
  BY <1>1, <1>3 DEF AnsweredWith
<1>5. managed' = [k \in DOMAIN managed |-> IF managed[k].id = r.id THEN r ELSE managed[k]]
  <2>1. (CHOOSE q \in j.rows : TRUE) = r
    BY <1>4
  <2>2. QED
    BY <1>1, <1>4, <2>1 DEF AnswerArrives, Merged
<1>6. managed \in Table /\ \A k \in DOMAIN managed : HasAccount(managed[k].id)
  BY <1>3 DEF AccountsProper
<1>7. PICK t : t = managed'
  OBVIOUS
<1>8. /\ t \in Table /\ DOMAIN t = DOMAIN managed
      /\ \A k \in DOMAIN t : t[k].id = managed[k].id
      /\ \A u : Places(t, u) = Places(managed, u)
      /\ \A u, S : u # r.id => (Mirrors(t, S, u) <=> Mirrors(managed, S, u))
      /\ \A S : /\ RowsOf(S, r.id) = {r}
                /\ \E k \in Places(managed, r.id) : TRUE
                /\ \A k, l \in Places(managed, r.id) : k = l
                => Mirrors(t, S, r.id)
  BY <1>4, <1>5, <1>6, <1>7, UpdatedTable, Zenon
<1>9. ASSUME NEW u \in User PROVE u \in tangled' \/ Entangled(u)' \/ Followed(u)'
  <2>1. CASE u # r.id
    <3>1. ~Made(jobs[i], u)
      BY <1>1, <1>4, <2>1 DEF Made
    <3>2. QED
      BY <1>1, <1>2, <1>7, <1>8, <2>1, <3>1, EndTracks
  <2>2. CASE u = r.id /\ u \notin tangled /\ ~Entangled(u)
    <3>1. Made(jobs[i], u)
      BY <1>1, <1>2, <1>4, <2>2 DEF Made
    <3>2. Unheard(i, u) => Mirrors(t, accounts, u)
      BY <1>1, <1>4, <1>8, <2>2 DEF Unheard
    <3>3. QED
      BY <1>7, <2>2, <3>1, <3>2, ChangeArrives
  <2>3. CASE u \in tangled \cup j.entangled
    BY <1>2, <2>3
  <2>4. CASE \E k \in 1..MaxJob \ {i} : jobs[k] # NoJob /\ u \in jobs[k].entangled
    BY <1>1, <1>2, <2>4, EndKeeps DEF Entangled
  <2>5. QED
    BY <1>1, <2>1, <2>2, <2>3, <2>4 DEF Entangled
<1>10. \A k \in DOMAIN managed' : HasAccount(managed'[k].id)
  BY <1>6, <1>7, <1>8
<1>11. QED
  BY <1>7, <1>8, <1>9, <1>10, ArrivalKeeps

LEMMA CreateArrives ==
  ASSUME UsersPageInv, NEW i \in 1..MaxJob, AnswerArrives(i),
         jobs[i].op = "create", jobs[i].pc = "done"
  PROVE  UsersPageInv'
<1>1. PICK j : j = jobs[i]
  OBVIOUS
<1>2. /\ j # NoJob /\ Ends(i) /\ accounts' = accounts
      /\ tangled' = tangled \cup j.entangled
  BY <1>1 DEF AnswerArrives, Ends
<1>3. AccountsProper /\ AnsweredWith(j)
  BY <1>1, <1>2 DEF UsersPageInv, JobsProper
<1>4. PICK r \in Row : j.rows = {r} /\ r.id = j.id /\ HasAccount(r.id)
  BY <1>1, <1>3 DEF AnsweredWith
<1>5. managed' = managed \o SetToSeq({r})
  BY <1>1, <1>4 DEF AnswerArrives, Merged
<1>6. managed \in Table /\ \A k \in DOMAIN managed : HasAccount(managed[k].id)
  BY <1>3 DEF AccountsProper
<1>7. PICK t : t = managed'
  OBVIOUS
<1>8. /\ t \in Table
      /\ \A k \in DOMAIN t : t[k] = r \/ \E l \in DOMAIN managed : t[k] = managed[l]
      /\ \A u : u # r.id => Places(t, u) = Places(managed, u)
      /\ \A u, S : u # r.id => (Mirrors(t, S, u) <=> Mirrors(managed, S, u))
      /\ \A S : RowsOf(S, r.id) = {r} /\ Places(managed, r.id) = {} => Mirrors(t, S, r.id)
  <2>1. r \in Row /\ managed \in Table /\ t = managed \o SetToSeq({r})
    BY <1>4, <1>5, <1>6, <1>7
  <2>2. WithRow(t, managed, r)
    BY <2>1, AppendedTable
  <2>3. QED
    BY <2>2 DEF WithRow
<1>9. ASSUME NEW u \in User PROVE u \in tangled' \/ Entangled(u)' \/ Followed(u)'
  <2>1. CASE u # r.id
    <3>1. ~Made(jobs[i], u)
      BY <1>1, <1>4, <2>1 DEF Made
    <3>2. QED
      BY <1>1, <1>2, <1>7, <1>8, <2>1, <3>1, EndTracks
  <2>2. CASE u = r.id /\ u \notin tangled /\ ~Entangled(u)
    <3>1. Made(jobs[i], u)
      BY <1>1, <1>2, <1>4, <2>2 DEF Made
    <3>2. Unheard(i, u) => Mirrors(t, accounts, u)
      BY <1>1, <1>4, <1>8, <2>2 DEF Unheard
    <3>3. QED
      BY <1>7, <2>2, <3>1, <3>2, ChangeArrives
  <2>3. CASE u \in tangled \cup j.entangled
    BY <1>2, <2>3
  <2>4. CASE \E k \in 1..MaxJob \ {i} : jobs[k] # NoJob /\ u \in jobs[k].entangled
    BY <1>1, <1>2, <2>4, EndKeeps DEF Entangled
  <2>5. QED
    BY <1>1, <2>1, <2>2, <2>3, <2>4 DEF Entangled
<1>10. \A k \in DOMAIN managed' : HasAccount(managed'[k].id)
  BY <1>4, <1>6, <1>7, <1>8
<1>11. QED
  BY <1>7, <1>8, <1>9, <1>10, ArrivalKeeps

\* A refusal, and the answer to a reset, leave the table as it is.
LEMMA OtherArrives ==
  ASSUME UsersPageInv, NEW i \in 1..MaxJob, AnswerArrives(i), jobs[i].op # "list",
         jobs[i].op = "reset" \/ jobs[i].pc # "done"
  PROVE  UsersPageInv'
<1>1. /\ jobs[i] # NoJob /\ Ends(i) /\ accounts' = accounts
      /\ tangled' = tangled \cup jobs[i].entangled
  BY DEF AnswerArrives, Ends
<1>2. managed' = managed
  BY DEF AnswerArrives, Merged
<1>3. AccountsProper
  BY DEF UsersPageInv
<1>4. ASSUME NEW u \in User PROVE u \in tangled' \/ Entangled(u)' \/ Followed(u)'
  <2>1. ~Made(jobs[i], u)
    BY DEF Made
  <2>2. QED
    BY <1>1, <1>2, <2>1, EndTracks
<1>5. QED
  BY <1>2, <1>3, <1>4, ArrivalKeeps DEF AccountsProper

LEMMA AnyArrives ==
  ASSUME UsersPageInv, NEW i \in 1..MaxJob, AnswerArrives(i)
  PROVE  UsersPageInv'
<1>1. jobs[i] # NoJob
  BY DEF AnswerArrives
<1>2. jobs[i] \in Job
  BY <1>1 DEF UsersPageInv, JobsProper
<1>3. jobs[i].op \in {"list", "update", "reset", "create"}
  BY <1>2 DEF Job
<1>4. QED
  BY <1>3, ListArrives, UpdateArrives, CreateArrives, OtherArrives

-----------------------------------------------------------------------------
(* The steps, and the theorem. *)

LEMMA UsersPageConstantsOK == MaxUser \in Nat /\ MaxUser >= 1 /\ MaxJob \in Nat /\ Me \in User
  BY UsersPageConstants DEF Me, User

\* What is sent changes neither the accounts nor, of the table, the users.
LEMMA SendingKeeps ==
  ASSUME UsersPageInv, JobsProper' /\ Apart' /\ Tracked',
         \A i \in 1..MaxJob : jobs[i].op = "create" => jobs'[i].op = "create",
         UNCHANGED <<accounts, managed, tangled>>,
         {usersFetching, formOpen, isSubmitting}' \subseteq BOOLEAN,
         isSubmitting' = isSubmitting \/ \E i \in 1..MaxJob : jobs'[i].op = "create"
  PROVE  UsersPageInv'
<1>1. AccountsProper /\ FormFollows
  BY DEF UsersPageInv
<1>2. \A u : HasAccount(u) <=> HasAccount(u)'
  BY DEF HasAccount
<1>3. AccountsProper'
  BY <1>1, <1>2 DEF AccountsProper
<1>4. FormFollows'
  BY <1>1 DEF FormFollows
<1>5. QED
  BY <1>3, <1>4 DEF UsersPageInv

LEMMA PageLoads ==
  ASSUME UsersPageInv, UserEffect
  PROVE  UsersPageInv'
<1>1. /\ Vacancy /\ jobs' = AddJob(jobs, Sent("list", 0, <<>>)) /\ usersFetching' = TRUE
      /\ UNCHANGED <<accounts, managed, tangled>> /\ UNCHANGED formVars
  BY DEF UserEffect, loadUsers
<1>2. 0 \in 0..MaxUser
  BY UsersPageConstantsOK
<1>3. /\ JobsProper' /\ Apart' /\ Tracked'
      /\ \A i \in 1..MaxJob : jobs[i].op = "create" => jobs'[i].op = "create"
  BY <1>1, <1>2, Sending
<1>4. {usersFetching, formOpen, isSubmitting}' \subseteq BOOLEAN /\ isSubmitting' = isSubmitting
  BY <1>1 DEF UsersPageInv, AccountsProper, formVars
<1>5. QED
  BY <1>1, <1>3, <1>4, SendingKeeps

LEMMA RowIsClicked ==
  ASSUME UsersPageInv, NEW k \in DOMAIN managed
  PROVE  /\ managed[k] \in Row /\ managed[k].id \in User /\ managed[k].id \in 0..MaxUser
         /\ HasAccount(managed[k].id) /\ ClickedChange(managed[k]) \subseteq Change
<1>1. managed \in Seq(Row) /\ HasAccount(managed[k].id)
  BY DEF UsersPageInv, AccountsProper, Table
<1>2. managed[k] \in Row
  BY <1>1
<1>3. managed[k].id \in User /\ managed[k].isActive \in BOOLEAN
  BY <1>2 DEF Row
<1>4. managed[k].id \in 0..MaxUser
  BY <1>3, UsersPageConstantsOK DEF User
<1>5. ClickedChange(managed[k]) \subseteq Change
  BY <1>3 DEF ClickedChange, Change, Role
<1>6. QED
  BY <1>1, <1>2, <1>3, <1>4, <1>5

LEMMA RowUpdates ==
  ASSUME UsersPageInv, NEW k, handleUpdateUser(k)
  PROVE  UsersPageInv'
<1>1. /\ Vacancy /\ k \in DOMAIN managed
      /\ UNCHANGED <<accounts, managed, tangled>> /\ UNCHANGED <<usersFetching, formVars>>
  BY DEF handleUpdateUser, tableVars
<1>2. PICK c \in ClickedChange(managed[k]) :
        jobs' = AddJob(jobs, Sent("update", managed[k].id, c))
  BY DEF handleUpdateUser
<1>3. PICK u : u = managed[k].id
  OBVIOUS
<1>4. u \in User /\ u \in 0..MaxUser /\ HasAccount(u) /\ c \in Change
  BY <1>1, <1>2, <1>3, RowIsClicked
<1>5. jobs' = AddJob(jobs, Sent("update", u, c))
  BY <1>2, <1>3
<1>6. /\ JobsProper' /\ Apart' /\ Tracked'
      /\ \A i \in 1..MaxJob : jobs[i].op = "create" => jobs'[i].op = "create"
  BY <1>1, <1>4, <1>5, Sending
<1>7. {usersFetching, formOpen, isSubmitting}' \subseteq BOOLEAN /\ isSubmitting' = isSubmitting
  BY <1>1 DEF UsersPageInv, AccountsProper, formVars
<1>8. QED
  BY <1>1, <1>6, <1>7, SendingKeeps

LEMMA RowResets ==
  ASSUME UsersPageInv, NEW k, handleResetPassword(k)
  PROVE  UsersPageInv'
<1>1. /\ Vacancy /\ k \in DOMAIN managed
      /\ jobs' = AddJob(jobs, Sent("reset", managed[k].id, <<>>))
      /\ UNCHANGED <<accounts, managed, tangled>> /\ UNCHANGED <<usersFetching, formVars>>
  BY DEF handleResetPassword, tableVars
<1>2. PICK u : u = managed[k].id
  OBVIOUS
<1>3. u \in User /\ u \in 0..MaxUser /\ HasAccount(u)
  BY <1>1, <1>2, RowIsClicked
<1>4. jobs' = AddJob(jobs, Sent("reset", u, <<>>))
  BY <1>1, <1>2
<1>5. /\ JobsProper' /\ Apart' /\ Tracked'
      /\ \A i \in 1..MaxJob : jobs[i].op = "create" => jobs'[i].op = "create"
  BY <1>1, <1>3, <1>4, Sending
<1>6. {usersFetching, formOpen, isSubmitting}' \subseteq BOOLEAN /\ isSubmitting' = isSubmitting
  BY <1>1 DEF UsersPageInv, AccountsProper, formVars
<1>7. QED
  BY <1>1, <1>5, <1>6, SendingKeeps

LEMMA FormSends ==
  ASSUME UsersPageInv, NEW e \in User, SubmitUser(e)
  PROVE  UsersPageInv'
<1>1. /\ Vacancy /\ jobs' = AddJob(jobs, Sent("create", e, <<>>))
      /\ UNCHANGED <<accounts, managed, tangled>> /\ UNCHANGED <<usersFetching, formOpen>>
      /\ isSubmitting' = TRUE
  BY DEF SubmitUser, tableVars
<1>2. e \in 0..MaxUser
  BY UsersPageConstantsOK DEF User
<1>3. /\ JobsProper' /\ Apart' /\ Tracked'
      /\ \A i \in 1..MaxJob : jobs[i].op = "create" => jobs'[i].op = "create"
      /\ \E i \in 1..MaxJob : jobs'[i].op = "create"
  BY <1>1, <1>2, Sending
<1>4. {usersFetching, formOpen, isSubmitting}' \subseteq BOOLEAN
  BY <1>1 DEF UsersPageInv, AccountsProper
<1>5. QED
  BY <1>1, <1>3, <1>4, SendingKeeps

\* Nothing that the invariant relates changes.
LEMMA UsersPageIdle ==
  ASSUME UsersPageInv, UNCHANGED <<accounts, managed, usersFetching, isSubmitting, jobs, tangled>>,
         formOpen' \in BOOLEAN
  PROVE  UsersPageInv'
<1>1. \A u : HasAccount(u) <=> HasAccount(u)'
  BY DEF HasAccount
<1>2. AccountsProper'
  BY <1>1 DEF UsersPageInv, AccountsProper
<1>3. JobsProper'
  BY <1>1 DEF UsersPageInv, JobsProper, Proper, ListedTruly, AnsweredWith
<1>4. Apart' /\ FormFollows'
  BY DEF UsersPageInv, Apart, FormFollows
<1>5. Tracked'
  BY DEF UsersPageInv, Tracked, Entangled, Followed, Unheard
<1>6. QED
  BY <1>2, <1>3, <1>4, <1>5 DEF UsersPageInv

LEMMA UsersPageStep == UsersPageInv /\ [UsersPageNext]_usersPageVars => UsersPageInv'
<1> SUFFICES ASSUME UsersPageInv, [UsersPageNext]_usersPageVars PROVE UsersPageInv'
  OBVIOUS
<1>1. CASE onOpenChange
  <2>1. UNCHANGED <<accounts, managed, usersFetching, isSubmitting, jobs, tangled>>
    BY <1>1 DEF onOpenChange, tableVars
  <2>2. formOpen' \in BOOLEAN
    BY <1>1 DEF onOpenChange
  <2>3. QED
    BY <2>1, <2>2, UsersPageIdle
<1>2. CASE UserEffect
  BY <1>2, PageLoads
<1>3. ASSUME NEW e \in User, SubmitUser(e) PROVE UsersPageInv'
  BY <1>3, FormSends
<1>4. ASSUME NEW k, handleUpdateUser(k) \/ handleResetPassword(k) PROVE UsersPageInv'
  BY <1>4, RowUpdates, RowResets
<1>5. ASSUME NEW i \in 1..MaxJob,
             \/ listUsers(i) \/ PATCHUser(i) \/ resetUserPassword(i) \/ POSTUser(i)
             \/ AnswerArrives(i) \/ AnswerIsLost(i)
      PROVE  UsersPageInv'
  BY <1>5, ListReplies, PatchReplies, ResetReplies, PostReplies, AnyArrives, LostAnswer
<1>6. CASE UNCHANGED usersPageVars
  <2>1. /\ UNCHANGED <<accounts, managed, usersFetching, isSubmitting, jobs, tangled>>
        /\ formOpen' = formOpen
    BY <1>6 DEF usersPageVars, tableVars, formVars
  <2>2. formOpen' \in BOOLEAN
    BY <2>1 DEF UsersPageInv, AccountsProper
  <2>3. QED
    BY <2>1, <2>2, UsersPageIdle
<1>7. QED
  BY <1>1, <1>2, <1>3, <1>4, <1>5, <1>6 DEF UsersPageNext

\* The users that there are at first.
LEMMA FirstAccounts ==
  ASSUME UsersPageInit
  PROVE  accounts \subseteq Row /\ IsFiniteSet(accounts) /\ OneEach(accounts) /\ HasAccount(Me)
<1>1. PICK others \in SUBSET (User \ {Me}) :
        accounts = {[id |-> u, role |-> IF u = Me THEN "admin" ELSE "user", isActive |-> TRUE] :
                      u \in {Me} \cup others}
  BY DEF UsersPageInit
<1>2. PICK us : us = {Me} \cup others
  OBVIOUS
<1>3. us \subseteq User /\ Me \in us
  BY <1>1, <1>2, UsersPageConstantsOK
<1>4. IsFiniteSet(User)
  BY UsersPageConstantsOK, FS_Interval DEF User
<1>5. IsFiniteSet(us)
  BY <1>3, <1>4, FS_Subset
<1>6. PICK f : f = [u \in us |->
                      [id |-> u, role |-> IF u = Me THEN "admin" ELSE "user", isActive |-> TRUE]]
  OBVIOUS
<1>7. accounts = {f[u] : u \in us} /\ DOMAIN f = us /\ f = [u \in us |-> f[u]]
  BY <1>1, <1>2, <1>6
<1>8. \A u \in us : f[u] \in Row /\ f[u].id = u
  BY <1>3, <1>6 DEF Row, Role
<1>9. accounts \subseteq Row /\ OneEach(accounts) /\ HasAccount(Me)
  BY <1>3, <1>7, <1>8 DEF OneEach, HasAccount
<1>10. f \in [us -> accounts] /\ \A r \in accounts : \E u \in us : f[u] = r
  BY <1>7
<1>11. f \in Surjection(us, accounts)
  BY <1>10 DEF Surjection
<1>12. IsFiniteSet(accounts)
  BY <1>5, <1>11, FS_Surjection
<1>13. QED
  BY <1>9, <1>12

LEMMA UsersPageStarts == UsersPageInit => UsersPageInv
<1> SUFFICES ASSUME UsersPageInit PROVE UsersPageInv
  OBVIOUS
<1>1. PICK none : none = [i \in 1..MaxJob |-> NoJob]
  OBVIOUS
<1>2. /\ managed = <<>> /\ usersFetching = TRUE /\ formOpen = FALSE /\ isSubmitting = FALSE
      /\ jobs = AddJob(none, Sent("list", 0, <<>>)) /\ tangled = User
  BY <1>1 DEF UsersPageInit
<1>3. AccountsProper
  <2>1. managed \in Table /\ \A k \in DOMAIN managed : HasAccount(managed[k].id)
    BY <1>2 DEF Table
  <2>2. {usersFetching, formOpen, isSubmitting} \subseteq BOOLEAN /\ tangled \subseteq User
    BY <1>2
  <2>3. QED
    BY <2>1, <2>2, FirstAccounts DEF AccountsProper
<1>4. FormFollows /\ Tracked
  BY <1>2 DEF FormFollows, Tracked
<1>5. none \in [1..MaxJob -> Job \cup {NoJob}] /\ \A i \in 1..MaxJob : none[i] = NoJob
  BY <1>1
<1>6. CASE 1..MaxJob = {}
  <2>1. jobs = [i \in 1..MaxJob |-> NoJob]
    BY <1>2, <1>6 DEF AddJob
  <2>2. JobsProper /\ Apart
    BY <1>6, <2>1 DEF JobsProper, Apart
  <2>3. QED
    BY <1>3, <1>4, <2>2 DEF UsersPageInv
<1>7. CASE 1..MaxJob # {}
  <2>1. 0 \in 0..MaxUser
    BY UsersPageConstantsOK
  <2>2. PICK j : j = Sent("list", 0, <<>>)
    OBVIOUS
  <2>3. PICK f : IsAdded(none, jobs, j, f)
    BY <1>2, <1>5, <1>7, <2>1, <2>2, Adds
  <2>4. j.op = "list" /\ j.id = 0
    BY <2>2 DEF Sent
  <2>5. /\ jobs \in [1..MaxJob -> Job \cup {NoJob}] /\ jobs[f] # NoJob
        /\ jobs[f].op = "list" /\ jobs[f].id = 0 /\ jobs[f].pc = "asked"
        /\ jobs[f].entangled \subseteq About(j) /\ f \in 1..MaxJob
        /\ \A i \in 1..MaxJob \ {f} : jobs[i] = NoJob
    BY <1>5, <2>3, <2>4 DEF IsAdded
  <2>6. About(jobs[f]) = About(j)
    BY <2>4, <2>5, SameAbout
  <2>7. jobs[f] \in Job
    BY <2>5
  <2>8. Proper(jobs[f]) /\ ListedTruly(jobs[f]) /\ AnsweredWith(jobs[f])
    BY <2>5, <2>6, <2>7 DEF Proper, ListedTruly, AnsweredWith
  <2>9. JobsProper /\ Apart
    BY <2>5, <2>8 DEF JobsProper, Apart
  <2>10. QED
    BY <1>3, <1>4, <2>9 DEF UsersPageInv
<1>8. QED
  BY <1>6, <1>7

LEMMA UsersPageInvariant == UsersPageSpec => []UsersPageInv
  BY UsersPageStarts, UsersPageStep, PTL DEF UsersPageSpec

\* The page's accounts, table, flags and requests have their types, in particular every row the
\* table is given by an answer (UserManagementPage).
THEOREM UsersPageTypeCorrect == UsersPageSpec => []UsersPageTypeOK
<1>1. UsersPageInv => UsersPageTypeOK
  <2> SUFFICES ASSUME UsersPageInv PROVE UsersPageTypeOK
    OBVIOUS
  <2>1. managed \in Seq(Row) /\ ToSet(managed) \subseteq Row
    BY DEF UsersPageInv, AccountsProper, Table, ToSet
  <2>2. QED
    BY <2>1 DEF UsersPageTypeOK, UsersPageInv, AccountsProper, JobsProper
<1>2. QED
  BY <1>1, UsersPageInvariant, PTL

\* The users page edits its table by the answers to lists, updates and creations, each in its
\* own way (UserManagementPage), and they come in any order or not at all.  With everything
\* answered the table has each user once, as the API has it, but for the users whose last
\* answers overlapped or were lost, and no creation that is over blocks the form.
THEOREM TableFollowsTheApi == UsersPageSpec => []TableIsTrue
<1>1. UsersPageInv => TableIsTrue
  <2> SUFFICES ASSUME UsersPageInv, \A i \in 1..MaxJob : jobs[i] = NoJob
               PROVE  ~isSubmitting /\ \A u \in User \ tangled : ShowsUser(u)
    BY DEF TableIsTrue
  <2>1. \A i \in 1..MaxJob : jobs[i].op = "none"
    BY NoJobIsNone
  <2>2. ~isSubmitting
    BY <2>1 DEF UsersPageInv, FormFollows
  <2>3. ASSUME NEW u \in User \ tangled PROVE ShowsUser(u)
    <3>1. ~Entangled(u) /\ ~\E i \in 1..MaxJob : Unheard(i, u)
      BY DEF Entangled, Unheard, Made
    <3>2. Mirrors(managed, accounts, u)
      BY <2>3, <3>1 DEF UsersPageInv, Tracked, Followed
    <3>3. QED
      BY <3>2, MirrorsShows
  <2>4. QED
    BY <2>2, <2>3
<1>2. QED
  BY <1>1, UsersPageInvariant, PTL

-----------------------------------------------------------------------------
(* The pages of the custom bots.                                              *)

\* Of a finite set whose elements are ordered by what is ahead of them, some element has any
\* given number ahead of it, as far as there are elements.
LEMMA EveryRankIsTaken ==
  ASSUME NEW S, IsFiniteSet(S), NEW ahead \in [S -> SUBSET S],
         \A x \in S : x \notin ahead[x],
         \A x, y \in S : x # y => x \in ahead[y] \/ y \in ahead[x],
         \A x, y \in S : x \in ahead[y] => ahead[x] \subseteq ahead[y],
         NEW n \in 0..Cardinality(S) - 1
  PROVE  \E x \in S : Cardinality(ahead[x]) = n
<1> DEFINE rank == [x \in S |-> Cardinality(ahead[x])]
           Ranks == 0..Cardinality(S) - 1
<1>1. Cardinality(S) \in Nat
  BY FS_CardinalityType
<1>2. IsFiniteSet(Ranks) /\ Cardinality(Ranks) = Cardinality(S)
  BY <1>1, FS_Interval
<1>3. ASSUME NEW x \in S
      PROVE  IsFiniteSet(ahead[x]) /\ rank[x] \in Ranks
  <2>1. IsFiniteSet(S \ {x}) /\ Cardinality(S \ {x}) = Cardinality(S) - 1
    BY FS_RemoveElement
  <2>2. ahead[x] \in SUBSET (S \ {x})
    OBVIOUS
  <2>3. IsFiniteSet(ahead[x]) /\ Cardinality(ahead[x]) <= Cardinality(S) - 1
    BY <2>1, <2>2, FS_Subset
  <2>4. Cardinality(ahead[x]) \in Nat
    BY <2>3, FS_CardinalityType
  <2>5. QED
    BY <1>1, <2>3, <2>4
<1>4. ASSUME NEW x \in S, NEW y \in S, x \in ahead[y]
      PROVE  rank[x] < rank[y]
  <2>1. IsFiniteSet(ahead[x] \cup {x}) /\ Cardinality(ahead[x] \cup {x}) = rank[x] + 1
    BY <1>3, FS_AddElement
  <2>2. ahead[x] \cup {x} \in SUBSET ahead[y]
    BY <1>4
  <2>3. Cardinality(ahead[x] \cup {x}) <= rank[y]
    BY <1>3, <2>2, FS_Subset
  <2>4. QED
    BY <1>1, <1>3, <2>1, <2>3
<1>5. rank \in Injection(S, Ranks)
  <2>1. rank \in [S -> Ranks]
    BY <1>3
  <2>2. ASSUME NEW x \in S, NEW y \in S, x # y PROVE rank[x] # rank[y]
    <3>1. rank[x] < rank[y] \/ rank[y] < rank[x]
      BY <1>4, <2>2
    <3>2. QED
      BY <1>1, <1>3, <3>1
  <2>3. QED
    BY <2>1, <2>2 DEF Injection, IsInjective
<1>6. rank \in Surjection(S, Ranks)
  BY <1>2, <1>5, FS_Injection
<1>7. PICK x \in S : rank[x] = n
  BY <1>6 DEF Surjection
<1>8. QED
  BY <1>7


\* Rows of versions: finitely many, each with its own number.
Dated(rows) ==
  /\ rows \subseteq VersionRow /\ IsFiniteSet(rows)
  /\ \A r, q \in rows : r.version = q.version => r = q

NewerIn(rows, r) == {q \in rows : q.version > r.version}

\* Of rows there is one that has any given number of newer ones, as far as they go.
LEMMA VersionAt ==
  ASSUME NEW rows, Dated(rows), NEW n \in 0..Cardinality(rows) - 1
  PROVE  \E r \in rows : Cardinality(NewerIn(rows, r)) = n
<1> DEFINE ahead == [r \in rows |-> NewerIn(rows, r)]
<1>1. \A r \in rows : r.version \in Int
  BY CustomPagesAssumption DEF Dated, VersionRow, VersionNumber
<1>2. ahead \in [rows -> SUBSET rows]
  BY DEF NewerIn
<1>3. \A x, y \in rows : x \in ahead[y] <=> x.version > y.version
  BY DEF NewerIn
<1>4. \A x \in rows : x \notin ahead[x]
  BY <1>1, <1>3
<1>5. \A x, y \in rows : x # y => x \in ahead[y] \/ y \in ahead[x]
  BY <1>1, <1>3 DEF Dated
<1>6. \A x, y \in rows : x \in ahead[y] => ahead[x] \subseteq ahead[y]
  BY <1>1, <1>2, <1>3
<1>7. IsFiniteSet(rows)
  BY DEF Dated
<1> HIDE DEF ahead
<1>8. \E r \in rows : Cardinality(ahead[r]) = n
  BY <1>2, <1>4, <1>5, <1>6, <1>7, EveryRankIsTaken
<1>9. QED
  BY <1>8 DEF ahead

\* The newest version is there and is the newest.
LEMMA NewestIsIt ==
  ASSUME NEW rows, Dated(rows), rows # {}
  PROVE  NewestVersion(rows) \in rows /\ \A q \in rows : q.version <= NewestVersion(rows).version
<1>1. Cardinality(rows) \in Nat /\ Cardinality(rows) # 0
  BY FS_CardinalityType, FS_EmptySet DEF Dated
<1>2. PICK r \in rows : Cardinality(NewerIn(rows, r)) = 0
  BY <1>1, VersionAt
<1>3. IsFiniteSet(NewerIn(rows, r))
  BY FS_Subset DEF Dated, NewerIn
<1>4. NewerIn(rows, r) = {}
  BY <1>2, <1>3, FS_EmptySet
<1>5. \A q \in rows : q.version <= r.version
  BY <1>4, CustomPagesAssumption DEF NewerIn, Dated, VersionRow, VersionNumber
<1>6. QED
  BY <1>5 DEF NewestVersion

\* A page of the history begins within the versions.
Begins(p, b) == p * versionsPerPage < Cardinality(b.versions)

LEMMA PagesBegin ==
  ASSUME NEW n \in Nat, NEW v \in Nat \ {0}, NEW p \in 0..((n + v - 1) \div v) - 1
  PROVE  p * v < n
<1> DEFINE d == (n + v - 1) \div v
<1>1. d \in Int /\ d * v <= n + v - 1
  OBVIOUS
<1>2. p + 1 <= d /\ p \in Nat
  BY <1>1
<1>3. (p + 1) * v <= d * v
  BY <1>1, <1>2
<1>4. (p + 1) * v = p * v + v
  BY <1>2
<1>5. QED
  BY <1>1, <1>3, <1>4

\* A bot of a list: versions of its name, at least one, and the number of the newest.
ProperBot(b) ==
  /\ b = [name |-> b.name, versions |-> b.versions,
          latestVersion |-> NewestVersion(b.versions).version]
  /\ Dated(b.versions) /\ b.versions # {} /\ \A r \in b.versions : r.name = b.name

\* A list has one bot of a name.
BotList(bots) ==
  /\ \A b \in bots : ProperBot(b)
  /\ \A b, c \in bots : b.name = c.name => b = c

\* A request, with what it has read, if it has.
AskProper(ask) ==
  /\ ask \in {NotAsked, Asked} \/ ask = [at |-> "read", bots |-> ask.bots]
  /\ BotList(ask.bots)

FlagsTyped ==
  /\ customError \in BOOLEAN /\ isDeployModalOpen \in BOOLEAN /\ isWide \in BOOLEAN
  /\ typeFilter \in {"all"} \cup BotType /\ behind \subseteq {"list", "bot"}
  /\ customPage \in BotName \cup {ListPage}
  /\ currentPage \in Nat /\ selectedVersion \in {0} \cup VersionNumber

RowsProper ==
  /\ Dated(versionRows) /\ numbered \in 0..MaxPublished
  /\ \A r \in versionRows : r.version <= numbered

\* The page shows a bot of its path, a version that this bot has, and a page of its history.
PageProper ==
  /\ BotList(customBot)
  /\ \A b \in customBot : /\ b.name = customPage
       /\ \E r \in b.versions : r.version = selectedVersion
                          /\ Begins(currentPage, b)
  /\ customBot = {} => currentPage = 0
  /\ botAsk # NotAsked => customBot = {}

\* What was read after the last change is the API's.
ReadTruly ==
  /\ "list" \notin behind => /\ listAsk.at = "read" => listAsk.bots = getUserCustomBots
                             /\ listAsk = NotAsked /\ ~customError => customBots = getUserCustomBots
  /\ "bot" \notin behind => /\ botAsk.at = "read" => botAsk.bots = getUserCustomBots
                            /\ \A b \in customBot : b = Grouped(customPage)

\* The inductive invariant of the custom bot pages.
CustomPagesInv ==
  /\ FlagsTyped /\ RowsProper
  /\ BotList(customBots) /\ AskProper(listAsk) /\ AskProper(botAsk)
  /\ PageProper /\ ReadTruly

-----------------------------------------------------------------------------
\* The API's answer is a list.
LEMMA AnswerIsList ==
  ASSUME RowsProper
  PROVE  BotList(getUserCustomBots) /\ AskProper(ReadNow)
<1>1. ASSUME NEW b \in getUserCustomBots PROVE ProperBot(b)
  <2>1. PICK r \in versionRows : b = Grouped(r.name)
    BY DEF getUserCustomBots
  <2>2. Dated(VersionsOf(r.name)) /\ r \in VersionsOf(r.name)
    BY FS_Subset DEF RowsProper, Dated, VersionsOf
  <2>3. QED
    BY <2>1, <2>2 DEF ProperBot, Grouped, VersionsOf
<1>2. \A b \in getUserCustomBots : b = Grouped(b.name)
  BY DEF getUserCustomBots, Grouped
<1>3. BotList(getUserCustomBots)
  BY <1>1, <1>2 DEF BotList
<1>4. QED
  BY <1>3 DEF AskProper, ReadNow

LEMMA EmptyIsList == BotList({}) /\ AskProper(NotAsked) /\ AskProper(Asked)
  BY DEF BotList, AskProper, NotAsked, Asked

\* Requests that have read and those that have not differ.
LEMMA AsksDiffer ==
  /\ NotAsked # Asked /\ NotAsked.at = "none" /\ Asked.at = "sent" /\ ReadNow.at = "read"
  /\ ReadNow.bots = getUserCustomBots
  BY DEF NotAsked, Asked, ReadNow

LEMMA CustomPagesStarts == CustomPagesInit => CustomPagesInv
<1> SUFFICES ASSUME CustomPagesInit PROVE CustomPagesInv
  OBVIOUS
<1>1. FlagsTyped
  BY DEF CustomPagesInit, FlagsTyped
<1>2. RowsProper
  BY FS_EmptySet, CustomPagesAssumption DEF CustomPagesInit, RowsProper, Dated
<1>3. PageProper
  BY EmptyIsList DEF CustomPagesInit, PageProper
<1>4. ReadTruly
  BY DEF CustomPagesInit, ReadTruly
<1>5. QED
  BY <1>1, <1>2, <1>3, <1>4, EmptyIsList DEF CustomPagesInit, CustomPagesInv

-----------------------------------------------------------------------------
\* A new page is mounted.
LEMMA MountKeeps ==
  ASSUME CustomPagesInv, NEW p \in BotName \cup {ListPage}, OpenPage(p),
         typeFilter' \in {"all"} \cup BotType
  PROVE  CustomPagesInv'
<1>1. /\ customPage' = p /\ customBot' = {} /\ botAsk' \in {NotAsked, Asked}
      /\ selectedVersion' = 0 /\ currentPage' = 0 /\ isDeployModalOpen' = FALSE
      /\ UNCHANGED <<versionRows, numbered, customBots, customError, listAsk, isWide, behind>>
  BY DEF OpenPage, FreshBot, apiRows, customListVars
<1>2. FlagsTyped'
  BY <1>1 DEF CustomPagesInv, FlagsTyped
<1>3. RowsProper'
  BY <1>1 DEF CustomPagesInv, RowsProper
<1>4. PageProper'
  BY <1>1, EmptyIsList DEF PageProper
<1>5. getUserCustomBots' = getUserCustomBots
  BY <1>1 DEF getUserCustomBots, Grouped, VersionsOf
<1>6. ReadTruly'
  BY <1>1, <1>5, AsksDiffer DEF CustomPagesInv, ReadTruly
<1>7. QED
  BY <1>1, <1>2, <1>3, <1>4, <1>6, EmptyIsList DEF CustomPagesInv

LEMMA PublishKeeps ==
  ASSUME CustomPagesInv, NEW n \in BotName, NEW t \in BotType, PublishVersion(n, t)
  PROVE  CustomPagesInv'
<1> DEFINE r == [name |-> n, version |-> numbered + 1, type |-> t]
<1>1. /\ numbered < MaxPublished /\ numbered' = numbered + 1 /\ versionRows' = versionRows \cup {r}
      /\ behind' = {"list", "bot"}
      /\ UNCHANGED <<customBots, customError, listAsk, customBot, botAsk, selectedVersion,
                     currentPage, isDeployModalOpen, customPage, typeFilter, isWide>>
  BY DEF PublishVersion, RowsChange, apiRows, customListVars, botVars
<1>2. r \in VersionRow /\ \A q \in versionRows : q.version <= numbered /\ q.version \in Int
  BY <1>1, CustomPagesAssumption
  DEF CustomPagesInv, RowsProper, Dated, VersionRow, VersionNumber
<1>3. Dated(versionRows')
  <2>1. IsFiniteSet(versionRows')
    BY <1>1, FS_AddElement DEF CustomPagesInv, RowsProper, Dated
  <2>2. numbered \in Int
    BY CustomPagesAssumption DEF CustomPagesInv, RowsProper
  <2>3. QED
    BY <1>1, <1>2, <2>1, <2>2 DEF CustomPagesInv, RowsProper, Dated
<1>4. RowsProper'
  BY <1>1, <1>2, <1>3, CustomPagesAssumption DEF CustomPagesInv, RowsProper
<1>5. QED
  BY <1>1, <1>4
  DEF CustomPagesInv, FlagsTyped, PageProper, ReadTruly, customListVars, botVars

LEMMA DeleteKeeps ==
  ASSUME CustomPagesInv, NEW r \in versionRows, DeleteVersion(r)
  PROVE  CustomPagesInv'
<1>1. /\ versionRows' = versionRows \ {r} /\ numbered' = numbered
      /\ behind' = {"list", "bot"}
      /\ UNCHANGED <<customBots, customError, listAsk, customBot, botAsk, selectedVersion,
                     currentPage, isDeployModalOpen, customPage, typeFilter, isWide>>
  BY DEF DeleteVersion, RowsChange, apiRows, customListVars, botVars
<1>2. RowsProper'
  BY <1>1, FS_RemoveElement DEF CustomPagesInv, RowsProper, Dated
<1>3. QED
  BY <1>1, <1>2
  DEF CustomPagesInv, FlagsTyped, PageProper, ReadTruly, customListVars, botVars

\* The steps that leave the API's rows alone.
LEMMA RowsStay ==
  ASSUME UNCHANGED <<versionRows, numbered>>
  PROVE  /\ RowsProper => RowsProper'
         /\ getUserCustomBots' = getUserCustomBots
         /\ \A n : Grouped(n)' = Grouped(n)
  BY DEF RowsProper, getUserCustomBots, Grouped, VersionsOf

LEMMA VersionsReadKeeps ==
  ASSUME CustomPagesInv, ReadForList \/ ReadForBot
  PROVE  CustomPagesInv'
<1>1. CASE ReadForList
  <2>1. UNCHANGED <<versionRows, numbered, customBots, customError, customBot, botAsk,
                    selectedVersion, currentPage, isDeployModalOpen, customPage, typeFilter,
                    isWide>>
        /\ listAsk' = ReadNow /\ behind' = behind \ {"list"}
    BY <1>1 DEF ReadForList, apiRows, customListVars, botVars
  <2>2. AskProper(listAsk')
    BY <2>1, AnswerIsList DEF CustomPagesInv
  <2>3. ReadTruly'
    BY <2>1, RowsStay, AsksDiffer DEF CustomPagesInv, ReadTruly, botVars
  <2>4. QED
    BY <2>1, <2>2, <2>3, RowsStay DEF CustomPagesInv, FlagsTyped, PageProper, botVars
<1>2. CASE ReadForBot
  <2>1. UNCHANGED <<versionRows, numbered, customBots, customError, listAsk, customBot,
                    selectedVersion, currentPage, isDeployModalOpen, customPage, typeFilter,
                    isWide>>
        /\ botAsk = Asked /\ botAsk' = ReadNow /\ behind' = behind \ {"bot"}
    BY <1>2 DEF ReadForBot, apiRows, customListVars, botVars
  <2>2. AskProper(botAsk')
    BY <2>1, AnswerIsList DEF CustomPagesInv
  <2>3. customBot = {}
    BY <2>1, AsksDiffer DEF CustomPagesInv, PageProper
  <2>4. ReadTruly' /\ PageProper'
    BY <2>1, <2>3, RowsStay, AsksDiffer
    DEF CustomPagesInv, ReadTruly, PageProper, customListVars
  <2>5. QED
    BY <2>1, <2>2, <2>4, RowsStay DEF CustomPagesInv, FlagsTyped, customListVars
<1>3. QED
  BY <1>1, <1>2

LEMMA ListAnswerKeeps ==
  ASSUME CustomPagesInv, NEW ok \in BOOLEAN, fetchCustomBots(ok)
  PROVE  CustomPagesInv'
<1>1. /\ listAsk' = NotAsked /\ customBots' = (IF ok THEN listAsk.bots ELSE {})
           /\ customError' = ~ok
      /\ ok => listAsk.at = "read"
      /\ UNCHANGED <<versionRows, numbered, customBot, botAsk, selectedVersion, currentPage,
                     isDeployModalOpen, customPage, typeFilter, isWide, behind>>
  BY DEF fetchCustomBots, apiRows, customListVars, botVars
<1>2. BotList(customBots')
  BY <1>1, EmptyIsList DEF CustomPagesInv, AskProper
<1>3. ReadTruly'
  BY <1>1, RowsStay, AsksDiffer DEF CustomPagesInv, ReadTruly, botVars
<1>4. QED
  BY <1>1, <1>2, <1>3, RowsStay, EmptyIsList
  DEF CustomPagesInv, FlagsTyped, PageProper, botVars

LEMMA BotAnswerKeeps ==
  ASSUME CustomPagesInv, NEW ok \in BOOLEAN, fetchBot(ok)
  PROVE  CustomPagesInv'
<1> DEFINE found == IF ok THEN getCustomBot(botAsk.bots, customPage) ELSE {}
<1>1. /\ botAsk' = NotAsked /\ customBot' = found /\ botAsk # NotAsked
      /\ ok => botAsk.at = "read"
      /\ found = {} => selectedVersion' = selectedVersion
      /\ found # {} => \E b \in found : selectedVersion' = b.latestVersion
      /\ UNCHANGED <<versionRows, numbered, customBots, customError, listAsk, currentPage,
                     isDeployModalOpen, customPage, typeFilter, isWide, behind>>
  BY AsksDiffer DEF fetchBot, apiRows, customListVars, botVars
<1>2. BotList(found) /\ \A b \in found : b.name = customPage /\ b \in botAsk.bots /\ ok
  BY DEF CustomPagesInv, AskProper, BotList, getCustomBot
<1>3. currentPage = 0
  BY <1>1 DEF CustomPagesInv, PageProper
<1>4. ASSUME NEW b \in found
      PROVE  /\ \E r \in b.versions : r.version = selectedVersion'
             /\ Begins(0, b)
  <2>1. ProperBot(b) /\ Dated(b.versions) /\ b.versions # {}
    BY <1>2 DEF BotList, ProperBot
  <2>2. selectedVersion' = b.latestVersion
    BY <1>1, <1>2 DEF BotList
  <2>3. /\ NewestVersion(b.versions) \in b.versions
        /\ b.latestVersion = NewestVersion(b.versions).version
    BY <2>1, NewestIsIt DEF ProperBot
  <2>4. Cardinality(b.versions) \in Nat /\ Cardinality(b.versions) # 0
    BY <2>1, FS_CardinalityType, FS_EmptySet DEF Dated
  <2>5. QED
    BY <2>2, <2>3, <2>4, CustomPagesAssumption DEF Begins
<1>5. PageProper'
  BY <1>1, <1>2, <1>3, <1>4, RowsStay DEF PageProper
<1>6. selectedVersion' \in {0} \cup VersionNumber
  <2>1. CASE found = {}
    BY <1>1, <2>1 DEF CustomPagesInv, FlagsTyped
  <2>2. CASE found # {}
    BY <1>2, <1>4, <2>2 DEF BotList, ProperBot, Dated, VersionRow
  <2>3. QED
    BY <2>1, <2>2
<1>7. FlagsTyped'
  BY <1>1, <1>6 DEF CustomPagesInv, FlagsTyped, customListVars
<1>8. ReadTruly'
  <2>1. ASSUME "bot" \notin behind, NEW b \in found PROVE b = Grouped(customPage)
    <3>1. b \in getUserCustomBots /\ b.name = customPage
      BY <1>1, <1>2, <2>1 DEF CustomPagesInv, ReadTruly
    <3>2. QED
      BY <3>1 DEF getUserCustomBots, Grouped
  <2>2. QED
    BY <1>1, <2>1, RowsStay, AsksDiffer DEF CustomPagesInv, ReadTruly, customListVars
<1>9. QED
  BY <1>1, <1>5, <1>7, <1>8, RowsStay, EmptyIsList DEF CustomPagesInv, customListVars

\* Opening, turning, picking: what the user does on a page.
LEMMA UseKeeps ==
  ASSUME CustomPagesInv, Resize \/ DeployDialog \/ refetch \/ \E t \in BotType : setType(t)
  PROVE  CustomPagesInv'
<1>1. /\ UNCHANGED <<versionRows, numbered, customBots, customBot, botAsk, selectedVersion,
                     customPage, behind>>
      /\ currentPage' \in {0, currentPage} /\ isDeployModalOpen' \in BOOLEAN /\ isWide' \in BOOLEAN
      /\ typeFilter' \in {"all"} \cup BotType /\ customError' \in BOOLEAN
      /\ \/ UNCHANGED <<listAsk, customError>>
         \/ listAsk' = Asked /\ customError' = FALSE
  BY DEF CustomPagesInv, FlagsTyped, Resize, DeployDialog, refetch, setType,
         apiRows, customListVars, botVars
<1>2. \A b \in customBot : Begins(0, b)
  <2> SUFFICES ASSUME NEW b \in customBot PROVE Begins(0, b)
    OBVIOUS
  <2>1. ProperBot(b)
    BY DEF CustomPagesInv, PageProper, BotList
  <2>2. Cardinality(b.versions) \in Nat /\ Cardinality(b.versions) # 0
    BY <2>1, FS_CardinalityType, FS_EmptySet DEF ProperBot, Dated
  <2>3. QED
    BY <2>2, CustomPagesAssumption DEF Begins
<1>3. PageProper'
  BY <1>1, <1>2, RowsStay DEF CustomPagesInv, PageProper
<1>4. ReadTruly'
  BY <1>1, RowsStay, AsksDiffer DEF CustomPagesInv, ReadTruly
<1>5. FlagsTyped'
  BY <1>1 DEF CustomPagesInv, FlagsTyped
<1>6. QED
  BY <1>1, <1>3, <1>4, <1>5, RowsStay, EmptyIsList DEF CustomPagesInv

\* The bot that is shown.
LEMMA ShownIsThere ==
  ASSUME CustomPagesInv, BotIsShown
  PROVE  /\ customBot = {ShownBot} /\ ProperBot(ShownBot) /\ ShownBot.name = customPage
         /\ \E r \in ShownBot.versions : r.version = selectedVersion
         /\ Begins(currentPage, ShownBot)
  BY DEF CustomPagesInv, BotIsShown, ShownBot, PageProper, BotList

LEMMA TurnKeeps ==
  ASSUME CustomPagesInv, NEW p \in 0..MaxPublished, TurnPage(p)
  PROVE  CustomPagesInv'
<1>1. /\ BotIsShown /\ p \in 0..totalPages - 1 /\ currentPage' = p
      /\ UNCHANGED <<versionRows, numbered, customBots, customError, listAsk, customBot, botAsk,
                     selectedVersion, isDeployModalOpen, customPage, typeFilter, isWide, behind>>
  BY DEF TurnPage, apiRows, customListVars, botVars
<1>2. Begins(p, ShownBot)
  <2>1. Cardinality(ShownBot.versions) \in Nat
    BY <1>1, ShownIsThere, FS_CardinalityType DEF ProperBot, Dated
  <2>2. QED
    BY <1>1, <2>1, PagesBegin, CustomPagesAssumption DEF totalPages, Begins
<1>3. PageProper'
  BY <1>1, <1>2, ShownIsThere DEF CustomPagesInv, PageProper, BotIsShown
<1>4. FlagsTyped'
  BY <1>1, CustomPagesAssumption DEF CustomPagesInv, FlagsTyped, customListVars
<1>5. ReadTruly'
  BY <1>1, RowsStay DEF CustomPagesInv, ReadTruly, customListVars
<1>6. QED
  BY <1>1, <1>3, <1>4, <1>5, RowsStay DEF CustomPagesInv, customListVars

LEMMA PickKeeps ==
  ASSUME CustomPagesInv, NEW v \in VersionNumber, handleVersionChange(v)
  PROVE  CustomPagesInv'
<1>1. /\ BotIsShown /\ Find(v) # {} /\ selectedVersion' = v
      /\ UNCHANGED <<versionRows, numbered, customBots, customError, listAsk, customBot, botAsk,
                     currentPage, isDeployModalOpen, customPage, typeFilter, isWide, behind>>
  BY DEF handleVersionChange, apiRows, customListVars, botVars
<1>2. \E r \in ShownBot.versions : r.version = v
  BY <1>1 DEF Find
<1>3. PageProper'
  BY <1>1, <1>2, ShownIsThere DEF CustomPagesInv, PageProper
<1>4. FlagsTyped'
  BY <1>1 DEF CustomPagesInv, FlagsTyped, customListVars
<1>5. ReadTruly'
  BY <1>1, RowsStay DEF CustomPagesInv, ReadTruly, customListVars
<1>6. QED
  BY <1>1, <1>3, <1>4, <1>5, RowsStay DEF CustomPagesInv, customListVars

LEMMA GoKeeps ==
  ASSUME CustomPagesInv,
         \/ RedirectToFirst \/ handleBack
         \/ \E b \in filteredBots : onSelectBot(b) \/ MobileCustomBotList(b)
  PROVE  CustomPagesInv'
<1>1. \A b \in customBots : b.name \in BotName
  <2> SUFFICES ASSUME NEW b \in customBots PROVE b.name \in BotName
    OBVIOUS
  <2>1. PICK r \in b.versions : r.name = b.name /\ r \in VersionRow
    BY DEF CustomPagesInv, BotList, ProperBot, Dated
  <2>2. QED
    BY <2>1 DEF VersionRow
<1>2. \E p \in BotName \cup {ListPage} : OpenPage(p)
  BY <1>1 DEF RedirectToFirst, handleBack, filteredBots, onSelectBot, MobileCustomBotList
<1>3. typeFilter' \in {"all", typeFilter}
  BY DEF RedirectToFirst, handleBack, onSelectBot, MobileCustomBotList
<1>4. typeFilter' \in {"all"} \cup BotType
  BY <1>3 DEF CustomPagesInv, FlagsTyped
<1>5. QED
  BY <1>2, <1>4, MountKeeps

LEMMA CustomPagesStep == CustomPagesInv /\ [CustomPagesNext]_customPageVars => CustomPagesInv'
<1> SUFFICES ASSUME CustomPagesInv, [CustomPagesNext]_customPageVars PROVE CustomPagesInv'
  OBVIOUS
<1>1. CASE UNCHANGED customPageVars
  <2>1. UNCHANGED <<versionRows, numbered, customBots, customError, listAsk, customBot, botAsk,
                    selectedVersion, currentPage, isDeployModalOpen, customPage, typeFilter,
                    isWide, behind>>
    BY <1>1 DEF customPageVars, apiRows, customListVars, botVars
  <2>2. ReadTruly'
    BY <2>1, RowsStay DEF CustomPagesInv, ReadTruly, customListVars, botVars
  <2>3. QED
    BY <2>1, <2>2, RowsStay
    DEF CustomPagesInv, FlagsTyped, PageProper, customListVars, botVars
<1>2. CASE CustomPagesNext
  BY <1>2, PublishKeeps, DeleteKeeps, VersionsReadKeeps, ListAnswerKeeps, BotAnswerKeeps, UseKeeps,
     TurnKeeps, PickKeeps, GoKeeps
  DEF CustomPagesNext
<1>3. QED
  BY <1>1, <1>2

LEMMA CustomPagesInvariant == CustomPagesSpec => []CustomPagesInv
  BY CustomPagesStarts, CustomPagesStep, PTL DEF CustomPagesSpec

\* The pages of the custom bots fetch the list twice, look a version up in three places and keep
\* what they had over every change of the path, the width or the rows (CustomBotDetailPanel).
\* Whatever overlaps or fails, the page offers one version of the bot in its path, and what was
\* read after the last change is as the API has it.
THEOREM OneVersionIsOffered == CustomPagesSpec => []PageIsOfOneVersion
<1>1. CustomPagesInv => PageIsOfOneVersion
  <2> SUFFICES ASSUME CustomPagesInv PROVE PageIsOfOneVersion
    OBVIOUS
  <2>1. ASSUME BotIsShown
        PROVE  /\ currentBotView.name = customPage /\ currentBotView.version = selectedVersion
               /\ exampleConfig = [name |-> currentBotView.name, version |-> currentBotView.version,
                                   type |-> currentBotView.type,
                                   schedule |-> currentBotView.type = "scheduled"]
               /\ currentVersions # {}
    <3>1. PICK r \in ShownBot.versions : r.version = selectedVersion
      BY <2>1, ShownIsThere
    <3>2. /\ ProperBot(ShownBot) /\ Dated(ShownBot.versions) /\ ShownBot.name = customPage
          /\ Begins(currentPage, ShownBot) /\ r.name = customPage
      BY <2>1, ShownIsThere DEF ProperBot
    <3>3. Find(selectedVersion) = {r}
      BY <3>1, <3>2 DEF Find, Dated
    <3>4. Dated({r})
      BY <3>2, FS_Singleton DEF Dated
    <3>5. NewestVersion({r}) = r
      BY <3>4, NewestIsIt
    <3>6. currentBotView = r
      BY <3>3, <3>5 DEF currentBotView
    <3>7. /\ exampleConfig.name = customPage
          /\ exampleConfig = [name |-> ShownBot.name, version |-> selectedVersion,
                              type |-> r.type, schedule |-> r.type = "scheduled"]
      <4>1. (\E q \in Find(selectedVersion) : q.type = "scheduled") = (r.type = "scheduled")
        BY <3>3
      <4>2. QED
        BY <3>2, <3>3, <3>5, <4>1 DEF exampleConfig
    <3>8. currentVersions # {}
      <4> DEFINE first == currentPage * versionsPerPage
      <4>1. Cardinality(ShownBot.versions) \in Nat
        BY <3>2, FS_CardinalityType DEF Dated
      <4>2. first \in Nat
        BY CustomPagesAssumption DEF CustomPagesInv, FlagsTyped
      <4>3. first \in 0..Cardinality(ShownBot.versions) - 1
        BY <3>2, <4>1, <4>2 DEF Begins
      <4>4. PICK q \in ShownBot.versions : Cardinality(NewerIn(ShownBot.versions, q)) = first
        BY <3>2, <4>3, VersionAt
      <4>5. Cardinality(Newer(q)) \in first..first + versionsPerPage - 1
        BY <4>2, <4>4, CustomPagesAssumption DEF Newer, NewerIn
      <4>6. QED
        BY <4>5 DEF currentVersions
    <3>9. QED
      BY <3>1, <3>2, <3>6, <3>7, <3>8
  <2>2. "bot" \notin behind /\ BotIsShown => customBot = {Grouped(customPage)}
    BY ShownIsThere DEF CustomPagesInv, ReadTruly
  <2>3. "list" \notin behind /\ listAsk = NotAsked /\ ~customError => customBots = getUserCustomBots
    BY DEF CustomPagesInv, ReadTruly
  <2>4. QED
    BY <2>1, <2>2, <2>3 DEF PageIsOfOneVersion
<1>2. QED
  BY <1>1, CustomPagesInvariant, PTL

\* A page shows one bot at most, and its version, its page and its requests have their types.
THEOREM CustomPagesTypeCorrect == CustomPagesSpec => []CustomPagesTypeOK
<1>1. CustomPagesInv => CustomPagesTypeOK
  <2> SUFFICES ASSUME CustomPagesInv PROVE CustomPagesTypeOK
    OBVIOUS
  <2>1. Cardinality(customBot) \in 0..1
    <3>1. CASE customBot = {}
      BY <3>1, FS_EmptySet
    <3>2. CASE customBot # {}
      <4>1. PICK b \in customBot : TRUE
        BY <3>2
      <4>2. customBot = {b}
        BY <4>1 DEF CustomPagesInv, PageProper, BotList
      <4>3. Cardinality({b}) = 1
        BY FS_Singleton
      <4>4. QED
        BY <4>2, <4>3
    <3>3. QED
      BY <3>1, <3>2
  <2>2. \A ask \in {listAsk, botAsk} : ask.at \in {"none", "sent", "read"}
    BY DEF CustomPagesInv, AskProper, NotAsked, Asked
  <2>3. QED
    BY <2>1, <2>2 DEF CustomPagesInv, FlagsTyped, RowsProper, Dated, CustomPagesTypeOK
<1>2. QED
  BY <1>1, CustomPagesInvariant, PTL
=============================================================================
