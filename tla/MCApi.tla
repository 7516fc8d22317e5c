--------------------------------- MODULE MCApi ---------------------------------
(* Instances for TLC of the modules of the API, and of the browser's view of    *)
(* the logs it serves.  They share no state: each behaviour of this sum is one  *)
(* of a single part, which its initial state chooses, while the other parts     *)
(* stay as they start.                                                          *)
EXTENDS MCCatalog, Admins, Sessions, BotStateApi, LogPages, LogFanOut, LogView, BotQueries, TLC

VARIABLE part

accountVars == <<adminVars, sessionVars>>
botVars == <<catalogVars, botStateVars, queryVars>>
logVars == <<logPagesVars, logFanOutVars, logViewVars>>
apiPartVars == <<accountVars, botVars, logVars, part>>

\* Each part starts in one of its initial states; of the others, one is taken.
ApiInit ==
  /\ part \in {"catalog", "admins", "sessions", "state", "pages", "streams", "view",
               "queries"}
  /\ CatalogInit /\ AdminsInit /\ SessionsInit /\ BotStateInit
  /\ LogPagesInit /\ LogFanOutInit /\ LogViewInit /\ QueriesInit
  /\ part # "admins" => users = [u \in Account |-> NoUser]
  /\ part # "sessions" => \A m \in Member : members[m].password = CHOOSE p \in Password : TRUE
  /\ part # "pages" => files = [d \in 1..Days |-> 0]

Only(p) == part = p /\ UNCHANGED part

\* A step of one part.
CatalogPart ==
  Only("catalog") /\ CatalogNext /\ UNCHANGED <<botStateVars, queryVars, accountVars, logVars>>
BotStatePart ==
  Only("state") /\ BotStateNext /\ UNCHANGED <<catalogVars, queryVars, accountVars, logVars>>
QueriesPart ==
  Only("queries") /\ QueriesNext /\ UNCHANGED <<catalogVars, botStateVars, accountVars, logVars>>
AdminsPart ==
  Only("admins") /\ AdminsNext /\ UNCHANGED <<sessionVars, botVars, logVars>>
SessionsPart ==
  Only("sessions") /\ SessionsNext /\ UNCHANGED <<adminVars, botVars, logVars>>
LogPagesPart ==
  Only("pages") /\ LogPagesNext /\ UNCHANGED <<accountVars, botVars, logFanOutVars, logViewVars>>
LogFanOutPart ==
  Only("streams") /\ LogFanOutNext
  /\ UNCHANGED <<accountVars, botVars, logPagesVars, logViewVars>>
LogViewPart ==
  Only("view") /\ LogViewNext /\ UNCHANGED <<accountVars, botVars, logPagesVars, logFanOutVars>>

ApiNext ==
  \/ CatalogPart \/ BotStatePart \/ QueriesPart
  \/ AdminsPart \/ SessionsPart
  \/ LogPagesPart \/ LogFanOutPart \/ LogViewPart

ApiSpec == ApiInit /\ [][ApiNext]_apiPartVars

Edits == {[role |-> "user", active |-> "same"], [role |-> "same", active |-> "off"],
          [role |-> "admin", active |-> "on"]}

\* Requests, and users or instances, are interchangeable; the parts name theirs
\* alike, so that one pair of permutations serves them all.
Symmetry == Permutations(Publisher) \cup Permutations(Req)
=============================================================================
