------------------------------- MODULE MCClients -------------------------------
(* Instances for TLC of what follows the API: the runtime's subscriber, which   *)
(* copies its bots, the web frontend, and the SDK of a bot.  They share no      *)
(* state: each behaviour of this sum is one of a single part, which its initial *)
(* state chooses, while the other parts stay as they start.                     *)
EXTENDS MCBotSubscriber, BundleLoader, WebSession, BotEvents, BotStream,
        DashboardBots, ApiKeyPage, UsersPage, CustomBotPages, SdkState

VARIABLE part

browserVars == <<eventVars, bundleVars, webSessionVars>>
pagesVars == <<viewStreamVars, dashboardVars, keyPageVars>>
settingsVars == <<usersPageVars, customPageVars, sdkVars>>
clientVars == <<vars, browserVars, pagesVars, settingsVars, part>>

\* Each part starts in one of its initial states; of the others, one is taken.
ClientsInit ==
  /\ part \in {"subscriber", "events", "bundle", "web", "stream", "bots", "keys",
               "users", "custom", "sdk"}
  /\ Init /\ EventsInit /\ BundleInit /\ WebSessionInit
  /\ StreamInit /\ DashboardInit /\ KeyPageInit
  /\ UsersPageInit /\ CustomPagesInit /\ SdkInit
  /\ part # "events" => interval = "live"
  /\ part # "bundle" => cached = [b \in Bundle |-> "none"]
  /\ part # "web" => savedToken = 0
  /\ part # "stream" => botName = CHOOSE b \in Watched : TRUE
  /\ part # "bots" => isDesktop
  /\ part # "users" => accounts = {a \in accounts : a.id = Me}
  /\ part # "custom" => isWide /\ customPage = ListPage
  /\ part # "sdk" => queryMode /\ stateFile = [k \in StateKey |-> Gone]

Only(p) == part = p /\ UNCHANGED part

\* A step of one part.
SubscriberPart ==
  Only("subscriber") /\ Next /\ UNCHANGED <<browserVars, pagesVars, settingsVars>>
EventsPart ==
  Only("events") /\ EventsNext
  /\ UNCHANGED <<vars, bundleVars, webSessionVars, pagesVars, settingsVars>>
BundlePart ==
  Only("bundle") /\ BundleNext
  /\ UNCHANGED <<vars, eventVars, webSessionVars, pagesVars, settingsVars>>
WebSessionPart ==
  Only("web") /\ WebSessionNext
  /\ UNCHANGED <<vars, eventVars, bundleVars, pagesVars, settingsVars>>
StreamPart ==
  Only("stream") /\ StreamNext
  /\ UNCHANGED <<vars, browserVars, dashboardVars, keyPageVars, settingsVars>>
DashboardPart ==
  Only("bots") /\ DashboardNext
  /\ UNCHANGED <<vars, browserVars, viewStreamVars, keyPageVars, settingsVars>>
KeyPagePart ==
  Only("keys") /\ KeyPageNext
  /\ UNCHANGED <<vars, browserVars, viewStreamVars, dashboardVars, settingsVars>>
UsersPagePart ==
  Only("users") /\ UsersPageNext
  /\ UNCHANGED <<vars, browserVars, pagesVars, customPageVars, sdkVars>>
CustomPagesPart ==
  Only("custom") /\ CustomPagesNext
  /\ UNCHANGED <<vars, browserVars, pagesVars, usersPageVars, sdkVars>>
SdkPart ==
  Only("sdk") /\ SdkNext
  /\ UNCHANGED <<vars, browserVars, pagesVars, usersPageVars, customPageVars>>

ClientsNext ==
  \/ SubscriberPart \/ EventsPart \/ BundlePart \/ WebSessionPart
  \/ StreamPart \/ DashboardPart \/ KeyPagePart \/ UsersPagePart \/ CustomPagesPart \/ SdkPart

ClientsSpec == ClientsInit /\ [][ClientsNext]_clientVars

\* Every variable of the part that steps has its type.
ClientsTypeOK ==
  /\ part = "subscriber" => TypeOK
  /\ part = "events" => EventsTypeOK
  /\ part = "bundle" => BundleTypeOK
  /\ part = "web" => WebSessionTypeOK
  /\ part = "stream" => StreamTypeOK
  /\ part = "bots" => DashboardTypeOK
  /\ part = "keys" => KeyPageTypeOK
  /\ part = "users" => UsersPageTypeOK
  /\ part = "custom" => CustomPagesTypeOK
  /\ part = "sdk" => SdkTypeOK
=============================================================================
