------------------------------ MODULE BundleLoader ------------------------------
(***************************************************************************)
(* Loading the dashboard of a custom bot in the browser                    *)
(* (frontend/src/components/bot/bot-dashboard-loader.tsx): the bundle is   *)
(* taken from localStorage or fetched, and imported, while the user may    *)
(* turn to another bot or the load may take too long.                      *)
(***************************************************************************)
EXTENDS Integers, FiniteSets

CONSTANTS
  Bundle,         \* customBotId: a version of a custom bot
  NoBundle,
  Load            \* runs of importBundle not yet over

ASSUME BundleConstants == NoBundle \notin Bundle

VARIABLES
  asked,          \* the customBotId to show, and whether its version is known
  cached,         \* localStorage: a text that imports, or one that does not
  loads,          \* the runs of importBundle
  loadPhase,
  loadError,
  BotDashboard,   \* the component shown
  timeout         \* the run whose timeout is set

bundleVars == <<asked, cached, loads, loadPhase, loadError, BotDashboard, timeout>>

NoLoad == [pc |-> "none", bundle |-> NoBundle, keyed |-> FALSE, cancelled |-> FALSE]

\* Every variable has its type.
BundleTypeOK ==
  /\ asked \in [id : Bundle \cup {NoBundle}, versioned : BOOLEAN]
  /\ cached \in [Bundle -> {"none", "good", "bad"}]
  /\ loads \in [Load -> [pc : {"none", "cache", "fetch", "import"},
                         bundle : Bundle \cup {NoBundle}, keyed : BOOLEAN, cancelled : BOOLEAN]]
  /\ loadPhase \in {"none", "dashboard", "events"}
  /\ loadError \in BOOLEAN
  /\ BotDashboard \in Bundle \cup {NoBundle}
  /\ timeout \subseteq Load

\* The browser keeps what earlier visits left in localStorage.
BundleInit ==
  /\ asked = [id |-> NoBundle, versioned |-> FALSE]
  /\ cached \in [Bundle -> {"none", "good", "bad"}]
  /\ loads = [l \in Load |-> NoLoad]
  /\ loadPhase = "none" /\ loadError = FALSE /\ BotDashboard = NoBundle
  /\ timeout = {}

Over(l) == loads' = [loads EXCEPT ![l] = NoLoad]

-----------------------------------------------------------------------------
\* Mutation: the run that is left keeps its say.
CancelLoads_TimeoutOnly == loads

\* The cleanup of the effect.
CancelLoads == [l \in Load |-> IF loads[l].pc = "none" THEN NoLoad
                                ELSE [loads[l] EXCEPT !.cancelled = TRUE]]

\* The effect runs again: customBotId or version has changed.
BotDashboardLoader(id, versioned) ==
  /\ asked # [id |-> id, versioned |-> versioned]
  /\ asked' = [id |-> id, versioned |-> versioned]
  /\ BotDashboard' = NoBundle /\ loadError' = FALSE
  /\ IF id = NoBundle
     THEN /\ loads' = CancelLoads
          /\ loadPhase' = "none" /\ timeout' = {}
     ELSE \E l \in Load :
            /\ loads[l].pc = "none"
            /\ loads' = [CancelLoads EXCEPT ![l] =
                           [pc |-> "cache", bundle |-> id, keyed |-> versioned, cancelled |-> FALSE]]
            /\ loadPhase' = "dashboard" /\ timeout' = {l}
  /\ UNCHANGED cached

\* The run ends with a component: nothing, if it was cancelled.
Imported(l) ==
  /\ IF loads[l].cancelled
     THEN UNCHANGED <<loadPhase, BotDashboard, timeout>>
     ELSE /\ BotDashboard' = loads[l].bundle
          /\ loadPhase' = "events" /\ timeout' = timeout \ {l}
  /\ Over(l)
  /\ UNCHANGED loadError

LoadFails(l) ==
  /\ IF loads[l].cancelled
     THEN UNCHANGED <<loadPhase, loadError, timeout>>
     ELSE loadError' = TRUE /\ loadPhase' = "none" /\ timeout' = timeout \ {l}
  /\ Over(l)
  /\ UNCHANGED BotDashboard

\* A cached text is imported; without one, or if that fails, the bundle is fetched.
importBundle(l) ==
  /\ loads[l].pc = "cache"
  /\ IF loads[l].keyed /\ cached[loads[l].bundle] = "good"
     THEN Imported(l)
     ELSE /\ loads' = [loads EXCEPT ![l].pc = "fetch"]
          /\ UNCHANGED <<loadPhase, loadError, BotDashboard, timeout>>
  /\ UNCHANGED <<asked, cached>>

\* What comes is cached before it is known to import; there may be no room.
FetchBundle(l) ==
  /\ loads[l].pc = "fetch"
  /\ \/ LoadFails(l) /\ UNCHANGED cached
     \/ /\ loads' = [loads EXCEPT ![l].pc = "import"]
        /\ \/ UNCHANGED cached
           \/ /\ loads[l].keyed
              /\ \E text \in {"good", "bad"} : cached' = [cached EXCEPT ![loads[l].bundle] = text]
        /\ UNCHANGED <<loadPhase, loadError, BotDashboard, timeout>>
  /\ UNCHANGED asked

ImportFetched(l) ==
  /\ loads[l].pc = "import"
  /\ Imported(l) \/ LoadFails(l)
  /\ UNCHANGED <<asked, cached>>

\* Ten seconds.
LoadTimesOut(l) ==
  /\ l \in timeout
  /\ timeout' = timeout \ {l}
  /\ loads' = [loads EXCEPT ![l].cancelled = TRUE]
  /\ loadError' = TRUE /\ loadPhase' = "none"
  /\ UNCHANGED <<asked, cached, BotDashboard>>

BundleNext ==
  \/ \E id \in Bundle \cup {NoBundle}, versioned \in BOOLEAN : BotDashboardLoader(id, versioned)
  \/ \E l \in Load : importBundle(l) \/ FetchBundle(l) \/ ImportFetched(l) \/ LoadTimesOut(l)

BundleSpec == BundleInit /\ [][BundleNext]_bundleVars

-----------------------------------------------------------------------------
(* Properties *)

\* The dashboard shown is that of the bot the user is at, however late the answers for
\* another come; and "Loading dashboard..." is shown only while a timeout is set for a run
\* of this bundle whose outcome will be looked at, so that it ends.
DashboardIsTheOneAsked ==
  /\ BotDashboard # NoBundle => BotDashboard = asked.id /\ loadPhase = "events" /\ ~loadError
  /\ loadPhase = "dashboard" =>
       \E l \in timeout : loads[l].pc # "none" /\ ~loads[l].cancelled /\ loads[l].bundle = asked.id
=============================================================================
