----------------------------- MODULE CustomBotPages -----------------------------
(***************************************************************************)
(* The web pages of a user's custom bots (frontend/src/app/custom-bots).   *)
(*                                                                         *)
(* The layout keeps the list of all custom bots, fetched once; the page of *)
(* one bot fetches the same list again and looks its bot up in it.  Bots   *)
(* are published and deleted from elsewhere all the while, so the two may   *)
(* be of different moments.  On the page of a bot the user picks a version *)
(* and copies, from three components that each look that version up, its   *)
(* schema, its details and a configuration to deploy it with.              *)
(*                                                                         *)
(* A screen is wide (the list beside the bot) or narrow (one at a time).   *)
(* Next mounts a new page whenever the name in the path changes: the state *)
(* of the page of the last bot, and the answer under way to it, are gone.  *)
(*                                                                         *)
(* Versions are numbered as they are published, and every list here is in  *)
(* that order, newest first: a list is the set of what is in it.           *)
(***************************************************************************)
EXTENDS Integers, FiniteSets

CONSTANTS
  BotName,          \* names of custom bots
  ListPage,         \* the path that names no bot
  versionsPerPage,  \* of the version history (5 in the code)
  MaxPublished      \* bound: versions published

ASSUME CustomPagesAssumption ==
  /\ ListPage \notin BotName
  /\ versionsPerPage \in Nat \ {0} /\ MaxPublished \in Nat

VARIABLES
  versionRows,      \* the API's rows
  numbered,         \* how many versions have been published
  customBots,       \* the layout's list, and its request
  customError, listAsk,
  customPage,       \* the bot the path names, or ListPage
  customBot,        \* the bot the page shows (a set: none or one), and its request
  botAsk,
  selectedVersion, currentPage, isDeployModalOpen,
  typeFilter,       \* of the list that is shown
  isWide,
  behind            \* what has been read before the last change of `versionRows'

apiRows == <<versionRows, numbered>>
customListVars == <<customBots, customError, listAsk>>
botVars == <<customBot, botAsk, selectedVersion, currentPage, isDeployModalOpen>>
customPageVars ==
  <<apiRows, customListVars, botVars, customPage, typeFilter, isWide, behind>>

BotType == {"scheduled", "realtime"}
VersionNumber == 1 .. MaxPublished
VersionRow == [name : BotName, version : VersionNumber, type : BotType]

-----------------------------------------------------------------------------
\* The API's answer: the versions of each name, and which is the newest.
NewestVersion(versions) == CHOOSE r \in versions : \A q \in versions : q.version <= r.version
VersionsOf(n)    == {r \in versionRows : r.name = n}

Grouped(n) ==
  [name |-> n, versions |-> VersionsOf(n), latestVersion |-> NewestVersion(VersionsOf(n)).version]

getUserCustomBots == {Grouped(r.name) : r \in versionRows}

\* Of a list, the bots of a name: none or one.
getCustomBot(bots, n) == {b \in bots : b.name = n}

-----------------------------------------------------------------------------
\* A request: under way before or after the API has read its rows, with what it read.
NotAsked == [at |-> "none", bots |-> {}]
Asked    == [at |-> "sent", bots |-> {}]
ReadNow  == [at |-> "read", bots |-> getUserCustomBots]

CustomPagesTypeOK ==
  /\ versionRows \subseteq VersionRow /\ numbered \in 0 .. MaxPublished
  /\ customError \in BOOLEAN
  /\ \A ask \in {listAsk, botAsk} : ask.at \in {"none", "sent", "read"}
  /\ customPage \in BotName \cup {ListPage}
  /\ Cardinality(customBot) \in 0 .. 1
  /\ selectedVersion \in {0} \cup VersionNumber /\ currentPage \in Nat
  /\ isDeployModalOpen \in BOOLEAN /\ typeFilter \in {"all"} \cup BotType
  /\ isWide \in BOOLEAN /\ behind \subseteq {"list", "bot"}

\* The page of a bot, or the list, as it is mounted.
FreshBot(ask) ==
  /\ customBot' = {} /\ botAsk' = ask
  /\ selectedVersion' = 0 /\ currentPage' = 0 /\ isDeployModalOpen' = FALSE

CustomPagesInit ==
  /\ versionRows = {} /\ numbered = 0
  /\ customBots = {} /\ customError = FALSE /\ listAsk = Asked
  /\ customPage \in BotName \cup {ListPage}
  /\ customBot = {} /\ botAsk = IF customPage = ListPage THEN NotAsked ELSE Asked
  /\ selectedVersion = 0 /\ currentPage = 0 /\ isDeployModalOpen = FALSE
  /\ typeFilter = "all" /\ isWide \in BOOLEAN /\ behind = {"list", "bot"}

-----------------------------------------------------------------------------
\* The user's bots change elsewhere: a version is published, or deleted.
RowsChange ==
  /\ behind' = {"list", "bot"}
  /\ UNCHANGED <<customListVars, botVars, customPage, typeFilter, isWide>>

PublishVersion(n, t) ==
  /\ numbered < MaxPublished /\ numbered' = numbered + 1
  /\ versionRows' = versionRows \cup {[name |-> n, version |-> numbered + 1, type |-> t]}
  /\ RowsChange

DeleteVersion(r) ==
  versionRows' = versionRows \ {r} /\ UNCHANGED numbered /\ RowsChange

\* The API reads its rows for a request.
ReadForList ==
  /\ listAsk = Asked /\ listAsk' = ReadNow /\ behind' = behind \ {"list"}
  /\ UNCHANGED <<apiRows, customBots, customError, botVars, customPage, typeFilter, isWide>>

ReadForBot ==
  /\ botAsk = Asked /\ botAsk' = ReadNow /\ behind' = behind \ {"bot"}
  /\ UNCHANGED <<apiRows, customListVars, customBot, selectedVersion, currentPage,
                 isDeployModalOpen, customPage, typeFilter, isWide>>

-----------------------------------------------------------------------------
\* The layout's list: an answer replaces it, and a failure empties it.
fetchCustomBots(ok) ==
  /\ listAsk.at = "read" \/ (listAsk.at = "sent" /\ ~ok)
  /\ listAsk' = NotAsked
  /\ customBots' = (IF ok THEN listAsk.bots ELSE {}) /\ customError' = ~ok
  /\ UNCHANGED <<apiRows, botVars, customPage, typeFilter, isWide, behind>>

refetch ==
  /\ customPage = ListPage /\ listAsk = NotAsked /\ customError
  /\ listAsk' = Asked /\ customError' = FALSE
  /\ UNCHANGED <<apiRows, customBots, botVars, customPage, typeFilter, isWide, behind>>

\* The page's bot: its latest version is the one selected as it appears.
fetchBot(ok) ==
  /\ botAsk.at = "read" \/ (botAsk.at = "sent" /\ ~ok)
  /\ LET found == IF ok THEN getCustomBot(botAsk.bots, customPage) ELSE {}
     IN /\ customBot' = found
        /\ IF found = {} THEN UNCHANGED selectedVersion
           ELSE \E b \in found : selectedVersion' = b.latestVersion
  /\ botAsk' = NotAsked
  /\ UNCHANGED <<apiRows, customListVars, currentPage, isDeployModalOpen, customPage, typeFilter,
                 isWide, behind>>

-----------------------------------------------------------------------------
\* Navigation: a new name mounts a new page, the same path changes nothing.
OpenPage(p) ==
  /\ customPage' = p /\ p # customPage
  /\ FreshBot(IF p = ListPage THEN NotAsked ELSE Asked)
  /\ UNCHANGED <<apiRows, customListVars, isWide, behind>>

\* The list as shown: beside every page on a wide screen, else on its own once loaded.
filteredBots == {b \in customBots : typeFilter \in {"all", NewestVersion(b.versions).type}}
ListIsShown ==
  isWide \/ (customPage = ListPage /\ listAsk = NotAsked /\ ~customError /\ customBots # {})

onSelectBot(b) ==
  /\ isWide /\ ~isDeployModalOpen
  /\ OpenPage(b.name) /\ UNCHANGED typeFilter

\* A narrow screen's list forgets its filter as it is left.
MobileCustomBotList(b) ==
  /\ ~isWide /\ ListIsShown
  /\ OpenPage(b.name) /\ typeFilter' = "all"

setType(t) ==
  /\ ListIsShown /\ ~isDeployModalOpen
  /\ typeFilter' = IF typeFilter = t THEN "all" ELSE t
  /\ UNCHANGED <<apiRows, customListVars, botVars, customPage, isWide, behind>>

\* A wide screen never stays on the list: it goes on to the first bot.
RedirectToFirst ==
  /\ customPage = ListPage /\ isWide /\ listAsk = NotAsked
  /\ \E b \in customBots : /\ \A c \in customBots : c.latestVersion <= b.latestVersion
                          /\ OpenPage(b.name)
  /\ UNCHANGED typeFilter

handleBack ==
  /\ customPage # ListPage /\ botAsk = NotAsked /\ ~isDeployModalOpen
  /\ OpenPage(ListPage) /\ UNCHANGED typeFilter

\* The window crosses the width: the list and the page's components are mounted anew.
Resize ==
  /\ isWide' = ~isWide /\ typeFilter' = "all"
  /\ currentPage' = 0 /\ isDeployModalOpen' = FALSE
  /\ UNCHANGED <<apiRows, customListVars, customBot, botAsk, selectedVersion, customPage, behind>>

-----------------------------------------------------------------------------
\* The page of a bot, once it is there.
BotIsShown == customPage # ListPage /\ botAsk = NotAsked /\ customBot # {}
ShownBot   == CHOOSE b \in customBot : TRUE
Find(v)    == {r \in ShownBot.versions : r.version = v}

\* What the schema and the details are of: the version selected, else the newest.
currentBotView ==
  NewestVersion(IF Find(selectedVersion) = {} THEN ShownBot.versions ELSE Find(selectedVersion))

\* Mutation: the configuration is of the newest version, under the number selected.
exampleConfig_OfNewest ==
  LET newest == NewestVersion(ShownBot.versions)
  IN [name |-> ShownBot.name, version |-> selectedVersion, type |-> newest.type,
      schedule |-> newest.type = "scheduled"]

\* The configuration to copy; without the version its type is a guess.
exampleConfig ==
  [name |-> ShownBot.name, version |-> selectedVersion,
   type |-> IF Find(selectedVersion) = {} THEN "scheduled"
            ELSE NewestVersion(Find(selectedVersion)).type,
   schedule |-> \E r \in Find(selectedVersion) : r.type = "scheduled"]

\* One page of the version history: as many versions are newer as the pages before have.
Newer(r) == {q \in ShownBot.versions : q.version > r.version}
currentVersions ==
  LET startIndex == currentPage * versionsPerPage
  IN {r \in ShownBot.versions :
        Cardinality(Newer(r)) \in startIndex .. startIndex + versionsPerPage - 1}

\* A version is picked from all of them, or from the page of the history.
handleVersionChange(v) ==
  /\ BotIsShown /\ ~isDeployModalOpen /\ Find(v) # {}
  /\ selectedVersion' = v
  /\ UNCHANGED <<apiRows, customListVars, customBot, botAsk, currentPage, isDeployModalOpen,
                 customPage, typeFilter, isWide, behind>>

totalPages == (Cardinality(ShownBot.versions) + versionsPerPage - 1) \div versionsPerPage

TurnPage(p) ==
  /\ BotIsShown /\ ~isDeployModalOpen /\ p \in 0 .. totalPages - 1
  /\ p \in {currentPage - 1, currentPage + 1} /\ currentPage' = p
  /\ UNCHANGED <<apiRows, customListVars, customBot, botAsk, selectedVersion, isDeployModalOpen,
                 customPage, typeFilter, isWide, behind>>

DeployDialog ==
  /\ BotIsShown /\ isDeployModalOpen' = ~isDeployModalOpen
  /\ UNCHANGED <<apiRows, customListVars, customBot, botAsk, selectedVersion, currentPage,
                 customPage, typeFilter, isWide, behind>>

CustomPagesNext ==
  \/ \E n \in BotName, t \in BotType : PublishVersion(n, t)
  \/ \E r \in versionRows : DeleteVersion(r)
  \/ ReadForList \/ ReadForBot
  \/ \E ok \in BOOLEAN : fetchCustomBots(ok) \/ fetchBot(ok)
  \/ refetch \/ RedirectToFirst \/ handleBack \/ Resize \/ DeployDialog
  \/ \E b \in filteredBots : onSelectBot(b) \/ MobileCustomBotList(b)
  \/ \E v \in VersionNumber : handleVersionChange(v)
  \/ \E t \in BotType : setType(t)
  \/ \E p \in 0 .. MaxPublished : TurnPage(p)

CustomPagesSpec == CustomPagesInit /\ [][CustomPagesNext]_customPageVars

-----------------------------------------------------------------------------
\* What a bot's page offers is of one version of the bot in the path: the
\* configuration to copy names, with its own type and a schedule exactly when
\* it runs on one, the version whose schema and details are shown; the page of
\* the history has versions.  And a list or a bot read after the last change is
\* as the API has it: the answer for another bot, of another mount or of a
\* failed request is never what the page shows.
PageIsOfOneVersion ==
  /\ BotIsShown =>
       LET r == currentBotView IN
       /\ r.name = customPage /\ r.version = selectedVersion
       /\ exampleConfig = [name |-> r.name, version |-> r.version, type |-> r.type,
                           schedule |-> r.type = "scheduled"]
       /\ currentVersions # {}
  /\ "bot" \notin behind /\ BotIsShown => customBot = {Grouped(customPage)}
  /\ "list" \notin behind /\ listAsk = NotAsked /\ ~customError =>
       customBots = getUserCustomBots
=============================================================================
