------------------------------ MODULE DashboardBots ------------------------------
(***************************************************************************)
(* The dashboard of the web frontend: the list of the user's bots          *)
(* (DashboardBotsProvider), its home page and side panel, and the panel of *)
(* one bot (BotDetailPanel), which loads, switches and deletes it, each by *)
(* a request through the frontend's own routes to the API.                 *)
(*                                                                         *)
(* A request is sent, handled and answered in three steps; in between the  *)
(* user may go to another page, and the CLI may change the same bots.  A   *)
(* bot's configuration is its switch `enabled' and an edition of the rest. *)
(***************************************************************************)
EXTENDS Integers, FiniteSets

CONSTANTS
  Listed,       \* ids of the user's bots
  Absent,       \* in place of a configuration: no such bot
  Home,         \* the page /dashboard
  MaxRequest,   \* bound: requests under way at once
  MaxIncident   \* bound: changes by the CLI, requests that fail, and late answers to
                \* refreshUser of the settings page

ASSUME DashboardConstants ==
  /\ Absent \notin Listed /\ Home \notin Listed
  /\ {MaxRequest, MaxIncident} \subseteq Nat

Config == [enabled : BOOLEAN, edition : 0..MaxIncident]
Bots == [Listed -> Config \cup {Absent}]

\* A request: `own' of the mounted panel, `config' what it carries either way.
BotRequest == [op : {"get", "put", "delete"}, bot : Listed, own : BOOLEAN, done : BOOLEAN,
               config : Config \cup {Absent}, others : SUBSET Listed]
\* `since' is history: the bots that changed after the list was read.
ListRequest == [op : {"list"}, done : BOOLEAN, read : Bots, since : SUBSET Listed]
Vacant == [op |-> "none"]

VARIABLES
  storedBots,   \* the API's bots
  listedBots, listLoading, listError,       \* DashboardBotsProvider
  page, isDesktop, status,                  \* the page, the media query, the status filter
  panelBot, panelLoading, isDeleting, isUpdatingEnabled,   \* BotDetailPanel
  requests,
  incidents,    \* counter of the bound
  unseen,       \* history: bots that changed since the list that is shown was read
  panelDisturbed  \* history: its bot changed without the panel, or its requests overlapped

listVars == <<listedBots, listLoading, listError>>
detailVars == <<panelBot, panelLoading, isDeleting, isUpdatingEnabled>>
dashboardVars == <<storedBots, listVars, page, isDesktop, status, detailVars, requests,
                   incidents, unseen, panelDisturbed>>

\* Every variable has its type.
DashboardTypeOK ==
  /\ {storedBots, listedBots} \subseteq Bots
  /\ page \in Listed \cup {Home} /\ status \in {"all", "enabled", "disabled"}
  /\ panelBot \in Config \cup {Absent}
  /\ {listLoading, listError, isDesktop, panelLoading, isDeleting, isUpdatingEnabled,
      panelDisturbed} \subseteq BOOLEAN
  /\ requests \in [1..MaxRequest -> BotRequest \cup ListRequest \cup {Vacant}]
  /\ incidents \in 0..MaxIncident /\ unseen \subseteq Listed

-----------------------------------------------------------------------------
(* Requests, and what a page shows *)

OwnPending == {i \in 1..MaxRequest :
                 requests[i] # Vacant /\ requests[i].op # "list" /\ requests[i].own}
Room(n) == Cardinality({i \in 1..MaxRequest : requests[i] = Vacant}) >= n

Send(rs, r) == [rs EXCEPT ![CHOOSE i \in 1..MaxRequest : rs[i] = Vacant] = r]
Ask(o, b, c, bs) ==
  [op |-> o, bot |-> b, own |-> TRUE, done |-> FALSE, config |-> c, others |-> bs]
AskList == [op |-> "list", done |-> FALSE, read |-> [b \in Listed |-> Absent], since |-> {}]

\* The panel that sent them is unmounted: only what they do elsewhere is left.
Disown(rs) ==
  [i \in 1..MaxRequest |->
     IF rs[i] # Vacant /\ rs[i].op # "list" THEN [rs[i] EXCEPT !.own = FALSE] ELSE rs[i]]

In(bs) == {b \in Listed : bs[b] # Absent}

filterBots(bs) ==
  {b \in In(bs) : \/ status = "all"
                  \/ bs[b].enabled = (status = "enabled")}

HomeShows ==
  CASE listLoading -> "loading"
    [] ~listLoading /\ listError -> "error"
    [] ~listLoading /\ ~listError /\ In(listedBots) = {} -> "empty"
    [] OTHER -> IF isDesktop THEN "nothing" ELSE "list"

\* The panel shows its bot, with its switch and its button, of which each waits for the
\* answer to what it has asked for.
PanelShows == page # Home /\ ~panelLoading /\ panelBot # Absent
SwitchIsLive == PanelShows /\ ~isUpdatingEnabled /\ Room(1)
DeleteIsLive == PanelShows /\ ~isDeleting /\ Room(1)

\* The router shows page p: another panel is mounted and loads its bot.
GoTo(p, rs) ==
  /\ page' = p
  /\ IF p = page THEN requests' = rs /\ UNCHANGED <<detailVars, panelDisturbed>>
     ELSE /\ panelBot' = Absent /\ panelLoading' = (p # Home)
          /\ isDeleting' = FALSE /\ isUpdatingEnabled' = FALSE /\ panelDisturbed' = FALSE
          /\ requests' = IF p = Home THEN Disown(rs)
                         ELSE Send(Disown(rs), Ask("get", p, Absent, {}))

DashboardInit ==
  /\ storedBots = [b \in Listed |-> [enabled |-> TRUE, edition |-> 0]]
  /\ listedBots = [b \in Listed |-> Absent] /\ listLoading = TRUE /\ listError = FALSE
  /\ page = Home /\ isDesktop \in BOOLEAN /\ status = "all"
  /\ panelBot = Absent /\ panelLoading = FALSE
  /\ isDeleting = FALSE /\ isUpdatingEnabled = FALSE
  /\ requests = Send([i \in 1..MaxRequest |-> Vacant], AskList)
  /\ incidents = 0
  /\ unseen = Listed /\ panelDisturbed = FALSE

-----------------------------------------------------------------------------
(* The user *)

\* A click in the side panel ...
handleSelectBot(b) ==
  /\ isDesktop /\ b \in filterBots(listedBots) /\ Room(1)
  /\ GoTo(b, requests)
  /\ UNCHANGED <<storedBots, listVars, isDesktop, status, incidents, unseen>>

\* ... or in the list that the home page of a narrow screen shows.
MobileBotList(b) ==
  /\ page = Home /\ HomeShows = "list" /\ b \in filterBots(listedBots) /\ Room(1)
  /\ GoTo(b, requests)
  /\ UNCHANGED <<storedBots, listVars, isDesktop, status, incidents, unseen>>

GoHome ==
  /\ page # Home /\ GoTo(Home, requests)
  /\ UNCHANGED <<storedBots, listVars, isDesktop, status, incidents, unseen>>

\* On a wide screen the home page goes on to a bot; the list's order is the API's.
AutoRedirect ==
  /\ page = Home /\ isDesktop /\ ~listLoading /\ Room(1)
  /\ \E b \in In(listedBots) : GoTo(b, requests)
  /\ UNCHANGED <<storedBots, listVars, isDesktop, status, incidents, unseen>>

setStatus(s) ==
  /\ isDesktop \/ page = Home
  /\ status' = IF status = s THEN "all" ELSE s
  /\ UNCHANGED <<storedBots, listVars, page, isDesktop, detailVars, requests,
                 incidents, unseen, panelDisturbed>>

\* fetchBots again: the button of the error page.
refetchBots ==
  /\ page = Home /\ HomeShows = "error" /\ Room(1)
  /\ listLoading' = TRUE /\ listError' = FALSE /\ requests' = Send(requests, AskList)
  /\ UNCHANGED <<storedBots, listedBots, page, isDesktop, status, detailVars,
                 incidents, unseen, panelDisturbed>>

\* A late refreshUser sets a new user object, on which both effects depend.
UserRefreshed ==
  /\ incidents < MaxIncident /\ Room(2) /\ incidents' = incidents + 1
  /\ listLoading' = TRUE /\ listError' = FALSE
  /\ IF page = Home
     THEN requests' = Send(requests, AskList) /\ UNCHANGED <<panelLoading, panelDisturbed>>
     ELSE /\ requests' = Send(Send(requests, AskList), Ask("get", page, Absent, {}))
          /\ panelLoading' = TRUE
          /\ panelDisturbed' = (panelDisturbed \/ OwnPending # {})
  /\ UNCHANGED <<storedBots, listedBots, page, isDesktop, status, panelBot, isDeleting,
                 isUpdatingEnabled, unseen>>

\* Mutation: the panel does not wait for the answer.
handleToggleEnabled_Optimistic ==
  /\ SwitchIsLive /\ isUpdatingEnabled' = TRUE /\ panelBot' = [panelBot EXCEPT !.enabled = ~@]
  /\ requests' = Send(requests, Ask("put", page, [panelBot EXCEPT !.enabled = ~@], {}))
  /\ panelDisturbed' = (panelDisturbed \/ OwnPending # {})
  /\ UNCHANGED <<storedBots, listVars, page, isDesktop, status, panelLoading,
                 isDeleting, incidents, unseen>>

\* The whole configuration is written, as the panel has it.
handleToggleEnabled ==
  /\ SwitchIsLive /\ isUpdatingEnabled' = TRUE
  /\ requests' = Send(requests, Ask("put", page, [panelBot EXCEPT !.enabled = ~@], {}))
  /\ panelDisturbed' = (panelDisturbed \/ OwnPending # {})
  /\ UNCHANGED <<storedBots, listVars, page, isDesktop, status, panelBot, panelLoading,
                 isDeleting, incidents, unseen>>

\* It remembers the other bots as the list is now, to go on to one of them.
handleDeleteBot ==
  /\ DeleteIsLive /\ isDeleting' = TRUE
  /\ requests' = Send(requests, Ask("delete", page, Absent, In(listedBots) \ {page}))
  /\ panelDisturbed' = (panelDisturbed \/ OwnPending # {})
  /\ UNCHANGED <<storedBots, listVars, page, isDesktop, status, panelBot, panelLoading,
                 isUpdatingEnabled, incidents, unseen>>

-----------------------------------------------------------------------------
(* The API, behind the frontend's routes *)

\* Bot b changes to c: the histories note it, but for a change of the mounted panel's own.
StoreBot(b, c, own, rs) ==
  /\ storedBots' = [storedBots EXCEPT ![b] = c]
  /\ unseen' = unseen \cup {b}
  /\ panelDisturbed' = (panelDisturbed \/ (b = page /\ ~own))
  /\ requests' = [i \in 1..MaxRequest |->
                    IF rs[i] # Vacant /\ rs[i].op = "list" /\ rs[i].done
                    THEN [rs[i] EXCEPT !.since = @ \cup {b}] ELSE rs[i]]

Kept ==
  UNCHANGED <<listVars, page, isDesktop, status, detailVars, incidents>>

HandleRead(i) ==
  LET r == requests[i]
  IN /\ r.op \in {"list", "get"} /\ ~r.done
     /\ requests' = [requests EXCEPT ![i] =
          IF r.op = "list" THEN [r EXCEPT !.done = TRUE, !.read = storedBots]
                           ELSE [r EXCEPT !.done = TRUE, !.config = storedBots[r.bot]]]
     /\ UNCHANGED <<storedBots, unseen, panelDisturbed>> /\ Kept

HandlePut(i) ==
  LET r == requests[i]
  IN /\ r.op = "put" /\ ~r.done /\ storedBots[r.bot] # Absent
     /\ StoreBot(r.bot, r.config, r.own, [requests EXCEPT ![i].done = TRUE])
     /\ Kept

HandleDelete(i) ==
  LET r == requests[i]
  IN /\ r.op = "delete" /\ ~r.done /\ storedBots[r.bot] # Absent
     /\ StoreBot(r.bot, Absent, r.own, [requests EXCEPT ![i].done = TRUE])
     /\ Kept

\* The CLI edits or deletes a bot.
ChangedElsewhere(b) ==
  /\ incidents < MaxIncident /\ storedBots[b] # Absent /\ incidents' = incidents + 1
  /\ \/ StoreBot(b, [storedBots[b] EXCEPT !.edition = @ + 1], FALSE, requests)
     \/ StoreBot(b, Absent, FALSE, requests)
  /\ UNCHANGED <<listVars, page, isDesktop, status, detailVars>>

-----------------------------------------------------------------------------
(* Answers *)

\* setBots, and the spinner ends.
ListAnswered(i) ==
  LET r == requests[i]
  IN /\ r.op = "list" /\ r.done
     /\ listedBots' = r.read /\ unseen' = r.since /\ listLoading' = FALSE
     /\ requests' = [requests EXCEPT ![i] = Vacant]
     /\ UNCHANGED <<storedBots, listError, page, isDesktop, status, detailVars,
                    incidents, panelDisturbed>>

\* setBot; a bot that is gone leaves the panel as it was, which first is blank.
GetAnswered(i) ==
  LET r == requests[i]
  IN /\ r.op = "get" /\ r.done /\ requests' = [requests EXCEPT ![i] = Vacant]
     /\ IF r.own THEN /\ panelLoading' = FALSE
                      /\ panelBot' = IF r.config = Absent THEN panelBot ELSE r.config
                 ELSE UNCHANGED <<panelLoading, panelBot>>
     /\ UNCHANGED <<storedBots, listVars, page, isDesktop, status, isDeleting,
                    isUpdatingEnabled, incidents, unseen, panelDisturbed>>

PutAnswered(i) ==
  LET r == requests[i]
  IN /\ r.op = "put" /\ r.done /\ requests' = [requests EXCEPT ![i] = Vacant]
     /\ IF r.own THEN /\ isUpdatingEnabled' = FALSE
                      /\ panelBot' = IF panelBot = Absent THEN Absent ELSE r.config
                 ELSE UNCHANGED <<isUpdatingEnabled, panelBot>>
     /\ UNCHANGED <<storedBots, listVars, page, isDesktop, status, panelLoading, isDeleting,
                    incidents, unseen, panelDisturbed>>

removeBotFromList(b) == listedBots' = [listedBots EXCEPT ![b] = Absent]

\* Also when the user has gone elsewhere meanwhile, the page changes.
DeleteAnswered(i) ==
  LET r == requests[i]
      rs == [requests EXCEPT ![i] = Vacant]
  IN /\ r.op = "delete" /\ r.done
     /\ removeBotFromList(r.bot) /\ unseen' = unseen \ {r.bot}
     /\ IF r.others = {} THEN GoTo(Home, rs) ELSE \E b \in r.others : GoTo(b, rs)
     /\ UNCHANGED <<storedBots, listLoading, listError, isDesktop, status, incidents>>

\* The bot is gone, or the request or its answer is lost: an error, and the flags end.
Failed(i) ==
  LET r == requests[i]
      gone == r.op \in {"put", "delete"} /\ ~r.done /\ storedBots[r.bot] = Absent
      own == r.op # "list" /\ r.own
  IN /\ r # Vacant /\ requests' = [requests EXCEPT ![i] = Vacant]
     /\ IF gone THEN UNCHANGED incidents ELSE incidents < MaxIncident /\ incidents' = incidents + 1
     /\ listLoading' = (listLoading /\ r.op # "list")
     /\ listError' = (listError \/ r.op = "list")
     /\ panelLoading' = (panelLoading /\ ~(own /\ r.op = "get"))
     /\ isUpdatingEnabled' = (isUpdatingEnabled /\ ~(own /\ r.op = "put"))
     /\ isDeleting' = (isDeleting /\ ~(own /\ r.op = "delete"))
     /\ panelDisturbed' = (panelDisturbed \/ (own /\ r.op # "get" /\ r.done))
     /\ UNCHANGED <<storedBots, listedBots, page, isDesktop, status, panelBot, unseen>>

DashboardNext ==
  \/ GoHome \/ AutoRedirect \/ refetchBots \/ UserRefreshed
  \/ handleToggleEnabled \/ handleDeleteBot
  \/ \E s \in {"enabled", "disabled"} : setStatus(s)
  \/ \E b \in Listed : handleSelectBot(b) \/ MobileBotList(b) \/ ChangedElsewhere(b)
  \/ \E i \in 1..MaxRequest :
       \/ HandleRead(i) \/ HandlePut(i) \/ HandleDelete(i) \/ Failed(i)
       \/ ListAnswered(i) \/ GetAnswered(i) \/ PutAnswered(i) \/ DeleteAnswered(i)

DashboardSpec == DashboardInit /\ [][DashboardNext]_dashboardVars

-----------------------------------------------------------------------------
(* Properties *)

\* With its own requests answered, the panel shows its bot as it is stored, and the list
\* shows the stored bots that match its filter and no deleted one, however answers and
\* page changes interleave, but for what changed elsewhere or was asked for in parallel.
ShownBotsAreStored ==
  /\ PanelShows /\ ~panelDisturbed /\ OwnPending = {} => panelBot = storedBots[page]
  /\ filterBots(listedBots) \ unseen = filterBots(storedBots) \ unseen
=============================================================================
