------------------------------- MODULE LogFanOut -------------------------------
(***************************************************************************)
(* Live logs of a bot (api/src/logs/logs.controller.ts): the SSE streams   *)
(* of a bot share one subscription to its subject in NATS, which the first *)
(* opens and the last closes.                                              *)
(*                                                                         *)
(* The maps of the controller are keyed by bot: this is one bot's entry.   *)
(* Awaiting the history of a stream lets other requests run; the awaits    *)
(* after it are of promises already resolved, whose continuations run      *)
(* before the next event, so that pendingSubscriptions is empty whenever   *)
(* one is handled.  A response that was ended is never among the clients,  *)
(* and a connection that breaks raises "close": what the keepalive timer   *)
(* and the callback do about ended responses never has an effect.          *)
(***************************************************************************)
EXTENDS Integers, FiniteSets

CONSTANTS
  Viewer,         \* responses: the streams open at once
  MaxSub,         \* bound: subscriptions at once
  MaxMessage      \* bound: lines the bot publishes

ASSUME LogFanOutConstants == MaxSub \in Nat /\ MaxMessage \in Nat

VARIABLES
  streams,        \* how far each request has got
  active,         \* activeSubscriptions: the subscription in it; 0: none
  subs,           \* every subscription: whether NATS calls it back, its clients
  messages,       \* lines published
  due             \* history: lines published since a stream was told it is live,
                  \* and lines it was written

logFanOutVars == <<streams, active, subs, messages, due>>

NoSub == [up |-> FALSE, clients |-> {}]
Idle0 == [owed |-> 0, written |-> 0]

\* Every variable has its type.  "gone": the client left while its history was read;
\* "refused": ended by the server; "unfed": without a subscription, after a warning.
LogFanOutTypeOK ==
  /\ streams \in [Viewer -> {"none", "history", "gone", "refused", "live", "unfed"}]
  /\ active \in 0..MaxSub
  /\ subs \in [1..MaxSub -> [up : BOOLEAN, clients : SUBSET Viewer]]
  /\ messages \in 0..MaxMessage
  /\ due \in [Viewer -> [owed : 0..MaxMessage, written : 0..MaxMessage]]

LogFanOutInit ==
  /\ streams = [v \in Viewer |-> "none"]
  /\ active = 0
  /\ subs = [s \in 1..MaxSub |-> NoSub]
  /\ messages = 0
  /\ due = [v \in Viewer |-> Idle0]

UnusedSubs == {s \in 1..MaxSub : s # active /\ subs[s] = NoSub}

-----------------------------------------------------------------------------
\* The headers are sent; cleanup is registered before the history is awaited.
streamLogs(v) ==
  /\ streams[v] = "none"
  /\ streams' = [streams EXCEPT ![v] = "history"]
  /\ UNCHANGED <<active, subs, messages, due>>

\* Mutation: the subscription goes with any of its clients.
cleanup_Any(v) ==
  IF active # 0
  THEN subs' = [subs EXCEPT ![active] = NoSub] /\ active' = 0
  ELSE UNCHANGED <<active, subs>>

\* Mutation: the last client leaves NATS calling back.
cleanup_KeepsNats(v) ==
  IF active # 0
  THEN LET rest == subs[active].clients \ {v} IN
       /\ subs' = [subs EXCEPT ![active].clients = rest]
       /\ active' = IF rest = {} THEN 0 ELSE active
  ELSE UNCHANGED <<active, subs>>

\* The client leaves the subscription in the map; with the last, it is given up.
cleanup(v) ==
  IF active # 0
  THEN LET rest == subs[active].clients \ {v} IN
       IF rest = {}
       THEN subs' = [subs EXCEPT ![active] = NoSub] /\ active' = 0
       ELSE subs' = [subs EXCEPT ![active].clients = rest] /\ active' = active
  ELSE UNCHANGED <<active, subs>>

Ends(v, state) ==
  /\ streams' = [streams EXCEPT ![v] = state]
  /\ due' = [due EXCEPT ![v] = Idle0]

\* "close": before the history has come, cleanup will run again when it does.
CloseRequest(v) ==
  /\ streams[v] \in {"history", "refused", "live", "unfed"}
  /\ cleanup(v)
  /\ Ends(v, IF streams[v] = "history" THEN "gone" ELSE "none")
  /\ UNCHANGED messages

HistoryForNobody(v) ==
  /\ streams[v] = "gone"
  /\ cleanup(v)
  /\ Ends(v, "none")
  /\ UNCHANGED messages

\* The bot is not the user's: the response is ended.
sendHistoricalLogs(v) ==
  /\ streams[v] = "history"
  /\ Ends(v, "refused")
  /\ UNCHANGED <<active, subs, messages>>

\* The history is sent, or a warning that there is none; the stream joins the
\* subscription in the map ...
setupFanOut(v) ==
  /\ streams[v] = "history" /\ active # 0
  /\ subs' = [subs EXCEPT ![active].clients = @ \cup {v}]
  /\ Ends(v, "live")
  /\ UNCHANGED <<active, messages>>

\* ... or makes one.
createSubscription(v) ==
  /\ streams[v] = "history" /\ active = 0
  /\ \E s \in UnusedSubs :
       /\ subs' = [subs EXCEPT ![s] = [up |-> TRUE, clients |-> {v}]]
       /\ active' = s
  /\ Ends(v, "live")
  /\ UNCHANGED messages

\* NATS is not connected: the client is warned and stays; the next one tries again.
SubscribeFails(v) ==
  /\ streams[v] = "history" /\ active = 0
  /\ Ends(v, "unfed")
  /\ UNCHANGED <<active, subs, messages>>

\* The runtime publishes a line: every subscription NATS knows writes it to its clients.
FanOut ==
  /\ messages < MaxMessage
  /\ messages' = messages + 1
  /\ due' = [v \in Viewer |->
       [owed    |-> due[v].owed + (IF streams[v] = "live" THEN 1 ELSE 0),
        written |-> due[v].written +
          Cardinality({s \in 1..MaxSub : subs[s].up /\ v \in subs[s].clients})]]
  /\ UNCHANGED <<streams, active, subs>>

LogFanOutNext ==
  \/ \E v \in Viewer :
       \/ streamLogs(v) \/ CloseRequest(v) \/ HistoryForNobody(v) \/ sendHistoricalLogs(v)
       \/ setupFanOut(v) \/ createSubscription(v) \/ SubscribeFails(v)
  \/ FanOut

LogFanOutSpec == LogFanOutInit /\ [][LogFanOutNext]_logFanOutVars

-----------------------------------------------------------------------------
(* Properties *)

\* NATS calls back the one subscription that is in the map and has clients, all of them
\* connected: no subscription is left behind, whoever leaves and when.
NoIdleSubscription ==
  \A s \in 1..MaxSub : subs[s].up =>
    /\ s = active
    /\ subs[s].clients # {}
    /\ \A v \in subs[s].clients : streams[v] = "live"

\* A stream that joined is written every line published since, once, whichever other
\* streams come and go.
StreamsMissNothing ==
  \A v \in Viewer : due[v].written = due[v].owed
=============================================================================
