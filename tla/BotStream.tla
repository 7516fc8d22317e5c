-------------------------------- MODULE BotStream --------------------------------
(***************************************************************************)
(* A live view of one custom bot: the class SSEClient (lib/sse), the hook  *)
(* useSSEClient around an instance of it, and the hook useCustomBotSSE     *)
(* around that (hooks/sse).  The bots' names are their streams' URLs.  The *)
(* server is any that may accept, fail or end a stream.                    *)
(*                                                                         *)
(* A connect of useSSEClient depends on the callbacks it is given: when    *)
(* what they depend on changes, the effect's cleanup and a new connect     *)
(* follow in the same step.                                                *)
(***************************************************************************)
EXTENDS Integers, FiniteSets

CONSTANTS
  Watched,               \* names of custom bots
  Nothing,               \* no bot, no URL
  maxReconnectAttempts,
  MaxSource              \* bound: EventSources at once, more than the code may have

ASSUME StreamConstants ==
  /\ Nothing \notin Watched /\ maxReconnectAttempts \in Nat /\ MaxSource \in Nat \ {0}

Source == 1..MaxSource

VARIABLES
  client,         \* the SSEClient, and the EventSources and timers it started
  disconnectRef,  \* the URL that the hook's disconnect function is for
  connected,      \* the hook's state
  botName, signedIn, mounted,
  bot, loaded, error,   \* useCustomBotSSE: what is shown, initialLoadComplete, the error
  fetchingBots,       \* bots whose fetch is in flight; one may stand for several
  reconnects,     \* 100 ms timers of reconnect(): the URL of the connect they call
  strayed         \* history: such a timer has fired after the hook had moved on

viewStreamVars == <<client, disconnectRef, connected, botName, signedIn, mounted, bot, loaded,
                error, fetchingBots, reconnects, strayed>>

\* Every variable has its type.
StreamTypeOK ==
  /\ client \in [live : [Source -> Watched \cup {Nothing}], open : SUBSET Source,
                 connections : [Watched -> Source \cup {0}],
                 reconnectAttempts : [Watched -> 0..maxReconnectAttempts],
                 timers : [Watched -> Nat], reconnectTimeouts : [Watched -> BOOLEAN]]
  /\ {disconnectRef, bot} \subseteq Watched \cup {Nothing} /\ botName \in Watched
  /\ {connected, signedIn, mounted, loaded, strayed} \subseteq BOOLEAN
  /\ error \in {"none", "retrying", "failed"}
  /\ fetchingBots \subseteq Watched /\ reconnects \subseteq Watched

-----------------------------------------------------------------------------
(* SSEClient *)

Closed(c, s) == [c EXCEPT !.live = [x \in Source |-> IF x = s THEN Nothing ELSE @[x]],
                          !.open = @ \ {s}]

\* Mutation: the timer is left alone.
disconnect_KeepsTimer(c, url) ==
  [Closed(c, c.connections[url]) EXCEPT !.connections[url] = 0, !.reconnectAttempts[url] = 0]

disconnect(c, url) ==
  [Closed(c, c.connections[url]) EXCEPT
     !.connections[url] = 0,
     !.timers[url] = IF c.reconnectTimeouts[url] THEN @ - 1 ELSE @,
     !.reconnectTimeouts[url] = FALSE,
     !.reconnectAttempts[url] = 0]

OpenSource(c, url) ==
  LET s == CHOOSE x \in Source : c.live[x] = Nothing
  IN [c EXCEPT !.live[s] = url, !.connections[url] = s]

connect(c, url) == OpenSource(disconnect(c, url), url)

\* The EventSource is closed, and another is to follow after the delay.
SourceFailed(c, url) ==
  LET attempts == c.reconnectAttempts[url]
      closed == [Closed(c, c.connections[url]) EXCEPT !.connections[url] = 0]
  IN IF attempts < maxReconnectAttempts
     THEN [closed EXCEPT !.reconnectAttempts[url] = attempts + 1,
                         !.timers[url] = @ + 1, !.reconnectTimeouts[url] = TRUE]
     ELSE [closed EXCEPT !.reconnectAttempts[url] = 0]

-----------------------------------------------------------------------------
(* useSSEClient *)

CleanUp(c, ref) == IF ref = Nothing THEN c ELSE disconnect(c, ref)

\* The effect runs again: its cleanup, and connect when there is a user.
RunEffect(c, url, user) ==
  /\ client' = IF user THEN connect(CleanUp(c, disconnectRef), url) ELSE CleanUp(c, disconnectRef)
  /\ disconnectRef' = IF user THEN url ELSE Nothing

\* The state of useCustomBotSSE that the callbacks depend on is set; an unmounted
\* component has none.
SetState(c, l, e) ==
  /\ IF mounted THEN loaded' = l /\ error' = e ELSE UNCHANGED <<loaded, error>>
  /\ IF mounted /\ (l # loaded \/ e # error)
     THEN RunEffect(c, botName, signedIn)
     ELSE client' = c /\ UNCHANGED disconnectRef

StreamInit ==
  /\ botName \in Watched /\ signedIn = TRUE /\ mounted = TRUE
  /\ client = connect([live |-> [s \in Source |-> Nothing], open |-> {},
                       connections |-> [b \in Watched |-> 0],
                       reconnectAttempts |-> [b \in Watched |-> 0],
                       timers |-> [b \in Watched |-> 0],
                       reconnectTimeouts |-> [b \in Watched |-> FALSE]], botName)
  /\ disconnectRef = botName /\ connected = FALSE
  /\ bot = Nothing /\ loaded = FALSE /\ error = "none"
  /\ fetchingBots = {} /\ reconnects = {} /\ strayed = FALSE

\* handleOpen, and handleSSEConnected, which takes a connection error away.
onopen(s) ==
  /\ client.live[s] # Nothing /\ s \notin client.open /\ connected' = TRUE
  /\ LET c == [client EXCEPT !.open = @ \cup {s}, !.reconnectAttempts[client.live[s]] = 0]
     IN SetState(c, loaded, IF error = "retrying" THEN "none" ELSE error)
  /\ UNCHANGED <<botName, signedIn, mounted, bot, fetchingBots, reconnects, strayed>>

\* An update of the bot; keepalives and confirmations change nothing.
onmessage(s) ==
  /\ s \in client.open
  /\ bot' = client.live[s] /\ SetState(client, TRUE, "none")
  /\ UNCHANGED <<connected, botName, signedIn, mounted, fetchingBots, reconnects, strayed>>

\* handleError, and handleSSEError: until there is data it is fetched.
HandleError(c) ==
  /\ connected' = FALSE
  /\ IF loaded THEN SetState(c, TRUE, "retrying") /\ UNCHANGED fetchingBots
               ELSE SetState(c, FALSE, "none") /\ fetchingBots' = fetchingBots \cup {botName}
  /\ UNCHANGED <<botName, signedIn, mounted, bot, reconnects, strayed>>

\* An error message, or one that cannot be parsed; the stream goes on.
ErrorMessage(s) == s \in client.open /\ HandleError(client)

\* The stream is refused or breaks.
onerror(s) == client.live[s] # Nothing /\ HandleError(SourceFailed(client, client.live[s]))

RetryTimer(url) ==
  /\ client.timers[url] > 0
  /\ client' = OpenSource([client EXCEPT !.timers[url] = @ - 1,
                                         !.reconnectTimeouts[url] = FALSE], url)
  /\ UNCHANGED <<disconnectRef, connected, botName, signedIn, mounted, bot, loaded, error,
                 fetchingBots, reconnects, strayed>>

\* reconnect(): its timer holds the connect of the current render.  Signed out, there is no
\* token to connect with.
reconnect ==
  /\ mounted /\ signedIn /\ connected' = FALSE
  /\ client' = CleanUp(client, disconnectRef) /\ disconnectRef' = Nothing
  /\ reconnects' = reconnects \cup {botName}
  /\ UNCHANGED <<botName, signedIn, mounted, bot, loaded, error, fetchingBots, strayed>>

ReconnectTimer(url) ==
  /\ url \in reconnects /\ reconnects' = reconnects \ {url}
  /\ IF signedIn
     THEN /\ client' = connect(CleanUp(client, disconnectRef), url) /\ disconnectRef' = url
          /\ strayed' = (strayed \/ ~mounted \/ url # botName)
     ELSE UNCHANGED <<client, disconnectRef, strayed>>
  /\ UNCHANGED <<connected, botName, signedIn, mounted, bot, loaded, error, fetchingBots>>

-----------------------------------------------------------------------------
(* useCustomBotSSE *)

\* After four seconds without data, or when the user asks.
fetchCustomBot ==
  /\ mounted /\ signedIn
  /\ SetState(client, loaded, "none") /\ fetchingBots' = fetchingBots \cup {botName}
  /\ UNCHANGED <<connected, botName, signedIn, mounted, bot, reconnects, strayed>>

\* The answer, for whichever bot was asked for; none is expected after the unmount.
FetchAnswered(b) ==
  /\ mounted /\ b \in fetchingBots /\ fetchingBots' \in {fetchingBots, fetchingBots \ {b}}
  /\ \/ bot' = b /\ SetState(client, TRUE, error)
     \/ bot' = Nothing /\ SetState(client, loaded, "failed")
  /\ UNCHANGED <<connected, botName, signedIn, mounted, reconnects, strayed>>

\* Another bot: what was loaded stays until data of the new one arrives.
ShowBot(b) ==
  /\ mounted /\ b # botName /\ botName' = b
  /\ RunEffect(client, b, signedIn)
  /\ UNCHANGED <<connected, signedIn, mounted, bot, loaded, error, fetchingBots, reconnects,
                 strayed>>

\* Without a user there is no stream, nothing to show and nothing more to load.
UserChanges ==
  /\ mounted /\ signedIn' = ~signedIn
  /\ RunEffect(client, botName, ~signedIn)
  /\ IF signedIn THEN bot' = Nothing /\ loaded' = TRUE /\ error' = "failed"
                 ELSE UNCHANGED <<bot, loaded, error>>
  /\ UNCHANGED <<connected, botName, mounted, fetchingBots, reconnects, strayed>>

UnmountView ==
  /\ mounted /\ mounted' = FALSE
  /\ client' = CleanUp(client, disconnectRef) /\ disconnectRef' = Nothing
  /\ UNCHANGED <<connected, botName, signedIn, bot, loaded, error, fetchingBots, reconnects,
                 strayed>>

StreamNext ==
  \/ \E s \in Source : onopen(s) \/ onmessage(s) \/ ErrorMessage(s) \/ onerror(s)
  \/ \E b \in Watched : RetryTimer(b) \/ ReconnectTimer(b) \/ FetchAnswered(b) \/ ShowBot(b)
  \/ reconnect \/ fetchCustomBot \/ UserChanges \/ UnmountView

StreamSpec == StreamInit /\ [][StreamNext]_viewStreamVars

-----------------------------------------------------------------------------
(* Properties *)

\* The hook has at most one EventSource or retry under way, for the bot that is shown, and
\* none without a user or once it is unmounted, however errors, retries and changes of its
\* callbacks interleave, unless a timer of reconnect() outlived what it was set for.
OneStreamPerView ==
  LET sources == {s \in Source : client.live[s] # Nothing}
      waiting == {b \in Watched : client.timers[b] > 0}
  IN strayed \/
       /\ Cardinality(sources) + Cardinality(waiting) <= 1
       /\ \A b \in Watched : client.timers[b] <= 1
       /\ \A s \in sources : client.live[s] = botName /\ client.connections[botName] = s
       /\ waiting \subseteq {botName}
       /\ ~mounted \/ ~signedIn => sources \cup waiting = {}
=============================================================================
