------------------------------ MODULE LogsProofs -------------------------------
(* Theorems about the live streams of the logs (LogFanOut), the view of them in the  *)
(* browser (LogView), and the pages of the logs of the last days (LogPages).         *)
EXTENDS LogFanOut, LogView, LogPages, FiniteSetTheorems, TLAPS

-----------------------------------------------------------------------------
(* Live streams: the inductive invariant.                                    *)

\* Only the subscription in the map is anything: it is up, and its clients are the
\* streams that were told they are live.
OneSubscription ==
  /\ \A s \in 1..MaxSub : s # active => subs[s] = NoSub
  /\ active # 0 => subs[active].up /\ subs[active].clients # {}
  /\ \A v \in Viewer : streams[v] = "live" <=> active # 0 /\ v \in subs[active].clients

\* What is owed was written, and was published.
Served ==
  \A v \in Viewer : due[v].written = due[v].owed /\ due[v].owed <= messages

FanOutInv == LogFanOutTypeOK /\ OneSubscription /\ Served

-----------------------------------------------------------------------------
LEMMA IdleTyped ==
  Idle0 \in [owed : 0..MaxMessage, written : 0..MaxMessage] /\ Idle0.owed = 0 /\ Idle0.written = 0
  BY LogFanOutConstants DEF Idle0

LEMMA FanOutInvInit == LogFanOutInit => FanOutInv
<1> SUFFICES ASSUME LogFanOutInit PROVE FanOutInv
  OBVIOUS
<1> USE LogFanOutConstants
<1>1. LogFanOutTypeOK
  BY IdleTyped DEF LogFanOutInit, LogFanOutTypeOK, NoSub
<1>2. OneSubscription /\ Served
  BY IdleTyped DEF LogFanOutInit, OneSubscription, Served, NoSub
<1> QED BY <1>1, <1>2 DEF FanOutInv

\* A stream that ends, and leaves the subscription if it was of it.
LEMMA LeaveKeeps ==
  ASSUME FanOutInv, NEW v \in Viewer, cleanup(v), UNCHANGED messages,
         NEW state \in {"none", "gone"}, Ends(v, state)
  PROVE  FanOutInv'
<1> USE LogFanOutConstants
<1>1. LogFanOutTypeOK'
  <2>1. active' \in 0..MaxSub /\ subs' \in [1..MaxSub -> [up : BOOLEAN, clients : SUBSET Viewer]]
    <3>1. CASE active = 0
      BY <3>1 DEF FanOutInv, LogFanOutTypeOK, cleanup
    <3>2. CASE active # 0 /\ subs[active].clients \ {v} = {}
      <4>1. NoSub \in [up : BOOLEAN, clients : SUBSET Viewer]
        BY DEF NoSub
      <4>2. active' = 0 /\ subs' = [subs EXCEPT ![active] = NoSub]
        BY <3>2 DEF cleanup
      <4>3. active' \in 0..MaxSub
        BY <4>2
      <4>4. subs \in [1..MaxSub -> [up : BOOLEAN, clients : SUBSET Viewer]]
        BY DEF FanOutInv, LogFanOutTypeOK
      <4> QED BY <4>1, <4>2, <4>3, <4>4
    <3>3. CASE active # 0 /\ subs[active].clients \ {v} # {}
      BY <3>3 DEF FanOutInv, LogFanOutTypeOK, cleanup
    <3> QED BY <3>1, <3>2, <3>3
  <2> QED BY <2>1, IdleTyped DEF FanOutInv, LogFanOutTypeOK, Ends
<1>2. \A w \in Viewer : streams'[w] = IF w = v THEN state ELSE streams[w]
  BY DEF FanOutInv, LogFanOutTypeOK, Ends
<1>3. OneSubscription'
  <2>1. CASE active = 0
    BY <2>1, <1>2 DEF FanOutInv, OneSubscription, cleanup
  <2>2. CASE active # 0 /\ subs[active].clients \ {v} = {}
    <3>1. active' = 0 /\ subs' = [subs EXCEPT ![active] = NoSub]
      BY <2>2 DEF cleanup
    <3>2. \A s \in 1..MaxSub : subs'[s] = NoSub
      BY <3>1, <2>2 DEF FanOutInv, LogFanOutTypeOK, OneSubscription
    <3>3. \A w \in Viewer : streams'[w] # "live"
      BY <2>2, <1>2 DEF FanOutInv, OneSubscription
    <3> QED BY <3>1, <3>2, <3>3 DEF OneSubscription
  <2>3. CASE active # 0 /\ subs[active].clients \ {v} # {}
    <3>1. active' = active /\ subs' = [subs EXCEPT ![active].clients = subs[active].clients \ {v}]
      BY <2>3 DEF cleanup
    <3>2. active \in 1..MaxSub
      BY <2>3 DEF FanOutInv, LogFanOutTypeOK
    <3>3. /\ subs'[active].up /\ subs'[active].clients = subs[active].clients \ {v}
          /\ \A s \in 1..MaxSub : s # active => subs'[s] = subs[s]
      BY <2>3, <3>1, <3>2 DEF FanOutInv, LogFanOutTypeOK, OneSubscription
    <3> QED BY <3>1, <3>2, <3>3, <2>3, <1>2 DEF FanOutInv, OneSubscription
  <2> QED BY <2>1, <2>2, <2>3
<1>4. Served'
  BY IdleTyped DEF FanOutInv, LogFanOutTypeOK, Served, Ends
<1> QED BY <1>1, <1>3, <1>4 DEF FanOutInv

\* A stream that ends without having been live.
LEMMA EndKeeps ==
  ASSUME FanOutInv, NEW v \in Viewer, UNCHANGED <<active, subs, messages>>, streams[v] # "live",
         NEW state \in {"refused", "unfed"}, Ends(v, state)
  PROVE  FanOutInv'
<1> USE LogFanOutConstants
<1>1. LogFanOutTypeOK'
  BY IdleTyped DEF FanOutInv, LogFanOutTypeOK, Ends
<1>2. OneSubscription'
  BY DEF FanOutInv, LogFanOutTypeOK, OneSubscription, Ends
<1>3. Served'
  BY IdleTyped DEF FanOutInv, LogFanOutTypeOK, Served, Ends
<1> QED BY <1>1, <1>2, <1>3 DEF FanOutInv

\* A stream that becomes live joins the clients of the subscription s, or starts it.
LEMMA JoinKeeps ==
  ASSUME FanOutInv, NEW v \in Viewer, NEW s \in 1..MaxSub, UNCHANGED messages, Ends(v, "live"),
         active' = s,
         NEW clients \in SUBSET Viewer,
         \A w \in Viewer : w \in clients <=> streams[w] = "live",
         subs' \in [1..MaxSub -> [up : BOOLEAN, clients : SUBSET Viewer]],
         subs'[s].up, subs'[s].clients = clients \cup {v},
         \A t \in 1..MaxSub : t # s => subs'[t] = NoSub
  PROVE  FanOutInv'
<1> USE LogFanOutConstants
<1>1. LogFanOutTypeOK'
  BY IdleTyped DEF FanOutInv, LogFanOutTypeOK, Ends
<1>2. \A w \in Viewer : streams'[w] = IF w = v THEN "live" ELSE streams[w]
  BY DEF FanOutInv, LogFanOutTypeOK, Ends
<1>3. OneSubscription'
  BY <1>2 DEF OneSubscription
<1>4. Served'
  BY IdleTyped DEF FanOutInv, LogFanOutTypeOK, Served, Ends
<1> QED BY <1>1, <1>3, <1>4 DEF FanOutInv

\* Exactly one subscription writes to a live stream, and none to another.
LEMMA WrittenOnce ==
  ASSUME FanOutInv, NEW v \in Viewer
  PROVE  Cardinality({s \in 1..MaxSub : subs[s].up /\ v \in subs[s].clients})
           = IF streams[v] = "live" THEN 1 ELSE 0
<1> DEFINE S == {s \in 1..MaxSub : subs[s].up /\ v \in subs[s].clients}
<1>1. CASE streams[v] = "live"
  <2>1. active \in 1..MaxSub /\ subs[active].up /\ v \in subs[active].clients
    BY <1>1, LogFanOutConstants DEF FanOutInv, LogFanOutTypeOK, OneSubscription
  <2>2. \A s \in 1..MaxSub : s # active => ~subs[s].up
    BY DEF FanOutInv, OneSubscription, NoSub
  <2>3. S = {active}
    BY <2>1, <2>2
  <2> QED BY <1>1, <2>3, FS_Singleton
<1>2. CASE streams[v] # "live"
  <2>1. \A s \in 1..MaxSub : ~(subs[s].up /\ v \in subs[s].clients)
    BY <1>2 DEF FanOutInv, OneSubscription, NoSub
  <2>2. S = {}
    BY <2>1
  <2> QED BY <1>2, <2>2, FS_EmptySet
<1> QED BY <1>1, <1>2

LEMMA FanOutKeeps == FanOutInv /\ FanOut => FanOutInv'
<1> SUFFICES ASSUME FanOutInv, FanOut PROVE FanOutInv'
  OBVIOUS
<1> USE LogFanOutConstants
<1>1. \A v \in Viewer : due'[v] =
        [owed    |-> due[v].owed + (IF streams[v] = "live" THEN 1 ELSE 0),
         written |-> due[v].written + (IF streams[v] = "live" THEN 1 ELSE 0)]
  <2> TAKE v \in Viewer
  <2> QED BY WrittenOnce DEF FanOut
<1>2. messages \in Nat /\ messages' = messages + 1 /\ messages' \in 0..MaxMessage
  BY DEF FanOut, FanOutInv, LogFanOutTypeOK
<1>3. \A v \in Viewer : /\ due'[v].written = due'[v].owed
                        /\ due'[v].owed \in 0..messages'
  <2> TAKE v \in Viewer
  <2>1. due[v].owed \in Nat /\ due[v].written = due[v].owed /\ due[v].owed <= messages
    BY DEF FanOutInv, LogFanOutTypeOK, Served
  <2>2. CASE streams[v] = "live"
    <3>1. due'[v] = [owed |-> due[v].owed + 1, written |-> due[v].written + 1]
      BY <1>1, <2>2
    <3>2. due'[v].owed = due[v].owed + 1 /\ due'[v].written = due[v].owed + 1
      BY <3>1, <2>1
    <3> QED BY <3>2, <1>2, <2>1
  <2>3. CASE streams[v] # "live"
    <3>1. due'[v] = [owed |-> due[v].owed + 0, written |-> due[v].written + 0]
      BY <1>1, <2>3
    <3>2. due'[v].owed = due[v].owed /\ due'[v].written = due[v].owed
      BY <3>1, <2>1
    <3> QED BY <3>2, <1>2, <2>1
  <2> QED BY <2>2, <2>3
<1>4. due' \in [Viewer -> [owed : 0..MaxMessage, written : 0..MaxMessage]]
  <2>1. \A v \in Viewer : due'[v] \in [owed : 0..MaxMessage, written : 0..MaxMessage]
    <3> TAKE v \in Viewer
    <3>1. PICK o, w : due'[v] = [owed |-> o, written |-> w]
      BY <1>1
    <3>2. due'[v].owed \in 0..MaxMessage /\ due'[v].written \in 0..MaxMessage
      BY <1>2, <1>3
    <3> QED BY <3>1, <3>2
  <2>2. due' = [v \in Viewer |-> due'[v]]
    BY DEF FanOut
  <2> QED BY <2>1, <2>2
<1>5. LogFanOutTypeOK'
  BY <1>2, <1>4 DEF FanOut, FanOutInv, LogFanOutTypeOK
<1>6. OneSubscription'
  BY DEF FanOut, FanOutInv, OneSubscription
<1>7. Served'
  BY <1>2, <1>3 DEF Served
<1> QED BY <1>5, <1>6, <1>7 DEF FanOutInv

LEMMA FanOutInvStep == FanOutInv /\ [LogFanOutNext]_logFanOutVars => FanOutInv'
<1> SUFFICES ASSUME FanOutInv, [LogFanOutNext]_logFanOutVars PROVE FanOutInv'
  OBVIOUS
<1> USE LogFanOutConstants
<1>1. ASSUME NEW v \in Viewer, streamLogs(v) PROVE FanOutInv'
  BY <1>1 DEF streamLogs, FanOutInv, LogFanOutTypeOK, OneSubscription, Served
<1>2. ASSUME NEW v \in Viewer, CloseRequest(v) PROVE FanOutInv'
  <2>1. CASE streams[v] = "history"
    BY <1>2, <2>1, LeaveKeeps DEF CloseRequest
  <2>2. CASE streams[v] # "history"
    BY <1>2, <2>2, LeaveKeeps DEF CloseRequest
  <2> QED BY <2>1, <2>2
<1>3. ASSUME NEW v \in Viewer, HistoryForNobody(v) PROVE FanOutInv'
  BY <1>3, LeaveKeeps DEF HistoryForNobody
<1>4. ASSUME NEW v \in Viewer, sendHistoricalLogs(v) PROVE FanOutInv'
  BY <1>4, EndKeeps DEF sendHistoricalLogs
<1>5. ASSUME NEW v \in Viewer, setupFanOut(v) PROVE FanOutInv'
  <2>1. active \in 1..MaxSub /\ active' = active
    BY <1>5 DEF setupFanOut, FanOutInv, LogFanOutTypeOK
  <2>2. /\ subs[active].clients \in SUBSET Viewer
        /\ \A w \in Viewer : w \in subs[active].clients <=> streams[w] = "live"
        /\ \A t \in 1..MaxSub : t # active => subs[t] = NoSub
    BY <1>5, <2>1 DEF setupFanOut, FanOutInv, LogFanOutTypeOK, OneSubscription
  <2>3. /\ subs' \in [1..MaxSub -> [up : BOOLEAN, clients : SUBSET Viewer]]
        /\ subs'[active].up /\ subs'[active].clients = subs[active].clients \cup {v}
        /\ \A t \in 1..MaxSub : t # active => subs'[t] = NoSub
    BY <1>5, <2>1, <2>2 DEF setupFanOut, FanOutInv, LogFanOutTypeOK, OneSubscription
  <2> QED BY <1>5, <2>1, <2>2, <2>3, JoinKeeps DEF setupFanOut
<1>6. ASSUME NEW v \in Viewer, createSubscription(v) PROVE FanOutInv'
  <2>1. PICK s \in UnusedSubs : /\ subs' = [subs EXCEPT ![s] = [up |-> TRUE, clients |-> {v}]]
                                /\ active' = s
    BY <1>6 DEF createSubscription
  <2>2. \A w \in Viewer : w \in {} <=> streams[w] = "live"
    BY <1>6 DEF createSubscription, FanOutInv, OneSubscription
  <2>3. s \in 1..MaxSub /\ \A t \in 1..MaxSub : t # s => subs[t] = NoSub
    BY <1>6, <2>1 DEF createSubscription, UnusedSubs, FanOutInv, OneSubscription
  <2>4. /\ subs' \in [1..MaxSub -> [up : BOOLEAN, clients : SUBSET Viewer]]
        /\ subs'[s].up /\ subs'[s].clients = {} \cup {v}
        /\ \A t \in 1..MaxSub : t # s => subs'[t] = NoSub
    BY <2>1, <2>3 DEF FanOutInv, LogFanOutTypeOK
  <2>5. {} \in SUBSET Viewer /\ UNCHANGED messages /\ Ends(v, "live")
    BY <1>6 DEF createSubscription
  <2> QED BY <2>5, <2>1, <2>2, <2>3, <2>4, JoinKeeps
<1>7. ASSUME NEW v \in Viewer, SubscribeFails(v) PROVE FanOutInv'
  BY <1>7, EndKeeps DEF SubscribeFails
<1>8. CASE FanOut
  BY <1>8, FanOutKeeps
<1>9. CASE UNCHANGED logFanOutVars
  BY <1>9 DEF logFanOutVars, FanOutInv, LogFanOutTypeOK, OneSubscription, Served
<1> QED BY <1>1, <1>2, <1>3, <1>4, <1>5, <1>6, <1>7, <1>8, <1>9 DEF LogFanOutNext

LEMMA FanOutInvAlways == LogFanOutSpec => []FanOutInv
  BY FanOutInvInit, FanOutInvStep, PTL DEF LogFanOutSpec

-----------------------------------------------------------------------------
\* For any number of streams, NATS calls back only the subscription in the map, which
\* has clients, all of them live (cleanup and createSubscription of logs.controller.ts).
THEOREM SubscriptionsEnd == LogFanOutSpec => []NoIdleSubscription
<1>1. FanOutInv => NoIdleSubscription
  BY LogFanOutConstants DEF FanOutInv, LogFanOutTypeOK, OneSubscription, NoIdleSubscription, NoSub
<1> QED BY <1>1, FanOutInvAlways, PTL

\* Each live stream is written every line published since it joined, exactly once.
THEOREM EveryLineOnce == LogFanOutSpec => []StreamsMissNothing
<1>1. FanOutInv => StreamsMissNothing
  BY DEF FanOutInv, Served, StreamsMissNothing
<1> QED BY <1>1, FanOutInvAlways, PTL

\* Every variable of LogFanOut has its type in every reachable state.
THEOREM FanOutTypeCorrect == LogFanOutSpec => []LogFanOutTypeOK
<1>1. FanOutInv => LogFanOutTypeOK
  BY DEF FanOutInv
<1> QED BY <1>1, FanOutInvAlways, PTL

-----------------------------------------------------------------------------
(* Log view: the inductive invariant.                                        *)

\* The next page of earlier lines is only asked for where one may be.
OffsetInReach ==
  fetching.kind = "prepend" => fetching.offset + Limit <= MaxLine

\* While a replace is in flight every line delivered since it began is held back, and
\* no page has been added.
ReplaceHoldsBack ==
  fetching.kind = "replace" =>
    ~historyLoaded /\ fresh \subseteq LinesOf(pendingUpdates) /\ paged = {}

\* Pages have been added only since the view last was at its first page.
PagedIsPaginated == paged # {} => paginated

ViewInv ==
  /\ LogViewTypeOK /\ OffsetInReach /\ ReplaceHoldsBack /\ PagedIsPaginated
  /\ LiveLinesSurvive /\ OneSourceOfUpdates /\ AddedPagesStay

-----------------------------------------------------------------------------
\* Lines of two sets of entries.
LEMMA LinesOfUnion ==
  ASSUME NEW A, NEW B PROVE LinesOf(A \cup B) = LinesOf(A) \cup LinesOf(B)
  BY DEF LinesOf

LEMMA LinesOfSubset ==
  ASSUME NEW A \in SUBSET Entry PROVE LinesOf(A) \subseteq 1..MaxLine
  BY DEF LinesOf, Entry

\* A page holds lines that the server has.
LEMMA PageTyped ==
  ASSUME NEW m, NEW snap \in 0..MaxLine, NEW off \in 0..MaxLine
  PROVE  Page(m, snap, off) \subseteq Entry /\ PageHasMore(m, snap, off) \in BOOLEAN
<1> USE LogViewConstants
<1>1. \A i \in 1..snap : i \in 1..MaxLine
  OBVIOUS
<1>2. \A i \in 1..MaxLine : [line |-> i, from |-> "rest"] \in Entry
  BY DEF Entry
<1>3. Page(m, snap, off) \subseteq {[line |-> i, from |-> "rest"] : i \in 1..snap}
  BY DEF Page
<1>4. PageHasMore(m, snap, off) \in BOOLEAN
  <2>1. (snap >= Limit) \in BOOLEAN /\ (snap > off + Limit) \in BOOLEAN
    OBVIOUS
  <2>2. CASE m = "today"
    BY <2>1, <2>2, Zenon DEF PageHasMore
  <2>3. CASE m # "today"
    BY <2>1, <2>3, Zenon DEF PageHasMore
  <2> QED BY <2>2, <2>3
<1> QED BY <1>1, <1>2, <1>3, <1>4

\* The request that is started, field by field.
LEMMA FetchTyped ==
  /\ NoFetch \in Fetch /\ NoFetch.kind = "none"
  /\ LET f == [NoFetch EXCEPT !.kind = "replace"] IN
     f \in Fetch /\ f.kind = "replace"
<1> USE LogViewConstants
<1>1. 0 \in 0..MaxLine
  OBVIOUS
<1>2. NoFetch \in Fetch /\ NoFetch.kind = "none"
  BY <1>1 DEF NoFetch, Fetch
<1>3. LET f == [NoFetch EXCEPT !.kind = "replace"] IN f \in Fetch /\ f.kind = "replace"
  BY <1>1 DEF NoFetch, Fetch
<1> QED BY <1>2, <1>3

\* The request that BeginFetch starts.
LEMMA BegunTyped ==
  ASSUME NEW kind \in {"replace", "append", "prepend"}, NEW off \in 0..MaxLine,
         historyLoaded \in BOOLEAN, BeginFetch(kind, off)
  PROVE  fetching' \in Fetch /\ fetching'.kind = kind /\ fetching'.offset = off
<1> USE LogViewConstants
<1>1. fetching' = [kind |-> kind, offset |-> off, was |-> historyLoaded, read |-> FALSE, snap |-> 0]
  BY DEF BeginFetch, NoFetch
<1>2. 0 \in 0..MaxLine
  OBVIOUS
<1> QED BY <1>1, <1>2, Zenon DEF Fetch

LEMMA ViewInvInit == LogViewInit => ViewInv
<1> SUFFICES ASSUME LogViewInit PROVE ViewInv
  OBVIOUS
<1> USE LogViewConstants
<1>1. LogViewTypeOK
  <2>1. 0 \in 0..MaxLine /\ 0 \in 0..0
    OBVIOUS
  <2> QED BY <2>1, FetchTyped, Zenon DEF LogViewInit, LogViewTypeOK
<1>2. OffsetInReach /\ ReplaceHoldsBack
  BY FetchTyped DEF LogViewInit, OffsetInReach, ReplaceHoldsBack
<1>3. PagedIsPaginated /\ LiveLinesSurvive /\ OneSourceOfUpdates /\ AddedPagesStay
  BY DEF LogViewInit, PagedIsPaginated, LiveLinesSurvive, OneSourceOfUpdates, AddedPagesStay, liveMode
<1> QED BY <1>1, <1>2, <1>3 DEF ViewInv

-----------------------------------------------------------------------------
(* Each kind of step. *)

\* The stream and polling are as good as they were, when nothing of them changes.
LEMMA SourceKept ==
  ASSUME OneSourceOfUpdates, UNCHANGED <<mode, stream, polling>>
  PROVE  OneSourceOfUpdates'
  BY DEF OneSourceOfUpdates, liveMode

\* A step of the server changes nothing that is seen.
LEMMA ServerKeeps ==
  ASSUME ViewInv, PublishLine \/ StoreLines \/ ServerReads PROVE ViewInv'
<1> USE LogViewConstants
<1>1. UNCHANGED <<mode, shown, pendingUpdates, historyLoaded, pageVars, streamVars, historyVars>>
  BY DEF PublishLine, StoreLines, ServerReads
<1>2. published' \in 0..MaxLine /\ stored' \in 0..published'
  BY DEF PublishLine, StoreLines, ServerReads, ViewInv, LogViewTypeOK, serverVars
<1>3. fetching' \in Fetch /\ fetching'.kind = fetching.kind /\ fetching'.offset = fetching.offset
  <2>1. CASE fetching' = fetching
    BY <2>1 DEF ViewInv, LogViewTypeOK
  <2>2. CASE ServerReads
    <3>1. stored \in 0..MaxLine
      BY DEF ViewInv, LogViewTypeOK
    <3>2. fetching' = [fetching EXCEPT !.read = TRUE, !.snap = stored] /\ fetching \in Fetch
      BY <2>2 DEF ServerReads, ViewInv, LogViewTypeOK
    <3> QED BY <3>1, <3>2 DEF Fetch
  <2> QED BY <2>1, <2>2 DEF PublishLine, StoreLines
<1>4. LogViewTypeOK'
  BY <1>1, <1>2, <1>3 DEF ViewInv, LogViewTypeOK, pageVars, streamVars, historyVars
<1>5. OffsetInReach' /\ ReplaceHoldsBack' /\ PagedIsPaginated' /\ LiveLinesSurvive'
        /\ AddedPagesStay'
  BY <1>1, <1>3 DEF ViewInv, OffsetInReach, ReplaceHoldsBack, PagedIsPaginated, LiveLinesSurvive,
                    AddedPagesStay, LinesOf, pageVars, streamVars, historyVars
<1>6. OneSourceOfUpdates'
  BY <1>1, SourceKept DEF ViewInv, streamVars
<1> QED BY <1>4, <1>5, <1>6 DEF ViewInv

\* The history lands and takes what was held back with it.
LEMMA ReplaceLands == ASSUME ViewInv, fetchLogs PROVE ViewInv'
<1> USE LogViewConstants
<1>1. Page(mode, fetching.snap, fetching.offset) \subseteq Entry
      /\ PageHasMore(mode, fetching.snap, fetching.offset) \in BOOLEAN
  BY PageTyped DEF ViewInv, LogViewTypeOK, Fetch
<1>2. fetching' = NoFetch /\ pendingUpdates' = {}
      /\ shown' = Page(mode, fetching.snap, fetching.offset) \cup pendingUpdates
  BY DEF fetchLogs
<1>3. LogViewTypeOK'
  <2>1. /\ hasMore' \in BOOLEAN /\ hasEarlier' \in BOOLEAN
    BY Zenon DEF fetchLogs
  <2>2. shown' \subseteq Entry /\ pendingUpdates' \subseteq Entry /\ earlierOffset' \in 0..MaxLine
    BY <1>1 DEF fetchLogs, ViewInv, LogViewTypeOK
  <2> QED BY <2>1, <2>2, FetchTyped, Zenon
          DEF fetchLogs, ViewInv, LogViewTypeOK, serverVars, streamVars
<1>4. OffsetInReach' /\ ReplaceHoldsBack'
  BY <1>2, FetchTyped DEF OffsetInReach, ReplaceHoldsBack
<1>5. fresh \subseteq LinesOf(pendingUpdates) /\ paged = {}
  BY DEF fetchLogs, ViewInv, ReplaceHoldsBack
<1>6. LiveLinesSurvive' /\ AddedPagesStay' /\ PagedIsPaginated'
  <2>1. fresh' = fresh /\ paged' = {}
    BY <1>5 DEF fetchLogs
  <2>2. shown' \cup pendingUpdates' = Page(mode, fetching.snap, fetching.offset) \cup pendingUpdates
    BY <1>2
  <2>3. LinesOf(pendingUpdates) \subseteq LinesOf(shown' \cup pendingUpdates')
    BY <2>2, LinesOfUnion
  <2> QED BY <1>5, <2>1, <2>3 DEF LiveLinesSurvive, AddedPagesStay, PagedIsPaginated, LinesOf
<1>7. OneSourceOfUpdates'
  BY SourceKept DEF fetchLogs, ViewInv, streamVars
<1> QED BY <1>3, <1>4, <1>6, <1>7 DEF ViewInv

LEMMA PageLands == ASSUME ViewInv, PageArrives PROVE ViewInv'
<1> USE LogViewConstants
<1> DEFINE page == Page(mode, fetching.snap, fetching.offset)
<1>1. page \subseteq Entry /\ PageHasMore(mode, fetching.snap, fetching.offset) \in BOOLEAN
  BY PageTyped DEF ViewInv, LogViewTypeOK, Fetch
<1>2. /\ fetching.offset \in 0..MaxLine
      /\ fetching.kind = "prepend" => fetching.offset + Limit \in 0..MaxLine
  BY DEF PageArrives, ViewInv, OffsetInReach, LogViewTypeOK, Fetch
<1>3. shown' = shown \cup page /\ fetching' = NoFetch
      /\ UNCHANGED <<pendingUpdates, historyLoaded, fresh, failed, mode, stream, polling>>
  BY DEF PageArrives, streamVars
<1>4. \/ paged' = paged \cup LinesOf(page) /\ paginated' = TRUE
      \/ paged' = paged /\ paginated' = paginated
  BY DEF PageArrives
<1>5. LogViewTypeOK'
  <2>1. paged' \subseteq 1..MaxLine
    BY <1>1, <1>4, LinesOfSubset DEF ViewInv, LogViewTypeOK
  <2>2. UNCHANGED <<serverVars, streamVars>>
    BY DEF PageArrives
  <2>3. /\ hasMore' \in BOOLEAN /\ hasEarlier' \in BOOLEAN /\ paginated' \in BOOLEAN
        /\ offset' \in 0..MaxLine /\ earlierOffset' \in 0..MaxLine
    BY <1>1, <1>2 DEF PageArrives, ViewInv, LogViewTypeOK
  <2> QED BY <1>1, <1>3, <2>1, <2>2, <2>3, FetchTyped
          DEF ViewInv, LogViewTypeOK, serverVars, streamVars
<1>6. OffsetInReach' /\ ReplaceHoldsBack'
  BY <1>3, FetchTyped DEF OffsetInReach, ReplaceHoldsBack
<1>7. PagedIsPaginated'
  BY <1>4 DEF ViewInv, PagedIsPaginated
<1>8. LiveLinesSurvive' /\ AddedPagesStay'
  <2>1. LinesOf(shown') = LinesOf(shown) \cup LinesOf(page)
    BY <1>3, LinesOfUnion
  <2>2. AddedPagesStay'
    BY <1>4, <2>1 DEF ViewInv, AddedPagesStay
  <2>3. LinesOf(shown \cup pendingUpdates) \subseteq LinesOf(shown' \cup pendingUpdates')
    BY <1>3 DEF LinesOf
  <2> QED BY <1>3, <2>2, <2>3 DEF ViewInv, LiveLinesSurvive
<1>9. OneSourceOfUpdates'
  BY <1>3, SourceKept DEF ViewInv
<1> QED BY <1>5, <1>6, <1>7, <1>8, <1>9 DEF ViewInv

LEMMA FailureKeeps == ASSUME ViewInv, FetchFails PROVE ViewInv'
<1> USE LogViewConstants
<1>1. /\ fetching' = NoFetch
      /\ shown' \cup pendingUpdates' = shown \cup pendingUpdates /\ shown \subseteq shown'
      /\ shown' \subseteq Entry /\ pendingUpdates' \subseteq Entry
      /\ historyLoaded' \in BOOLEAN /\ failed' \in BOOLEAN
  BY DEF FetchFails, ViewInv, LogViewTypeOK, Fetch
<1>2. UNCHANGED <<serverVars, mode, pageVars, streamVars, fresh, paged>>
  BY DEF FetchFails
<1>3. LogViewTypeOK'
  BY <1>1, <1>2, FetchTyped DEF ViewInv, LogViewTypeOK, serverVars, pageVars, streamVars
<1>4. OffsetInReach' /\ ReplaceHoldsBack'
  BY <1>1, FetchTyped DEF OffsetInReach, ReplaceHoldsBack
<1>5. PagedIsPaginated'
  BY <1>2 DEF ViewInv, PagedIsPaginated, pageVars
<1>6. LiveLinesSurvive' /\ AddedPagesStay'
  BY <1>1, <1>2 DEF ViewInv, LiveLinesSurvive, AddedPagesStay, LinesOf
<1>7. OneSourceOfUpdates'
  BY <1>2, SourceKept DEF ViewInv, streamVars
<1> QED BY <1>3, <1>4, <1>5, <1>6, <1>7 DEF ViewInv

\* Turning pages aborts whatever was in flight; what is held back stays so.
LEMMA TurningKeeps == ASSUME ViewInv, loadMore \/ loadEarlierLogs PROVE ViewInv'
<1> USE LogViewConstants
<1>1. PICK kind \in {"append", "prepend"}, o \in 0..MaxLine :
        (kind = "prepend" => o + Limit <= MaxLine) /\ BeginFetch(kind, o)
  <2>1. CASE loadMore
    <3>1. offset + Limit \in 0..MaxLine /\ BeginFetch("append", offset + Limit)
      BY <2>1 DEF loadMore, ViewInv, LogViewTypeOK
    <3> QED BY <3>1
  <2>2. CASE loadEarlierLogs
    BY <2>2 DEF loadEarlierLogs, ViewInv, LogViewTypeOK
  <2> QED BY <2>1, <2>2
<1>2. UNCHANGED <<serverVars, mode, shown, pendingUpdates, pageVars, streamVars, paged, failed,
                  historyLoaded, fresh>>
  BY <1>1 DEF loadMore, loadEarlierLogs, BeginFetch
<1>3. fetching' \in Fetch /\ fetching'.kind = kind /\ fetching'.offset = o
  BY <1>1, BegunTyped DEF ViewInv, LogViewTypeOK
<1>4. LogViewTypeOK'
  BY <1>2, <1>3 DEF ViewInv, LogViewTypeOK, serverVars, pageVars, streamVars
<1>5. OffsetInReach' /\ ReplaceHoldsBack'
  BY <1>1, <1>3 DEF OffsetInReach, ReplaceHoldsBack
<1>6. PagedIsPaginated' /\ LiveLinesSurvive' /\ AddedPagesStay'
  BY <1>2 DEF ViewInv, PagedIsPaginated, LiveLinesSurvive, AddedPagesStay, LinesOf, pageVars
<1>7. OneSourceOfUpdates'
  BY <1>2, SourceKept DEF ViewInv, streamVars
<1> QED BY <1>4, <1>5, <1>6, <1>7 DEF ViewInv

\* A replace begins: from here on what counts is what is held back.
LEMMA ReplaceBegins ==
  ASSUME ViewInv, BeginFetch("replace", 0), UNCHANGED <<shown, pendingUpdates, serverVars>>,
         paged' = {}, OneSourceOfUpdates',
         mode' \in {"closed", "today", "latest", "dated"},
         offset' \in 0..MaxLine, paginated' \in BOOLEAN,
         UNCHANGED <<hasMore, hasEarlier, earlierOffset, delivered, failed>>,
         stream' \in {"off", "connecting", "open"}, polling' \in BOOLEAN, settling' \in BOOLEAN
  PROVE  ViewInv'
<1> USE LogViewConstants
<1>1. /\ fetching' \in Fetch /\ fetching'.kind = "replace"
      /\ historyLoaded' = FALSE /\ fresh' = LinesOf(pendingUpdates)
  <2>1. fetching' \in Fetch /\ fetching'.kind = "replace"
    BY BegunTyped DEF ViewInv, LogViewTypeOK
  <2> QED BY <2>1 DEF BeginFetch
<1>2. fresh' \subseteq 1..MaxLine
  BY <1>1, LinesOfSubset DEF ViewInv, LogViewTypeOK
<1>3. LogViewTypeOK'
  BY <1>1, <1>2 DEF ViewInv, LogViewTypeOK, serverVars
<1>4. OffsetInReach' /\ ReplaceHoldsBack' /\ PagedIsPaginated'
  BY <1>1 DEF OffsetInReach, ReplaceHoldsBack, PagedIsPaginated
<1>5. LiveLinesSurvive' /\ AddedPagesStay'
  BY <1>1 DEF LiveLinesSurvive, AddedPagesStay, LinesOf
<1> QED BY <1>3, <1>4, <1>5 DEF ViewInv

\* A tick replaces only what has no added pages.
LEMMA TickKeeps == ASSUME ViewInv, startPolling PROVE ViewInv'
<1>1. paged = {} /\ paged' = paged
  BY DEF startPolling, ViewInv, PagedIsPaginated
<1>2. OneSourceOfUpdates'
  BY SourceKept DEF startPolling, ViewInv, streamVars
<1> QED BY <1>1, <1>2, ReplaceBegins
        DEF startPolling, ViewInv, LogViewTypeOK, serverVars, pageVars, streamVars

LEMMA AskKeeps ==
  ASSUME ViewInv, refresh \/ \E m \in {"today", "latest", "dated"} : updateQuery(m) PROVE ViewInv'
<1> USE LogViewConstants
<1>1. Replace /\ UNCHANGED <<shown, pendingUpdates, serverVars, hasMore, hasEarlier, earlierOffset, failed>>
  BY DEF refresh, updateQuery
<1>2. /\ mode' \in {"closed", "today", "latest", "dated"} /\ delivered' = delivered
      /\ stream' \in {"off", "connecting", "open"} /\ polling' \in BOOLEAN /\ settling' \in BOOLEAN
  BY DEF refresh, updateQuery, Connect, Disconnect, ViewInv, LogViewTypeOK, streamVars
<1>3. OneSourceOfUpdates'
  <2>1. CASE refresh
    BY <2>1 DEF refresh, Connect, ViewInv, OneSourceOfUpdates, liveMode, streamVars
  <2>2. ASSUME NEW m \in {"today", "latest", "dated"}, updateQuery(m) PROVE OneSourceOfUpdates'
    <3>1. CASE liveMode /\ m = "dated"
      BY <2>2, <3>1 DEF updateQuery, Disconnect, OneSourceOfUpdates, liveMode
    <3>2. CASE ~liveMode /\ m # "dated"
      BY <2>2, <3>2 DEF updateQuery, Connect, OneSourceOfUpdates, liveMode
    <3>3. CASE liveMode <=> m # "dated"
      BY <2>2, <3>3 DEF updateQuery, ViewInv, OneSourceOfUpdates, liveMode, streamVars
    <3> QED BY <3>1, <3>2, <3>3
  <2> QED BY <2>1, <2>2
<1>4. /\ BeginFetch("replace", 0) /\ paged' = {}
      /\ offset' \in 0..MaxLine /\ paginated' \in BOOLEAN
  <2>1. 0 \in 0..MaxLine
    OBVIOUS
  <2> QED BY <1>1, <2>1, Zenon DEF Replace
<1> QED BY <1>1, <1>2, <1>3, <1>4, ReplaceBegins

\* The stream opens, ends, or an old session of it settles.
LEMMA SessionKeeps ==
  ASSUME ViewInv, StreamOpens \/ StreamEnds \/ AbortedSessionEnds PROVE ViewInv'
<1> USE LogViewConstants
<1>1. UNCHANGED <<serverVars, mode, shown, pendingUpdates, historyLoaded, fetching, pageVars, historyVars>>
  BY DEF StreamOpens, StreamEnds, AbortedSessionEnds
<1>2. /\ stream' \in {"off", "connecting", "open"} /\ delivered' \in 0..MaxLine
      /\ polling' \in BOOLEAN /\ settling' \in BOOLEAN
  BY DEF StreamOpens, StreamEnds, AbortedSessionEnds, ViewInv, LogViewTypeOK
<1>3. LogViewTypeOK'
  BY <1>1, <1>2 DEF ViewInv, LogViewTypeOK, serverVars, pageVars, historyVars
<1>4. OffsetInReach' /\ ReplaceHoldsBack' /\ PagedIsPaginated' /\ LiveLinesSurvive'
        /\ AddedPagesStay'
  BY <1>1 DEF ViewInv, OffsetInReach, ReplaceHoldsBack, PagedIsPaginated, LiveLinesSurvive,
              AddedPagesStay, LinesOf, pageVars, historyVars
<1>5. OneSourceOfUpdates'
  BY <1>1 DEF StreamOpens, StreamEnds, AbortedSessionEnds, ViewInv, OneSourceOfUpdates, liveMode
<1> QED BY <1>3, <1>4, <1>5 DEF ViewInv

\* A line is delivered: it is shown, or held back.
LEMMA DeliveryKeeps == ASSUME ViewInv, handleUpdateEvent PROVE ViewInv'
<1> USE LogViewConstants
<1> DEFINE e == [line |-> delivered + 1, from |-> "sse"]
<1>1. delivered + 1 \in 1..MaxLine /\ delivered' = delivered + 1
        /\ fresh' = fresh \cup {delivered + 1}
  BY DEF handleUpdateEvent, ViewInv, LogViewTypeOK
<1>2. e \in Entry /\ LinesOf({e}) = {delivered + 1}
  BY <1>1 DEF Entry, LinesOf
<1>3. \/ historyLoaded /\ shown' = shown \cup {e} /\ pendingUpdates' = pendingUpdates
      \/ ~historyLoaded /\ shown' = shown /\ pendingUpdates' = pendingUpdates \cup {e}
  BY DEF handleUpdateEvent, ViewInv, LogViewTypeOK
<1>4. UNCHANGED <<serverVars, mode, historyLoaded, fetching, pageVars, stream, polling, settling, paged, failed>>
  BY DEF handleUpdateEvent
<1>5. LogViewTypeOK'
  BY <1>1, <1>2, <1>3, <1>4 DEF ViewInv, LogViewTypeOK, serverVars, pageVars
<1>6. OffsetInReach' /\ PagedIsPaginated'
  BY <1>4 DEF ViewInv, OffsetInReach, PagedIsPaginated, pageVars
<1>7. ReplaceHoldsBack'
  <2>1. CASE fetching.kind = "replace"
    <3>1. LinesOf(pendingUpdates') = LinesOf(pendingUpdates) \cup {delivered + 1}
      BY <2>1, <1>2, <1>3, LinesOfUnion DEF ViewInv, ReplaceHoldsBack
    <3> QED BY <2>1, <3>1, <1>1, <1>4 DEF ViewInv, ReplaceHoldsBack
  <2>2. CASE fetching.kind # "replace"
    BY <2>2, <1>4 DEF ReplaceHoldsBack
  <2> QED BY <2>1, <2>2
<1>8. LiveLinesSurvive'
  <2>1. shown' \cup pendingUpdates' = (shown \cup pendingUpdates) \cup {e}
    BY <1>3
  <2>2. LinesOf(shown' \cup pendingUpdates') =
          LinesOf(shown \cup pendingUpdates) \cup {delivered + 1}
    BY <2>1, <1>2, LinesOfUnion
  <2> QED BY <2>2, <1>1 DEF ViewInv, LiveLinesSurvive
<1>9. AddedPagesStay'
  BY <1>3, <1>4 DEF ViewInv, AddedPagesStay, LinesOf
<1>10. OneSourceOfUpdates'
  BY <1>4, SourceKept DEF ViewInv
<1> QED BY <1>5, <1>6, <1>7, <1>8, <1>9, <1>10 DEF ViewInv

\* Opening and closing start from nothing.
LEMMA MountKeeps ==
  ASSUME ViewInv, Unmount \/ \E m \in {"today", "latest", "dated"} : Mount(m) PROVE ViewInv'
<1> USE LogViewConstants
<1>1. /\ UNCHANGED serverVars /\ shown' = {} /\ pendingUpdates' = {} /\ historyLoaded' = FALSE
      /\ hasMore' = FALSE /\ hasEarlier' = FALSE /\ paginated' = FALSE
      /\ offset' = 0 /\ earlierOffset' = 0 /\ fresh' = {} /\ paged' = {} /\ failed' = FALSE
  BY DEF Unmount, Mount
<1>2. /\ mode' \in {"closed", "today", "latest", "dated"} /\ delivered' = delivered
      /\ stream' \in {"off", "connecting", "open"} /\ polling' \in BOOLEAN /\ settling' \in BOOLEAN
  BY DEF Unmount, Mount, Connect, Disconnect, ViewInv, LogViewTypeOK, streamVars
<1>3. fetching' \in Fetch /\ fetching'.kind \in {"none", "replace"}
  BY FetchTyped DEF Unmount, Mount
<1>4. LogViewTypeOK'
  <2>1. 0 \in 0..MaxLine
    OBVIOUS
  <2> QED BY <1>1, <1>2, <1>3, <2>1, Zenon DEF ViewInv, LogViewTypeOK, serverVars
<1>5. OffsetInReach' /\ ReplaceHoldsBack' /\ PagedIsPaginated' /\ LiveLinesSurvive'
        /\ AddedPagesStay'
  BY <1>1, <1>3
    DEF OffsetInReach, ReplaceHoldsBack, PagedIsPaginated, LiveLinesSurvive, AddedPagesStay
<1>6. OneSourceOfUpdates'
  <2>1. CASE Unmount
    BY <2>1 DEF Unmount, Disconnect, OneSourceOfUpdates, liveMode
  <2>2. ASSUME NEW m \in {"today", "latest", "dated"}, Mount(m) PROVE OneSourceOfUpdates'
    <3>1. CASE m = "dated"
      BY <2>2, <3>1 DEF Mount, ViewInv, OneSourceOfUpdates, liveMode, streamVars
    <3>2. CASE m # "dated"
      BY <2>2, <3>2 DEF Mount, Connect, OneSourceOfUpdates, liveMode
    <3> QED BY <3>1, <3>2
  <2> QED BY <2>1, <2>2
<1> QED BY <1>4, <1>5, <1>6 DEF ViewInv

LEMMA ViewInvStep == ViewInv /\ [LogViewNext]_logViewVars => ViewInv'
<1> SUFFICES ASSUME ViewInv, [LogViewNext]_logViewVars PROVE ViewInv'
  OBVIOUS
<1>1. CASE UNCHANGED logViewVars
  BY <1>1 DEF logViewVars, pageVars, streamVars, historyVars, ViewInv, LogViewTypeOK, OffsetInReach,
     ReplaceHoldsBack, PagedIsPaginated, LiveLinesSurvive, OneSourceOfUpdates, AddedPagesStay,
     liveMode, LinesOf
<1>2. CASE LogViewNext
  BY <1>2, ServerKeeps, ReplaceLands, PageLands, FailureKeeps, TurningKeeps, TickKeeps, AskKeeps,
     SessionKeeps, DeliveryKeeps, MountKeeps DEF LogViewNext
<1> QED BY <1>1, <1>2

LEMMA ViewInvAlways == LogViewSpec => []ViewInv
  BY ViewInvInit, ViewInvStep, PTL DEF LogViewSpec

-----------------------------------------------------------------------------
\* Whatever the number of lines and the size of a page, a line the stream delivered is
\* shown or held back until the next replace begins (fetchLogs, handleUpdateEvent).
THEOREM NoLineIsLost == LogViewSpec => []LiveLinesSurvive
<1>1. ViewInv => LiveLinesSurvive
  BY DEF ViewInv
<1> QED BY <1>1, ViewInvAlways, PTL

\* A live view always has the stream or polling, never both and never neither.
THEOREM StreamOrPolling == LogViewSpec => []OneSourceOfUpdates
<1>1. ViewInv => OneSourceOfUpdates
  BY DEF ViewInv
<1> QED BY <1>1, ViewInvAlways, PTL

\* No tick of the polling takes away a page the user has added.
THEOREM PollingSparesPages == LogViewSpec => []AddedPagesStay
<1>1. ViewInv => AddedPagesStay
  BY DEF ViewInv
<1> QED BY <1>1, ViewInvAlways, PTL

\* Every variable of LogView has its type in every reachable state.
THEOREM LogViewTypeCorrect == LogViewSpec => []LogViewTypeOK
<1>1. ViewInv => LogViewTypeOK
  BY DEF ViewInv
<1> QED BY <1>1, ViewInvAlways, PTL

-----------------------------------------------------------------------------
(* Lists of lines: how many lines are ahead of a line.                         *)

LEMMA LinesAreFinite ==
  ASSUME NEW S \in SUBSET Line
  PROVE  IsFiniteSet(S) /\ Cardinality(S) \in Nat
<1>1. IsFiniteSet(1..Days) /\ IsFiniteSet(1..MaxLines)
  BY LogPagesConstants, FS_Interval
<1>2. IsFiniteSet(Line)
  BY <1>1, FS_Product DEF Line
<1>3. IsFiniteSet(S)
  BY <1>2, FS_Subset
<1>4. QED
  BY <1>3, FS_CardinalityType

LEMMA DisjointLines ==
  ASSUME NEW S \in SUBSET Line, NEW T \in SUBSET Line, S \cap T = {}
  PROVE  Cardinality(S \cup T) = Cardinality(S) + Cardinality(T)
<1>1. /\ IsFiniteSet(S) /\ Cardinality(S) \in Nat
      /\ IsFiniteSet(T) /\ Cardinality(T) \in Nat
  BY LinesAreFinite
<1>2. Cardinality(S \cup T) = Cardinality(S) + Cardinality(T) - Cardinality(S \cap T)
  BY <1>1, FS_Union
<1>3. Cardinality(S \cap T) = 0
  BY FS_EmptySet
<1>4. QED
  BY <1>1, <1>2, <1>3

LEMMA SameList ==
  ASSUME NEW p \in List, NEW r \in List, p.lines = r.lines, p.desc = r.desc
  PROVE  p = r
BY DEF List

\* The parts of a list are lists of the same order.
LEMMA PartsOfLists ==
  ASSUME NEW p \in List, NEW n
  PROVE  /\ FirstOf(n, p) \in List /\ FirstOf(n, p).desc = p.desc
         /\ FirstOf(n, p).lines = {l \in p.lines : Cardinality(Ahead(p, l)) < n}
         /\ Dropped(n, p) \in List /\ Dropped(n, p).desc = p.desc
         /\ Dropped(n, p).lines = {l \in p.lines : Cardinality(Ahead(p, l)) >= n}
         /\ Reversed(p) \in List /\ Reversed(p).lines = p.lines /\ Reversed(p).desc = ~p.desc
         /\ Chosen(p) \in List /\ Chosen(p).desc = p.desc
         /\ Chosen(p).lines = {l \in p.lines : l[2] \in Picked}
BY DEF FirstOf, Dropped, Reversed, Chosen, List

LEMMA AheadIsOrder ==
  ASSUME NEW p \in List
  PROVE  /\ \A l \in p.lines : l \notin Ahead(p, l) /\ Ahead(p, l) \subseteq p.lines
         /\ \A k, l \in p.lines : k # l => k \in Ahead(p, l) \/ l \in Ahead(p, k)
         /\ \A k, l \in p.lines : k \in Ahead(p, l) => Ahead(p, k) \subseteq Ahead(p, l)
<1>1. \A l \in p.lines : l = <<l[1], l[2]>> /\ l[1] \in Int /\ l[2] \in Int
  BY DEF List, Line
<1>2. p.desc \in BOOLEAN
  BY DEF List
<1>3. \A l \in p.lines : l \notin Ahead(p, l) /\ Ahead(p, l) \subseteq p.lines
  BY <1>1 DEF Ahead, Newer
<1>4. \A k, l \in p.lines : k # l => k \in Ahead(p, l) \/ l \in Ahead(p, k)
  <2> SUFFICES ASSUME NEW k \in p.lines, NEW l \in p.lines, k # l
               PROVE  k \in Ahead(p, l) \/ l \in Ahead(p, k)
    OBVIOUS
  <2>1. k[1] # l[1] \/ k[2] # l[2]
    BY <1>1
  <2>2. Newer(k, l) \/ Newer(l, k)
    BY <1>1, <2>1 DEF Newer
  <2>3. QED
    BY <1>2, <2>2 DEF Ahead
<1>5. \A k, l \in p.lines : k \in Ahead(p, l) => Ahead(p, k) \subseteq Ahead(p, l)
  BY <1>1, <1>2 DEF Ahead, Newer
<1>6. QED
  BY <1>3, <1>4, <1>5

\* The ranks of the lines are the numbers below the list's size, each taken once.
RankIn(p) == [l \in p.lines |-> Cardinality(Ahead(p, l))]

LEMMA RanksAreNumbers ==
  ASSUME NEW p \in List
  PROVE  /\ RankIn(p) \in Bijection(p.lines, 0..Size(p) - 1)
         /\ \A k, l \in p.lines : k \in Ahead(p, l) <=> RankIn(p)[k] < RankIn(p)[l]
<1> DEFINE S == p.lines
           rank == RankIn(p)
           Ranks == 0..Cardinality(S) - 1
<1>1. S \in SUBSET Line /\ IsFiniteSet(S) /\ Cardinality(S) \in Nat
  BY LinesAreFinite DEF List
<1>2. IsFiniteSet(Ranks) /\ Cardinality(Ranks) = Cardinality(S)
  BY <1>1, FS_Interval
<1>3. ASSUME NEW l \in S
      PROVE  IsFiniteSet(Ahead(p, l)) /\ rank[l] = Cardinality(Ahead(p, l)) /\ rank[l] \in Ranks
  <2>1. IsFiniteSet(S \ {l}) /\ Cardinality(S \ {l}) = Cardinality(S) - 1
    BY <1>1, FS_RemoveElement
  <2>2. Ahead(p, l) \in SUBSET (S \ {l})
    BY AheadIsOrder
  <2>3. IsFiniteSet(Ahead(p, l)) /\ Cardinality(Ahead(p, l)) <= Cardinality(S) - 1
    BY <2>1, <2>2, FS_Subset
  <2>4. Cardinality(Ahead(p, l)) \in Nat
    BY <2>3, FS_CardinalityType
  <2>5. QED
    BY <1>1, <2>3, <2>4 DEF RankIn
<1>4. ASSUME NEW k \in S, NEW l \in S, k \in Ahead(p, l)
      PROVE  rank[k] < rank[l]
  <2>1. /\ IsFiniteSet(Ahead(p, k) \cup {k})
        /\ Cardinality(Ahead(p, k) \cup {k}) = Cardinality(Ahead(p, k)) + 1
    BY <1>3, AheadIsOrder, FS_AddElement
  <2>2. Ahead(p, k) \cup {k} \in SUBSET Ahead(p, l)
    BY <1>4, AheadIsOrder
  <2>3. Cardinality(Ahead(p, k) \cup {k}) <= Cardinality(Ahead(p, l))
    BY <1>3, <2>2, FS_Subset
  <2>4. QED
    BY <1>1, <1>3, <2>1, <2>3
<1>5. ASSUME NEW k \in S, NEW l \in S, rank[k] < rank[l]
      PROVE  k \in Ahead(p, l)
  BY <1>1, <1>3, <1>4, <1>5, AheadIsOrder
<1>6. rank \in Injection(S, Ranks)
  <2>1. rank \in [S -> Ranks]
    BY <1>3 DEF RankIn
  <2>2. ASSUME NEW k \in S, NEW l \in S, k # l PROVE rank[k] # rank[l]
    <3>1. rank[k] < rank[l] \/ rank[l] < rank[k]
      BY <1>4, <2>2, AheadIsOrder
    <3>2. QED
      BY <1>1, <1>3, <3>1
  <2>3. QED
    BY <2>1, <2>2 DEF Injection, IsInjective
<1>7. rank \in Surjection(S, Ranks)
  BY <1>2, <1>6, FS_Injection
<1>8. QED
  BY <1>4, <1>5, <1>6, <1>7 DEF Bijection, Size

\* How many lines have a rank from a to b - 1.
LEMMA RankedLines ==
  ASSUME NEW p \in List, NEW a \in Nat, NEW b \in a..Size(p)
  PROVE  Cardinality({l \in p.lines : Cardinality(Ahead(p, l)) \in a..b - 1}) = b - a
<1> DEFINE T == {l \in p.lines : Cardinality(Ahead(p, l)) \in a..b - 1}
           f == [l \in T |-> RankIn(p)[l]]
<1>1. Size(p) \in Nat /\ IsFiniteSet(T)
  BY LinesAreFinite DEF List, Size
<1>2. \A l \in p.lines : RankIn(p)[l] = Cardinality(Ahead(p, l))
  BY DEF RankIn
<1>3. f \in [T -> a..b - 1]
  BY <1>2
<1>4. \A k, l \in T : f[k] = f[l] => k = l
  BY RanksAreNumbers DEF Bijection, Injection, IsInjective
<1>5. \A n \in a..b - 1 : \E l \in T : f[l] = n
  <2> SUFFICES ASSUME NEW n \in a..b - 1 PROVE \E l \in T : f[l] = n
    OBVIOUS
  <2>1. n \in 0..Size(p) - 1
    BY <1>1
  <2>2. PICK l \in p.lines : RankIn(p)[l] = n
    BY <2>1, RanksAreNumbers DEF Bijection, Surjection
  <2>3. QED
    BY <1>2, <2>2
<1>6. f \in Bijection(T, a..b - 1)
  BY <1>3, <1>4, <1>5 DEF Bijection, Injection, IsInjective, Surjection
<1>7. Cardinality(a..b - 1) = Cardinality(T)
  BY <1>1, <1>6, FS_Bijection DEF ExistsBijection
<1>8. Cardinality(a..b - 1) = b - a
  BY <1>1, FS_Interval
<1>9. QED
  BY <1>7, <1>8

\* The lines that come first in a list have there the ranks they have among themselves, and
\* every other line has at least as many ahead of it as they are.
Heads(r, p) ==
  /\ r.desc = p.desc /\ r.lines \subseteq p.lines
  /\ \A l \in r.lines : Ahead(p, l) \subseteq r.lines

LEMMA HeadsKeepRanks ==
  ASSUME NEW p \in List, NEW r \in List, Heads(r, p)
  PROVE  /\ \A l \in r.lines : Ahead(r, l) = Ahead(p, l)
         /\ \A l \in p.lines \ r.lines : Cardinality(Ahead(p, l)) >= Size(r)
<1>1. \A l \in r.lines : Ahead(r, l) = Ahead(p, l)
  BY DEF Heads, Ahead
<1>2. ASSUME NEW l \in p.lines \ r.lines PROVE Cardinality(Ahead(p, l)) >= Size(r)
  <2>1. r.lines \in SUBSET Ahead(p, l)
    BY <1>2, AheadIsOrder DEF Heads
  <2>2. Ahead(p, l) \in SUBSET Line
    BY AheadIsOrder DEF List
  <2>3. Cardinality(r.lines) <= Cardinality(Ahead(p, l))
    BY <2>1, <2>2, LinesAreFinite, FS_Subset
  <2>4. r.lines \in SUBSET Line
    BY DEF List
  <2>5. QED
    BY <2>2, <2>3, <2>4, LinesAreFinite DEF Size
<1>3. QED
  BY <1>1, <1>2

\* Without its first n lines, those of a list have n lines less ahead of them.
LEMMA DroppedRanks ==
  ASSUME NEW p \in List, NEW n \in Nat, NEW l \in Dropped(n, p).lines
  PROVE  Cardinality(Ahead(Dropped(n, p), l)) = Cardinality(Ahead(p, l)) - n
<1> DEFINE First == {k \in p.lines : Cardinality(Ahead(p, k)) \in 0..n - 1}
           Rest == Ahead(Dropped(n, p), l)
<1>0. /\ Dropped(n, p).lines = {k \in p.lines : Cardinality(Ahead(p, k)) >= n}
      /\ Dropped(n, p).desc = p.desc
  BY DEF Dropped, List
<1>1. l \in p.lines /\ Cardinality(Ahead(p, l)) >= n
  BY <1>0
<1>2. \A k \in p.lines : /\ RankIn(p)[k] = Cardinality(Ahead(p, k))
                        /\ Cardinality(Ahead(p, k)) \in 0..Size(p) - 1
  BY RanksAreNumbers DEF RankIn, Bijection, Injection
<1>3. Cardinality(First) = n
  <2>1. Size(p) \in Nat
    BY LinesAreFinite DEF List, Size
  <2>2. n \in 0..Size(p)
    BY <1>1, <1>2, <2>1
  <2>3. QED
    BY <2>2, RankedLines
<1>4. First \in SUBSET Line /\ Rest \in SUBSET Line
  BY <1>0 DEF Ahead, List
<1>5. Ahead(p, l) = First \cup Rest
  <2>1. \A k \in First : k \in Ahead(p, l)
    BY <1>1, <1>2, RanksAreNumbers
  <2>2. Rest = {k \in Ahead(p, l) : Cardinality(Ahead(p, k)) >= n}
    BY <1>0 DEF Ahead
  <2>3. \A k \in Ahead(p, l) : k \in First \/ Cardinality(Ahead(p, k)) >= n
    BY <1>1, <1>2, AheadIsOrder
  <2>4. QED
    BY <2>1, <2>2, <2>3
<1>6. First \cap Rest = {}
  BY <1>0, <1>2 DEF Ahead
<1>7. IsFiniteSet(First) /\ IsFiniteSet(Rest) /\ Cardinality(Rest) \in Nat
  BY <1>4, LinesAreFinite
<1> HIDE DEF First, Rest
<1>8. Cardinality(First \cup Rest) = Cardinality(First) + Cardinality(Rest)
  BY <1>4, <1>6, DisjointLines
<1>9. Cardinality(Ahead(p, l)) = n + Cardinality(Rest)
  BY <1>3, <1>5, <1>8
<1>10. QED
  BY <1>7, <1>9 DEF Rest

\* A page of a list is the lines of the ranks it is of.
LEMMA PagesByRank ==
  ASSUME NEW p \in List, NEW m \in Nat, NEW n \in Nat
  PROVE  /\ FirstOf(m, Dropped(n, p)).desc = p.desc
         /\ FirstOf(m, Dropped(n, p)).lines =
              {l \in p.lines : Cardinality(Ahead(p, l)) \in n..n + m - 1}
<1> DEFINE r == Dropped(n, p)
<1>1. /\ r.lines = {l \in p.lines : Cardinality(Ahead(p, l)) >= n} /\ r.desc = p.desc
      /\ r = [lines |-> r.lines, desc |-> r.desc]
  BY DEF Dropped, List
<1>2. FirstOf(m, r).lines = {l \in r.lines : Cardinality(Ahead(r, l)) < m}
      /\ FirstOf(m, r).desc = r.desc
  BY <1>1 DEF FirstOf
<1>3. \A l \in r.lines : Cardinality(Ahead(r, l)) = Cardinality(Ahead(p, l)) - n
  BY DroppedRanks
<1>4. \A l \in p.lines : Cardinality(Ahead(p, l)) \in Nat
  <2>1. \A l \in p.lines : Ahead(p, l) \in SUBSET Line
    BY DEF Ahead, List
  <2>2. QED
    BY <2>1, LinesAreFinite
<1> HIDE DEF r
<1>5. QED
  BY <1>1, <1>2, <1>3, <1>4 DEF r

\* A list with a later one appended: the lines of the first keep their ranks, those of the
\* second have the first before them.
LEMMA JoinedRanks ==
  ASSUME NEW p \in List, NEW r \in List, r.desc = p.desc,
         \A k \in p.lines, l \in r.lines : IF p.desc THEN Newer(k, l) ELSE Newer(l, k)
  PROVE  /\ Joined(p, r) \in List /\ Size(Joined(p, r)) = Size(p) + Size(r)
         /\ \A l \in p.lines : Ahead(Joined(p, r), l) = Ahead(p, l)
         /\ \A l \in r.lines :
              Cardinality(Ahead(Joined(p, r), l)) = Size(p) + Cardinality(Ahead(r, l))
<1> DEFINE j == Joined(p, r)
<1>1. j \in List /\ j.lines = p.lines \cup r.lines /\ j.desc = p.desc
  BY DEF Joined, List
<1>2. \A k, l \in Line : ~(Newer(k, l) /\ Newer(l, k)) /\ ~Newer(l, l)
  BY DEF Newer, Line
<1>3. p.lines \in SUBSET Line /\ r.lines \in SUBSET Line /\ p.desc \in BOOLEAN
  BY DEF List
<1>4. p.lines \cap r.lines = {}
  BY <1>2, <1>3
<1>5. ASSUME NEW S \in SUBSET r.lines
      PROVE  Cardinality(p.lines \cup S) = Cardinality(p.lines) + Cardinality(S)
  <2>1. p.lines \cap S = {} /\ S \in SUBSET Line
    BY <1>3, <1>4
  <2>2. QED
    BY <1>3, <2>1, DisjointLines
<1>6. Size(j) = Size(p) + Size(r)
  BY <1>1, <1>5 DEF Size
<1>7. \A l \in p.lines : Ahead(j, l) = Ahead(p, l)
  BY <1>1, <1>2, <1>3 DEF Ahead
<1>8. ASSUME NEW l \in r.lines
      PROVE  Cardinality(Ahead(j, l)) = Size(p) + Cardinality(Ahead(r, l))
  <2>1. Ahead(j, l) = p.lines \cup Ahead(r, l)
    BY <1>1, <1>3 DEF Ahead
  <2>2. Ahead(r, l) \in SUBSET r.lines
    BY DEF Ahead
  <2>3. QED
    BY <1>5, <2>1, <2>2 DEF Size
<1>9. QED
  BY <1>1, <1>6, <1>7, <1>8

\* The first lines of a list: all of it, if they are fewer than asked for.
LEMMA FirstLines ==
  ASSUME NEW p \in List, NEW n \in Nat
  PROVE  /\ FirstOf(n, p) \in List /\ Heads(FirstOf(n, p), p)
         /\ Size(FirstOf(n, p)) \in Nat
         /\ n <= Size(p) => Size(FirstOf(n, p)) = n
         /\ Size(FirstOf(n, p)) < n \/ Size(p) <= n => FirstOf(n, p) = p
<1> DEFINE f == FirstOf(n, p)
<1>1. /\ f \in List /\ f.desc = p.desc
      /\ f.lines = {l \in p.lines : Cardinality(Ahead(p, l)) < n}
  BY DEF FirstOf, List
<1>2. \A l \in p.lines : /\ RankIn(p)[l] = Cardinality(Ahead(p, l))
                         /\ Cardinality(Ahead(p, l)) \in 0..Size(p) - 1
  BY RanksAreNumbers DEF RankIn, Bijection, Injection
<1>3. Heads(f, p)
  <2> SUFFICES ASSUME NEW l \in f.lines, NEW k \in Ahead(p, l) PROVE k \in f.lines
    BY <1>1 DEF Heads
  <2>1. l \in p.lines /\ k \in p.lines /\ Cardinality(Ahead(p, l)) < n
    BY <1>1, AheadIsOrder
  <2>2. Cardinality(Ahead(p, k)) < Cardinality(Ahead(p, l))
    BY <1>2, <2>1, RanksAreNumbers
  <2>3. QED
    BY <1>1, <1>2, <2>1, <2>2
<1>4. Size(f) \in Nat /\ Size(p) \in Nat
  BY <1>1, LinesAreFinite DEF Size, List
<1>5. ASSUME n <= Size(p) PROVE Size(f) = n
  <2>1. f.lines = {l \in p.lines : Cardinality(Ahead(p, l)) \in 0..n - 1}
    BY <1>1, <1>2
  <2>2. n \in 0..Size(p)
    BY <1>4, <1>5
  <2>3. Cardinality(f.lines) = n
    BY <2>1, <2>2, RankedLines
  <2>4. QED
    BY <2>3 DEF Size
<1>6. ASSUME Size(f) < n \/ Size(p) <= n PROVE f = p
  <2>1. Size(p) <= n
    BY <1>4, <1>5, <1>6
  <2>2. f.lines = p.lines
    BY <1>1, <1>2, <1>4, <2>1
  <2>3. QED
    BY <1>1, <2>2 DEF FirstOf, List
<1>7. QED
  BY <1>1, <1>3, <1>4, <1>5, <1>6

\* What a list begins with is enough for whatever lies within it.
LEMMA HeadsAreEnough ==
  ASSUME NEW p \in List, NEW r \in List, NEW m \in Nat, NEW n \in Nat, NEW N \in Nat,
         Heads(r, p), r.lines = p.lines \/ Size(r) >= N, n + m <= N
  PROVE  /\ FirstOf(m, r) = FirstOf(m, p)
         /\ FirstOf(m, Dropped(n, r)) = FirstOf(m, Dropped(n, p))
<1>1. \A l \in r.lines : Cardinality(Ahead(r, l)) = Cardinality(Ahead(p, l))
  BY HeadsKeepRanks
<1>2. \A l \in p.lines \ r.lines : Cardinality(Ahead(p, l)) >= N
  <2>1. Size(r) \in Nat
    BY LinesAreFinite DEF List, Size
  <2>2. \A l \in p.lines : Cardinality(Ahead(p, l)) \in Nat
    BY LinesAreFinite DEF Ahead, List
  <2>3. QED
    BY <2>1, <2>2, HeadsKeepRanks
<1>3. \A l \in p.lines : Cardinality(Ahead(p, l)) \in Nat
  BY LinesAreFinite DEF Ahead, List
<1>4. r.lines \subseteq p.lines /\ r.desc = p.desc
  BY DEF Heads
<1>5. FirstOf(m, r) = FirstOf(m, p)
  <2>1. \A l \in p.lines : l \in r.lines \/ ~(Cardinality(Ahead(p, l)) < m)
    BY <1>2, <1>3
  <2> DEFINE x == FirstOf(m, r)
             y == FirstOf(m, p)
  <2>2. /\ x.lines = {l \in r.lines : Cardinality(Ahead(r, l)) < m}
        /\ y.lines = {l \in p.lines : Cardinality(Ahead(p, l)) < m}
        /\ x.desc = y.desc /\ x \in List /\ y \in List
    BY <1>4, PartsOfLists
  <2> HIDE DEF x, y
  <2>3. \A l : l \in x.lines <=> l \in y.lines
    BY <1>1, <1>4, <2>1, <2>2
  <2>4. x = y
    BY <2>2, <2>3, SameList
  <2>5. QED
    BY <2>4 DEF x, y
<1>6. FirstOf(m, Dropped(n, r)) = FirstOf(m, Dropped(n, p))
  <2>1. \A l \in p.lines : l \in r.lines \/ ~(Cardinality(Ahead(p, l)) \in n..n + m - 1)
    BY <1>2, <1>3
  <2> DEFINE x == FirstOf(m, Dropped(n, r))
             y == FirstOf(m, Dropped(n, p))
  <2>2. /\ x.lines = {l \in r.lines : Cardinality(Ahead(r, l)) \in n..n + m - 1}
        /\ y.lines = {l \in p.lines : Cardinality(Ahead(p, l)) \in n..n + m - 1}
        /\ x.desc = y.desc
    BY <1>4, PagesByRank
  <2>3. x \in List /\ y \in List
    BY DEF FirstOf, Dropped, List
  <2> HIDE DEF x, y
  <2>4. ASSUME NEW l \in r.lines PROVE l \in x.lines <=> l \in y.lines
    <3>1. l \in p.lines /\ Cardinality(Ahead(r, l)) = Cardinality(Ahead(p, l))
      BY <1>1, <1>4
    <3>2. QED
      BY <2>2, <3>1
  <2>5. x.lines \subseteq r.lines /\ y.lines \subseteq r.lines
    BY <2>1, <2>2
  <2>6. x = y
    BY <2>2, <2>3, <2>4, <2>5, SameList
  <2>7. QED
    BY <2>6 DEF x, y
<1>7. QED
  BY <1>5, <1>6

\* How many lines are left after some are dropped.
LEMMA DroppedSize ==
  ASSUME NEW p \in List, NEW n \in Nat
  PROVE  /\ Dropped(n, p) \in List
         /\ Size(Dropped(n, p)) = IF n <= Size(p) THEN Size(p) - n ELSE 0
<1>1. /\ Dropped(n, p) \in List
      /\ Dropped(n, p).lines = {l \in p.lines : Cardinality(Ahead(p, l)) >= n}
  BY DEF Dropped, List
<1>2. \A l \in p.lines : Cardinality(Ahead(p, l)) \in 0..Size(p) - 1
  BY RanksAreNumbers DEF RankIn, Bijection, Injection
<1>3. Size(p) \in Nat
  BY LinesAreFinite DEF List, Size
<1>4. CASE n <= Size(p)
  <2>1. Dropped(n, p).lines = {l \in p.lines : Cardinality(Ahead(p, l)) \in n..Size(p) - 1}
    BY <1>1, <1>2, <1>3
  <2>2. n \in Nat /\ Size(p) \in n..Size(p)
    BY <1>3, <1>4
  <2>3. QED
    BY <1>1, <1>4, <2>1, <2>2, RankedLines DEF Size
<1>5. CASE ~(n <= Size(p))
  <2>1. Dropped(n, p).lines = {}
    BY <1>1, <1>2, <1>3, <1>5
  <2>2. QED
    BY <1>1, <1>5, <2>1, FS_EmptySet DEF Size
<1>6. QED
  BY <1>4, <1>5

-----------------------------------------------------------------------------
(* The inductive invariant of LogPages: what has been collected of the days     *)
(* that are read.                                                               *)

\* The lines that a request asks for, of some days as they were read, oldest first.
LinesRead(s, q, D) ==
  {l \in Line : l[1] \in D /\ l[2] <= s[l[1]] /\ (q.type = "all" \/ l[2] \in Picked)}
LogOf(s, q, D) == [lines |-> LinesRead(s, q, D), desc |-> FALSE]

\* Days are read backwards from today, or towards it.
DaysLeft(r) ==
  /\ Len(r.left) \in 1..Days /\ (r.q.mode = "day" => Len(r.left) = 1)
  /\ \A i \in 1..Len(r.left) :
       r.left[i] = CASE r.q.mode = "latest" -> Days - Len(r.left) + i
                     [] r.q.mode = "range"  -> Len(r.left) + 1 - i
                     [] r.q.mode = "day"    -> 1
DaysRead(r) ==
  IF r.q.mode = "latest" THEN 1..Days - Len(r.left) ELSE Len(r.left) + 1..Days

Needed(q) == q.offset + q.limit + 1

\* Of the latest lines, all those of the days read: they are not enough yet.
Collected(r, s) ==
  /\ r.got.desc = FALSE /\ Size(r.got) < Needed(r.q)
  /\ (\A d \in DaysRead(r) : s[d] <= Cap) => r.got = LogOf(s, r.q, DaysRead(r))

\* What a range is gathered of: from which line on, and up to how many.
Begin(q) == IF q.sort = "desc" THEN 0 ELSE q.offset
Most(q)  == IF q.sort = "desc" THEN MaxOf(q.offset + q.limit, Cap) ELSE q.limit
Counted(q) == q.sort = "asc" /\ q.type = "window" => q.offset = 0

\* Of a range, the lines from there on.
Gathered(r, s) ==
  /\ r.got.desc = FALSE
  /\ r.q.sort = "asc" /\ r.q.type = "all" => r.skipped = Size(LogOf(s, r.q, DaysRead(r)))
  /\ Counted(r.q) =>
       /\ r.got = FirstOf(Most(r.q), Dropped(Begin(r.q), LogOf(s, r.q, DaysRead(r))))
       /\ Size(r.got) < Most(r.q)

Reading(r, s) ==
  r.pc \in {"stream", "stat", "get", "again"} =>
    /\ DaysLeft(r)
    /\ r.pc = "stream" <=> r.q.type = "metrics" \/ r.q.mode = "range"
    /\ r.pc = "again" => r.q.mode = "latest"
    /\ r.q.mode = "latest" => Collected(r, s)
    /\ r.q.mode = "range" /\ r.q.type # "metrics" => Gathered(r, s)

LogPagesInv == LogPagesTypeOK /\ Reading(reading, seen) /\ PagesAreExact

-----------------------------------------------------------------------------
(* The lines of the days that are read.                                        *)

LEMMA LogsAreLists ==
  ASSUME NEW s, NEW q, NEW D
  PROVE  /\ LogOf(s, q, D) \in List /\ LogOf(s, q, D).desc = FALSE
         /\ LogOf(s, q, D).lines = LinesRead(s, q, D)
BY DEF LogOf, LinesRead, List

LEMMA ListOfLines ==
  ASSUME NEW s, NEW q, NEW D, NEW p \in List, p.desc = FALSE, p.lines = LinesRead(s, q, D)
  PROVE  p = LogOf(s, q, D)
BY DEF LogOf, List

LEMMA LinesOfDays ==
  ASSUME NEW s, NEW q, NEW D, NEW l
  PROVE  l \in LinesRead(s, q, D) <=>
           /\ l \in Line /\ l[1] \in D /\ l[2] <= s[l[1]]
           /\ q.type = "all" \/ l[2] \in Picked
BY DEF LinesRead

\* The file of a day, as a request picks from it.
LEMMA FileOfDay ==
  ASSUME files \in [1..Days -> 0..MaxLines], NEW d \in 1..Days, NEW s, s[d] = files[d], NEW q
  PROVE  /\ Content(d) \in List /\ Content(d).desc = FALSE
         /\ Chosen(Content(d)) \in List /\ Chosen(Content(d)).desc = FALSE
         /\ q.type = "all" => Content(d) = LogOf(s, q, {d})
         /\ q.type # "all" => Chosen(Content(d)) = LogOf(s, q, {d})
<1>1. /\ Content(d).lines \subseteq Line
      /\ \A l : l \in Content(d).lines <=> l \in Line /\ l[1] = d /\ l[2] <= files[d]
  BY LogPagesConstants DEF Content, Line
<1>2. Content(d) = [lines |-> Content(d).lines, desc |-> FALSE] /\ Content(d).desc = FALSE
  BY DEF Content
<1>3. Content(d) \in List /\ Content(d).desc = FALSE
  <2> DEFINE lines == Content(d).lines
  <2>1. lines \in SUBSET Line /\ Content(d) = [lines |-> lines, desc |-> FALSE]
    BY <1>1, <1>2
  <2> HIDE DEF lines
  <2>2. QED
    BY <1>2, <2>1 DEF List
<1>4. /\ Chosen(Content(d)) \in List /\ Chosen(Content(d)).desc = FALSE
      /\ Chosen(Content(d)).lines = {l \in Content(d).lines : l[2] \in Picked}
  BY <1>3 DEF Chosen, List
<1>5. ASSUME q.type = "all" PROVE Content(d) = LogOf(s, q, {d})
  <2>1. \A l : l \in Content(d).lines <=> l \in LinesRead(s, q, {d})
    BY <1>1, <1>5, LinesOfDays
  <2>2. Content(d).lines = LinesRead(s, q, {d})
    BY <2>1 DEF Content, LinesRead
  <2>3. QED
    BY <1>3, <2>2, ListOfLines
<1>6. ASSUME q.type # "all" PROVE Chosen(Content(d)) = LogOf(s, q, {d})
  <2>1. \A l : l \in Chosen(Content(d)).lines <=> l \in LinesRead(s, q, {d})
    BY <1>1, <1>4, <1>6, LinesOfDays
  <2>2. Chosen(Content(d)).lines = LinesRead(s, q, {d})
    BY <1>4, <2>1 DEF LinesRead
  <2>3. QED
    BY <1>4, <2>2, ListOfLines
<1>7. QED
  BY <1>3, <1>4, <1>5, <1>6

\* One more of the latest days.
LEMMA LatestDay ==
  ASSUME NEW s, NEW q, NEW d \in 1..Days, NEW N \in Nat, NEW E \in List, E.desc = FALSE,
         LastOf(N, E) = LastOf(N, LogOf(s, q, {d}))
  PROVE  LET got  == LogOf(s, q, 1..d - 1)
             coll == Joined(LastOf(N, E), got)
         IN /\ coll \in List /\ coll.desc = FALSE
            /\ Heads(Reversed(coll), Reversed(LogOf(s, q, 1..Days)))
            /\ Size(coll) < N => coll = LogOf(s, q, 1..d)
<1> DEFINE got  == LogOf(s, q, 1..d - 1)
           coll == Joined(LastOf(N, E), got)
           all  == LogOf(s, q, 1..Days)
           day  == Reversed(LogOf(s, q, {d}))
           last == FirstOf(N, day)
<1>1. /\ day \in List /\ day.desc = TRUE /\ day.lines = LinesRead(s, q, {d})
      /\ got.lines = LinesRead(s, q, 1..d - 1) /\ all.lines = LinesRead(s, q, 1..Days)
      /\ got \in List /\ all \in List
  BY LogsAreLists DEF Reversed, List
<1>2. last \in List /\ Heads(last, day) /\ (Size(last) < N => last = day)
  BY <1>1, FirstLines
<1>3. LastOf(N, E).lines = last.lines /\ LastOf(N, E).desc = FALSE /\ LastOf(N, E) \in List
  BY <1>1, <1>2 DEF LastOf, Reversed, FirstOf, List
<1>4. /\ coll.lines = last.lines \cup LinesRead(s, q, 1..d - 1) /\ coll.desc = FALSE
      /\ coll \in List
  BY <1>1, <1>3 DEF Joined, List
<1>5. /\ Reversed(coll).lines = coll.lines /\ Reversed(coll).desc = TRUE
      /\ Reversed(all).lines = all.lines /\ Reversed(all).desc = TRUE
  BY <1>1, <1>4, LogsAreLists DEF Reversed, List
<1>6. last.lines \subseteq LinesRead(s, q, {d})
  BY <1>1, <1>2 DEF Heads
<1> HIDE DEF got, coll, all, day, last
<1>7. Heads(Reversed(coll), Reversed(all))
  <2>1. coll.lines \subseteq all.lines
    <3>1. 1..d - 1 \subseteq 1..Days /\ {d} \subseteq 1..Days
      BY LogPagesConstants
    <3>2. LinesRead(s, q, 1..d - 1) \subseteq LinesRead(s, q, 1..Days)
      BY <3>1 DEF LinesRead
    <3>3. LinesRead(s, q, {d}) \subseteq LinesRead(s, q, 1..Days)
      BY <3>1 DEF LinesRead
    <3>4. QED
      BY <1>1, <1>4, <1>6, <3>2, <3>3
  <2>2. ASSUME NEW l \in coll.lines, NEW k \in all.lines, Newer(k, l) PROVE k \in coll.lines
    <3>1. k \in Line /\ l \in Line /\ k[1] \in 1..Days /\ k[1] \in Int /\ l[1] \in Int
      BY <1>1, <2>1, LinesOfDays DEF Line
    <3>2. k[1] <= l[1] /\ l[1] <= d
      BY <1>4, <1>6, <2>2, <3>1, LinesOfDays DEF Newer
    <3>3. CASE k[1] < d
      <4>1. k[1] \in 1..d - 1
        BY <3>1, <3>3
      <4>2. QED
        BY <1>1, <1>4, <4>1, LinesOfDays
    <3>4. CASE ~(k[1] < d)
      <4>1. k[1] = d /\ l[1] = d
        BY <3>1, <3>2, <3>4
      <4>2. l \in last.lines /\ k \in day.lines
        BY <1>1, <1>4, <4>1, LinesOfDays
      <4>3. k \in Ahead(day, l)
        BY <1>1, <2>2, <4>2 DEF Ahead
      <4>4. QED
        BY <1>2, <1>4, <4>2, <4>3 DEF Heads
    <3>5. QED
      BY <3>3, <3>4
  <2>3. QED
    BY <1>5, <2>1, <2>2 DEF Heads, Ahead
<1>8. ASSUME Size(coll) < N PROVE coll = LogOf(s, q, 1..d)
  <2>1. Cardinality(last.lines) <= Cardinality(coll.lines)
    BY <1>4, LinesAreFinite, FS_Subset DEF List
  <2>2. last.lines \in SUBSET Line /\ coll.lines \in SUBSET Line
    BY <1>2, <1>4 DEF List
  <2>3. last = day
    BY <1>2, <1>8, <2>1, <2>2, LinesAreFinite DEF Size
  <2>4. \A l : l \in coll.lines <=> l \in LinesRead(s, q, 1..d)
    <3>1. \A l \in Line : l[1] \in 1..d <=> l[1] \in 1..d - 1 \/ l[1] \in {d}
      BY DEF Line
    <3>2. QED
      BY <1>1, <1>4, <2>3, <3>1, LinesOfDays
  <2>5. coll.lines = LinesRead(s, q, 1..d)
    BY <1>4, <2>4 DEF LinesRead
  <2>6. QED
    BY <1>4, <2>5, ListOfLines
<1>9. QED
  BY <1>4, <1>7, <1>8 DEF got, coll, all

\* One more day of a range.
LEMMA RangeDay ==
  ASSUME NEW s, NEW q, NEW d \in 1..Days, NEW K \in Nat \ {0}, NEW O \in Nat, NEW got,
         got = FirstOf(K, Dropped(O, LogOf(s, q, d + 1..Days))), Size(got) < K
  PROVE  LET L   == LogOf(s, q, d + 1..Days)
             day == LogOf(s, q, {d})
             add == FirstOf(K - Size(got), Dropped(MaxOf(0, O - Size(L)), day))
             P   == LogOf(s, q, d..Days)
         IN /\ Joined(got, add) = FirstOf(K, Dropped(O, P))
            /\ Size(P) = Size(L) + Size(day)
            /\ Size(Joined(got, add)) >= K =>
                 Joined(got, add) = FirstOf(K, Dropped(O, LogOf(s, q, 1..Days)))
<1> DEFINE L   == LogOf(s, q, d + 1..Days)
           day == LogOf(s, q, {d})
           n   == MaxOf(0, O - Size(L))
           m   == K - Size(got)
           add == FirstOf(m, Dropped(n, day))
           P   == LogOf(s, q, d..Days)
           all == LogOf(s, q, 1..Days)
           F   == FirstOf(K, Dropped(O, P))
           j   == Joined(got, add)
<1>1. /\ L \in List /\ day \in List /\ P \in List /\ all \in List
      /\ L.desc = FALSE /\ day.desc = FALSE /\ P.desc = FALSE /\ all.desc = FALSE
      /\ L.lines = LinesRead(s, q, d + 1..Days) /\ day.lines = LinesRead(s, q, {d})
      /\ P.lines = LinesRead(s, q, d..Days) /\ all.lines = LinesRead(s, q, 1..Days)
  BY LogsAreLists
<1>2. Dropped(O, L) \in List /\ Dropped(O, P) \in List /\ Dropped(n, day) \in List
  BY <1>1 DEF Dropped, List
<1>3. got \in List /\ add \in List /\ F \in List
  BY <1>2 DEF FirstOf, List
<1>4. Size(L) \in Nat /\ Size(day) \in Nat /\ Size(P) \in Nat /\ Size(got) \in Nat
  BY <1>1, <1>3, LinesAreFinite DEF Size, List
<1>5. /\ n = IF O <= Size(L) THEN 0 ELSE O - Size(L)
      /\ n \in Nat /\ m \in Nat
  BY <1>4 DEF MaxOf
<1> HIDE DEF L, day, P, all, n, m
<1>6. Size(got) = IF O <= Size(L) THEN Size(L) - O ELSE 0
  <2>1. got = Dropped(O, L)
    BY <1>2, FirstLines DEF L
  <2>2. QED
    BY <1>1, <2>1, DroppedSize
<1>7. m = IF O <= Size(L) THEN K - Size(L) + O ELSE K
  BY <1>4, <1>6 DEF m
<1>8. Joined(L, day) = P
  <2>1. \A l \in Line : l[1] \in d..Days <=> l[1] \in d + 1..Days \/ l[1] \in {d}
    BY LogPagesConstants DEF Line
  <2>2. P.lines = L.lines \cup day.lines
    BY <1>1, <2>1 DEF LinesRead
  <2>3. QED
    BY <1>1, <2>2 DEF Joined, List
<1>9. /\ Size(P) = Size(L) + Size(day)
      /\ \A l \in L.lines : Ahead(P, l) = Ahead(L, l)
      /\ \A l \in day.lines : Cardinality(Ahead(P, l)) = Size(L) + Cardinality(Ahead(day, l))
  <2>1. \A k \in L.lines, l \in day.lines : Newer(l, k)
    BY <1>1, LogPagesConstants DEF LinesRead, Line, Newer
  <2>2. \A k \in L.lines, l \in day.lines : IF L.desc THEN Newer(k, l) ELSE Newer(l, k)
    BY <1>1, <2>1
  <2>3. L \in List /\ day \in List /\ day.desc = L.desc
    BY <1>1
  <2>4. /\ Size(Joined(L, day)) = Size(L) + Size(day)
        /\ \A l \in L.lines : Ahead(Joined(L, day), l) = Ahead(L, l)
        /\ \A l \in day.lines :
             Cardinality(Ahead(Joined(L, day), l)) = Size(L) + Cardinality(Ahead(day, l))
    BY <2>2, <2>3, JoinedRanks
  <2>5. QED
    BY <1>8, <2>4
<1>10. /\ got.lines = {l \in L.lines : Cardinality(Ahead(L, l)) \in O..O + K - 1}
       /\ add.lines = {l \in day.lines : Cardinality(Ahead(day, l)) \in n..n + m - 1}
       /\ F.lines = {l \in P.lines : Cardinality(Ahead(P, l)) \in O..O + K - 1}
       /\ got.desc = FALSE /\ F.desc = FALSE
  <2>1. K \in Nat /\ O \in Nat
    OBVIOUS
  <2>2. /\ got.lines = {l \in L.lines : Cardinality(Ahead(L, l)) \in O..O + K - 1}
        /\ got.desc = FALSE
    BY <1>1, <2>1, PagesByRank DEF L
  <2>3. add.lines = {l \in day.lines : Cardinality(Ahead(day, l)) \in n..n + m - 1}
    <3>1. n \in Nat /\ m \in Nat /\ day \in List
      BY <1>1, <1>5
    <3>2. QED
      BY <3>1, PagesByRank
  <2>4. /\ F.lines = {l \in P.lines : Cardinality(Ahead(P, l)) \in O..O + K - 1}
        /\ F.desc = FALSE
    BY <1>1, <2>1, PagesByRank
  <2>5. QED
    BY <2>2, <2>3, <2>4
<1> HIDE DEF add, F
<1>11. P.lines = L.lines \cup day.lines
  BY <1>1, <1>8 DEF Joined, List
<1>12. j \in List /\ j.lines = got.lines \cup add.lines /\ j.desc = FALSE
  BY <1>3, <1>10 DEF Joined, List
<1> HIDE DEF j
<1>13. ASSUME NEW l \in L.lines PROVE l \in j.lines <=> l \in F.lines
  <2>1. l \notin day.lines
    BY <1>1, LogPagesConstants DEF LinesRead, Line
  <2>2. QED
    BY <1>9, <1>10, <1>11, <1>12, <2>1
<1>14. ASSUME NEW l \in day.lines PROVE l \in j.lines <=> l \in F.lines
  <2>1. l \notin L.lines
    BY <1>1, LogPagesConstants DEF LinesRead, Line
  <2>2. Cardinality(Ahead(day, l)) \in Nat
    BY <1>1, LinesAreFinite DEF Ahead, List
  <2>3. Cardinality(Ahead(P, l)) = Size(L) + Cardinality(Ahead(day, l))
    BY <1>9
  <2>4. Cardinality(Ahead(day, l)) \in n..n + m - 1
          <=> Cardinality(Ahead(P, l)) \in O..O + K - 1
    <3> DEFINE i == Cardinality(Ahead(day, l))
               c == Size(L)
    <3>1. i \in Nat /\ c \in Nat /\ Cardinality(Ahead(P, l)) = c + i
      BY <1>4, <2>2, <2>3
    <3> HIDE DEF i, c
    <3>2. i \in n..n + m - 1 <=> c + i \in O..O + K - 1
      <4>1. CASE O <= c
        <5>1. n = 0 /\ m = K - c + O
          BY <1>5, <1>7, <4>1 DEF c
        <5>2. QED
          BY <3>1, <4>1, <5>1
      <4>2. CASE ~(O <= c)
        <5>1. n = O - c /\ m = K
          BY <1>5, <1>7, <4>2 DEF c
        <5>2. QED
          BY <3>1, <4>2, <5>1
      <4>3. QED
        BY <4>1, <4>2
    <3>3. QED
      BY <3>1, <3>2 DEF i
  <2>5. QED
    BY <1>10, <1>11, <1>12, <2>1, <2>4
<1>15. j = F
  <2>1. j.lines \subseteq P.lines /\ F.lines \subseteq P.lines
    BY <1>10, <1>11, <1>12
  <2>2. \A l : l \in j.lines <=> l \in F.lines
    BY <1>11, <1>13, <1>14, <2>1
  <2>3. QED
    BY <1>3, <1>10, <1>12, <2>2, SameList
<1>16. ASSUME Size(j) >= K PROVE F = FirstOf(K, Dropped(O, all))
  <2>1. Heads(P, all)
    <3>1. P.lines \subseteq all.lines
      BY <1>1, LogPagesConstants DEF LinesRead
    <3>2. ASSUME NEW l \in P.lines, NEW k \in all.lines, Newer(l, k) PROVE k \in P.lines
      BY <1>1, <3>2, LogPagesConstants DEF LinesRead, Line, Newer
    <3>3. QED
      BY <1>1, <3>1, <3>2 DEF Heads, Ahead
  <2>2. Size(P) >= O + K
    <3>1. F.lines \subseteq Dropped(O, P).lines
      BY <1>2, FirstLines DEF Heads, F
    <3>2. Dropped(O, P).lines \in SUBSET Line /\ F.lines \in SUBSET Line
      BY <1>2, <1>3 DEF List
    <3>3. Size(F) <= Size(Dropped(O, P))
      BY <3>1, <3>2, LinesAreFinite, FS_Subset DEF Size
    <3>4. Size(Dropped(O, P)) = IF O <= Size(P) THEN Size(P) - O ELSE 0
      BY <1>1, DroppedSize
    <3>5. Size(F) \in Nat /\ Size(F) >= K
      BY <1>15, <1>16, <3>2, LinesAreFinite DEF Size
    <3>6. QED
      BY <1>4, <3>3, <3>4, <3>5
  <2>3. O + K \in Nat
    OBVIOUS
  <2>4. QED
    BY <1>1, <1>4, <2>1, <2>2, <2>3, HeadsAreEnough DEF F
<1>17. QED
  BY <1>9, <1>15, <1>16 DEF L, day, n, m, add, P, all, F, j

-----------------------------------------------------------------------------
(* The pages that are answered.                                                *)

PageLines(s, q, desc) ==
  LET all == LinesRead(s, q, 1..Days)
  IN {l \in all : Cardinality(Ahead([lines |-> all, desc |-> desc], l))
                    \in q.offset .. q.offset + q.limit - 1}

\* PagesAreExact of an answer, with what it depends on written out.
Exact(r, s) ==
  LET more == Cardinality(LinesRead(s, r.q, 1..Days)) > r.q.offset + r.q.limit
  IN /\ r.q.mode = "latest" /\ (\A d \in 1..Days : s[d] <= Cap) =>
          /\ r.got = [lines |-> PageLines(s, r.q, TRUE), desc |-> r.q.sort = "desc"]
          /\ r.hasMore = more
     /\ r.q.mode = "range" /\ r.q.type # "metrics" =>
          /\ r.q.sort = "desc" /\ Cardinality(LinesRead(s, r.q, 1..Days)) <= Cap =>
               /\ r.got = [lines |-> PageLines(s, r.q, TRUE), desc |-> TRUE]
               /\ more => r.hasMore
          /\ r.q.sort = "asc" /\ Counted(r.q) =>
               /\ r.got = [lines |-> PageLines(s, r.q, FALSE), desc |-> FALSE]
               /\ more => r.hasMore

LEMMA ExactIs == PagesAreExact <=> (reading.pc = "answered" => Exact(reading, seen))
<1>1. Logged = LinesRead(seen, reading.q, 1..Days)
  BY DEF Logged, LinesRead, Line
<1>2. PageOf(TRUE) = PageLines(seen, reading.q, TRUE)
  BY <1>1 DEF PageOf, PageLines
<1>3. PageOf(FALSE) = PageLines(seen, reading.q, FALSE)
  BY <1>1 DEF PageOf, PageLines
<1>4. CASE reading.q.sort = "asc"
  BY <1>1, <1>2, <1>3, <1>4 DEF PagesAreExact, Exact, Counted
<1>5. CASE reading.q.sort # "asc"
  BY <1>1, <1>2, <1>3, <1>5 DEF PagesAreExact, Exact, Counted
<1>6. QED
  BY <1>4, <1>5

LEMMA QueryNumbers ==
  ASSUME NEW q \in LogsQuery
  PROVE  /\ q.offset \in Nat /\ q.limit \in Nat \ {0} /\ Needed(q) \in Nat \ {0}
         /\ Begin(q) \in Nat /\ Most(q) \in Nat \ {0}
<1>1. q.offset \in Offsets /\ q.limit \in Limits
  BY DEF LogsQuery
<1>2. q.offset \in Nat /\ q.limit \in Nat \ {0} /\ Cap \in Nat \ {0}
  BY <1>1, LogPagesConstants
<1>3. QED
  BY <1>2 DEF Needed, Begin, Most, MaxOf

\* A page of all the lines.
LEMMA PageOfAll ==
  ASSUME NEW s, NEW q \in LogsQuery, NEW p \in List, p.lines = LinesRead(s, q, 1..Days)
  PROVE  /\ q.offset \in Nat /\ q.limit \in Nat \ {0}
         /\ FirstOf(q.limit, Dropped(q.offset, p))
              = [lines |-> PageLines(s, q, p.desc), desc |-> p.desc]
         /\ Size(p) > q.offset + q.limit =>
              Size(FirstOf(q.limit, Dropped(q.offset, p))) = q.limit
<1>1. q.offset \in Nat /\ q.limit \in Nat /\ q.limit # 0
  BY LogPagesConstants DEF LogsQuery
<1>2. p = [lines |-> LinesRead(s, q, 1..Days), desc |-> p.desc]
  BY DEF List
<1> DEFINE f == FirstOf(q.limit, Dropped(q.offset, p))
           page == PageLines(s, q, p.desc)
<1>3. page = {l \in p.lines : Cardinality(Ahead(p, l)) \in q.offset..q.offset + q.limit - 1}
  BY <1>2 DEF PageLines
<1>4. f.lines = page /\ f.desc = p.desc
  BY <1>1, <1>3, PagesByRank
<1>5. f \in List
  BY DEF FirstOf, Dropped, List
<1>6. Size(p) \in Nat
  BY LinesAreFinite DEF Size, List
<1> HIDE DEF f, page
<1>7. ASSUME Size(p) > q.offset + q.limit PROVE Size(f) = q.limit
  <2>1. Dropped(q.offset, p) \in List /\ Size(Dropped(q.offset, p)) = Size(p) - q.offset
    <3>1. q.offset \in Nat /\ q.offset <= Size(p)
      BY <1>1, <1>6, <1>7
    <3>2. QED
      BY <3>1, DroppedSize
  <2>2. q.limit <= Size(Dropped(q.offset, p))
    BY <1>1, <1>6, <1>7, <2>1
  <2>3. QED
    BY <1>1, <2>1, <2>2, FirstLines DEF f
<1>8. f = [lines |-> page, desc |-> p.desc]
  BY <1>4, <1>5 DEF List
<1>9. QED
  BY <1>1, <1>7, <1>8 DEF f, page

\* What is answered of the latest lines.
LEMMA LatestPage ==
  ASSUME NEW s, NEW q \in LogsQuery, NEW coll \in List,
         Heads(Reversed(coll), Reversed(LogOf(s, q, 1..Days))),
         Size(coll) >= Needed(q) \/ coll = LogOf(s, q, 1..Days)
  PROVE  /\ FirstOf(q.limit, Dropped(q.offset, Reversed(coll)))
              = [lines |-> PageLines(s, q, TRUE), desc |-> TRUE]
         /\ (Size(Dropped(q.offset, Reversed(coll))) > q.limit)
              <=> (Cardinality(LinesRead(s, q, 1..Days)) > q.offset + q.limit)
<1> DEFINE r == Reversed(coll)
           p == Reversed(LogOf(s, q, 1..Days))
<1>1. /\ p \in List /\ p.desc = TRUE /\ p.lines = LinesRead(s, q, 1..Days)
      /\ r \in List /\ r.lines = coll.lines
  BY LogsAreLists DEF Reversed, List
<1>2. q.offset \in Nat /\ q.limit \in Nat \ {0} /\ Needed(q) \in Nat
  BY QueryNumbers
<1>3. Size(r) >= Needed(q) \/ r.lines = p.lines
  BY <1>1, LogsAreLists DEF Size
<1> HIDE DEF r, p
<1>4. Heads(r, p)
  BY DEF r, p
<1>5. FirstOf(q.limit, Dropped(q.offset, r)) = FirstOf(q.limit, Dropped(q.offset, p))
  <2>1. q.offset + q.limit <= Needed(q)
    BY <1>2 DEF Needed
  <2>2. QED
    BY <1>1, <1>2, <1>3, <1>4, <2>1, HeadsAreEnough
<1>6. Size(r) \in Nat /\ Size(p) \in Nat /\ Size(r) <= Size(p)
  BY <1>1, <1>4, LinesAreFinite, FS_Subset DEF Size, List, Heads
<1>7. Size(Dropped(q.offset, r)) = IF q.offset <= Size(r) THEN Size(r) - q.offset ELSE 0
  BY <1>1, <1>2, DroppedSize
<1>8. (Size(Dropped(q.offset, r)) > q.limit) <=> (Size(p) > q.offset + q.limit)
  BY <1>2, <1>3, <1>6, <1>7 DEF Needed, Size
<1>9. FirstOf(q.limit, Dropped(q.offset, p)) = [lines |-> PageLines(s, q, TRUE), desc |-> TRUE]
  BY <1>1, PageOfAll
<1>10. QED
  BY <1>1, <1>5, <1>8, <1>9 DEF r, Size

\* What is answered of a range.
LEMMA RangePage ==
  ASSUME NEW s, NEW q \in LogsQuery, NEW got,
         got = FirstOf(Most(q), Dropped(Begin(q), LogOf(s, q, 1..Days)))
  PROVE  LET more == Cardinality(LinesRead(s, q, 1..Days)) > q.offset + q.limit
             page == FirstOf(q.limit, Dropped(q.offset, Reversed(got)))
         IN /\ q.sort = "desc" /\ Cardinality(LinesRead(s, q, 1..Days)) <= Cap =>
                 /\ page = [lines |-> PageLines(s, q, TRUE), desc |-> TRUE]
                 /\ more => Size(page) >= q.limit
            /\ q.sort = "asc" =>
                 /\ got = [lines |-> PageLines(s, q, FALSE), desc |-> FALSE]
                 /\ more => Size(got) >= q.limit
<1> DEFINE all == LogOf(s, q, 1..Days)
<1>1. /\ all \in List /\ all.desc = FALSE /\ all.lines = LinesRead(s, q, 1..Days)
      /\ Reversed(all) \in List /\ Reversed(all).desc = TRUE
      /\ Reversed(all).lines = LinesRead(s, q, 1..Days)
  <2>1. all \in List /\ all.desc = FALSE /\ all.lines = LinesRead(s, q, 1..Days)
    BY LogsAreLists
  <2> HIDE DEF all
  <2>2. QED
    BY <2>1 DEF Reversed, List
<1> HIDE DEF all
<1>2. q.offset \in Nat /\ q.limit \in Nat \ {0} /\ Cap \in Nat
  BY QueryNumbers, LogPagesConstants
<1>3. Size(all) \in Nat /\ Size(Reversed(all)) = Size(all)
  BY <1>1, LinesAreFinite DEF Size, List
<1>4. CASE q.sort = "desc"
  <2> SUFFICES ASSUME Size(all) <= Cap
               PROVE  LET page == FirstOf(q.limit, Dropped(q.offset, Reversed(got)))
                      IN /\ page = [lines |-> PageLines(s, q, TRUE), desc |-> TRUE]
                         /\ Size(all) > q.offset + q.limit => Size(page) >= q.limit
    BY <1>1, <1>4 DEF Size
  <2>1. \A l \in all.lines : Cardinality(Ahead(all, l)) \in 0..Size(all) - 1
    BY <1>1, RanksAreNumbers DEF RankIn, Bijection, Injection
  <2>2. Most(q) \in Nat /\ Size(all) <= Most(q)
    BY <1>2, <1>3, <1>4 DEF Most, MaxOf
  <2>3. got.lines = {l \in all.lines : Cardinality(Ahead(all, l)) \in 0..0 + Most(q) - 1}
        /\ got.desc = FALSE
    BY <1>1, <1>4, <2>2, PagesByRank DEF Begin, all
  <2>4. \A l \in all.lines : l \in got.lines
    BY <1>3, <2>1, <2>2, <2>3
  <2>5. got.lines = all.lines
    BY <2>3, <2>4
  <2>6. got \in List
    BY <1>1 DEF FirstOf, Dropped, List, all
  <2>7. got = all
    BY <1>1, <2>3, <2>5, <2>6, SameList
  <2> DEFINE page == FirstOf(q.limit, Dropped(q.offset, Reversed(all)))
  <2>8. /\ page = [lines |-> PageLines(s, q, TRUE), desc |-> TRUE]
        /\ Size(all) > q.offset + q.limit => Size(page) = q.limit
    BY <1>1, <1>3, PageOfAll
  <2>9. QED
    BY <1>2, <2>7, <2>8
<1>5. CASE q.sort = "asc"
  <2> SUFFICES /\ got = [lines |-> PageLines(s, q, FALSE), desc |-> FALSE]
               /\ Cardinality(LinesRead(s, q, 1..Days)) > q.offset + q.limit => Size(got) >= q.limit
    BY <1>5
  <2>1. got = FirstOf(q.limit, Dropped(q.offset, all))
    BY <1>5 DEF Most, Begin, all
  <2>2. /\ got = [lines |-> PageLines(s, q, FALSE), desc |-> FALSE]
        /\ Size(all) > q.offset + q.limit => Size(got) = q.limit
    BY <1>1, <2>1, PageOfAll
  <2>3. Size(all) = Cardinality(LinesRead(s, q, 1..Days))
    BY <1>1 DEF Size
  <2>4. Size(all) > q.offset + q.limit => Size(got) >= q.limit
    BY <1>2, <2>2
  <2>5. QED
    BY <2>2, <2>3, <2>4
<1>6. QED
  BY <1>4, <1>5

-----------------------------------------------------------------------------
(* Steps.                                                                      *)

LEMMA FirstAndRest ==
  ASSUME NEW S, NEW left \in Seq(S), Len(left) >= 1
  PROVE  /\ left # <<>> /\ Head(left) = left[1] /\ Head(left) \in S
         /\ Tail(left) \in Seq(S) /\ Len(Tail(left)) = Len(left) - 1
         /\ \A i \in 1..Len(left) - 1 : i + 1 \in 1..Len(left) /\ Tail(left)[i] = left[i + 1]
<1>1. Len(left) \in Nat /\ 1 \in 1..Len(left)
  OBVIOUS
<1>2. left # <<>>
  BY <1>1
<1>3. Head(left) = left[1] /\ left[1] \in S
  BY <1>1, <1>2
<1>4. Tail(left) \in Seq(S) /\ Len(Tail(left)) = Len(left) - 1
  BY <1>1, <1>2
<1>5. \A i \in 1..Len(left) - 1 : i + 1 \in 1..Len(left) /\ Tail(left)[i] = left[i + 1]
  BY <1>1, <1>2
<1>6. QED
  BY <1>2, <1>3, <1>4, <1>5

LEMMA DaysToRead ==
  ASSUME NEW left \in Seq(1..Days), Len(left) \in 1..Days
  PROVE  /\ left # <<>> /\ Head(left) = left[1] /\ Head(left) \in 1..Days
         /\ Len(left) \in Nat /\ 1 \in 1..Len(left)
         /\ Tail(left) \in Seq(1..Days) /\ Len(Tail(left)) = Len(left) - 1
         /\ \A i \in 1..Len(left) - 1 : i + 1 \in 1..Len(left) /\ Tail(left)[i] = left[i + 1]
<1>1. Len(left) \in Nat /\ Len(left) >= 1 /\ 1 \in 1..Len(left)
  OBVIOUS
<1>2. QED
  BY <1>1, FirstAndRest

\* The day read next, and the days read after it.
LEMMA NextLatestDay ==
  ASSUME NEW r, r.left \in Seq(1..Days), DaysLeft(r), r.q.mode = "latest"
  PROVE  LET d == Head(r.left)
         IN /\ d \in 1..Days /\ DaysRead(r) = 1..d - 1 /\ (Len(r.left) = 1 => d = Days)
            /\ \A t : t.q = r.q /\ t.left = Tail(r.left) /\ Len(r.left) # 1 =>
                 DaysLeft(t) /\ DaysRead(t) = 1..d
<1> DEFINE left == r.left
           n == Len(left)
           d == Head(left)
<1>1. /\ left # <<>> /\ d = left[1] /\ d \in 1..Days
      /\ n \in Nat /\ n \in 1..Days /\ 1 \in 1..n
      /\ Tail(left) \in Seq(1..Days) /\ Len(Tail(left)) = n - 1
      /\ \A i \in 1..n - 1 : i + 1 \in 1..n /\ Tail(left)[i] = left[i + 1]
  BY DaysToRead DEF DaysLeft
<1>2. (\A i \in 1..n : left[i] = Days - n + i) /\ DaysRead(r) = 1..Days - n
  BY DEF DaysLeft, DaysRead
<1> HIDE DEF left, n, d
<1>3. Days \in Nat
  BY LogPagesConstants
<1>4. d = Days - n + 1
  BY <1>1, <1>2
<1>5. d - 1 = Days - n /\ (n = 1 => d = Days)
  BY <1>1, <1>3, <1>4
<1>6. ASSUME NEW t, t.q = r.q, t.left = Tail(left), n # 1
      PROVE  DaysLeft(t) /\ DaysRead(t) = 1..d
  <2>1. Len(t.left) = n - 1 /\ n - 1 \in 1..Days
    BY <1>1, <1>3, <1>6
  <2>2. ASSUME NEW i \in 1..n - 1 PROVE t.left[i] = Days - (n - 1) + i
    <3>1. t.left[i] = left[i + 1] /\ i + 1 \in 1..n
      BY <1>1, <1>6
    <3>2. left[i + 1] = Days - n + (i + 1)
      BY <1>2, <3>1
    <3>3. QED
      BY <1>1, <1>3, <3>1, <3>2
  <2>3. DaysLeft(t)
    BY <1>6, <2>1, <2>2 DEF DaysLeft
  <2>4. DaysRead(t) = 1..Days - (n - 1)
    BY <1>6, <2>1 DEF DaysRead
  <2>5. Days - (n - 1) = d
    BY <1>1, <1>3, <1>4
  <2>6. QED
    BY <2>3, <2>4, <2>5
<1>7. QED
  BY <1>1, <1>2, <1>5, <1>6 DEF left, n, d

LEMMA NextRangeDay ==
  ASSUME NEW r, r.left \in Seq(1..Days), DaysLeft(r), r.q.mode = "range"
  PROVE  LET d == Head(r.left)
         IN /\ d \in 1..Days /\ DaysRead(r) = d + 1..Days /\ (Len(r.left) = 1 => d = 1)
            /\ \A t : t.q = r.q /\ t.left = Tail(r.left) /\ Len(r.left) # 1 =>
                 DaysLeft(t) /\ DaysRead(t) = d..Days
<1> DEFINE left == r.left
           n == Len(left)
           d == Head(left)
<1>1. /\ left # <<>> /\ d = left[1] /\ d \in 1..Days
      /\ n \in Nat /\ n \in 1..Days /\ 1 \in 1..n
      /\ Tail(left) \in Seq(1..Days) /\ Len(Tail(left)) = n - 1
      /\ \A i \in 1..n - 1 : i + 1 \in 1..n /\ Tail(left)[i] = left[i + 1]
  BY DaysToRead DEF DaysLeft
<1>2. (\A i \in 1..n : left[i] = n + 1 - i) /\ DaysRead(r) = n + 1..Days
  BY DEF DaysLeft, DaysRead
<1> HIDE DEF left, n, d
<1>3. d = n
  BY <1>1, <1>2
<1>4. ASSUME NEW t, t.q = r.q, t.left = Tail(left), n # 1
      PROVE  DaysLeft(t) /\ DaysRead(t) = d..Days
  <2>1. Len(t.left) = n - 1 /\ n - 1 \in 1..Days
    BY <1>1, <1>4, LogPagesConstants
  <2>2. ASSUME NEW i \in 1..n - 1 PROVE t.left[i] = n - 1 + 1 - i
    <3>1. t.left[i] = left[i + 1] /\ i + 1 \in 1..n
      BY <1>1, <1>4
    <3>2. left[i + 1] = n + 1 - (i + 1)
      BY <1>2, <3>1
    <3>3. QED
      BY <1>1, <3>1, <3>2
  <2>3. DaysLeft(t)
    BY <1>4, <2>1, <2>2 DEF DaysLeft
  <2>4. DaysRead(t) = n - 1 + 1..Days
    BY <1>4, <2>1 DEF DaysRead
  <2>5. n - 1 + 1 = d
    BY <1>1, <1>3
  <2>6. QED
    BY <2>3, <2>4, <2>5
<1>5. QED
  BY <1>1, <1>2, <1>3, <1>4 DEF left, n, d

\* Another of the latest days is read, of which as much is had as a page may need.
LEMMA LatestStep ==
  ASSUME LogPagesTypeOK, Reading(reading, seen), NEW E \in List, E.desc = FALSE,
         reading.pc \in {"stream", "get", "again"}, reading.q.mode = "latest",
         files[Head(reading.left)] <= Cap =>
           LastOf(maxNeeded, E) = LastOf(maxNeeded,
             LogOf([seen EXCEPT ![Head(reading.left)] = files[Head(reading.left)]],
                   reading.q, {Head(reading.left)})),
         getLatestLogs(E), ReadDay, UNCHANGED files
  PROVE  LogPagesTypeOK' /\ Reading(reading', seen')
    /\ (reading'.pc = "answered" => Exact(reading', seen'))
<1> DEFINE q == reading.q
           d == Head(reading.left)
           got == reading.got
           coll == Joined(LastOf(maxNeeded, E), got)
           rest == Dropped(q.offset, Reversed(coll))
           page == FirstOf(q.limit, rest)
           pc == IF q.type = "metrics" THEN "stream" ELSE "stat"
           enough == Size(coll) >= maxNeeded \/ Len(reading.left) = 1
           fine(D) == \A k \in D : seen'[k] <= Cap
<1>1. /\ q \in LogsQuery /\ q.mode = "latest" /\ q.sort \in {"asc", "desc"}
      /\ q.type \in {"all", "metrics"}
      /\ q.offset \in Nat /\ q.limit \in Nat \ {0}
      /\ maxNeeded = Needed(q) /\ Needed(q) \in Nat \ {0}
  BY QueryNumbers DEF LogPagesTypeOK, LogsQuery, maxNeeded, Needed
<1>2. /\ DaysLeft(reading) /\ Collected(reading, seen) /\ reading.left \in Seq(1..Days)
      /\ reading.left # <<>>
  BY LogPagesConstants DEF LogPagesTypeOK, Reading, DaysLeft
<1>3. /\ d \in 1..Days /\ DaysRead(reading) = 1..d - 1
      /\ Len(reading.left) = 1 => d = Days
      /\ \A t : t.q = q /\ t.left = Tail(reading.left) /\ Len(reading.left) # 1 =>
           DaysLeft(t) /\ DaysRead(t) = 1..d
  BY <1>1, <1>2, NextLatestDay
<1>4. /\ got \in List /\ got.desc = FALSE
      /\ Reversed(E) \in List /\ FirstOf(maxNeeded, Reversed(E)) \in List
  BY <1>2, PartsOfLists DEF LogPagesTypeOK, Collected
<1>5. /\ LastOf(maxNeeded, E) \in List /\ LastOf(maxNeeded, E).desc = FALSE
      /\ coll \in List /\ coll.desc = FALSE
  BY <1>4 DEF LastOf, Reversed, FirstOf, Joined, List
<1>6. /\ Reversed(coll) \in List /\ rest \in List /\ page \in List /\ Reversed(page) \in List
      /\ page.desc = TRUE
  BY <1>5 DEF Reversed, Dropped, FirstOf, List
<1>7. /\ seen \in [1..Days -> 0..MaxLines] /\ files \in [1..Days -> 0..MaxLines]
      /\ seen' = [seen EXCEPT ![d] = files[d]] /\ seen'[d] = files[d] /\ files' = files
      /\ \A k \in 1..Days : k # d => seen'[k] = seen[k]
  BY <1>3 DEF ReadDay, LogPagesTypeOK
<1>8. ASSUME fine(1..d)
      PROVE  /\ Heads(Reversed(coll), Reversed(LogOf(seen', q, 1..Days)))
             /\ Size(coll) < Needed(q) => coll = LogOf(seen', q, 1..d)
  <2>1. LastOf(Needed(q), E) = LastOf(Needed(q), LogOf(seen', q, {d}))
    BY <1>1, <1>3, <1>7, <1>8
  <2> HIDE DEF d, q, got
  <2>2. 1..d - 1 \in SUBSET (1..Days) /\ d \notin 1..d - 1
    BY <1>3, LogPagesConstants
  <2>3. \A k \in 1..d - 1 : seen[k] = seen'[k] /\ k \in 1..d
    BY <1>3, <1>7, <2>2, LogPagesConstants
  <2>4. LogOf(seen', q, 1..d - 1) = LogOf(seen, q, 1..d - 1)
    <3>1. \A k \in 1..d - 1 : seen[k] = seen'[k]
      BY <2>3
    <3>2. LinesRead(seen', q, 1..d - 1) = LinesRead(seen, q, 1..d - 1)
      BY <3>1 DEF LinesRead
    <3>3. QED
      BY <3>2 DEF LogOf
  <2>5. got = LogOf(seen', q, 1..d - 1)
    BY <1>2, <1>3, <1>8, <2>3, <2>4 DEF Collected, q, got
  <2>6. /\ Heads(Reversed(Joined(LastOf(Needed(q), E), LogOf(seen', q, 1..d - 1))),
                 Reversed(LogOf(seen', q, 1..Days)))
        /\ Size(Joined(LastOf(Needed(q), E), LogOf(seen', q, 1..d - 1))) < Needed(q) =>
             Joined(LastOf(Needed(q), E), LogOf(seen', q, 1..d - 1)) = LogOf(seen', q, 1..d)
    <3>1. Needed(q) \in Nat /\ d \in 1..Days
      BY <1>1, <1>3
    <3>2. QED
      BY <2>1, <3>1, LatestDay
  <2>7. coll = Joined(LastOf(Needed(q), E), LogOf(seen', q, 1..d - 1))
    BY <1>1, <2>5
  <2>8. QED
    BY <2>6, <2>7
<1>9. seen' \in [1..Days -> 0..MaxLines]
  BY <1>3, <1>7 DEF LogPagesTypeOK
<1>10. CASE enough
  <2>1. reading' = [reading EXCEPT !.pc = "answered", !.left = <<>>,
                      !.got = IF q.sort = "asc" THEN Reversed(page) ELSE page,
                      !.hasMore = Size(rest) > q.limit]
    BY <1>10 DEF getLatestLogs, AnswerPage
  <2>2. /\ reading'.pc = "answered" /\ reading'.q = q
        /\ reading'.got = (IF q.sort = "asc" THEN Reversed(page) ELSE page)
        /\ reading'.hasMore = (Size(rest) > q.limit)
    BY <2>1 DEF LogPagesTypeOK
  <2>3. LogPagesTypeOK'
    <3>1. (IF q.sort = "asc" THEN Reversed(page) ELSE page) \in List
      BY <1>6
    <3>2. (Size(rest) > q.limit) \in BOOLEAN /\ <<>> \in Seq(1..Days)
      OBVIOUS
    <3> HIDE DEF page, rest, q
    <3>3. QED
      BY <1>7, <1>9, <2>1, <3>1, <3>2 DEF LogPagesTypeOK
  <2>4. ASSUME fine(1..Days)
        PROVE  /\ page = [lines |-> PageLines(seen', q, TRUE), desc |-> TRUE]
               /\ (Size(rest) > q.limit)
                    <=> (Cardinality(LinesRead(seen', q, 1..Days)) > q.offset + q.limit)
    <3>1. fine(1..d)
      BY <1>3, <2>4, LogPagesConstants
    <3>2. Size(coll) \in Nat
      BY <1>5, LinesAreFinite DEF Size, List
    <3>3. Size(coll) >= Needed(q) \/ coll = LogOf(seen', q, 1..Days)
      BY <1>1, <1>3, <1>8, <1>10, <3>1, <3>2
    <3>4. QED
      BY <1>1, <1>5, <1>8, <3>1, <3>3, LatestPage
  <2>5. ASSUME fine(1..Days)
        PROVE  reading'.got = [lines |-> PageLines(seen', q, TRUE), desc |-> q.sort = "desc"]
    <3> HIDE DEF page, rest, q
    <3>1. CASE q.sort = "asc"
      <4>1. reading'.got = Reversed(page)
              /\ page = [lines |-> PageLines(seen', q, TRUE), desc |-> TRUE]
        BY <2>2, <2>4, <2>5, <3>1
      <4>2. Reversed(page) = [lines |-> PageLines(seen', q, TRUE), desc |-> FALSE]
        BY <4>1 DEF Reversed
      <4>3. QED
        BY <3>1, <4>1, <4>2
    <3>2. CASE q.sort = "desc"
      BY <2>2, <2>4, <2>5, <3>2
    <3>3. QED
      BY <1>1, <3>1, <3>2
  <2>6. Exact(reading', seen')
    BY <1>1, <2>2, <2>4, <2>5 DEF Exact
  <2>7. QED
    BY <2>2, <2>3, <2>6 DEF Reading
<1>11. CASE ~enough
  <2>1. reading' = [reading EXCEPT !.got = coll, !.left = Tail(reading.left), !.pc = pc]
    BY <1>11 DEF getLatestLogs
  <2>2. /\ reading'.pc = pc /\ reading'.q = q /\ reading'.got = coll
        /\ reading'.left = Tail(reading.left)
    BY <2>1 DEF LogPagesTypeOK
  <2>3. Tail(reading.left) \in Seq(1..Days)
    BY <1>2, DaysToRead DEF DaysLeft
  <2>4. LogPagesTypeOK'
    BY <1>5, <1>7, <1>9, <2>1, <2>3 DEF LogPagesTypeOK
  <2>5. Len(reading.left) # 1 /\ Size(coll) < Needed(q)
    <3>1. Size(coll) \in Nat
      BY <1>5, LinesAreFinite DEF Size, List
    <3>2. QED
      BY <1>1, <1>11, <3>1
  <2>6. DaysLeft(reading') /\ DaysRead(reading') = 1..d
    BY <1>3, <2>2, <2>5
  <2>7. Collected(reading', seen')
    BY <1>5, <1>8, <2>2, <2>5, <2>6 DEF Collected
  <2>8. Reading(reading', seen')
    BY <1>1, <2>2, <2>6, <2>7 DEF Reading
  <2>9. QED
    BY <2>2, <2>4, <2>8
<1>12. QED
  BY <1>10, <1>11

\* The first lines of the first lines, and the whole of a list from its start.
LEMMA FirstOfFirst ==
  ASSUME NEW p \in List, NEW n \in Nat
  PROVE  /\ FirstOf(n, FirstOf(n, p)) = FirstOf(n, p)
         /\ Dropped(0, p) = p
<1>1. /\ FirstOf(n, p) \in List /\ Heads(FirstOf(n, p), p) /\ Size(FirstOf(n, p)) \in Nat
      /\ Size(FirstOf(n, p)) < n => FirstOf(n, p) = p
  BY FirstLines
<1>2. FirstOf(n, FirstOf(n, p)) = FirstOf(n, p)
  <2>1. FirstOf(n, p).lines = p.lines \/ Size(FirstOf(n, p)) >= n
    BY <1>1
  <2>2. QED
    BY <1>1, <2>1, HeadsAreEnough, 0 \in Nat, 0 + n <= n
<1>3. Dropped(0, p) = p
  <2>1. \A l \in p.lines : Cardinality(Ahead(p, l)) >= 0
    BY LinesAreFinite DEF Ahead, List
  <2>2. /\ Dropped(0, p) \in List /\ Dropped(0, p).desc = p.desc
        /\ Dropped(0, p).lines = {l \in p.lines : Cardinality(Ahead(p, l)) >= 0}
    BY PartsOfLists
  <2>3. Dropped(0, p).lines = p.lines
    BY <2>1, <2>2
  <2>4. QED
    BY <2>2, <2>3, SameList
<1>4. QED
  BY <1>2, <1>3

\* The tail of a file is enough if it has as many lines as are needed, or is all of it.
LEMMA TailIsEnough ==
  ASSUME NEW C \in List, C.desc = FALSE, NEW start \in Nat, NEW N \in Nat,
         start = 0 \/ Size(LastOf(N, Dropped(start, C))) >= N
  PROVE  LastOf(N, LastOf(N, Dropped(start, C))) = LastOf(N, C)
<1> DEFINE E == LastOf(N, Dropped(start, C))
           X == Reversed(Dropped(start, C))
           Y == Reversed(C)
           F == FirstOf(N, X)
<1>1. /\ Dropped(start, C) \in List /\ Dropped(start, C).desc = FALSE
      /\ Dropped(start, C).lines = {l \in C.lines : Cardinality(Ahead(C, l)) >= start}
  BY PartsOfLists
<1>2. /\ X \in List /\ X.desc = TRUE /\ X.lines = Dropped(start, C).lines
      /\ Y \in List /\ Y.desc = TRUE /\ Y.lines = C.lines
  BY <1>1 DEF Reversed, List
<1>3. E = Reversed(F)
  BY DEF LastOf
<1> HIDE DEF X, Y
<1>4. /\ F \in List /\ F.desc = TRUE /\ F.lines \subseteq X.lines
      /\ FirstOf(N, F) = F /\ FirstOf(N, Y) \in List
  BY <1>2, FirstLines, FirstOfFirst DEF Heads
<1> HIDE DEF F, E
<1>5. E \in List /\ E.desc = FALSE /\ E.lines = F.lines /\ Reversed(E) = F
  BY <1>3, <1>4 DEF Reversed, List
<1>6. Heads(X, Y)
  <2>1. ASSUME NEW l \in X.lines, NEW k \in Ahead(Y, l) PROVE k \in X.lines
    <3>1. l \in C.lines /\ k \in C.lines /\ l \in Ahead(C, k)
      BY <1>1, <1>2, <2>1 DEF Ahead
    <3>2. Cardinality(Ahead(C, l)) < Cardinality(Ahead(C, k))
      BY <3>1, RanksAreNumbers DEF RankIn
    <3>3. Cardinality(Ahead(C, l)) \in Nat /\ Cardinality(Ahead(C, k)) \in Nat
      BY LinesAreFinite DEF Ahead, List
    <3>4. Cardinality(Ahead(C, l)) >= start
      BY <1>1, <1>2
    <3>5. QED
      BY <1>1, <1>2, <3>1, <3>2, <3>3, <3>4
  <2>2. QED
    BY <1>1, <1>2, <2>1 DEF Heads
<1>7. X.lines = Y.lines \/ Size(X) >= N
  <2>1. CASE start = 0
    BY <1>2, <2>1, FirstOfFirst
  <2>2. CASE Size(E) >= N
    <3>1. Cardinality(F.lines) <= Cardinality(X.lines)
      BY <1>2, <1>4, LinesAreFinite, FS_Subset DEF List
    <3>2. Cardinality(F.lines) \in Nat /\ Cardinality(X.lines) \in Nat
      BY <1>2, <1>4, LinesAreFinite DEF List
    <3>3. QED
      BY <1>5, <2>2, <3>1, <3>2 DEF Size
  <2>3. QED
    BY <2>1, <2>2 DEF E
<1>8. F = FirstOf(N, Y)
  BY <1>2, <1>6, <1>7, HeadsAreEnough, 0 \in Nat, 0 + N <= N DEF F
<1>9. LastOf(N, E) = Reversed(F) /\ LastOf(N, C) = Reversed(FirstOf(N, Y))
  BY <1>4, <1>5 DEF LastOf, Y
<1>10. QED
  BY <1>8, <1>9 DEF E

LEMMA SizeOfFile ==
  ASSUME files \in [1..Days -> 0..MaxLines], NEW d \in 1..Days
  PROVE  Size(Content(d)) = files[d]
<1>1. files[d] \in Nat
  BY LogPagesConstants
<1>2. IsFiniteSet({d}) /\ Cardinality({d}) = 1
  BY FS_Singleton
<1>3. IsFiniteSet(1..files[d]) /\ Cardinality(1..files[d]) = files[d]
  BY <1>1, FS_Interval
<1>4. Cardinality({d} \X (1..files[d])) = Cardinality({d}) * Cardinality(1..files[d])
  BY <1>2, <1>3, FS_Product
<1>5. Cardinality({d} \X (1..files[d])) = files[d]
  BY <1>1, <1>2, <1>3, <1>4
<1>6. QED
  BY <1>5 DEF Size, Content

\* A request that is going on and stays with the same days.
LEMMA StillReading ==
  ASSUME LogPagesTypeOK, Reading(reading, seen), NEW pc \in {"get", "again"}, NEW n \in Nat,
         reading.pc \in {"stat", "get"}, pc = "again" => reading.q.mode = "latest",
         reading' = [reading EXCEPT !.pc = pc, !.start = n], UNCHANGED files,
         \/ UNCHANGED seen
         \/ seen' = [seen EXCEPT ![Head(reading.left)] = files[Head(reading.left)]]
  PROVE  LogPagesTypeOK' /\ Reading(reading', seen')
         /\ (reading'.pc = "answered" => Exact(reading', seen'))
<1> DEFINE r == reading
           t == reading'
           D == DaysRead(reading)
<1>1. /\ t.pc = pc /\ t.q = r.q /\ t.left = r.left /\ t.got = r.got /\ t.skipped = r.skipped
  BY DEF LogPagesTypeOK
<1>2. DaysLeft(r) /\ r.left \in Seq(1..Days) /\ r.q.mode \in {"latest", "day"}
      /\ r.q.type # "metrics" /\ r.q \in LogsQuery
  BY DEF Reading, LogPagesTypeOK, LogsQuery
<1>3. Head(r.left) \in 1..Days
  BY <1>2, DaysToRead DEF DaysLeft
<1>4. LogPagesTypeOK'
  <2>1. seen' \in [1..Days -> 0..MaxLines]
    BY <1>3 DEF LogPagesTypeOK
  <2>2. QED
    BY <2>1 DEF LogPagesTypeOK
<1>5. DaysLeft(t) /\ DaysRead(t) = D
  BY <1>1, <1>2 DEF DaysLeft, DaysRead
<1>6. ASSUME r.q.mode = "latest" PROVE Collected(t, seen')
  <2>1. D = 1..Head(r.left) - 1
    BY <1>2, <1>6, NextLatestDay
  <2>2. \A k \in D : k \in 1..Days /\ k # Head(r.left)
    BY <1>3, <2>1, LogPagesConstants
  <2>3. \A k \in D : seen[k] = seen'[k]
    BY <2>2 DEF LogPagesTypeOK
  <2>4. LinesRead(seen', r.q, D) = LinesRead(seen, r.q, D)
    BY <2>3 DEF LinesRead
  <2>5. LogOf(seen', r.q, D) = LogOf(seen, r.q, D)
    BY <2>4 DEF LogOf
  <2>6. Collected(r, seen)
    BY <1>6 DEF Reading
  <2>7. QED
    BY <1>1, <1>5, <2>3, <2>5, <2>6 DEF Collected
<1>7. QED
  BY <1>1, <1>2, <1>4, <1>5, <1>6 DEF Reading
\* A request for the latest lines, or for those of a day: streamed, as metrics are ...
LEMMA LatestStreamed ==
  ASSUME LogPagesTypeOK, Reading(reading, seen), streamFilteredLogs, reading.q.mode = "latest"
  PROVE  LogPagesTypeOK' /\ Reading(reading', seen')
         /\ (reading'.pc = "answered" => Exact(reading', seen'))
<1> DEFINE d == Head(reading.left)
<1>1. /\ reading.pc = "stream" /\ reading.q.type = "metrics" /\ ReadDay /\ UNCHANGED files
      /\ getLatestLogs(Chosen(Content(d))) /\ DaysLeft(reading) /\ reading.left \in Seq(1..Days)
      /\ files \in [1..Days -> 0..MaxLines] /\ seen \in [1..Days -> 0..MaxLines]
  BY DEF streamFilteredLogs, Reading, LogPagesTypeOK
<1>2. d \in 1..Days
  BY <1>1, DaysToRead DEF DaysLeft
<1> DEFINE s == [seen EXCEPT ![d] = files[d]]
<1>3. s[d] = files[d]
  BY <1>1, <1>2
<1> HIDE DEF d, s
<1>4. /\ Chosen(Content(d)) \in List /\ Chosen(Content(d)).desc = FALSE
      /\ Chosen(Content(d)) = LogOf(s, reading.q, {d})
  BY <1>1, <1>2, <1>3, FileOfDay
<1>5. LastOf(maxNeeded, Chosen(Content(d))) = LastOf(maxNeeded, LogOf(s, reading.q, {d}))
  BY <1>4
<1>6. QED
  BY <1>1, <1>4, <1>5, LatestStep DEF d, s

\* ... or read from the tail of the file ...
LEMMA TailRead ==
  ASSUME LogPagesTypeOK, Reading(reading, seen), tailFilteredLogs
  PROVE  LogPagesTypeOK' /\ Reading(reading', seen')
         /\ (reading'.pc = "answered" => Exact(reading', seen'))
<1> DEFINE q == reading.q
           d == Head(reading.left)
           lines == Dropped(reading.start, Content(d))
           got == LastOf(IF q.mode = "latest" THEN maxNeeded ELSE q.limit, lines)
<1>1. /\ reading.pc = "get" /\ ReadDay /\ UNCHANGED files
      /\ DaysLeft(reading) /\ reading.left \in Seq(1..Days)
      /\ files \in [1..Days -> 0..MaxLines] /\ seen \in [1..Days -> 0..MaxLines]
      /\ reading.start \in Nat /\ q \in LogsQuery
      /\ CASE q.mode = "day" ->
                AnswerPage(IF q.sort = "asc" THEN Reversed(got) ELSE got, Size(got) >= q.limit)
           [] q.mode = "latest" /\ reading.start > 0 /\ Size(got) < maxNeeded ->
                reading' = [reading EXCEPT !.pc = "again"]
           [] OTHER -> getLatestLogs(got)
  BY DEF tailFilteredLogs, Reading, LogPagesTypeOK
<1>2. q.mode \in {"latest", "day"} /\ q.type = "all"
  BY <1>1 DEF Reading, LogsQuery
<1>3. d \in 1..Days
  BY <1>1, DaysToRead DEF DaysLeft
<1> DEFINE s == [seen EXCEPT ![d] = files[d]]
<1>4. s[d] = files[d] /\ s \in [1..Days -> 0..MaxLines] /\ seen' = s
  BY <1>1, <1>3 DEF ReadDay
<1> HIDE DEF d, s
<1>5. /\ Content(d) \in List /\ Content(d).desc = FALSE
      /\ Content(d) = LogOf(s, q, {d})
  BY <1>1, <1>2, <1>3, <1>4, FileOfDay
<1>6. lines \in List /\ lines.desc = FALSE
  BY <1>5, PartsOfLists
<1> HIDE DEF lines
<1>7. got \in List /\ got.desc = FALSE /\ Reversed(got) \in List
  BY <1>6 DEF LastOf, FirstOf, Reversed, List
<1>8. CASE q.mode = "day"
  <2>1. AnswerPage(IF q.sort = "asc" THEN Reversed(got) ELSE got, Size(got) >= q.limit)
    BY <1>1, <1>8
  <2> DEFINE page == IF q.sort = "asc" THEN Reversed(got) ELSE got
             more == Size(got) >= q.limit
  <2>2. page \in List /\ more \in BOOLEAN /\ <<>> \in Seq(1..Days)
    BY <1>7
  <2> HIDE DEF page, more, got
  <2>3. reading' = [reading EXCEPT !.pc = "answered", !.left = <<>>, !.got = page, !.hasMore = more]
    BY <2>1 DEF AnswerPage, page, more
  <2>4. LogPagesTypeOK'
    BY <1>1, <1>4, <2>2, <2>3 DEF LogPagesTypeOK
  <2>5. reading'.pc = "answered" /\ reading'.q = q
    BY <2>3 DEF LogPagesTypeOK
  <2>6. QED
    BY <1>8, <2>4, <2>5 DEF Reading, Exact
<1>9. CASE q.mode = "latest"
  <2>1. got = LastOf(maxNeeded, lines)
    BY <1>9
  <2> HIDE DEF got
  <2>2. maxNeeded \in Nat
    BY <1>1, QueryNumbers DEF maxNeeded, Needed
  <2>3. Size(got) \in Nat
    BY <1>7, LinesAreFinite DEF Size, List
  <2>4. CASE reading.start > 0 /\ Size(got) < maxNeeded
    <3>1. reading' = [reading EXCEPT !.pc = "again"]
      BY <1>1, <1>9, <2>4
    <3>2. reading' = [reading EXCEPT !.pc = "again", !.start = reading.start]
      BY <3>1 DEF LogPagesTypeOK
    <3>3. seen' = [seen EXCEPT ![Head(reading.left)] = files[Head(reading.left)]]
      BY <1>1 DEF ReadDay
    <3>4. QED
      BY <1>1, <1>9, <3>2, <3>3, StillReading
  <2>5. CASE ~(reading.start > 0 /\ Size(got) < maxNeeded)
    <3>1. getLatestLogs(got)
      BY <1>1, <1>9, <2>5
    <3>2. reading.start = 0 \/ Size(got) >= maxNeeded
      BY <1>1, <2>2, <2>3, <2>5
    <3>3. LastOf(maxNeeded, got) = LastOf(maxNeeded, Content(d))
      <4>1. reading.start \in Nat
        BY <1>1
      <4>2. got = LastOf(maxNeeded, Dropped(reading.start, Content(d)))
        BY <2>1 DEF lines
      <4>3. QED
        BY <1>5, <2>2, <3>2, <4>1, <4>2, TailIsEnough
    <3>4. LastOf(maxNeeded, got) = LastOf(maxNeeded, LogOf(s, q, {d}))
      BY <1>5, <3>3
    <3>5. QED
      BY <1>1, <1>7, <1>9, <3>1, <3>4, LatestStep DEF d, s
  <2>6. QED
    BY <2>4, <2>5
<1>10. QED
  BY <1>2, <1>8, <1>9

\* ... or from its start on, up to the cap, when the tail was too short.
LEMMA WholeDayRead ==
  ASSUME LogPagesTypeOK, Reading(reading, seen), ReadWholeDay
  PROVE  LogPagesTypeOK' /\ Reading(reading', seen')
         /\ (reading'.pc = "answered" => Exact(reading', seen'))
<1> DEFINE q == reading.q
           d == Head(reading.left)
           most == MaxOf(maxNeeded, Cap)
           E == FirstOf(most, Content(d))
<1>1. /\ reading.pc = "again" /\ q.mode = "latest" /\ q.type # "metrics" /\ q \in LogsQuery
      /\ ReadDay /\ UNCHANGED files /\ getLatestLogs(E)
      /\ DaysLeft(reading) /\ reading.left \in Seq(1..Days)
      /\ files \in [1..Days -> 0..MaxLines] /\ seen \in [1..Days -> 0..MaxLines]
  BY DEF ReadWholeDay, Reading, LogPagesTypeOK
<1>2. q.type = "all"
  BY <1>1 DEF LogsQuery
<1>3. d \in 1..Days
  BY <1>1, DaysToRead DEF DaysLeft
<1> DEFINE s == [seen EXCEPT ![d] = files[d]]
<1>4. s[d] = files[d]
  BY <1>1, <1>3
<1>5. maxNeeded \in Nat /\ Cap \in Nat /\ most \in Nat /\ Cap <= most
  BY <1>1, QueryNumbers, LogPagesConstants DEF maxNeeded, Needed, MaxOf
<1> HIDE DEF d, s, most
<1>6. /\ Content(d) \in List /\ Content(d).desc = FALSE
      /\ Content(d) = LogOf(s, q, {d})
  BY <1>1, <1>2, <1>3, <1>4, FileOfDay
<1>7. E \in List /\ E.desc = FALSE
  BY <1>6, PartsOfLists
<1>8. ASSUME files[d] <= Cap PROVE LastOf(maxNeeded, E) = LastOf(maxNeeded, LogOf(s, q, {d}))
  <2>1. Size(Content(d)) = files[d] /\ files[d] \in Nat
    BY <1>1, <1>3, SizeOfFile, LogPagesConstants
  <2>2. Size(Content(d)) <= most
    BY <1>5, <1>8, <2>1
  <2>3. E = Content(d)
    BY <1>5, <1>6, <2>2, FirstLines
  <2>4. QED
    BY <1>6, <2>3
<1>9. QED
  BY <1>1, <1>7, <1>8, LatestStep DEF d, s

\* Another day of a range: the lines that are added are those that come next.
LEMMA RangeRead ==
  ASSUME LogPagesTypeOK, Reading(reading, seen), streamFilteredLogs, reading.q.mode = "range"
  PROVE  LogPagesTypeOK' /\ Reading(reading', seen')
         /\ (reading'.pc = "answered" => Exact(reading', seen'))
<1> DEFINE q == reading.q
           d == Head(reading.left)
           old == reading.got
           metrics == q.type = "metrics"
           capped == q.sort = "desc" /\ q.type # "metrics"
           limit == IF capped THEN MaxOf(q.offset + q.limit, Cap) ELSE q.limit
           skip == IF capped THEN 0 ELSE MaxOf(0, q.offset - reading.skipped)
           typed == IF q.type = "metrics" THEN Chosen(Content(d)) ELSE Content(d)
           added == Streamed(d, q, limit, skip, old)
           got == Joined(old, added)
           page == CASE capped         -> FirstOf(q.limit, Dropped(q.offset, Reversed(got)))
                     [] q.sort = "asc" -> got
                     [] OTHER          -> Reversed(got)
           more == q.type # "metrics" /\ Size(page) >= q.limit
           done == (q.type # "metrics" /\ Size(got) >= limit) \/ Len(reading.left) = 1
           s == [seen EXCEPT ![d] = files[d]]
<1>1. /\ reading.pc = "stream" /\ q \in LogsQuery /\ q.sort \in {"asc", "desc"}
      /\ q.type \in {"all", "metrics", "window"}
      /\ ReadDay /\ UNCHANGED files /\ GetRange(d)
      /\ DaysLeft(reading) /\ reading.left \in Seq(1..Days)
      /\ files \in [1..Days -> 0..MaxLines] /\ seen \in [1..Days -> 0..MaxLines]
      /\ reading.skipped \in Nat /\ old \in List
      /\ q.type # "metrics" => Gathered(reading, seen)
  BY DEF streamFilteredLogs, Reading, LogPagesTypeOK, LogsQuery
<1>2. /\ d \in 1..Days /\ DaysRead(reading) = d + 1..Days
      /\ Len(reading.left) = 1 => d = 1
      /\ \A t : t.q = q /\ t.left = Tail(reading.left) /\ Len(reading.left) # 1 =>
           DaysLeft(t) /\ DaysRead(t) = d..Days
      /\ Tail(reading.left) \in Seq(1..Days)
  BY <1>1, NextRangeDay, DaysToRead DEF DaysLeft
<1>3. /\ s[d] = files[d] /\ s \in [1..Days -> 0..MaxLines] /\ seen' = s /\ files' = files
      /\ \A k \in 1..Days : k # d => s[k] = seen[k]
  BY <1>1, <1>2 DEF ReadDay
<1> HIDE DEF d, s
<1>4. /\ Content(d) \in List /\ Content(d).desc = FALSE
      /\ Chosen(Content(d)) \in List /\ Chosen(Content(d)).desc = FALSE
      /\ q.type = "all" => Content(d) = LogOf(s, q, {d})
      /\ q.type # "all" => Chosen(Content(d)) = LogOf(s, q, {d})
  BY <1>1, <1>2, <1>3, FileOfDay
<1>5. typed \in List /\ Size(typed) \in Nat
  BY <1>4, LinesAreFinite DEF Size, List
<1>6. added \in List
  <2>1. Dropped(skip, typed) \in List
    BY <1>5, PartsOfLists
  <2>2. Chosen(Dropped(skip, typed)) \in List
    BY <2>1, PartsOfLists
  <2> DEFINE x == IF q.type = "window" THEN Chosen(Dropped(skip, typed)) ELSE Dropped(skip, typed)
  <2>3. x \in List
    BY <2>1, <2>2
  <2>4. added = IF q.type = "metrics" THEN x ELSE FirstOf(limit - Size(old), x)
    BY DEF Streamed
  <2> HIDE DEF x, added, limit
  <2>5. FirstOf(limit - Size(old), x) \in List
    BY <2>3, PartsOfLists
  <2>6. QED
    BY <2>3, <2>4, <2>5
<1> HIDE DEF typed, added
<1>7. got \in List /\ got.desc = old.desc
  BY <1>1, <1>6 DEF Joined, List
<1>8. /\ page \in List /\ more \in BOOLEAN
      /\ Reversed(got) \in List /\ Reversed(got).lines = got.lines
  <2>1. Reversed(got) \in List /\ Reversed(got).lines = got.lines
    BY <1>7, PartsOfLists
  <2>2. FirstOf(q.limit, Dropped(q.offset, Reversed(got))) \in List
    BY <2>1 DEF FirstOf, Dropped, List
  <2>3. QED
    BY <1>7, <2>1, <2>2
<1>9. ASSUME q.type # "metrics", Counted(q)
      PROVE  /\ limit = Most(q) /\ old.desc = FALSE
             /\ Size(LogOf(s, q, d..Days)) = Size(LogOf(s, q, d + 1..Days)) + Size(LogOf(s, q, {d}))
             /\ got = FirstOf(Most(q), Dropped(Begin(q), LogOf(s, q, d..Days)))
             /\ Size(got) >= Most(q) =>
                  got = FirstOf(Most(q), Dropped(Begin(q), LogOf(s, q, 1..Days)))
  <2> DEFINE L == LogOf(s, q, d + 1..Days)
             day == LogOf(s, q, {d})
             n == MaxOf(0, Begin(q) - Size(L))
  <2>1. Gathered(reading, seen)
    BY <1>1, <1>9
  <2>2. LogOf(seen, q, d + 1..Days) = L
    <3>1. \A k \in d + 1..Days : s[k] = seen[k]
      BY <1>2, <1>3, LogPagesConstants
    <3>2. LinesRead(seen, q, d + 1..Days) = LinesRead(s, q, d + 1..Days)
      BY <3>1 DEF LinesRead
    <3>3. QED
      BY <3>2 DEF LogOf
  <2> HIDE DEF q, old
  <2>3. /\ old.desc = FALSE /\ Size(old) < Most(q) /\ old = FirstOf(Most(q), Dropped(Begin(q), L))
        /\ q.sort = "asc" /\ q.type = "all" => reading.skipped = Size(L)
    BY <1>2, <1>9, <2>1, <2>2 DEF Gathered, q, old
  <2>4. /\ Begin(q) \in Nat /\ Most(q) \in Nat \ {0} /\ q.offset \in Nat /\ limit = Most(q)
        /\ L \in List /\ day \in List /\ Size(L) \in Nat
    BY <1>1, <1>9, QueryNumbers, LogsAreLists, LinesAreFinite DEF Most, Size, List
  <2> HIDE DEF L, day
  <2>5. skip = n /\ (q.type = "window" => skip = 0)
    <3>1. CASE q.sort = "desc"
      BY <1>9, <2>4, <3>1 DEF Begin, MaxOf
    <3>2. CASE q.sort = "asc" /\ q.type = "all"
      BY <2>3, <3>2 DEF Begin
    <3>3. CASE q.sort = "asc" /\ q.type = "window"
      <4>1. q.offset = 0 /\ Begin(q) = 0 /\ ~capped
        BY <1>9, <3>3 DEF Counted, Begin
      <4>2. MaxOf(0, 0 - reading.skipped) = 0 /\ MaxOf(0, 0 - Size(L)) = 0
        BY <1>1, <2>4 DEF MaxOf
      <4>3. QED
        BY <4>1, <4>2
    <3>4. QED
      BY <1>1, <1>9, <3>1, <3>2, <3>3 DEF q
  <2> HIDE DEF skip, limit
  <2>6. added = FirstOf(Most(q) - Size(old), Dropped(n, day))
    <3>1. CASE q.type = "all"
      <4>1. typed = day
        BY <1>4, <3>1 DEF typed, day, q
      <4>2. added = FirstOf(limit - Size(old), Dropped(skip, typed))
        BY <3>1 DEF added, Streamed, typed, q
      <4>3. QED
        BY <2>4, <2>5, <4>1, <4>2
    <3>2. CASE q.type = "window"
      <4>1. Chosen(Content(d)) = day /\ typed = Content(d)
        BY <1>4, <3>2 DEF typed, day, q
      <4>2. added = FirstOf(limit - Size(old), Chosen(Dropped(skip, typed)))
        BY <3>2 DEF added, Streamed, typed, q
      <4>3. Dropped(0, Content(d)) = Content(d) /\ Dropped(0, day) = day
        BY <1>4, <2>4, FirstOfFirst
      <4>4. QED
        BY <2>4, <2>5, <3>2, <4>1, <4>2, <4>3
    <3>3. QED
      BY <1>1, <1>9, <3>1, <3>2 DEF q
  <2>7. /\ Joined(old, FirstOf(Most(q) - Size(old), Dropped(n, day)))
             = FirstOf(Most(q), Dropped(Begin(q), LogOf(s, q, d..Days)))
        /\ Size(LogOf(s, q, d..Days)) = Size(L) + Size(day)
        /\ Size(Joined(old, FirstOf(Most(q) - Size(old), Dropped(n, day)))) >= Most(q) =>
             Joined(old, FirstOf(Most(q) - Size(old), Dropped(n, day)))
               = FirstOf(Most(q), Dropped(Begin(q), LogOf(s, q, 1..Days)))
    BY <1>2, <2>3, <2>4, RangeDay DEF L, day
  <2>8. QED
    BY <2>3, <2>4, <2>6, <2>7 DEF L, day, limit
<1>10. CASE done
  <2>1. reading' = [reading EXCEPT !.pc = "answered", !.left = <<>>, !.got = page,
                      !.hasMore = more]
    BY <1>1, <1>10 DEF GetRange, AnswerPage, added, typed
  <2> HIDE DEF page, more
  <2>2. /\ reading'.pc = "answered" /\ reading'.q = q /\ reading'.got = page
        /\ reading'.hasMore = more
    BY <2>1 DEF LogPagesTypeOK
  <2>3. LogPagesTypeOK'
    <3>1. <<>> \in Seq(1..Days)
      OBVIOUS
    <3>2. QED
      BY <1>3, <1>8, <2>1, <3>1, LogPagesConstants DEF LogPagesTypeOK
  <2> HIDE DEF q
  <2>4. ASSUME q.type # "metrics", Counted(q)
        PROVE  got = FirstOf(Most(q), Dropped(Begin(q), LogOf(s, q, 1..Days)))
    <3>1. CASE Len(reading.left) = 1
      BY <1>2, <1>9, <2>4, <3>1
    <3>2. CASE Len(reading.left) # 1
      <4>1. Size(got) >= Most(q)
        BY <1>9, <1>10, <2>4, <3>2
      <4>2. QED
        BY <1>9, <2>4, <4>1
    <3>3. QED
      BY <3>1, <3>2
  <2> DEFINE total == Cardinality(LinesRead(s, q, 1..Days)) > q.offset + q.limit
  <2>5. ASSUME q.type # "metrics", q.sort = "desc", Cardinality(LinesRead(s, q, 1..Days)) <= Cap
        PROVE  page = [lines |-> PageLines(s, q, TRUE), desc |-> TRUE] /\ (total => more)
    <3>1. Counted(q)
      BY <2>5 DEF Counted
    <3>2. got = FirstOf(Most(q), Dropped(Begin(q), LogOf(s, q, 1..Days)))
      BY <2>4, <2>5, <3>1
    <3>3. page = FirstOf(q.limit, Dropped(q.offset, Reversed(got)))
      BY <2>5 DEF page, q
    <3> HIDE DEF got
    <3>4. QED
      BY <1>1, <2>5, <3>2, <3>3, RangePage DEF more, q
  <2>6. ASSUME q.type # "metrics", q.sort = "asc", Counted(q)
        PROVE  page = [lines |-> PageLines(s, q, FALSE), desc |-> FALSE] /\ (total => more)
    <3>1. got = FirstOf(Most(q), Dropped(Begin(q), LogOf(s, q, 1..Days)))
      BY <2>4, <2>6
    <3>2. page = got
      BY <2>6 DEF page, q
    <3> HIDE DEF got
    <3>3. QED
      BY <1>1, <2>6, <3>1, <3>2, RangePage DEF more, q
  <2>7. Exact(reading', seen')
    <3>1. q.mode = "range"
      BY DEF q
    <3> HIDE DEF s
    <3>2. QED
      BY <1>3, <2>2, <2>5, <2>6, <3>1 DEF Exact
  <2>8. QED
    BY <2>2, <2>3, <2>7 DEF Reading
<1>11. CASE ~done
  <2>1. reading' = [reading EXCEPT !.got = got, !.left = Tail(reading.left),
                      !.skipped = @ + Size(typed)]
    BY <1>1, <1>11 DEF GetRange, added, typed
  <2> HIDE DEF got
  <2>2. /\ reading'.pc = "stream" /\ reading'.q = q /\ reading'.got = got
        /\ reading'.left = Tail(reading.left) /\ reading'.skipped = reading.skipped + Size(typed)
    BY <1>1, <2>1 DEF LogPagesTypeOK
  <2>3. LogPagesTypeOK'
    <3>1. reading.skipped + Size(typed) \in Nat
      BY <1>1, <1>5
    <3>2. QED
      BY <1>2, <1>3, <1>7, <2>1, <3>1 DEF LogPagesTypeOK
  <2>4. DaysLeft(reading') /\ DaysRead(reading') = d..Days
    BY <1>2, <1>11, <2>2
  <2>5. ASSUME q.type # "metrics" PROVE Gathered(reading', seen')
    <3>1. got.desc = FALSE
      BY <1>1, <1>7, <2>5 DEF Gathered
    <3>2. ASSUME q.sort = "asc", q.type = "all"
          PROVE  reading.skipped + Size(typed) = Size(LogOf(s, q, d..Days))
      <4>1. Counted(q) /\ typed = LogOf(s, q, {d})
        BY <1>4, <3>2 DEF Counted, typed
      <4>2. reading.skipped = Size(LogOf(seen, q, d + 1..Days))
        BY <1>1, <1>2, <3>2 DEF Gathered
      <4>3. LogOf(seen, q, d + 1..Days) = LogOf(s, q, d + 1..Days)
        <5>1. \A k \in d + 1..Days : s[k] = seen[k]
          BY <1>2, <1>3, LogPagesConstants
        <5>2. LinesRead(seen, q, d + 1..Days) = LinesRead(s, q, d + 1..Days)
          BY <5>1 DEF LinesRead
        <5>3. QED
          BY <5>2 DEF LogOf
      <4>4. QED
        BY <1>9, <2>5, <4>1, <4>2, <4>3
    <3>3. ASSUME Counted(q)
          PROVE  /\ got = FirstOf(Most(q), Dropped(Begin(q), LogOf(s, q, d..Days)))
                 /\ Size(got) < Most(q)
      <4>1. Size(got) \in Nat /\ Most(q) \in Nat
        BY <1>1, <1>7, LinesAreFinite, QueryNumbers DEF Size, List
      <4>2. ~(Size(got) >= Most(q))
        <5>1. limit = Most(q)
          BY <1>9, <2>5, <3>3
        <5>2. ~(Size(got) >= limit)
          BY <1>11, <2>5 DEF got
        <5> HIDE DEF limit
        <5>3. QED
          BY <5>1, <5>2
      <4>3. Size(got) < Most(q)
        BY <4>1, <4>2
      <4>4. got = FirstOf(Most(q), Dropped(Begin(q), LogOf(s, q, d..Days)))
        BY <1>9, <2>5, <3>3
      <4>5. QED
        BY <4>3, <4>4
    <3> HIDE DEF q, s
    <3>4. QED
      BY <1>3, <2>2, <2>4, <3>1, <3>2, <3>3 DEF Gathered
  <2>6. Reading(reading', seen')
    BY <2>2, <2>4, <2>5 DEF Reading
  <2>7. QED
    BY <2>2, <2>3, <2>6
<1>12. QED
  BY <1>10, <1>11

\* The metrics of a day, all of them.
LEMMA DayStreamed ==
  ASSUME LogPagesTypeOK, Reading(reading, seen), streamFilteredLogs, reading.q.mode = "day"
  PROVE  LogPagesTypeOK' /\ Reading(reading', seen')
         /\ (reading'.pc = "answered" => Exact(reading', seen'))
<1> DEFINE q == reading.q
           d == Head(reading.left)
           added == Dropped(MaxOf(0, q.offset - reading.skipped), Chosen(Content(d)))
           got == Joined(reading.got, added)
           page == IF q.sort = "asc" THEN got ELSE Reversed(got)
<1>1. /\ reading.pc = "stream" /\ q \in LogsQuery /\ q.type = "metrics"
      /\ ReadDay /\ UNCHANGED files /\ GetRange(d)
      /\ DaysLeft(reading) /\ reading.left \in Seq(1..Days) /\ Len(reading.left) = 1
      /\ files \in [1..Days -> 0..MaxLines] /\ seen \in [1..Days -> 0..MaxLines]
      /\ reading.got \in List
  BY DEF streamFilteredLogs, Reading, DaysLeft, LogPagesTypeOK, LogsQuery
<1>2. d \in 1..Days
  BY <1>1, DaysToRead DEF DaysLeft
<1>3. seen' \in [1..Days -> 0..MaxLines] /\ files' = files
  BY <1>1, <1>2 DEF ReadDay
<1>4. Chosen(Content(d)) \in List
  BY <1>1, <1>2, FileOfDay
<1>5. added \in List
  BY <1>4, PartsOfLists
<1>6. got \in List
  BY <1>1, <1>5 DEF Joined, List
<1>7. page \in List /\ <<>> \in Seq(1..Days)
  BY <1>6, PartsOfLists
<1>8. reading' = [reading EXCEPT !.pc = "answered", !.left = <<>>, !.got = page, !.hasMore = FALSE]
  BY <1>1 DEF GetRange, AnswerPage, Streamed, LogsQuery
<1> HIDE DEF page, d
<1>9. LogPagesTypeOK'
  BY <1>3, <1>7, <1>8, <1>1 DEF LogPagesTypeOK
<1>10. reading'.pc = "answered" /\ reading'.q.mode = "day"
  BY <1>8 DEF LogPagesTypeOK
<1>11. QED
  BY <1>9, <1>10 DEF Reading, Exact

\* Both properties of LogPages follow from the invariant.
LogPagesProgress ==
  LogPagesTypeOK' /\ Reading(reading', seen')
    /\ (reading'.pc = "answered" => Exact(reading', seen'))

LEMMA InitLogPagesInv == LogPagesInit => LogPagesInv
<1> SUFFICES ASSUME LogPagesInit PROVE LogPagesInv
  OBVIOUS
<1>1. (CHOOSE q \in LogsQuery : TRUE) \in LogsQuery
  <2>1. PICK n \in Limits, k \in Offsets : TRUE
    BY LogPagesConstants
  <2>2. [mode |-> "latest", type |-> "all", sort |-> "asc", limit |-> n, offset |-> k] \in LogsQuery
    BY DEF LogsQuery
  <2>3. QED
    BY <2>2
<1>2. Nothing \in List /\ <<>> \in Seq(1..Days)
  BY DEF Nothing, List
<1>3. LogPagesTypeOK /\ reading.pc = "none"
  BY <1>1, <1>2 DEF LogPagesInit, LogPagesTypeOK, NoReading
<1>4. QED
  BY <1>3, ExactIs DEF LogPagesInv, Reading

\* A request begins with no day read.
LEMMA RequestBegins ==
  ASSUME LogPagesTypeOK, NEW q \in LogsQuery, getLogs(q)
  PROVE  LogPagesProgress
<1> DEFINE left == CASE q.mode = "latest" -> generateLookbackDates
                     [] q.mode = "day"    -> <<1>>
                     [] q.mode = "range"  -> generateDateRange
           pc == IF q.type # "metrics" /\ q.mode # "range" THEN "stat" ELSE "stream"
           t == reading'
<1>1. q.mode \in {"latest", "day", "range"} /\ Days \in Nat /\ 1 \in 1..Days /\ Days \in 1..Days
  BY LogPagesConstants DEF LogsQuery
<1>2. /\ left \in Seq(1..Days) /\ Len(left) \in 1..Days
      /\ (q.mode # "day" => Len(left) = Days) /\ (q.mode = "day" => Len(left) = 1)
      /\ q.mode = "latest" => \A i \in 1..Len(left) : left[i] = i
      /\ q.mode = "range" => \A i \in 1..Len(left) : left[i] = Days + 1 - i
      /\ q.mode = "day" => \A i \in 1..Len(left) : left[i] = 1
  <2>1. CASE q.mode = "latest"
    BY <1>1, <2>1 DEF generateLookbackDates
  <2>2. CASE q.mode = "day"
    <3>1. left = <<1>> /\ <<1>> \in Seq(1..Days) /\ Len(<<1>>) = 1 /\ <<1>>[1] = 1
      BY <1>1, <2>2
    <3> HIDE DEF left
    <3>2. left \in Seq(1..Days) /\ Len(left) = 1 /\ left[1] = 1
      BY <3>1
    <3>3. \A i \in 1..Len(left) : left[i] = 1
      <4>1. \A i \in 1..1 : i = 1
        OBVIOUS
      <4>2. QED
        BY <3>2, <4>1
    <3>4. Len(left) \in 1..Days
      BY <1>1, <3>2
    <3>5. QED
      BY <2>2, <3>2, <3>3, <3>4
  <2>3. CASE q.mode = "range"
    <3>1. left = [i \in 1..Days |-> Days + 1 - i]
      BY <2>3 DEF generateDateRange
    <3> HIDE DEF left
    <3>2. left \in Seq(1..Days) /\ Len(left) = Days
      <4>1. \A i \in 1..Days : Days + 1 - i \in 1..Days
        BY <1>1
      <4>2. QED
        BY <1>1, <3>1, <4>1
    <3>3. \A i \in 1..Len(left) : left[i] = Days + 1 - i
      BY <3>1, <3>2
    <3>4. QED
      BY <1>1, <2>3, <3>2, <3>3
  <2>4. QED
    BY <1>1, <2>1, <2>2, <2>3
<1> HIDE DEF left, pc
<1>3. /\ t = [NoReading EXCEPT !.q = q, !.left = left, !.pc = pc]
      /\ seen' = files /\ files' = files
  BY DEF getLogs, left, pc
<1>4. /\ t.q = q /\ t.left = left /\ t.pc = pc /\ t.got = Nothing /\ t.skipped = 0
      /\ pc \in {"stat", "stream"}
  BY <1>3 DEF NoReading, pc
<1>5. LogPagesTypeOK'
  BY <1>2, <1>3, <1>4 DEF LogPagesTypeOK, NoReading, Nothing, List
<1>6. DaysLeft(t)
  BY <1>1, <1>2, <1>4 DEF DaysLeft
<1>7. ASSUME q.mode # "day" PROVE DaysRead(t) = {}
  BY <1>1, <1>2, <1>4, <1>7 DEF DaysRead
<1>8. LogOf(seen', q, {}) = Nothing
  BY DEF LogOf, LinesRead, Nothing
<1>9. Nothing \in List /\ Size(Nothing) = 0 /\ Nothing.desc = FALSE /\ Nothing.lines = {}
  BY FS_EmptySet DEF Nothing, List, Size
<1>10. Needed(q) \in Nat \ {0} /\ Most(q) \in Nat \ {0}
  BY QueryNumbers
<1>11. ASSUME q.mode = "latest" PROVE Collected(t, seen')
  BY <1>4, <1>7, <1>8, <1>9, <1>10, <1>11 DEF Collected
<1>12. ASSUME q.mode = "range" PROVE Gathered(t, seen')
  <2>1. FirstOf(Most(q), Dropped(Begin(q), Nothing)) = Nothing
    <3>1. Dropped(Begin(q), Nothing) = Nothing
      BY DEF Dropped, Nothing
    <3>2. FirstOf(Most(q), Nothing) = Nothing
      BY DEF FirstOf, Nothing
    <3>3. QED
      BY <3>1, <3>2
  <2>2. QED
    BY <1>4, <1>7, <1>8, <1>9, <1>10, <1>12, <2>1 DEF Gathered
<1>13. Reading(t, seen')
  BY <1>1, <1>4, <1>6, <1>11, <1>12 DEF Reading, pc
<1>14. QED
  BY <1>4, <1>5, <1>13 DEF LogPagesProgress

LEMMA LogPagesStep == LogPagesInv /\ [LogPagesNext]_logPagesVars => LogPagesInv'
<1> SUFFICES ASSUME LogPagesInv, [LogPagesNext]_logPagesVars PROVE LogPagesInv'
  OBVIOUS
<1>1. LogPagesTypeOK /\ Reading(reading, seen) /\ (reading.pc = "answered" => Exact(reading, seen))
  BY ExactIs DEF LogPagesInv
<1>2. ASSUME NEW q \in LogsQuery, getLogs(q) PROVE LogPagesProgress
  BY <1>1, <1>2, RequestBegins
<1>3. ASSUME streamFilteredLogs PROVE LogPagesProgress
  <2>1. CASE reading.q.mode = "latest"
    BY <1>1, <1>3, <2>1, LatestStreamed DEF LogPagesProgress
  <2>2. CASE reading.q.mode = "range"
    BY <1>1, <1>3, <2>2, RangeRead DEF LogPagesProgress
  <2>3. CASE reading.q.mode = "day"
    BY <1>1, <1>3, <2>3, DayStreamed DEF LogPagesProgress
  <2>4. QED
    BY <1>1, <2>1, <2>2, <2>3 DEF LogPagesTypeOK, LogsQuery
<1>4. ASSUME StatLog PROVE LogPagesProgress
  <2>1. Head(reading.left) \in 1..Days
    <3>1. DaysLeft(reading) /\ reading.left \in Seq(1..Days)
      BY <1>1, <1>4 DEF StatLog, Reading, LogPagesTypeOK
    <3>2. QED
      BY <3>1, DaysToRead DEF DaysLeft
  <2>2. MaxOf(0, files[Head(reading.left)] - TailLines) \in Nat
    <3> DEFINE n == files[Head(reading.left)]
    <3>1. n \in Nat
      BY <1>1, <2>1, LogPagesConstants DEF LogPagesTypeOK
    <3> HIDE DEF n
    <3>2. MaxOf(0, n - TailLines) \in Nat
      BY <3>1, LogPagesConstants DEF MaxOf
    <3>3. QED
      BY <3>2 DEF n
  <2>3. QED
    BY <1>1, <1>4, <2>2, StillReading DEF StatLog, LogPagesProgress
<1>5. ASSUME tailFilteredLogs PROVE LogPagesProgress
  BY <1>1, <1>5, TailRead DEF LogPagesProgress
<1>6. ASSUME ReadWholeDay PROVE LogPagesProgress
  BY <1>1, <1>6, WholeDayRead DEF LogPagesProgress
<1>7. ASSUME AppendLog PROVE LogPagesProgress
  <2>1. files' \in [1..Days -> 0..MaxLines]
    BY <1>1, <1>7, LogPagesConstants DEF AppendLog, LogPagesTypeOK
  <2>2. QED
    BY <1>1, <1>7, <2>1 DEF AppendLog, LogPagesTypeOK, LogPagesProgress
<1>8. ASSUME UNCHANGED logPagesVars PROVE LogPagesProgress
  BY <1>1, <1>8 DEF logPagesVars, LogPagesTypeOK, LogPagesProgress
<1>9. LogPagesProgress
  BY <1>2, <1>3, <1>4, <1>5, <1>6, <1>7, <1>8 DEF LogPagesNext
<1>10. (PagesAreExact <=> (reading.pc = "answered" => Exact(reading, seen)))'
  BY ExactIs, PTL
<1>11. QED
  BY <1>9, <1>10 DEF LogPagesInv, LogPagesProgress

\* The pages that getLogs and getLatestLogs answer neither skip nor repeat a line and say when
\* there are more, for any numbers of days and lines, limits, offsets, tails and cap, however
\* the file of today grows while they read - with the exceptions that PagesAreExact names.
THEOREM PagesAreAlwaysExact == LogPagesSpec => []PagesAreExact
<1>1. LogPagesInv => PagesAreExact
  BY DEF LogPagesInv
<1>2. QED
  BY <1>1, InitLogPagesInv, LogPagesStep, PTL DEF LogPagesSpec

\* Every reachable state of LogPages is well typed: what is read and answered are lists of
\* lines that are in the files of the days.
THEOREM LogPagesTypeCorrect == LogPagesSpec => []LogPagesTypeOK
<1>1. LogPagesInv => LogPagesTypeOK
  BY DEF LogPagesInv
<1>2. QED
  BY <1>1, InitLogPagesInv, LogPagesStep, PTL DEF LogPagesSpec
================================================================================
