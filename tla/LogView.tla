-------------------------------- MODULE LogView --------------------------------
(***************************************************************************)
(* The logs of a streaming bot in the browser                              *)
(* (frontend/src/hooks/use-bot-logs.ts): history is fetched with REST,     *)
(* pages of it are added, new lines arrive over SSE, and polling stands in *)
(* for a stream that has failed.  There is one fetch at a time: starting   *)
(* one aborts the one before, whose answer is then ignored.                *)
(*                                                                         *)
(* Lines are numbered as the bot publishes them; MinIO, from which history *)
(* is read, gets them later.  An entry is a line and where it came from:   *)
(* entryKey contains the day in history and the time in the stream, so     *)
(* that the same line from both is two entries.  The order of entries and  *)
(* the trimming to MAX_LOG_ENTRIES are left out, and views without         *)
(* streaming.                                                              *)
(***************************************************************************)
EXTENDS Integers, FiniteSets

CONSTANTS
  MaxLine,        \* bound: lines published
  Limit           \* lines of a page

ASSUME LogViewConstants == MaxLine \in Nat /\ Limit \in 1..MaxLine

VARIABLES
  published,      \* lines published by the bot
  stored,         \* lines of those in MinIO
  mode,           \* what the query asks for; "closed": unmounted
  shown,          \* logs
  pendingUpdates,
  historyLoaded,
  fetching,       \* the request in flight
  hasMore, hasEarlier,
  offset,         \* query.offset
  earlierOffset,
  paginated,
  stream,         \* the SSE session of this mount
  delivered,      \* the last line it delivered
  polling,
  settling,       \* the promise of an aborted session has not settled
  fresh,          \* history: lines delivered, or waiting, since the last replace began
  paged,          \* history: lines loaded by loadMore since the user last chose what to see
  failed          \* history: the last replace to end failed

serverVars  == <<published, stored>>
pageVars    == <<hasMore, hasEarlier, offset, earlierOffset, paginated>>
streamVars  == <<stream, delivered, polling, settling>>
historyVars == <<fresh, paged, failed>>
logViewVars == <<published, stored, mode, shown, pendingUpdates, historyLoaded, fetching,
                 pageVars, streamVars, historyVars>>

Entry == [line : 1..MaxLine, from : {"rest", "sse"}]
Fetch == [kind : {"none", "replace", "append", "prepend"}, offset : 0..MaxLine,
          was : BOOLEAN,              \* wasHistoryLoaded
          read : BOOLEAN,             \* the server has read the logs, this many:
          snap : 0..MaxLine]
NoFetch == [kind |-> "none", offset |-> 0, was |-> FALSE, read |-> FALSE, snap |-> 0]

\* Every variable has its type.
LogViewTypeOK ==
  /\ published \in 0..MaxLine /\ stored \in 0..published
  /\ mode \in {"closed", "today", "latest", "dated"}
  /\ shown \subseteq Entry /\ pendingUpdates \subseteq Entry
  /\ historyLoaded \in BOOLEAN
  /\ fetching \in Fetch
  /\ hasMore \in BOOLEAN /\ hasEarlier \in BOOLEAN /\ paginated \in BOOLEAN
  /\ offset \in 0..MaxLine /\ earlierOffset \in 0..MaxLine
  /\ stream \in {"off", "connecting", "open"}
  /\ delivered \in 0..MaxLine
  /\ polling \in BOOLEAN /\ settling \in BOOLEAN
  /\ fresh \subseteq 1..MaxLine /\ paged \subseteq 1..MaxLine
  /\ failed \in BOOLEAN

LogViewInit ==
  /\ published = 0 /\ stored = 0
  /\ mode = "closed"
  /\ shown = {} /\ pendingUpdates = {} /\ historyLoaded = FALSE
  /\ fetching = NoFetch
  /\ hasMore = FALSE /\ hasEarlier = FALSE /\ paginated = FALSE
  /\ offset = 0 /\ earlierOffset = 0
  /\ stream = "off" /\ delivered = 0 /\ polling = FALSE /\ settling = FALSE
  /\ fresh = {} /\ paged = {} /\ failed = FALSE

LinesOf(entries) == {e.line : e \in entries}
liveMode == mode \in {"today", "latest"}

\* A page of what the server has, newest lines first: by day, the tail of the file
\* whatever the offset.
Page(m, snap, off) ==
  LET o == IF m = "today" THEN 0 ELSE off IN
  {[line |-> i, from |-> "rest"] : i \in {j \in 1..snap : snap - o - Limit < j /\ j <= snap - o}}
PageHasMore(m, snap, off) == IF m = "today" THEN snap >= Limit ELSE snap > off + Limit

-----------------------------------------------------------------------------
(* Fetching.  Live lines are buffered while a replace is in flight. *)

BeginFetch(kind, off) ==
  /\ fetching' = [NoFetch EXCEPT !.kind = kind, !.offset = off, !.was = historyLoaded]
  /\ IF kind = "replace"
     THEN historyLoaded' = FALSE /\ fresh' = LinesOf(pendingUpdates)
     ELSE UNCHANGED <<historyLoaded, fresh>>

\* updateQuery, refresh: from the first page again.
Replace ==
  /\ BeginFetch("replace", 0)
  /\ offset' = 0 /\ paginated' = FALSE
  /\ paged' = {}

ServerReads ==
  /\ fetching.kind # "none" /\ ~fetching.read
  /\ fetching' = [fetching EXCEPT !.read = TRUE, !.snap = stored]
  /\ UNCHANGED <<serverVars, mode, shown, pendingUpdates, historyLoaded, pageVars, streamVars,
                 historyVars>>

\* Mutation: what was buffered is dropped when history lands.
fetchLogs_NoFlush ==
  /\ fetching.kind = "replace" /\ fetching.read
  /\ shown' = Page(mode, fetching.snap, fetching.offset)
  /\ pendingUpdates' = {}
  /\ historyLoaded' = TRUE
  /\ earlierOffset' = Limit
  /\ hasEarlier' = (liveMode /\ PageHasMore(mode, fetching.snap, fetching.offset))
  /\ hasMore' = (~liveMode /\ PageHasMore(mode, fetching.snap, fetching.offset))
  /\ fetching' = NoFetch /\ failed' = FALSE
  /\ UNCHANGED <<serverVars, mode, offset, paginated, streamVars, fresh, paged>>

\* The answer replaces what is shown; the lines buffered meanwhile are added.
fetchLogs ==
  /\ fetching.kind = "replace" /\ fetching.read
  /\ shown' = Page(mode, fetching.snap, fetching.offset) \cup pendingUpdates
  /\ pendingUpdates' = {}
  /\ historyLoaded' = TRUE
  /\ earlierOffset' = Limit
  /\ hasEarlier' = (liveMode /\ PageHasMore(mode, fetching.snap, fetching.offset))
  /\ hasMore' = (~liveMode /\ PageHasMore(mode, fetching.snap, fetching.offset))
  /\ fetching' = NoFetch /\ failed' = FALSE
  /\ UNCHANGED <<serverVars, mode, offset, paginated, streamVars, fresh, paged>>

\* The answer to loadMore or loadEarlierLogs is added.
PageArrives ==
  /\ fetching.kind \in {"append", "prepend"} /\ fetching.read
  /\ LET page == Page(mode, fetching.snap, fetching.offset)
         more == PageHasMore(mode, fetching.snap, fetching.offset)
     IN /\ shown' = shown \cup page
        /\ IF fetching.kind = "append"
           THEN /\ hasMore' = more /\ offset' = fetching.offset /\ paginated' = TRUE
                /\ paged' = paged \cup LinesOf(page)
                /\ UNCHANGED <<hasEarlier, earlierOffset>>
           ELSE /\ hasEarlier' = more /\ earlierOffset' = fetching.offset + Limit
                /\ UNCHANGED <<hasMore, offset, paginated, paged>>
  /\ fetching' = NoFetch
  /\ UNCHANGED <<serverVars, mode, pendingUpdates, historyLoaded, streamVars, fresh, failed>>

\* A failure that is not an abort.  What a replace had interrupted goes on.
FetchFails ==
  /\ fetching.kind # "none"
  /\ fetching' = NoFetch
  /\ IF fetching.kind = "replace"
     THEN /\ historyLoaded' = fetching.was /\ failed' = TRUE
          /\ IF fetching.was
             THEN shown' = shown \cup pendingUpdates /\ pendingUpdates' = {}
             ELSE UNCHANGED <<shown, pendingUpdates>>
     ELSE UNCHANGED <<historyLoaded, failed, shown, pendingUpdates>>
  /\ UNCHANGED <<serverVars, mode, pageVars, streamVars, fresh, paged>>

loadMore ==
  /\ mode # "closed" /\ hasMore /\ fetching.kind # "append"
  /\ offset + Limit <= MaxLine
  /\ BeginFetch("append", offset + Limit)
  /\ UNCHANGED <<serverVars, mode, shown, pendingUpdates, pageVars, streamVars, paged, failed>>

\* Offered while hasEarlierLogs.
loadEarlierLogs ==
  LET o == IF earlierOffset = 0 THEN Limit ELSE earlierOffset IN
  /\ mode # "closed" /\ hasEarlier /\ fetching.kind # "prepend"
  /\ o + Limit <= MaxLine
  /\ BeginFetch("prepend", o)
  /\ UNCHANGED <<serverVars, mode, shown, pendingUpdates, pageVars, streamVars, paged, failed>>

-----------------------------------------------------------------------------
(* Polling and the stream. *)

\* A tick of the interval.
startPolling ==
  /\ polling
  /\ ~paginated /\ fetching.kind \notin {"append", "prepend"}
  /\ BeginFetch("replace", 0)
  /\ UNCHANGED <<serverVars, mode, shown, pendingUpdates, pageVars, streamVars, paged, failed>>

\* The effect that owns the stream is torn down, and its polling with it.
Disconnect ==
  /\ stream' = "off" /\ polling' = FALSE
  /\ settling' = (settling \/ stream # "off")
  /\ UNCHANGED delivered

\* The effect runs: a stream, or polling for want of a token.
Connect ==
  /\ \/ stream' = "connecting" /\ polling' = FALSE
     \/ stream' = "off" /\ polling' = TRUE
  /\ settling' = (settling \/ stream # "off")
  /\ UNCHANGED delivered

StreamOpens ==
  /\ stream = "connecting"
  /\ stream' = "open" /\ delivered' = published /\ polling' = FALSE
  /\ UNCHANGED <<serverVars, mode, shown, pendingUpdates, historyLoaded, fetching, pageVars,
                 settling, historyVars>>

\* A failure, or a clean end.
StreamEnds ==
  /\ stream # "off"
  /\ stream' = "off" /\ polling' = TRUE
  /\ UNCHANGED <<serverVars, mode, shown, pendingUpdates, historyLoaded, fetching, pageVars,
                 delivered, settling, historyVars>>

\* Mutation: a session that was torn down is taken for one that failed.
AbortedSessionEnds_Polls ==
  /\ settling
  /\ settling' = FALSE /\ polling' = TRUE
  /\ UNCHANGED <<serverVars, mode, shown, pendingUpdates, historyLoaded, fetching, pageVars,
                 stream, delivered, historyVars>>

\* Its own teardown is no failure.
AbortedSessionEnds ==
  /\ settling
  /\ settling' = FALSE
  /\ UNCHANGED <<serverVars, mode, shown, pendingUpdates, historyLoaded, fetching, pageVars,
                 stream, delivered, polling, historyVars>>

handleUpdateEvent ==
  /\ stream = "open" /\ delivered < published
  /\ delivered' = delivered + 1
  /\ fresh' = fresh \cup {delivered + 1}
  /\ LET e == [line |-> delivered + 1, from |-> "sse"] IN
     IF historyLoaded
     THEN shown' = shown \cup {e} /\ UNCHANGED pendingUpdates
     ELSE pendingUpdates' = pendingUpdates \cup {e} /\ UNCHANGED shown
  /\ UNCHANGED <<serverVars, mode, historyLoaded, fetching, pageVars, stream, polling, settling,
                 paged, failed>>

-----------------------------------------------------------------------------
(* The user. *)

\* The bot is opened: everything is reset, the first page is asked for.
Mount(m) ==
  /\ mode = "closed" /\ m # "closed"
  /\ mode' = m
  /\ shown' = {} /\ pendingUpdates' = {}
  /\ fetching' = [NoFetch EXCEPT !.kind = "replace"]
  /\ historyLoaded' = FALSE
  /\ hasMore' = FALSE /\ hasEarlier' = FALSE /\ paginated' = FALSE /\ offset' = 0
  /\ earlierOffset' = 0
  /\ IF m = "dated" THEN UNCHANGED streamVars ELSE Connect
  /\ fresh' = {} /\ paged' = {} /\ failed' = FALSE
  /\ UNCHANGED serverVars

\* The fetch and the stream are aborted.
Unmount ==
  /\ mode # "closed"
  /\ mode' = "closed"
  /\ fetching' = NoFetch
  /\ shown' = {} /\ pendingUpdates' = {} /\ historyLoaded' = FALSE
  /\ hasMore' = FALSE /\ hasEarlier' = FALSE /\ paginated' = FALSE /\ offset' = 0
  /\ earlierOffset' = 0
  /\ Disconnect
  /\ fresh' = {} /\ paged' = {} /\ failed' = FALSE
  /\ UNCHANGED serverVars

\* setDateFilter, setDateRangeFilter, setLatestFilter: a filter suspends the stream.
updateQuery(m) ==
  /\ mode # "closed" /\ m # "closed"
  /\ mode' = m
  /\ Replace
  /\ CASE liveMode /\ m = "dated"  -> Disconnect
       [] ~liveMode /\ m # "dated" -> Connect
       [] OTHER                    -> UNCHANGED streamVars
  /\ UNCHANGED <<serverVars, shown, pendingUpdates, hasMore, hasEarlier, earlierOffset, failed>>

\* The stream is connected again as well.
refresh ==
  /\ mode # "closed"
  /\ Replace
  /\ IF liveMode THEN Connect ELSE UNCHANGED streamVars
  /\ UNCHANGED <<serverVars, mode, shown, pendingUpdates, hasMore, hasEarlier, earlierOffset, failed>>

PublishLine ==
  /\ published < MaxLine
  /\ published' = published + 1
  /\ UNCHANGED <<stored, mode, shown, pendingUpdates, historyLoaded, fetching, pageVars, streamVars,
                 historyVars>>

StoreLines ==
  /\ stored < published
  /\ stored' = published
  /\ UNCHANGED <<published, mode, shown, pendingUpdates, historyLoaded, fetching, pageVars,
                 streamVars, historyVars>>

LogViewNext ==
  \/ \E m \in {"today", "latest", "dated"} : Mount(m) \/ updateQuery(m)
  \/ Unmount \/ refresh \/ loadMore \/ loadEarlierLogs
  \/ ServerReads \/ fetchLogs \/ PageArrives \/ FetchFails
  \/ startPolling \/ StreamOpens \/ StreamEnds \/ AbortedSessionEnds \/ handleUpdateEvent
  \/ PublishLine \/ StoreLines

LogViewSpec == LogViewInit /\ [][LogViewNext]_logViewVars

-----------------------------------------------------------------------------
(* Properties *)

\* A line that the stream delivers while a replace is in flight is not lost when the
\* older answer lands, nor when the replace fails or is aborted; and one delivered
\* later stays until the next.
LiveLinesSurvive == fresh \subseteq LinesOf(shown \cup pendingUpdates)

\* A live view always has one source of new lines, the stream or polling, and any other
\* view none: whatever sessions end, fail, or are torn down, in whatever order.
OneSourceOfUpdates ==
  IF liveMode THEN polling <=> stream = "off" ELSE ~polling /\ stream = "off"

\* The pages that the user added with loadMore stay until the user asks for something
\* else: no tick of the polling replaces them.
AddedPagesStay == paged \subseteq LinesOf(shown)
=============================================================================
