-------------------------------- MODULE BotEvents --------------------------------
(***************************************************************************)
(* What becomes of a bot's log lines on its page: the console shows them   *)
(* (components/bot/console-interface.tsx), and the bot's own dashboard is  *)
(* given the metrics among them as events (hooks/use-bot-events.ts), with  *)
(* functions that group and select events (lib/events).  A line is what it *)
(* is and when it was written; fetching is LogView's and LogPages' subject *)
(* and is one step here.                                                   *)
(***************************************************************************)
EXTENDS Integers, Sequences, FiniteSets, SequencesExt

CONSTANTS
  Metric,              \* the types of metrics
  Gap, Window,         \* the arguments of groupByRun and groupByTimeWindow
  PageSize,            \* lines that one request returns
  MaxNow, MaxOutput    \* bounds on the clock and on the bot's output

\* Besides metrics: JSON of a logging library, text, and lines of the old format.
What == Metric \cup {"json", "text", "old"}

ASSUME EventConstants ==
  /\ Metric \cap {"json", "text", "old", "none"} = {}
  /\ Gap \in Nat /\ {Window, PageSize, MaxNow} \subseteq Nat \ {0}

VARIABLES
  now,        \* the clock; 0 is no time
  output,     \* the lines the bot has written, oldest first
  interval, sort, \* what the panel asks for: live, latest or a range; newest or oldest first
  events,     \* what useBotEvents computed when its lines last changed
  consoleLogs \* the entries the console has

eventVars == <<now, output, interval, sort, events, consoleLogs>>

Line == [what : What, at : 1..MaxNow]
Event == [type : {"log", "metric"}, metricType : Metric \cup {"none"},
          timestamp : 0..MaxNow, raw : Line]

\* A metric or a library's line has its time in its JSON, an old line in brackets;
\* the API finds one for every other line than an old one.
LogEntry(line) ==
  [content |-> line, timestamp |-> IF line.what = "old" THEN 0 ELSE line.at]
Entries == [content : Line, timestamp : 0..MaxNow]

\* Every variable has its type.
EventsTypeOK ==
  /\ now \in 1..MaxNow /\ output \in Seq(Line)
  /\ interval \in {"live", "latest", "range"} /\ sort \in {"asc", "desc"}
  /\ events \in Seq(Event) /\ consoleLogs \in Seq(Entries)

-----------------------------------------------------------------------------
(* event-parser.ts *)

extractTimestamp(line) == IF line.what = "old" THEN line.at ELSE 0
extractTimestampFromStructuredLog(line) == line.at

resolveTimestamp(apiTimestamp, extracted) == IF apiTimestamp # 0 THEN apiTimestamp ELSE extracted

\* The time in a metric's JSON is not read.
parseMetricJSON(line, apiTimestamp) ==
  [type |-> "metric", metricType |-> line.what, raw |-> line,
   timestamp |-> resolveTimestamp(apiTimestamp, extractTimestamp(line))]

parseStructuredJSON(line, apiTimestamp) ==
  [type |-> "log", metricType |-> "none", raw |-> line,
   timestamp |-> resolveTimestamp(apiTimestamp, extractTimestampFromStructuredLog(line))]

\* parseBracketLog and parsePlainText.
parseText(line, apiTimestamp) ==
  [type |-> "log", metricType |-> "none", raw |-> line,
   timestamp |-> resolveTimestamp(apiTimestamp, extractTimestamp(line))]

\* The first parser that takes the line.
parseLogLine(line, apiTimestamp) ==
  CASE line.what \in Metric -> parseMetricJSON(line, apiTimestamp)
    [] line.what = "json" -> parseStructuredJSON(line, apiTimestamp)
    [] OTHER -> parseText(line, apiTimestamp)

parseEvents(entries) ==
  [i \in DOMAIN entries |-> parseLogLine(entries[i].content, entries[i].timestamp)]

-----------------------------------------------------------------------------
(* event-utils.ts *)

\* JavaScript's sort is stable.
Chronological(s) ==
  LET order == SetToSortSeq(DOMAIN s, LAMBDA i, j :
                 \/ s[i].timestamp < s[j].timestamp
                 \/ s[i].timestamp = s[j].timestamp /\ i < j)
  IN [k \in DOMAIN s |-> s[order[k]]]

filterByType(s, m) == SelectSeq(s, LAMBDA e : e.type = "metric" /\ e.metricType = m)
metrics(s) == SelectSeq(s, LAMBDA e : e.type = "metric")
getMetricTypes(s) == {metrics(s)[i].metricType : i \in DOMAIN metrics(s)}

\* null when there is none.
latest(s, m) == IF filterByType(s, m) = <<>> THEN "none" ELSE Last(filterByType(s, m))
latestByType(s) == [m \in getMetricTypes(s) |-> latest(s, m)]

\* One more event for the group, and for the count, of its type.
PushToGroup(groups, e) ==
  IF e.type # "metric" THEN groups
  ELSE [m \in DOMAIN groups \cup {e.metricType} |->
          IF m # e.metricType THEN groups[m]
          ELSE IF m \in DOMAIN groups THEN Append(groups[m], e) ELSE <<e>>]
groupByMetricType(s) == FoldLeft(PushToGroup, <<>>, s)

CountOne(counts, e) ==
  IF e.type # "metric" THEN counts
  ELSE [m \in DOMAIN counts \cup {e.metricType} |->
          (IF m \in DOMAIN counts THEN counts[m] ELSE 0) + (IF m = e.metricType THEN 1 ELSE 0)]
countByType(s) == FoldLeft(CountOne, <<>>, s)

between(s, start, end) ==
  SelectSeq(s, LAMBDA e : e.timestamp # 0 /\ e.timestamp >= start /\ e.timestamp <= end)
since(s, duration) == SelectSeq(s, LAMBDA e : e.timestamp # 0 /\ e.timestamp >= now - duration)

\* Every metric here carries a number: the time it was written.
extractTimeSeries(s, m) ==
  LET points == SelectSeq(filterByType(s, m), LAMBDA e : e.timestamp # 0)
  IN [i \in DOMAIN points |-> [timestamp |-> points[i].timestamp, value |-> points[i].raw.at]]

Timed(s) == SelectSeq(s, LAMBDA e : e.timestamp # 0)

groupByTimeWindow(s) ==
  LET start(e) == (e.timestamp \div Window) * Window
      valid == Timed(s)
      keys == SetToSortSeq({start(valid[i]) : i \in DOMAIN valid}, <)
  IN [k \in DOMAIN keys |-> SelectSeq(valid, LAMBDA e : start(e) = keys[k])]

\* The runs pushed so far and the current one, after one more event.
NextInRun(acc, e) ==
  IF e.timestamp - Last(acc.currentRun).timestamp > Gap
  THEN [runs |-> Append(acc.runs, acc.currentRun), currentRun |-> <<e>>]
  ELSE [acc EXCEPT !.currentRun = Append(@, e)]

SplitIntoRuns(sorted) ==
  FoldLeft(NextInRun, [runs |-> <<>>, currentRun |-> <<Head(sorted)>>], Tail(sorted))

\* Mutation: the last run is not pushed.
groupByRun_Unfinished(s) ==
  IF Timed(s) = <<>> THEN <<>> ELSE SplitIntoRuns(Chronological(Timed(s))).runs

groupByRun(s) ==
  IF Timed(s) = <<>> THEN <<>>
  ELSE LET split == SplitIntoRuns(Chronological(Timed(s)))
       IN Append(split.runs, split.currentRun)

-----------------------------------------------------------------------------
(* The requests of useBotLogs *)

Newest(s) == IF Len(s) > PageSize THEN SubSeq(s, Len(s) - PageSize + 1, Len(s)) ELSE s
Oldest(s) == IF Len(s) > PageSize THEN SubSeq(s, 1, PageSize) ELSE s

\* The API answers newest first unless asked otherwise; a live view turns the answer
\* around, to append what is streamed.
Displayed(page) == IF interval = "live" THEN Reverse(page) ELSE page

\* Only the latest interval limits the metrics; they are asked for newest first.
FetchMetrics ==
  LET found == SelectSeq(output, LAMBDA line : line.what \in Metric)
  IN Displayed(Reverse(IF interval = "latest" THEN Newest(found) ELSE found))

\* A range that is asked for oldest first is read from its start.
FetchConsole ==
  Displayed(IF sort = "desc" THEN Reverse(Newest(output))
            ELSE IF interval = "range" THEN Oldest(output) ELSE Newest(output))

-----------------------------------------------------------------------------
(* The dashboard and the console *)

\* The hook hands its lines on without the API's timestamps, and takes the time of
\* an event that has none to be now.
useBotEvents(lines) ==
  LET parsed == parseEvents([i \in DOMAIN lines |-> [content |-> lines[i], timestamp |-> 0]])
  IN Chronological([i \in DOMAIN parsed |->
       IF parsed[i].timestamp = 0 THEN [parsed[i] EXCEPT !.timestamp = now] ELSE parsed[i]])

EventsInit ==
  /\ now = 1 /\ output = <<>> /\ events = <<>> /\ consoleLogs = <<>>
  /\ interval \in {"live", "latest"} /\ sort = "desc"

\* A streamed line is appended to a live view.
BotLogs(what) ==
  /\ Len(output) < MaxOutput
  /\ LET line == [what |-> what, at |-> now] IN
     /\ output' = Append(output, line)
     /\ IF interval = "live"
        THEN /\ consoleLogs' = Append(consoleLogs, LogEntry(line))
             /\ events' = IF what \in Metric
                          THEN useBotEvents(Append([i \in DOMAIN events |-> events[i].raw], line))
                          ELSE events
        ELSE UNCHANGED <<events, consoleLogs>>
  /\ UNCHANGED <<now, interval, sort>>

\* The page of metrics has been read: polling, a refresh, or after a change of the interval.
EventsFetched ==
  /\ events' = useBotEvents(FetchMetrics)
  /\ UNCHANGED <<now, output, interval, sort, consoleLogs>>

ConsoleFetched ==
  /\ consoleLogs' = [i \in DOMAIN FetchConsole |-> LogEntry(FetchConsole[i])]
  /\ UNCHANGED <<now, output, interval, sort, events>>

\* The interval picker; the hooks of the console and the dashboard set their filters.
handleIntervalChange(m) ==
  /\ m # interval /\ interval' = m
  /\ interval = "live" => m = "range"
  /\ interval = "latest" => m = "range"
  /\ UNCHANGED <<now, output, sort, events, consoleLogs>>

onSortChange ==
  /\ sort' = (IF sort = "asc" THEN "desc" ELSE "asc")
  /\ UNCHANGED <<now, output, interval, events, consoleLogs>>

TimePasses ==
  /\ now < MaxNow /\ now' = now + 1
  /\ UNCHANGED <<output, interval, sort, events, consoleLogs>>

EventsNext ==
  \/ \E what \in What : BotLogs(what)
  \/ EventsFetched \/ ConsoleFetched \/ onSortChange \/ TimePasses
  \/ \E m \in {"live", "latest", "range"} : handleIntervalChange(m)

EventsSpec == EventsInit /\ [][EventsNext]_eventVars

-----------------------------------------------------------------------------
(* Properties *)

\* Of events with their times, in whatever order, groupByRun gives every one once, in
\* runs that are further apart than the gap while their own events are not;
\* groupByTimeWindow gives every one once, in windows that follow each other; and what is
\* grouped, counted and selected by type or time agrees.
GroupsAreExact ==
  LET s == parseEvents(consoleLogs)
      runs == groupByRun(s)
      windows == groupByTimeWindow(s)
      groups == groupByMetricType(s)
  IN /\ FlattenSeq(runs) = Chronological(Timed(s))
     /\ \A r \in DOMAIN runs :
          /\ \A i \in 2..Len(runs[r]) : runs[r][i].timestamp - runs[r][i-1].timestamp <= Gap
          /\ r > 1 => Head(runs[r]).timestamp - Last(runs[r-1]).timestamp > Gap
     /\ Chronological(FlattenSeq(windows)) = Chronological(Timed(s))
     /\ \A k \in DOMAIN windows : \A i, j \in DOMAIN windows[k] :
          windows[k][i].timestamp - windows[k][j].timestamp < Window
     /\ \A k \in 2..Len(windows) : Head(windows[k]).timestamp > Last(windows[k-1]).timestamp
     /\ DOMAIN groups = getMetricTypes(s)
     /\ \A m \in DOMAIN groups :
          /\ groups[m] = filterByType(s, m) /\ countByType(s)[m] = Len(groups[m])
          /\ latestByType(s)[m] = Last(groups[m])
          /\ Len(extractTimeSeries(s, m)) <= Len(groups[m])
     /\ since(s, Window) = between(s, now - Window, now)

\* A dashboard that asks for the latest metric of a type is given the newest it has
\* (use-bot-events.ts:184, "Stable-sort here so utils are correct regardless of fetch order").
LatestIsNewest ==
  \A m \in getMetricTypes(events) :
    \A i \in DOMAIN filterByType(events, m) :
      latest(events, m).raw.at >= filterByType(events, m)[i].raw.at
=============================================================================
