-------------------------------- MODULE LogPages -------------------------------
(***************************************************************************)
(* Reading a bot's logs (api/src/logs/logs.service.ts): one file per day   *)
(* in MinIO, of which a page is asked for - the newest lines of the last   *)
(* days ("latest"), the lines of one day, or those of a range of days -    *)
(* while the runtime goes on appending to the file of today.               *)
(*                                                                         *)
(* Lines are numbered within their day and are equally long.  Picked says  *)
(* which of them are metrics, or lie within the time window asked for.     *)
(* Every list of lines is in order of time, one way or the other: it is    *)
(* the set of its lines, with the way.                                     *)
(***************************************************************************)
EXTENDS Integers, Sequences, FiniteSets

CONSTANTS
  Days,           \* days that are looked back on; day 1 is today, day 2 yesterday ...
  MaxLines,       \* bound: lines of a day
  TailLines,      \* whole lines that the last TAIL_BYTES of a longer file hold
  Cap,            \* 10000: how many lines a page may take to find
  Picked,
  Limits,         \* page sizes asked for
  Offsets

ASSUME LogPagesConstants ==
  /\ Days \in Nat \ {0} /\ MaxLines \in Nat /\ TailLines \in Nat \ {0} /\ Cap \in Nat \ {0}
  /\ Picked \subseteq Nat /\ Limits \subseteq Nat \ {0} /\ Offsets \subseteq Nat
  /\ Limits # {} /\ Offsets # {}

VARIABLES
  files,          \* how many lines each day has
  reading,        \* the request in progress, or answered
  seen            \* history: how many lines each day had when it was last read

logPagesVars == <<files, reading, seen>>

Line == (1..Days) \X (1..MaxLines)
Newer(k, l) == k[1] < l[1] \/ (k[1] = l[1] /\ k[2] > l[2])

\* Lines, newest first or oldest first.
List == [lines : SUBSET Line, desc : BOOLEAN]

LogsQuery ==
  {q \in [mode : {"latest", "day", "range"}, type : {"all", "metrics", "window"},
          sort : {"asc", "desc"}, limit : Limits, offset : Offsets] :
     q.type = "window" => q.mode = "range"}

Nothing == [lines |-> {}, desc |-> FALSE]
NoReading == [pc |-> "none", left |-> <<>>, start |-> 0, got |-> Nothing,
              skipped |-> 0, hasMore |-> FALSE, q |-> CHOOSE q \in LogsQuery : TRUE]

\* Every variable has its type.
LogPagesTypeOK ==
  /\ files \in [1..Days -> 0..MaxLines]
  /\ seen \in [1..Days -> 0..MaxLines]
  /\ reading \in [pc : {"none", "stream", "stat", "get", "again", "answered"},
                  left : Seq(1..Days), start : Nat, got : List, skipped : Nat,
                  hasMore : BOOLEAN, q : LogsQuery]

LogPagesInit ==
  /\ files \in [1..Days -> 0..MaxLines]
  /\ reading = NoReading
  /\ seen = files

-----------------------------------------------------------------------------
Ahead(p, l)   == {k \in p.lines : IF p.desc THEN Newer(k, l) ELSE Newer(l, k)}
Size(p)       == Cardinality(p.lines)
Reversed(p)   == [p EXCEPT !.desc = ~@]
FirstOf(n, p) == [p EXCEPT !.lines = {l \in @ : Cardinality(Ahead(p, l)) < n}]
Dropped(n, p) == [p EXCEPT !.lines = {l \in @ : Cardinality(Ahead(p, l)) >= n}]
LastOf(n, p)  == Reversed(FirstOf(n, Reversed(p)))
Chosen(p)     == [p EXCEPT !.lines = {l \in @ : l[2] \in Picked}]

\* A list with one that is later in its order appended.
Joined(p, r)  == [p EXCEPT !.lines = @ \cup r.lines]
MaxOf(a, b)   == IF a < b THEN b ELSE a

\* The file of a day, oldest line first, as it is.
Content(d) == [lines |-> {d} \X (1..files[d]), desc |-> FALSE]

\* Oldest first for a range; for the latest lines, backwards from today.
generateDateRange     == [i \in 1..Days |-> Days + 1 - i]
generateLookbackDates == [i \in 1..Days |-> i]

\* parseDateQuery, and which way the file of each day will be read.
getLogs(q) ==
  /\ reading.pc = "none"
  /\ reading' = [NoReading EXCEPT
       !.q = q,
       !.left = CASE q.mode = "latest" -> generateLookbackDates
                  [] q.mode = "day"    -> <<1>>
                  [] q.mode = "range"  -> generateDateRange,
       !.pc = IF q.type # "metrics" /\ q.mode # "range" THEN "stat" ELSE "stream"]
  /\ seen' = files
  /\ UNCHANGED files

\* The lines of a day that streamFilteredLogs adds: after those the offset skips,
\* which are counted before the window is looked at; metrics have no limit.
Streamed(d, q, limit, offset, got) ==
  LET typed == IF q.type = "metrics" THEN Chosen(Content(d)) ELSE Content(d)
      rest  == Dropped(offset, typed)
      added == IF q.type = "window" THEN Chosen(rest) ELSE rest
  IN IF q.type = "metrics" THEN added ELSE FirstOf(limit - Size(got), added)

\* Mutation: no line more than the page itself is looked for.
maxNeeded_NoSentinel == reading.q.offset + reading.q.limit

\* One more than the page, so that hasMore is known.
maxNeeded == reading.q.offset + reading.q.limit + 1

AnswerPage(got, hasMore) ==
  reading' = [reading EXCEPT !.pc = "answered", !.left = <<>>, !.got = got,
                !.hasMore = hasMore]

\* One more day of the latest lines; with enough of them, the page is cut out.
getLatestLogs(dayEntries) ==
  LET collected  == Joined(LastOf(maxNeeded, dayEntries), reading.got)
      afterOffset == Dropped(reading.q.offset, Reversed(collected))
      entries     == FirstOf(reading.q.limit, afterOffset)
  IN IF Size(collected) >= maxNeeded \/ Len(reading.left) = 1
     THEN AnswerPage(IF reading.q.sort = "asc" THEN Reversed(entries) ELSE entries,
                     Size(afterOffset) > reading.q.limit)
     ELSE reading' = [reading EXCEPT !.got = collected, !.left = Tail(reading.left),
                        !.pc = IF reading.q.type = "metrics" THEN "stream" ELSE "stat"]

\* One more day of a range.  Newest first, the lines are read from the oldest on,
\* up to a cap, and reversed.
GetRange(d) ==
  LET q      == reading.q
      capped == q.sort = "desc" /\ q.type # "metrics"
      limit  == IF capped THEN MaxOf(q.offset + q.limit, Cap) ELSE q.limit
      skip   == IF capped THEN 0 ELSE MaxOf(0, q.offset - reading.skipped)
      got    == Joined(reading.got, Streamed(d, q, limit, skip, reading.got))
      page   == CASE capped         -> FirstOf(q.limit, Dropped(q.offset, Reversed(got)))
                  [] q.sort = "asc" -> got
                  [] OTHER          -> Reversed(got)
  IN IF (q.type # "metrics" /\ Size(got) >= limit) \/ Len(reading.left) = 1
     THEN AnswerPage(page, q.type # "metrics" /\ Size(page) >= q.limit)
     ELSE reading' = [reading EXCEPT !.got = got, !.left = Tail(reading.left),
            !.skipped = @ + Size(IF q.type = "metrics" THEN Chosen(Content(d)) ELSE Content(d))]

ReadDay == seen' = [seen EXCEPT ![Head(reading.left)] = files[Head(reading.left)]]

streamFilteredLogs ==
  LET d == Head(reading.left) IN
  /\ reading.pc = "stream"
  /\ IF reading.q.mode = "latest" THEN getLatestLogs(Chosen(Content(d))) ELSE GetRange(d)
  /\ ReadDay
  /\ UNCHANGED files

\* tailFilteredLogs asks for the size of the file, then for what lies beyond a
\* point computed from it: the file may have grown in between.
StatLog ==
  /\ reading.pc = "stat"
  /\ reading' = [reading EXCEPT !.pc = "get",
                   !.start = MaxOf(0, files[Head(reading.left)] - TailLines)]
  /\ UNCHANGED <<files, seen>>

\* A day alone is answered as the tail has it: oldest line first unless "asc" is
\* asked for, whatever the offset.
tailFilteredLogs ==
  LET q     == reading.q
      lines == Dropped(reading.start, Content(Head(reading.left)))
      got   == LastOf(IF q.mode = "latest" THEN maxNeeded ELSE q.limit, lines)
  IN /\ reading.pc = "get"
     /\ CASE q.mode = "day" ->
               AnswerPage(IF q.sort = "asc" THEN Reversed(got) ELSE got, Size(got) >= q.limit)
          [] q.mode = "latest" /\ reading.start > 0 /\ Size(got) < maxNeeded ->
               reading' = [reading EXCEPT !.pc = "again"]
          [] OTHER -> getLatestLogs(got)
     /\ ReadDay
     /\ UNCHANGED files

\* The tail held too few lines: the day is read from its start, up to a cap.
ReadWholeDay ==
  /\ reading.pc = "again"
  /\ getLatestLogs(FirstOf(MaxOf(maxNeeded, Cap), Content(Head(reading.left))))
  /\ ReadDay
  /\ UNCHANGED files

\* The runtime uploads one more line of today.
AppendLog ==
  /\ files[1] < MaxLines
  /\ files' = [files EXCEPT ![1] = @ + 1]
  /\ UNCHANGED <<reading, seen>>

LogPagesNext ==
  \/ \E q \in LogsQuery : getLogs(q)
  \/ streamFilteredLogs \/ StatLog \/ tailFilteredLogs \/ ReadWholeDay
  \/ AppendLog

LogPagesSpec == LogPagesInit /\ [][LogPagesNext]_logPagesVars

-----------------------------------------------------------------------------
(* Properties *)

\* What the files had when they were read, and of that a page: the lines that have as
\* many before them as the offset says, or as the lines of the page are more.
Logged ==
  {l \in Line : l[2] <= seen[l[1]] /\ (reading.q.type = "all" \/ l[2] \in Picked)}
PageOf(desc) ==
  LET page == reading.q.offset .. reading.q.offset + reading.q.limit - 1
  IN {l \in Logged : Cardinality(Ahead([lines |-> Logged, desc |-> desc], l)) \in page}

\* The latest lines, and those of a range, come in pages that neither skip nor repeat
\* a line, wherever the days end and however the file of today grows meanwhile, and
\* hasMore is not missing - as far as the cap on what is read lets it be, and but for
\* an offset into a time window read oldest first, and for metrics of a range, which
\* come in one page.
PagesAreExact ==
  LET q    == reading.q
      more == Cardinality(Logged) > q.offset + q.limit
  IN reading.pc = "answered" =>
       /\ q.mode = "latest" /\ (\A d \in 1..Days : seen[d] <= Cap) =>
            /\ reading.got = [lines |-> PageOf(TRUE), desc |-> q.sort = "desc"]
            /\ reading.hasMore = more
       /\ q.mode = "range" /\ q.type # "metrics" =>
            /\ q.sort = "desc" /\ Cardinality(Logged) <= Cap =>
                 /\ reading.got = [lines |-> PageOf(TRUE), desc |-> TRUE]
                 /\ more => reading.hasMore
            /\ q.sort = "asc" /\ (q.type = "window" => q.offset = 0) =>
                 /\ reading.got = [lines |-> PageOf(FALSE), desc |-> FALSE]
                 /\ more => reading.hasMore
=============================================================================
