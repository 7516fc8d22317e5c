------------------------- MODULE BotSubscriberProofs -------------------------
(* Theorems about BotSubscriber: the places of the partitions are never given   *)
(* back twice, the runtime's records agree with the API's, and they follow them *)
(* step by step (BotSubscriber implements Follower).                            *)
EXTENDS BotSubscriber, FiniteSetTheorems, TLAPS

-----------------------------------------------------------------------------
(* What calls, messages and handlers carry.                                    *)

\* What an event carries: one that a bot is gone may carry no version.
VersionOf(u) == IF u = "deleted" THEN Version \cup {NoVersion} ELSE Version

\* The steps that a subject's handler may be at once it has read a message.
StepsOfHandler(u) ==
  CASE u = "created" -> {"look", "claim", "number", "insert", "upsert"}
    [] u = "updated" -> {"look", "claim", "number", "insert", "upsert", "set"}
    [] u = "deleted" -> {"look", "drop", "decrement"}

\* A request to the API, a subject's queue and a handler are well formed.
AskedWell(c) ==
  /\ c \in CallState
  /\ c # NoCall => c.op \in Subject /\ c.bot \in Bot /\ c.ver \in VersionOf(c.op) /\ c.pc # "none"

SentWell(u, q) == q \in Seq([bot : Bot, ver : VersionOf(u)])

HandledWell(u, h) ==
  /\ h \in HandlerState
  /\ h.pc = "receive" => h.bot = NoBot
  /\ h.pc # "receive" => h.bot \in Bot /\ h.ver \in VersionOf(u) /\ h.pc \in StepsOfHandler(u)
  /\ h.pc \in {"insert", "upsert", "drop", "decrement"} => h.seg \in Partition

\* Everything but the counts, of which it takes more to know that they are numbers.
Carried ==
  /\ api \in [Bot -> Version \cup {NoVersion, Deleted}]
  /\ call \in [Call -> CallState] /\ \A k \in Call : AskedWell(call[k])
  /\ calls \in 0..MaxCalls /\ up \in BOOLEAN /\ faults \in 0..MaxFaults
  /\ queue \in [Subject -> Seq(Message)] /\ \A u \in Subject : SentWell(u, queue[u])
  /\ handler \in [Subject -> HandlerState] /\ \A u \in Subject : HandledWell(u, handler[u])
  /\ doc \in [Bot -> Doc \cup {NoDoc}]
  /\ disturbed \subseteq Bot

-----------------------------------------------------------------------------
(* The places of a partition. *)

\* Handlers that a partition is counted for: one is to put a bot there, another has taken
\* one away, or will take it from where it has moved to.
Holding(p) ==
  {u \in Subject : /\ handler[u].seg = p
                   /\ \/ handler[u].pc \in {"upsert", "decrement"}
                      \/ handler[u].pc = "drop" /\ handler[u].bot \notin BotsIn(p)}

\* A partition is counted for the bots it holds and for the handlers that hold a place; the
\* count of one that is not inserted yet is 0.
Fits(p) ==
  /\ IsFiniteSet(BotsIn(p))
  /\ Cardinality(BotsIn(p)) + Cardinality(Holding(p)) <= count[p]
  /\ count[p] <= Cap
  /\ p \notin made => count[p] = 0

\* Partitions are numbered once, and inserted once.
Numbered ==
  /\ seq \in 0..MaxPartition /\ made \subseteq 1..seq
  /\ \A u \in Subject : handler[u].pc = "insert" => handler[u].seg \in (1..seq) \ made
  /\ \A u, v \in Subject :
       handler[u].pc = "insert" /\ handler[v].pc = "insert" /\ handler[u].seg = handler[v].seg
         => u = v

\* The inductive invariant of the places.
SubscriberInv ==
  /\ Carried
  /\ Numbered
  /\ count \in [Partition -> Nat]
  /\ \A p \in Partition : Fits(p)

LEMMA FewerFit ==
  ASSUME NEW S, NEW T, IsFiniteSet(S), T \subseteq S
  PROVE  IsFiniteSet(T) /\ Cardinality(T) <= Cardinality(S) /\ Cardinality(T) \in Nat
         /\ Cardinality(S) \in Nat
  BY FS_Subset, FS_CardinalityType

LEMMA OneMore ==
  ASSUME NEW S, NEW T, NEW x, IsFiniteSet(S), T \subseteq S \cup {x}
  PROVE  IsFiniteSet(T) /\ Cardinality(T) <= Cardinality(S) + 1 /\ Cardinality(T) \in Nat
         /\ Cardinality(S) \in Nat
<1>1. IsFiniteSet(S \cup {x}) /\ Cardinality(S \cup {x}) <= Cardinality(S) + 1
      /\ Cardinality(S) \in Nat
  BY FS_AddElement, FS_CardinalityType
<1>2. QED
  BY <1>1, FewerFit

LEMMA OneFewer ==
  ASSUME NEW S, NEW T, NEW x \in S, IsFiniteSet(S), T \subseteq S \ {x}
  PROVE  IsFiniteSet(T) /\ Cardinality(T) + 1 <= Cardinality(S) /\ Cardinality(T) \in Nat
         /\ Cardinality(S) \in Nat
<1>1. IsFiniteSet(S \ {x}) /\ Cardinality(S \ {x}) = Cardinality(S) - 1
      /\ Cardinality(S) \in Nat
  BY FS_RemoveElement, FS_CardinalityType
<1>2. QED
  BY <1>1, FewerFit

LEMMA HoldingIsFinite == \A p : IsFiniteSet(Holding(p)) /\ IsFiniteSet(Holding(p)')
<1>1. IsFiniteSet(Subject)
  <2>1. Subject = ({} \cup {"created"}) \cup {"updated"} \cup {"deleted"}
    BY DEF Subject
  <2>2. QED
    BY <2>1, FS_EmptySet, FS_AddElement
<1>2. \A p : Holding(p) \subseteq Subject /\ Holding(p)' \subseteq Subject
  BY DEF Holding
<1>3. QED
  BY <1>1, <1>2, FS_Subset

\* A partition of which nothing is added keeps its places.
LEMMA FewerKeep ==
  ASSUME NEW p \in Partition, count \in [Partition -> Nat], Fits(p), count'[p] = count[p],
         BotsIn(p)' \subseteq BotsIn(p), Holding(p)' \subseteq Holding(p),
         p \notin made' => p \notin made
  PROVE  Fits(p)'
<1>1. /\ IsFiniteSet(BotsIn(p)') /\ Cardinality(BotsIn(p)') <= Cardinality(BotsIn(p))
      /\ Cardinality(BotsIn(p)') \in Nat /\ Cardinality(BotsIn(p)) \in Nat
  BY FewerFit DEF Fits
<1>2. /\ Cardinality(Holding(p)') <= Cardinality(Holding(p))
      /\ Cardinality(Holding(p)') \in Nat /\ Cardinality(Holding(p)) \in Nat
  BY HoldingIsFinite, FewerFit
<1>3. count[p] \in Nat
  OBVIOUS
<1>4. QED
  BY <1>1, <1>2, <1>3, ConstantsOK DEF Fits

\* A bot that leaves a partition may have its place kept by a handler.
LEMMA PlaceIsKept ==
  ASSUME NEW p \in Partition, count \in [Partition -> Nat], Fits(p), count'[p] = count[p],
         NEW b \in BotsIn(p), NEW u,
         BotsIn(p)' \subseteq BotsIn(p) \ {b}, Holding(p)' \subseteq Holding(p) \cup {u},
         made' = made
  PROVE  Fits(p)'
<1>1. /\ IsFiniteSet(BotsIn(p)') /\ Cardinality(BotsIn(p)') + 1 <= Cardinality(BotsIn(p))
      /\ Cardinality(BotsIn(p)') \in Nat /\ Cardinality(BotsIn(p)) \in Nat
  BY OneFewer DEF Fits
<1>2. /\ Cardinality(Holding(p)') <= Cardinality(Holding(p)) + 1
      /\ Cardinality(Holding(p)') \in Nat /\ Cardinality(Holding(p)) \in Nat
  BY HoldingIsFinite, OneMore
<1>3. count[p] \in Nat
  OBVIOUS
<1>4. QED
  BY <1>1, <1>2, <1>3, ConstantsOK DEF Fits

\* A handler puts its bot in the place that it holds.
LEMMA PlaceIsTaken ==
  ASSUME NEW p \in Partition, count \in [Partition -> Nat], Fits(p), count'[p] = count[p],
         NEW b, NEW u \in Holding(p),
         BotsIn(p)' \subseteq BotsIn(p) \cup {b}, Holding(p)' \subseteq Holding(p) \ {u},
         made' = made
  PROVE  Fits(p)'
<1>1. /\ IsFiniteSet(BotsIn(p)') /\ Cardinality(BotsIn(p)') <= Cardinality(BotsIn(p)) + 1
      /\ Cardinality(BotsIn(p)') \in Nat /\ Cardinality(BotsIn(p)) \in Nat
  BY OneMore DEF Fits
<1>2. /\ Cardinality(Holding(p)') + 1 <= Cardinality(Holding(p))
      /\ Cardinality(Holding(p)') \in Nat /\ Cardinality(Holding(p)) \in Nat
  BY HoldingIsFinite, OneFewer
<1>3. count[p] \in Nat
  OBVIOUS
<1>4. QED
  BY <1>1, <1>2, <1>3, ConstantsOK DEF Fits

-----------------------------------------------------------------------------
\* A handler is where it was, or has moved.
MovesTo(u, h) == handler' = [handler EXCEPT ![u] = h]

LEMMA Quiet ==
  ASSUME SubscriberInv, UNCHANGED <<mongoVars, handler>>, Carried'
  PROVE  SubscriberInv'
<1>1. Numbered' /\ count' \in [Partition -> Nat]
  BY DEF SubscriberInv, Numbered, mongoVars
<1>2. \A p \in Partition : BotsIn(p)' = BotsIn(p) /\ Holding(p)' = Holding(p) /\ Fits(p)'
  BY DEF SubscriberInv, Fits, BotsIn, Stored, Holding, mongoVars
<1>3. QED
  BY <1>1, <1>2 DEF SubscriberInv

LEMMA SubscriberStarts == Init => SubscriberInv
<1> SUFFICES ASSUME Init PROVE SubscriberInv
  OBVIOUS
<1>1. Waiting \in HandlerState /\ NoCall \in CallState
  BY ConstantsOK DEF Waiting, NoCall, HandlerState, CallState
<1>2. \A u \in Subject : HandledWell(u, Waiting) /\ SentWell(u, <<>>)
  BY <1>1, ConstantsOK DEF HandledWell, SentWell, Waiting
<1>3. AskedWell(NoCall)
  BY <1>1 DEF AskedWell
<1>4. Carried
  <2>1. <<>> \in Seq(Message)
    OBVIOUS
  <2>2. QED
    BY <1>1, <1>2, <1>3, <2>1, ConstantsOK DEF Init, Carried
<1>5. Numbered
  BY ConstantsOK DEF Init, Numbered, Waiting
<1>6. ASSUME NEW p \in Partition PROVE Fits(p)
  <2>1. BotsIn(p) = {} /\ Holding(p) = {}
    BY DEF Init, BotsIn, Stored, Holding, Waiting
  <2>2. Cardinality({}) = 0 /\ IsFiniteSet({})
    BY FS_EmptySet
  <2>3. count[p] = 0
    BY DEF Init
  <2>4. QED
    BY <2>1, <2>2, <2>3, ConstantsOK DEF Fits
<1>7. count \in [Partition -> Nat]
  BY DEF Init
<1>8. QED
  BY <1>4, <1>5, <1>6, <1>7 DEF SubscriberInv

-----------------------------------------------------------------------------
(* The API's steps. *)

LEMMA BeginKeeps ==
  ASSUME SubscriberInv, NEW k \in Call, NEW op \in Subject, NEW b \in Bot, NEW v \in VersionOf(op),
         NEW pc \in {"store", "publish"}, Begin(k, op, b, v, pc),
         api' \in [Bot -> Version \cup {NoVersion, Deleted}],
         UNCHANGED <<up, queue, handler, mongoVars, faults>>
  PROVE  SubscriberInv'
<1> DEFINE c == [op |-> op, bot |-> b, ver |-> v, pc |-> pc]
<1>1. AskedWell(c) /\ c \in CallState
  BY DEF AskedWell, CallState, VersionOf
<1>2. call' = [call EXCEPT ![k] = c] /\ calls' = calls + 1 /\ calls < MaxCalls
      /\ disturbed' \subseteq disturbed \cup {b}
  BY DEF Begin
<1> HIDE DEF c
<1>3. call' \in [Call -> CallState] /\ \A j \in Call : AskedWell(call'[j])
  BY <1>1, <1>2 DEF SubscriberInv, Carried
<1>4. calls' \in 0..MaxCalls
  BY <1>2, ConstantsOK DEF SubscriberInv, Carried
<1>5. Carried'
  BY <1>2, <1>3, <1>4 DEF SubscriberInv, Carried, mongoVars
<1>6. QED
  BY <1>5, Quiet

\* Calls that end, and the next step of one.
LEMMA CallGoesOn ==
  ASSUME SubscriberInv, NEW k \in Call, call[k].pc # "none"
  PROVE  /\ call[k].op \in Subject /\ call[k].bot \in Bot /\ call[k].ver \in VersionOf(call[k].op)
         /\ \A c : call' = [call EXCEPT ![k] = c] /\ AskedWell(c) =>
              call' \in [Call -> CallState] /\ \A j \in Call : AskedWell(call'[j])
         /\ \A pc \in {"reread", "publish"} : AskedWell([call[k] EXCEPT !.pc = pc])
         /\ AskedWell(NoCall)
<1>1. call[k] \in CallState /\ AskedWell(call[k]) /\ call \in [Call -> CallState]
      /\ \A j \in Call : AskedWell(call[j])
  BY DEF SubscriberInv, Carried
<1>2. call[k].op \in Subject /\ call[k].bot \in Bot /\ call[k].ver \in VersionOf(call[k].op)
  BY <1>1 DEF AskedWell, NoCall
<1>3. ASSUME NEW pc \in {"reread", "publish"} PROVE AskedWell([call[k] EXCEPT !.pc = pc])
  BY <1>1, <1>2 DEF AskedWell, CallState
<1>4. AskedWell(NoCall)
  BY ConstantsOK DEF AskedWell, NoCall, CallState
<1>5. ASSUME NEW c, call' = [call EXCEPT ![k] = c], AskedWell(c)
      PROVE  call' \in [Call -> CallState] /\ \A j \in Call : AskedWell(call'[j])
  BY <1>1, <1>5 DEF AskedWell
<1>6. QED
  BY <1>2, <1>3, <1>4, <1>5

LEMMA StoreKeeps == ASSUME SubscriberInv, NEW k \in Call, Store(k) PROVE SubscriberInv'
<1> DEFINE pc == IF call[k].op = "updated" THEN "reread" ELSE "publish"
           c == [call[k] EXCEPT !.pc = pc]
<1>1. call[k].pc # "none" /\ call' = [call EXCEPT ![k] = c] /\ pc \in {"reread", "publish"}
      /\ UNCHANGED <<calls, up, queue, handler, mongoVars, disturbed, faults>>
  BY DEF Store
<1> HIDE DEF pc
<1>2. call' \in [Call -> CallState] /\ \A j \in Call : AskedWell(call'[j])
  BY <1>1, CallGoesOn
<1>3. api' \in [Bot -> Version \cup {NoVersion, Deleted}]
  <2>1. call[k].bot \in Bot /\ call[k].op \in Subject /\ call[k].ver \in VersionOf(call[k].op)
    BY <1>1, CallGoesOn
  <2>2. call[k].op = "updated" => call[k].ver \in Version
    BY <2>1 DEF VersionOf
  <2>3. api \in [Bot -> Version \cup {NoVersion, Deleted}]
    BY DEF SubscriberInv, Carried
  <2>4. QED
    BY <2>1, <2>2, <2>3 DEF Store
<1>4. Carried'
  BY <1>1, <1>2, <1>3 DEF SubscriberInv, Carried, mongoVars
<1>5. QED
  BY <1>1, <1>4, Quiet

LEMMA RereadKeeps == ASSUME SubscriberInv, NEW k \in Call, Reread(k) PROVE SubscriberInv'
<1>1. call[k].pc # "none"
      /\ UNCHANGED <<api, calls, up, queue, handler, mongoVars, disturbed, faults>>
  BY DEF Reread
<1>2. \/ call' = [call EXCEPT ![k] = [call[k] EXCEPT !.pc = "publish"]]
      \/ call' = [call EXCEPT ![k] = NoCall]
  BY DEF Reread
<1>3. call' \in [Call -> CallState] /\ \A j \in Call : AskedWell(call'[j])
  BY <1>1, <1>2, CallGoesOn
<1>4. Carried'
  BY <1>1, <1>3 DEF SubscriberInv, Carried, mongoVars
<1>5. QED
  BY <1>1, <1>4, Quiet

LEMMA PublishKeeps == ASSUME SubscriberInv, NEW k \in Call, Publish(k) PROVE SubscriberInv'
<1> DEFINE m == [bot |-> call[k].bot, ver |-> call[k].ver]
<1>1. /\ call[k].pc # "none" /\ call' = [call EXCEPT ![k] = NoCall]
      /\ queue' = [queue EXCEPT ![call[k].op] = Append(@, m)]
      /\ UNCHANGED <<api, calls, up, handler, mongoVars, disturbed, faults>>
  BY DEF Publish
<1>2. call[k].op \in Subject /\ m \in [bot : Bot, ver : VersionOf(call[k].op)]
  BY <1>1, CallGoesOn
<1> HIDE DEF m
<1>3. call' \in [Call -> CallState] /\ \A j \in Call : AskedWell(call'[j])
  BY <1>1, CallGoesOn
<1>4. queue' \in [Subject -> Seq(Message)] /\ \A u \in Subject : SentWell(u, queue'[u])
  <2> DEFINE n == call[k].op
             q == Append(queue[n], m)
  <2>1. queue \in [Subject -> Seq(Message)] /\ \A u \in Subject : SentWell(u, queue[u])
    BY DEF SubscriberInv, Carried
  <2>2. q \in Seq([bot : Bot, ver : VersionOf(n)])
    BY <1>2, <2>1 DEF SentWell
  <2>3. m \in Message
    BY <1>2 DEF Message, VersionOf
  <2>4. q \in Seq(Message)
    BY <1>2, <2>1, <2>3
  <2>5. queue' = [queue EXCEPT ![n] = q]
    BY <1>1
  <2>6. SentWell(n, q)
    BY <2>2 DEF SentWell
  <2> HIDE DEF q
  <2>7. QED
    BY <1>2, <2>1, <2>4, <2>5, <2>6
<1>5. Carried'
  BY <1>1, <1>3, <1>4 DEF SubscriberInv, Carried, mongoVars
<1>6. QED
  BY <1>1, <1>5, Quiet

LEMMA UnpublishedKeeps ==
  ASSUME SubscriberInv, NEW k \in Call, PublishUnheard(k) \/ PublishFails(k)
  PROVE  SubscriberInv'
<1>1. /\ call[k].pc # "none" /\ call' = [call EXCEPT ![k] = NoCall]
      /\ disturbed' = disturbed \cup {call[k].bot}
      /\ UNCHANGED <<api, calls, up, queue, handler, mongoVars>>
  BY DEF PublishUnheard, PublishFails
<1>2. call' \in [Call -> CallState] /\ \A j \in Call : AskedWell(call'[j])
  BY <1>1, CallGoesOn
<1>3. faults' \in 0..MaxFaults
  BY ConstantsOK DEF PublishUnheard, PublishFails, Fault, SubscriberInv, Carried
<1>4. call[k].bot \in Bot
  BY <1>1, CallGoesOn
<1>5. Carried'
  BY <1>1, <1>2, <1>3, <1>4 DEF SubscriberInv, Carried, mongoVars
<1>6. QED
  BY <1>1, <1>5, Quiet

-----------------------------------------------------------------------------
(* The handlers' steps. *)

LEMMA HandlerGoesOn ==
  ASSUME SubscriberInv, NEW u \in Subject, NEW h, MovesTo(u, h), HandledWell(u, h)
  PROVE  /\ handler' \in [Subject -> HandlerState] /\ handler'[u] = h
         /\ \A v \in Subject \ {u} : handler'[v] = handler[v]
         /\ \A v \in Subject : HandledWell(v, handler'[v])
  BY DEF MovesTo, SubscriberInv, Carried, HandledWell

\* The handlers that have a message know what it is about.
LEMMA AtWork ==
  ASSUME SubscriberInv, NEW u \in Subject
  PROVE  /\ handler[u] \in HandlerState /\ HandledWell(u, handler[u])
         /\ handler[u].pc # "receive" =>
              handler[u].bot \in Bot /\ handler[u].ver \in VersionOf(u)
              /\ handler[u].pc \in StepsOfHandler(u)
         /\ HandledWell(u, Waiting)
         /\ \A pc \in StepsOfHandler(u) :
              handler[u].pc # "receive" /\ (pc \in {"insert", "upsert", "drop", "decrement"}
                                            => handler[u].seg \in Partition)
                => HandledWell(u, [handler[u] EXCEPT !.pc = pc])
<1>1. handler[u] \in HandlerState /\ HandledWell(u, handler[u])
  BY DEF SubscriberInv, Carried
<1>2. HandledWell(u, Waiting)
  BY ConstantsOK DEF HandledWell, Waiting, HandlerState
<1>3. ASSUME NEW pc \in StepsOfHandler(u), handler[u].pc # "receive",
             pc \in {"insert", "upsert", "drop", "decrement"} => handler[u].seg \in Partition
      PROVE  HandledWell(u, [handler[u] EXCEPT !.pc = pc])
  <2> DEFINE h == [handler[u] EXCEPT !.pc = pc]
  <2>1. /\ pc \in {"look", "claim", "number", "insert", "upsert", "set", "drop", "decrement"}
        /\ pc # "receive"
    BY DEF StepsOfHandler, Subject
  <2>2. /\ h \in HandlerState /\ h.pc = pc /\ h.bot = handler[u].bot /\ h.ver = handler[u].ver
        /\ h.seg = handler[u].seg
    BY <1>1, <2>1 DEF HandlerState
  <2> HIDE DEF h
  <2>3. HandledWell(u, h)
    BY <1>1, <1>3, <2>1, <2>2 DEF HandledWell
  <2>4. QED
    BY <2>3 DEF h
<1>4. QED
  BY <1>1, <1>2, <1>3 DEF HandledWell

\* A step that leaves MongoDB alone and holds no place that was not held.
LEMMA IdleStepKeeps ==
  ASSUME SubscriberInv, NEW u \in Subject, NEW h, MovesTo(u, h), HandledWell(u, h),
         UNCHANGED <<apiVars, up, mongoVars>>,
         queue' \in [Subject -> Seq(Message)], \A v \in Subject : SentWell(v, queue'[v]),
         disturbed' \subseteq Bot, faults' \in 0..MaxFaults,
         h.pc \notin {"insert", "upsert", "decrement"},
         h.pc = "drop" => h.bot \in BotsIn(h.seg)
  PROVE  SubscriberInv'
<1>1. /\ handler' \in [Subject -> HandlerState] /\ handler'[u] = h
      /\ \A v \in Subject \ {u} : handler'[v] = handler[v]
      /\ \A v \in Subject : HandledWell(v, handler'[v])
  BY HandlerGoesOn
<1>2. Carried'
  BY <1>1 DEF SubscriberInv, Carried, apiVars, mongoVars
<1>3. Numbered'
  BY <1>1 DEF SubscriberInv, Numbered, mongoVars
<1>4. ASSUME NEW p \in Partition PROVE Fits(p)'
  <2>1. BotsIn(p)' = BotsIn(p) /\ count'[p] = count[p] /\ made' = made
    BY DEF BotsIn, Stored, mongoVars
  <2>2. Holding(p)' \subseteq Holding(p)
    BY <1>1, <2>1 DEF Holding
  <2>3. QED
    BY <2>1, <2>2, FewerKeep DEF SubscriberInv
<1>5. QED
  BY <1>2, <1>3, <1>4 DEF SubscriberInv, mongoVars

LEMMA QueueShifts ==
  ASSUME NEW S, NEW q \in Seq(S), q # <<>>
  PROVE  /\ Len(q) \in Nat \ {0} /\ Head(q) = q[1] /\ q[1] \in S
         /\ Tail(q) \in Seq(S) /\ Len(Tail(q)) = Len(q) - 1
         /\ \A i \in 1..Len(Tail(q)) : Tail(q)[i] = q[i + 1]
  OBVIOUS

LEMMA QueueGrows ==
  ASSUME NEW S, NEW q \in Seq(S), NEW m \in S
  PROVE  /\ Append(q, m) \in Seq(S) /\ Len(Append(q, m)) = Len(q) + 1 /\ Len(q) \in Nat
         /\ Append(q, m)[Len(q) + 1] = m /\ \A i \in 1..Len(q) : Append(q, m)[i] = q[i]
  OBVIOUS

LEMMA ReceiveKeeps == ASSUME SubscriberInv, NEW u \in Subject, Receive(u) PROVE SubscriberInv'
<1> DEFINE m == Head(queue[u])
           h == [bot |-> m.bot, ver |-> m.ver, seg |-> 0, pc |-> "look"]
<1>1. queue \in [Subject -> Seq(Message)] /\ \A v \in Subject : SentWell(v, queue[v])
  BY DEF SubscriberInv, Carried
<1>2. queue[u] # <<>> /\ queue[u] \in Seq([bot : Bot, ver : VersionOf(u)])
  BY <1>1 DEF Receive, SentWell
<1>3. m \in [bot : Bot, ver : VersionOf(u)] /\ Tail(queue[u]) \in Seq(Message)
      /\ SentWell(u, Tail(queue[u]))
  <2>1. queue[u] \in Seq(Message)
    BY <1>1
  <2>2. Tail(queue[u]) \in Seq(Message)
    BY <1>2, <2>1, QueueShifts
  <2>3. m \in [bot : Bot, ver : VersionOf(u)]
          /\ Tail(queue[u]) \in Seq([bot : Bot, ver : VersionOf(u)])
    BY <1>2, QueueShifts
  <2>4. QED
    BY <2>2, <2>3 DEF SentWell
<1>4. MovesTo(u, h) /\ queue' = [queue EXCEPT ![u] = Tail(@)]
      /\ UNCHANGED <<apiVars, up, mongoVars, disturbed, faults>>
  BY DEF Receive, MovesTo
<1> HIDE DEF m
<1>5. h \in HandlerState /\ h.pc = "look" /\ HandledWell(u, h)
  BY <1>3, ConstantsOK DEF HandlerState, HandledWell, VersionOf, StepsOfHandler, Subject
<1> HIDE DEF h
<1>6. queue' \in [Subject -> Seq(Message)] /\ \A v \in Subject : SentWell(v, queue'[v])
  BY <1>1, <1>3, <1>4
<1>7. disturbed' \subseteq Bot /\ faults' \in 0..MaxFaults
  BY <1>4 DEF SubscriberInv, Carried
<1>8. QED
  BY <1>4, <1>5, <1>6, <1>7, IdleStepKeeps

\* What a step that leaves the queues and the histories alone need not show again.
LEMMA Rest ==
  ASSUME SubscriberInv, UNCHANGED <<queue, disturbed, faults>>
  PROVE  /\ queue' \in [Subject -> Seq(Message)] /\ \A v \in Subject : SentWell(v, queue'[v])
         /\ disturbed' \subseteq Bot /\ faults' \in 0..MaxFaults
  BY DEF SubscriberInv, Carried

LEMMA LookKeeps ==
  ASSUME SubscriberInv, handleCreate \/ handleUpdate \/ handleDelete
  PROVE  SubscriberInv'
<1>1. UNCHANGED <<apiVars, up, queue, mongoVars, disturbed, faults>>
  BY DEF handleCreate, handleUpdate, handleDelete
<1>2. ASSUME NEW u \in Subject, MovesTo(u, Waiting) PROVE SubscriberInv'
  <2>1. Waiting.pc = "receive"
    BY DEF Waiting
  <2>2. QED
    BY <1>1, <1>2, <2>1, Rest, AtWork, IdleStepKeeps
<1>3. ASSUME NEW u \in Subject, NEW pc \in {"claim", "set"}, pc \in StepsOfHandler(u),
             handler[u].pc = "look", MovesTo(u, [handler[u] EXCEPT !.pc = pc])
      PROVE  SubscriberInv'
  <2> DEFINE h == [handler[u] EXCEPT !.pc = pc]
  <2>1. HandledWell(u, h)
    BY <1>3, AtWork
  <2>2. h.pc = pc
    BY AtWork DEF HandlerState
  <2>3. MovesTo(u, h)
    BY <1>3
  <2> HIDE DEF h
  <2>4. QED
    BY <1>1, <2>1, <2>2, <2>3, Rest, IdleStepKeeps
<1>4. CASE handleCreate
  <2>1. handler["created"].pc = "look" /\ "created" \in Subject
          /\ "claim" \in StepsOfHandler("created")
    BY <1>4 DEF handleCreate, Subject, StepsOfHandler
  <2>2. \/ MovesTo("created", Waiting)
        \/ MovesTo("created", [handler["created"] EXCEPT !.pc = "claim"])
    BY <1>4 DEF handleCreate, Finish, Goto, MovesTo
  <2>3. QED
    BY <1>2, <1>3, <2>1, <2>2
<1>5. CASE handleUpdate
  <2>1. handler["updated"].pc = "look" /\ "updated" \in Subject
        /\ "claim" \in StepsOfHandler("updated") /\ "set" \in StepsOfHandler("updated")
    BY <1>5 DEF handleUpdate, Subject, StepsOfHandler
  <2>2. \/ MovesTo("updated", [handler["updated"] EXCEPT !.pc = "set"])
        \/ MovesTo("updated", [handler["updated"] EXCEPT !.pc = "claim"])
    BY <1>5 DEF handleUpdate, Finish, Goto, MovesTo
  <2>3. QED
    BY <1>3, <2>1, <2>2
<1>6. CASE handleDelete
  <2> DEFINE g == handler["deleted"]
             h == [g EXCEPT !.pc = "drop", !.seg = doc[g.bot].seg]
  <2>1. g.pc = "look" /\ "deleted" \in Subject
        /\ (MovesTo("deleted", Waiting) \/ (MovesTo("deleted", h) /\ Stored(g.bot)))
    BY <1>6 DEF handleDelete, MovesTo, Subject
  <2>2. CASE MovesTo("deleted", Waiting)
    BY <1>2, <2>1, <2>2
  <2>3. CASE MovesTo("deleted", h) /\ Stored(g.bot)
    <3>1. g \in HandlerState /\ g.bot \in Bot /\ g.ver \in VersionOf("deleted")
      BY <2>1, AtWork
    <3>2. doc[g.bot] \in Doc
      BY <2>3, <3>1 DEF SubscriberInv, Carried, Stored
    <3>3. doc[g.bot].seg \in Partition /\ doc[g.bot].seg \in 0..MaxPartition
      BY <3>2, ConstantsOK DEF Doc, Partition
    <3>4. /\ h \in HandlerState /\ h.pc = "drop" /\ h.bot = g.bot /\ h.ver = g.ver
          /\ h.seg = doc[g.bot].seg
      BY <3>1, <3>3 DEF HandlerState
    <3> HIDE DEF h
    <3>5. HandledWell("deleted", h)
      BY <3>1, <3>3, <3>4 DEF HandledWell, StepsOfHandler
    <3>6. h.bot \in BotsIn(h.seg)
      BY <2>3, <3>1, <3>4 DEF BotsIn
    <3>7. QED
      BY <1>1, <2>1, <2>3, <3>4, <3>5, <3>6, Rest, IdleStepKeeps
  <2>4. QED
    BY <2>1, <2>2, <2>3
<1>7. QED
  BY <1>4, <1>5, <1>6

LEMMA NoRoomKeeps == ASSUME SubscriberInv, NEW u \in Subject, NoRoom(u) PROVE SubscriberInv'
<1> DEFINE h == [handler[u] EXCEPT !.pc = "number"]
<1>1. UNCHANGED <<apiVars, up, queue, mongoVars, disturbed, faults>> /\ MovesTo(u, h)
      /\ handler[u].pc = "claim"
  BY DEF NoRoom, Goto, MovesTo
<1>2. "number" \in StepsOfHandler(u)
  BY <1>1, AtWork DEF StepsOfHandler, Subject
<1>3. HandledWell(u, h) /\ h.pc = "number"
  BY <1>1, <1>2, AtWork DEF HandlerState
<1> HIDE DEF h
<1>4. QED
  BY <1>1, <1>3, Rest, IdleStepKeeps

LEMMA HandlerFailsKeeps ==
  ASSUME SubscriberInv, NEW u \in Subject, HandlerFails(u)
  PROVE  SubscriberInv'
<1>1. /\ UNCHANGED <<apiVars, up, queue, mongoVars>> /\ MovesTo(u, Waiting)
      /\ handler[u].pc # "receive" /\ disturbed' = disturbed \cup {handler[u].bot} /\ Fault
  BY DEF HandlerFails, Finish, MovesTo
<1>2. disturbed' \subseteq Bot /\ faults' \in 0..MaxFaults
  BY <1>1, AtWork, ConstantsOK DEF Fault, SubscriberInv, Carried
<1>3. queue' \in [Subject -> Seq(Message)] /\ \A v \in Subject : SentWell(v, queue'[v])
  BY <1>1 DEF SubscriberInv, Carried
<1>4. Waiting.pc = "receive"
  BY DEF Waiting
<1>5. QED
  BY <1>1, <1>2, <1>3, <1>4, AtWork, IdleStepKeeps

\* Handler u goes on to h with a step that changes MongoDB only.
LEMMA MongoStepCarries ==
  ASSUME SubscriberInv, NEW u \in Subject, NEW h, MovesTo(u, h), HandledWell(u, h),
         UNCHANGED <<apiVars, up, queue, disturbed, faults>>, doc' \in [Bot -> Doc \cup {NoDoc}]
  PROVE  /\ Carried'
         /\ handler' \in [Subject -> HandlerState] /\ handler'[u] = h
         /\ \A v \in Subject \ {u} : handler'[v] = handler[v]
<1>1. /\ handler' \in [Subject -> HandlerState] /\ handler'[u] = h
      /\ \A v \in Subject \ {u} : handler'[v] = handler[v]
      /\ \A v \in Subject : HandledWell(v, handler'[v])
  BY HandlerGoesOn
<1>2. QED
  BY <1>1 DEF SubscriberInv, Carried, apiVars

LEMMA ClaimKeeps == ASSUME SubscriberInv, NEW u \in Subject, ClaimPartition(u) PROVE SubscriberInv'
<1>1. PICK p \in Roomy :
        /\ count' = [count EXCEPT ![p] = @ + 1]
        /\ handler' = [handler EXCEPT ![u].pc = "upsert", ![u].seg = p]
  BY DEF ClaimPartition
<1> DEFINE h == [handler[u] EXCEPT !.pc = "upsert", !.seg = p]
<1>2. UNCHANGED <<apiVars, up, queue, doc, made, seq, disturbed, faults>>
      /\ handler[u].pc = "claim" /\ p \in made /\ count[p] < Cap
  BY <1>1 DEF ClaimPartition, Roomy
<1>3. p \in Partition /\ p \in 0..MaxPartition /\ made \subseteq Partition
  BY <1>2, ConstantsOK DEF SubscriberInv, Numbered, Partition
<1>4. h \in HandlerState /\ h.pc = "upsert" /\ h.seg = p /\ h.bot = handler[u].bot
      /\ h.ver = handler[u].ver
  BY <1>3, AtWork DEF HandlerState
<1>5. MovesTo(u, h)
  BY <1>1 DEF MovesTo, SubscriberInv, Carried
<1> HIDE DEF h
<1>6. HandledWell(u, h)
  <2>1. handler[u].bot \in Bot /\ handler[u].ver \in VersionOf(u) /\ "claim" \in StepsOfHandler(u)
    BY <1>2, AtWork
  <2>2. "upsert" \in StepsOfHandler(u)
    BY <2>1 DEF StepsOfHandler, Subject
  <2>3. QED
    BY <1>3, <1>4, <2>1, <2>2 DEF HandledWell
<1>7. doc' \in [Bot -> Doc \cup {NoDoc}]
  BY <1>2 DEF SubscriberInv, Carried
<1>8. /\ Carried'
      /\ handler' \in [Subject -> HandlerState] /\ handler'[u] = h
      /\ \A v \in Subject \ {u} : handler'[v] = handler[v]
  BY <1>2, <1>5, <1>6, <1>7, MongoStepCarries
<1>9. Numbered'
  BY <1>2, <1>4, <1>8 DEF SubscriberInv, Numbered
<1>10. count' \in [Partition -> Nat] /\ count'[p] = count[p] + 1
       /\ \A q \in Partition \ {p} : count'[q] = count[q]
  BY <1>1, <1>3 DEF SubscriberInv
<1>11. \A q \in Partition : BotsIn(q)' = BotsIn(q)
  BY <1>2 DEF BotsIn, Stored
<1>12. Fits(p)'
  <2>1. Holding(p)' \subseteq Holding(p) \cup {u}
    BY <1>8, <1>11, <1>3 DEF Holding
  <2>2. /\ Cardinality(Holding(p)') <= Cardinality(Holding(p)) + 1
        /\ Cardinality(Holding(p)') \in Nat /\ Cardinality(Holding(p)) \in Nat
    BY <2>1, HoldingIsFinite, OneMore
  <2>3. Fits(p) /\ count[p] \in Nat /\ Cardinality(BotsIn(p)) \in Nat
    BY <1>3, FS_CardinalityType DEF SubscriberInv, Fits
  <2>4. Cap \in Nat /\ Cardinality(BotsIn(p)') = Cardinality(BotsIn(p))
        /\ IsFiniteSet(BotsIn(p)')
    BY <1>3, <1>11, <2>3, ConstantsOK DEF Fits
  <2>5. QED
    BY <1>2, <1>10, <2>2, <2>3, <2>4 DEF Fits
<1>13. ASSUME NEW q \in Partition \ {p} PROVE Fits(q)'
  <2>1. Holding(q)' \subseteq Holding(q)
    BY <1>4, <1>8, <1>11 DEF Holding
  <2>2. QED
    BY <1>2, <1>10, <1>11, <2>1, FewerKeep DEF SubscriberInv
<1>14. QED
  BY <1>8, <1>9, <1>10, <1>12, <1>13 DEF SubscriberInv

LEMMA NumberKeeps ==
  ASSUME SubscriberInv, NEW u \in Subject, getNextSequenceValue(u)
  PROVE  SubscriberInv'
<1> DEFINE h == [handler[u] EXCEPT !.pc = "insert", !.seg = seq + 1]
<1>1. /\ UNCHANGED <<apiVars, up, queue, doc, made, count, disturbed, faults>>
      /\ handler[u].pc = "number" /\ seq' = seq + 1 /\ seq < MaxPartition
      /\ handler' = [handler EXCEPT ![u].pc = "insert", ![u].seg = seq + 1]
  BY DEF getNextSequenceValue
<1>2. seq \in Nat /\ seq + 1 \in Partition /\ seq + 1 \in 0..MaxPartition /\ made \subseteq 1..seq
      /\ seq' \in 0..MaxPartition
  BY <1>1, ConstantsOK DEF SubscriberInv, Numbered, Partition
<1>3. h \in HandlerState /\ h.pc = "insert" /\ h.seg = seq + 1 /\ h.bot = handler[u].bot
      /\ h.ver = handler[u].ver
  BY <1>2, AtWork DEF HandlerState
<1>4. MovesTo(u, h)
  BY <1>1 DEF MovesTo, SubscriberInv, Carried
<1> HIDE DEF h
<1>5. HandledWell(u, h)
  <2>1. handler[u].bot \in Bot /\ handler[u].ver \in VersionOf(u) /\ "number" \in StepsOfHandler(u)
    BY <1>1, AtWork
  <2>2. "insert" \in StepsOfHandler(u)
    BY <2>1 DEF StepsOfHandler, Subject
  <2>3. QED
    BY <1>2, <1>3, <2>1, <2>2 DEF HandledWell
<1>6. doc' \in [Bot -> Doc \cup {NoDoc}]
  BY <1>1 DEF SubscriberInv, Carried
<1>7. /\ Carried'
      /\ handler' \in [Subject -> HandlerState] /\ handler'[u] = h
      /\ \A v \in Subject \ {u} : handler'[v] = handler[v]
  BY <1>1, <1>4, <1>5, <1>6, MongoStepCarries
<1>8. Numbered'
  <2>1. made' \subseteq 1..seq'
    BY <1>1, <1>2
  <2>2. ASSUME NEW v \in Subject, handler'[v].pc = "insert"
          PROVE handler'[v].seg \in (1..seq') \ made'
    BY <1>1, <1>2, <1>3, <1>7, <2>2 DEF SubscriberInv, Numbered
  <2>3. \A v \in Subject \ {u} : handler[v].pc = "insert" => handler[v].seg # seq + 1
    BY <1>2 DEF SubscriberInv, Numbered
  <2>4. \A v, w \in Subject :
          handler'[v].pc = "insert" /\ handler'[w].pc = "insert"
            /\ handler'[v].seg = handler'[w].seg
            => v = w
    BY <1>3, <1>7, <2>3 DEF SubscriberInv, Numbered
  <2>5. QED
    BY <1>2, <2>1, <2>2, <2>4 DEF Numbered
<1>9. ASSUME NEW q \in Partition PROVE Fits(q)'
  <2>1. BotsIn(q)' = BotsIn(q)
    BY <1>1 DEF BotsIn, Stored
  <2>2. Holding(q)' \subseteq Holding(q)
    BY <1>3, <1>7, <2>1 DEF Holding
  <2>3. QED
    BY <1>1, <2>1, <2>2, FewerKeep DEF SubscriberInv
<1>10. count' \in [Partition -> Nat]
  BY <1>1 DEF SubscriberInv
<1>11. QED
  BY <1>7, <1>8, <1>9, <1>10 DEF SubscriberInv

LEMMA InsertKeeps ==
  ASSUME SubscriberInv, NEW u \in Subject, InsertPartition(u)
  PROVE  SubscriberInv'
<1>1. handler[u].pc = "insert" /\ handler[u].seg \in Partition
  BY AtWork DEF InsertPartition, HandledWell
<1>2. PICK p \in Partition : p = handler[u].seg
  BY <1>1
<1> DEFINE h == [handler[u] EXCEPT !.pc = "upsert"]
<1>3. /\ UNCHANGED <<apiVars, up, queue, doc, seq, disturbed, faults>>
      /\ made' = made \cup {p}
      /\ count' = [count EXCEPT ![p] = 1] /\ MovesTo(u, h)
  BY <1>2 DEF InsertPartition, Goto, MovesTo
<1>4. p \in 1..seq /\ p \notin made
  BY <1>1, <1>2 DEF SubscriberInv, Numbered
<1>5. h.pc = "upsert" /\ h.seg = p
  BY <1>2, AtWork DEF HandlerState
<1>6. HandledWell(u, h)
  <2>1. "insert" \in StepsOfHandler(u)
    BY <1>1, AtWork
  <2>2. "upsert" \in StepsOfHandler(u)
    BY <2>1 DEF StepsOfHandler, Subject
  <2>3. QED
    BY <1>1, <1>2, <2>2, AtWork
<1>7. doc' \in [Bot -> Doc \cup {NoDoc}]
  BY <1>3 DEF SubscriberInv, Carried
<1> HIDE DEF h
<1>8. /\ Carried'
      /\ handler' \in [Subject -> HandlerState] /\ handler'[u] = h
      /\ \A v \in Subject \ {u} : handler'[v] = handler[v]
  BY <1>3, <1>6, <1>7, MongoStepCarries
<1>9. Numbered'
  <2>1. \A v \in Subject \ {u} : handler[v].pc = "insert" => handler[v].seg # p
    BY <1>1, <1>2 DEF SubscriberInv, Numbered
  <2>2. QED
    BY <1>3, <1>4, <1>5, <1>8, <2>1 DEF SubscriberInv, Numbered
<1>10. count' \in [Partition -> Nat] /\ count'[p] = 1
       /\ \A q \in Partition \ {p} : count'[q] = count[q]
  BY <1>3 DEF SubscriberInv
<1>11. \A q \in Partition : BotsIn(q)' = BotsIn(q)
  BY <1>3 DEF BotsIn, Stored
<1>12. Fits(p)'
  <2>1. Holding(p)' \subseteq Holding(p) \cup {u}
    BY <1>8, <1>11 DEF Holding
  <2>2. /\ Cardinality(Holding(p)') <= Cardinality(Holding(p)) + 1
        /\ Cardinality(Holding(p)') \in Nat /\ Cardinality(Holding(p)) \in Nat
    BY <2>1, HoldingIsFinite, OneMore
  <2>3. Fits(p) /\ count[p] = 0 /\ Cardinality(BotsIn(p)) \in Nat
    BY <1>4, FS_CardinalityType DEF SubscriberInv, Fits
  <2>4. Cap \in Nat \ {0} /\ Cardinality(BotsIn(p)') = Cardinality(BotsIn(p))
        /\ IsFiniteSet(BotsIn(p)')
    BY <1>11, <2>3, ConstantsOK DEF Fits
  <2>5. p \in made'
    BY <1>3
  <2>6. QED
    BY <1>10, <2>2, <2>3, <2>4, <2>5 DEF Fits
<1>13. ASSUME NEW q \in Partition \ {p} PROVE Fits(q)'
  <2>1. Holding(q)' \subseteq Holding(q)
    BY <1>5, <1>8, <1>11 DEF Holding
  <2>2. q \notin made' => q \notin made
    BY <1>3
  <2>3. QED
    BY <1>10, <1>11, <2>1, <2>2, FewerKeep DEF SubscriberInv
<1>14. QED
  BY <1>8, <1>9, <1>10, <1>12, <1>13 DEF SubscriberInv

LEMMA UpsertKeeps == ASSUME SubscriberInv, NEW u \in Subject, upsertBot(u) PROVE SubscriberInv'
<1>1. handler[u].pc = "upsert" /\ handler[u].seg \in Partition /\ handler[u].bot \in Bot
      /\ handler[u].ver \in VersionOf(u) /\ u # "deleted"
  BY AtWork DEF upsertBot, HandledWell, StepsOfHandler
<1>2. PICK p \in Partition, b \in Bot : p = handler[u].seg /\ b = handler[u].bot
  BY <1>1
<1>3. /\ UNCHANGED <<apiVars, up, queue, made, count, seq, disturbed, faults>>
      /\ doc' = [doc EXCEPT ![b] = [ver |-> handler[u].ver, seg |-> p]] /\ MovesTo(u, Waiting)
  BY <1>2 DEF upsertBot, Finish, MovesTo
<1>4. [ver |-> handler[u].ver, seg |-> p] \in Doc
  BY <1>1 DEF Doc, VersionOf
<1>5. /\ doc' \in [Bot -> Doc \cup {NoDoc}] /\ doc'[b] \in Doc /\ doc'[b].seg = p
      /\ \A c \in Bot \ {b} : doc'[c] = doc[c]
  BY <1>3, <1>4 DEF SubscriberInv, Carried
<1>6. Waiting.pc = "receive" /\ HandledWell(u, Waiting)
  BY AtWork DEF Waiting
<1>7. /\ Carried'
      /\ handler' \in [Subject -> HandlerState] /\ handler'[u] = Waiting
      /\ \A v \in Subject \ {u} : handler'[v] = handler[v]
  BY <1>3, <1>5, <1>6, MongoStepCarries
<1>8. Numbered'
  BY <1>3, <1>6, <1>7 DEF SubscriberInv, Numbered
<1>9. NoDoc \notin Doc
  BY ConstantsOK DEF Doc
<1>10. BotsIn(p)' = BotsIn(p) \cup {b} /\ \A q \in Partition \ {p} : BotsIn(q)' = BotsIn(q) \ {b}
  BY <1>5, <1>9 DEF BotsIn, Stored
<1>11. ASSUME NEW v \in Subject, handler[v].pc = "drop" PROVE v = "deleted"
  BY <1>11, AtWork DEF StepsOfHandler, Subject
<1>12. Fits(p)'
  <2>1. u \in Holding(p)
    BY <1>1, <1>2 DEF Holding
  <2>2. Holding(p)' \subseteq Holding(p) \ {u}
    BY <1>6, <1>7, <1>10 DEF Holding
  <2>3. QED
    BY <1>3, <1>10, <2>1, <2>2, PlaceIsTaken DEF SubscriberInv
<1>13. ASSUME NEW q \in Partition \ {p} PROVE Fits(q)'
  <2>1. CASE b \in BotsIn(q)
    <3>1. Holding(q)' \subseteq Holding(q) \cup {"deleted"}
      BY <1>6, <1>7, <1>10, <1>11 DEF Holding
    <3>2. QED
      BY <1>3, <1>10, <2>1, <3>1, PlaceIsKept DEF SubscriberInv
  <2>2. CASE b \notin BotsIn(q)
    <3>1. BotsIn(q)' = BotsIn(q)
      BY <1>10, <2>2
    <3>2. Holding(q)' \subseteq Holding(q)
      BY <1>6, <1>7, <3>1 DEF Holding
    <3>3. QED
      BY <1>3, <3>1, <3>2, FewerKeep DEF SubscriberInv
  <2>3. QED
    BY <2>1, <2>2
<1>14. count' \in [Partition -> Nat]
  BY <1>3 DEF SubscriberInv
<1>15. QED
  BY <1>7, <1>8, <1>12, <1>13, <1>14 DEF SubscriberInv

LEMMA SetBotKeeps == ASSUME SubscriberInv, SetBot PROVE SubscriberInv'
<1> DEFINE u == "updated"
<1>1. u \in Subject /\ handler[u].pc = "set" /\ handler[u].bot \in Bot
      /\ handler[u].ver \in VersionOf(u)
  BY AtWork DEF SetBot, Subject
<1>2. PICK b \in Bot : b = handler[u].bot
  BY <1>1
<1>3. /\ UNCHANGED <<apiVars, up, queue, made, count, seq, disturbed, faults>>
      /\ MovesTo(u, Waiting)
      /\ doc' = [doc EXCEPT ![b] = IF @ = NoDoc THEN NoDoc ELSE [@ EXCEPT !.ver = handler[u].ver]]
  BY <1>2 DEF SetBot, Finish, MovesTo
<1>4. /\ doc' \in [Bot -> Doc \cup {NoDoc}] /\ \A c \in Bot : (doc'[c] = NoDoc <=> doc[c] = NoDoc)
      /\ \A c \in Bot : doc[c] # NoDoc => doc'[c].seg = doc[c].seg
  <2>1. handler[u].ver \in Version /\ doc \in [Bot -> Doc \cup {NoDoc}] /\ NoDoc \notin Doc
    BY <1>1, ConstantsOK DEF SubscriberInv, Carried, VersionOf, Doc
  <2>2. doc[b] # NoDoc =>
          /\ [doc[b] EXCEPT !.ver = handler[u].ver] \in Doc
          /\ [doc[b] EXCEPT !.ver = handler[u].ver].seg = doc[b].seg
    BY <2>1 DEF Doc
  <2>3. doc'[b] = IF doc[b] = NoDoc THEN NoDoc ELSE [doc[b] EXCEPT !.ver = handler[u].ver]
    BY <1>3, <2>1
  <2>4. doc' \in [Bot -> Doc \cup {NoDoc}] /\ \A c \in Bot \ {b} : doc'[c] = doc[c]
    BY <1>3, <2>1, <2>2
  <2>5. QED
    BY <2>1, <2>2, <2>3, <2>4
<1>5. Waiting.pc = "receive" /\ HandledWell(u, Waiting)
  BY <1>1, AtWork DEF Waiting
<1> HIDE DEF u
<1>6. /\ Carried'
      /\ handler' \in [Subject -> HandlerState] /\ handler'[u] = Waiting
      /\ \A v \in Subject \ {u} : handler'[v] = handler[v]
  BY <1>1, <1>3, <1>4, <1>5, MongoStepCarries
<1>7. Numbered'
  BY <1>3, <1>5, <1>6 DEF SubscriberInv, Numbered
<1>8. ASSUME NEW p \in Partition PROVE Fits(p)'
  <2>1. BotsIn(p)' = BotsIn(p)
    BY <1>4 DEF BotsIn, Stored
  <2>2. Holding(p)' \subseteq Holding(p)
    BY <1>5, <1>6, <2>1 DEF Holding
  <2>3. QED
    BY <1>3, <2>1, <2>2, FewerKeep DEF SubscriberInv
<1>9. count' \in [Partition -> Nat]
  BY <1>3 DEF SubscriberInv
<1>10. QED
  BY <1>6, <1>7, <1>8, <1>9 DEF SubscriberInv

LEMMA DeleteBotKeeps == ASSUME SubscriberInv, DeleteBot PROVE SubscriberInv'
<1> DEFINE u == "deleted"
           h == [handler[u] EXCEPT !.pc = "decrement"]
<1>1. u \in Subject /\ handler[u].pc = "drop" /\ handler[u].bot \in Bot
      /\ handler[u].seg \in Partition
  BY AtWork DEF DeleteBot, Subject, HandledWell
<1>2. PICK b \in Bot, p \in Partition : b = handler[u].bot /\ p = handler[u].seg
  BY <1>1
<1>3. /\ UNCHANGED <<apiVars, up, queue, made, count, seq, disturbed, faults>>
      /\ MovesTo(u, h) /\ doc' = [doc EXCEPT ![b] = NoDoc]
  BY <1>2 DEF DeleteBot, Goto, MovesTo
<1>4. doc' \in [Bot -> Doc \cup {NoDoc}] /\ doc'[b] = NoDoc /\ \A c \in Bot \ {b} : doc'[c] = doc[c]
  BY <1>3 DEF SubscriberInv, Carried
<1>5. HandledWell(u, h) /\ h.pc = "decrement" /\ h.seg = p
  <2>1. "decrement" \in StepsOfHandler(u)
    BY DEF StepsOfHandler
  <2>2. QED
    BY <1>1, <1>2, <2>1, AtWork DEF HandlerState
<1> HIDE DEF u, h
<1>6. /\ Carried'
      /\ handler' \in [Subject -> HandlerState] /\ handler'[u] = h
      /\ \A v \in Subject \ {u} : handler'[v] = handler[v]
  BY <1>1, <1>3, <1>4, <1>5, MongoStepCarries
<1>7. Numbered'
  BY <1>3, <1>5, <1>6 DEF SubscriberInv, Numbered
<1>8. \A q \in Partition : BotsIn(q)' = BotsIn(q) \ {b}
  BY <1>4 DEF BotsIn, Stored
<1>9. ASSUME NEW v \in Subject, handler[v].pc = "drop" PROVE v = u
  BY <1>9, AtWork DEF StepsOfHandler, Subject, u
<1>10. \A q \in Partition : Holding(q)' \subseteq Holding(q) \cup (IF q = p THEN {u} ELSE {})
  BY <1>5, <1>6, <1>8, <1>9 DEF Holding
<1>11. ASSUME NEW q \in Partition PROVE Fits(q)'
  <2>1. CASE q = p /\ b \in BotsIn(p)
    <3>1. Holding(q)' \subseteq Holding(q) \cup {u}
      BY <1>10, <2>1
    <3>2. QED
      BY <1>3, <1>8, <2>1, <3>1, PlaceIsKept DEF SubscriberInv
  <2>2. CASE q # p \/ b \notin BotsIn(p)
    <3>1. q = p => u \in Holding(q)
      BY <1>1, <1>2, <2>2 DEF Holding
    <3>2. Holding(q)' \subseteq Holding(q)
      BY <1>10, <3>1
    <3>3. BotsIn(q)' \subseteq BotsIn(q)
      BY <1>8
    <3>4. QED
      BY <1>3, <3>2, <3>3, FewerKeep DEF SubscriberInv
  <2>3. QED
    BY <2>1, <2>2
<1>12. count' \in [Partition -> Nat]
  BY <1>3 DEF SubscriberInv
<1>13. QED
  BY <1>6, <1>7, <1>11, <1>12 DEF SubscriberInv

LEMMA DecrementKeeps == ASSUME SubscriberInv, DecrementPartition PROVE SubscriberInv'
<1> DEFINE u == "deleted"
<1>1. u \in Subject /\ handler[u].pc = "decrement" /\ handler[u].seg \in Partition
  BY AtWork DEF DecrementPartition, Subject, HandledWell
<1>2. PICK p \in Partition : p = handler[u].seg
  BY <1>1
<1>3. /\ UNCHANGED <<apiVars, up, queue, doc, made, seq, disturbed, faults>>
      /\ MovesTo(u, Waiting) /\ count' = [count EXCEPT ![p] = @ - 1]
  BY <1>2 DEF DecrementPartition, Finish, MovesTo
<1>4. doc' \in [Bot -> Doc \cup {NoDoc}]
  BY <1>3 DEF SubscriberInv, Carried
<1>5. Waiting.pc = "receive" /\ HandledWell(u, Waiting)
  BY <1>1, AtWork DEF Waiting
<1> HIDE DEF u
<1>6. /\ Carried'
      /\ handler' \in [Subject -> HandlerState] /\ handler'[u] = Waiting
      /\ \A v \in Subject \ {u} : handler'[v] = handler[v]
  BY <1>1, <1>3, <1>4, <1>5, MongoStepCarries
<1>7. Numbered'
  BY <1>3, <1>5, <1>6 DEF SubscriberInv, Numbered
<1>8. \A q \in Partition : BotsIn(q)' = BotsIn(q)
  BY <1>3 DEF BotsIn, Stored
<1>9. u \in Holding(p) /\ Holding(p)' \subseteq Holding(p) \ {u}
      /\ \A q \in Partition : Holding(q)' \subseteq Holding(q)
  BY <1>1, <1>2, <1>5, <1>6, <1>8 DEF Holding
<1>10. /\ Cardinality(Holding(p)') + 1 <= Cardinality(Holding(p))
       /\ Cardinality(Holding(p)') \in Nat /\ Cardinality(Holding(p)) \in Nat
  BY <1>9, HoldingIsFinite, OneFewer
<1>11. Fits(p) /\ count[p] \in Nat /\ Cardinality(BotsIn(p)) \in Nat
  BY FS_CardinalityType DEF SubscriberInv, Fits
<1>12. count[p] - 1 \in Nat
  BY <1>10, <1>11 DEF Fits
<1>13. count' \in [Partition -> Nat] /\ count'[p] = count[p] - 1
       /\ \A q \in Partition \ {p} : count'[q] = count[q]
  BY <1>3, <1>12 DEF SubscriberInv
<1>14. Fits(p)'
  <2>1. Cap \in Nat /\ Cardinality(BotsIn(p)') = Cardinality(BotsIn(p)) /\ IsFiniteSet(BotsIn(p)')
    BY <1>8, <1>11, ConstantsOK DEF Fits
  <2>2. p \in made' <=> p \in made
    BY <1>3
  <2>3. QED
    BY <1>10, <1>11, <1>12, <1>13, <2>1, <2>2 DEF Fits
<1>15. ASSUME NEW q \in Partition \ {p} PROVE Fits(q)'
  BY <1>3, <1>8, <1>9, <1>13, FewerKeep DEF SubscriberInv
<1>16. QED
  BY <1>6, <1>7, <1>13, <1>14, <1>15 DEF SubscriberInv

-----------------------------------------------------------------------------
LEMMA RestartKeeps == ASSUME SubscriberInv, Stop \/ Start PROVE SubscriberInv'
<1>1. CASE Stop
  <2>1. /\ UNCHANGED <<apiVars, mongoVars>> /\ up' = FALSE /\ Fault
        /\ queue' = [u \in Subject |-> <<>>] /\ handler' = [u \in Subject |-> Waiting]
        /\ disturbed' \subseteq disturbed \cup Bot
    BY <1>1 DEF Stop
  <2>2. /\ handler' \in [Subject -> HandlerState] /\ Waiting.pc = "receive"
        /\ \A u \in Subject : HandledWell(u, handler'[u])
    BY <2>1, AtWork DEF HandledWell, Waiting
  <2>3. faults' \in 0..MaxFaults /\ disturbed' \subseteq Bot
    BY <2>1, ConstantsOK DEF Fault, SubscriberInv, Carried
  <2>4. queue' \in [Subject -> Seq(Message)] /\ \A u \in Subject : SentWell(u, queue'[u])
    <3>1. <<>> \in Seq(Message) /\ \A u \in Subject : <<>> \in Seq([bot : Bot, ver : VersionOf(u)])
      OBVIOUS
    <3>2. QED
      BY <2>1, <3>1 DEF SentWell
  <2>5. Carried'
    BY <2>1, <2>2, <2>3, <2>4 DEF SubscriberInv, Carried, apiVars, mongoVars
  <2>6. Numbered'
    BY <2>1, <2>2 DEF SubscriberInv, Numbered, mongoVars
  <2>7. ASSUME NEW p \in Partition PROVE Fits(p)'
    <3>1. BotsIn(p)' = BotsIn(p) /\ count'[p] = count[p] /\ made' = made
      BY <2>1 DEF BotsIn, Stored, mongoVars
    <3>2. Holding(p)' \subseteq Holding(p)
      BY <2>1, <2>2 DEF Holding
    <3>3. QED
      BY <3>1, <3>2, FewerKeep DEF SubscriberInv
  <2>8. QED
    BY <2>1, <2>5, <2>6, <2>7 DEF SubscriberInv, mongoVars
<1>2. CASE Start
  <2>1. Carried' /\ UNCHANGED <<mongoVars, handler>>
    BY <1>2 DEF Start, SubscriberInv, Carried, apiVars, mongoVars
  <2>2. QED
    BY <2>1, Quiet
<1>3. QED
  BY <1>1, <1>2

LEMMA ArrivalKeeps ==
  ASSUME SubscriberInv, NEW k \in Call, NEW b \in Bot, NEW v \in Version,
         create(k, b, v) \/ update(k, b, v) \/ remove(k, b)
  PROVE  SubscriberInv'
<1>1. UNCHANGED <<up, queue, handler, mongoVars, faults>>
      /\ api' \in [Bot -> Version \cup {NoVersion, Deleted}]
  BY DEF create, update, remove, SubscriberInv, Carried
<1>2. \/ Begin(k, "created", b, v, "publish")
      \/ Begin(k, "updated", b, v, "store")
      \/ Begin(k, "deleted", b, NoVersion, "store")
  BY DEF create, update, remove
<1>3. /\ "created" \in Subject /\ "updated" \in Subject /\ "deleted" \in Subject
      /\ v \in VersionOf("created") /\ v \in VersionOf("updated")
           /\ NoVersion \in VersionOf("deleted")
  BY DEF Subject, VersionOf
<1>4. QED
  BY <1>1, <1>2, <1>3, BeginKeeps

LEMMA SubscriberStep == SubscriberInv /\ [Next]_vars => SubscriberInv'
<1> SUFFICES ASSUME SubscriberInv, [Next]_vars PROVE SubscriberInv'
  OBVIOUS
<1>1. CASE UNCHANGED vars
  <2>1. Carried' /\ UNCHANGED <<mongoVars, handler>>
    BY <1>1 DEF vars, SubscriberInv, Carried, mongoVars
  <2>2. QED
    BY <2>1, Quiet
<1>2. ASSUME NEW k \in Call, Request(k) PROVE SubscriberInv'
  BY <1>2, StoreKeeps, RereadKeeps, PublishKeeps, UnpublishedKeeps DEF Request
<1>3. ASSUME NEW k \in Call, NEW b \in Bot, remove(k, b) PROVE SubscriberInv'
  <2>1. PICK v \in Version : TRUE
    BY <1>3 DEF remove
  <2>2. QED
    BY <1>3, <2>1, ArrivalKeeps
<1>4. CASE Requests
  BY <1>2, <1>3, <1>4, ArrivalKeeps DEF Requests
<1>5. CASE Handlers
  BY <1>5, ReceiveKeeps, ClaimKeeps, NoRoomKeeps, NumberKeeps, InsertKeeps, UpsertKeeps,
     HandlerFailsKeeps, LookKeeps, SetBotKeeps, DeleteBotKeeps, DecrementKeeps DEF Handlers
<1>6. QED
  BY <1>1, <1>4, <1>5, RestartKeeps DEF Next

LEMMA SubscriberInvariant == Spec => []SubscriberInv
  BY SubscriberStarts, SubscriberStep, PTL DEF Spec

\* Every variable has its type; for the partitions' counts that takes the whole of SubscriberInv:
\* a decrement never makes one negative, an increment never exceeds the capacity.
THEOREM SubscriberTypeCorrect == Spec => []TypeOK
<1>1. ASSUME SubscriberInv PROVE TypeOK
  <2>1. made \subseteq Partition
    BY <1>1, ConstantsOK DEF SubscriberInv, Numbered, Partition
  <2>2. QED
    BY <1>1, <2>1 DEF SubscriberInv, Carried, Numbered, TypeOK
<1>2. QED
  BY <1>1, SubscriberInvariant, PTL

\* The handlers of created, updated and deleted events claim and give back places of a partition
\* in several writes each, which other handlers, redelivered messages and restarts interleave with:
\* no partition ever holds more bots than it is counted for, nor is counted for more than fit.
THEOREM NoPlaceFreedTwice == Spec => []CountsCoverBots
<1>1. ASSUME SubscriberInv PROVE CountsCoverBots
  <2>1. ASSUME NEW p \in Partition
        PROVE  Cardinality(BotsIn(p)) <= count[p] /\ count[p] <= Cap
    <3>1. Fits(p) /\ count[p] \in Nat
      BY <1>1 DEF SubscriberInv
    <3>2. Cardinality(BotsIn(p)) \in Nat /\ Cardinality(Holding(p)) \in Nat
      BY <3>1, HoldingIsFinite, FS_CardinalityType DEF Fits
    <3>3. QED
      BY <3>1, <3>2 DEF Fits
  <2>2. QED
    BY <2>1 DEF CountsCoverBots
<1>2. QED
  BY <1>1, SubscriberInvariant, PTL

-----------------------------------------------------------------------------
(* Where the last change of a bot is.                                          *)

\* No call to the API, no message under way and no handler is about bot b.
NoCalls(b)    == \A k \in Call : call[k].bot # b
NoMessages(b) == \A u \in Subject : \A i \in 1..Len(queue[u]) : queue[u][i].bot # b
NoHandlers(b) == \A u \in Subject : handler[u].bot # b

\* An event of subject u with version v still makes MongoDB agree with the API.
Due(b, u, v) ==
  CASE u = "created" -> api[b] = v /\ v \in Version /\ ~Stored(b)
    [] u = "updated" -> api[b] = v /\ v \in Version /\ Stored(b)
    [] u = "deleted" -> api[b] = Deleted /\ Stored(b)

\* Nothing about bot b is under way, and MongoDB agrees with the API.
Still(b) == NoCalls(b) /\ NoMessages(b) /\ NoHandlers(b) /\ Agree(b)

\* All that is under way about bot b is call k: it has nothing stored yet, or what it stored
\* is still to be published.
OnlyCall(b, k) == call[k].bot = b /\ \A j \in Call : call[j].bot = b => j = k
AskedFor(b, k) ==
  IF call[k].pc = "store" THEN call[k].op # "created" /\ Stored(b) /\ Agree(b)
  ELSE /\ Due(b, call[k].op, call[k].ver)
       /\ call[k].pc = "reread" => call[k].op = "updated"
InCall(b, k) == OnlyCall(b, k) /\ NoMessages(b) /\ NoHandlers(b) /\ AskedFor(b, k)

\* All that is under way about bot b is message i of subject u, and it is due.
OnlyMessage(b, u, i) ==
  /\ i \in 1..Len(queue[u]) /\ queue[u][i].bot = b
  /\ \A v \in Subject : \A j \in 1..Len(queue[v]) : queue[v][j].bot = b => v = u /\ j = i
InQueue(b, u, i) ==
  OnlyMessage(b, u, i) /\ NoCalls(b) /\ NoHandlers(b) /\ Due(b, u, queue[u][i].ver)

\* All that is under way about bot b is the handler of subject u, with a message that is due
\* or, when it only has a count to correct, was.
OnlyHandler(b, u) == handler[u].bot = b /\ \A v \in Subject : handler[v].bot = b => v = u
DoneBy(b, u) ==
  IF handler[u].pc = "decrement" THEN api[b] = Deleted /\ ~Stored(b)
  ELSE /\ Due(b, u, handler[u].ver)
       /\ u = "updated" => handler[u].pc \in {"look", "set"}
InHandler(b, u) == OnlyHandler(b, u) /\ NoCalls(b) /\ NoMessages(b) /\ DoneBy(b, u)

\* The last change of bot b is in one place at most, from where it still reaches MongoDB.
OnCourse(b) ==
  \/ Still(b)
  \/ \E k \in Call : InCall(b, k)
  \/ \E u \in Subject : \E i \in 1..Len(queue[u]) : InQueue(b, u, i)
  \/ \E u \in Subject : InHandler(b, u)

\* The inductive invariant of the agreement: but for lost, failed and overlapping requests.
AgreementInv == \A b \in Bot : b \in disturbed \/ OnCourse(b)

\* Steps that do not concern a bot.
QueueApart(b) ==
  /\ NoMessages(b) => NoMessages(b)'
  /\ \A u \in Subject : \A i \in 1..Len(queue[u]) :
       OnlyMessage(b, u, i) =>
         \E j \in 1..Len(queue'[u]) : OnlyMessage(b, u, j)' /\ queue'[u][j] = queue[u][i]
CallsApart(b) == \A k \in Call : call[k].bot = b \/ call'[k].bot = b => call'[k] = call[k]
HandlersApart(b) ==
  \A u \in Subject : handler[u].bot = b \/ handler'[u].bot = b => handler'[u] = handler[u]
RecordsApart(b) == api'[b] = api[b] /\ doc'[b] = doc[b]

LEMMA NothingAdded ==
  ASSUME NEW b \in Bot
  PROVE  /\ CallsApart(b) /\ NoCalls(b) => NoCalls(b)'
         /\ HandlersApart(b) /\ NoHandlers(b) => NoHandlers(b)'
         /\ RecordsApart(b) => (Agree(b)' <=> Agree(b)) /\ (Stored(b)' <=> Stored(b))
  BY DEF CallsApart, NoCalls, HandlersApart, NoHandlers, RecordsApart, Agree, Stored

LEMMA Elsewhere ==
  ASSUME NEW b \in Bot, OnCourse(b), QueueApart(b), CallsApart(b), HandlersApart(b), RecordsApart(b)
  PROVE  OnCourse(b)'
<1>1. CASE Still(b)
  <2>1. Still(b)'
    BY <1>1, NothingAdded DEF Still, QueueApart
  <2>2. QED
    BY <2>1 DEF OnCourse
<1>2. ASSUME NEW k \in Call, InCall(b, k) PROVE OnCourse(b)'
  <2>1. OnlyCall(b, k)' /\ call'[k] = call[k]
    BY <1>2 DEF InCall, OnlyCall, CallsApart
  <2>2. NoMessages(b)' /\ NoHandlers(b)'
    BY <1>2, NothingAdded DEF InCall, QueueApart
  <2>3. AskedFor(b, k)'
    BY <1>2, <2>1, NothingAdded DEF InCall, AskedFor, Due, RecordsApart
  <2>4. InCall(b, k)'
    BY <2>1, <2>2, <2>3 DEF InCall
  <2>5. QED
    BY <2>4 DEF OnCourse
<1>3. ASSUME NEW u \in Subject, NEW i \in 1..Len(queue[u]), InQueue(b, u, i) PROVE OnCourse(b)'
  <2>1. PICK j \in 1..Len(queue'[u]) : OnlyMessage(b, u, j)' /\ queue'[u][j] = queue[u][i]
    BY <1>3 DEF InQueue, QueueApart
  <2>2. NoCalls(b)' /\ NoHandlers(b)'
    BY <1>3, NothingAdded DEF InQueue
  <2>3. Due(b, u, queue[u][j].ver)'
    BY <1>3, <2>1, NothingAdded DEF InQueue, Due, RecordsApart
  <2>4. InQueue(b, u, j)'
    BY <2>1, <2>2, <2>3 DEF InQueue
  <2>5. QED
    BY <2>4 DEF OnCourse
<1>4. ASSUME NEW u \in Subject, InHandler(b, u) PROVE OnCourse(b)'
  <2>1. OnlyHandler(b, u)' /\ handler'[u] = handler[u]
    BY <1>4 DEF InHandler, OnlyHandler, HandlersApart
  <2>2. NoMessages(b)' /\ NoCalls(b)'
    BY <1>4, NothingAdded DEF InHandler, QueueApart
  <2>3. DoneBy(b, u)'
    BY <1>4, <2>1, NothingAdded DEF InHandler, DoneBy, Due, RecordsApart
  <2>4. InHandler(b, u)'
    BY <2>1, <2>2, <2>3 DEF InHandler
  <2>5. QED
    BY <2>4 DEF OnCourse
<1>5. QED
  BY <1>1, <1>2, <1>3, <1>4 DEF OnCourse

-----------------------------------------------------------------------------
LEMMA QueueLeftAlone == ASSUME NEW b \in Bot, UNCHANGED queue PROVE QueueApart(b)
  BY DEF QueueApart, NoMessages, OnlyMessage

\* Who has the bot's change when a handler or a call has it.
LEMMA TheHandler ==
  ASSUME NEW b \in Bot, NEW u \in Subject, OnCourse(b), handler[u].bot = b
  PROVE  InHandler(b, u)
  BY DEF OnCourse, Still, InCall, InQueue, NoHandlers, InHandler, OnlyHandler

LEMMA TheCall ==
  ASSUME NEW b \in Bot, NEW k \in Call, OnCourse(b), call[k].bot = b
  PROVE  InCall(b, k)
  BY DEF OnCourse, Still, InHandler, InQueue, NoCalls, InCall, OnlyCall

LEMMA TheMessage ==
  ASSUME NEW b \in Bot, NEW u \in Subject, NEW i \in 1..Len(queue[u]), OnCourse(b),
         queue[u][i].bot = b
  PROVE  InQueue(b, u, i)
  BY DEF OnCourse, Still, InHandler, InCall, NoMessages, InQueue, OnlyMessage

\* Handler u goes on, or is done.
LEMMA HandlerMoves ==
  ASSUME SubscriberInv, AgreementInv, NEW u \in Subject, NEW h, MovesTo(u, h), HandledWell(u, h),
         UNCHANGED <<apiVars, queue>>, disturbed \subseteq disturbed',
         handler[u].bot \in Bot, h.bot \in {handler[u].bot, NoBot},
         \A c \in Bot \ {handler[u].bot} : doc'[c] = doc[c],
         \A c \in Bot : c = handler[u].bot /\ DoneBy(c, u) =>
           \/ c \in disturbed'
           \/ h.bot = c /\ DoneBy(c, u)'
           \/ h.bot = NoBot /\ Agree(c)'
  PROVE  AgreementInv'
<1>1. /\ handler'[u] = h /\ \A v \in Subject \ {u} : handler'[v] = handler[v]
  BY HandlerGoesOn
<1>2. SUFFICES ASSUME NEW b \in Bot, b \notin disturbed' PROVE OnCourse(b)'
  BY DEF AgreementInv
<1>3. OnCourse(b)
  BY <1>2 DEF AgreementInv
<1>4. UNCHANGED <<api, call, queue>>
  BY DEF apiVars
<1>5. CASE b = handler[u].bot
  <2>1. InHandler(b, u)
    BY <1>3, <1>5, TheHandler
  <2>2. NoCalls(b)' /\ NoMessages(b)'
    BY <1>4, <2>1 DEF InHandler, NoCalls, NoMessages
  <2>3. CASE h.bot = b /\ DoneBy(b, u)'
    <3>1. OnlyHandler(b, u)'
      BY <1>1, <2>1, <2>3 DEF InHandler, OnlyHandler
    <3>2. InHandler(b, u)'
      BY <2>2, <2>3, <3>1 DEF InHandler
    <3>3. QED
      BY <3>2 DEF OnCourse
  <2>4. CASE h.bot = NoBot /\ Agree(b)'
    <3>1. NoHandlers(b)'
      BY <1>1, <2>1, <2>4, ConstantsOK DEF InHandler, OnlyHandler, NoHandlers
    <3>2. QED
      BY <2>2, <2>4, <3>1 DEF OnCourse, Still
  <2>5. QED
    BY <1>2, <1>5, <2>1, <2>3, <2>4 DEF InHandler
<1>6. CASE b # handler[u].bot
  <2>1. HandlersApart(b)
    BY <1>1, <1>6, ConstantsOK DEF HandlersApart
  <2>2. CallsApart(b) /\ RecordsApart(b)
    BY <1>4, <1>6 DEF CallsApart, RecordsApart
  <2>3. QED
    BY <1>3, <1>4, <2>1, <2>2, QueueLeftAlone, Elsewhere
<1>7. QED
  BY <1>5, <1>6

\* A handler that a disturbance has not kept from its work needs no partition to update a bot.
LEMMA FindingAPlace ==
  ASSUME SubscriberInv, AgreementInv, NEW u \in Subject, NEW h, MovesTo(u, h), HandledWell(u, h),
         UNCHANGED <<apiVars, queue, doc, disturbed>>,
         handler[u].pc \in {"claim", "number", "insert"},
         h.bot = handler[u].bot, h.ver = handler[u].ver, h.pc \notin {"decrement", "look", "set"}
  PROVE  AgreementInv'
<1>1. handler[u].bot \in Bot /\ u # "deleted" /\ handler[u].pc # "decrement"
  BY AtWork DEF StepsOfHandler, Subject
<1>2. handler'[u] = h
  BY HandlerGoesOn
<1>3. ASSUME NEW c \in Bot, DoneBy(c, u) PROVE DoneBy(c, u)'
  <2>1. Due(c, u, handler[u].ver) /\ u = "created"
    BY <1>1, <1>3 DEF DoneBy, Subject
  <2>2. Due(c, u, handler[u].ver)'
    BY <1>2, <2>1 DEF Due, Stored, apiVars
  <2>3. QED
    BY <1>2, <2>1, <2>2 DEF DoneBy
<1>4. QED
  BY <1>1, <1>3, HandlerMoves

LEMMA ClaimAgrees ==
  ASSUME SubscriberInv, AgreementInv, NEW u \in Subject, ClaimPartition(u)
  PROVE  AgreementInv'
<1>1. PICK p \in Roomy : handler' = [handler EXCEPT ![u].pc = "upsert", ![u].seg = p]
  BY DEF ClaimPartition
<1> DEFINE h == [handler[u] EXCEPT !.pc = "upsert", !.seg = p]
<1>2. UNCHANGED <<apiVars, queue, doc, disturbed>> /\ handler[u].pc = "claim"
  BY DEF ClaimPartition
<1>3. p \in Partition /\ p \in 0..MaxPartition
  BY <1>1, ConstantsOK DEF Roomy, SubscriberInv, Numbered, Partition
<1>4. h \in HandlerState /\ h.pc = "upsert" /\ h.seg = p /\ h.bot = handler[u].bot
      /\ h.ver = handler[u].ver
  BY <1>3, AtWork DEF HandlerState
<1>5. MovesTo(u, h)
  BY <1>1 DEF MovesTo, SubscriberInv, Carried
<1> HIDE DEF h
<1>6. HandledWell(u, h)
  BY <1>2, <1>3, <1>4, AtWork DEF HandledWell, StepsOfHandler, Subject
<1>7. QED
  BY <1>2, <1>4, <1>5, <1>6, FindingAPlace

LEMMA NoRoomAgrees ==
  ASSUME SubscriberInv, AgreementInv, NEW u \in Subject, NoRoom(u) \/ InsertPartition(u)
  PROVE  AgreementInv'
<1>1. PICK pc \in {"number", "upsert"} :
        /\ handler[u].pc \in {"claim", "insert"} /\ (pc = "upsert" => handler[u].pc = "insert")
        /\ MovesTo(u, [handler[u] EXCEPT !.pc = pc])
        /\ UNCHANGED <<apiVars, queue, doc, disturbed>>
  BY DEF NoRoom, InsertPartition, Goto, MovesTo, mongoVars
<1> DEFINE h == [handler[u] EXCEPT !.pc = pc]
<1>2. pc \in StepsOfHandler(u)
  BY <1>1, AtWork DEF StepsOfHandler, Subject
<1>3. HandledWell(u, h) /\ h.pc = pc /\ h.bot = handler[u].bot /\ h.ver = handler[u].ver
  BY <1>1, <1>2, AtWork DEF HandlerState, HandledWell
<1>4. MovesTo(u, h)
  BY <1>1
<1> HIDE DEF h
<1>5. QED
  BY <1>1, <1>3, <1>4, FindingAPlace

LEMMA NumberAgrees ==
  ASSUME SubscriberInv, AgreementInv, NEW u \in Subject, getNextSequenceValue(u)
  PROVE  AgreementInv'
<1>1. PICK s \in Partition : s = seq + 1
  BY ConstantsOK DEF getNextSequenceValue, SubscriberInv, Numbered, Partition
<1> DEFINE h == [handler[u] EXCEPT !.pc = "insert", !.seg = s]
<1>2. UNCHANGED <<apiVars, queue, doc, disturbed>> /\ handler[u].pc = "number"
      /\ handler' = [handler EXCEPT ![u].pc = "insert", ![u].seg = s]
  BY <1>1 DEF getNextSequenceValue
<1>3. s \in 0..MaxPartition
  BY ConstantsOK DEF Partition
<1>4. h \in HandlerState /\ h.pc = "insert" /\ h.seg = s /\ h.bot = handler[u].bot
      /\ h.ver = handler[u].ver
  BY <1>3, AtWork DEF HandlerState
<1>5. MovesTo(u, h)
  BY <1>2 DEF MovesTo, SubscriberInv, Carried
<1> HIDE DEF h
<1>6. HandledWell(u, h)
  BY <1>2, <1>3, <1>4, AtWork DEF HandledWell, StepsOfHandler, Subject
<1>7. QED
  BY <1>2, <1>4, <1>5, <1>6, FindingAPlace

\* The step that ends a handler's work.
LEMMA HandlerEnds ==
  ASSUME SubscriberInv, AgreementInv, NEW u \in Subject, MovesTo(u, Waiting),
         UNCHANGED <<apiVars, queue>>, disturbed \subseteq disturbed', handler[u].pc # "receive",
         \A c \in Bot \ {handler[u].bot} : doc'[c] = doc[c],
         \A c \in Bot : c = handler[u].bot /\ DoneBy(c, u) => c \in disturbed' \/ Agree(c)'
  PROVE  AgreementInv'
<1>1. handler[u].bot \in Bot /\ HandledWell(u, Waiting) /\ Waiting.bot = NoBot
  BY AtWork DEF Waiting
<1>2. QED
  BY <1>1, HandlerMoves

\* A write of MongoDB's record of a bot, by the handler that has the bot's change, makes it
\* agree with the API, and leaves the other bots alone.
Writes(u) ==
  /\ handler[u].bot \in Bot /\ UNCHANGED <<apiVars, queue, disturbed>>
  /\ \A c \in Bot \ {handler[u].bot} : doc'[c] = doc[c]
  /\ \A c \in Bot : c = handler[u].bot /\ DoneBy(c, u) => Agree(c)'

LEMMA UpsertWrites ==
  ASSUME SubscriberInv, NEW u \in Subject, upsertBot(u)
  PROVE  Writes(u)
<1>1. handler[u].pc = "upsert" /\ handler[u].seg \in Partition /\ handler[u].bot \in Bot
      /\ handler[u].ver \in Version /\ u # "deleted"
  BY AtWork DEF upsertBot, HandledWell, StepsOfHandler, VersionOf
<1>2. PICK d \in Doc : d.ver = handler[u].ver /\ d.seg = handler[u].seg
        /\ doc' = [doc EXCEPT ![handler[u].bot] = d]
  BY <1>1 DEF upsertBot, Doc
<1>3. UNCHANGED <<apiVars, queue, disturbed>>
  BY DEF upsertBot
<1>4. doc'[handler[u].bot] = d /\ d # NoDoc
      /\ \A c \in Bot \ {handler[u].bot} : doc'[c] = doc[c]
  BY <1>1, <1>2, ConstantsOK DEF Doc, SubscriberInv, Carried
<1>5. ASSUME NEW c \in Bot, c = handler[u].bot, DoneBy(c, u) PROVE Agree(c)'
  <2>1. api[c] = handler[u].ver
    BY <1>1, <1>5 DEF DoneBy, Due, Subject
  <2>2. api'[c] = doc'[c].ver /\ doc'[c] # NoDoc
    BY <1>2, <1>3, <1>4, <1>5, <2>1 DEF apiVars
  <2>3. QED
    BY <1>1, <1>3, <2>1, <2>2 DEF Agree, Stored, apiVars
<1>6. QED
  BY <1>1, <1>3, <1>4, <1>5 DEF Writes

LEMMA UpsertAgrees ==
  ASSUME SubscriberInv, AgreementInv, NEW u \in Subject, upsertBot(u)
  PROVE  AgreementInv'
<1>1. handler[u].pc = "upsert" /\ MovesTo(u, Waiting)
  BY DEF upsertBot, Finish, MovesTo
<1>2. QED
  BY <1>1, UpsertWrites, HandlerEnds DEF Writes

LEMMA SetBotWrites == ASSUME SubscriberInv, SetBot PROVE Writes("updated")
<1> DEFINE u == "updated"
<1>1. u \in Subject /\ handler[u].pc = "set" /\ handler[u].bot \in Bot
      /\ handler[u].ver \in Version
  BY AtWork DEF SetBot, Subject, VersionOf
<1>2. UNCHANGED <<apiVars, queue, disturbed>>
  BY DEF SetBot
<1>3. /\ doc[handler[u].bot] # NoDoc =>
           doc'[handler[u].bot] = [doc[handler[u].bot] EXCEPT !.ver = handler[u].ver]
      /\ \A c \in Bot \ {handler[u].bot} : doc'[c] = doc[c]
  BY <1>1 DEF SetBot, SubscriberInv, Carried
<1>4. ASSUME NEW c \in Bot, c = handler[u].bot, DoneBy(c, u) PROVE Agree(c)'
  <2>1. api[c] = handler[u].ver /\ doc[c] # NoDoc
    BY <1>1, <1>4 DEF DoneBy, Due, Stored
  <2>2. doc[c] \in Doc /\ doc'[c] = [doc[c] EXCEPT !.ver = handler[u].ver]
    BY <1>3, <1>4, <2>1 DEF SubscriberInv, Carried
  <2>3. doc'[c].ver = handler[u].ver /\ doc'[c] \in Doc
    BY <1>1, <2>2 DEF Doc
  <2>4. doc'[c] # NoDoc
    BY <2>3, ConstantsOK DEF Doc
  <2>5. QED
    BY <1>1, <1>2, <2>1, <2>3, <2>4 DEF Agree, Stored, apiVars
<1> HIDE DEF u
<1>5. Writes(u)
  BY <1>1, <1>2, <1>3, <1>4 DEF Writes
<1>6. QED
  BY <1>5 DEF u

LEMMA SetBotAgrees == ASSUME SubscriberInv, AgreementInv, SetBot PROVE AgreementInv'
<1>1. "updated" \in Subject /\ handler["updated"].pc = "set" /\ MovesTo("updated", Waiting)
  BY DEF SetBot, Finish, MovesTo, Subject
<1>2. QED
  BY <1>1, SetBotWrites, HandlerEnds DEF Writes

LEMMA DeleteBotWrites == ASSUME SubscriberInv, DeleteBot PROVE Writes("deleted")
<1>1. /\ "deleted" \in Subject /\ handler["deleted"].pc = "drop"
      /\ handler["deleted"].bot \in Bot
  BY AtWork DEF DeleteBot, Subject
<1>2. UNCHANGED <<apiVars, queue, disturbed>>
  BY DEF DeleteBot
<1>3. /\ doc'[handler["deleted"].bot] = NoDoc
      /\ \A c \in Bot \ {handler["deleted"].bot} : doc'[c] = doc[c]
  BY <1>1 DEF DeleteBot, SubscriberInv, Carried
<1>4. ASSUME NEW c \in Bot, c = handler["deleted"].bot, DoneBy(c, "deleted") PROVE Agree(c)'
  <2>1. api[c] = Deleted
    BY <1>1, <1>4 DEF DoneBy, Due
  <2>2. QED
    BY <1>2, <1>3, <1>4, <2>1, ConstantsOK DEF Agree, Stored, apiVars
<1>5. QED
  BY <1>1, <1>2, <1>3, <1>4 DEF Writes

LEMMA DeleteBotAgrees == ASSUME SubscriberInv, AgreementInv, DeleteBot PROVE AgreementInv'
<1> DEFINE u == "deleted"
           h == [handler[u] EXCEPT !.pc = "decrement"]
<1>1. u \in Subject /\ handler[u].pc = "drop" /\ handler[u].bot \in Bot
      /\ handler[u].seg \in Partition /\ "decrement" \in StepsOfHandler(u)
  BY AtWork DEF DeleteBot, Subject, HandledWell, StepsOfHandler
<1>2. UNCHANGED <<apiVars, queue, disturbed>> /\ MovesTo(u, h)
  BY DEF DeleteBot, Goto, MovesTo
<1>3. doc'[handler[u].bot] = NoDoc /\ \A c \in Bot \ {handler[u].bot} : doc'[c] = doc[c]
  BY <1>1 DEF DeleteBot, SubscriberInv, Carried
<1>4. HandledWell(u, h) /\ h.pc = "decrement" /\ h.bot = handler[u].bot
  BY <1>1, AtWork DEF HandlerState
<1>5. u = "deleted"
  OBVIOUS
<1> HIDE DEF u, h
<1>6. handler'[u] = h
  BY <1>1, <1>2, <1>4, HandlerGoesOn
<1>7. ASSUME NEW c \in Bot, c = handler[u].bot, DoneBy(c, u) PROVE DoneBy(c, u)'
  <2>1. api[c] = Deleted
    BY <1>1, <1>5, <1>7 DEF DoneBy, Due
  <2>2. QED
    BY <1>2, <1>3, <1>4, <1>6, <1>7, <2>1 DEF DoneBy, Stored, apiVars
<1>8. QED
  BY <1>1, <1>2, <1>3, <1>4, <1>7, HandlerMoves

LEMMA DecrementAgrees == ASSUME SubscriberInv, AgreementInv, DecrementPartition PROVE AgreementInv'
<1> DEFINE u == "deleted"
<1>1. u \in Subject /\ handler[u].pc = "decrement"
  BY DEF DecrementPartition, Subject
<1>2. UNCHANGED <<apiVars, queue, doc, disturbed>> /\ MovesTo(u, Waiting)
  BY DEF DecrementPartition, Finish, MovesTo
<1> HIDE DEF u
<1>3. ASSUME NEW c \in Bot, DoneBy(c, u) PROVE Agree(c)'
  BY <1>1, <1>2, <1>3, ConstantsOK DEF DoneBy, Agree, Stored, apiVars
<1>4. QED
  BY <1>1, <1>2, <1>3, HandlerEnds

LEMMA HandlerFailsAgrees ==
  ASSUME SubscriberInv, AgreementInv, NEW u \in Subject, HandlerFails(u)
  PROVE  AgreementInv'
<1>1. /\ UNCHANGED <<apiVars, queue, doc>> /\ MovesTo(u, Waiting) /\ handler[u].pc # "receive"
      /\ disturbed' = disturbed \cup {handler[u].bot}
  BY DEF HandlerFails, Finish, MovesTo, mongoVars
<1>2. QED
  BY <1>1, HandlerEnds

LEMMA LookAgrees ==
  ASSUME SubscriberInv, AgreementInv, handleCreate \/ handleUpdate \/ handleDelete
  PROVE  AgreementInv'
<1>1. UNCHANGED <<apiVars, queue, doc, disturbed>>
  BY DEF handleCreate, handleUpdate, handleDelete, mongoVars
<1>2. ASSUME NEW u \in Subject, handler[u].pc = "look",
             NEW pc \in StepsOfHandler(u), pc \in {"claim", "set"},
             handler' = [handler EXCEPT ![u].pc = pc],
             u = "updated" /\ Stored(handler[u].bot) => pc = "set"
      PROVE  AgreementInv'
  <2> DEFINE h == [handler[u] EXCEPT !.pc = pc]
  <2>1. handler[u].bot \in Bot /\ HandledWell(u, h) /\ h.pc = pc /\ h.bot = handler[u].bot
        /\ h.ver = handler[u].ver
    BY <1>2, AtWork DEF HandlerState
  <2>2. MovesTo(u, h)
    BY <1>2 DEF MovesTo
  <2> HIDE DEF h
  <2>3. handler'[u] = h
    BY <2>1, <2>2, HandlerGoesOn
  <2>4. ASSUME NEW c \in Bot, c = handler[u].bot, DoneBy(c, u) PROVE DoneBy(c, u)'
    <3>1. Due(c, u, handler[u].ver) /\ (u = "updated" => Stored(c))
      BY <1>2, <2>4 DEF DoneBy, Due
    <3>2. Due(c, u, handler[u].ver)'
      BY <1>1, <2>1, <2>3, <3>1 DEF Due, Stored, apiVars
    <3>3. QED
      BY <1>2, <2>1, <2>3, <2>4, <3>1, <3>2 DEF DoneBy
  <2>5. QED
    BY <1>1, <2>1, <2>2, <2>4, HandlerMoves
<1>3. CASE handleCreate
  <2>1. handler["created"].pc = "look" /\ "created" \in Subject
        /\ "claim" \in StepsOfHandler("created")
    BY <1>3 DEF handleCreate, Subject, StepsOfHandler
  <2>2. CASE ~Stored(handler["created"].bot)
    BY <1>2, <1>3, <2>1, <2>2 DEF handleCreate, Goto
  <2>3. CASE Stored(handler["created"].bot)
    <3>1. MovesTo("created", Waiting)
      BY <1>3, <2>3 DEF handleCreate, Finish, MovesTo
    <3>2. \A c \in Bot : c = handler["created"].bot => ~DoneBy(c, "created")
      BY <2>1, <2>3 DEF DoneBy, Due
    <3>3. QED
      BY <1>1, <2>1, <3>1, <3>2, HandlerEnds
  <2>4. QED
    BY <2>2, <2>3
<1>4. CASE handleUpdate
  <2>1. handler["updated"].pc = "look" /\ "updated" \in Subject
        /\ "claim" \in StepsOfHandler("updated") /\ "set" \in StepsOfHandler("updated")
    BY <1>4 DEF handleUpdate, Subject, StepsOfHandler
  <2>2. PICK pc \in {"claim", "set"} :
          handler' = [handler EXCEPT !["updated"].pc = pc]
          /\ (Stored(handler["updated"].bot) => pc = "set")
    BY <1>4 DEF handleUpdate, Goto
  <2>3. QED
    BY <1>2, <2>1, <2>2
<1>5. CASE handleDelete
  <2> DEFINE u == "deleted"
  <2>1. u \in Subject /\ handler[u].pc = "look" /\ handler[u].bot \in Bot
        /\ handler[u].ver \in VersionOf(u)
    BY <1>5, AtWork DEF handleDelete, Subject
  <2>2. CASE ~Stored(handler[u].bot)
    <3>1. MovesTo(u, Waiting)
      BY <1>5, <2>2 DEF handleDelete, MovesTo
    <3>2. \A c \in Bot : c = handler[u].bot => ~DoneBy(c, u)
      BY <2>1, <2>2 DEF DoneBy, Due
    <3>3. QED
      BY <1>1, <2>1, <3>1, <3>2, HandlerEnds
  <2>3. CASE Stored(handler[u].bot)
    <3>1. doc[handler[u].bot] \in Doc
      BY <2>1, <2>3 DEF SubscriberInv, Carried, Stored
    <3>2. PICK p \in Partition : p = doc[handler[u].bot].seg
      BY <3>1 DEF Doc
    <3> DEFINE h == [handler[u] EXCEPT !.pc = "drop", !.seg = p]
    <3>3. p \in 0..MaxPartition
      BY <3>2, ConstantsOK DEF Partition
    <3>4. /\ h \in HandlerState /\ h.pc = "drop" /\ h.bot = handler[u].bot
          /\ h.ver = handler[u].ver /\ h.seg = p
      BY <3>3, AtWork, <2>1 DEF HandlerState
    <3>5. MovesTo(u, h)
      BY <1>5, <2>3, <3>2 DEF handleDelete, MovesTo
    <3> HIDE DEF h
    <3>6. HandledWell(u, h)
      BY <2>1, <3>4 DEF HandledWell, StepsOfHandler
    <3>7. handler'[u] = h
      BY <2>1, <3>5, <3>6, HandlerGoesOn
    <3>8. ASSUME NEW c \in Bot, c = handler[u].bot, DoneBy(c, u) PROVE DoneBy(c, u)'
      <4>1. api[c] = Deleted /\ Stored(c)
        BY <2>1, <3>8 DEF DoneBy, Due
      <4>2. api'[c] = Deleted /\ Stored(c)'
        BY <1>1, <4>1 DEF Stored, apiVars
      <4>3. QED
        BY <3>4, <3>7, <4>2 DEF DoneBy, Due
    <3>9. QED
      BY <1>1, <2>1, <3>4, <3>5, <3>6, <3>8, HandlerMoves
  <2>4. QED
    BY <2>2, <2>3
<1>6. QED
  BY <1>3, <1>4, <1>5

LEMMA ReceiveAgrees ==
  ASSUME SubscriberInv, AgreementInv, NEW u \in Subject, Receive(u)
  PROVE  AgreementInv'
<1>1. queue \in [Subject -> Seq(Message)] /\ queue[u] \in Seq(Message) /\ queue[u] # <<>>
      /\ \A v \in Subject : Len(queue[v]) \in Nat
  BY DEF SubscriberInv, Carried, Receive
<1>2. PICK m \in Message : m = queue[u][1] /\ m = Head(queue[u])
  BY <1>1, QueueShifts
<1> DEFINE h == [bot |-> m.bot, ver |-> m.ver, seg |-> 0, pc |-> "look"]
<1>3. /\ handler[u].pc = "receive" /\ handler[u].bot = NoBot
      /\ handler' = [handler EXCEPT ![u] = h]
      /\ queue' = [queue EXCEPT ![u] = Tail(@)]
      /\ UNCHANGED <<apiVars, doc, disturbed>>
  BY <1>2, AtWork DEF Receive, mongoVars, HandledWell
<1>4. h.bot = m.bot /\ h.ver = m.ver /\ h.pc = "look"
  OBVIOUS
<1> HIDE DEF h
<1>5. handler'[u] = h /\ \A v \in Subject \ {u} : handler'[v] = handler[v]
  BY <1>3 DEF SubscriberInv, Carried
<1>6. /\ Len(queue[u]) \in Nat \ {0} /\ Len(queue'[u]) = Len(queue[u]) - 1
      /\ \A i \in 1..Len(queue'[u]) : queue'[u][i] = queue[u][i + 1]
      /\ \A v \in Subject \ {u} : queue'[v] = queue[v]
  BY <1>1, <1>3, QueueShifts
<1>7. SUFFICES ASSUME NEW b \in Bot, b \notin disturbed' PROVE OnCourse(b)'
  BY DEF AgreementInv
<1>8. OnCourse(b)
  BY <1>3, <1>7 DEF AgreementInv
<1>9. CASE b = m.bot
  <2>1. InQueue(b, u, 1)
    BY <1>2, <1>6, <1>8, <1>9, TheMessage
  <2>2. OnlyHandler(b, u)'
    BY <1>4, <1>5, <1>9, <2>1 DEF InQueue, NoHandlers, OnlyHandler
  <2>3. NoCalls(b)'
    BY <1>3, <2>1 DEF InQueue, NoCalls, apiVars
  <2>4. NoMessages(b)'
    <3>1. \A i \in 1..Len(queue'[u]) : i + 1 \in 1..Len(queue[u]) /\ i + 1 # 1
      BY <1>6
    <3>2. \A i \in 1..Len(queue'[u]) : queue'[u][i].bot # b
      BY <1>6, <2>1, <3>1 DEF InQueue, OnlyMessage
    <3>3. \A v \in Subject \ {u} : \A i \in 1..Len(queue'[v]) : queue'[v][i].bot # b
      BY <1>6, <2>1 DEF InQueue, OnlyMessage
    <3>4. QED
      BY <3>2, <3>3 DEF NoMessages
  <2>5. DoneBy(b, u)'
    <3>1. Due(b, u, m.ver)
      BY <1>2, <2>1 DEF InQueue
    <3>2. Due(b, u, handler[u].ver)'
      BY <1>3, <1>4, <1>5, <3>1 DEF Due, Stored, apiVars
    <3>3. QED
      BY <1>4, <1>5, <3>2 DEF DoneBy
  <2>6. InHandler(b, u)'
    BY <2>2, <2>3, <2>4, <2>5 DEF InHandler
  <2>7. QED
    BY <2>6 DEF OnCourse
<1>10. CASE b # m.bot
  <2>1. HandlersApart(b)
    BY <1>3, <1>4, <1>5, <1>10, ConstantsOK DEF HandlersApart
  <2>2. CallsApart(b) /\ RecordsApart(b)
    BY <1>3 DEF CallsApart, RecordsApart, apiVars
  <2>3. NoMessages(b) => NoMessages(b)'
    <3>1. \A i \in 1..Len(queue'[u]) : i + 1 \in 1..Len(queue[u])
      BY <1>6
    <3>2. QED
      BY <1>6, <3>1 DEF NoMessages
  <2>4. ASSUME NEW v \in Subject, NEW i \in 1..Len(queue[v]), OnlyMessage(b, v, i)
        PROVE  \E j \in 1..Len(queue'[v]) : OnlyMessage(b, v, j)' /\ queue'[v][j] = queue[v][i]
    <3>1. PICK j \in Nat : IF v = u THEN j = i - 1 ELSE j = i
      <4>1. i \in Nat /\ i - 1 \in Nat
        BY <1>1
      <4>2. QED
        BY <4>1
    <3>2. v = u => i # 1
      BY <1>2, <1>10, <2>4 DEF OnlyMessage
    <3>3. j \in 1..Len(queue'[v]) /\ queue'[v][j] = queue[v][i]
      <4>1. CASE v = u
        <5>1. j \in 1..Len(queue'[u]) /\ j + 1 = i
          BY <1>6, <3>1, <3>2, <4>1
        <5>2. QED
          BY <1>6, <4>1, <5>1
      <4>2. CASE v # u
        BY <1>6, <3>1, <4>2
      <4>3. QED
        BY <4>1, <4>2
    <3>4. ASSUME NEW w \in Subject, NEW n \in 1..Len(queue'[w]), queue'[w][n].bot = b
          PROVE  w = v /\ n = j
      <4>1. CASE w = u
        <5>1. n + 1 \in 1..Len(queue[u]) /\ queue[u][n + 1].bot = b
          BY <1>6, <3>4, <4>1
        <5>2. v = u /\ n + 1 = i
          BY <2>4, <5>1 DEF OnlyMessage
        <5>3. QED
          BY <3>1, <4>1, <5>2
      <4>2. CASE w # u
        <5>1. v = w /\ n = i
          BY <1>6, <2>4, <3>4, <4>2 DEF OnlyMessage
        <5>2. QED
          BY <3>1, <4>2, <5>1
      <4>3. QED
        BY <4>1, <4>2
    <3>5. queue'[v][j].bot = b
      BY <2>4, <3>3 DEF OnlyMessage
    <3>6. OnlyMessage(b, v, j)'
      BY <3>3, <3>4, <3>5 DEF OnlyMessage
    <3>7. QED
      BY <3>3, <3>6
  <2>5. QueueApart(b)
    BY <2>3, <2>4 DEF QueueApart
  <2>6. QED
    BY <1>8, <2>1, <2>2, <2>5, Elsewhere
<1>11. QED
  BY <1>9, <1>10

-----------------------------------------------------------------------------
(* The API's steps. *)

\* Call k goes on, or ends without an event.
LEMMA CallMoves ==
  ASSUME SubscriberInv, AgreementInv, NEW k \in Call, call[k].pc # "none",
         NEW c, call' = [call EXCEPT ![k] = c], c.bot \in {call[k].bot, NoBot},
         UNCHANGED <<queue, handler, doc>>, disturbed \subseteq disturbed',
         \A b \in Bot \ {call[k].bot} : api'[b] = api[b],
         \A b \in Bot : b = call[k].bot /\ AskedFor(b, k) =>
           b \in disturbed' \/ (c.bot = b /\ AskedFor(b, k)')
  PROVE  AgreementInv'
<1>1. call'[k] = c /\ \A j \in Call \ {k} : call'[j] = call[j]
  BY DEF SubscriberInv, Carried
<1>2. SUFFICES ASSUME NEW b \in Bot, b \notin disturbed' PROVE OnCourse(b)'
  BY DEF AgreementInv
<1>3. OnCourse(b)
  BY <1>2 DEF AgreementInv
<1>4. CASE b = call[k].bot
  <2>1. InCall(b, k)
    BY <1>3, <1>4, TheCall
  <2>2. NoHandlers(b)' /\ NoMessages(b)'
    BY <2>1 DEF InCall, NoHandlers, NoMessages
  <2>3. c.bot = b /\ AskedFor(b, k)'
    BY <1>2, <1>4, <2>1 DEF InCall
  <2>4. OnlyCall(b, k)'
    BY <1>1, <2>1, <2>3 DEF InCall, OnlyCall
  <2>5. InCall(b, k)'
    BY <2>2, <2>3, <2>4 DEF InCall
  <2>6. QED
    BY <2>5 DEF OnCourse
<1>5. CASE b # call[k].bot
  <2>1. CallsApart(b)
    BY <1>1, <1>5, ConstantsOK DEF CallsApart
  <2>2. HandlersApart(b) /\ RecordsApart(b)
    BY <1>5 DEF HandlersApart, RecordsApart
  <2>3. QED
    BY <1>3, <2>1, <2>2, QueueLeftAlone, Elsewhere
<1>6. QED
  BY <1>4, <1>5

LEMMA StoreAgrees == ASSUME SubscriberInv, AgreementInv, NEW k \in Call, Store(k)
  PROVE AgreementInv'
<1>1. /\ call[k] \in CallState /\ call[k].pc = "store"
      /\ call[k].op \in Subject /\ call[k].bot \in Bot /\ call[k].ver \in VersionOf(call[k].op)
  BY CallGoesOn DEF Store, SubscriberInv, Carried
<1>2. PICK pc \in {"reread", "publish"} :
        call' = [call EXCEPT ![k].pc = pc] /\ (pc = "reread" => call[k].op = "updated")
  BY DEF Store
<1> DEFINE c == [call[k] EXCEPT !.pc = pc]
<1>3. c.bot = call[k].bot /\ c.op = call[k].op /\ c.ver = call[k].ver /\ c.pc = pc
  BY <1>1 DEF CallState
<1>4. call' = [call EXCEPT ![k] = c]
  BY <1>2
<1> HIDE DEF c
<1>5. call'[k] = c
  BY <1>4 DEF SubscriberInv, Carried
<1>6. UNCHANGED <<queue, handler, doc, disturbed>>
  BY DEF Store, mongoVars
<1>7. \A b \in Bot \ {call[k].bot} : api'[b] = api[b]
  BY DEF Store, SubscriberInv, Carried
<1>8. ASSUME NEW b \in Bot, b = call[k].bot, AskedFor(b, k) PROVE AskedFor(b, k)'
  <2>1. call[k].op # "created" /\ Stored(b) /\ api[b] \in Version
    BY <1>1, <1>8 DEF AskedFor, Agree
  <2>2. CASE call[k].op = "updated"
    <3>1. api'[b] = call[k].ver /\ call[k].ver \in Version
      BY <1>1, <1>8, <2>1, <2>2 DEF Store, VersionOf, SubscriberInv, Carried
    <3>2. Due(b, call[k].op, call[k].ver)'
      BY <1>3, <1>5, <1>6, <2>1, <2>2, <3>1 DEF Due, Stored
    <3>3. QED
      BY <1>2, <1>3, <1>5, <3>2 DEF AskedFor
  <2>3. CASE call[k].op = "deleted"
    <3>1. api'[b] = Deleted
      BY <1>1, <1>8, <2>3 DEF Store, SubscriberInv, Carried
    <3>2. Due(b, call[k].op, call[k].ver)'
      BY <1>3, <1>5, <1>6, <2>1, <2>3, <3>1 DEF Due, Stored
    <3>3. QED
      BY <1>2, <1>3, <1>5, <3>2 DEF AskedFor
  <2>4. QED
    BY <1>1, <2>1, <2>2, <2>3 DEF Subject
<1>9. QED
  BY <1>1, <1>3, <1>4, <1>6, <1>7, <1>8, CallMoves

LEMMA RereadAgrees ==
  ASSUME SubscriberInv, AgreementInv, NEW k \in Call, Reread(k)
  PROVE  AgreementInv'
<1>1. /\ call[k] \in CallState /\ call[k].pc = "reread" /\ call[k].bot \in Bot
      /\ UNCHANGED <<api, queue, handler, doc, disturbed>>
  BY CallGoesOn DEF Reread, SubscriberInv, Carried, mongoVars
<1>2. CASE api[call[k].bot] \in Version
  <2> DEFINE c == [call[k] EXCEPT !.pc = "publish"]
  <2>1. c.bot = call[k].bot /\ c.op = call[k].op /\ c.ver = call[k].ver /\ c.pc = "publish"
    BY <1>1 DEF CallState
  <2>2. call' = [call EXCEPT ![k] = c]
    BY <1>2 DEF Reread
  <2> HIDE DEF c
  <2>3. call'[k] = c
    BY <2>2 DEF SubscriberInv, Carried
  <2>4. ASSUME NEW b \in Bot, AskedFor(b, k) PROVE AskedFor(b, k)'
    BY <1>1, <2>1, <2>3, <2>4 DEF AskedFor, Due, Stored
  <2>5. QED
    BY <1>1, <2>1, <2>2, <2>4, CallMoves
<1>3. CASE api[call[k].bot] \notin Version
  <2>1. call' = [call EXCEPT ![k] = NoCall] /\ NoCall.bot = NoBot
    BY <1>3 DEF Reread, NoCall
  <2>2. ASSUME NEW b \in Bot, b = call[k].bot, AskedFor(b, k) PROVE b \in disturbed'
    <3>1. Due(b, call[k].op, call[k].ver) /\ call[k].op = "updated"
      BY <1>1, <2>2 DEF AskedFor
    <3>2. QED
      BY <1>3, <2>2, <3>1 DEF Due
  <2>3. QED
    BY <1>1, <2>1, <2>2, CallMoves
<1>4. QED
  BY <1>2, <1>3

\* A message more, of another bot.
LEMMA MessageElsewhere ==
  ASSUME NEW b \in Bot, NEW u \in Subject, NEW m \in Message, m.bot # b,
         queue \in [Subject -> Seq(Message)], queue' = [queue EXCEPT ![u] = Append(@, m)]
  PROVE  QueueApart(b)
<1>1. /\ Len(queue[u]) \in Nat /\ Len(queue'[u]) = Len(queue[u]) + 1
      /\ queue'[u][Len(queue[u]) + 1] = m
      /\ \A i \in 1..Len(queue[u]) : queue'[u][i] = queue[u][i]
      /\ \A v \in Subject \ {u} : queue'[v] = queue[v]
  BY QueueGrows
<1>2. \A v \in Subject : \A i \in 1..Len(queue'[v]) :
        queue'[v][i].bot = b => i \in 1..Len(queue[v]) /\ queue[v][i] = queue'[v][i]
  BY <1>1
<1>3. \A v \in Subject : \A i \in 1..Len(queue[v]) :
        i \in 1..Len(queue'[v]) /\ queue'[v][i] = queue[v][i]
  BY <1>1
<1>4. NoMessages(b) => NoMessages(b)'
  BY <1>2 DEF NoMessages
<1>5. ASSUME NEW v \in Subject, NEW i \in 1..Len(queue[v]), OnlyMessage(b, v, i)
      PROVE  i \in 1..Len(queue'[v]) /\ OnlyMessage(b, v, i)' /\ queue'[v][i] = queue[v][i]
  <2>1. i \in 1..Len(queue'[v]) /\ queue'[v][i] = queue[v][i] /\ queue[v][i].bot = b
    BY <1>3, <1>5 DEF OnlyMessage
  <2>2. \A w \in Subject : \A j \in 1..Len(queue'[w]) : queue'[w][j].bot = b => w = v /\ j = i
    BY <1>2, <1>5 DEF OnlyMessage
  <2>3. QED
    BY <2>1, <2>2 DEF OnlyMessage
<1>6. QED
  BY <1>4, <1>5 DEF QueueApart

LEMMA PublishAgrees ==
  ASSUME SubscriberInv, AgreementInv, NEW k \in Call, Publish(k)
  PROVE  AgreementInv'
<1>1. call[k].pc = "publish" /\ call[k].op \in Subject /\ call[k].bot \in Bot
      /\ call[k].ver \in VersionOf(call[k].op) /\ queue \in [Subject -> Seq(Message)]
  BY CallGoesOn DEF Publish, SubscriberInv, Carried
<1>2. PICK u \in Subject, m \in Message : u = call[k].op /\ m.bot = call[k].bot
        /\ m.ver = call[k].ver
        /\ queue' = [queue EXCEPT ![u] = Append(@, m)]
  BY <1>1 DEF Publish, Message, VersionOf
<1>3. UNCHANGED <<api, handler, doc, disturbed>> /\ call' = [call EXCEPT ![k] = NoCall]
  BY DEF Publish, mongoVars
<1>4. call'[k].bot = NoBot /\ \A j \in Call \ {k} : call'[j] = call[j]
  BY <1>3 DEF SubscriberInv, Carried, NoCall
<1>5. SUFFICES ASSUME NEW b \in Bot, b \notin disturbed' PROVE OnCourse(b)'
  BY DEF AgreementInv
<1>6. OnCourse(b)
  BY <1>3, <1>5 DEF AgreementInv
<1>7. CASE b = call[k].bot
  <2>1. InCall(b, k)
    BY <1>6, <1>7, TheCall
  <2>2. PICK n \in Nat : n = Len(queue[u]) + 1
    BY <1>1
  <2>3. /\ Len(queue'[u]) = n /\ queue'[u][n] = m /\ n \in 1..n
        /\ \A i \in 1..n : i # n => i \in 1..Len(queue[u]) /\ queue'[u][i] = queue[u][i]
        /\ \A v \in Subject \ {u} : queue'[v] = queue[v]
    BY <1>1, <1>2, <2>2, QueueGrows
  <2>4. OnlyMessage(b, u, n)'
    <3>1. n \in 1..Len(queue'[u]) /\ queue'[u][n].bot = b
      BY <1>2, <1>7, <2>3
    <3>2. \A v \in Subject : \A j \in 1..Len(queue'[v]) : queue'[v][j].bot = b => v = u /\ j = n
      BY <2>1, <2>3 DEF InCall, NoMessages
    <3>3. QED
      BY <3>1, <3>2 DEF OnlyMessage
  <2>5. NoCalls(b)' /\ NoHandlers(b)'
    BY <1>3, <1>4, <2>1, ConstantsOK DEF InCall, OnlyCall, NoCalls, NoHandlers
  <2>6. Due(b, u, queue[u][n].ver)'
    <3>1. Due(b, u, m.ver)
      BY <1>1, <1>2, <2>1 DEF InCall, AskedFor
    <3>2. QED
      BY <1>3, <2>3, <3>1 DEF Due, Stored
  <2>7. InQueue(b, u, n)' /\ n \in 1..Len(queue'[u])
    BY <2>3, <2>4, <2>5, <2>6 DEF InQueue
  <2>8. QED
    BY <2>7 DEF OnCourse
<1>8. CASE b # call[k].bot
  <2>1. CallsApart(b)
    BY <1>4, <1>8, ConstantsOK DEF CallsApart
  <2>2. HandlersApart(b) /\ RecordsApart(b)
    BY <1>3 DEF HandlersApart, RecordsApart
  <2>3. QueueApart(b)
    BY <1>1, <1>2, <1>8, MessageElsewhere
  <2>4. QED
    BY <1>6, <2>1, <2>2, <2>3, Elsewhere
<1>9. QED
  BY <1>7, <1>8

LEMMA UnpublishedAgrees ==
  ASSUME SubscriberInv, AgreementInv, NEW k \in Call, PublishUnheard(k) \/ PublishFails(k)
  PROVE  AgreementInv'
<1>1. /\ call[k].pc # "none" /\ call' = [call EXCEPT ![k] = NoCall] /\ NoCall.bot = NoBot
      /\ disturbed' = disturbed \cup {call[k].bot}
      /\ UNCHANGED <<api, queue, handler, doc>>
  BY DEF PublishUnheard, PublishFails, NoCall, mongoVars
<1>2. QED
  BY <1>1, CallMoves

\* A request for a bot with nothing under way, else the bot counts as disturbed.
LEMMA BeginAgrees ==
  ASSUME SubscriberInv, AgreementInv, NEW k \in Call, NEW op \in Subject, NEW b \in Bot,
         NEW v \in VersionOf(op), NEW pc \in {"store", "publish"}, Begin(k, op, b, v, pc),
         UNCHANGED <<queue, handler, doc>>,
         \A c \in Bot \ {b} : api'[c] = api[c],
         IF pc = "store" THEN op # "created" /\ api[b] \in Version /\ api'[b] = api[b]
         ELSE op = "created" /\ api[b] \notin Version /\ api'[b] = v
  PROVE  AgreementInv'
<1> DEFINE c == [op |-> op, bot |-> b, ver |-> v, pc |-> pc]
<1>1. /\ call[k].bot = NoBot /\ call' = [call EXCEPT ![k] = c]
      /\ disturbed' = IF InFlight(b) THEN disturbed \cup {b} ELSE disturbed
  BY DEF Begin, NoCall
<1>2. c.op = op /\ c.bot = b /\ c.ver = v /\ c.pc = pc
  OBVIOUS
<1> HIDE DEF c
<1>3. call'[k] = c /\ \A j \in Call \ {k} : call'[j] = call[j]
  BY <1>1 DEF SubscriberInv, Carried
<1>4. SUFFICES ASSUME NEW d \in Bot, d \notin disturbed' PROVE OnCourse(d)'
  BY DEF AgreementInv
<1>5. OnCourse(d)
  BY <1>1, <1>4 DEF AgreementInv
<1>6. CASE d = b
  <2>1. Still(b)
    <3>1. ~InFlight(b)
      BY <1>1, <1>4, <1>6
    <3>2. NoCalls(b) /\ NoMessages(b) /\ NoHandlers(b)
      BY <3>1 DEF InFlight, Queued, Handling, NoCalls, NoMessages, NoHandlers
    <3>3. QED
      BY <1>5, <1>6, <3>2
         DEF OnCourse, InCall, OnlyCall, NoCalls, InQueue, OnlyMessage, NoMessages,
             InHandler, OnlyHandler, NoHandlers
  <2>2. OnlyCall(b, k)'
    BY <1>2, <1>3, <2>1 DEF Still, NoCalls, OnlyCall
  <2>3. NoMessages(b)' /\ NoHandlers(b)'
    BY <2>1 DEF Still, NoMessages, NoHandlers
  <2>4. AskedFor(b, k)'
    <3>1. CASE pc = "store"
      <4>1. Stored(b) /\ Agree(b) /\ op # "created"
        BY <2>1, <3>1 DEF Still, Agree
      <4>2. (Stored(b) /\ Agree(b))'
        BY <3>1, <4>1 DEF Agree, Stored
      <4>3. QED
        BY <1>2, <1>3, <3>1, <4>1, <4>2 DEF AskedFor
    <3>2. CASE pc = "publish"
      <4>1. ~Stored(b) /\ v \in Version /\ api'[b] = v /\ op = "created"
        BY <2>1, <3>2 DEF Still, Agree, VersionOf
      <4>2. Due(b, call[k].op, call[k].ver)'
        BY <1>2, <1>3, <4>1 DEF Due, Stored
      <4>3. QED
        BY <1>2, <1>3, <3>2, <4>2 DEF AskedFor
    <3>3. QED
      BY <3>1, <3>2
  <2>5. InCall(b, k)'
    BY <2>2, <2>3, <2>4 DEF InCall
  <2>6. QED
    BY <1>6, <2>5 DEF OnCourse
<1>7. CASE d # b
  <2>1. CallsApart(d)
    BY <1>1, <1>2, <1>3, <1>7, ConstantsOK DEF CallsApart
  <2>2. HandlersApart(d) /\ RecordsApart(d)
    BY <1>7 DEF HandlersApart, RecordsApart
  <2>3. QED
    BY <1>5, <2>1, <2>2, QueueLeftAlone, Elsewhere
<1>8. QED
  BY <1>6, <1>7

LEMMA ArrivalAgrees ==
  ASSUME SubscriberInv, AgreementInv, NEW k \in Call, NEW b \in Bot,
         remove(k, b) \/ \E v \in Version : create(k, b, v) \/ update(k, b, v)
  PROVE  AgreementInv'
<1>1. "created" \in Subject /\ "updated" \in Subject /\ "deleted" \in Subject
      /\ NoVersion \in VersionOf("deleted") /\ api \in [Bot -> Version \cup {NoVersion, Deleted}]
      /\ \A v \in Version : v \in VersionOf("created") /\ v \in VersionOf("updated")
  BY DEF Subject, VersionOf, SubscriberInv, Carried
<1>2. ASSUME NEW v \in Version, create(k, b, v) PROVE AgreementInv'
  <2>1. Begin(k, "created", b, v, "publish") /\ UNCHANGED <<queue, handler, doc>>
        /\ api[b] \notin Version /\ api'[b] = v /\ \A c \in Bot \ {b} : api'[c] = api[c]
    BY <1>1, <1>2, ConstantsOK DEF create, mongoVars
  <2>2. QED
    BY <1>1, <2>1, BeginAgrees
<1>3. ASSUME NEW v \in Version, update(k, b, v) PROVE AgreementInv'
  <2>1. Begin(k, "updated", b, v, "store") /\ UNCHANGED <<api, queue, handler, doc>>
        /\ api[b] \in Version
    BY <1>3 DEF update, mongoVars
  <2>2. QED
    BY <1>1, <2>1, BeginAgrees
<1>4. CASE remove(k, b)
  <2>1. Begin(k, "deleted", b, NoVersion, "store") /\ UNCHANGED <<api, queue, handler, doc>>
        /\ api[b] \in Version
    BY <1>4 DEF remove, mongoVars
  <2>2. QED
    BY <1>1, <2>1, BeginAgrees
<1>5. QED
  BY <1>2, <1>3, <1>4

-----------------------------------------------------------------------------
LEMMA RestartAgrees == ASSUME SubscriberInv, AgreementInv, Stop \/ Start PROVE AgreementInv'
<1>1. CASE Start
  <2>1. UNCHANGED <<api, call, queue, handler, doc, disturbed>>
    BY <1>1 DEF Start, apiVars, mongoVars
  <2>2. ASSUME NEW b \in Bot, OnCourse(b) PROVE OnCourse(b)'
    <3>1. CallsApart(b) /\ HandlersApart(b) /\ RecordsApart(b)
      BY <2>1 DEF CallsApart, HandlersApart, RecordsApart
    <3>2. QED
      BY <2>1, <2>2, <3>1, QueueLeftAlone, Elsewhere
  <2>3. QED
    BY <2>1, <2>2 DEF AgreementInv
<1>2. CASE Stop
  <2>1. /\ queue' = [u \in Subject |-> <<>>] /\ handler' = [u \in Subject |-> Waiting]
        /\ disturbed' = disturbed \cup {b \in Bot : Queued(b) \/ Handling(b)}
        /\ UNCHANGED <<api, call, doc>>
    BY <1>2 DEF Stop, apiVars, mongoVars
  <2>2. ASSUME NEW b \in Bot, b \notin disturbed' PROVE OnCourse(b)'
    <3>1. NoMessages(b) /\ NoHandlers(b) /\ OnCourse(b)
      BY <2>1, <2>2 DEF AgreementInv, Queued, Handling, NoMessages, NoHandlers
    <3>2. NoMessages(b)' /\ NoHandlers(b)'
      <4>1. Len(<<>>) = 0 /\ Waiting.bot # b
        BY ConstantsOK DEF Waiting
      <4>2. \A i \in 1..0 : FALSE
        OBVIOUS
      <4>3. QED
        BY <2>1, <4>1, <4>2 DEF NoMessages, NoHandlers
    <3>3. HandlersApart(b)
      BY <2>1, <3>1, <3>2 DEF NoHandlers, HandlersApart
    <3>4. QueueApart(b)
      BY <3>1, <3>2 DEF QueueApart, NoMessages, OnlyMessage
    <3>5. CallsApart(b) /\ RecordsApart(b)
      BY <2>1 DEF CallsApart, RecordsApart
    <3>6. QED
      BY <3>1, <3>3, <3>4, <3>5, Elsewhere
  <2>3. QED
    BY <2>2 DEF AgreementInv
<1>3. QED
  BY <1>1, <1>2

LEMMA AgreementStep == SubscriberInv /\ AgreementInv /\ [Next]_vars => AgreementInv'
<1> SUFFICES ASSUME SubscriberInv, AgreementInv, [Next]_vars PROVE AgreementInv'
  OBVIOUS
<1>1. CASE UNCHANGED vars
  <2>1. UNCHANGED <<api, call, queue, handler, doc, disturbed>>
    BY <1>1 DEF vars
  <2>2. ASSUME NEW b \in Bot, OnCourse(b) PROVE OnCourse(b)'
    <3>1. CallsApart(b) /\ HandlersApart(b) /\ RecordsApart(b)
      BY <2>1 DEF CallsApart, HandlersApart, RecordsApart
    <3>2. QED
      BY <2>1, <2>2, <3>1, QueueLeftAlone, Elsewhere
  <2>3. QED
    BY <2>1, <2>2 DEF AgreementInv
<1>2. ASSUME NEW k \in Call, Request(k) PROVE AgreementInv'
  BY <1>2, StoreAgrees, RereadAgrees, PublishAgrees, UnpublishedAgrees DEF Request
<1>3. CASE Requests
  BY <1>2, <1>3, ArrivalAgrees DEF Requests
<1>4. CASE Handlers
  BY <1>4, ReceiveAgrees, ClaimAgrees, NoRoomAgrees, NumberAgrees, UpsertAgrees,
     HandlerFailsAgrees, LookAgrees, SetBotAgrees, DeleteBotAgrees, DecrementAgrees DEF Handlers
<1>5. QED
  BY <1>1, <1>3, <1>4, RestartAgrees DEF Next

LEMMA AgreementInvariant == Spec => []AgreementInv
<1>1. Init => AgreementInv
  <2> SUFFICES ASSUME Init, NEW b \in Bot PROVE Still(b)
    BY DEF AgreementInv, OnCourse
  <2>1. \A u \in Subject : Len(queue[u]) = 0
    BY DEF Init
  <2>2. NoMessages(b)
    <3>1. \A i \in 1..0 : FALSE
      OBVIOUS
    <3>2. QED
      BY <2>1, <3>1 DEF NoMessages
  <2>3. NoCalls(b) /\ NoHandlers(b) /\ Agree(b)
    BY ConstantsOK DEF Init, NoCalls, NoCall, NoHandlers, Waiting, Agree, Stored
  <2>4. QED
    BY <2>2, <2>3 DEF Still
<1>2. QED
  BY <1>1, AgreementStep, SubscriberInvariant, PTL DEF Spec

LEMMA AgreementIsEnough == ASSUME AgreementInv PROVE AgreesUnlessDisturbed
<1>1. ASSUME NEW b \in Bot, OnCourse(b), ~InFlight(b) PROVE Agree(b)
  BY <1>1 DEF OnCourse, Still, InCall, OnlyCall, InQueue, OnlyMessage, InHandler, OnlyHandler,
     InFlight, Queued, Handling
<1>2. QED
  BY <1>1 DEF AgreementInv, AgreesUnlessDisturbed

\* Whatever order the API's calls, the events and the handlers' steps come in: once nothing about
\* a bot is under way, MongoDB has the version the API stored last, and no bot that the API deleted,
\* unless an event was lost, a step failed or requests for the bot overlapped.
THEOREM RuntimeFollowsTheApi == Spec => []AgreesUnlessDisturbed
  BY AgreementInvariant, AgreementIsEnough, PTL

-----------------------------------------------------------------------------
(* The refinement of Follower.                                                 *)

\* The two databases as Follower has them: they agree of a bot where the records do.
Mapped ==
  /\ Rows \in Record!States /\ Copies \in Record!States
  /\ \A b \in Bot : Agree(b) => Copies[b] = Rows[b]

LEMMA RecordsAre == SubscriberInv => Mapped
<1> SUFFICES ASSUME SubscriberInv PROVE Mapped
  OBVIOUS
<1>1. Rows \in Record!States
  BY DEF Rows, Record!States
<1>2. ASSUME NEW b \in Bot PROVE Copies[b] \in Version \cup {NoVersion}
  BY DEF Copies, Stored, SubscriberInv, Carried, Doc
<1>3. Copies \in Record!States
  BY <1>2 DEF Copies, Record!States
<1>4. ASSUME NEW b \in Bot, Agree(b) PROVE Copies[b] = Rows[b]
  BY <1>4 DEF Agree, Copies, Rows
<1>5. QED
  BY <1>1, <1>3, <1>4 DEF Mapped

\* A bot whose records a step leaves alone.
LEMMA RecordStays ==
  ASSUME NEW b \in Bot, api'[b] = api[b], doc'[b] = doc[b]
  PROVE  Rows'[b] = Rows[b] /\ Copies'[b] = Copies[b]
  BY DEF Rows, Copies, Stored

\* A step that leaves both databases alone.
LEMMA NothingFollows ==
  ASSUME SubscriberInv, SubscriberInv', UNCHANGED <<api, doc>>, disturbed \subseteq disturbed'
  PROVE  [Record!Next]_(Record!followerVars)
<1>1. Rows' = Rows /\ Copies' = Copies
  BY DEF Rows, Copies, Stored
<1>2. CASE disturbed' = disturbed
  BY <1>1, <1>2 DEF Record!followerVars
<1>3. CASE disturbed' # disturbed
  <2>1. disturbed' \subseteq Bot
    BY DEF SubscriberInv, Carried
  <2>2. PICK b \in Bot : b \in disturbed'
    BY <1>3, <2>1
  <2>3. Record!Next
    BY <1>1, <2>1, <2>2, RecordsAre DEF Mapped, Record!Next, Record!Stays
  <2>4. QED
    BY <2>3
<1>4. QED
  BY <1>2, <1>3

\* A step that changes the records of one bot: it has come loose, or agreed before the API
\* changed it, or agrees now that MongoDB has.
LEMMA OneFollows ==
  ASSUME SubscriberInv, SubscriberInv', disturbed \subseteq disturbed', NEW b \in Bot,
         \A c \in Bot \ {b} : api'[c] = api[c] /\ doc'[c] = doc[c],
         \/ b \in disturbed'
         \/ Agree(b) /\ doc'[b] = doc[b]
         \/ Agree(b)' /\ api'[b] = api[b]
  PROVE  [Record!Next]_(Record!followerVars)
<1>0. Mapped /\ Mapped'
  BY RecordsAre, PTL
<1>1. Rows' \in Record!States /\ Copies' \in Record!States /\ disturbed' \subseteq Bot
  <2>1. disturbed' \subseteq Bot
    BY DEF SubscriberInv, Carried
  <2>2. QED
    BY <1>0, <2>1 DEF Mapped
<1>2. \A c \in Bot \ {b} : Record!Stays(c)
  BY RecordStays DEF Record!Stays
<1>3. b \in disturbed' \/ Record!Changes(b) \/ Record!Follows(b)
  <2>1. CASE Agree(b) /\ doc'[b] = doc[b]
    <3>1. Copies'[b] = Copies[b]
      BY <2>1 DEF Copies, Stored
    <3>2. QED
      BY <1>0, <2>1, <3>1 DEF Mapped, Record!Changes
  <2>2. CASE Agree(b)' /\ api'[b] = api[b]
    <3>1. Rows'[b] = Rows[b]
      BY <2>2 DEF Rows
    <3>2. Copies'[b] = Rows'[b]
      BY <1>0, <2>2 DEF Mapped
    <3>3. QED
      BY <3>1, <3>2 DEF Record!Follows
  <2>3. QED
    BY <2>1, <2>2
<1>4. QED
  BY <1>1, <1>2, <1>3 DEF Record!Next

LEMMA CallsFollow ==
  ASSUME SubscriberInv, SubscriberInv', AgreementInv, Requests
  PROVE  [Record!Next]_(Record!followerVars)
<1>1. ASSUME NEW k \in Call, Store(k) PROVE [Record!Next]_(Record!followerVars)
  <2>1. /\ call[k].bot \in Bot /\ call[k].pc = "store" /\ UNCHANGED <<doc, disturbed>>
        /\ \A c \in Bot \ {call[k].bot} : api'[c] = api[c]
    BY <1>1, CallGoesOn DEF Store, mongoVars, SubscriberInv, Carried
  <2>2. call[k].bot \in disturbed \/ Agree(call[k].bot)
    BY <2>1, TheCall DEF AgreementInv, InCall, AskedFor
  <2>3. QED
    BY <2>1, <2>2, OneFollows
<1>2. ASSUME NEW k \in Call, Reread(k) \/ Publish(k) \/ PublishUnheard(k) \/ PublishFails(k)
      PROVE  [Record!Next]_(Record!followerVars)
  <2>1. UNCHANGED <<api, doc>> /\ disturbed \subseteq disturbed'
    BY <1>2 DEF Reread, Publish, PublishUnheard, PublishFails, mongoVars
  <2>2. QED
    BY <2>1, NothingFollows
<1>3. ASSUME NEW k \in Call, NEW b \in Bot,
             remove(k, b) \/ \E v \in Version : update(k, b, v)
      PROVE  [Record!Next]_(Record!followerVars)
  <2>1. UNCHANGED <<api, doc>> /\ disturbed \subseteq disturbed'
    BY <1>3 DEF remove, update, Begin, mongoVars
  <2>2. QED
    BY <2>1, NothingFollows
<1>4. ASSUME NEW k \in Call, NEW b \in Bot, NEW v \in Version, create(k, b, v)
      PROVE  [Record!Next]_(Record!followerVars)
  <2>1. /\ UNCHANGED doc /\ \A c \in Bot \ {b} : api'[c] = api[c]
        /\ disturbed' = IF InFlight(b) THEN disturbed \cup {b} ELSE disturbed
    BY <1>4 DEF create, Begin, mongoVars, SubscriberInv, Carried
  <2>2. b \in disturbed' \/ Agree(b)
    BY <2>1, AgreementIsEnough DEF AgreesUnlessDisturbed
  <2>3. QED
    BY <2>1, <2>2, OneFollows
<1>5. QED
  BY <1>1, <1>2, <1>3, <1>4 DEF Requests, Request

LEMMA WriteFollows ==
  ASSUME SubscriberInv, SubscriberInv', AgreementInv, NEW u \in Subject, Writes(u)
  PROVE  [Record!Next]_(Record!followerVars)
<1>1. PICK b \in Bot : b = handler[u].bot
  BY DEF Writes
<1>2. UNCHANGED <<api, disturbed>> /\ \A c \in Bot \ {b} : doc'[c] = doc[c]
  BY <1>1 DEF Writes, apiVars
<1>3. b \in disturbed \/ Agree(b)'
  BY <1>1, TheHandler DEF AgreementInv, InHandler, Writes
<1>4. QED
  BY <1>2, <1>3, OneFollows

LEMMA HandlersFollow ==
  ASSUME SubscriberInv, SubscriberInv', AgreementInv, Handlers
  PROVE  [Record!Next]_(Record!followerVars)
<1>1. ASSUME NEW u \in Subject, upsertBot(u) PROVE [Record!Next]_(Record!followerVars)
  BY <1>1, UpsertWrites, WriteFollows
<1>2. CASE SetBot
  BY <1>2, SetBotWrites, WriteFollows DEF Subject
<1>3. CASE DeleteBot
  BY <1>3, DeleteBotWrites, WriteFollows DEF Subject
<1>4. ASSUME NEW u \in Subject,
             \/ Receive(u) \/ ClaimPartition(u) \/ NoRoom(u) \/ getNextSequenceValue(u)
             \/ InsertPartition(u) \/ HandlerFails(u)
      PROVE  [Record!Next]_(Record!followerVars)
  <2>1. UNCHANGED <<api, doc>> /\ disturbed \subseteq disturbed'
    BY <1>4 DEF Receive, ClaimPartition, NoRoom, getNextSequenceValue, InsertPartition,
       HandlerFails, apiVars, mongoVars
  <2>2. QED
    BY <2>1, NothingFollows
<1>5. CASE handleCreate \/ handleUpdate \/ handleDelete \/ DecrementPartition
  <2>1. UNCHANGED <<api, doc>> /\ disturbed \subseteq disturbed'
    BY <1>5 DEF handleCreate, handleUpdate, handleDelete, DecrementPartition, apiVars, mongoVars
  <2>2. QED
    BY <2>1, NothingFollows
<1>6. QED
  BY <1>1, <1>2, <1>3, <1>4, <1>5 DEF Handlers

LEMMA RecordStep ==
  SubscriberInv /\ AgreementInv /\ [Next]_vars => [Record!Next]_(Record!followerVars)
<1> SUFFICES ASSUME SubscriberInv, AgreementInv, [Next]_vars
             PROVE  [Record!Next]_(Record!followerVars)
  OBVIOUS
<1>1. SubscriberInv'
  BY SubscriberStep
<1>2. CASE Stop \/ Start \/ UNCHANGED vars
  <2>1. UNCHANGED <<api, doc>> /\ disturbed \subseteq disturbed'
    BY <1>2 DEF Stop, Start, vars, apiVars, mongoVars
  <2>2. QED
    BY <1>1, <2>1, NothingFollows
<1>3. QED
  BY <1>1, <1>2, CallsFollow, HandlersFollow DEF Next

\* The handlers of NATSSubscriber do what Follower allows: of every bot that no lost event,
\* failed step or overlapping request has put at risk, MongoDB takes over each change before
\* the API makes the next, and has no other version than the API's, now or before its change.
THEOREM SubscriberImplementsFollower == Spec => ImplementsFollower
<1>1. Init => Record!Init
  BY ConstantsOK DEF Init, Record!Init, Rows, Copies, Stored
<1>2. QED
  BY <1>1, RecordStep, SubscriberInvariant, AgreementInvariant, PTL
  DEF Spec, ImplementsFollower, Record!Spec
=============================================================================
