--------------------------- MODULE McpStdioProofs ---------------------------
(***************************************************************************)
(* Theorems about McpStdio for every set of callers, every number of pages *)
(* and every way calls, changes, timeouts and cancellations interleave: the *)
(* fetch lock and the session belong to whom they should, a reply reaches  *)
(* the request it was made for, whoever waits is known to a reader that    *)
(* runs, and the cache holds no page from before a change that was         *)
(* handled.                                                                *)
(***************************************************************************)
EXTENDS McpStdio, FiniteSets, FiniteSetTheorems, FunctionTheorems, TLAPS

Methods == {"none", "discover", "initialize", "list", "tool"}
Places == {"idle", "connecting", "writing", "waiting", "locking", "publishing"}

Entry == [id : Nat, serial : Nat, by : Callers]
Line == [id : Nat, serial : Nat, method : Methods]
Item == [kind : {"response", "changed"}, id : Nat, reply : Replies]

Output == Seq(Item)
PageList == Seq(Nat)

Transport == [pending : SUBSET Entry, calls : Nat, reader : BOOLEAN, torn : BOOLEAN]
Process == [running : BOOLEAN, version : 0..MaxChanges, inbox : SUBSET Line, outbox : Output]
Cached == [cache : PageList, generation : Nat, fetching : Callers \cup {Nobody},
           bumping : Nat, clearing : Nat]
Future == [at : Places, goal : {"none", "list", "tool"}, method : Methods, id : Nat,
           serial : Nat, replied : BOOLEAN, reply : Replies, pages : PageList,
           generation : Nat]

\* Every variable is a record of the fields the code keeps.
Typed ==
    /\ mode \in Modes
    /\ session \in [at : {"empty", "filling", "full"}, by : Callers \cup {Nobody}]
    /\ inner \in Transport /\ server \in Process /\ client \in Cached
    /\ caller \in [Callers -> Future]
    /\ begins \in 0..MaxBegins /\ outlived \in BOOLEAN

InFlight(c) == caller[c].at \in {"writing", "waiting"}

\* A caller without a request has nothing of one.
CallersInv ==
    \A c \in Callers :
       /\ caller[c].at \in {"idle", "connecting", "locking"} =>
             caller[c].method = "none" /\ caller[c].pages = <<>>
       /\ ~ InFlight(c) => caller[c].reply = NoReply
       /\ caller[c].at = "publishing" =>
             caller[c].method = "list" /\ Len(caller[c].pages) = Pages
       /\ InFlight(c) => caller[c].method # "none" /\ Len(caller[c].pages) < Pages

\* Until the session is full only who fills it has a request.
SessionInv ==
    /\ session.at = "filling" <=> session.by # Nobody
    /\ \A c \in Callers :
          /\ Shaking(c) <=> session.by = c
          /\ session.at # "full" /\ session.by # c => caller[c].at \in {"idle", "connecting"}

LockInv == \A c \in Callers : Fetching(c) <=> client.fetching = c

OwnerInv == CallersInv /\ SessionInv /\ LockInv

IsEntry(p, c) == p.by = c /\ p.serial = caller[c].serial

\* Ids follow the serial numbers of the requests: in the pending table, whose entry of a
\* request goes with the reply to it, in the pipes, and with the callers.
TableInv ==
    \A p \in inner.pending :
       /\ p.id = p.serial /\ p.id \in 1..inner.calls
       /\ IsEntry(p, p.by) => InFlight(p.by) /\ ~ caller[p.by].replied

PipesInv ==
    /\ \A r \in server.inbox : r.id = r.serial /\ r.id \in 1..inner.calls
    /\ \A i \in 1..Len(server.outbox) :
          server.outbox[i].kind = "response" =>
             /\ server.outbox[i].id = server.outbox[i].reply.told
             /\ server.outbox[i].id \in 1..inner.calls

SerialsInv ==
    \A c \in Callers :
       /\ caller[c].id = caller[c].serial
       /\ InFlight(c) => caller[c].serial \in 1..inner.calls

\* Two requests under way never share an id.
RequestsDistinct ==
    \A c, d \in Callers :
       InFlight(c) /\ InFlight(d) /\ caller[c].id = caller[d].id => c = d

IdsInv == TableInv /\ PipesInv /\ SerialsInv /\ RequestsDistinct /\ AnswersMatch

\* Whoever waits is in the pending table.
WaitersInv ==
    \A c \in Callers :
       InFlight(c) /\ ~ caller[c].replied => \E p \in inner.pending : IsEntry(p, c)

\* The reader of a server that runs runs, unless it may fail, and so does that of one
\* who waits.
ReaderInv ==
    /\ server.running => inner.reader
    /\ \A c \in Callers : caller[c].at = "waiting" /\ ~ caller[c].replied => inner.reader

ChangedAt == {i \in 1..Len(server.outbox) : server.outbox[i].kind = "changed"}

\* Every change of the list is counted, being counted or still to be read.
CountInv ==
    client.generation + client.bumping + Cardinality(ChangedAt) = server.version

\* The server is asked what the caller means.
InboxInv ==
    \A r \in server.inbox, c \in Callers :
       InFlight(c) /\ r.id = caller[c].id => r.method = caller[c].method

\* No page is from the future, and none that a caller holds, or is about to be told,
\* from before the changes counted when it began to fetch.
OutboxInv == \A i \in 1..Len(server.outbox) : server.outbox[i].reply.page <= server.version

FetchInv(c) ==
    /\ caller[c].reply.page <= server.version
    /\ \A k \in 1..Len(caller[c].pages) :
          /\ caller[c].generation <= caller[c].pages[k]
          /\ caller[c].pages[k] <= server.version
    /\ InFlight(c) /\ caller[c].method = "list" =>
          /\ caller[c].generation <= server.version
          /\ caller[c].reply.ok => caller[c].generation <= caller[c].reply.page
          /\ \A i \in 1..Len(server.outbox) :
                server.outbox[i].kind = "response" /\ server.outbox[i].id = caller[c].id
                => caller[c].generation <= server.outbox[i].reply.page

CacheInv ==
    /\ client.cache = <<>> \/ Len(client.cache) = Pages
    /\ \A k \in 1..Len(client.cache) :
          /\ client.cache[k] <= server.version
          /\ client.clearing = 0 => client.generation <= client.cache[k]

PagesInv == InboxInv /\ OutboxInv /\ CacheInv /\ \A c \in Callers : FetchInv(c)

-----------------------------------------------------------------------------
(* Types.                                                                  *)

LEMMA Parameters ==
    /\ Modes \subseteq {"legacy", "auto", "modern"}
    /\ Pages \in Nat /\ Pages > 0 /\ MaxBegins \in Nat /\ MaxChanges \in Nat
    /\ TimesOut \in BOOLEAN /\ CanCancel \in BOOLEAN /\ CanTear \in BOOLEAN
    /\ CanMisread \in BOOLEAN
    /\ Nobody \notin Callers
BY ConfigAssumption DEF ConfigAssumption

LEMMA NoPages == <<>> \in PageList /\ <<>> \in Output
BY DEF PageList, Output

LEMMA Blanks ==
    /\ NoReply \in Replies /\ Error \in Replies
    /\ Idle \in Future /\ Inner \in Transport /\ Server \in Process /\ Client \in Cached
    /\ [Server EXCEPT !.running = FALSE] \in Process
<1>1. NoReply \in Replies /\ Error \in Replies
  BY DEF NoReply, Error, Replies
<1>2. Idle \in Future
  BY <1>1, NoPages DEF Idle, Future, Places, Methods
<1>3. Inner \in Transport
  BY DEF Inner, Transport
<1>4. Server \in Process /\ [Server EXCEPT !.running = FALSE] \in Process
  <2>1. 0 \in 0..MaxChanges
    BY Parameters
  <2>2. QED
    BY <2>1, NoPages DEF Server, Process
<1>5. Client \in Cached
  BY NoPages DEF Client, Cached
<1>6. QED
  BY <1>1, <1>2, <1>3, <1>4, <1>5

LEMMA RequestTyped ==
    ASSUME Typed, NEW in \in Transport, NEW c \in Callers, NEW m \in Methods,
           NEW me \in Future, Request(in, c, m, me)
    PROVE  inner' \in Transport /\ caller' \in [Callers -> Future]
<1>1. in.calls + 1 \in Nat
  BY DEF Transport
<1>2. [id |-> in.calls + 1, serial |-> in.calls + 1, by |-> c] \in Entry
  BY <1>1 DEF Entry
<1>3. inner' \in Transport
  BY <1>1, <1>2 DEF Request, FreshId, Transport
<1>4. caller' \in [Callers -> Future]
  BY <1>1, Blanks DEF Request, FreshId, Typed, Future, Places
<1>5. QED
  BY <1>3, <1>4

LEMMA WithoutTyped ==
    ASSUME Typed, NEW id PROVE [inner EXCEPT !.pending = Without(id)] \in Transport
BY DEF Typed, Transport, Without

LEMMA ToldTyped ==
    ASSUME Typed, NEW entries, NEW reply \in Replies
    PROVE  Told(entries, reply) \in [Callers -> Future]
<1>1. \A c \in Callers : [caller[c] EXCEPT !.replied = TRUE, !.reply = reply] \in Future
  BY DEF Typed, Future
<1>2. QED
  BY <1>1 DEF Typed, Told

LEMMA ReturnedTyped ==
    ASSUME Typed, NEW c \in Callers
    PROVE  Returned(c) \in [Callers -> Future] /\ Unlocked(c) \in Cached
BY Blanks DEF Typed, Returned, Unlocked, Cached

LEMMA DropTyped ==
    ASSUME Typed, DropTransport
    PROVE  /\ session' \in [at : {"empty", "filling", "full"}, by : Callers \cup {Nobody}]
           /\ inner' \in Transport /\ server' \in Process /\ client' \in Cached
           /\ mode' = mode /\ begins' = begins /\ outlived' \in BOOLEAN
BY Blanks DEF Typed, DropTransport, Process, Transport

LEMMA OutboxTyped ==
    ASSUME Typed, server.outbox # <<>>
    PROVE  /\ Head(server.outbox) \in Item
           /\ Tail(server.outbox) \in Output
           /\ [server EXCEPT !.outbox = Tail(@)] \in Process
<1>1. server.outbox \in Seq(Item)
  BY DEF Typed, Process, Output
<1>2. Head(server.outbox) \in Item /\ Tail(server.outbox) \in Output
  BY <1>1 DEF Output
<1>3. QED
  BY <1>2 DEF Typed, Process

LEMMA TypedInit == Init => Typed
<1> SUFFICES ASSUME Init PROVE Typed
  OBVIOUS
<1>1. session \in [at : {"empty", "filling", "full"}, by : Callers \cup {Nobody}]
  BY DEF Init
<1>2. inner \in Transport /\ server \in Process /\ client \in Cached
  BY Blanks DEF Init
<1>3. caller \in [Callers -> Future]
  BY Blanks DEF Init
<1>4. mode \in Modes /\ begins \in 0..MaxBegins /\ outlived \in BOOLEAN
  <2>1. 0 \in 0..MaxBegins
    BY Parameters
  <2>2. QED
    BY <2>1 DEF Init
<1>5. QED
  BY <1>1, <1>2, <1>3, <1>4 DEF Typed

LEMMA TypedStep == ASSUME Typed, [Next]_vars PROVE Typed'
<1>a. caller \in [Callers -> Future]
  BY DEF Typed
<1>b. client \in Cached
  BY DEF Typed
<1>1. ASSUME NEW c \in Callers, Begin(c) PROVE Typed'
  <2>1. caller' \in [Callers -> Future]
    <3>1. PICK goal \in {"list", "tool"} :
             caller' = [caller EXCEPT ![c].at = "connecting", ![c].goal = goal]
      BY <1>1 DEF Begin
    <3>2. [caller[c] EXCEPT !.at = "connecting", !.goal = goal] \in Future
      BY <1>a DEF Future, Places
    <3>3. caller' = [caller EXCEPT ![c] =
                      [caller[c] EXCEPT !.at = "connecting", !.goal = goal]]
      BY <3>1, <1>a
    <3>4. QED
      BY <1>a, <3>2, <3>3
  <2>2. begins' \in 0..MaxBegins
    BY <1>1, Parameters DEF Typed, Begin
  <2>3. QED
    BY <1>1, <2>1, <2>2 DEF Typed, Begin
<1>2. ASSUME NEW c \in Callers, Connect(c) PROVE Typed'
  <2>1. caller[c] \in Future
    BY DEF Typed
  <2>2. inner' \in Transport /\ caller' \in [Callers -> Future]
    BY <1>2, <2>1, RequestTyped, Blanks DEF Connect, Methods
  <2>3. session' \in [at : {"empty", "filling", "full"}, by : Callers \cup {Nobody}]
    BY <1>2 DEF Connect
  <2>4. QED
    BY <1>2, <2>2, <2>3, Blanks DEF Typed, Connect
<1>3. ASSUME NEW c \in Callers, SpawnFails(c) PROVE Typed'
  BY <1>3, ReturnedTyped DEF Typed, SpawnFails
<1>4. ASSUME NEW c \in Callers, ConnectFails(c) PROVE Typed'
  <2>1. caller' \in [Callers -> Future]
    BY <1>4, ReturnedTyped DEF ConnectFails
  <2>2. QED
    BY <1>4, <2>1, DropTyped DEF Typed, ConnectFails
<1>5. ASSUME NEW c \in Callers, Connected(c) PROVE Typed'
  <2>1. session' \in [at : {"empty", "filling", "full"}, by : Callers \cup {Nobody}]
    BY <1>5 DEF Connected
  <2>2. caller[c].goal \in {"none", "list", "tool"}
    BY <1>a DEF Future
  <2>3. [Idle EXCEPT !.at = "connecting", !.goal = caller[c].goal] \in Future
    BY <2>2, Blanks DEF Future, Places
  <2>4. caller' \in [Callers -> Future]
    BY <1>5, <1>a, <2>3 DEF Connected
  <2>5. QED
    BY <1>5, <2>1, <2>4 DEF Typed, Connected
<1>6. ASSUME NEW c \in Callers, NEW m \in Methods, NEW me \in Future,
             Request(inner, c, m, me),
             UNCHANGED <<mode, session, server, client, begins, outlived>>
      PROVE  Typed'
  BY <1>6, RequestTyped DEF Typed
<1>7. ASSUME NEW c \in Callers, Discovered(c) PROVE Typed'
  <2>1. CASE caller[c].reply.ok /\ Connected(c)
    BY <2>1, <1>5
  <2>2. CASE ~ caller[c].reply.ok /\ mode = "modern" /\ ConnectFails(c)
    BY <2>2, <1>4
  <2>3. CASE /\ Request(inner, c, "initialize", caller[c])
             /\ UNCHANGED <<mode, session, server, client, begins, outlived>>
    BY <2>3, <1>6 DEF Typed, Methods
  <2>4. QED
    BY <1>7, <2>1, <2>2, <2>3 DEF Discovered
<1>8. ASSUME NEW c \in Callers, Initialized(c) PROVE Typed'
  BY <1>8, <1>4, <1>5 DEF Initialized
<1>9. ASSUME NEW c \in Callers, Write(c) PROVE Typed'
  <2>1. [id |-> caller[c].id, serial |-> caller[c].serial, method |-> caller[c].method] \in Line
    BY DEF Typed, Future, Line
  <2>2. server' \in Process
    BY <1>9, <2>1 DEF Typed, Write, Process
  <2>3. inner' \in Transport
    BY <1>9 DEF Typed, Write, Transport
  <2>4. caller' \in [Callers -> Future]
    BY <1>9, <1>a DEF Write, Future, Places
  <2>5. QED
    BY <1>9, <2>2, <2>3, <2>4 DEF Typed, Write
<1>10. ASSUME NEW c \in Callers, WriteFails(c) \/ Timeout(c) PROVE Typed'
  <2>1. inner' \in Transport
    BY <1>10, WithoutTyped DEF WriteFails, Timeout
  <2>2. caller' \in [Callers -> Future]
    <3>1. [caller[c] EXCEPT !.replied = TRUE, !.reply = Error] \in Future
      BY <1>a, Blanks DEF Future
    <3>2. [caller[c] EXCEPT !.at = "waiting", !.replied = TRUE, !.reply = Error] \in Future
      BY <1>a, Blanks DEF Future, Places
    <3>3. \/ caller' = [caller EXCEPT ![c] =
                          [caller[c] EXCEPT !.replied = TRUE, !.reply = Error]]
          \/ caller' = [caller EXCEPT ![c] =
                    [caller[c] EXCEPT !.at = "waiting", !.replied = TRUE, !.reply = Error]]
      BY <1>10, <1>a DEF WriteFails, Timeout
    <3>4. QED
      BY <1>a, <3>1, <3>2, <3>3
  <2>3. QED
    BY <1>10, <2>1, <2>2 DEF Typed, WriteFails, Timeout
<1>11. ASSUME NEW c \in Callers, CallTool(c) PROVE Typed'
  BY <1>11, <1>6 DEF CallTool, Typed, Methods
<1>12. ASSUME NEW c \in Callers, ToolCalled(c) \/ CheckCache(c) PROVE Typed'
  <2>1. caller' \in [Callers -> Future]
    <3>1. [caller EXCEPT ![c].at = "locking"] \in [Callers -> Future]
      BY <1>a DEF Future, Places
    <3>2. QED
      BY <1>12, <3>1, ReturnedTyped DEF ToolCalled, CheckCache
  <2>2. QED
    BY <1>12, <2>1 DEF Typed, ToolCalled, CheckCache
<1>13. ASSUME NEW c \in Callers, Lock(c) PROVE Typed'
  <2>1. CASE caller' = Returned(c) /\ UNCHANGED <<inner, client>>
    BY <1>13, <2>1, ReturnedTyped DEF Lock, Typed
  <2>2. CASE /\ client' = [client EXCEPT !.fetching = c]
             /\ Request(inner, c, "list", [caller[c] EXCEPT !.generation = client.generation])
    <3>1. [caller[c] EXCEPT !.generation = client.generation] \in Future
      BY DEF Typed, Future, Cached
    <3>2. inner' \in Transport /\ caller' \in [Callers -> Future]
      BY <2>2, <3>1, RequestTyped DEF Methods, Typed
    <3>3. client' \in Cached
      BY <2>2 DEF Typed, Cached
    <3>4. QED
      BY <1>13, <3>2, <3>3 DEF Lock, Typed
  <2>3. QED
    BY <1>13, <2>1, <2>2 DEF Lock
<1>14. ASSUME NEW c \in Callers, Listed(c) PROVE Typed'
  <2> DEFINE pages == Append(caller[c].pages, caller[c].reply.page)
             me == [caller[c] EXCEPT !.pages = pages]
  <2>1. me \in Future
    <3>1. caller[c] \in Future /\ caller[c].pages \in Seq(Nat) /\ caller[c].reply.page \in Nat
      BY DEF Typed, Future, Replies, PageList
    <3>2. pages \in PageList
      BY <3>1 DEF PageList
    <3>3. QED
      BY <3>1, <3>2 DEF Future
  <2>2. UNCHANGED <<mode, session, server, begins, outlived>>
    BY <1>14 DEF Listed
  <2>3. CASE caller' = Returned(c) /\ client' = Unlocked(c) /\ UNCHANGED inner
    BY <2>2, <2>3, ReturnedTyped DEF Typed
  <2>4. CASE UNCHANGED client /\ Request(inner, c, "list", me)
    <3>1. inner' \in Transport /\ caller' \in [Callers -> Future]
      BY <2>4, <2>1, RequestTyped DEF Methods, Typed
    <3>2. QED
      BY <2>2, <2>4, <3>1 DEF Typed
  <2>5. CASE /\ UNCHANGED <<client, inner>>
             /\ caller' = [caller EXCEPT ![c] =
                             [me EXCEPT !.at = "publishing", !.reply = NoReply]]
    <3>1. [me EXCEPT !.at = "publishing", !.reply = NoReply] \in Future
      BY <2>1, Blanks DEF Future, Places
    <3>2. caller' \in [Callers -> Future]
      BY <1>a, <2>5, <3>1
    <3>3. QED
      BY <2>2, <2>5, <3>2 DEF Typed
  <2>6. QED
    BY <1>14, <2>3, <2>4, <2>5 DEF Listed
<1>15. ASSUME NEW c \in Callers, Publish(c) PROVE Typed'
  <2>1. caller' \in [Callers -> Future]
    BY <1>15, ReturnedTyped DEF Publish
  <2>2. client' \in Cached
    BY <1>15 DEF Typed, Publish, Cached, Future
  <2>3. QED
    BY <1>15, <2>1, <2>2 DEF Typed, Publish
<1>16. ASSUME NEW c \in Callers, Cancel(c) PROVE Typed'
  <2>1. CASE ConnectFails(c)
    BY <2>1, <1>4
  <2>2. CASE /\ caller' = Returned(c) /\ client' = Unlocked(c)
             /\ \E tears \in {FALSE, CanTear /\ caller[c].at = "writing"} :
                   inner' = [inner EXCEPT !.torn = @ \/ tears]
             /\ UNCHANGED <<mode, session, server, begins, outlived>>
    <3>1. inner' \in Transport
      BY <2>2 DEF Typed, Transport
    <3>2. QED
      BY <2>2, <3>1, ReturnedTyped DEF Typed
  <2>3. QED
    BY <1>16, <2>1, <2>2 DEF Cancel
<1>17. CASE ReadResponse
  <2>1. Head(server.outbox).reply \in Replies
    BY <1>17, OutboxTyped DEF ReadResponse, Item
  <2>2. QED
    BY <1>17, <2>1, OutboxTyped, ToldTyped, WithoutTyped DEF Typed, ReadResponse
<1>18. CASE ReadNotification
  <2>1. client' \in Cached
    BY <1>18, <1>b DEF ReadNotification, Cached
  <2>2. QED
    BY <1>18, <2>1, OutboxTyped DEF Typed, ReadNotification
<1>19. CASE ReaderEnds
  <2>1. inner' \in Transport
    BY <1>19 DEF Typed, ReaderEnds, Transport
  <2>2. caller' \in [Callers -> Future]
    BY <1>19, Blanks, ToldTyped DEF ReaderEnds
  <2>3. QED
    BY <1>19, <2>1, <2>2 DEF Typed, ReaderEnds
<1>20. CASE Bump \/ Clear
  <2>1. client' \in Cached
    <3>1. CASE Bump
      <4>1. client.bumping - 1 \in Nat /\ client.clearing + 1 \in Nat /\ client.generation + 1 \in Nat
        BY <3>1, <1>b DEF Bump, Cached
      <4>2. QED
        BY <3>1, <4>1, <1>b DEF Bump, Cached
    <3>2. CASE Clear
      <4>1. client.clearing - 1 \in Nat
        BY <3>2, <1>b DEF Clear, Cached
      <4>2. QED
        BY <3>2, <4>1, <1>b, NoPages DEF Clear, Cached
    <3>3. QED
      BY <1>20, <3>1, <3>2
  <2>2. QED
    BY <1>20, <2>1 DEF Typed, Bump, Clear
<1>21. CASE Close \/ Exit
  BY <1>21 DEF Typed, Close, Exit, Stopped, Process
<1>22. CASE DropTool
  BY <1>22, DropTyped DEF DropTool, Typed
<1>23. CASE Answer
  <2>1. PICK r \in server.inbox, ok \in BOOLEAN :
           server' = [server EXCEPT
                !.inbox = @ \ {r},
                !.outbox = Append(@, [kind |-> "response", id |-> r.id,
                              reply |-> [ok |-> ok, told |-> r.serial,
                                        page |-> IF r.method = "list" THEN server.version ELSE 0]])]
    BY <1>23 DEF Answer
  <2>2. r \in Line /\ server.version \in Nat
    BY DEF Typed, Process
  <2>3. [kind |-> "response", id |-> r.id,
         reply |-> [ok |-> ok, told |-> r.serial,
                   page |-> IF r.method = "list" THEN server.version ELSE 0]] \in Item
    BY <2>2 DEF Line, Item, Replies
  <2>4. server' \in Process
    <3>1. \A x \in Item : Append(server.outbox, x) \in Output
      BY DEF Typed, Process, Output
    <3>2. QED
      BY <2>1, <2>3, <3>1 DEF Typed, Process
  <2>5. QED
    BY <1>23, <2>4 DEF Typed, Answer
<1>24. CASE Change
  <2>1. [kind |-> "changed", id |-> 0, reply |-> NoReply] \in Item
    BY Blanks DEF Item
  <2>2. server' \in Process
    <3>1. \A x \in Item : Append(server.outbox, x) \in Output
      BY DEF Typed, Process, Output
    <3>2. QED
      <4>1. server.version + 1 \in 0..MaxChanges
        BY <1>24, Parameters DEF Typed, Change, Process
      <4>2. server \in Process
        BY DEF Typed
      <4>3. QED
        BY <1>24, <2>1, <3>1, <4>1, <4>2 DEF Change, Process
  <2>3. QED
    BY <1>24, <2>2 DEF Typed, Change
<1>25. CASE UNCHANGED vars
  BY <1>25 DEF Typed, vars
<1>26. QED
  BY <1>1, <1>2, <1>3, <1>7, <1>8, <1>9, <1>10, <1>11, <1>12, <1>13, <1>14, <1>15, <1>16,
     <1>17, <1>18, <1>19, <1>20, <1>21, <1>22, <1>23, <1>24, <1>25 DEF Next, Proceed

-----------------------------------------------------------------------------
(* What the parts of the actions do to the callers.                        *)

LEMMA RequestEffect ==
    ASSUME Typed, NEW in \in Transport, NEW c \in Callers, NEW m \in Methods,
           NEW me \in Future, Request(in, c, m, me)
    PROVE  /\ \A d \in Callers : d # c => caller'[d] = caller[d]
           /\ caller'[c].at = "writing" /\ caller'[c].method = m
           /\ caller'[c].id = in.calls + 1 /\ caller'[c].serial = in.calls + 1
           /\ caller'[c].replied = FALSE /\ caller'[c].reply = NoReply
           /\ caller'[c].pages = me.pages /\ caller'[c].generation = me.generation
           /\ inner'.calls = in.calls + 1 /\ inner'.reader = in.reader
           /\ inner'.pending = in.pending \cup
                 {[id |-> in.calls + 1, serial |-> in.calls + 1, by |-> c]}
BY DEF Request, FreshId, Typed, Transport, Future

LEMMA RequestPages ==
    ASSUME Typed, NEW in \in Transport, NEW c \in Callers, NEW m \in Methods,
           NEW me \in Future, Request(in, c, m, me)
    PROVE  /\ caller'[c].at = "writing" /\ caller'[c].method = m
           /\ caller'[c].pages = me.pages
BY DEF Request, FreshId, Typed, Future

LEMMA ReturnedEffect ==
    ASSUME Typed, NEW c \in Callers, caller' = Returned(c)
    PROVE  (\A d \in Callers : d # c => caller'[d] = caller[d]) /\ caller'[c] = Idle
BY DEF Returned, Typed

LEMMA ToldEffect ==
    ASSUME Typed, NEW entries, NEW reply \in Replies, caller' = Told(entries, reply),
           NEW d \in Callers
    PROVE  /\ caller'[d].at = caller[d].at /\ caller'[d].method = caller[d].method
           /\ caller'[d].pages = caller[d].pages /\ caller'[d].id = caller[d].id
           /\ caller'[d].serial = caller[d].serial
           /\ caller'[d].generation = caller[d].generation
           /\ IF \E p \in entries : IsEntry(p, d)
              THEN caller'[d].replied /\ caller'[d].reply = reply
              ELSE caller'[d] = caller[d]
<1>1. caller[d] \in Future
  BY DEF Typed
<1>2. caller'[d] = IF \E p \in entries : IsEntry(p, d)
                   THEN [caller[d] EXCEPT !.replied = TRUE, !.reply = reply] ELSE caller[d]
  BY DEF Told, IsEntry
<1>3. QED
  BY <1>1, <1>2 DEF Future

LEMMA UnlockedEffect ==
    ASSUME Typed, NEW c \in Callers, client' = Unlocked(c)
    PROVE  /\ client'.fetching = IF client.fetching = c THEN Nobody ELSE client.fetching
           /\ client'.cache = client.cache /\ client'.generation = client.generation
           /\ client'.bumping = client.bumping /\ client'.clearing = client.clearing
BY DEF Unlocked, Typed, Cached

\* WriteFails and Timeout: the caller's entry is taken back, and it is told of an error.
LEMMA ErrorEffect ==
    ASSUME Typed, NEW c \in Callers, WriteFails(c) \/ Timeout(c)
    PROVE  /\ \A d \in Callers : d # c => caller'[d] = caller[d]
           /\ InFlight(c) /\ caller'[c].at = "waiting" /\ caller'[c].replied
           /\ caller'[c].reply = NoReply /\ caller'[c].method = caller[c].method
           /\ caller'[c].pages = caller[c].pages /\ caller'[c].id = caller[c].id
           /\ caller'[c].serial = caller[c].serial
           /\ caller'[c].generation = caller[c].generation
           /\ inner' = [inner EXCEPT !.pending = Without(caller[c].id)]
           /\ UNCHANGED <<mode, session, server, client, begins, outlived>>
<1>1. caller \in [Callers -> Future] /\ caller[c] \in Future
  BY DEF Typed
<1>2. \/ caller' = [caller EXCEPT ![c] = [caller[c] EXCEPT !.replied = TRUE, !.reply = Error]]
      \/ caller' = [caller EXCEPT ![c] =
                [caller[c] EXCEPT !.at = "waiting", !.replied = TRUE, !.reply = Error]]
  BY <1>1 DEF WriteFails, Timeout
<1>3. WriteFails(c) => caller' = [caller EXCEPT ![c] =
                [caller[c] EXCEPT !.at = "waiting", !.replied = TRUE, !.reply = Error]]
  BY <1>1 DEF WriteFails
<1>4. QED
  BY <1>1, <1>2, <1>3 DEF WriteFails, Timeout, Future, InFlight, Error

LEMMA ConnectedEffect ==
    ASSUME Typed, NEW c \in Callers, Connected(c)
    PROVE  /\ \A d \in Callers : d # c => caller'[d] = caller[d]
           /\ caller'[c] = [Idle EXCEPT !.at = "connecting", !.goal = caller[c].goal]
           /\ session' = [at |-> "full", by |-> Nobody]
           /\ UNCHANGED <<mode, inner, server, client, begins, outlived>>
BY DEF Connected, Typed

\* A caller that connects, by its fields.
LEMMA Blank ==
    /\ NoReply.told = 0 /\ NoReply.page = 0 /\ ~ NoReply.ok
    /\ Idle.at = "idle" /\ Idle.method = "none" /\ Idle.pages = <<>> /\ Idle.reply = NoReply
    /\ Idle.id = 0 /\ Idle.serial = 0
    /\ \A g : LET me == [Idle EXCEPT !.at = "connecting", !.goal = g]
             IN  /\ me.at = "connecting" /\ me.method = "none" /\ me.pages = <<>>
                 /\ me.reply = NoReply /\ me.id = 0 /\ me.serial = 0
    /\ Client.fetching = Nobody /\ Client.cache = <<>> /\ Client.generation = 0
    /\ Client.bumping = 0 /\ Client.clearing = 0
    /\ Inner.pending = {} /\ Inner.calls = 0 /\ Inner.reader
    /\ Server.version = 0 /\ Server.inbox = {} /\ Server.outbox = <<>> /\ Server.running
BY DEF Idle, Client, NoReply, Inner, Server

-----------------------------------------------------------------------------
(* Who holds the session and the fetch lock.                               *)

LEMMA OwnerInit == Init => OwnerInv
<1> SUFFICES ASSUME Init PROVE OwnerInv
  OBVIOUS
<1>1. \A c \in Callers : caller[c] = Idle
  BY DEF Init
<1>2. session.at = "empty" /\ session.by = Nobody /\ client.fetching = Nobody
  BY Blank DEF Init
<1>3. QED
  BY <1>1, <1>2, Blank, Parameters DEF OwnerInv, CallersInv, SessionInv, LockInv, InFlight,
     Shaking, Fetching

\* A handshake that fails leaves everyone as before a first connection.
LEMMA ConnectFailsOwner ==
    ASSUME Typed, OwnerInv, NEW c \in Callers, session.by = c, ConnectFails(c)
    PROVE  /\ OwnerInv' /\ client' = Client
           /\ \A d \in Callers : caller'[d].at \in {"idle", "connecting"}
<1>1. \A d \in Callers : d # c => caller'[d] = caller[d]
  BY ReturnedEffect DEF ConnectFails
<1>2. caller'[c] = Idle
  BY ReturnedEffect DEF ConnectFails
<1>3. session' = [at |-> "empty", by |-> Nobody] /\ client' = Client
  BY DEF ConnectFails, DropTransport
<1>4. session.at = "filling"
  BY Parameters DEF OwnerInv, SessionInv
<1>5. \A d \in Callers : d # c => caller[d].at \in {"idle", "connecting"}
  BY <1>4 DEF OwnerInv, SessionInv
<1>6. \A d \in Callers : caller'[d].at \in {"idle", "connecting"}
  BY <1>1, <1>2, <1>5, Blank
<1>7. \A d \in Callers : caller'[d].method = "none" /\ caller'[d].pages = <<>>
                        /\ caller'[d].reply = NoReply
  BY <1>1, <1>2, <1>5, Blank DEF OwnerInv, CallersInv, InFlight
<1>8. QED
  BY <1>3, <1>6, <1>7, Blank, Parameters
     DEF OwnerInv, CallersInv, SessionInv, LockInv, InFlight, Shaking, Fetching

LEMMA OwnerStep == ASSUME Typed, OwnerInv, IdsInv, [Next]_vars PROVE OwnerInv'
<1>a. caller \in [Callers -> Future] /\ inner \in Transport /\ client \in Cached
  BY DEF Typed
<1>1. ASSUME NEW c \in Callers, Begin(c) PROVE OwnerInv'
  BY <1>1, <1>a DEF Begin, Future, OwnerInv, CallersInv, SessionInv, LockInv, InFlight,
     Shaking, Fetching
<1>2. ASSUME NEW c \in Callers, Connect(c) PROVE OwnerInv'
  <2>1. PICK m \in {"discover", "initialize"} : Request(Inner, c, m, caller[c])
    BY <1>2 DEF Connect
  <2>2. m \in Methods /\ caller[c] \in Future
    BY <1>a DEF Methods
  <2>3. session'.at = "filling" /\ session'.by = c /\ client'.fetching = Nobody
    BY <1>2, Blank DEF Connect
  <2>4. \A d \in Callers : d # c => caller'[d] = caller[d]
    BY <2>1, <2>2, RequestEffect, Blanks
  <2>5. caller'[c].at = "writing" /\ caller'[c].method = m /\ caller'[c].pages = caller[c].pages
    BY <2>1, <2>2, RequestPages, Blanks
  <2>6. session.at = "empty" /\ session.by = Nobody /\ caller[c].pages = <<>>
    BY <1>2 DEF Connect, OwnerInv, CallersInv, SessionInv
  <2>7. QED
    BY <2>3, <2>4, <2>5, <2>6, Parameters DEF OwnerInv, CallersInv, SessionInv, LockInv,
       InFlight, Shaking, Fetching
<1>3. ASSUME NEW c \in Callers, caller[c].at \in {"connecting", "locking"},
             UNCHANGED <<session, client>>, caller' = Returned(c)
      PROVE  OwnerInv'
  BY <1>3, ReturnedEffect, Blank DEF OwnerInv, CallersInv, SessionInv, LockInv, InFlight,
     Shaking, Fetching
<1>4. ASSUME NEW c \in Callers, session.by = c, ConnectFails(c) PROVE OwnerInv'
  BY <1>4, ConnectFailsOwner
<1>5. ASSUME NEW c \in Callers, session.by = c, Connected(c) PROVE OwnerInv'
  <2>1. session'.at = "full" /\ session'.by = Nobody /\ client' = client
    BY <1>5 DEF Connected
  <2>2. \A d \in Callers : d # c => caller'[d] = caller[d]
    BY <1>5, ConnectedEffect
  <2>3. caller'[c].at = "connecting" /\ caller'[c].method = "none" /\ caller'[c].pages = <<>>
        /\ caller'[c].reply = NoReply
    <3>1. caller'[c] = [Idle EXCEPT !.at = "connecting", !.goal = caller[c].goal]
      BY <1>5, ConnectedEffect
    <3>2. QED
      BY <3>1, Blank
  <2>4. QED
    BY <1>5, <2>1, <2>2, <2>3, Parameters DEF OwnerInv, CallersInv, SessionInv, LockInv,
       InFlight, Shaking, Fetching
<1>6. ASSUME NEW c \in Callers, NEW m \in Methods \ {"none"}, NEW me \in Future,
             Request(inner, c, m, me), Len(me.pages) < Pages,
             session' = session, m \in {"discover", "initialize"} <=> session.by = c,
             session.at = "full" \/ session.by = c,
             client'.fetching = IF m = "list" THEN c ELSE client.fetching,
             m = "list" => client.fetching \in {c, Nobody},
             m # "list" => client.fetching # c
      PROVE  OwnerInv'
  <2>1. \A d \in Callers : d # c => caller'[d] = caller[d]
    BY <1>6, <1>a, RequestEffect
  <2>2. caller'[c].at = "writing" /\ caller'[c].method = m /\ caller'[c].pages = me.pages
    BY <1>6, <1>a, RequestPages
  <2>3. QED
    BY <1>6, <2>1, <2>2, Parameters DEF OwnerInv, CallersInv, SessionInv, LockInv,
       InFlight, Shaking, Fetching
<1>7. ASSUME NEW c \in Callers, Discovered(c) PROVE OwnerInv'
  <2>1. session.by = c /\ ~ Fetching(c) /\ Len(caller[c].pages) < Pages
    BY <1>7 DEF Discovered, Replied, OwnerInv, CallersInv, SessionInv, LockInv, InFlight,
       Shaking, Fetching
  <2>2. CASE Connected(c)
    BY <2>1, <2>2, <1>5
  <2>3. CASE ConnectFails(c)
    BY <2>1, <2>3, <1>4
  <2>4. CASE /\ Request(inner, c, "initialize", caller[c])
             /\ UNCHANGED <<mode, session, server, client, begins, outlived>>
    <3>1. session.by # Nobody /\ client.fetching # c
      BY <2>1, Parameters DEF OwnerInv, LockInv
    <3>2. caller[c] \in Future /\ "initialize" \in Methods \ {"none"}
      BY <1>a DEF Methods
    <3>3. session' = session /\ client' = client
      BY <2>4
    <3>4. QED
      BY <2>1, <2>4, <1>6, <3>1, <3>2, <3>3
  <2>5. QED
    BY <1>7, <2>2, <2>3, <2>4 DEF Discovered
<1>8. ASSUME NEW c \in Callers, Initialized(c) PROVE OwnerInv'
  <2>1. session.by = c
    BY <1>8 DEF Initialized, Replied, Shaking, OwnerInv, SessionInv
  <2>2. QED
    BY <1>8, <2>1, <1>4, <1>5 DEF Initialized
<1>9. ASSUME NEW c \in Callers, Write(c) PROVE OwnerInv'
  BY <1>9, <1>a DEF Write, Future, OwnerInv, CallersInv, SessionInv, LockInv, InFlight,
     Shaking, Fetching
<1>10. ASSUME NEW c \in Callers, WriteFails(c) \/ Timeout(c) PROVE OwnerInv'
  BY <1>10, ErrorEffect DEF OwnerInv, CallersInv, SessionInv, LockInv, InFlight, Shaking,
     Fetching
<1>11. ASSUME NEW c \in Callers, CallTool(c) PROVE OwnerInv'
  <2>1. caller[c].pages = <<>> /\ session.by # c /\ client.fetching # c /\ session.at = "full"
    BY <1>11 DEF CallTool, OwnerInv, CallersInv, SessionInv, LockInv, InFlight, Shaking,
       Fetching
  <2>2. QED
    BY <1>11, <1>a, <2>1, <1>6, Parameters DEF CallTool, Methods
<1>12. ASSUME NEW c \in Callers, ToolCalled(c) PROVE OwnerInv'
  BY <1>12, ReturnedEffect, Blank DEF ToolCalled, Replied, OwnerInv, CallersInv,
     SessionInv, LockInv, InFlight, Shaking, Fetching
<1>13. ASSUME NEW c \in Callers, CheckCache(c) PROVE OwnerInv'
  <2>1. CASE caller' = Returned(c)
    BY <1>13, <2>1, <1>3 DEF CheckCache
  <2>2. CASE caller' = [caller EXCEPT ![c].at = "locking"]
    <3>1. caller' = [caller EXCEPT ![c] = [caller[c] EXCEPT !.at = "locking"]]
      BY <2>2, <1>a
    <3>2. /\ \A d \in Callers : d # c => caller'[d] = caller[d]
          /\ caller'[c] = [caller[c] EXCEPT !.at = "locking"]
      BY <3>1, <1>a
    <3>3. /\ caller'[c].at = "locking" /\ caller'[c].method = caller[c].method
          /\ caller'[c].pages = caller[c].pages /\ caller'[c].reply = caller[c].reply
      BY <3>2, <1>a DEF Future
    <3>4. /\ session' = session /\ client' = client
          /\ caller[c].at = "connecting" /\ session.at = "full"
      BY <1>13 DEF CheckCache
    <3>5. session.by # c
      BY <3>4, Parameters DEF OwnerInv, SessionInv
    <3>6. client.fetching # c /\ caller[c].method = "none" /\ caller[c].pages = <<>>
          /\ caller[c].reply = NoReply
      BY <3>4 DEF OwnerInv, CallersInv, LockInv, Fetching, InFlight
    <3>7. CallersInv'
      BY <3>2, <3>3, <3>6 DEF OwnerInv, CallersInv, InFlight
    <3>8. SessionInv'
      BY <3>2, <3>3, <3>4, <3>5, <3>6 DEF OwnerInv, SessionInv, Shaking
    <3>9. \A d \in Callers : Fetching(d)' <=> Fetching(d)
      <4>1. ~ Fetching(c) /\ ~ Fetching(c)'
        BY <3>3, <3>6 DEF Fetching
      <4>2. QED
        BY <3>2, <4>1 DEF Fetching
    <3>10. LockInv'
      BY <3>4, <3>9 DEF OwnerInv, LockInv
    <3>11. QED
      BY <3>7, <3>8, <3>10 DEF OwnerInv
  <2>3. QED
    BY <1>13, <2>1, <2>2 DEF CheckCache
<1>14. ASSUME NEW c \in Callers, Lock(c) PROVE OwnerInv'
  <2>1. CASE caller' = Returned(c) /\ UNCHANGED <<inner, client>>
    BY <1>14, <2>1, <1>3 DEF Lock
  <2>2. CASE /\ client' = [client EXCEPT !.fetching = c]
             /\ Request(inner, c, "list", [caller[c] EXCEPT !.generation = client.generation])
    <3>1. /\ [caller[c] EXCEPT !.generation = client.generation] \in Future
          /\ [caller[c] EXCEPT !.generation = client.generation].pages = <<>>
      BY <1>14, <1>a DEF Lock, Future, Cached, OwnerInv, CallersInv, SessionInv, LockInv,
         InFlight, Shaking, Fetching
    <3>2. client'.fetching = c /\ client.fetching = Nobody /\ session' = session
      BY <1>14, <2>2, <1>a DEF Lock, Cached
    <3>3. session.at = "full" /\ session.by # c
      BY <1>14 DEF Lock, OwnerInv, CallersInv, SessionInv, LockInv, InFlight, Shaking,
         Fetching
    <3>4. Len(<<>>) < Pages
      BY Parameters
    <3>5. QED
      BY <2>2, <3>1, <3>2, <3>3, <3>4, <1>6 DEF Methods
  <2>3. QED
    BY <1>14, <2>1, <2>2 DEF Lock
<1>15. ASSUME NEW c \in Callers, Listed(c) PROVE OwnerInv'
  <2> DEFINE pages == Append(caller[c].pages, caller[c].reply.page)
             me == [caller[c] EXCEPT !.pages = pages]
  <2>1. client.fetching = c /\ session.by # c /\ session.at = "full" /\ session' = session
    BY <1>15 DEF Listed, Replied, OwnerInv, CallersInv, SessionInv, LockInv, InFlight,
       Shaking, Fetching
  <2>2. CASE caller' = Returned(c) /\ client' = Unlocked(c)
    BY <2>1, <2>2, ReturnedEffect, UnlockedEffect, Blank, Parameters DEF OwnerInv,
       CallersInv, SessionInv, LockInv, InFlight, Shaking, Fetching
  <2>a. caller[c].pages \in Seq(Nat) /\ caller[c].reply.page \in Nat
    BY <1>a DEF Future, Replies, PageList
  <2>b. pages \in PageList /\ Len(pages) = Len(caller[c].pages) + 1
    BY <2>a DEF PageList
  <2>c. me \in Future /\ me.pages = pages
    BY <2>b, <1>a DEF Future
  <2> HIDE DEF pages
  <2>3. CASE UNCHANGED client /\ Len(pages) < Pages /\ Request(inner, c, "list", me)
    BY <2>1, <2>3, <2>c, <1>6 DEF Methods
  <2>4. CASE /\ UNCHANGED client /\ ~ Len(pages) < Pages
             /\ caller' = [caller EXCEPT ![c] = [me EXCEPT !.at = "publishing", !.reply = NoReply]]
    <3>1. \A d \in Callers : d # c => caller'[d] = caller[d]
      BY <2>4, <1>a
    <3>2. /\ caller'[c].at = "publishing" /\ caller'[c].method = "list"
          /\ caller'[c].pages = pages /\ caller'[c].reply = NoReply
      BY <2>4, <2>c, <1>a, <1>15 DEF Future, Listed, Replied
    <3>3. Len(caller[c].pages) \in Nat /\ Len(caller[c].pages) < Pages
      BY <2>a, <1>15 DEF Listed, Replied, OwnerInv, CallersInv, SessionInv, LockInv,
         InFlight, Shaking, Fetching
    <3>4. Len(pages) = Pages
      BY <2>4, <2>b, <3>3, Parameters DEF OwnerInv, CallersInv, SessionInv, LockInv,
         InFlight, Shaking, Fetching
    <3>5. QED
      BY <2>1, <2>4, <3>1, <3>2, <3>4 DEF OwnerInv, CallersInv, SessionInv, LockInv,
         InFlight, Shaking, Fetching
  <2>5. QED
    BY <1>15, <2>2, <2>3, <2>4 DEF Listed, pages
<1>16. ASSUME NEW c \in Callers, Publish(c) PROVE OwnerInv'
  <2>1. client.fetching = c /\ session' = session /\ client'.fetching = Nobody
    BY <1>16, <1>a DEF Publish, Cached, Shaking, Fetching, OwnerInv, CallersInv, SessionInv,
       LockInv
  <2>2. QED
    BY <1>16, <2>1, ReturnedEffect, Blank, Parameters DEF Publish, OwnerInv, CallersInv,
       SessionInv, LockInv, InFlight, Shaking, Fetching
<1>17. ASSUME NEW c \in Callers, Cancel(c) PROVE OwnerInv'
  <2>1. CASE session.by = c /\ ConnectFails(c)
    BY <2>1, <1>4
  <2>2. CASE session.by # c /\ caller' = Returned(c) /\ client' = Unlocked(c) /\ session' = session
    BY <2>2, ReturnedEffect, UnlockedEffect, Blank, Parameters DEF OwnerInv, CallersInv,
       SessionInv, LockInv, InFlight, Shaking, Fetching
  <2>3. QED
    BY <1>17, <2>1, <2>2 DEF Cancel
<1>18. ASSUME NEW entries \in SUBSET inner.pending, NEW reply \in Replies,
              caller' = Told(entries, reply), UNCHANGED <<session, client>>
       PROVE  OwnerInv'
  <2>1. \A d \in Callers : /\ caller'[d].at = caller[d].at
                          /\ caller'[d].method = caller[d].method
                          /\ caller'[d].pages = caller[d].pages
    BY <1>18, ToldEffect
  <2>2. \A d \in Callers : caller[d].at \notin {"writing", "waiting"} =>
                          ~ \E p \in entries : IsEntry(p, d)
    BY DEF IdsInv, TableInv, IsEntry, InFlight
  <2>3. \A d \in Callers : caller[d].at \notin {"writing", "waiting"} => caller'[d] = caller[d]
    BY <1>18, <2>2, ToldEffect
  <2>4. QED
    BY <1>18, <2>1, <2>3 DEF OwnerInv, CallersInv, SessionInv, LockInv, InFlight, Shaking,
       Fetching
<1>19. CASE ReadNotification \/ Bump \/ Clear
  <2>1. UNCHANGED <<session, caller>> /\ client'.fetching = client.fetching
    BY <1>19, <1>a DEF ReadNotification, Bump, Clear, Cached
  <2>2. QED
    BY <2>1 DEF OwnerInv, CallersInv, SessionInv, LockInv, InFlight, Shaking, Fetching
<1>20. CASE ReadResponse \/ ReaderEnds
  <2>1. ReadResponse => Head(server.outbox).reply \in Replies
    BY OutboxTyped DEF ReadResponse, Item
  <2>2. PICK entries \in SUBSET inner.pending, reply \in Replies : caller' = Told(entries, reply)
    BY <1>20, <2>1, Blanks DEF ReadResponse, ReaderEnds
  <2>3. QED
    BY <1>20, <2>2, <1>18 DEF ReadResponse, ReaderEnds
<1>21. CASE Close \/ Exit \/ Answer \/ Change
  <2>1. UNCHANGED <<session, client, caller>>
    BY <1>21 DEF Close, Exit, Answer, Change
  <2>2. QED
    BY <2>1 DEF OwnerInv, CallersInv, SessionInv, LockInv, InFlight, Shaking, Fetching
<1>22. CASE DropTool
  <2>1. \A d \in Callers : caller'[d] = caller[d] /\ caller[d].at = "idle"
    BY <1>22 DEF DropTool, AllIdle
  <2>2. session'.at = "empty" /\ session'.by = Nobody /\ client'.fetching = Nobody
    BY <1>22, Blank DEF DropTool, DropTransport
  <2>3. QED
    BY <2>1, <2>2, Parameters DEF OwnerInv, CallersInv, SessionInv, LockInv, InFlight,
       Shaking, Fetching
<1>23. CASE UNCHANGED vars
  BY <1>23 DEF vars, OwnerInv, CallersInv, SessionInv, LockInv, InFlight, Shaking, Fetching
<1>24. QED
  BY <1>1, <1>2, <1>3, <1>7, <1>8, <1>9, <1>10, <1>11, <1>12, <1>13, <1>14, <1>15, <1>16,
     <1>17, <1>19, <1>20, <1>21, <1>22, <1>23 DEF Next, Proceed, SpawnFails

-----------------------------------------------------------------------------
(* Ids.                                                                    *)

LEMMA IdsInit == Init => IdsInv
<1> SUFFICES ASSUME Init PROVE IdsInv
  OBVIOUS
<1>1. \A c \in Callers : caller[c] = Idle
  BY DEF Init
<1>2. inner.pending = {} /\ server.inbox = {} /\ server.outbox = <<>>
  BY DEF Init, Inner, Server
<1>3. Len(<<>>) = 0
  OBVIOUS
<1>4. TableInv /\ PipesInv
  BY <1>2, <1>3 DEF TableInv, PipesInv
<1>5. SerialsInv /\ RequestsDistinct /\ AnswersMatch
  BY <1>1, Blank DEF SerialsInv, RequestsDistinct, AnswersMatch, InFlight
<1>6. QED
  BY <1>4, <1>5 DEF IdsInv

\* A request over the transport takes an id above all that went before.
LEMMA RequestIds ==
    ASSUME Typed, IdsInv, NEW c \in Callers, NEW m \in Methods, NEW me \in Future,
           Request(inner, c, m, me), server' = server
    PROVE  IdsInv'
<1> DEFINE n == inner.calls + 1
<1>0. inner \in Transport /\ inner.calls \in Nat /\ inner.pending \in SUBSET Entry
  BY DEF Typed, Transport
<1>1. \A d \in Callers : d # c => caller'[d] = caller[d]
  BY <1>0, RequestEffect
<1>2. /\ caller'[c].at = "writing" /\ caller'[c].id = n /\ caller'[c].serial = n
      /\ caller'[c].replied = FALSE /\ caller'[c].reply = NoReply
  BY <1>0 DEF Request, FreshId, Typed, Future
<1>3. inner'.calls = n /\ inner'.pending = inner.pending \cup {[id |-> n, serial |-> n, by |-> c]}
  BY <1>0 DEF Request, FreshId, Transport
<1>4. TableInv'
  <2> SUFFICES ASSUME NEW p \in inner'.pending
               PROVE  /\ p.id = p.serial /\ p.id \in 1..inner'.calls
                      /\ IsEntry(p, p.by)' => InFlight(p.by)' /\ ~ caller'[p.by].replied
    BY DEF TableInv
  <2>1. CASE p \in inner.pending
    <3>1. p.id = p.serial /\ p.id \in 1..inner.calls /\ p.by \in Callers
      BY <2>1, <1>0 DEF IdsInv, TableInv, Entry
    <3>2. p.by = c => ~ IsEntry(p, p.by)'
      BY <3>1, <1>0, <1>2 DEF IsEntry
    <3>3. p.by # c /\ IsEntry(p, p.by)' => InFlight(p.by)' /\ ~ caller'[p.by].replied
      BY <2>1, <3>1, <1>1 DEF IdsInv, TableInv, IsEntry, InFlight
    <3>4. QED
      BY <3>1, <3>2, <3>3, <1>0, <1>3
  <2>2. CASE p = [id |-> n, serial |-> n, by |-> c]
    BY <2>2, <1>0, <1>2, <1>3 DEF IsEntry, InFlight
  <2>3. QED
    BY <1>3, <2>1, <2>2
<1>5. PipesInv'
  BY <1>0, <1>3 DEF IdsInv, PipesInv
<1>6. SerialsInv'
  BY <1>0, <1>1, <1>2, <1>3 DEF IdsInv, SerialsInv, InFlight
<1>7. RequestsDistinct'
  <2>1. \A d \in Callers : d # c /\ InFlight(d)' => caller'[d].id # n
    BY <1>0, <1>1 DEF IdsInv, SerialsInv, InFlight
  <2>2. QED
    BY <1>1, <1>2, <2>1 DEF IdsInv, RequestsDistinct, InFlight
<1>8. AnswersMatch'
  BY <1>1, <1>2, Blank DEF IdsInv, AnswersMatch
<1>9. QED
  BY <1>4, <1>5, <1>6, <1>7, <1>8 DEF IdsInv

\* Callers that are set free, or go on with the reply they have, and pipes that lose what
\* is in them.
LEMMA ForwardIds ==
    ASSUME Typed, IdsInv,
           \A d \in Callers :
              \/ /\ caller'[d].at \notin {"writing", "waiting"}
                 /\ caller'[d].id = 0 /\ caller'[d].serial = 0 /\ caller'[d].reply = NoReply
              \/ /\ caller'[d].id = caller[d].id /\ caller'[d].serial = caller[d].serial
                 /\ caller'[d].replied = caller[d].replied
                 /\ caller'[d].reply \in {caller[d].reply, NoReply}
                 /\ \/ InFlight(d)' <=> InFlight(d)
                    \/ ~ InFlight(d)' /\ caller[d].replied,
           inner'.calls = inner.calls, inner'.pending = inner.pending, PipesInv'
    PROVE  IdsInv'
<1>0. inner.calls \in Nat /\ inner.pending \in SUBSET Entry
  BY DEF Typed, Transport
<1>4. TableInv'
  <2> SUFFICES ASSUME NEW p \in inner.pending, IsEntry(p, p.by)'
               PROVE  InFlight(p.by)' /\ ~ caller'[p.by].replied
    BY DEF IdsInv, TableInv
  <2>1. p.by \in Callers /\ p.serial # 0
    BY <1>0 DEF IdsInv, TableInv, Entry
  <2>2. caller'[p.by].serial # 0
    BY <2>1 DEF IsEntry
  <2>3. IsEntry(p, p.by)
    BY <2>1, <2>2 DEF IsEntry
  <2>4. InFlight(p.by) /\ ~ caller[p.by].replied
    BY <2>3 DEF IdsInv, TableInv
  <2>5. QED
    BY <2>1, <2>2, <2>4
<1>5. SerialsInv'
  BY DEF IdsInv, SerialsInv, InFlight
<1>6. RequestsDistinct'
  BY DEF IdsInv, RequestsDistinct, InFlight
<1>7. AnswersMatch'
  BY Blank DEF IdsInv, AnswersMatch
<1>8. QED
  BY <1>4, <1>5, <1>6, <1>7 DEF IdsInv

\* One whose entry is taken back or answered has its reply.
LEMMA ToldIds ==
    ASSUME Typed, IdsInv, NEW ids, NEW reply \in Replies,
           \A i \in ids : reply.told \in {0, i},
           \A d \in Callers :
              /\ caller'[d].id = caller[d].id /\ caller'[d].serial = caller[d].serial
              /\ InFlight(d)' <=> InFlight(d)
              /\ \/ caller'[d].replied = caller[d].replied /\ caller'[d].reply = caller[d].reply
                 \/ caller[d].serial \in ids /\ caller'[d].replied /\ caller'[d].reply = reply,
           \A p \in inner'.pending : p \in inner.pending /\ p.id \notin ids,
           inner'.calls = inner.calls, PipesInv'
    PROVE  IdsInv'
<1>0. inner.calls \in Nat /\ inner.pending \in SUBSET Entry
  BY DEF Typed, Transport
<1>4. TableInv'
  <2> SUFFICES ASSUME NEW p \in inner'.pending
               PROVE  /\ p.id = p.serial /\ p.id \in 1..inner'.calls
                      /\ IsEntry(p, p.by)' => InFlight(p.by)' /\ ~ caller'[p.by].replied
    BY DEF TableInv
  <2>1. p \in inner.pending /\ p.id \notin ids /\ p.by \in Callers
    BY <1>0 DEF Entry
  <2>2. p.id = p.serial /\ p.id \in 1..inner'.calls
    BY <2>1 DEF IdsInv, TableInv
  <2>3. ASSUME IsEntry(p, p.by)' PROVE InFlight(p.by)' /\ ~ caller'[p.by].replied
    <3>1. IsEntry(p, p.by) /\ caller[p.by].serial \notin ids
      BY <2>1, <2>2, <2>3 DEF IsEntry
    <3>2. InFlight(p.by) /\ ~ caller[p.by].replied
      BY <2>1, <3>1 DEF IdsInv, TableInv
    <3>3. QED
      BY <2>1, <3>1, <3>2
  <2>4. QED
    BY <2>2, <2>3
<1>5. SerialsInv'
  BY DEF IdsInv, SerialsInv, InFlight
<1>6. RequestsDistinct'
  BY DEF IdsInv, RequestsDistinct
<1>7. AnswersMatch'
  BY DEF IdsInv, AnswersMatch
<1>8. QED
  BY <1>4, <1>5, <1>6, <1>7 DEF IdsInv

\* A new transport starts without requests.
LEMMA FreshIds ==
    ASSUME \A d \in Callers : /\ caller'[d].at \in {"idle", "connecting"}
                             /\ caller'[d].reply = NoReply
                             /\ caller'[d].id = caller'[d].serial,
           inner'.pending = {}, server'.inbox = {}, server'.outbox = <<>>
    PROVE  IdsInv'
<1>1. TableInv' /\ PipesInv'
  BY DEF TableInv, PipesInv
<1>2. SerialsInv' /\ RequestsDistinct' /\ AnswersMatch'
  BY Blank DEF SerialsInv, RequestsDistinct, AnswersMatch, InFlight
<1>3. QED
  BY <1>1, <1>2 DEF IdsInv

\* The server answers what is in its inbox, under its id.
LEMMA AnswerPipes == ASSUME Typed, IdsInv, Answer \/ Change \/ Close \/ Exit PROVE PipesInv'
<1>a. server.outbox \in Seq(Item) /\ inner' = inner /\ server \in Process
  BY DEF Typed, Process, Output, Answer, Change, Close, Exit
<1>1. ASSUME NEW item, server'.outbox = Append(server.outbox, item),
             server'.inbox \subseteq server.inbox,
             item.kind = "response" => item.id = item.reply.told /\ item.id \in 1..inner.calls
      PROVE  PipesInv'
  <2>1. Len(server'.outbox) = Len(server.outbox) + 1 /\ Len(server.outbox) \in Nat
    BY <1>a, <1>1
  <2>2. \A i \in 1..Len(server.outbox) : server'.outbox[i] = server.outbox[i]
    BY <1>a, <1>1
  <2>3. server'.outbox[Len(server.outbox) + 1] = item
    BY <1>a, <1>1
  <2>4. \A i \in 1..Len(server'.outbox) : i \in 1..Len(server.outbox) \/ i = Len(server.outbox) + 1
    BY <2>1
  <2>5. QED
    BY <1>a, <1>1, <2>2, <2>3, <2>4 DEF IdsInv, PipesInv
<1>2. CASE Answer
  <2>1. PICK r \in server.inbox, ok \in BOOLEAN :
           server' = [server EXCEPT
                !.inbox = @ \ {r},
                !.outbox = Append(@, [kind |-> "response", id |-> r.id,
                              reply |-> [ok |-> ok, told |-> r.serial,
                                        page |-> IF r.method = "list" THEN server.version ELSE 0]])]
    BY <1>2 DEF Answer
  <2>2. r.id = r.serial /\ r.id \in 1..inner.calls
    BY DEF IdsInv, PipesInv
  <2>3. QED
    <3> DEFINE item == [kind |-> "response", id |-> r.id,
                        reply |-> [ok |-> ok, told |-> r.serial,
                                   page |-> IF r.method = "list" THEN server.version ELSE 0]]
    <3>1. server'.outbox = Append(server.outbox, item) /\ server'.inbox \subseteq server.inbox
      BY <2>1, <1>a DEF Process
    <3>2. item.id = item.reply.told /\ item.id \in 1..inner.calls
      BY <2>2
    <3> HIDE DEF item
    <3>3. QED
      BY <3>1, <3>2, <1>1
<1>3. CASE Change
  <2> DEFINE item == [kind |-> "changed", id |-> 0, reply |-> NoReply]
  <2>1. server'.outbox = Append(server.outbox, item) /\ server'.inbox = server.inbox
    BY <1>3, <1>a DEF Change, Process
  <2>2. item.kind # "response"
    OBVIOUS
  <2> HIDE DEF item
  <2>3. QED
    BY <2>1, <2>2, <1>1
<1>4. CASE Close \/ Exit
  BY <1>4, <1>a DEF Close, Exit, Stopped, Process, IdsInv, PipesInv
<1>5. QED
  BY <1>2, <1>3, <1>4

\* What is read leaves the rest of the output.
LEMMA TailPipes ==
    ASSUME Typed, server.outbox # <<>>
    PROVE  /\ Len(Tail(server.outbox)) = Len(server.outbox) - 1
           /\ \A i \in 1..Len(Tail(server.outbox)) :
                 /\ i + 1 \in 1..Len(server.outbox)
                 /\ Tail(server.outbox)[i] = server.outbox[i + 1]
           /\ 1 \in 1..Len(server.outbox) /\ Head(server.outbox) = server.outbox[1]
           /\ Len(server.outbox) \in Nat
<1>1. server.outbox \in Seq(Item)
  BY DEF Typed, Process, Output
<1>2. QED
  BY <1>1

LEMMA ReadPipes ==
    ASSUME Typed, IdsInv, server.outbox # <<>>, server' = [server EXCEPT !.outbox = Tail(@)],
           inner'.calls = inner.calls
    PROVE  PipesInv'
<1>1. server'.inbox = server.inbox /\ server'.outbox = Tail(server.outbox)
  BY DEF Typed, Process
<1>2. QED
  BY <1>1, TailPipes DEF IdsInv, PipesInv

LEMMA IdsStep == ASSUME Typed, OwnerInv, IdsInv, [Next]_vars PROVE IdsInv'
<1>a. caller \in [Callers -> Future] /\ inner \in Transport /\ server \in Process
  BY DEF Typed
<1>b. inner' = inner /\ server' = server => PipesInv'
  BY DEF IdsInv, PipesInv
<1>1. ASSUME NEW c \in Callers, Begin(c) PROVE IdsInv'
  <2>1. PICK g : caller' = [caller EXCEPT ![c].at = "connecting", ![c].goal = g]
    BY <1>1 DEF Begin
  <2>2. \A d \in Callers :
           /\ caller'[d].id = caller[d].id /\ caller'[d].serial = caller[d].serial
           /\ caller'[d].replied = caller[d].replied /\ caller'[d].reply = caller[d].reply
           /\ InFlight(d)' <=> InFlight(d)
    BY <1>1, <1>a, <2>1 DEF Begin, Future, InFlight
  <2>3. inner' = inner /\ server' = server
    BY <1>1 DEF Begin
  <2>4. QED
    BY <2>2, <2>3, <1>b, ForwardIds
<1>2. ASSUME NEW c \in Callers, Connect(c) PROVE IdsInv'
  <2>1. PICK m \in Methods : Request(Inner, c, m, caller[c])
    BY <1>2 DEF Connect, Methods
  <2>2. \A d \in Callers : d # c => caller'[d] = caller[d] /\ caller[d].at \in {"idle", "connecting"}
    <3>1. \A d \in Callers : d # c => caller'[d] = caller[d]
      BY <2>1, <1>a, RequestEffect, Blanks
    <3>2. session.at # "full" /\ session.by = Nobody
      BY <1>2 DEF Connect, OwnerInv, SessionInv
    <3>3. \A d \in Callers : caller[d].at \in {"idle", "connecting"}
      BY <3>2, Parameters DEF OwnerInv, SessionInv
    <3>4. QED
      BY <3>1, <3>3
  <2>3. /\ caller'[c].at = "writing" /\ caller'[c].id = 1 /\ caller'[c].serial = 1
        /\ caller'[c].replied = FALSE /\ caller'[c].reply = NoReply
    BY <2>1, <1>a, Blank DEF Request, FreshId, Future
  <2>4. inner'.calls = 1 /\ inner'.pending = {[id |-> 1, serial |-> 1, by |-> c]}
    BY <2>1 DEF Request, FreshId, Inner
  <2>5. server'.inbox = {} /\ server'.outbox = <<>> /\ Len(<<>>) = 0
    BY <1>2, Blank DEF Connect
  <2>6. \A d \in Callers : d # c => ~ InFlight(d)' /\ caller'[d].reply = NoReply
                                 /\ caller'[d].id = caller'[d].serial
    BY <2>2 DEF OwnerInv, CallersInv, IdsInv, SerialsInv, InFlight
  <2>7. TableInv' /\ PipesInv'
    BY <2>3, <2>4, <2>5 DEF TableInv, PipesInv, InFlight
  <2>8. SerialsInv' /\ RequestsDistinct' /\ AnswersMatch'
    BY <2>3, <2>4, <2>6, Blank DEF SerialsInv, RequestsDistinct, AnswersMatch, InFlight
  <2>9. QED
    BY <2>7, <2>8 DEF IdsInv
<1>3. ASSUME NEW c \in Callers, caller' = Returned(c), inner'.calls = inner.calls,
             inner'.pending = inner.pending, server' = server
      PROVE  IdsInv'
  <2>1. PipesInv'
    BY <1>3 DEF IdsInv, PipesInv
  <2>2. caller'[c].at = "idle" /\ caller'[c].id = 0 /\ caller'[c].serial = 0
        /\ caller'[c].reply = NoReply
    BY <1>3, ReturnedEffect, Blank
  <2>3. \A d \in Callers : d # c => caller'[d] = caller[d]
    BY <1>3, ReturnedEffect
  <2>4. \A d \in Callers : d # c => (InFlight(d)' <=> InFlight(d))
    BY <2>3 DEF InFlight
  <2>5. QED
    BY <1>3, <2>1, <2>2, <2>3, <2>4, ForwardIds
<1>4. ASSUME NEW c \in Callers, session.by = c, ConnectFails(c) PROVE IdsInv'
  <2>1. \A d \in Callers : caller'[d].at \in {"idle", "connecting"}
    BY <1>4, ConnectFailsOwner
  <2>2. inner'.pending = {} /\ server'.inbox = {} /\ server'.outbox = <<>>
    BY <1>4 DEF ConnectFails, DropTransport, Inner, Server
  <2>3. OwnerInv'
    BY <1>4, ConnectFailsOwner
  <2>4. \A d \in Callers : caller'[d].reply = NoReply
    BY <2>1, <2>3 DEF OwnerInv, CallersInv, InFlight
  <2>5. \A d \in Callers : caller'[d].id = caller'[d].serial
    BY <1>4, ReturnedEffect, Blank DEF ConnectFails, IdsInv, SerialsInv
  <2>6. QED
    BY <2>1, <2>2, <2>4, <2>5, FreshIds
<1>5. ASSUME NEW c \in Callers, Connected(c) PROVE IdsInv'
  <2>1. inner' = inner /\ server' = server
    BY <1>5 DEF Connected
  <2>2. caller'[c] = [Idle EXCEPT !.at = "connecting", !.goal = caller[c].goal]
    BY <1>5, ConnectedEffect
  <2>3. caller'[c].at = "connecting" /\ caller'[c].id = 0 /\ caller'[c].serial = 0
        /\ caller'[c].reply = NoReply
    BY <2>2, Blank
  <2>4. \A d \in Callers : d # c => caller'[d] = caller[d]
    BY <1>5, ConnectedEffect
  <2>5. \A d \in Callers : d # c => (InFlight(d)' <=> InFlight(d))
    BY <2>4 DEF InFlight
  <2>6. QED
    BY <2>1, <2>3, <2>4, <2>5, <1>b, ForwardIds
<1>7. ASSUME NEW c \in Callers, Discovered(c) PROVE IdsInv'
  <2>1. session.by = c
    BY <1>7 DEF Discovered, Replied, Shaking, OwnerInv, SessionInv
  <2>2. CASE Connected(c)
    BY <2>2, <1>5
  <2>3. CASE ConnectFails(c)
    BY <2>1, <2>3, <1>4
  <2>4. CASE /\ Request(inner, c, "initialize", caller[c])
             /\ UNCHANGED <<mode, session, server, client, begins, outlived>>
    <3>1. caller[c] \in Future /\ "initialize" \in Methods /\ server' = server
      BY <1>a, <2>4 DEF Methods
    <3>2. QED
      BY <2>4, <3>1, RequestIds
  <2>5. QED
    BY <1>7, <2>2, <2>3, <2>4 DEF Discovered
<1>8. ASSUME NEW c \in Callers, Initialized(c) PROVE IdsInv'
  <2>1. session.by = c
    BY <1>8 DEF Initialized, Replied, Shaking, OwnerInv, SessionInv
  <2>2. QED
    BY <1>8, <2>1, <1>4, <1>5 DEF Initialized
<1>9. ASSUME NEW c \in Callers, Write(c) PROVE IdsInv'
  <2>1. \A d \in Callers :
           /\ caller'[d].id = caller[d].id /\ caller'[d].serial = caller[d].serial
           /\ caller'[d].replied = caller[d].replied /\ caller'[d].reply = caller[d].reply
           /\ InFlight(d)' <=> InFlight(d)
    BY <1>9, <1>a DEF Write, Future, InFlight
  <2>2. inner'.calls = inner.calls /\ inner'.pending = inner.pending
    BY <1>9, <1>a DEF Write, Transport
  <2>3. server'.outbox = server.outbox
    BY <1>9, <1>a DEF Write, Process
  <2>4. server'.inbox \subseteq server.inbox \cup
           {[id |-> caller[c].id, serial |-> caller[c].serial, method |-> caller[c].method]}
    BY <1>9, <1>a DEF Write, Process
  <2>5. caller[c].id = caller[c].serial /\ caller[c].serial \in 1..inner.calls
    BY <1>9 DEF Write, IdsInv, SerialsInv, InFlight
  <2>6. PipesInv'
    BY <2>2, <2>3, <2>4, <2>5 DEF IdsInv, PipesInv
  <2>7. QED
    BY <2>1, <2>2, <2>6, ForwardIds
<1>10. ASSUME NEW c \in Callers, WriteFails(c) \/ Timeout(c) PROVE IdsInv'
  <2> DEFINE ids == {caller[c].id}
  <2>1. inner'.calls = inner.calls /\ inner'.pending = Without(caller[c].id) /\ server' = server
    BY <1>10, <1>a, ErrorEffect DEF Transport
  <2>2. \A p \in inner'.pending : p \in inner.pending /\ p.id \notin ids
    BY <2>1 DEF Without
  <2>3. caller[c].serial \in ids /\ InFlight(c)
    BY <1>10, ErrorEffect DEF IdsInv, SerialsInv
  <2>4. /\ caller'[c].id = caller[c].id /\ caller'[c].serial = caller[c].serial
        /\ InFlight(c)' /\ caller'[c].replied /\ caller'[c].reply = NoReply
    BY <1>10, ErrorEffect DEF InFlight
  <2>5. \A d \in Callers : d # c => caller'[d] = caller[d]
    BY <1>10, ErrorEffect
  <2>6. \A d \in Callers : d # c => (InFlight(d)' <=> InFlight(d))
    BY <2>5 DEF InFlight
  <2>7. PipesInv'
    BY <2>1 DEF IdsInv, PipesInv
  <2>8. \A i \in ids : NoReply.told \in {0, i}
    BY Blank
  <2> HIDE DEF ids
  <2>9. QED
    <3>1. \A d \in Callers :
             /\ caller'[d].id = caller[d].id /\ caller'[d].serial = caller[d].serial
             /\ InFlight(d)' <=> InFlight(d)
             /\ \/ caller'[d].replied = caller[d].replied /\ caller'[d].reply = caller[d].reply
                \/ caller[d].serial \in ids /\ caller'[d].replied /\ caller'[d].reply = NoReply
      BY <2>3, <2>4, <2>5, <2>6
    <3>2. QED
      BY <2>1, <2>2, <2>7, <2>8, <3>1, ToldIds, Blanks
<1>11. ASSUME NEW c \in Callers, CallTool(c) PROVE IdsInv'
  <2>1. /\ Request(inner, c, "tool", caller[c]) /\ server' = server
        /\ caller[c] \in Future /\ "tool" \in Methods
    BY <1>11, <1>a DEF CallTool, Methods
  <2>2. QED
    BY <2>1, RequestIds
<1>12. ASSUME NEW c \in Callers, ToolCalled(c) PROVE IdsInv'
  BY <1>12, <1>3 DEF ToolCalled
<1>13. ASSUME NEW c \in Callers, CheckCache(c) PROVE IdsInv'
  <2>1. inner' = inner /\ server' = server
    BY <1>13 DEF CheckCache
  <2>2. CASE caller' = Returned(c)
    BY <2>1, <2>2, <1>3
  <2>3. CASE caller' = [caller EXCEPT ![c].at = "locking"]
    <3>1. \A d \in Callers :
             /\ caller'[d].id = caller[d].id /\ caller'[d].serial = caller[d].serial
             /\ caller'[d].replied = caller[d].replied /\ caller'[d].reply = caller[d].reply
             /\ InFlight(d)' <=> InFlight(d)
      <4>1. \A d \in Callers :
               caller'[d] = IF d = c THEN [caller[c] EXCEPT !.at = "locking"] ELSE caller[d]
        BY <2>3, <1>a
      <4>2. caller[c].at = "connecting"
        BY <1>13 DEF CheckCache
      <4>3. QED
        BY <4>1, <4>2, <1>a DEF Future, InFlight
    <3>2. QED
      BY <2>1, <3>1, <1>b, ForwardIds
  <2>4. QED
    BY <1>13, <2>2, <2>3 DEF CheckCache
<1>14. ASSUME NEW c \in Callers, Lock(c) PROVE IdsInv'
  <2>1. CASE caller' = Returned(c) /\ UNCHANGED <<inner, client>>
    BY <1>14, <2>1, <1>3 DEF Lock
  <2>2. CASE Request(inner, c, "list", [caller[c] EXCEPT !.generation = client.generation])
    <3>1. [caller[c] EXCEPT !.generation = client.generation] \in Future
      BY <1>a DEF Future, Typed, Cached
    <3>2. "list" \in Methods /\ server' = server
      BY <1>14 DEF Lock, Methods
    <3>3. QED
      BY <2>2, <3>1, <3>2, RequestIds
  <2>3. QED
    BY <1>14, <2>1, <2>2 DEF Lock
<1>15. ASSUME NEW c \in Callers, Listed(c) PROVE IdsInv'
  <2> DEFINE pages == Append(caller[c].pages, caller[c].reply.page)
             me == [caller[c] EXCEPT !.pages = pages]
  <2>1. server' = server /\ caller[c].at = "waiting" /\ caller[c].replied /\ "list" \in Methods
    BY <1>15 DEF Listed, Replied, Methods
  <2>2. CASE caller' = Returned(c) /\ UNCHANGED inner
    BY <2>1, <2>2, <1>3
  <2>a. caller[c].pages \in Seq(Nat) /\ caller[c].reply.page \in Nat
    BY <1>a DEF Future, Replies, PageList
  <2>b. pages \in PageList
    BY <2>a DEF PageList
  <2>c. me \in Future
    BY <2>b, <1>a DEF Future
  <2>3. CASE Request(inner, c, "list", me)
    BY <2>1, <2>3, <2>c, RequestIds
  <2>4. CASE /\ UNCHANGED inner
             /\ caller' = [caller EXCEPT ![c] = [me EXCEPT !.at = "publishing", !.reply = NoReply]]
    <3>1. \A d \in Callers : d # c => caller'[d] = caller[d]
      BY <2>4, <1>a
    <3>2. /\ caller'[c].at = "publishing" /\ caller'[c].id = caller[c].id
          /\ caller'[c].serial = caller[c].serial /\ caller'[c].reply = NoReply
          /\ caller'[c].replied = caller[c].replied
      BY <2>4, <2>c, <1>a DEF Future
    <3>3. \A d \in Callers : d # c => (InFlight(d)' <=> InFlight(d))
      BY <3>1 DEF InFlight
    <3>4. ~ InFlight(c)'
      BY <3>2 DEF InFlight
    <3>5. QED
      BY <2>1, <2>4, <3>1, <3>2, <3>3, <3>4, <1>b, ForwardIds
  <2>5. QED
    BY <1>15, <2>2, <2>3, <2>4 DEF Listed
<1>16. ASSUME NEW c \in Callers, Publish(c) \/ SpawnFails(c) PROVE IdsInv'
  BY <1>16, <1>3 DEF Publish, SpawnFails
<1>17. ASSUME NEW c \in Callers, Cancel(c) PROVE IdsInv'
  <2>1. CASE session.by = c /\ ConnectFails(c)
    BY <2>1, <1>4
  <2>2. CASE /\ caller' = Returned(c) /\ server' = server
             /\ \E tears \in BOOLEAN : inner' = [inner EXCEPT !.torn = @ \/ tears]
    <3>1. inner'.calls = inner.calls /\ inner'.pending = inner.pending
      BY <2>2, <1>a DEF Transport
    <3>2. QED
      BY <2>2, <3>1, <1>3
  <2>3. QED
    BY <1>17, <2>1, <2>2, Parameters DEF Cancel
<1>18. ASSUME NEW ids, NEW reply \in Replies, \A i \in ids : reply.told \in {0, i},
              caller' = Told({p \in inner.pending : p.id \in ids}, reply),
              inner'.calls = inner.calls,
              inner'.pending = {p \in inner.pending : p.id \notin ids}, PipesInv'
       PROVE  IdsInv'
  <2> DEFINE entries == {p \in inner.pending : p.id \in ids}
  <2>1. \A d \in Callers :
           /\ caller'[d].at = caller[d].at /\ caller'[d].id = caller[d].id
           /\ caller'[d].serial = caller[d].serial
    BY <1>18, ToldEffect
  <2>2. \A d \in Callers : IF \E p \in entries : IsEntry(p, d)
                          THEN caller'[d].replied /\ caller'[d].reply = reply
                          ELSE caller'[d] = caller[d]
    BY <1>18, ToldEffect
  <2>3. \A d \in Callers : (\E p \in entries : IsEntry(p, d)) => caller[d].serial \in ids
    BY DEF IsEntry, IdsInv, TableInv
  <2>4. \A d \in Callers : InFlight(d)' <=> InFlight(d)
    BY <2>1 DEF InFlight
  <2> HIDE DEF entries
  <2>5. QED
    BY <1>18, <2>1, <2>2, <2>3, <2>4, ToldIds
<1>19. CASE ReadResponse
  <2> DEFINE r == Head(server.outbox)
             ids == {r.id}
  <2>1. r.reply \in Replies
    BY <1>19, OutboxTyped DEF ReadResponse, Item
  <2>2. r.id = r.reply.told
    BY <1>19, TailPipes DEF ReadResponse, IdsInv, PipesInv
  <2>3. inner'.calls = inner.calls /\ inner'.pending = {p \in inner.pending : p.id \notin ids}
    BY <1>19, <1>a DEF ReadResponse, Without, Transport
  <2>4. PipesInv'
    BY <1>19, <2>3, ReadPipes DEF ReadResponse
  <2>5. caller' = Told({p \in inner.pending : p.id = r.id}, r.reply)
    BY <1>19 DEF ReadResponse
  <2>6. {p \in inner.pending : p.id = r.id} = {p \in inner.pending : p.id \in ids}
    OBVIOUS
  <2>7. caller' = Told({p \in inner.pending : p.id \in ids}, r.reply)
    BY <2>5, <2>6
  <2>8. \A i \in ids : r.reply.told \in {0, i}
    BY <2>2
  <2> HIDE DEF ids
  <2>9. QED
    BY <2>1, <2>3, <2>4, <2>7, <2>8, <1>18
<1>20. CASE ReadNotification
  <2>1. PipesInv' /\ caller' = caller /\ inner' = inner
    BY <1>20, ReadPipes DEF ReadNotification
  <2>2. QED
    BY <2>1, ForwardIds DEF InFlight
<1>21. CASE ReaderEnds
  <2> DEFINE ids == {p.id : p \in inner.pending}
  <2>1. inner'.calls = inner.calls /\ inner'.pending = {} /\ server' = server
    BY <1>21, <1>a DEF ReaderEnds, Transport
  <2>2. inner.pending = {p \in inner.pending : p.id \in ids}
    OBVIOUS
  <2>3. caller' = Told(inner.pending, NoReply)
    BY <1>21 DEF ReaderEnds, Error
  <2>4. PipesInv'
    BY <2>1 DEF IdsInv, PipesInv
  <2>5. inner'.pending = {p \in inner.pending : p.id \notin ids}
    BY <2>1
  <2>6. caller' = Told({p \in inner.pending : p.id \in ids}, NoReply)
    BY <2>2, <2>3
  <2>7. \A i \in ids : NoReply.told \in {0, i}
    BY Blank
  <2> HIDE DEF ids
  <2>8. QED
    BY <2>1, <2>4, <2>5, <2>6, <2>7, <1>18, Blanks
<1>22. CASE Answer \/ Change \/ Close \/ Exit
  <2>1. PipesInv'
    BY <1>22, AnswerPipes
  <2>2. caller' = caller /\ inner' = inner
    BY <1>22 DEF Answer, Change, Close, Exit
  <2>3. QED
    BY <2>1, <2>2, ForwardIds DEF InFlight
<1>23. CASE DropTool
  <2>1. \A d \in Callers : caller'[d] = caller[d] /\ caller[d].at = "idle"
    BY <1>23 DEF DropTool, AllIdle
  <2>2. inner'.pending = {} /\ server'.inbox = {} /\ server'.outbox = <<>>
    BY <1>23 DEF DropTool, DropTransport, Inner, Server
  <2>3. \A d \in Callers : caller'[d].reply = NoReply /\ caller'[d].id = caller'[d].serial
    BY <2>1 DEF OwnerInv, CallersInv, InFlight, IdsInv, SerialsInv
  <2>4. QED
    BY <2>1, <2>2, <2>3, FreshIds
<1>24. CASE Bump \/ Clear \/ UNCHANGED vars
  <2>1. caller' = caller /\ inner' = inner /\ server' = server
    BY <1>24 DEF Bump, Clear, vars
  <2>2. QED
    BY <2>1, <1>b, ForwardIds DEF InFlight
<1>25. QED
  BY <1>1, <1>2, <1>7, <1>8, <1>9, <1>10, <1>11, <1>12, <1>13, <1>14, <1>15, <1>16, <1>17,
     <1>19, <1>20, <1>21, <1>22, <1>23, <1>24 DEF Next, Proceed

-----------------------------------------------------------------------------
(* Those who wait.                                                         *)

LiveInv == WaitersInv /\ (~ CanMisread => ReaderInv)

LEMMA LiveInit == Init => LiveInv
<1> SUFFICES ASSUME Init PROVE LiveInv
  OBVIOUS
<1>1. \A c \in Callers : caller[c].at = "idle"
  BY Blank DEF Init
<1>2. inner.reader
  BY Blank DEF Init
<1>3. QED
  BY <1>1, <1>2 DEF LiveInv, WaitersInv, ReaderInv, InFlight

\* The reader goes on, and those who still wait keep their entries.
LEMMA StillWaiting ==
    ASSUME LiveInv, NEW started \in SUBSET Callers,
           \A d \in Callers \ started :
              InFlight(d)' /\ ~ caller'[d].replied =>
                 /\ InFlight(d) /\ ~ caller[d].replied
                 /\ caller'[d].serial = caller[d].serial
                 /\ caller'[d].at = caller[d].at \/ server.running
                 /\ \A p \in inner.pending : IsEntry(p, d) => p \in inner'.pending,
           \A d \in started : /\ caller'[d].at = "writing"
                             /\ \E p \in inner'.pending : IsEntry(p, d)',
           inner'.reader = inner.reader, server'.running => server.running
    PROVE  LiveInv'
<1>1. WaitersInv'
  <2> SUFFICES ASSUME NEW d \in Callers, InFlight(d)', ~ caller'[d].replied
               PROVE  \E p \in inner'.pending : IsEntry(p, d)'
    BY DEF WaitersInv
  <2>1. CASE d \notin started
    <3>1. PICK p \in inner.pending : IsEntry(p, d)
      BY <2>1 DEF LiveInv, WaitersInv
    <3>2. p \in inner'.pending /\ IsEntry(p, d)'
      BY <2>1, <3>1 DEF IsEntry
    <3>3. QED
      BY <3>2
  <2>2. QED
    BY <2>1
<1>2. ASSUME ~ CanMisread PROVE ReaderInv'
  <2>1. ReaderInv
    BY <1>2 DEF LiveInv
  <2>2. ASSUME NEW d \in Callers, caller'[d].at = "waiting", ~ caller'[d].replied
        PROVE  inner'.reader
    <3>1. d \notin started
      BY <2>2
    <3>2. /\ ~ caller[d].replied
          /\ caller[d].at = "waiting" \/ server.running
      BY <2>2, <3>1 DEF InFlight
    <3>3. QED
      BY <2>1, <3>2 DEF ReaderInv
  <2>3. QED
    BY <2>1, <2>2 DEF ReaderInv
<1>3. QED
  BY <1>1, <1>2 DEF LiveInv

LEMMA RequestLive ==
    ASSUME Typed, LiveInv, NEW c \in Callers, NEW m \in Methods, NEW me \in Future,
           Request(inner, c, m, me), server' = server
    PROVE  LiveInv'
<1>a. inner \in Transport
  BY DEF Typed
<1>1. \A d \in Callers : d # c => caller'[d] = caller[d]
  BY <1>a, RequestEffect
<1>2. caller'[c].at = "writing" /\ caller'[c].serial = inner.calls + 1
  BY <1>a DEF Request, FreshId, Typed, Future
<1>3. /\ inner'.reader = inner.reader
      /\ inner'.pending = inner.pending \cup
            {[id |-> inner.calls + 1, serial |-> inner.calls + 1, by |-> c]}
  BY <1>a DEF Request, FreshId, Transport
<1>4. \E p \in inner'.pending : IsEntry(p, c)'
  <2> PICK p : p = [id |-> inner.calls + 1, serial |-> inner.calls + 1, by |-> c]
    OBVIOUS
  <2>1. p \in inner'.pending
    BY <1>3
  <2>2. IsEntry(p, c)'
    BY <1>2 DEF IsEntry
  <2>3. QED
    BY <2>1, <2>2
<1>5. \A d \in Callers \ {c} :
         InFlight(d)' /\ ~ caller'[d].replied =>
            /\ InFlight(d) /\ ~ caller[d].replied
            /\ caller'[d].serial = caller[d].serial
            /\ caller'[d].at = caller[d].at
            /\ \A p \in inner.pending : p \in inner'.pending
  BY <1>1, <1>3 DEF InFlight
<1> DEFINE started == {c}
<1>6. started \in SUBSET Callers /\ \A d \in started : d = c
  OBVIOUS
<1>7. \A d \in Callers : d \notin started => d \in Callers \ {c}
  OBVIOUS
<1> HIDE DEF started
<1>8. QED
  BY <1>2, <1>3, <1>4, <1>5, <1>6, <1>7, StillWaiting

\* Without requests, and with a new reader, nobody waits.
LEMMA FreshLive ==
    ASSUME \A d \in Callers : caller'[d].at \in {"idle", "connecting"}, inner'.reader
    PROVE  LiveInv'
BY DEF LiveInv, WaitersInv, ReaderInv, InFlight

LEMMA LiveStep == ASSUME Typed, OwnerInv, IdsInv, LiveInv, [Next]_vars PROVE LiveInv'
<1>a. caller \in [Callers -> Future] /\ inner \in Transport /\ server \in Process
  BY DEF Typed
\* one caller moves on, and does not begin to wait
<1>b. ASSUME NEW c \in Callers,
             \A d \in Callers : d # c => caller'[d] = caller[d],
             \/ ~ InFlight(c)'
             \/ caller'[c].replied
             \/ /\ InFlight(c) /\ caller'[c].replied = caller[c].replied
                /\ caller'[c].serial = caller[c].serial /\ server.running,
             inner'.pending = inner.pending, inner'.reader = inner.reader,
             server'.running => server.running
      PROVE  LiveInv'
  <2>1. \A d \in Callers :
         InFlight(d)' /\ ~ caller'[d].replied =>
            /\ InFlight(d) /\ ~ caller[d].replied
            /\ caller'[d].serial = caller[d].serial
            /\ caller'[d].at = caller[d].at \/ server.running
    BY <1>b DEF InFlight
  <2> DEFINE started == {}
  <2>2. started \in SUBSET Callers /\ \A d : d \notin started
    OBVIOUS
  <2> HIDE DEF started
  <2>3. QED
    BY <1>b, <2>1, <2>2, StillWaiting
\* nobody moves
<1>c. ASSUME caller' = caller, inner'.pending = inner.pending, inner'.reader = inner.reader,
             server'.running => server.running
      PROVE  LiveInv'
  <2> DEFINE started == {}
  <2>1. started \in SUBSET Callers /\ \A d : d \notin started
    OBVIOUS
  <2> HIDE DEF started
  <2>2. QED
    BY <1>c, <2>1, StillWaiting DEF InFlight
<1>1. ASSUME NEW c \in Callers, Begin(c) PROVE LiveInv'
  <2>1. PICK g : caller' = [caller EXCEPT ![c].at = "connecting", ![c].goal = g]
    BY <1>1 DEF Begin
  <2>2. ~ InFlight(c)' /\ \A d \in Callers : d # c => caller'[d] = caller[d]
    BY <1>a, <2>1 DEF Future, InFlight
  <2>3. inner' = inner /\ server' = server
    BY <1>1 DEF Begin
  <2>4. QED
    BY <2>2, <2>3, <1>b
<1>2. ASSUME NEW c \in Callers, Connect(c) PROVE LiveInv'
  <2>1. PICK m \in Methods : Request(Inner, c, m, caller[c])
    BY <1>2 DEF Connect, Methods
  <2>2. \A d \in Callers : d # c => caller'[d] = caller[d]
    BY <2>1, <1>a, RequestEffect, Blanks
  <2>3. \A d \in Callers : caller[d].at \in {"idle", "connecting"}
    BY <1>2, Parameters DEF Connect, OwnerInv, SessionInv
  <2>4. caller'[c].at = "writing" /\ caller'[c].serial = 1
    BY <2>1, <1>a, Blank DEF Request, FreshId, Future
  <2>5. inner'.reader /\ inner'.pending = {[id |-> 1, serial |-> 1, by |-> c]}
    BY <2>1 DEF Request, FreshId, Inner
  <2>6. QED
    BY <2>2, <2>3, <2>4, <2>5 DEF LiveInv, WaitersInv, ReaderInv, InFlight, IsEntry
<1>3. ASSUME NEW c \in Callers, caller' = Returned(c), inner'.reader = inner.reader,
             inner'.pending = inner.pending, server' = server
      PROVE  LiveInv'
  <2>1. ~ InFlight(c)' /\ \A d \in Callers : d # c => caller'[d] = caller[d]
    BY <1>3, ReturnedEffect, Blank DEF InFlight
  <2>2. QED
    BY <1>3, <2>1, <1>b
<1>4. ASSUME NEW c \in Callers, session.by = c, ConnectFails(c) PROVE LiveInv'
  <2>1. \A d \in Callers : caller'[d].at \in {"idle", "connecting"}
    BY <1>4, ConnectFailsOwner
  <2>2. inner'.reader
    BY <1>4 DEF ConnectFails, DropTransport, Inner
  <2>3. QED
    BY <2>1, <2>2, FreshLive
<1>5. ASSUME NEW c \in Callers, Connected(c) PROVE LiveInv'
  <2>1. inner' = inner /\ server' = server
    BY <1>5 DEF Connected
  <2>2. caller'[c] = [Idle EXCEPT !.at = "connecting", !.goal = caller[c].goal]
    BY <1>5, ConnectedEffect
  <2>3. ~ InFlight(c)'
    BY <2>2, Blank DEF InFlight
  <2>4. \A d \in Callers : d # c => caller'[d] = caller[d]
    BY <1>5, ConnectedEffect
  <2>5. QED
    BY <2>1, <2>3, <2>4, <1>b
<1>7. ASSUME NEW c \in Callers, Discovered(c) PROVE LiveInv'
  <2>1. session.by = c
    BY <1>7 DEF Discovered, Replied, Shaking, OwnerInv, SessionInv
  <2>2. CASE Connected(c)
    BY <2>2, <1>5
  <2>3. CASE ConnectFails(c)
    BY <2>1, <2>3, <1>4
  <2>4. CASE /\ Request(inner, c, "initialize", caller[c])
             /\ UNCHANGED <<mode, session, server, client, begins, outlived>>
    <3>1. caller[c] \in Future /\ "initialize" \in Methods /\ server' = server
      BY <1>a, <2>4 DEF Methods
    <3>2. QED
      BY <2>4, <3>1, RequestLive
  <2>5. QED
    BY <1>7, <2>2, <2>3, <2>4 DEF Discovered
<1>8. ASSUME NEW c \in Callers, Initialized(c) PROVE LiveInv'
  <2>1. session.by = c
    BY <1>8 DEF Initialized, Replied, Shaking, OwnerInv, SessionInv
  <2>2. QED
    BY <1>8, <2>1, <1>4, <1>5 DEF Initialized
<1>9. ASSUME NEW c \in Callers, Write(c) PROVE LiveInv'
  <2>1. /\ \A d \in Callers : d # c => caller'[d] = caller[d]
        /\ InFlight(c) /\ caller'[c].replied = caller[c].replied
        /\ caller'[c].serial = caller[c].serial
    BY <1>9, <1>a DEF Write, Future, InFlight
  <2>2. inner'.reader = inner.reader /\ inner'.pending = inner.pending
    BY <1>9, <1>a DEF Write, Transport
  <2>3. server.running
    BY <1>9 DEF Write
  <2>4. QED
    BY <2>1, <2>2, <2>3, <1>b
<1>10. ASSUME NEW c \in Callers, WriteFails(c) \/ Timeout(c) PROVE LiveInv'
  <2>1. inner'.reader = inner.reader /\ inner'.pending = Without(caller[c].id) /\ server' = server
    BY <1>10, <1>a, ErrorEffect DEF Transport
  <2>2. InFlight(c) /\ caller'[c].replied
    BY <1>10, ErrorEffect
  <2>3. \A d \in Callers : d # c => caller'[d] = caller[d]
    BY <1>10, ErrorEffect
  <2>4. \A d \in Callers : d # c /\ InFlight(d) => caller[d].id # caller[c].id
    BY <2>2 DEF IdsInv, RequestsDistinct
  <2>5. \A d \in Callers : d # c /\ InFlight(d) =>
           \A p \in inner.pending : IsEntry(p, d) => p \in inner'.pending
    BY <2>1, <2>4 DEF IdsInv, TableInv, SerialsInv, IsEntry, Without
  <2>6. \A d \in Callers :
           InFlight(d)' /\ ~ caller'[d].replied =>
            /\ InFlight(d) /\ ~ caller[d].replied
            /\ caller'[d].serial = caller[d].serial
            /\ caller'[d].at = caller[d].at
            /\ \A p \in inner.pending : IsEntry(p, d) => p \in inner'.pending
    BY <2>2, <2>3, <2>5 DEF InFlight
  <2> DEFINE started == {}
  <2>7. started \in SUBSET Callers /\ \A d : d \notin started
    OBVIOUS
  <2> HIDE DEF started
  <2>8. QED
    BY <2>1, <2>6, <2>7, StillWaiting
<1>11. ASSUME NEW c \in Callers, CallTool(c) PROVE LiveInv'
  <2>1. /\ Request(inner, c, "tool", caller[c]) /\ server' = server
        /\ caller[c] \in Future /\ "tool" \in Methods
    BY <1>11, <1>a DEF CallTool, Methods
  <2>2. QED
    BY <2>1, RequestLive
<1>12. ASSUME NEW c \in Callers, ToolCalled(c) \/ Publish(c) \/ SpawnFails(c) PROVE LiveInv'
  BY <1>12, <1>3 DEF ToolCalled, Publish, SpawnFails
<1>13. ASSUME NEW c \in Callers, CheckCache(c) PROVE LiveInv'
  <2>1. inner' = inner /\ server' = server
    BY <1>13 DEF CheckCache
  <2>2. CASE caller' = Returned(c)
    BY <2>1, <2>2, <1>3
  <2>3. CASE caller' = [caller EXCEPT ![c].at = "locking"]
    <3>1. ~ InFlight(c)' /\ \A d \in Callers : d # c => caller'[d] = caller[d]
      BY <2>3, <1>a DEF Future, InFlight
    <3>2. QED
      BY <2>1, <3>1, <1>b
  <2>4. QED
    BY <1>13, <2>2, <2>3 DEF CheckCache
<1>14. ASSUME NEW c \in Callers, Lock(c) PROVE LiveInv'
  <2>1. CASE caller' = Returned(c) /\ UNCHANGED <<inner, client>>
    BY <1>14, <2>1, <1>3 DEF Lock
  <2>2. CASE Request(inner, c, "list", [caller[c] EXCEPT !.generation = client.generation])
    <3>1. [caller[c] EXCEPT !.generation = client.generation] \in Future
      BY <1>a DEF Future, Typed, Cached
    <3>2. "list" \in Methods /\ server' = server
      BY <1>14 DEF Lock, Methods
    <3>3. QED
      BY <2>2, <3>1, <3>2, RequestLive
  <2>3. QED
    BY <1>14, <2>1, <2>2 DEF Lock
<1>15. ASSUME NEW c \in Callers, Listed(c) PROVE LiveInv'
  <2> DEFINE pages == Append(caller[c].pages, caller[c].reply.page)
             me == [caller[c] EXCEPT !.pages = pages]
  <2>1. server' = server /\ "list" \in Methods
    BY <1>15 DEF Listed, Methods
  <2>2. CASE caller' = Returned(c) /\ UNCHANGED inner
    BY <2>1, <2>2, <1>3
  <2>a. caller[c].pages \in Seq(Nat) /\ caller[c].reply.page \in Nat
    BY <1>a DEF Future, Replies, PageList
  <2>b. pages \in PageList
    BY <2>a DEF PageList
  <2>c. me \in Future
    BY <2>b, <1>a DEF Future
  <2>3. CASE Request(inner, c, "list", me)
    BY <2>1, <2>3, <2>c, RequestLive
  <2>4. CASE /\ UNCHANGED inner
             /\ caller' = [caller EXCEPT ![c] = [me EXCEPT !.at = "publishing", !.reply = NoReply]]
    <3>1. \A d \in Callers : d # c => caller'[d] = caller[d]
      BY <2>4, <1>a
    <3>2. caller'[c].at = "publishing"
      BY <2>4, <2>c, <1>a DEF Future
    <3>3. ~ InFlight(c)'
      BY <3>2 DEF InFlight
    <3>4. QED
      BY <2>1, <2>4, <3>1, <3>3, <1>b
  <2>5. QED
    BY <1>15, <2>2, <2>3, <2>4 DEF Listed
<1>17. ASSUME NEW c \in Callers, Cancel(c) PROVE LiveInv'
  <2>1. CASE session.by = c /\ ConnectFails(c)
    BY <2>1, <1>4
  <2>2. CASE /\ caller' = Returned(c) /\ server' = server
             /\ \E tears \in BOOLEAN : inner' = [inner EXCEPT !.torn = @ \/ tears]
    <3>1. inner'.reader = inner.reader /\ inner'.pending = inner.pending
      BY <2>2, <1>a DEF Transport
    <3>2. QED
      BY <2>2, <3>1, <1>3
  <2>3. QED
    BY <1>17, <2>1, <2>2, Parameters DEF Cancel
<1>18. CASE ReadResponse
  <2> DEFINE r == Head(server.outbox)
             entries == {p \in inner.pending : p.id = r.id}
  <2>1. r.reply \in Replies
    BY <1>18, OutboxTyped DEF ReadResponse, Item
  <2>2. inner'.reader = inner.reader /\ inner'.pending = inner.pending \ entries
    BY <1>18, <1>a DEF ReadResponse, Without, Transport
  <2>3. caller' = Told(entries, r.reply)
    BY <1>18 DEF ReadResponse
  <2>4. \A d \in Callers : IF \E p \in entries : IsEntry(p, d)
                          THEN caller'[d].replied ELSE caller'[d] = caller[d]
    BY <2>1, <2>3, ToldEffect
  <2>5. server'.running = server.running
    BY <1>18, <1>a DEF ReadResponse, Process
  <2>6. \A d \in Callers :
           InFlight(d)' /\ ~ caller'[d].replied =>
            /\ InFlight(d) /\ ~ caller[d].replied
            /\ caller'[d].serial = caller[d].serial
            /\ caller'[d].at = caller[d].at
            /\ \A p \in inner.pending : IsEntry(p, d) => p \in inner'.pending
    BY <2>2, <2>4 DEF InFlight
  <2> DEFINE started == {}
  <2>7. started \in SUBSET Callers /\ \A d : d \notin started
    OBVIOUS
  <2> HIDE DEF started
  <2>8. QED
    BY <2>2, <2>5, <2>6, <2>7, StillWaiting
<1>19. CASE ReaderEnds
  <2>1. caller' = Told(inner.pending, Error) /\ server' = server
    BY <1>19 DEF ReaderEnds
  <2>2. \A d \in Callers : IF \E p \in inner.pending : IsEntry(p, d)
                          THEN caller'[d].replied ELSE caller'[d] = caller[d]
    BY <2>1, ToldEffect, Blanks
  <2>3. \A d \in Callers : InFlight(d)' => caller'[d].replied
    BY <2>2 DEF LiveInv, WaitersInv, InFlight
  <2>4. ~ CanMisread => ~ server'.running
    BY <1>19, <2>1 DEF ReaderEnds
  <2>5. QED
    BY <2>3, <2>4 DEF LiveInv, WaitersInv, ReaderInv, InFlight
<1>20. CASE ReadNotification \/ Answer \/ Change \/ Close \/ Exit
  <2>1. caller' = caller /\ inner' = inner
    BY <1>20 DEF ReadNotification, Answer, Change, Close, Exit
  <2>2. server'.running => server.running
    BY <1>20, <1>a DEF ReadNotification, Answer, Change, Close, Exit, Stopped, Process
  <2>3. QED
    BY <2>1, <2>2, <1>c
<1>23. CASE DropTool
  <2>1. \A d \in Callers : caller'[d].at = "idle"
    BY <1>23 DEF DropTool, AllIdle
  <2>2. inner'.reader
    BY <1>23 DEF DropTool, DropTransport, Inner
  <2>3. QED
    BY <2>1, <2>2, FreshLive
<1>24. CASE Bump \/ Clear \/ UNCHANGED vars
  <2>1. caller' = caller /\ inner' = inner /\ server' = server
    BY <1>24 DEF Bump, Clear, vars
  <2>2. QED
    BY <2>1, <1>c
<1>25. QED
  BY <1>1, <1>2, <1>7, <1>8, <1>9, <1>10, <1>11, <1>12, <1>13, <1>14, <1>15, <1>17,
     <1>18, <1>19, <1>20, <1>23, <1>24 DEF Next, Proceed

-----------------------------------------------------------------------------
(* The changes of the list, counted.                                       *)

LEMMA ChangesFinite ==
    ASSUME NEW s \in Seq(Item)
    PROVE  LET changes == {i \in 1..Len(s) : s[i].kind = "changed"}
           IN  IsFiniteSet(changes) /\ Cardinality(changes) \in Nat
<1> DEFINE changes == {i \in 1..Len(s) : s[i].kind = "changed"}
<1>1. IsFiniteSet(1..Len(s))
  BY FS_Interval
<1>2. changes \subseteq 1..Len(s)
  OBVIOUS
<1> HIDE DEF changes
<1>3. IsFiniteSet(changes)
  BY <1>1, <1>2, FS_Subset
<1>4. IsFiniteSet(changes) /\ Cardinality(changes) \in Nat
  BY <1>3, FS_CardinalityType
<1>5. QED
  BY <1>4 DEF changes

LEMMA ChangedFinite == Typed => IsFiniteSet(ChangedAt) /\ Cardinality(ChangedAt) \in Nat
BY ChangesFinite DEF Typed, Process, Output, ChangedAt

LEMMA AppendCount ==
    ASSUME Typed, NEW item \in Item, server'.outbox = Append(server.outbox, item)
    PROVE  Cardinality(ChangedAt') =
              IF item.kind = "changed" THEN Cardinality(ChangedAt) + 1 ELSE Cardinality(ChangedAt)
<1> DEFINE n == Len(server.outbox) + 1
<1>1. server.outbox \in Seq(Item) /\ IsFiniteSet(ChangedAt)
  BY ChangedFinite DEF Typed, Process, Output
<1>2. Len(server'.outbox) = n /\ server'.outbox[n] = item /\ Len(server.outbox) \in Nat
  BY <1>1
<1>3. \A i \in 1..Len(server.outbox) : server'.outbox[i] = server.outbox[i]
  BY <1>1
<1>4. 1..n = (1..Len(server.outbox)) \cup {n}
  BY <1>2
<1>5. n \notin 1..Len(server.outbox)
  BY <1>2
<1>6. ChangedAt' = IF item.kind = "changed" THEN ChangedAt \cup {n} ELSE ChangedAt
  BY <1>2, <1>3, <1>4, <1>5 DEF ChangedAt
<1>7. n \notin ChangedAt
  BY <1>5 DEF ChangedAt
<1> HIDE DEF n
<1>8. Cardinality(ChangedAt \cup {n}) = Cardinality(ChangedAt) + 1
  BY <1>1, <1>7, FS_AddElement
<1>9. QED
  BY <1>6, <1>8

LEMMA TailCount ==
    ASSUME Typed, server.outbox # <<>>, server'.outbox = Tail(server.outbox), Typed'
    PROVE  Cardinality(ChangedAt) =
              IF Head(server.outbox).kind = "changed" THEN Cardinality(ChangedAt') + 1
              ELSE Cardinality(ChangedAt')
<1> DEFINE rest == ChangedAt \ {1}
           f == [i \in ChangedAt' |-> i + 1]
<1>1. IsFiniteSet(ChangedAt) /\ IsFiniteSet(ChangedAt')
  <2>1. IsFiniteSet(ChangedAt)
    BY ChangedFinite
  <2>2. IsFiniteSet(ChangedAt')
    BY ChangesFinite DEF Typed, Process, Output, ChangedAt
  <2>3. QED
    BY <2>1, <2>2
<1>2. /\ Len(server'.outbox) = Len(server.outbox) - 1 /\ Len(server.outbox) \in Nat
      /\ Len(server.outbox) >= 1
      /\ \A i \in 1..Len(server'.outbox) : server'.outbox[i] = server.outbox[i + 1]
  BY TailPipes
<1>3. ChangedAt' \subseteq Nat /\ \A i \in ChangedAt' : i + 1 \in rest
  BY <1>2 DEF ChangedAt
<1>4. \A j \in rest : j - 1 \in ChangedAt' /\ j = (j - 1) + 1
  <2> SUFFICES ASSUME NEW j \in rest PROVE j - 1 \in ChangedAt' /\ j = (j - 1) + 1
    OBVIOUS
  <2>1. j \in 1..Len(server.outbox) /\ j # 1 /\ server.outbox[j].kind = "changed"
    BY DEF ChangedAt
  <2>2. j - 1 \in 1..Len(server'.outbox) /\ (j - 1) + 1 = j
    BY <2>1, <1>2
  <2>3. server'.outbox[j - 1].kind = "changed"
    BY <2>1, <2>2, <1>2
  <2>4. QED
    BY <2>2, <2>3 DEF ChangedAt
<1> HIDE DEF rest
<1>5. f \in Bijection(ChangedAt', rest)
  <2>1. f \in [ChangedAt' -> rest]
    BY <1>3
  <2>2. \A i, j \in ChangedAt' : f[i] = f[j] => i = j
    BY <1>3
  <2>3. \A j \in rest : \E i \in ChangedAt' : f[i] = j
    BY <1>4
  <2>4. f \in Injection(ChangedAt', rest)
    BY <2>1, <2>2, Fun_IsInj, Zenon
  <2>5. f \in Surjection(ChangedAt', rest)
    BY <2>1, <2>3, Fun_IsSurj, Zenon
  <2>6. QED
    BY <2>4, <2>5, Fun_IsBij, Zenon
<1>6. Cardinality(rest) = Cardinality(ChangedAt')
  BY <1>1, <1>5, FS_Bijection, Zenon DEF ExistsBijection
<1>7. Cardinality(rest) = IF 1 \in ChangedAt THEN Cardinality(ChangedAt) - 1
                          ELSE Cardinality(ChangedAt)
  BY <1>1, FS_RemoveElement DEF rest
<1>8. 1 \in ChangedAt <=> Head(server.outbox).kind = "changed"
  BY TailPipes DEF ChangedAt
<1>9. Cardinality(ChangedAt) \in Nat
  BY ChangedFinite
<1>10. QED
  BY <1>6, <1>7, <1>8, <1>9

LEMMA EmptyCount == ASSUME server.outbox = <<>> PROVE Cardinality(ChangedAt) = 0
<1>1. ChangedAt = {}
  BY DEF ChangedAt
<1>2. QED
  BY <1>1, FS_EmptySet

LEMMA CountInit == Init => CountInv
BY EmptyCount, Blank DEF Init, CountInv, Server

LEMMA CountStep == ASSUME Typed, Typed', CountInv, [Next]_vars PROVE CountInv'
<1>a. client \in Cached /\ server \in Process
  BY DEF Typed
<1>0. Cardinality(ChangedAt) \in Nat
  BY ChangedFinite
<1>b. ASSUME server'.outbox = server.outbox, server'.version = server.version,
             client'.generation + client'.bumping = client.generation + client.bumping
      PROVE  CountInv'
  BY <1>b DEF CountInv, ChangedAt
<1>c. ASSUME server'.outbox = <<>>, server'.version = 0, client' = Client PROVE CountInv'
  <2>1. ChangedAt' = {}
    BY <1>c DEF ChangedAt
  <2>2. Cardinality(ChangedAt') = 0
    BY <2>1, FS_EmptySet
  <2>3. QED
    BY <1>c, <2>2, Blank DEF CountInv
<1>d. ASSUME server'.outbox = server.outbox, server'.version = server.version, client' = client
      PROVE  CountInv'
  BY <1>b, <1>d
<1>e. ASSUME NEW c \in Callers, ConnectFails(c) PROVE CountInv'
  BY <1>c, <1>e, Blank DEF ConnectFails, DropTransport, Server
<1>1. ASSUME NEW c \in Callers,
             Begin(c) \/ SpawnFails(c) \/ WriteFails(c) \/ Timeout(c) \/ CallTool(c)
             \/ ToolCalled(c) \/ CheckCache(c)
      PROVE  CountInv'
  BY <1>1, <1>d DEF Begin, SpawnFails, WriteFails, Timeout, CallTool, ToolCalled, CheckCache
<1>2. ASSUME NEW c \in Callers, Connect(c) PROVE CountInv'
  BY <1>2, <1>c, Blank DEF Connect
<1>3. ASSUME NEW c \in Callers, Discovered(c) \/ Initialized(c) PROVE CountInv'
  <2>1. CASE Connected(c)
    BY <2>1, <1>d DEF Connected
  <2>2. QED
    BY <1>3, <1>d, <1>e, <2>1 DEF Discovered, Initialized
<1>4. ASSUME NEW c \in Callers, Write(c) PROVE CountInv'
  <2>1. server'.outbox = server.outbox /\ server'.version = server.version /\ client' = client
    BY <1>4, <1>a DEF Write, Process
  <2>2. QED
    BY <2>1, <1>d
<1>5. ASSUME NEW c \in Callers, Lock(c) \/ Listed(c) \/ Publish(c) PROVE CountInv'
  <2>1. server' = server
    BY <1>5 DEF Lock, Listed, Publish
  <2>2. client'.generation = client.generation /\ client'.bumping = client.bumping
    BY <1>5, <1>a DEF Lock, Listed, Publish, Unlocked, Cached
  <2>3. QED
    BY <2>1, <2>2, <1>b
<1>6. ASSUME NEW c \in Callers, Cancel(c) PROVE CountInv'
  <2>1. CASE ConnectFails(c)
    BY <2>1, <1>e
  <2>2. CASE client' = Unlocked(c) /\ server' = server
    BY <2>2, <1>b, UnlockedEffect
  <2>3. QED
    BY <1>6, <2>1, <2>2 DEF Cancel
<1>7. CASE ReadResponse
  <2>1. /\ server.outbox # <<>> /\ Head(server.outbox).kind = "response" /\ client' = client
        /\ server'.outbox = Tail(server.outbox) /\ server'.version = server.version
    BY <1>7, <1>a DEF ReadResponse, Process
  <2>2. Cardinality(ChangedAt) = Cardinality(ChangedAt')
    BY <2>1, TailCount
  <2>3. QED
    BY <2>1, <2>2 DEF CountInv
<1>8. CASE ReadNotification
  <2>1. /\ server.outbox # <<>> /\ Head(server.outbox).kind = "changed"
        /\ client'.bumping = client.bumping + 1 /\ client'.generation = client.generation
        /\ server'.outbox = Tail(server.outbox) /\ server'.version = server.version
    BY <1>8, <1>a DEF ReadNotification, Process, Cached
  <2>2. Cardinality(ChangedAt) = Cardinality(ChangedAt') + 1
    BY <2>1, TailCount
  <2>3. Cardinality(ChangedAt') \in Nat
    BY ChangesFinite DEF Typed, Process, Output, ChangedAt
  <2>4. client.bumping \in Nat /\ client.generation \in Nat
    BY <1>a DEF Cached
  <2>5. QED
    <3>1. client.generation + (client.bumping + 1) + Cardinality(ChangedAt')
             = client.generation + client.bumping + (Cardinality(ChangedAt') + 1)
      BY <2>3, <2>4
    <3>2. server'.version = client.generation + client.bumping + Cardinality(ChangedAt)
      BY <2>1 DEF CountInv
    <3>3. QED
      BY <2>1, <2>2, <3>1, <3>2 DEF CountInv
<1>9. CASE ReaderEnds
  BY <1>9, <1>d DEF ReaderEnds
<1>10. CASE Bump
  <2>1. /\ client.bumping \in Nat /\ client.generation \in Nat
        /\ client'.bumping = client.bumping - 1 /\ client'.generation = client.generation + 1
        /\ server' = server
    BY <1>10, <1>a DEF Bump, Cached
  <2>2. QED
    BY <2>1, <1>b
<1>11. CASE Clear
  <2>1. client'.generation = client.generation /\ client'.bumping = client.bumping
        /\ server' = server
    BY <1>11, <1>a DEF Clear, Cached
  <2>2. QED
    BY <2>1, <1>b
<1>12. CASE Close \/ Exit
  <2>1. server'.outbox = server.outbox /\ server'.version = server.version /\ client' = client
    BY <1>12, <1>a DEF Close, Exit, Stopped, Process
  <2>2. QED
    BY <2>1, <1>d
<1>13. CASE DropTool
  BY <1>13, <1>c, Blank DEF DropTool, DropTransport, Server
<1>14. CASE Answer
  <2>1. PICK r \in server.inbox, ok \in BOOLEAN :
           server' = [server EXCEPT
                !.inbox = @ \ {r},
                !.outbox = Append(@, [kind |-> "response", id |-> r.id,
                              reply |-> [ok |-> ok, told |-> r.serial,
                                        page |-> IF r.method = "list" THEN server.version ELSE 0]])]
    BY <1>14 DEF Answer
  <2> DEFINE item == [kind |-> "response", id |-> r.id,
                      reply |-> [ok |-> ok, told |-> r.serial,
                                 page |-> IF r.method = "list" THEN server.version ELSE 0]]
  <2>2. r \in Line /\ server.version \in Nat
    BY Parameters DEF Typed, Process
  <2>3. item \in Item /\ item.kind = "response"
    BY <2>2 DEF Line, Item, Replies
  <2>4. server'.outbox = Append(server.outbox, item) /\ server'.version = server.version
    BY <2>1, <1>a DEF Process
  <2> HIDE DEF item
  <2>5. Cardinality(ChangedAt') = Cardinality(ChangedAt)
    BY <2>3, <2>4, AppendCount
  <2>6. client' = client
    BY <1>14 DEF Answer
  <2>7. QED
    BY <2>4, <2>5, <2>6 DEF CountInv
<1>15. CASE Change
  <2> DEFINE item == [kind |-> "changed", id |-> 0, reply |-> NoReply]
  <2>1. item \in Item /\ item.kind = "changed"
    BY Blanks DEF Item
  <2>2. server'.outbox = Append(server.outbox, item) /\ server'.version = server.version + 1
    BY <1>15, <1>a DEF Change, Process
  <2> HIDE DEF item
  <2>3. Cardinality(ChangedAt') = Cardinality(ChangedAt) + 1
    BY <2>1, <2>2, AppendCount
  <2>4. client' = client /\ client.generation \in Nat /\ client.bumping \in Nat
    BY <1>15, <1>a DEF Change, Cached
  <2>5. QED
    BY <2>2, <2>3, <2>4, <1>0 DEF CountInv
<1>16. CASE UNCHANGED vars
  BY <1>16, <1>d DEF vars
<1>17. QED
  BY <1>1, <1>2, <1>3, <1>4, <1>5, <1>6, <1>7, <1>8, <1>9, <1>10, <1>11, <1>12, <1>13,
     <1>14, <1>15, <1>16 DEF Next, Proceed

-----------------------------------------------------------------------------
(* The pages.                                                              *)

\* No pages are held, and nothing is in the pipes.
LEMMA FreshPages ==
    ASSUME server'.inbox = {}, server'.outbox = <<>>, server'.version = 0, client'.cache = <<>>,
           \A d \in Callers :
              /\ caller'[d].pages = <<>> /\ caller'[d].reply = NoReply
              /\ InFlight(d)' => caller'[d].method # "list"
    PROVE  PagesInv'
<1>1. Len(<<>>) = 0 /\ \A i : i \notin 1..0
  OBVIOUS
<1>2. InboxInv' /\ OutboxInv' /\ CacheInv'
  BY <1>1 DEF InboxInv, OutboxInv, CacheInv
<1>3. \A d \in Callers : FetchInv(d)'
  BY <1>1, Blank DEF FetchInv
<1>4. QED
  BY <1>2, <1>3 DEF PagesInv

LEMMA PagesInit == Init => PagesInv
<1> SUFFICES ASSUME Init PROVE PagesInv
  OBVIOUS
<1>1. Len(<<>>) = 0 /\ \A i : i \notin 1..0
  OBVIOUS
<1>2. server.inbox = {} /\ server.outbox = <<>> /\ server.version = 0 /\ client.cache = <<>>
  BY Blank DEF Init, Server
<1>3. \A d \in Callers : caller[d].pages = <<>> /\ caller[d].reply = NoReply /\ ~ InFlight(d)
  BY Blank DEF Init, InFlight
<1>4. InboxInv /\ OutboxInv /\ CacheInv
  BY <1>1, <1>2 DEF InboxInv, OutboxInv, CacheInv
<1>5. \A d \in Callers : FetchInv(d)
  <2>1. NoReply.page = 0 /\ ~ NoReply.ok
    BY Blank
  <2> SUFFICES ASSUME NEW d \in Callers PROVE FetchInv(d)
    OBVIOUS
  <2>2. caller[d].reply.page <= server.version
    BY <1>2, <1>3, <2>1
  <2>3. QED
    BY <1>1, <1>3, <2>2 DEF FetchInv
<1>6. QED
  BY <1>4, <1>5 DEF PagesInv

\* One caller moves; what it asks the server stays as it was.
LEMMA MovePages ==
    ASSUME PagesInv, NEW c \in Callers, \A d \in Callers : d # c => caller'[d] = caller[d],
           server' = server, CacheInv', FetchInv(c)',
           InFlight(c)' => /\ InFlight(c) /\ caller'[c].id = caller[c].id
                           /\ caller'[c].method = caller[c].method
    PROVE  PagesInv'
<1>1. InboxInv'
  BY DEF PagesInv, InboxInv, InFlight
<1>2. OutboxInv'
  BY DEF PagesInv, OutboxInv
<1>3. \A d \in Callers : d # c => FetchInv(d)'
  BY DEF PagesInv, FetchInv, InFlight
<1>4. QED
  BY <1>1, <1>2, <1>3 DEF PagesInv

\* One caller is set free.
LEMMA FreedPages ==
    ASSUME Typed, PagesInv, NEW c \in Callers, \A d \in Callers : d # c => caller'[d] = caller[d],
           server' = server, CacheInv',
           ~ InFlight(c)' /\ caller'[c].pages = <<>> /\ caller'[c].reply = NoReply
    PROVE  PagesInv'
<1>1. Len(<<>>) = 0 /\ \A i : i \notin 1..0
  OBVIOUS
<1>2. server.version \in Nat
  BY Parameters DEF Typed, Process
<1>3. FetchInv(c)'
  BY <1>1, <1>2, Blank DEF FetchInv
<1>4. QED
  BY <1>3, MovePages

LEMMA RequestFetches ==
    ASSUME Typed, IdsInv, PagesInv, NEW c \in Callers, NEW m \in Methods, NEW me \in Future,
           Request(inner, c, m, me), server' = server, CacheInv',
           \A k \in 1..Len(me.pages) : me.generation <= me.pages[k] /\ me.pages[k] <= server.version,
           m = "list" => me.generation <= server.version
    PROVE  PagesInv'
<1>a. inner \in Transport /\ inner.calls \in Nat
  BY DEF Typed, Transport
<1>b. server.version \in Nat
  BY Parameters DEF Typed, Process
<1>1. \A d \in Callers : d # c => caller'[d] = caller[d]
  BY <1>a, RequestEffect
<1>2. /\ caller'[c].at = "writing" /\ caller'[c].method = m /\ caller'[c].id = inner.calls + 1
      /\ caller'[c].reply = NoReply /\ caller'[c].pages = me.pages
      /\ caller'[c].generation = me.generation
  BY <1>a DEF Request, FreshId, Typed, Future
<1>3. InboxInv'
  <2>1. \A r \in server.inbox : r.id # inner.calls + 1
    BY <1>a DEF IdsInv, PipesInv
  <2>2. QED
    BY <1>1, <1>2, <2>1 DEF PagesInv, InboxInv, InFlight
<1>4. FetchInv(c)'
  <2>1. \A i \in 1..Len(server.outbox) :
           server.outbox[i].kind = "response" => server.outbox[i].id # inner.calls + 1
    BY <1>a DEF IdsInv, PipesInv
  <2>2. QED
    BY <1>b, <1>2, <2>1, Blank DEF FetchInv
<1>5. \A d \in Callers : d # c => FetchInv(d)'
  BY <1>1 DEF PagesInv, FetchInv, InFlight
<1>6. OutboxInv'
  BY DEF PagesInv, OutboxInv
<1>7. QED
  BY <1>3, <1>4, <1>5, <1>6 DEF PagesInv

\* The server's list changes at most, and what it writes about it is current.
LEMMA AnswerPages == ASSUME Typed, PagesInv, Answer \/ Change \/ Close \/ Exit PROVE PagesInv'
<1>a. server.outbox \in Seq(Item) /\ server \in Process /\ server.version \in Nat
  BY Parameters DEF Typed, Process, Output
<1>b. caller' = caller /\ client' = client
  BY DEF Answer, Change, Close, Exit
<1>c. /\ client \in Cached /\ \A d \in Callers : caller[d] \in Future
      /\ \A i \in 1..Len(server.outbox) : server.outbox[i].reply.page \in Nat
  <2>1. \A i \in 1..Len(server.outbox) : server.outbox[i] \in Item
    BY <1>a
  <2>2. \A i \in 1..Len(server.outbox) : server.outbox[i].reply.page \in Nat
    BY <2>1 DEF Item, Replies
  <2>3. QED
    BY <2>2 DEF Typed
<1>1. ASSUME server'.version \in Nat, server.version <= server'.version,
             server'.inbox \subseteq server.inbox,
             NEW item, server'.outbox = Append(server.outbox, item),
             item.reply.page <= server'.version,
             \A d \in Callers : /\ InFlight(d) /\ caller[d].method = "list"
                               /\ item.kind = "response" /\ item.id = caller[d].id
                               => caller[d].generation <= item.reply.page
      PROVE  PagesInv'
  <2>1. Len(server'.outbox) = Len(server.outbox) + 1 /\ Len(server.outbox) \in Nat
    BY <1>a, <1>1
  <2>2. \A i \in 1..Len(server.outbox) : server'.outbox[i] = server.outbox[i]
    BY <1>a, <1>1
  <2>3. server'.outbox[Len(server.outbox) + 1] = item
    BY <1>a, <1>1
  <2>4. \A i \in 1..Len(server'.outbox) : i \in 1..Len(server.outbox) \/ i = Len(server.outbox) + 1
    BY <2>1
  <2>5. InboxInv'
    BY <1>1, <1>b DEF PagesInv, InboxInv, InFlight
  <2>6. OutboxInv'
    BY <1>1, <1>a, <1>c, <2>2, <2>3, <2>4 DEF PagesInv, OutboxInv
  <2>7. CacheInv'
    <3>1. \A k \in 1..Len(client.cache) : client.cache[k] \in Nat
      BY <1>c DEF Cached, PageList
    <3>2. QED
      BY <1>1, <1>a, <1>b, <3>1 DEF PagesInv, CacheInv
  <2>8. ASSUME NEW d \in Callers PROVE FetchInv(d)'
    <3>1. /\ caller[d].reply.page \in Nat /\ caller[d].generation \in Nat
          /\ \A k \in 1..Len(caller[d].pages) : caller[d].pages[k] \in Nat
      BY <1>c DEF Future, Replies, PageList
    <3>2. FetchInv(d)
      BY DEF PagesInv
    <3>3. QED
      BY <1>1, <1>a, <1>b, <2>2, <2>3, <2>4, <3>1, <3>2 DEF FetchInv, InFlight
  <2>9. QED
    BY <2>5, <2>6, <2>7, <2>8 DEF PagesInv
<1>2. CASE Answer
  <2>1. PICK r \in server.inbox, ok \in BOOLEAN :
           server' = [server EXCEPT
                !.inbox = @ \ {r},
                !.outbox = Append(@, [kind |-> "response", id |-> r.id,
                              reply |-> [ok |-> ok, told |-> r.serial,
                                        page |-> IF r.method = "list" THEN server.version ELSE 0]])]
    BY <1>2 DEF Answer
  <2> DEFINE item == [kind |-> "response", id |-> r.id,
                      reply |-> [ok |-> ok, told |-> r.serial,
                                 page |-> IF r.method = "list" THEN server.version ELSE 0]]
  <2>2. /\ server'.outbox = Append(server.outbox, item) /\ server'.inbox \subseteq server.inbox
        /\ server'.version = server.version
    BY <2>1, <1>a DEF Process
  <2>3. item.reply.page <= server'.version
    BY <2>2, <1>a
  <2>4. \A d \in Callers : InFlight(d) /\ caller[d].method = "list" /\ item.id = caller[d].id
                           => caller[d].generation <= item.reply.page
    BY DEF PagesInv, InboxInv, FetchInv
  <2> HIDE DEF item
  <2>5. QED
    BY <2>2, <2>3, <2>4, <1>a, <1>1
<1>3. CASE Change
  <2> DEFINE item == [kind |-> "changed", id |-> 0, reply |-> NoReply]
  <2>1. /\ server'.outbox = Append(server.outbox, item) /\ server'.inbox = server.inbox
        /\ server'.version = server.version + 1
    BY <1>3, <1>a DEF Change, Process
  <2>2. item.kind # "response" /\ item.reply.page = 0
    BY Blank
  <2> HIDE DEF item
  <2>3. QED
    BY <2>1, <2>2, <1>a, <1>1
<1>4. CASE Close \/ Exit
  <2>1. server'.outbox = server.outbox /\ server'.inbox = {} /\ server'.version = server.version
    BY <1>4, <1>a DEF Close, Exit, Stopped, Process
  <2>2. QED
    BY <1>b, <2>1 DEF PagesInv, InboxInv, OutboxInv, CacheInv, FetchInv, InFlight
<1>5. QED
  BY <1>2, <1>3, <1>4

LEMMA PagesStep ==
    ASSUME Typed, OwnerInv, IdsInv, CountInv, PagesInv, [Next]_vars
    PROVE  PagesInv'
<1>a. caller \in [Callers -> Future] /\ inner \in Transport /\ server \in Process /\ client \in Cached
  BY DEF Typed
<1>b. client' = client /\ server' = server => CacheInv'
  BY DEF PagesInv, CacheInv
<1>c. server.version \in Nat /\ client.generation \in Nat /\ client.generation <= server.version
  <2>1. server.version \in Nat /\ client.generation \in Nat /\ client.bumping \in Nat
    BY <1>a, Parameters DEF Process, Cached
  <2>2. Cardinality(ChangedAt) \in Nat
    BY ChangedFinite
  <2>3. QED
    BY <2>1, <2>2 DEF CountInv
<1>d. Len(<<>>) = 0 /\ \A i : i \notin 1..0
  OBVIOUS
<1>1. ASSUME NEW c \in Callers, Begin(c) PROVE PagesInv'
  <2>1. PICK g : caller' = [caller EXCEPT ![c].at = "connecting", ![c].goal = g]
    BY <1>1 DEF Begin
  <2>2. /\ \A d \in Callers : d # c => caller'[d] = caller[d]
        /\ caller'[c].at = "connecting" /\ caller'[c].pages = caller[c].pages
        /\ caller'[c].reply = caller[c].reply
    BY <1>a, <2>1 DEF Future
  <2>3. caller[c].pages = <<>> /\ caller[c].reply = NoReply
    BY <1>1 DEF Begin, OwnerInv, CallersInv, InFlight
  <2>4. server' = server /\ client' = client /\ ~ InFlight(c)'
    BY <1>1, <2>2 DEF Begin, InFlight
  <2>5. QED
    BY <2>2, <2>3, <2>4, <1>b, FreedPages
<1>2. ASSUME NEW c \in Callers, Connect(c) PROVE PagesInv'
  <2>1. PICK m \in Methods \ {"list"} : Request(Inner, c, m, caller[c])
    BY <1>2 DEF Connect, Methods
  <2>2. \A d \in Callers : d # c => caller'[d] = caller[d]
    BY <2>1, <1>a, RequestEffect, Blanks
  <2>3. \A d \in Callers : caller[d].at \in {"idle", "connecting"}
    BY <1>2, Parameters DEF Connect, OwnerInv, SessionInv
  <2>4. caller'[c].method = m /\ caller'[c].pages = caller[c].pages /\ caller'[c].reply = NoReply
    BY <2>1, <1>a, Blank DEF Request, FreshId, Future
  <2>5. \A d \in Callers : caller[d].pages = <<>> /\ caller[d].reply = NoReply /\ ~ InFlight(d)
    BY <2>3 DEF OwnerInv, CallersInv, InFlight
  <2>6. \A d \in Callers : d # c => ~ InFlight(d)'
    BY <2>2, <2>3 DEF InFlight
  <2>7. /\ server'.inbox = {} /\ server'.outbox = <<>> /\ server'.version = 0
        /\ client'.cache = <<>>
    BY <1>2, Blank DEF Connect
  <2>8. QED
    BY <2>2, <2>4, <2>5, <2>6, <2>7, FreshPages
<1>3. ASSUME NEW c \in Callers, caller' = Returned(c), server' = server, CacheInv' PROVE PagesInv'
  <2>1. /\ \A d \in Callers : d # c => caller'[d] = caller[d]
        /\ ~ InFlight(c)' /\ caller'[c].pages = <<>> /\ caller'[c].reply = NoReply
    BY <1>3, ReturnedEffect, Blank DEF InFlight
  <2>2. QED
    BY <1>3, <2>1, FreedPages
<1>4. ASSUME NEW c \in Callers, session.by = c, ConnectFails(c) PROVE PagesInv'
  <2>1. OwnerInv' /\ \A d \in Callers : caller'[d].at \in {"idle", "connecting"}
    BY <1>4, ConnectFailsOwner
  <2>2. \A d \in Callers : /\ caller'[d].pages = <<>> /\ caller'[d].reply = NoReply
                          /\ ~ InFlight(d)'
    BY <2>1 DEF OwnerInv, CallersInv, InFlight
  <2>3. /\ server'.inbox = {} /\ server'.outbox = <<>> /\ server'.version = 0
        /\ client'.cache = <<>>
    BY <1>4, Blank DEF ConnectFails, DropTransport, Server
  <2>4. QED
    BY <2>2, <2>3, FreshPages
<1>5. ASSUME NEW c \in Callers, Connected(c) PROVE PagesInv'
  <2>1. client' = client /\ server' = server
    BY <1>5 DEF Connected
  <2>2. caller'[c] = [Idle EXCEPT !.at = "connecting", !.goal = caller[c].goal]
    BY <1>5, ConnectedEffect
  <2>3. ~ InFlight(c)' /\ caller'[c].pages = <<>> /\ caller'[c].reply = NoReply
    BY <2>2, Blank DEF InFlight
  <2>4. \A d \in Callers : d # c => caller'[d] = caller[d]
    BY <1>5, ConnectedEffect
  <2>5. QED
    BY <2>1, <2>3, <2>4, <1>b, FreedPages
<1>7. ASSUME NEW c \in Callers, Discovered(c) PROVE PagesInv'
  <2>1. session.by = c
    BY <1>7 DEF Discovered, Replied, Shaking, OwnerInv, SessionInv
  <2>2. CASE Connected(c)
    BY <2>2, <1>5
  <2>3. CASE ConnectFails(c)
    BY <2>1, <2>3, <1>4
  <2>4. CASE /\ Request(inner, c, "initialize", caller[c])
             /\ UNCHANGED <<mode, session, server, client, begins, outlived>>
    <3>1. caller[c] \in Future /\ "initialize" \in Methods /\ server' = server /\ client' = client
      BY <1>a, <2>4 DEF Methods
    <3>2. \A k \in 1..Len(caller[c].pages) : /\ caller[c].generation <= caller[c].pages[k]
                                             /\ caller[c].pages[k] <= server.version
      BY DEF PagesInv, FetchInv
    <3>3. QED
      BY <2>4, <3>1, <3>2, <1>b, RequestFetches
  <2>5. QED
    BY <1>7, <2>2, <2>3, <2>4 DEF Discovered
<1>8. ASSUME NEW c \in Callers, Initialized(c) PROVE PagesInv'
  <2>1. session.by = c
    BY <1>8 DEF Initialized, Replied, Shaking, OwnerInv, SessionInv
  <2>2. QED
    BY <1>8, <2>1, <1>4, <1>5 DEF Initialized
<1>9. ASSUME NEW c \in Callers, Write(c) PROVE PagesInv'
  <2>1. /\ \A d \in Callers : d # c => caller'[d] = caller[d]
        /\ InFlight(c) /\ InFlight(c)' /\ caller'[c].method = caller[c].method
        /\ caller'[c].id = caller[c].id /\ caller'[c].reply = caller[c].reply
        /\ caller'[c].pages = caller[c].pages /\ caller'[c].generation = caller[c].generation
    BY <1>9, <1>a DEF Write, Future, InFlight
  <2>2. /\ server'.outbox = server.outbox /\ server'.version = server.version /\ client' = client
        /\ server'.inbox \subseteq server.inbox \cup
             {[id |-> caller[c].id, serial |-> caller[c].serial, method |-> caller[c].method]}
    BY <1>9, <1>a DEF Write, Process
  <2>3. \A d \in Callers : InFlight(d)' /\ caller'[d].id = caller[c].id => d = c
    BY <2>1 DEF IdsInv, RequestsDistinct, InFlight
  <2>4. InboxInv'
    BY <2>1, <2>2, <2>3 DEF PagesInv, InboxInv, InFlight
  <2>5. OutboxInv' /\ CacheInv'
    BY <2>2 DEF PagesInv, OutboxInv, CacheInv
  <2>6. \A d \in Callers : FetchInv(d)'
    BY <2>1, <2>2 DEF PagesInv, FetchInv, InFlight
  <2>7. QED
    BY <2>4, <2>5, <2>6 DEF PagesInv
<1>10. ASSUME NEW c \in Callers, WriteFails(c) \/ Timeout(c) PROVE PagesInv'
  <2>1. \A d \in Callers : d # c => caller'[d] = caller[d]
    BY <1>10, ErrorEffect
  <2>2. /\ InFlight(c) /\ caller'[c].reply = NoReply /\ caller'[c].method = caller[c].method
        /\ caller'[c].pages = caller[c].pages /\ caller'[c].id = caller[c].id
        /\ caller'[c].generation = caller[c].generation
    BY <1>10, ErrorEffect
  <2>3. server' = server /\ client' = client
    BY <1>10 DEF WriteFails, Timeout
  <2>4. FetchInv(c)'
    BY <1>c, <2>2, <2>3, Blank DEF PagesInv, FetchInv
  <2>5. QED
    BY <1>b, <2>1, <2>2, <2>3, <2>4, MovePages
<1>11. ASSUME NEW c \in Callers, CallTool(c) PROVE PagesInv'
  <2>1. /\ Request(inner, c, "tool", caller[c]) /\ server' = server /\ client' = client
        /\ caller[c] \in Future /\ "tool" \in Methods
    BY <1>11, <1>a DEF CallTool, Methods
  <2>2. \A k \in 1..Len(caller[c].pages) : /\ caller[c].generation <= caller[c].pages[k]
                                           /\ caller[c].pages[k] <= server.version
    BY DEF PagesInv, FetchInv
  <2>3. QED
    BY <2>1, <2>2, <1>b, RequestFetches
<1>12. ASSUME NEW c \in Callers, ToolCalled(c) \/ SpawnFails(c) PROVE PagesInv'
  BY <1>12, <1>3, <1>b DEF ToolCalled, SpawnFails
<1>13. ASSUME NEW c \in Callers, CheckCache(c) PROVE PagesInv'
  <2>1. client' = client /\ server' = server
    BY <1>13 DEF CheckCache
  <2>2. CASE caller' = Returned(c)
    BY <2>1, <2>2, <1>3, <1>b
  <2>3. CASE caller' = [caller EXCEPT ![c].at = "locking"]
    <3>1. /\ \A d \in Callers : d # c => caller'[d] = caller[d]
          /\ caller'[c].at = "locking" /\ caller'[c].pages = caller[c].pages
          /\ caller'[c].reply = caller[c].reply
      BY <2>3, <1>a DEF Future
    <3>2. caller[c].pages = <<>> /\ caller[c].reply = NoReply
      BY <1>13 DEF CheckCache, OwnerInv, CallersInv, InFlight
    <3>3. ~ InFlight(c)'
      BY <3>1 DEF InFlight
    <3>4. QED
      BY <2>1, <3>1, <3>2, <3>3, <1>b, FreedPages
  <2>4. QED
    BY <1>13, <2>2, <2>3 DEF CheckCache
<1>14. ASSUME NEW c \in Callers, Lock(c) PROVE PagesInv'
  <2>1. CASE caller' = Returned(c) /\ UNCHANGED <<inner, client>>
    BY <1>14, <2>1, <1>3, <1>b DEF Lock
  <2>2. CASE /\ client' = [client EXCEPT !.fetching = c]
             /\ Request(inner, c, "list", [caller[c] EXCEPT !.generation = client.generation])
    <3> DEFINE me == [caller[c] EXCEPT !.generation = client.generation]
    <3>1. me \in Future /\ me.generation = client.generation /\ me.pages = caller[c].pages
      BY <1>a DEF Future, Cached
    <3>2. "list" \in Methods /\ server' = server
      BY <1>14 DEF Lock, Methods
    <3>3. CacheInv'
      BY <2>2, <3>2, <1>a DEF PagesInv, CacheInv, Cached
    <3>4. me.pages = <<>>
      BY <1>14, <3>1 DEF Lock, OwnerInv, CallersInv
    <3>5. Request(inner, c, "list", me)
      BY <2>2
    <3> HIDE DEF me
    <3>6. QED
      BY <1>c, <1>d, <3>1, <3>2, <3>3, <3>4, <3>5, RequestFetches
  <2>3. QED
    BY <1>14, <2>1, <2>2 DEF Lock
<1>15. ASSUME NEW c \in Callers, Listed(c) PROVE PagesInv'
  <2> DEFINE pages == Append(caller[c].pages, caller[c].reply.page)
             me == [caller[c] EXCEPT !.pages = pages]
  <2>1. /\ server' = server /\ "list" \in Methods
        /\ caller[c].method = "list" /\ InFlight(c)
    BY <1>15 DEF Listed, Methods, Replied, InFlight
  <2>2. CASE caller' = Returned(c) /\ client' = Unlocked(c)
    <3>1. CacheInv'
      BY <2>1, <2>2, UnlockedEffect DEF PagesInv, CacheInv
    <3>2. QED
      BY <2>1, <2>2, <3>1, <1>3
  <2>a. caller[c].pages \in Seq(Nat) /\ caller[c].reply.page \in Nat /\ caller[c].generation \in Nat
    BY <1>a DEF Future, Replies, PageList
  <2>b. pages \in PageList
    BY <2>a DEF PageList
  <2>c. me \in Future /\ me.pages = pages /\ me.generation = caller[c].generation
    BY <2>b, <1>a DEF Future
  <2>d. ASSUME caller[c].reply.ok
        PROVE  \A k \in 1..Len(pages) : /\ caller[c].generation <= pages[k]
                                        /\ pages[k] <= server.version
    <3>1. FetchInv(c)
      BY DEF PagesInv
    <3>2. /\ caller[c].generation <= caller[c].reply.page
          /\ caller[c].reply.page <= server.version
      BY <2>1, <2>d, <3>1 DEF FetchInv
    <3>3. \A k \in 1..Len(pages) : \/ k \in 1..Len(caller[c].pages) /\ pages[k] = caller[c].pages[k]
                                   \/ pages[k] = caller[c].reply.page
      BY <2>a
    <3> HIDE DEF pages
    <3>4. QED
      BY <3>1, <3>2, <3>3 DEF FetchInv
  <2>e. caller[c].generation <= server.version
    BY <2>1 DEF PagesInv, FetchInv
  <2> HIDE DEF pages
  <2>3. CASE caller[c].reply.ok /\ client' = client /\ Request(inner, c, "list", me)
    <3>1. CacheInv'
      BY <2>1, <2>3, <1>b
    <3>2. \A k \in 1..Len(me.pages) : me.generation <= me.pages[k] /\ me.pages[k] <= server.version
      BY <2>3, <2>c, <2>d
    <3> HIDE DEF me
    <3>3. QED
      BY <2>1, <2>3, <2>c, <2>e, <3>1, <3>2, RequestFetches
  <2>4. CASE /\ caller[c].reply.ok /\ client' = client
             /\ caller' = [caller EXCEPT ![c] = [me EXCEPT !.at = "publishing", !.reply = NoReply]]
    <3>1. \A d \in Callers : d # c => caller'[d] = caller[d]
      BY <2>4, <1>a
    <3>2. /\ caller'[c].at = "publishing" /\ caller'[c].reply = NoReply
          /\ caller'[c].pages = pages /\ caller'[c].generation = caller[c].generation
      BY <2>4, <2>c, <1>a DEF Future
    <3>3. ~ InFlight(c)'
      BY <3>2 DEF InFlight
    <3>4. FetchInv(c)'
      BY <1>c, <2>1, <2>4, <2>d, <3>2, <3>3, Blank DEF FetchInv
    <3>5. CacheInv'
      BY <2>1, <2>4, <1>b
    <3>6. QED
      BY <2>1, <3>1, <3>3, <3>4, <3>5, MovePages
  <2>5. QED
    BY <1>15, <2>2, <2>3, <2>4 DEF Listed, pages
<1>16. ASSUME NEW c \in Callers, Publish(c) PROVE PagesInv'
  <2>1. /\ caller' = Returned(c) /\ server' = server
        /\ client'.generation = client.generation /\ client'.clearing = client.clearing
        /\ client'.cache = IF client.generation = caller[c].generation THEN caller[c].pages
                           ELSE client.cache
    BY <1>16, <1>a DEF Publish, Cached
  <2>2. Len(caller[c].pages) = Pages
    BY <1>16 DEF Publish, OwnerInv, CallersInv
  <2>3. FetchInv(c)
    BY DEF PagesInv
  <2>4. CacheInv'
    BY <2>1, <2>2, <2>3 DEF PagesInv, CacheInv, FetchInv
  <2>5. QED
    BY <2>1, <2>4, <1>3
<1>17. ASSUME NEW c \in Callers, Cancel(c) PROVE PagesInv'
  <2>1. CASE session.by = c /\ ConnectFails(c)
    BY <2>1, <1>4
  <2>2. CASE caller' = Returned(c) /\ server' = server /\ client' = Unlocked(c)
    <3>1. CacheInv'
      BY <2>2, UnlockedEffect DEF PagesInv, CacheInv
    <3>2. QED
      BY <2>2, <3>1, <1>3
  <2>3. QED
    BY <1>17, <2>1, <2>2 DEF Cancel
<1>18. ASSUME server.outbox # <<>>, server' = [server EXCEPT !.outbox = Tail(@)],
              client'.cache = client.cache, client'.generation = client.generation,
              client'.clearing = client.clearing,
              \A d \in Callers :
                 /\ caller'[d].at = caller[d].at /\ caller'[d].method = caller[d].method
                 /\ caller'[d].pages = caller[d].pages /\ caller'[d].id = caller[d].id
                 /\ caller'[d].generation = caller[d].generation
                 /\ \/ caller'[d].reply = caller[d].reply
                    \/ /\ caller'[d].reply = server.outbox[1].reply
                       /\ server.outbox[1].kind = "response" /\ server.outbox[1].id = caller[d].id
       PROVE  PagesInv'
  <2>1. /\ server'.inbox = server.inbox /\ server'.outbox = Tail(server.outbox)
        /\ server'.version = server.version
    BY <1>18, <1>a DEF Process
  <2>2. /\ \A i \in 1..Len(server'.outbox) :
              i + 1 \in 1..Len(server.outbox) /\ server'.outbox[i] = server.outbox[i + 1]
        /\ 1 \in 1..Len(server.outbox)
    BY <1>18, <2>1, TailPipes
  <2>3. InboxInv'
    BY <1>18, <2>1 DEF PagesInv, InboxInv, InFlight
  <2>4. OutboxInv'
    BY <2>1, <2>2 DEF PagesInv, OutboxInv
  <2>5. CacheInv'
    BY <1>18, <2>1 DEF PagesInv, CacheInv
  <2>6. ASSUME NEW d \in Callers PROVE FetchInv(d)'
    <3>1. FetchInv(d) /\ OutboxInv
      BY DEF PagesInv
    <3>2. caller'[d].reply.page <= server.version
      BY <1>18, <2>2, <3>1 DEF FetchInv, OutboxInv
    <3>3. ASSUME InFlight(d)', caller'[d].method = "list", caller'[d].reply.ok
          PROVE  caller[d].generation <= caller'[d].reply.page
      <4>1. InFlight(d) /\ caller[d].method = "list"
        BY <1>18, <3>3 DEF InFlight
      <4>2. CASE caller'[d].reply = caller[d].reply
        BY <3>1, <3>3, <4>1, <4>2 DEF FetchInv
      <4>3. CASE /\ caller'[d].reply = server.outbox[1].reply
                 /\ server.outbox[1].kind = "response" /\ server.outbox[1].id = caller[d].id
        BY <2>2, <3>1, <4>1, <4>3 DEF FetchInv
      <4>4. QED
        BY <1>18, <4>2, <4>3
    <3>4. ASSUME InFlight(d)', caller'[d].method = "list"
          PROVE  /\ caller[d].generation <= server.version
                 /\ \A i \in 1..Len(server'.outbox) :
                       server'.outbox[i].kind = "response" /\ server'.outbox[i].id = caller[d].id
                       => caller[d].generation <= server'.outbox[i].reply.page
      <4>1. InFlight(d) /\ caller[d].method = "list"
        BY <1>18, <3>4 DEF InFlight
      <4>2. QED
        BY <2>2, <3>1, <4>1 DEF FetchInv
    <3>5. QED
      BY <1>18, <2>1, <3>1, <3>2, <3>3, <3>4 DEF FetchInv
  <2>7. QED
    BY <2>3, <2>4, <2>5, <2>6 DEF PagesInv
<1>19. CASE ReadResponse
  <2> DEFINE r == Head(server.outbox)
             entries == {p \in inner.pending : p.id = r.id}
  <2>1. /\ r = server.outbox[1] /\ r.kind = "response" /\ r.reply \in Replies
        /\ server.outbox # <<>> /\ server' = [server EXCEPT !.outbox = Tail(@)]
    BY <1>19, TailPipes, OutboxTyped DEF ReadResponse, Item
  <2>2. caller' = Told(entries, r.reply) /\ client' = client
    BY <1>19 DEF ReadResponse
  <2> HIDE DEF r, entries
  <2>3. \A d \in Callers :
           /\ caller'[d].at = caller[d].at /\ caller'[d].method = caller[d].method
           /\ caller'[d].pages = caller[d].pages /\ caller'[d].id = caller[d].id
           /\ caller'[d].generation = caller[d].generation
    BY <2>1, <2>2, ToldEffect
  <2>4. \A d \in Callers : IF \E p \in entries : IsEntry(p, d)
                          THEN caller'[d].reply = r.reply ELSE caller'[d] = caller[d]
    BY <2>1, <2>2, ToldEffect
  <2>5. \A d \in Callers : (\E p \in entries : IsEntry(p, d)) => caller[d].id = r.id
    BY DEF IdsInv, TableInv, SerialsInv, IsEntry, entries
  <2>6. \A d \in Callers : \/ caller'[d].reply = caller[d].reply
                          \/ /\ caller'[d].reply = server.outbox[1].reply
                             /\ server.outbox[1].kind = "response"
                             /\ server.outbox[1].id = caller[d].id
    BY <2>1, <2>4, <2>5
  <2>7. QED
    BY <2>1, <2>2, <2>3, <2>6, <1>18
<1>20. CASE ReadNotification
  <2>1. /\ server.outbox # <<>> /\ server' = [server EXCEPT !.outbox = Tail(@)]
        /\ client'.cache = client.cache /\ client'.generation = client.generation
        /\ client'.clearing = client.clearing /\ caller' = caller
    BY <1>20, <1>a DEF ReadNotification, Cached
  <2>2. QED
    BY <2>1, <1>18
<1>21. CASE ReaderEnds
  <2>1. caller' = Told(inner.pending, Error) /\ server' = server /\ client' = client
    BY <1>21 DEF ReaderEnds
  <2>2. \A d \in Callers :
           /\ caller'[d].at = caller[d].at /\ caller'[d].method = caller[d].method
           /\ caller'[d].pages = caller[d].pages /\ caller'[d].id = caller[d].id
           /\ caller'[d].generation = caller[d].generation
    BY <2>1, ToldEffect, Blanks
  <2>3. \A d \in Callers : caller'[d].reply \in {caller[d].reply, NoReply}
    BY <2>1, ToldEffect, Blanks DEF Error
  <2>4. InboxInv' /\ OutboxInv' /\ CacheInv'
    BY <2>1, <2>2 DEF PagesInv, InboxInv, OutboxInv, CacheInv, InFlight
  <2>5. \A d \in Callers : FetchInv(d)'
    BY <1>c, <2>1, <2>2, <2>3, Blank DEF PagesInv, FetchInv, InFlight
  <2>6. QED
    BY <2>4, <2>5 DEF PagesInv
<1>22. CASE Answer \/ Change \/ Close \/ Exit
  BY <1>22, AnswerPages
<1>23. CASE DropTool
  <2>1. \A d \in Callers : caller'[d] = caller[d] /\ caller[d].at = "idle"
    BY <1>23 DEF DropTool, AllIdle
  <2>2. \A d \in Callers : /\ caller'[d].pages = <<>> /\ caller'[d].reply = NoReply
                          /\ ~ InFlight(d)'
    BY <2>1 DEF OwnerInv, CallersInv, InFlight
  <2>3. /\ server'.inbox = {} /\ server'.outbox = <<>> /\ server'.version = 0
        /\ client'.cache = <<>>
    BY <1>23, Blank DEF DropTool, DropTransport, Server
  <2>4. QED
    BY <2>2, <2>3, FreshPages
<1>24. CASE Bump \/ Clear \/ UNCHANGED vars
  <2>1. caller' = caller /\ server' = server
    BY <1>24 DEF Bump, Clear, vars
  <2>2. CacheInv'
    <3>1. CASE Bump
      <4>1. client'.cache = client.cache /\ client'.clearing # 0
        BY <3>1, <1>a DEF Bump, Cached
      <4>2. QED
        BY <2>1, <4>1 DEF PagesInv, CacheInv
    <3>2. CASE Clear
      <4>1. client'.cache = <<>>
        BY <3>2, <1>a DEF Clear, Cached
      <4>2. QED
        BY <1>d, <4>1 DEF CacheInv
    <3>3. CASE UNCHANGED vars
      BY <3>3, <1>b DEF vars
    <3>4. QED
      BY <1>24, <3>1, <3>2, <3>3
  <2>3. QED
    BY <2>1, <2>2 DEF PagesInv, InboxInv, OutboxInv, FetchInv, InFlight
<1>25. QED
  BY <1>1, <1>2, <1>7, <1>8, <1>9, <1>10, <1>11, <1>12, <1>13, <1>14, <1>15, <1>16, <1>17,
     <1>19, <1>20, <1>21, <1>22, <1>23, <1>24 DEF Next, Proceed

-----------------------------------------------------------------------------
(* The theorems.                                                           *)

Inv == Typed /\ OwnerInv /\ IdsInv /\ LiveInv /\ CountInv /\ PagesInv

LEMMA Invariance == Spec => []Inv
<1>1. Init => Inv
  BY TypedInit, OwnerInit, IdsInit, LiveInit, CountInit, PagesInit DEF Inv
<1>2. ASSUME Inv, [Next]_vars PROVE Inv'
  <2>1. Typed'
    BY <1>2, TypedStep DEF Inv
  <2>2. OwnerInv'
    BY <1>2, OwnerStep DEF Inv
  <2>3. IdsInv'
    BY <1>2, IdsStep DEF Inv
  <2>4. LiveInv'
    BY <1>2, LiveStep DEF Inv
  <2>5. CountInv'
    BY <1>2, <2>1, CountStep DEF Inv
  <2>6. PagesInv'
    BY <1>2, PagesStep DEF Inv
  <2>7. QED
    BY <2>1, <2>2, <2>3, <2>4, <2>5, <2>6 DEF Inv
<1>3. QED
  BY <1>1, <1>2, PTL DEF Spec

\* The parts keep their types, the fetch lock is held by exactly the caller that fetches
\* and the session by the one that shakes hands, for any number of callers, timeouts,
\* cancellations and ends of the server (list_tools_cached, McpStdioTool::connect).
THEOREM TypeCorrect == Spec => []TypeOK
<1>1. Inv => TypeOK
  <2> SUFFICES ASSUME Inv PROVE TypeOK
    OBVIOUS
  <2>a. Typed /\ OwnerInv /\ IdsInv /\ CountInv /\ PagesInv
    BY DEF Inv
  <2>b. inner \in Transport /\ server \in Process /\ client \in Cached
        /\ caller \in [Callers -> Future]
    BY <2>a DEF Typed
  <2>1. /\ mode \in Modes
        /\ session \in [at : {"empty", "filling", "full"}, by : Callers \cup {Nobody}]
        /\ begins \in 0..MaxBegins /\ outlived \in BOOLEAN
    BY <2>a DEF Typed
  <2>2. session.at = "filling" <=> session.by # Nobody
    BY <2>a DEF OwnerInv, SessionInv
  <2>3. \A p \in inner.pending : p.id \in 1..inner.calls /\ p.by \in Callers
    BY <2>a, <2>b DEF IdsInv, TableInv, Transport, Entry
  <2>4. {inner.reader, inner.torn, server.running} \subseteq BOOLEAN
    BY <2>b DEF Transport, Process
  <2>5. server.version \in 0..MaxChanges
    BY <2>b DEF Process
  <2>6. client.generation + client.bumping \in 0..server.version
    <3>1. client.generation \in Nat /\ client.bumping \in Nat /\ server.version \in Nat
      BY <2>b, Parameters DEF Cached, Process
    <3>2. Cardinality(ChangedAt) \in Nat
      BY <2>a, ChangedFinite
    <3>3. QED
      BY <2>a, <3>1, <3>2 DEF CountInv
  <2>7. client.cache = <<>> \/ Len(client.cache) = Pages
    BY <2>a DEF PagesInv, CacheInv
  <2>8. ASSUME NEW c \in Callers
        PROVE  /\ caller[c].at \in {"idle", "connecting", "writing", "waiting", "locking",
                                    "publishing"}
               /\ caller[c].goal \in {"none", "list", "tool"} /\ caller[c].reply \in Replies
               /\ Fetching(c) <=> client.fetching = c
               /\ Shaking(c) <=> session.by = c
    <3>1. caller[c] \in Future
      BY <2>b
    <3>2. QED
      BY <2>a, <3>1 DEF Future, Places, OwnerInv, LockInv, SessionInv
  <2>9. QED
    BY <2>1, <2>2, <2>3, <2>4, <2>5, <2>6, <2>7, <2>8 DEF TypeOK
<1>2. QED
  BY Invariance, <1>1, PTL

\* No two requests under way share an id, also when requests before them timed out or
\* lost their callers (IdGenerator, the call of the transport).
THEOREM IdsAreDistinct == Spec => []RequestsDistinct
<1>1. Inv => RequestsDistinct
  BY DEF Inv, IdsInv
<1>2. QED
  BY Invariance, <1>1, PTL

\* A reply that a caller gets is to the request it waits for, in whatever order the
\* server answers, and whoever timed out or is gone (route_incoming).
THEOREM RepliesAnswerRequests == Spec => []AnswersMatch
<1>1. Inv => AnswersMatch
  BY DEF Inv, IdsInv
<1>2. QED
  BY Invariance, <1>1, PTL

\* A caller that waits for a reply has its entry in the table, and a reader runs.
WaitersKnown ==
    \A c \in Callers :
       caller[c].at = "waiting" /\ ~ caller[c].replied =>
          inner.reader /\ \E p \in inner.pending : IsEntry(p, c)

\* Nobody waits for a reply that no reader will hand over: as long as the reader does not
\* fail on its own, it runs while anyone waits, and knows of it, so that it hands over the
\* answer or, when the server ends, an error (the reader task of StdioTransport).
THEOREM NobodyIsForgotten == ASSUME ~ CanMisread PROVE Spec => []WaitersKnown
<1>1. Inv => WaitersKnown
  BY DEF Inv, LiveInv, WaitersInv, ReaderInv, WaitersKnown, InFlight
<1>2. QED
  BY Invariance, <1>1, PTL

\* However fetches, changes and their handlers interleave, the cache holds no page from
\* before a change that was handled (list_tools_cached, tools_generation).
THEOREM CacheCurrent == Spec => []CacheIsCurrent
<1>1. Inv => CacheIsCurrent
  <2> SUFFICES ASSUME Inv, client.bumping = 0, client.clearing = 0,
                      \A i \in 1..Len(server.outbox) : server.outbox[i].kind # "changed",
                      NEW k \in 1..Len(client.cache)
               PROVE  client.cache[k] = server.version
    BY DEF CacheIsCurrent
  <2>1. ChangedAt = {}
    BY DEF ChangedAt
  <2>2. Cardinality(ChangedAt) = 0
    BY <2>1, FS_EmptySet
  <2>3. client \in Cached /\ server \in Process
    BY DEF Inv, Typed
  <2>4. client.generation \in Nat /\ client.cache \in Seq(Nat) /\ server.version \in Nat
    BY <2>3, Parameters DEF Cached, PageList, Process
  <2>5. client.cache[k] \in Nat
    BY <2>4
  <2>6. client.generation = server.version
    BY <2>2, <2>4 DEF Inv, CountInv
  <2>7. client.cache[k] <= server.version /\ client.generation <= client.cache[k]
    BY DEF Inv, PagesInv, CacheInv
  <2>8. QED
    BY <2>4, <2>5, <2>6, <2>7
<1>2. QED
  BY Invariance, <1>1, PTL

=============================================================================
