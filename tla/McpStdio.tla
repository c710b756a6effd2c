------------------------------ MODULE McpStdio ------------------------------
(***************************************************************************)
(* The MCP client over a child process (agent-framework-mcp: transport/    *)
(* stdio.rs, client.rs, tool.rs).  Callers of one McpStdioTool connect, by *)
(* spawning the server and shaking hands with it, list its tools through a *)
(* cache, and call them.  A request is a line to the server and an entry   *)
(* in the pending table; a reader task takes the server's lines, hands     *)
(* responses to whoever waits for their id, and has notifications handled, *)
(* each in a task of its own.  The server answers in any order, changes    *)
(* its list of tools and says so, and may exit.                            *)
(***************************************************************************)
EXTENDS Naturals, Sequences

CONSTANTS
    Callers,        \* concurrent users of the tool
    Modes,          \* protocol modes it may be configured with
    Pages,          \* pages of the list of tools
    MaxBegins,      \* calls made by the callers
    MaxChanges,     \* changes of the server's list
    Refuses,        \* methods that the server may answer with an error
    TimesOut,       \* is a request_timeout set?
    CanCancel,      \* may a caller be dropped while it waits?
    CanTear,        \* may it be dropped half way through a line?
    CanMisread      \* may the reader fail while the server runs?

Nobody == "nobody"

ASSUME ConfigAssumption ==
    /\ Nobody \notin Callers
    /\ Modes \subseteq {"legacy", "auto", "modern"}
    /\ Pages \in Nat \ {0} /\ {MaxBegins, MaxChanges} \subseteq Nat
    /\ Refuses \subseteq {"discover", "initialize", "list"}
    /\ {TimesOut, CanCancel, CanTear, CanMisread} \subseteq BOOLEAN

VARIABLES
    mode,       \* McpProtocolMode
    session,    \* the OnceCell of the tool: empty, being filled, or full
    inner,      \* StdioInner: what the transport and its reader share
    server,     \* the child process, and the pipes to and from it
    client,     \* McpClient: the cached list, and what guards it
    caller,     \* each caller: where its future is, and its request
    begins,     \* calls made by the callers so far
    outlived    \* did a process run on with no transport left?

vars == <<mode, session, inner, server, client, caller, begins, outlived>>

Inner == [pending |-> {}, calls |-> 0, reader |-> TRUE, torn |-> FALSE]
Server == [running |-> TRUE, version |-> 0, inbox |-> {}, outbox |-> <<>>]
Client == [cache |-> <<>>, generation |-> 0, fetching |-> Nobody, bumping |-> 0, clearing |-> 0]

\* told: the request that the reply was made for.
NoReply == [ok |-> FALSE, told |-> 0, page |-> 0]
Error == NoReply
Idle == [at |-> "idle", goal |-> "none", method |-> "none", id |-> 0, serial |-> 0,
         replied |-> FALSE, reply |-> NoReply, pages |-> <<>>, generation |-> 0]

Init ==
    /\ mode \in Modes
    /\ session = [at |-> "empty", by |-> Nobody]
    /\ inner = Inner /\ server = [Server EXCEPT !.running = FALSE] /\ client = Client
    /\ caller = [c \in Callers |-> Idle]
    /\ begins = 0 /\ outlived = FALSE

-----------------------------------------------------------------------------
(* The transport: call.                                                    *)

\* (mutant) ids are taken again when they are free.
FreshId_Lowest(in) ==
    LET taken == {p.id : p \in in.pending}
    IN  CHOOSE i \in (1..(in.calls + 1)) \ taken : 1..(i - 1) \subseteq taken

FreshId(in) == in.calls + 1

\* A request over a transport is entered in its pending table before it is written.
Request(in, c, method, me) ==
    /\ inner' = [in EXCEPT
                   !.calls = @ + 1,
                   !.pending = @ \cup {[id |-> FreshId(in), serial |-> in.calls + 1, by |-> c]}]
    /\ caller' = [caller EXCEPT ![c] =
                    [me EXCEPT !.at = "writing", !.method = method, !.id = FreshId(in),
                               !.serial = in.calls + 1, !.replied = FALSE, !.reply = NoReply]]

Without(id) == {p \in inner.pending : p.id # id}

\* The future of c ends, or is dropped.
Returned(c) == [caller EXCEPT ![c] = Idle]
\* (mutant) the lock is not released.
Unlocked_Never(c) == client

Unlocked(c) == IF client.fetching = c THEN [client EXCEPT !.fetching = Nobody] ELSE client

\* write_line.  A line that was torn before swallows the one after it.
Write(c) ==
    /\ caller[c].at = "writing" /\ server.running
    /\ caller' = [caller EXCEPT ![c].at = "waiting"]
    /\ inner' = [inner EXCEPT !.torn = FALSE]
    /\ server' = [server EXCEPT !.inbox = IF inner.torn THEN @ ELSE
                    @ \cup {[id |-> caller[c].id, serial |-> caller[c].serial,
                             method |-> caller[c].method]}]
    /\ UNCHANGED <<mode, session, client, begins, outlived>>

\* Without a server the line cannot be written: the call fails.
WriteFails(c) ==
    /\ caller[c].at = "writing" /\ ~ server.running
    /\ inner' = [inner EXCEPT !.pending = Without(caller[c].id)]
    /\ caller' = [caller EXCEPT ![c].at = "waiting", ![c].replied = TRUE, ![c].reply = Error]
    /\ UNCHANGED <<mode, session, server, client, begins, outlived>>

Timeout(c) ==
    /\ TimesOut /\ caller[c].at = "waiting" /\ ~ caller[c].replied
    /\ inner' = [inner EXCEPT !.pending = Without(caller[c].id)]
    /\ caller' = [caller EXCEPT ![c].replied = TRUE, ![c].reply = Error]
    /\ UNCHANGED <<mode, session, server, client, begins, outlived>>

-----------------------------------------------------------------------------
(* The transport: its reader, and the tasks for notifications.             *)

\* Whoever waits for one of the entries gets its reply.
Told(entries, reply) ==
    [c \in Callers |->
       IF \E p \in entries : p.by = c /\ p.serial = caller[c].serial
       THEN [caller[c] EXCEPT !.replied = TRUE, !.reply = reply] ELSE caller[c]]

ReadResponse ==
    /\ inner.reader /\ server.outbox # <<>> /\ Head(server.outbox).kind = "response"
    /\ LET r == Head(server.outbox)
       IN  /\ caller' = Told({p \in inner.pending : p.id = r.id}, r.reply)
           /\ inner' = [inner EXCEPT !.pending = Without(r.id)]
    /\ server' = [server EXCEPT !.outbox = Tail(@)]
    /\ UNCHANGED <<mode, session, client, begins, outlived>>

ReadNotification ==
    /\ inner.reader /\ server.outbox # <<>> /\ Head(server.outbox).kind = "changed"
    /\ client' = [client EXCEPT !.bumping = @ + 1]
    /\ server' = [server EXCEPT !.outbox = Tail(@)]
    /\ UNCHANGED <<mode, session, inner, caller, begins, outlived>>

\* (mutant) those who wait are forgotten.
ReaderEnds_Forgets ==
    /\ inner.reader
    /\ (~ server.running /\ server.outbox = <<>>) \/ CanMisread
    /\ inner' = [inner EXCEPT !.reader = FALSE, !.pending = {}]
    /\ UNCHANGED <<mode, session, server, client, caller, begins, outlived>>

\* At the end of the server's output, or an error in reading it, whoever waits is
\* told.
ReaderEnds ==
    /\ inner.reader
    /\ (~ server.running /\ server.outbox = <<>>) \/ CanMisread
    /\ inner' = [inner EXCEPT !.reader = FALSE, !.pending = {}]
    /\ caller' = Told(inner.pending, Error)
    /\ UNCHANGED <<mode, session, server, client, begins, outlived>>

\* The handler of a notification counts the change, then clears the cache.
Bump ==
    /\ client.bumping > 0
    /\ client' = [client EXCEPT !.bumping = @ - 1, !.clearing = @ + 1, !.generation = @ + 1]
    /\ UNCHANGED <<mode, session, inner, server, caller, begins, outlived>>

Clear ==
    /\ client.clearing > 0
    /\ client' = [client EXCEPT !.clearing = @ - 1, !.cache = <<>>]
    /\ UNCHANGED <<mode, session, inner, server, caller, begins, outlived>>

-----------------------------------------------------------------------------
(* The tool: connect, and its end.                                         *)

\* Nothing refers to the transport any more, except its reader: only when that has
\* ended is StdioInner dropped too, and the process killed.
DropTransport ==
    /\ outlived' = (outlived \/ (server.running /\ inner.reader))
    /\ session' = [at |-> "empty", by |-> Nobody]
    /\ inner' = Inner /\ server' = [Server EXCEPT !.running = FALSE] /\ client' = Client
    /\ UNCHANGED <<mode, begins>>

Begin(c) ==
    /\ caller[c].at = "idle" /\ begins < MaxBegins
    /\ \E goal \in {"list", "tool"} :
          caller' = [caller EXCEPT ![c].at = "connecting", ![c].goal = goal]
    /\ begins' = begins + 1
    /\ UNCHANGED <<mode, session, inner, server, client, outlived>>

\* The first to connect spawns the server; others wait for it.
Connect(c) ==
    /\ caller[c].at = "connecting" /\ session.at = "empty"
    /\ session' = [at |-> "filling", by |-> c]
    /\ server' = Server /\ client' = Client
    /\ Request(Inner, c, IF mode = "legacy" THEN "initialize" ELSE "discover", caller[c])
    /\ UNCHANGED <<mode, begins, outlived>>

SpawnFails(c) ==
    /\ caller[c].at = "connecting" /\ session.at = "empty"
    /\ caller' = Returned(c)
    /\ UNCHANGED <<mode, session, inner, server, client, begins, outlived>>

ConnectFails(c) == caller' = Returned(c) /\ DropTransport

Connected(c) ==
    /\ session' = [at |-> "full", by |-> Nobody]
    /\ caller' = [caller EXCEPT ![c] = [Idle EXCEPT !.at = "connecting", !.goal = caller[c].goal]]
    /\ UNCHANGED <<mode, inner, server, client, begins, outlived>>

Replied(c, method) ==
    caller[c].at = "waiting" /\ caller[c].replied /\ caller[c].method = method

\* A server that does not speak the modern protocol, or fails to say so, is asked
\* again in the old way, when the mode allows it.
Discovered(c) ==
    /\ Replied(c, "discover")
    /\ \/ caller[c].reply.ok /\ Connected(c)
       \/ ~ caller[c].reply.ok /\ mode = "modern" /\ ConnectFails(c)
       \/ /\ ~ caller[c].reply.ok /\ mode = "auto"
          /\ Request(inner, c, "initialize", caller[c])
          /\ UNCHANGED <<mode, session, server, client, begins, outlived>>

\* The handshake ends with a notification to the server.
Initialized(c) ==
    /\ Replied(c, "initialize")
    /\ IF caller[c].reply.ok /\ server.running THEN Connected(c) ELSE ConnectFails(c)

-----------------------------------------------------------------------------
(* The client: list_tools_cached and call_tool.                            *)

CallTool(c) ==
    /\ caller[c].at = "connecting" /\ session.at = "full" /\ caller[c].goal = "tool"
    /\ Request(inner, c, "tool", caller[c])
    /\ UNCHANGED <<mode, session, server, client, begins, outlived>>

CheckCache(c) ==
    /\ caller[c].at = "connecting" /\ session.at = "full" /\ caller[c].goal = "list"
    /\ caller' = IF client.cache # <<>> THEN Returned(c)
                 ELSE [caller EXCEPT ![c].at = "locking"]
    /\ UNCHANGED <<mode, session, inner, server, client, begins, outlived>>

\* With the lock the cache is checked again, and a fetch begins.
Lock(c) ==
    /\ caller[c].at = "locking" /\ client.fetching = Nobody
    /\ IF client.cache # <<>>
       THEN caller' = Returned(c) /\ UNCHANGED <<inner, client>>
       ELSE /\ client' = [client EXCEPT !.fetching = c]
            /\ Request(inner, c, "list", [caller[c] EXCEPT !.generation = client.generation])
    /\ UNCHANGED <<mode, session, server, begins, outlived>>

Listed(c) ==
    /\ Replied(c, "list")
    /\ LET pages == Append(caller[c].pages, caller[c].reply.page)
           me    == [caller[c] EXCEPT !.pages = pages]
       IN  IF ~ caller[c].reply.ok
           THEN caller' = Returned(c) /\ client' = Unlocked(c) /\ UNCHANGED inner
           ELSE /\ UNCHANGED client
                /\ IF Len(pages) < Pages THEN Request(inner, c, "list", me)
                   ELSE /\ caller' = [caller EXCEPT ![c] =
                                       [me EXCEPT !.at = "publishing", !.reply = NoReply]]
                        /\ UNCHANGED inner
    /\ UNCHANGED <<mode, session, server, begins, outlived>>

\* (mutant) whatever has changed meanwhile.
Publish_Always(c) ==
    /\ caller[c].at = "publishing"
    /\ client' = [client EXCEPT !.fetching = Nobody, !.cache = caller[c].pages]
    /\ caller' = Returned(c)
    /\ UNCHANGED <<mode, session, inner, server, begins, outlived>>

Publish(c) ==
    /\ caller[c].at = "publishing"
    /\ client' = [client EXCEPT
                    !.fetching = Nobody,
                    !.cache = IF client.generation = caller[c].generation
                              THEN caller[c].pages ELSE @]
    /\ caller' = Returned(c)
    /\ UNCHANGED <<mode, session, inner, server, begins, outlived>>

ToolCalled(c) ==
    /\ Replied(c, "tool")
    /\ caller' = Returned(c)
    /\ UNCHANGED <<mode, session, inner, server, client, begins, outlived>>

Proceed(c) ==
    \/ Connect(c) \/ SpawnFails(c) \/ Discovered(c) \/ Initialized(c)
    \/ Write(c) \/ WriteFails(c)
    \/ CallTool(c) \/ ToolCalled(c)
    \/ CheckCache(c) \/ Lock(c) \/ Listed(c) \/ Publish(c)

-----------------------------------------------------------------------------
(* Callers that are dropped, the host, and the server.                     *)

\* The future of a caller is dropped: its entry stays in the pending table, and a
\* line it was writing may be left half written.  With the future that fills the
\* session goes the transport.
Cancel(c) ==
    /\ CanCancel /\ caller[c].at # "idle"
    /\ \/ session.by = c /\ ConnectFails(c)
       \/ /\ session.by # c
          /\ caller' = Returned(c) /\ client' = Unlocked(c)
          /\ \E tears \in {FALSE, CanTear /\ caller[c].at = "writing"} :
                inner' = [inner EXCEPT !.torn = @ \/ tears]
          /\ UNCHANGED <<mode, session, server, begins, outlived>>

\* What the server wrote can still be read; what it did not read is lost.
Stopped == [server EXCEPT !.running = FALSE, !.inbox = {}]

\* The session stays, without its server.
Close ==
    /\ session.at = "full" /\ server.running
    /\ server' = Stopped
    /\ UNCHANGED <<mode, session, inner, client, caller, begins, outlived>>

AllIdle == \A c \in Callers : caller[c].at = "idle"

\* The tool, which its callers borrow, is dropped with the definitions it gave out;
\* another one of the same configuration takes its place.
DropTool ==
    /\ session.at = "full" /\ AllIdle
    /\ DropTransport
    /\ UNCHANGED caller

\* The server answers in any order; that a tool failed is an answer too.
Answer ==
    /\ server.running
    /\ \E r \in server.inbox, ok \in BOOLEAN :
          /\ r.method \notin Refuses => ok
          /\ server' = [server EXCEPT
                !.inbox = @ \ {r},
                !.outbox = Append(@, [kind |-> "response", id |-> r.id,
                              reply |-> [ok |-> ok, told |-> r.serial,
                                        page |-> IF r.method = "list" THEN server.version ELSE 0]])]
    /\ UNCHANGED <<mode, session, inner, client, caller, begins, outlived>>

Change ==
    /\ server.running /\ server.version < MaxChanges
    /\ server' = [server EXCEPT
                    !.version = @ + 1,
                    !.outbox = Append(@, [kind |-> "changed", id |-> 0, reply |-> NoReply])]
    /\ UNCHANGED <<mode, session, inner, client, caller, begins, outlived>>

Exit ==
    /\ server.running
    /\ server' = Stopped
    /\ UNCHANGED <<mode, session, inner, client, caller, begins, outlived>>

Next ==
    \/ \E c \in Callers : Begin(c) \/ Proceed(c) \/ Timeout(c) \/ Cancel(c)
    \/ ReadResponse \/ ReadNotification \/ ReaderEnds \/ Bump \/ Clear
    \/ Close \/ DropTool \/ Answer \/ Change \/ Exit

Spec == Init /\ [][Next]_vars

\* Tasks are scheduled, and the server answers what it reads.
FairSpec ==
    /\ Spec
    /\ \A c \in Callers : WF_vars(Proceed(c))
    /\ WF_vars(ReadResponse \/ ReadNotification) /\ WF_vars(ReaderEnds)
    /\ WF_vars(Bump) /\ WF_vars(Clear)
    /\ WF_vars(Answer)

-----------------------------------------------------------------------------
Replies == [ok : BOOLEAN, told : Nat, page : Nat]
Fetching(c) == caller[c].method = "list" /\ caller[c].at \in {"writing", "waiting", "publishing"}
Shaking(c) == caller[c].method \in {"discover", "initialize"}

\* The parts keep their types.  The fetch lock is held by exactly the caller that
\* fetches, and the session being filled by exactly the one that shakes hands, however
\* these end; nobody waits for an id above those given out.
TypeOK ==
    /\ mode \in Modes
    /\ session \in [at : {"empty", "filling", "full"}, by : Callers \cup {Nobody}]
    /\ session.at = "filling" <=> session.by # Nobody
    /\ \A p \in inner.pending : p.id \in 1..inner.calls /\ p.by \in Callers
    /\ {inner.reader, inner.torn, server.running} \subseteq BOOLEAN
    /\ server.version \in 0..MaxChanges
    /\ client.generation + client.bumping \in 0..server.version
    /\ client.cache = <<>> \/ Len(client.cache) = Pages
    /\ \A c \in Callers :
          /\ caller[c].at \in {"idle", "connecting", "writing", "waiting", "locking", "publishing"}
          /\ caller[c].goal \in {"none", "list", "tool"} /\ caller[c].reply \in Replies
          /\ Fetching(c) <=> client.fetching = c
          /\ Shaking(c) <=> session.by = c
    /\ begins \in 0..MaxBegins /\ outlived \in BOOLEAN

\* Whatever arrives late, after a timeout or for a caller that is gone, and in whatever
\* order the server answers: a reply that a caller gets is to the request it waits for
\* (ids of IdGenerator, pending table of StdioInner).
AnswersMatch ==
    \A c \in Callers : caller[c].reply.told \in {0, caller[c].serial}

\* Once a change of the server's list has been heard of and handled, the cache does not
\* hold any page from before it, also if a fetch was under way (list_tools_cached and
\* the notification handler of McpClient::new).
CacheIsCurrent ==
    (client.cache # <<>> /\ client.bumping = 0 /\ client.clearing = 0 /\
     \A i \in 1..Len(server.outbox) : server.outbox[i].kind # "changed")
    => \A i \in 1..Len(client.cache) : client.cache[i] = server.version

\* A call returns, without a timeout, however the server, the session or other callers
\* end meanwhile.
CallsReturn == ~ AllIdle ~> AllIdle

\* "The child is spawned with kill_on_drop, and is additionally killed explicitly by
\* close and by Drop, so the process never outlives this transport" (stdio.rs).
ProcessNeverOutlives == ~ outlived
=============================================================================
