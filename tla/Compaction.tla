----------------------------- MODULE Compaction -----------------------------
(***************************************************************************)
(* What compaction (core/src/compaction.rs) makes of a message list: the   *)
(* strategies that cut it, and the repair every cut goes through before it *)
(* is sent ahead of the input of a run.  Operators only; Conversation      *)
(* runs them.                                                              *)
(*                                                                         *)
(* A message is [role, parts]; a part is [kind, id, body], where id is the *)
(* call id of a call or a result, and body tells apart what equality of    *)
(* contents does (a text, the name and arguments of a call, a payload).    *)
(* Approvals are left out: on lists without them the removal of settled    *)
(* ones is the identity.  Token counts are a function of the part.         *)
(***************************************************************************)
EXTENDS Integers, FiniteSets, SequencesExt

CONSTANTS
    CallIds,   \* the ids of calls, and what other parts have in their place
    Bodies,    \* what there is to tell apart, see above
    Tokens     \* the tokens a part of each kind costs

Omitted == "omitted"   \* the payload that stands in for an evicted result

Roles == {"system", "user", "assistant", "tool"}
Kinds == {"text", "reasoning", "image", "file", "call", "result"}

ASSUME CompactionAssumption ==
    /\ Omitted \in Bodies
    /\ Tokens \in [Kinds \cup {Omitted} -> Nat]

Part == [kind : Kinds, id : CallIds, body : Bodies]
Message == [role : Roles, parts : Seq(Part)]

IsToolPart(p) == p.kind \in {"call", "result"}

\* What reaches the model on every provider, in a message of this role.
Renders(role, p) ==
    \/ p.kind \in {"text", "call", "result"}
    \/ p.kind = "image" /\ role # "assistant"

MessageRenders(m) ==
    m.role # "system" /\ \E i \in DOMAIN m.parts : Renders(m.role, m.parts[i])

\* The elements of s at the indices in J.
Pick(s, J) ==
    LET f[n \in 0 .. Len(s)] ==
          IF n = 0 THEN <<>>
          ELSE IF n \in J THEN Append(f[n - 1], s[n]) ELSE f[n - 1]
    IN  f[Len(s)]

\* m with the parts at the indices in J.
ReducedTo(m, J) == [m EXCEPT !.parts = Pick(@, J)]

-----------------------------------------------------------------------------
\* Pairing.  A site is a part with its place: message mi, part ci.
Sites(ms) ==
    LET f[n \in 0 .. Len(ms)] ==
          IF n = 0 THEN <<>>
          ELSE f[n - 1] \o [j \in DOMAIN ms[n].parts |->
                              [mi |-> n, ci |-> j, part |-> ms[n].parts[j]]]
    IN  f[Len(ms)]

\* A result answers the nearest preceding unanswered call with its id.  Open
\* calls and pairs are kept as indices into the list of parts ps.
PairPart(ps, acc, n) ==
    LET same == {o \in acc.open : ps[o].id = ps[n].id}
    IN  CASE ps[n].kind = "call" -> [acc EXCEPT !.open = @ \cup {n}]
          [] ps[n].kind = "result" /\ same # {} ->
               [open  |-> acc.open \ {Max(same)},
                pairs |-> acc.pairs \cup {[call |-> Max(same), result |-> n]}]
          [] OTHER -> acc

PairParts(ps) ==
    LET f[n \in 0 .. Len(ps)] ==
          IF n = 0 THEN [open |-> {}, pairs |-> {}] ELSE PairPart(ps, f[n - 1], n)
    IN  f[Len(ps)]

\* The pairs among these sites, and the calls left open.
PairSites(sites) ==
    LET found == PairParts([n \in DOMAIN sites |-> sites[n].part])
    IN  [open  |-> {sites[n] : n \in found.open},
         pairs |-> {[call |-> sites[p.call], result |-> sites[p.result]] : p \in found.pairs}]

PairToolExchanges(ms) == PairSites(Sites(ms))

PairedSites(ms) == UNION {{p.call, p.result} : p \in PairToolExchanges(ms).pairs}

\* How many results with this id no preceding call in ms answers.
UnansweredResults(ms, id) ==
    Cardinality({s \in ToSet(Sites(ms)) \ PairedSites(ms) :
                   s.part.kind = "result" /\ s.part.id = id})

-----------------------------------------------------------------------------
\* Strategies: each returns what it keeps of the list, in its order.
LeadingSystemCount(ms) ==
    LET first == SelectInSeq(ms, LAMBDA m : m.role # "system")
    IN  IF first = 0 THEN Len(ms) ELSE first - 1

\* (mutant) it is put ahead of what begins with it, too.
PreservedFirstUser_AtStartToo(rest, start, preserve) ==
    LET first == SelectInSeq(rest, LAMBDA m : m.role = "user")
    IN  IF preserve /\ first # 0 /\ first <= start THEN <<rest[first]>> ELSE <<>>

\* The first user message of rest, when it is to be kept and start leaves it out.
PreservedFirstUser(rest, start, preserve) ==
    LET first == SelectInSeq(rest, LAMBDA m : m.role = "user")
    IN  IF preserve /\ first # 0 /\ first < start THEN <<rest[first]>> ELSE <<>>

\* The first sys of the n leading system messages, and the others from start on.
KeepFrom(ms, n, sys, start, preserve) ==
    LET rest == SubSeq(ms, n + 1, Len(ms))
    IN  SubSeq(ms, 1, sys) \o PreservedFirstUser(rest, start, preserve)
          \o SubSeq(rest, start, Len(rest))

\* Where the last n of len begin.
StartOfLast(n, len) == IF n >= len THEN 1 ELSE len - n + 1

Truncation(ms, s) ==
    LET n == LeadingSystemCount(ms)
        rest == Len(ms) - n
    IN  CASE Len(ms) <= s.limit -> ms
          [] Len(ms) > s.limit /\ n >= s.limit -> KeepFrom(ms, n, s.limit, rest + 1, s.preserve)
          [] OTHER -> KeepFrom(ms, n, n, StartOfLast(s.limit - n, rest), s.preserve)

SlidingWindow(ms, s) ==
    LET n == LeadingSystemCount(ms)
    IN  KeepFrom(ms, n, n, StartOfLast(s.limit, Len(ms) - n), s.preserve)

PartTokens(p) == IF p.body = Omitted THEN Tokens[Omitted] ELSE Tokens[p.kind]
TotalTokens(ms) == FoldLeft(LAMBDA sum, s : sum + PartTokens(s.part), 0, Sites(ms))

\* From the newest back while the total fits; the newest stays in any case.
TokenBudget(ms, s) ==
    LET n == LeadingSystemCount(ms)
        rest == Len(ms) - n
        Fits(i) == TotalTokens(SubSeq(ms, 1, n) \o SubSeq(ms, n + i, Len(ms))) <= s.limit
        start == IF rest = 0 THEN 1 ELSE Min({i \in 1 .. rest : Fits(i)} \cup {rest})
    IN  KeepFrom(ms, n, n, start, s.preserve)

HasToolResult(m) == \E i \in DOMAIN m.parts : m.parts[i].kind = "result"

\* The payloads of all but the last s.limit messages with results are replaced.
SelectiveToolResult(ms, s) ==
    LET bearing == {i \in DOMAIN ms : HasToolResult(ms[i])}
        stale == {i \in bearing : Cardinality({j \in bearing : j > i}) >= s.limit}
        Evicted(p) == IF p.kind = "result" THEN [p EXCEPT !.body = Omitted] ELSE p
    IN  [i \in DOMAIN ms |->
           IF i \in stale
           THEN [ms[i] EXCEPT !.parts = [j \in DOMAIN @ |-> Evicted(@[j])]]
           ELSE ms[i]]

\* Past the first threshold results are evicted; past the second, messages.
ContextWindow(ms, s) ==
    LET evicted == IF TotalTokens(ms) > s.eviction
                   THEN SelectiveToolResult(ms, [limit |-> s.limit]) ELSE ms
    IN  IF TotalTokens(evicted) > s.truncation
        THEN TokenBudget(evicted, [limit |-> s.eviction, preserve |-> s.preserve])
        ELSE evicted

Strategy ==
    [kind : {"truncation", "window", "budget"}, limit : Nat, preserve : BOOLEAN]
      \cup [kind : {"results"}, limit : Nat]
      \cup [kind : {"contextWindow"}, limit : Nat, eviction : Nat, truncation : Nat,
            preserve : BOOLEAN]

Compact(ms, s) ==
    CASE s.kind = "truncation"    -> Truncation(ms, s)
      [] s.kind = "window"        -> SlidingWindow(ms, s)
      [] s.kind = "budget"        -> TokenBudget(ms, s)
      [] s.kind = "results"       -> SelectiveToolResult(ms, s)
      [] s.kind = "contextWindow" -> ContextWindow(ms, s)

\* A pipeline is a sequence of strategies, each on what the one before returned.
Pipeline(ms, stages) ==
    LET f[n \in 0 .. Len(stages)] == IF n = 0 THEN ms ELSE Compact(f[n - 1], stages[n])
    IN  f[Len(stages)]

-----------------------------------------------------------------------------
(***************************************************************************)
(* The repair works on entries [msg, origin]: origin is the place in the   *)
(* original list, recovered by comparing messages, or 0.                   *)
(***************************************************************************)

Messages(es) == [i \in DOMAIN es |-> es[i].msg]

\* From the end backwards, each at the latest match before the one after it;
\* one that matches nothing ends the search.
OriginIndices(ms, original) ==
    LET \* of the n-th message from the end, below the one after it
        origin[n \in 0 .. Len(ms)] ==
          IF n = 0 THEN Len(original) + 1
          ELSE Max({0} \cup {i \in 1 .. origin[n - 1] - 1 :
                               original[i] = ms[Len(ms) - n + 1]})
    IN  [i \in DOMAIN ms |-> [msg |-> ms[i], origin |-> origin[Len(ms) - i + 1]]]

\* An open call of the original: one that es holds is passed over, another is
\* wanted while the pending results are not all provided for.
ChooseCall(pending, acc, site) ==
    LET id == site.part.id
        same == {c \in acc.supplied : c.part = site.part}
        taken == Cardinality({c \in acc.chosen : c.part.id = id})
    IN  CASE same # {} -> [acc EXCEPT !.supplied = @ \ {CHOOSE c \in same : TRUE}]
          [] same = {} /\ taken < UnansweredResults(pending, id) ->
               [acc EXCEPT !.chosen = @ \cup {site}]
          [] OTHER -> acc

\* The calls to reinstate, chosen newest first.
ChosenCalls(original, es, pending) ==
    LET sites == Sites(original)
        open == PairToolExchanges(original).open
        f[n \in 0 .. Len(sites)] ==
          IF n = 0 THEN [supplied |-> PairToolExchanges(Messages(es)).open, chosen |-> {}]
          ELSE LET site == sites[Len(sites) - n + 1]
               IN  IF site \in open THEN ChooseCall(pending, f[n - 1], site) ELSE f[n - 1]
    IN  f[Len(sites)].chosen

\* They come, those of one message together, after everything else.
ReinstateCallsAnsweredByPending(original, es, pending) ==
    LET chosen == ChosenCalls(original, es, pending)
        Reduced(i) == [msg |-> ReducedTo(original[i], {c.ci : c \in {d \in chosen : d.mi = i}}),
                       origin |-> i]
    IN  es \o Pick([i \in DOMAIN original |-> Reduced(i)], {c.mi : c \in chosen})

\* (mutant) what the input answers is not looked at.
DropOrphanedToolExchanges_HistoryOnly(es, pending) ==
    LET paired == PairedSites(Messages(es))
        Strip(i) ==
            ReducedTo(es[i].msg,
              {j \in DOMAIN es[i].msg.parts :
                 LET p == es[i].msg.parts[j]
                 IN  ~IsToolPart(p) \/ [mi |-> i, ci |-> j, part |-> p] \in paired})
    IN  Pick([i \in DOMAIN es |-> [es[i] EXCEPT !.msg = Strip(i)]],
             {i \in DOMAIN es : Strip(i).parts # <<>>})

\* Calls and results without their other half go, and messages left empty by it.
DropOrphanedToolExchanges(es, pending) ==
    LET paired == PairedSites(Messages(es) \o pending)
        Strip(i) ==
            ReducedTo(es[i].msg,
              {j \in DOMAIN es[i].msg.parts :
                 LET p == es[i].msg.parts[j]
                 IN  ~IsToolPart(p) \/ [mi |-> i, ci |-> j, part |-> p] \in paired})
    IN  Pick([i \in DOMAIN es |-> [es[i] EXCEPT !.msg = Strip(i)]],
             {i \in DOMAIN es : Strip(i).parts # <<>> \/ es[i].msg.parts = <<>>})

ChronologicalPosition(es, index) ==
    LET later == SelectInSeq(es, LAMBDA e : e.origin > index)
    IN  IF later = 0 THEN Len(es) + 1 ELSE later

\* What is left of m without its halves of exchanges and what may not render.
Plain(m) ==
    ReducedTo(m, {j \in DOMAIN m.parts :
                    Renders(m.role, m.parts[j]) /\ ~IsToolPart(m.parts[j])})

\* The latest complete exchange, as the messages that hold only its halves.
LatestCompleteToolExchange(original) ==
    LET sites == Pick(Sites(original),
                      {n \in DOMAIN Sites(original) :
                         original[Sites(original)[n].mi].role # "system"})
        pairs == PairParts([n \in DOMAIN sites |-> sites[n].part]).pairs
        latest == CHOOSE p \in pairs : \A q \in pairs : q.result <= p.result
        call == sites[latest.call]
        result == sites[latest.result]
        Half(mi, J) == [msg |-> ReducedTo(original[mi], J), origin |-> mi]
    IN  CASE pairs = {} -> <<>>
          [] pairs # {} /\ call.mi = result.mi -> <<Half(call.mi, {call.ci, result.ci})>>
          [] pairs # {} /\ call.mi # result.mi ->
               <<Half(call.mi, {call.ci}), Half(result.mi, {result.ci})>>

\* When nothing retained renders: the latest plain message, or else exchange.
EnsureNonSystemMessage(original, es) ==
    LET renders == \E i \in DOMAIN es : MessageRenders(es[i].msg)
        plain == SelectLastInSeq(original,
                   LAMBDA m : m.role \notin {"system", "tool"} /\ Plain(m).parts # <<>>)
        exchange == LatestCompleteToolExchange(original)
        Insert(new) ==
            LET p == ChronologicalPosition(es, new[1].origin)
            IN  SubSeq(es, 1, p - 1) \o new \o SubSeq(es, p, Len(es))
    IN  CASE renders -> es
          [] ~renders /\ plain # 0 ->
               Insert(<<[msg |-> Plain(original[plain]), origin |-> plain]>>)
          [] ~renders /\ plain = 0 /\ exchange # <<>> -> Insert(exchange)
          [] OTHER -> es

\* (mutant) the minimum is ensured before orphans are dropped.
FinalizeCompaction_EnsuresFirst(original, retained, pending) ==
    LET entries == ReinstateCallsAnsweredByPending(
                      original, OriginIndices(retained, original), pending)
        ensured == IF \E i \in DOMAIN pending : MessageRenders(pending[i]) THEN entries
                   ELSE EnsureNonSystemMessage(original, entries)
    IN  Messages(DropOrphanedToolExchanges(ensured, pending))

\* (mutant) what a cut left half of is not dropped.
FinalizeCompaction_KeepsOrphans(original, retained, pending) ==
    LET entries == ReinstateCallsAnsweredByPending(
                      original, OriginIndices(retained, original), pending)
    IN  Messages(IF \E i \in DOMAIN pending : MessageRenders(pending[i]) THEN entries
                 ELSE EnsureNonSystemMessage(original, entries))

FinalizeCompaction(original, retained, pending) ==
    LET entries == OriginIndices(retained, original)
        repaired == DropOrphanedToolExchanges(
                      ReinstateCallsAnsweredByPending(original, entries, pending), pending)
    IN  Messages(IF \E i \in DOMAIN pending : MessageRenders(pending[i]) THEN repaired
                 ELSE EnsureNonSystemMessage(original, repaired))

=============================================================================
