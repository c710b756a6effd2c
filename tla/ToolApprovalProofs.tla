------------------------ MODULE ToolApprovalProofs --------------------------
(***************************************************************************)
(* Proofs about standing approvals and one-at-a-time prompts               *)
(* (ToolApproval): nothing is approved that the caller did not approve,    *)
(* every request and every message is kept in one place however runs fail, *)
(* requests are shown one by one and their answers sent together.          *)
(***************************************************************************)
EXTENDS ToolApproval, SequenceTheorems, FiniteSetTheorems, WellFoundedInduction, TLAPS

-----------------------------------------------------------------------------
(* Sequences.                                                              *)

Distinct(s) == \A m, n \in DOMAIN s : s[m] = s[n] => m = n
Ascending(s) == \A m, n \in DOMAIN s : m < n => s[m] < s[n]

\* A set of numbers that has 0, and with a number the next one, has them all.
LEMMA SetInduction ==
    ASSUME NEW S \in SUBSET Nat, 0 \in S, \A n \in S : n + 1 \in S
    PROVE  S = Nat
<1> DEFINE Less == {ss \in Nat \X Nat : ss[1] < ss[2]}
<1>1. IsWellFoundedOn(Less, Nat)
  BY NatLessThanWellFounded DEF OpToRel
<1>2. ASSUME Nat \ S # {} PROVE FALSE
  <2> DEFINE Rest == Nat \ S
  <2>1. Rest \subseteq Nat /\ Rest # {}
    BY <1>2
  <2>2. PICK x \in Rest : \A y \in Rest : ~ (<<y, x>> \in Less)
    <3> HIDE DEF Less, Rest
    <3> QED BY <1>1, <2>1, WFMin
  <2>3. x \in Nat /\ x # 0 /\ x - 1 \in Nat /\ x = (x - 1) + 1
    OBVIOUS
  <2>4. x - 1 \notin S
    BY <2>3
  <2>5. <<x - 1, x>> \in Less
    BY <2>3
  <2> QED BY <2>2, <2>3, <2>4, <2>5
<1> QED BY <1>2

LEMMA AppendInSeq ==
    ASSUME NEW T, NEW s \in Seq(T), NEW x \in T
    PROVE  InSeq(Append(s, x)) = InSeq(s) \cup {x}
<1>1. /\ Len(s) \in Nat /\ DOMAIN s = 1..Len(s) /\ DOMAIN Append(s, x) = 1..(Len(s) + 1)
      /\ \A k \in 1..Len(s) : Append(s, x)[k] = s[k]
      /\ Append(s, x)[Len(s) + 1] = x
  OBVIOUS
<1>2. 1..(Len(s) + 1) = 1..Len(s) \cup {Len(s) + 1}
  BY <1>1
<1> DEFINE a == Append(s, x)
<1> HIDE DEF a
<1>3. DOMAIN a = DOMAIN s \cup {Len(s) + 1} /\ a[Len(s) + 1] = x /\ \A k \in DOMAIN s : a[k] = s[k]
  BY <1>1, <1>2 DEF a
<1>4. InSeq(a) = InSeq(s) \cup {x}
  BY <1>3 DEF InSeq
<1> QED BY <1>4 DEF a

\* The recursion of Only, up to m.
Filters(seq, S, f, m) ==
    f = [n \in 0..m |->
           IF n = 0 THEN <<>>
           ELSE IF seq[n] \in S THEN Append(f[n - 1], seq[n]) ELSE f[n - 1]]

LEMMA FilterExists ==
    ASSUME NEW seq, NEW S
    PROVE  \A m \in Nat : \E f : Filters(seq, S, f, m)
<1> DEFINE Good == {m \in Nat : \E f : Filters(seq, S, f, m)}
<1>1. 0 \in Good
  <2>1. Filters(seq, S, [n \in 0..0 |-> <<>>], 0)
    BY DEF Filters
  <2> QED BY <2>1
<1>2. ASSUME NEW m \in Good PROVE m + 1 \in Good
  <2>1. PICK f : Filters(seq, S, f, m)
    OBVIOUS
  <2> DEFINE g == [n \in 0..(m + 1) |->
                     IF n # m + 1 THEN f[n]
                     ELSE IF seq[n] \in S THEN Append(f[n - 1], seq[n]) ELSE f[n - 1]]
  <2>2. \A n \in 0..m : g[n] = f[n]
    OBVIOUS
  <2>3. \A n \in 0..m :
          f[n] = IF n = 0 THEN <<>>
                 ELSE IF seq[n] \in S THEN Append(f[n - 1], seq[n]) ELSE f[n - 1]
    BY <2>1 DEF Filters
  <2>4. ASSUME NEW n \in 0..(m + 1)
        PROVE  g[n] = IF n = 0 THEN <<>>
                      ELSE IF seq[n] \in S THEN Append(g[n - 1], seq[n]) ELSE g[n - 1]
    <3>1. CASE n = m + 1
      <4>1. n # 0 /\ n - 1 \in 0..m
        BY <3>1
      <4>2. g[n] = IF seq[n] \in S THEN Append(f[n - 1], seq[n]) ELSE f[n - 1]
        BY <3>1
      <4> HIDE DEF g
      <4> QED BY <4>1, <4>2, <2>2
    <3>2. CASE n # m + 1
      <4>1. n \in 0..m /\ (n # 0 => n - 1 \in 0..m)
        BY <3>2
      <4> HIDE DEF g
      <4> QED BY <4>1, <2>2, <2>3
    <3> QED BY <3>1, <3>2
  <2>5. Filters(seq, S, g, m + 1)
    <3>1. g = [n \in 0..(m + 1) |-> g[n]]
      OBVIOUS
    <3> HIDE DEF g
    <3> QED BY <2>4, <3>1 DEF Filters
  <2> HIDE DEF g
  <2> QED BY <2>5
<1>3. Good = Nat
  <2>1. Good \in SUBSET Nat
    OBVIOUS
  <2> HIDE DEF Good
  <2> QED BY <1>1, <1>2, <2>1, SetInduction
<1> QED BY <1>3

\* What Only keeps: the elements of the set, each as often as it was there.
LEMMA OnlyKeeps ==
    ASSUME NEW T, NEW seq \in Seq(T), NEW S
    PROVE  /\ Only(seq, S) \in Seq(T)
           /\ InSeq(Only(seq, S)) = InSeq(seq) \cap S
           /\ Distinct(seq) => Distinct(Only(seq, S))
<1> DEFINE f == CHOOSE f : Filters(seq, S, f, Len(seq))
           Upto(n) == {seq[k] : k \in 1..n}
           Good == {n \in Nat : n <= Len(seq) =>
                      /\ f[n] \in Seq(T) /\ InSeq(f[n]) = Upto(n) \cap S
                      /\ Distinct(seq) => Distinct(f[n])}
<1>1. Only(seq, S) = f[Len(seq)]
  BY DEF Only, Filters
<1>2. Filters(seq, S, f, Len(seq))
  <2>1. Len(seq) \in Nat
    OBVIOUS
  <2>2. \E g : Filters(seq, S, g, Len(seq))
    BY <2>1, FilterExists
  <2> QED BY <2>2
<1>3. /\ f[0] = <<>>
      /\ \A n \in 1..Len(seq) :
           f[n] = IF seq[n] \in S THEN Append(f[n - 1], seq[n]) ELSE f[n - 1]
  <2> HIDE DEF f
  <2>1. \A n \in 0..Len(seq) :
          f[n] = IF n = 0 THEN <<>>
                 ELSE IF seq[n] \in S THEN Append(f[n - 1], seq[n]) ELSE f[n - 1]
    BY <1>2, Zenon DEF Filters
  <2>2. Len(seq) \in Nat /\ 0 \in 0..Len(seq) /\ \A n \in 1..Len(seq) : n \in 0..Len(seq) /\ n # 0
    OBVIOUS
  <2> QED BY <2>1, <2>2, Zenon
<1> HIDE DEF f
<1>4. 0 \in Good
  <2>1. f[0] \in Seq(T) /\ DOMAIN f[0] = {}
    BY <1>3
  <2>2. InSeq(f[0]) = {} /\ Upto(0) = {}
    BY <2>1 DEF InSeq
  <2>3. Distinct(f[0])
    BY <2>1 DEF Distinct
  <2> HIDE DEF Upto
  <2> QED BY <2>1, <2>2, <2>3
<1>5. ASSUME NEW n \in Good PROVE n + 1 \in Good
  <2> SUFFICES ASSUME n + 1 <= Len(seq)
               PROVE  /\ f[n + 1] \in Seq(T) /\ InSeq(f[n + 1]) = Upto(n + 1) \cap S
                      /\ Distinct(seq) => Distinct(f[n + 1])
    OBVIOUS
  <2> DEFINE x == seq[n + 1]
  <2>1. /\ n \in Nat /\ n <= Len(seq) /\ n + 1 \in 1..Len(seq) /\ x \in T
        /\ f[n] \in Seq(T) /\ InSeq(f[n]) = Upto(n) \cap S
        /\ Distinct(seq) => Distinct(f[n])
        /\ f[n + 1] = IF x \in S THEN Append(f[n], x) ELSE f[n]
    BY <1>3
  <2>2. Upto(n + 1) = Upto(n) \cup {x}
    <3>1. 1..(n + 1) = 1..n \cup {n + 1}
      BY <2>1
    <3> QED BY <3>1
  <2>3. Distinct(seq) => x \notin Upto(n)
    BY <2>1 DEF Distinct
  <2> HIDE DEF x, Upto
  <2>4. CASE x \in S
    <3>1. f[n + 1] = Append(f[n], x) /\ f[n + 1] \in Seq(T)
      BY <2>1, <2>4
    <3>2. InSeq(f[n + 1]) = InSeq(f[n]) \cup {x}
      BY <2>1, <3>1, AppendInSeq
    <3>3. Distinct(seq) => Distinct(f[n + 1])
      <4>1. Distinct(seq) => x \notin InSeq(f[n])
        BY <2>1, <2>3
      <4>2. /\ DOMAIN f[n + 1] = 1..(Len(f[n]) + 1) /\ DOMAIN f[n] = 1..Len(f[n])
            /\ f[n + 1][Len(f[n]) + 1] = x
            /\ \A k \in 1..Len(f[n]) : f[n + 1][k] = f[n][k]
        BY <2>1, <3>1
      <4> QED BY <2>1, <4>1, <4>2 DEF Distinct, InSeq
    <3> QED BY <2>1, <2>2, <2>4, <3>1, <3>2, <3>3
  <2>5. CASE x \notin S
    BY <2>1, <2>2, <2>5
  <2> QED BY <2>4, <2>5
<1>6. Good = Nat
  <2>1. Good \in SUBSET Nat
    OBVIOUS
  <2> HIDE DEF Good
  <2> QED BY <1>4, <1>5, <2>1, SetInduction
<1>7. Len(seq) \in Good /\ Upto(Len(seq)) = InSeq(seq)
  <2>1. Len(seq) \in Nat /\ DOMAIN seq = 1..Len(seq)
    OBVIOUS
  <2>2. Upto(Len(seq)) = InSeq(seq)
    BY <2>1 DEF InSeq
  <2> HIDE DEF Good
  <2> QED BY <1>6, <2>1, <2>2
<1> QED BY <1>1, <1>7

LEMMA HeadAndTail ==
    ASSUME NEW T, NEW s \in Seq(T), s # <<>>
    PROVE  /\ Head(s) \in T /\ Tail(s) \in Seq(T)
           /\ InSeq(s) = InSeq(Tail(s)) \cup {Head(s)}
           /\ Distinct(s) => Distinct(Tail(s)) /\ Head(s) \notin InSeq(Tail(s))
<1> DEFINE h == Head(s)
           t == Tail(s)
<1>1. /\ h \in T /\ t \in Seq(T) /\ Len(t) = Len(s) - 1 /\ Len(s) \in Nat \ {0}
      /\ \A k \in 1..Len(t) : t[k] = s[k + 1]
      /\ h = s[1]
  BY HeadTailProperties, EmptySeq
<1>2. DOMAIN s = 1..Len(s) /\ DOMAIN t = 1..Len(t)
  BY <1>1
<1> HIDE DEF h, t
<1>3. InSeq(s) = InSeq(t) \cup {h}
  <2>1. ASSUME NEW k \in DOMAIN s PROVE s[k] \in InSeq(t) \cup {h}
    <3>1. CASE k = 1
      BY <1>1, <3>1
    <3>2. CASE k # 1
      <4>1. k - 1 \in DOMAIN t /\ t[k - 1] = s[k]
        BY <1>1, <1>2, <2>1, <3>2
      <4> QED BY <4>1 DEF InSeq
    <3> QED BY <3>1, <3>2
  <2>2. ASSUME NEW k \in DOMAIN t PROVE t[k] \in InSeq(s)
    <3>1. k + 1 \in DOMAIN s /\ t[k] = s[k + 1]
      BY <1>1, <1>2
    <3> QED BY <3>1 DEF InSeq
  <2>3. 1 \in DOMAIN s /\ h \in InSeq(s)
    BY <1>1, <1>2 DEF InSeq
  <2> QED BY <2>1, <2>2, <2>3 DEF InSeq
<1>4. ASSUME Distinct(s) PROVE Distinct(t) /\ h \notin InSeq(t)
  <2>1. ASSUME NEW k \in DOMAIN t, NEW l \in DOMAIN t, t[k] = t[l] PROVE k = l
    <3>1. k + 1 \in DOMAIN s /\ t[k] = s[k + 1] /\ l + 1 \in DOMAIN s /\ t[l] = s[l + 1]
      BY <1>1, <1>2
    <3>2. k + 1 = l + 1
      BY <1>4, <2>1, <3>1 DEF Distinct
    <3> QED BY <1>2, <3>2
  <2>2. ASSUME NEW k \in DOMAIN t, t[k] = h PROVE FALSE
    <3>1. k + 1 \in DOMAIN s /\ t[k] = s[k + 1] /\ 1 \in DOMAIN s
      BY <1>1, <1>2
    <3>2. k + 1 = 1
      BY <1>1, <1>4, <2>2, <3>1 DEF Distinct
    <3> QED BY <1>2, <3>2
  <2> QED BY <2>1, <2>2 DEF Distinct, InSeq
<1> QED BY <1>1, <1>3, <1>4 DEF h, t

LEMMA AppendDistinct ==
    ASSUME NEW T, NEW s \in Seq(T), NEW x \in T, Distinct(s), x \notin InSeq(s)
    PROVE  Distinct(Append(s, x))
<1> DEFINE a == Append(s, x)
<1>1. /\ DOMAIN s = 1..Len(s) /\ Len(s) \in Nat /\ DOMAIN a = 1..(Len(s) + 1)
      /\ a[Len(s) + 1] = x /\ \A k \in 1..Len(s) : a[k] = s[k]
  OBVIOUS
<1> HIDE DEF a
<1>2. Distinct(a)
  BY <1>1 DEF Distinct, InSeq
<1> QED BY <1>2 DEF a

LEMMA EmptyInSeq ==
    /\ InSeq(<<>>) = {} /\ Distinct(<<>>)
    /\ \A T : \A s \in Seq(T) : s = <<>> <=> InSeq(s) = {}
<1>1. InSeq(<<>>) = {} /\ Distinct(<<>>)
  BY DEF InSeq, Distinct
<1>2. ASSUME NEW T, NEW s \in Seq(T), InSeq(s) = {} PROVE s = <<>>
  <2>1. ASSUME s # <<>> PROVE FALSE
    <3>1. 1 \in DOMAIN s
      BY <2>1, EmptySeq
    <3> QED BY <3>1, <1>2 DEF InSeq
  <2> QED BY <2>1
<1> QED BY <1>1, <1>2

-----------------------------------------------------------------------------
(* Answers, and the state they are collected in.                           *)

OneEach(answers) == \A a, b \in answers : a.id = b.id => a = b

IdSeqs == Seq(Ids)
TextSeqs == Seq(1..MaxTexts)
CallSeqs == Seq(Calls)
Replyings == UNION {[D -> Replies] : D \in SUBSET Ids}

LEMMA StateIs ==
    State = [rules : SUBSET Calls, queued : IdSeqs, collected : SUBSET Answer,
             held : TextSeqs, standing : [Ids -> Scopes]]
BY DEF State, IdSeqs, TextSeqs

LEMMA IdsOfUnion ==
    ASSUME NEW A, NEW B
    PROVE  IdsIn(A \cup B) = IdsIn(A) \cup IdsIn(B)
BY DEF IdsIn

LEMMA ReplyingIs ==
    ASSUME NEW reply \in Replyings
    PROVE  DOMAIN reply \subseteq Ids /\ \A i \in DOMAIN reply : reply[i] \in Replies
BY DEF Replyings

LEMMA CoveredIsCalls ==
    ASSUME NEW scope, NEW c \in Calls
    PROVE  Covered(scope, c) \subseteq Calls
<1>1. CASE scope = "tool"
  BY <1>1 DEF Covered
<1>2. CASE scope = "call"
  BY <1>2 DEF Covered
<1>3. CASE scope # "tool" /\ scope # "call"
  BY <1>3 DEF Covered
<1> QED BY <1>1, <1>2, <1>3

\* The answers that a run brings.
Brought(reply) == {[id |-> i, approved |-> reply[i] # "reject"] : i \in DOMAIN reply}
Ruled(standing, reply) ==
    UNION {Covered(standing[i], call[i]) : i \in {j \in DOMAIN reply : reply[j] = "approve"}}

LEMMA BroughtIs ==
    ASSUME NEW reply \in Replyings
    PROVE  /\ Brought(reply) \subseteq Answer /\ IdsIn(Brought(reply)) = DOMAIN reply
           /\ OneEach(Brought(reply))
           /\ \A a \in Brought(reply) : a.approved = (reply[a.id] # "reject")
<1>1. \A i \in DOMAIN reply : [id |-> i, approved |-> reply[i] # "reject"] \in Answer
  BY ReplyingIs DEF Answer
<1>2. Brought(reply) \subseteq Answer
  BY <1>1 DEF Brought
<1>3. \A a \in Brought(reply) : a.id \in DOMAIN reply /\ a.approved = (reply[a.id] # "reject")
  BY DEF Brought
<1>4. OneEach(Brought(reply))
  BY DEF Brought, OneEach
<1>5. ASSUME NEW i \in DOMAIN reply PROVE \E a \in Brought(reply) : a.id = i
  <2>1. [id |-> i, approved |-> reply[i] # "reject"] \in Brought(reply)
    BY DEF Brought
  <2> QED BY <2>1
<1>6. IdsIn(Brought(reply)) = DOMAIN reply
  BY <1>3, <1>5 DEF IdsIn
<1> QED BY <1>2, <1>3, <1>4, <1>6

LEMMA PreparedFields ==
    ASSUME NEW s \in State, NEW reply \in Replyings, call \in CallSeqs,
           DOMAIN reply \subseteq Minted
    PROVE  LET p == Prepared(s, reply)
           IN  /\ p \in State
               /\ p.rules = s.rules \cup Ruled(s.standing, reply)
               /\ p.queued = s.queued /\ p.held = s.held
               /\ p.collected = {a \in s.collected : a.id \notin DOMAIN reply} \cup Brought(reply)
               /\ p.standing = [i \in Ids |-> IF i \in DOMAIN reply THEN "none" ELSE s.standing[i]]
<1> DEFINE rules == s.rules \cup Ruled(s.standing, reply)
           collected == {a \in s.collected : a.id \notin DOMAIN reply} \cup Brought(reply)
           standing == [i \in Ids |-> IF i \in DOMAIN reply THEN "none" ELSE s.standing[i]]
<1>0. s \in [rules : SUBSET Calls, queued : IdSeqs, collected : SUBSET Answer,
             held : TextSeqs, standing : [Ids -> Scopes]]
  BY StateIs
<1>1. Ruled(s.standing, reply) \subseteq Calls
  <2>1. \A i \in DOMAIN reply : call[i] \in Calls
    BY DEF CallSeqs, Minted
  <2> QED BY <2>1, CoveredIsCalls DEF Ruled
<1>2. collected \subseteq Answer
  BY <1>0, BroughtIs
<1>3. standing \in [Ids -> Scopes]
  BY <1>0 DEF Scopes
<1>4. Prepared(s, reply) = [s EXCEPT !.rules = rules, !.standing = standing, !.collected = collected]
  BY DEF Prepared, Ruled, Brought
<1> HIDE DEF rules, collected, standing
<1>5. Prepared(s, reply) = [rules |-> rules, queued |-> s.queued, collected |-> collected,
                            held |-> s.held, standing |-> standing]
  BY <1>0, <1>4
<1>6. rules \subseteq Calls
  BY <1>0, <1>1 DEF rules
<1>7. Prepared(s, reply) \in State
  BY <1>0, <1>2, <1>3, <1>5, <1>6, StateIs
<1> QED BY <1>5, <1>7 DEF rules, collected, standing

\* What a rule covers of a batch, and what it leaves open.
Standing(s, ids) == {i \in InSeq(ids) : IsAutoApproved(s, i)}

LEMMA OpenAndCovers ==
    ASSUME NEW s, NEW ids \in IdSeqs
    PROVE  /\ Open(s, ids) \in IdSeqs
           /\ InSeq(Open(s, ids)) = InSeq(ids) \ Standing(s, ids)
           /\ Distinct(ids) => Distinct(Open(s, ids))
           /\ Covers(s, ids) \subseteq Answer /\ IdsIn(Covers(s, ids)) = Standing(s, ids)
           /\ OneEach(Covers(s, ids))
           /\ \A a \in Covers(s, ids) : a.approved = TRUE /\ IsAutoApproved(s, a.id)
<1>1. /\ Open(s, ids) \in IdSeqs
      /\ Distinct(ids) => Distinct(Open(s, ids))
      /\ InSeq(Open(s, ids)) = InSeq(ids) \cap {i \in InSeq(ids) : ~ IsAutoApproved(s, i)}
  BY OnlyKeeps DEF Open, IdSeqs
<1>2. InSeq(Open(s, ids)) = InSeq(ids) \ Standing(s, ids)
  BY <1>1 DEF Standing
<1>3. Covers(s, ids) = {[id |-> i, approved |-> TRUE] : i \in Standing(s, ids)}
  BY DEF Covers, Answers, Standing
<1>4. Standing(s, ids) \subseteq Ids
  BY DEF Standing, InSeq, IdSeqs
<1>5. \A i \in Standing(s, ids) : [id |-> i, approved |-> TRUE] \in Answer
  BY <1>4 DEF Answer
<1>6. \A a \in Covers(s, ids) : a.approved = TRUE /\ a.id \in Standing(s, ids)
  BY <1>3
<1>7. OneEach(Covers(s, ids))
  <2>1. \A a \in Covers(s, ids) : a = [id |-> a.id, approved |-> TRUE]
    BY <1>3
  <2> QED BY <2>1 DEF OneEach
<1>8. ASSUME NEW i \in Standing(s, ids) PROVE \E a \in Covers(s, ids) : a.id = i
  <2>1. [id |-> i, approved |-> TRUE] \in Covers(s, ids)
    BY <1>3
  <2> QED BY <2>1
<1>9. IdsIn(Covers(s, ids)) = Standing(s, ids)
  BY <1>6, <1>8 DEF IdsIn
<1>10. Covers(s, ids) \subseteq Answer
  BY <1>3, <1>5
<1>11. \A a \in Covers(s, ids) : a.approved = TRUE /\ IsAutoApproved(s, a.id)
  BY <1>6 DEF Standing
<1> QED BY <1>1, <1>2, <1>7, <1>9, <1>10, <1>11

LEMMA DrainedFields ==
    ASSUME NEW s \in State
    PROVE  LET d == Drained(s)
           IN  /\ d \in State
               /\ d.rules = s.rules /\ d.held = s.held /\ d.standing = s.standing
               /\ d.queued = Open(s, s.queued)
               /\ d.collected = s.collected \cup Covers(s, s.queued)
<1> DEFINE queued == Open(s, s.queued)
           collected == s.collected \cup Covers(s, s.queued)
<1>0. s \in [rules : SUBSET Calls, queued : IdSeqs, collected : SUBSET Answer,
             held : TextSeqs, standing : [Ids -> Scopes]]
  BY StateIs
<1>1. queued \in IdSeqs /\ collected \subseteq Answer
  BY <1>0, OpenAndCovers
<1>2. Drained(s) = [s EXCEPT !.queued = queued, !.collected = collected]
  BY DEF Drained
<1> HIDE DEF queued, collected
<1>3. Drained(s) = [rules |-> s.rules, queued |-> queued, collected |-> collected,
                    held |-> s.held, standing |-> s.standing]
  BY <1>0, <1>2
<1>4. Drained(s) \in State
  BY <1>0, <1>1, <1>3, StateIs
<1> QED BY <1>3, <1>4 DEF queued, collected

LEMMA EmptiedFields ==
    ASSUME NEW s \in State
    PROVE  LET e == Emptied(s)
           IN  /\ e \in State
               /\ e.rules = s.rules /\ e.standing = s.standing /\ e.queued = s.queued
               /\ e.collected = {} /\ e.held = <<>>
<1>0. s \in [rules : SUBSET Calls, queued : IdSeqs, collected : SUBSET Answer,
             held : TextSeqs, standing : [Ids -> Scopes]]
  BY StateIs
<1>1. <<>> \in TextSeqs
  BY DEF TextSeqs
<1> DEFINE none == <<>>
<1>2. Emptied(s) = [s EXCEPT !.collected = {}, !.held = none]
  BY DEF Emptied
<1>3. none \in TextSeqs /\ none = <<>>
  BY <1>1
<1> HIDE DEF none
<1>4. Emptied(s) = [rules |-> s.rules, queued |-> s.queued, collected |-> {},
                    held |-> none, standing |-> s.standing]
  BY <1>0, <1>2
<1>5. Emptied(s) \in State
  BY <1>0, <1>3, <1>4, StateIs
<1> QED BY <1>3, <1>4, <1>5

\* The batch is decided with an empty queue: what is left of it is queued, but for what is
\* shown, and what a rule covers is collected.
LEMMA DecidedFields ==
    ASSUME NEW s \in State, NEW ids \in IdSeqs, NEW preserve \in BOOLEAN,
           s.queued = <<>>, s.collected = {}, Distinct(ids)
    PROVE  LET d == Decided(s, ids, preserve)
               kept == Kept(s, ids, preserve)
           IN  /\ d \in State
               /\ d.rules = s.rules /\ d.held = s.held /\ d.standing = s.standing
               /\ d.collected = Covers(s, ids)
               /\ Distinct(d.queued)
               /\ kept \cup InSeq(d.queued) = InSeq(ids) \ Standing(s, ids)
               /\ kept \cap InSeq(d.queued) = {}
               /\ Open(s, ids) = <<>> => kept = {} /\ d.queued = <<>>
               /\ preserve \/ \A i, j \in kept : i = j
<1> DEFINE open == Open(s, ids)
           queued == IF preserve \/ open = <<>> THEN <<>> ELSE Tail(open)
<1>0. s \in [rules : SUBSET Calls, queued : IdSeqs, collected : SUBSET Answer,
             held : TextSeqs, standing : [Ids -> Scopes]]
  BY StateIs
<1>1. /\ open \in IdSeqs /\ Distinct(open) /\ InSeq(open) = InSeq(ids) \ Standing(s, ids)
      /\ Covers(s, ids) \subseteq Answer
  BY OpenAndCovers
<1>2. open # <<>> => /\ Tail(open) \in IdSeqs /\ Distinct(Tail(open))
                     /\ InSeq(open) = InSeq(Tail(open)) \cup {Head(open)}
                     /\ Head(open) \notin InSeq(Tail(open))
                     /\ <<>> \o Tail(open) = Tail(open)
  <2> HIDE DEF open
  <2> QED BY <1>1, HeadAndTail, ConcatEmptySeq DEF IdSeqs
<1>3. queued \in IdSeqs /\ Distinct(queued)
  <2>1. <<>> \in IdSeqs
    BY DEF IdSeqs
  <2> HIDE DEF open
  <2> QED BY <1>2, <2>1, EmptyInSeq
<1>4. Decided(s, ids, preserve) = [s EXCEPT !.collected = @ \cup Covers(s, ids),
                  !.queued = IF preserve \/ open = <<>> THEN @ ELSE @ \o Tail(open)]
  BY DEF Decided
<1>5. Kept(s, ids, preserve) = IF preserve \/ open = <<>> THEN InSeq(open) ELSE {Head(open)}
  BY DEF Kept
<1>6. open = <<>> => InSeq(open) = {}
  BY EmptyInSeq
<1> HIDE DEF open
<1>7. Decided(s, ids, preserve) = [rules |-> s.rules, queued |-> queued,
                    collected |-> Covers(s, ids), held |-> s.held, standing |-> s.standing]
  BY <1>0, <1>2, <1>4
<1>8. Decided(s, ids, preserve) \in State
  <2> HIDE DEF queued
  <2> QED BY <1>0, <1>1, <1>3, <1>7, StateIs
<1>9. /\ Kept(s, ids, preserve) \cup InSeq(queued) = InSeq(open)
      /\ Kept(s, ids, preserve) \cap InSeq(queued) = {}
      /\ open = <<>> => Kept(s, ids, preserve) = {} /\ queued = <<>>
      /\ preserve \/ \A i, j \in Kept(s, ids, preserve) : i = j
  BY <1>2, <1>5, <1>6, EmptyInSeq
<1> HIDE DEF queued
<1>10. /\ Decided(s, ids, preserve).rules = s.rules /\ Decided(s, ids, preserve).queued = queued
       /\ Decided(s, ids, preserve).collected = Covers(s, ids)
       /\ Decided(s, ids, preserve).held = s.held
       /\ Decided(s, ids, preserve).standing = s.standing
  BY <1>7
<1> QED BY <1>1, <1>3, <1>8, <1>9, <1>10 DEF open
-----------------------------------------------------------------------------
(* The invariant.                                                          *)

Runs == [at : {"idle", "prepared", "inner"}, reply : Replyings, text : TextSeqs,
         pass : 0..MaxReruns, batch : IdSeqs,
         sent : [answers : SUBSET Answer, texts : TextSeqs]]

CallOK == call \in CallSeqs /\ Len(call) \in 0..MaxRequests
StateOK == stored \in State /\ local \in State
RunOK == run \in Runs
CallerOK ==
    /\ asked \subseteq Minted /\ retry \subseteq Minted /\ texts \in 0..MaxTexts
    /\ failures \in 0..MaxFailures
HistoryOK ==
    /\ turn \in [Ids -> Minted \cup {0}]
    /\ said \in [Ids -> Replies \cup {"none"}] /\ choices \in [Ids -> Scopes]
    /\ granted \subseteq Calls /\ delivered \subseteq Answer
    /\ lost \subseteq Minted /\ whole \subseteq Minted /\ skipped \in BOOLEAN
Typed == CallOK /\ StateOK /\ RunOK /\ CallerOK /\ HistoryOK

Reply == DOMAIN run.reply
Queue == InSeq(stored.queued)
Batch == InSeq(run.batch)
Collected == IdsIn(stored.collected)
Delivered == IdsIn(delivered)
Done == Collected \cup Delivered

\* How the copy of the run that is going on follows from the state in the session.
PhaseInv ==
    /\ run.at = "idle" => run = NoRun /\ local = NoState
    /\ run.at = "prepared" =>
          /\ local.queued = stored.queued /\ local.held = stored.held
          /\ local.collected = {a \in stored.collected : a.id \notin Reply} \cup Brought(run.reply)
          /\ run.batch = <<>> /\ run.sent = Nothing /\ run.pass = 0
    /\ run.at = "inner" =>
          /\ stored.queued = <<>> /\ local.queued = <<>>
          /\ local.collected = {} /\ local.held = <<>>
          /\ run.sent.answers = stored.collected

\* A request is in one place, and a completed turn's requests are somewhere.
PlacesInv ==
    /\ Distinct(stored.queued) /\ OneEach(stored.collected)
    /\ asked \cap (Queue \cup lost \cup Done) = {}
    /\ Queue \cap (lost \cup Done) = {} /\ lost \cap Done = {}
    /\ Completed \subseteq asked \cup Queue \cup lost \cup Done
    /\ Queue \cup Done \subseteq Minted

\* Answers are to requests the caller has, or that are answered; what is queued or to
\* come has no answer.
ReplyInv ==
    /\ retry \subseteq Done
    /\ run.at = "prepared" => Reply \subseteq asked \cup Done
    /\ run.at = "inner" => Reply \subseteq Done
    /\ \A i \in Queue : said[i] = "none"
    /\ \A i \in Ids \ Minted : turn[i] = 0 /\ said[i] = "none"

\* The requests of the turn that is going on are nowhere yet, but with the caller if
\* they are streamed as they come.
BatchInv ==
    /\ Distinct(run.batch) /\ Batch \subseteq Minted
    /\ \A i \in Batch :
         /\ turn[i] = 0 /\ said[i] = "none" /\ i \notin Queue \cup lost \cup Done
         /\ i \in asked => Streaming /\ Capped /\ i \in whole
    /\ run.at = "inner" /\ Streaming /\ Capped => Batch \subseteq asked

Base == Typed /\ PhaseInv /\ PlacesInv /\ ReplyInv /\ BatchInv

-----------------------------------------------------------------------------
(* What the invariant says at the points where the state is saved.         *)

LEMMA MintedIsIds ==
    ASSUME CallOK
    PROVE  Minted \subseteq Ids /\ Len(call) \in Nat /\ 0 \notin Minted
BY ConfigAssumption DEF CallOK, Minted, Ids

LEMMA RunFields ==
    ASSUME RunOK
    PROVE  /\ run.at \in {"idle", "prepared", "inner"} /\ run.reply \in Replyings
           /\ run.text \in TextSeqs /\ run.pass \in 0..MaxReruns /\ run.batch \in IdSeqs
           /\ run.sent.answers \subseteq Answer /\ run.sent.texts \in TextSeqs
BY DEF RunOK, Runs

LEMMA StateFields ==
    ASSUME NEW s \in State
    PROVE  /\ s.rules \subseteq Calls /\ s.queued \in IdSeqs /\ s.collected \subseteq Answer
           /\ s.held \in TextSeqs /\ s.standing \in [Ids -> Scopes]
BY StateIs

LEMMA IdsInIds ==
    ASSUME NEW A \in SUBSET Answer
    PROVE  IdsIn(A) \subseteq Ids
BY DEF IdsIn, Answer

LEMMA InSeqInIds ==
    ASSUME NEW s \in IdSeqs
    PROVE  InSeq(s) \subseteq Ids
BY DEF InSeq, IdSeqs

LEMMA NothingIs ==
    /\ NoRun \in Runs /\ NoRun.at = "idle" /\ NoRun.batch = <<>> /\ NoRun.sent = Nothing
    /\ DOMAIN NoRun.reply = {} /\ NoRun.pass = 0
    /\ NoState \in State /\ Nothing.answers = {} /\ Nothing.texts = <<>>
    /\ NoState.queued = <<>> /\ NoState.collected = {} /\ NoState.held = <<>>
    /\ NoState.rules = {}
<1>1. <<>> \in IdSeqs /\ <<>> \in TextSeqs /\ <<>> \in Replyings
  <2>1. <<>> \in [{} -> Replies]
    OBVIOUS
  <2>2. {} \in SUBSET Ids
    OBVIOUS
  <2> QED BY <2>1, <2>2 DEF IdSeqs, TextSeqs, Replyings
<1>2. 0 \in 0..MaxReruns /\ [i \in Ids |-> "none"] \in [Ids -> Scopes]
  BY ConfigAssumption DEF Scopes
<1> DEFINE none == <<>>
<1>3. DOMAIN none = {}
  OBVIOUS
<1>4. none \in IdSeqs /\ none \in TextSeqs /\ none \in Replyings /\ none = <<>>
  BY <1>1
<1>5. NoRun = [at |-> "idle", reply |-> none, text |-> none, pass |-> 0, batch |-> none,
               sent |-> Nothing]
  BY DEF NoRun
<1>6. Nothing = [answers |-> {}, texts |-> none]
  BY DEF Nothing
<1>7. NoState = [rules |-> {}, queued |-> none, collected |-> {}, held |-> none,
                 standing |-> [i \in Ids |-> "none"]]
  BY DEF NoState
<1> HIDE DEF none
<1>8. NoState \in State
  BY <1>2, <1>4, <1>7, StateIs
<1>9. Nothing \in [answers : SUBSET Answer, texts : TextSeqs]
  BY <1>4, <1>6
<1>10. NoRun \in Runs
  BY <1>2, <1>4, <1>5, <1>9 DEF Runs
<1> QED BY <1>3, <1>4, <1>5, <1>6, <1>7, <1>8, <1>10

\* What is saved of a run that begins, once its queue is drained.
LEMMA DrainedFacts ==
    ASSUME Base, run.at = "prepared"
    PROVE  LET s == Drained(local)
               auto == Standing(local, stored.queued)
           IN  /\ s \in State /\ s.rules = local.rules /\ s.standing = local.standing
               /\ s.held = stored.held /\ Distinct(s.queued)
               /\ auto \subseteq Queue /\ InSeq(s.queued) = Queue \ auto
               /\ IdsIn(s.collected) = Collected \cup Reply \cup auto
               /\ OneEach(s.collected)
               /\ \A a \in s.collected :
                     \/ a \in stored.collected /\ a.id \notin Reply
                     \/ a.id \in Reply /\ a.approved = (run.reply[a.id] # "reject")
                     \/ a.id \in auto /\ a.approved = TRUE /\ IsAutoApproved(local, a.id)
<1> DEFINE s == Drained(local)
           auto == Standing(local, stored.queued)
           old == {a \in stored.collected : a.id \notin Reply}
           new == Brought(run.reply)
           cov == Covers(local, stored.queued)
<1>1. /\ local \in State /\ stored \in State /\ run.reply \in Replyings
      /\ stored.queued \in IdSeqs
  BY RunFields, StateFields DEF Base, Typed, StateOK
<1>2. /\ local.queued = stored.queued /\ local.held = stored.held
      /\ local.collected = old \cup new
  BY DEF Base, PhaseInv
<1>3. /\ s \in State /\ s.rules = local.rules /\ s.standing = local.standing
      /\ s.held = stored.held
      /\ s.queued = Open(local, stored.queued) /\ s.collected = old \cup new \cup cov
  BY <1>1, <1>2, DrainedFields
<1>4. /\ InSeq(s.queued) = Queue \ auto /\ Distinct(s.queued)
      /\ IdsIn(cov) = auto /\ OneEach(cov)
      /\ \A a \in cov : a.approved = TRUE /\ IsAutoApproved(local, a.id)
  <2>1. Distinct(stored.queued)
    BY DEF Base, PlacesInv
  <2> HIDE DEF s, auto, cov
  <2>2. /\ InSeq(Open(local, stored.queued)) = InSeq(stored.queued) \ auto
        /\ Distinct(Open(local, stored.queued)) /\ IdsIn(cov) = auto /\ OneEach(cov)
        /\ \A a \in cov : a.approved = TRUE /\ IsAutoApproved(local, a.id)
    BY <1>1, <2>1, OpenAndCovers DEF auto, cov
  <2> QED BY <1>3, <2>2 DEF Queue
<1>5. /\ IdsIn(new) = Reply /\ OneEach(new)
      /\ \A a \in new : a.approved = (run.reply[a.id] # "reject")
  BY <1>1, BroughtIs DEF Reply
<1>6. auto \subseteq Queue
  BY DEF Standing, Queue
<1>7. Reply \cap auto = {} /\ Collected \cap auto = {}
  BY <1>6 DEF Base, PlacesInv, ReplyInv, Done
<1>8. IdsIn(old) = Collected \ Reply /\ OneEach(old)
  BY DEF IdsIn, Collected, OneEach, Base, PlacesInv
<1>9. IdsIn(s.collected) = Collected \cup Reply \cup auto
  <2> HIDE DEF s, auto, old, new, cov
  <2>1. IdsIn(old \cup new \cup cov) = IdsIn(old \cup new) \cup IdsIn(cov)
    BY IdsOfUnion
  <2>2. IdsIn(old \cup new) = IdsIn(old) \cup IdsIn(new)
    BY IdsOfUnion
  <2> QED BY <1>3, <1>4, <1>5, <1>8, <2>1, <2>2
<1>10. /\ \A a \in old : a.id \in Collected \ Reply
       /\ \A a \in new : a.id \in Reply
       /\ \A a \in cov : a.id \in auto
  <2> HIDE DEF s, auto, old, new, cov
  <2> QED BY <1>4, <1>5, <1>8 DEF IdsIn
<1>11. OneEach(s.collected)
  <2> HIDE DEF s, auto, old, new, cov
  <2> QED BY <1>3, <1>4, <1>5, <1>7, <1>8, <1>10 DEF OneEach
<1>12. \A a \in s.collected :
          \/ a \in stored.collected /\ a.id \notin Reply
          \/ a.id \in Reply /\ a.approved = (run.reply[a.id] # "reject")
          \/ a.id \in auto /\ a.approved = TRUE /\ IsAutoApproved(local, a.id)
  <2>1. old \subseteq stored.collected
    OBVIOUS
  <2> HIDE DEF s, auto, old, new, cov
  <2> QED BY <2>1, <1>3, <1>4, <1>5, <1>10
<1> QED BY <1>3, <1>4, <1>6, <1>9, <1>11, <1>12

-----------------------------------------------------------------------------
(* Every step keeps it.                                                    *)

LEMMA InitBase == Init => Base
<1> SUFFICES ASSUME Init PROVE Base
  OBVIOUS
<1>1. call = <<>> /\ Len(call) = 0 /\ Minted = {} /\ call \in CallSeqs
  BY DEF Init, Minted, CallSeqs
<1>2. /\ stored = NoState /\ local = NoState /\ run = NoRun
      /\ asked = {} /\ retry = {} /\ texts = 0 /\ failures = 0 /\ delivered = {}
      /\ turn = [i \in Ids |-> 0] /\ said = [i \in Ids |-> "none"]
      /\ choices = [i \in Ids |-> "none"] /\ granted = {}
      /\ lost = {} /\ whole = {} /\ skipped = FALSE
  BY DEF Init
<1>3. Typed
  <2>1. CallOK
    BY <1>1, ConfigAssumption DEF CallOK
  <2>2. StateOK /\ RunOK
    BY <1>2, NothingIs DEF StateOK, RunOK
  <2>3. CallerOK
    BY <1>2, ConfigAssumption DEF CallerOK
  <2>4. HistoryOK
    BY <1>2 DEF HistoryOK, Replies, Scopes
  <2> QED BY <2>1, <2>2, <2>3, <2>4 DEF Typed
<1>4. Queue = {} /\ Batch = {} /\ Done = {} /\ Completed = {}
  BY <1>1, <1>2, NothingIs, EmptyInSeq DEF Queue, Batch, Done, Collected, Delivered, IdsIn, Completed
<1>5. PhaseInv
  BY <1>2, NothingIs DEF PhaseInv
<1>6. PlacesInv
  BY <1>2, <1>4, NothingIs, EmptyInSeq DEF PlacesInv, OneEach
<1>7. ReplyInv
  BY <1>2, <1>4, NothingIs DEF ReplyInv
<1>8. BatchInv
  BY <1>2, <1>4, NothingIs, EmptyInSeq DEF BatchInv
<1> QED BY <1>3, <1>5, <1>6, <1>7, <1>8 DEF Base

LEMMA StutterBase == Base /\ UNCHANGED vars => Base'
<1> SUFFICES ASSUME Base, UNCHANGED vars PROVE Base'
  OBVIOUS
<1>1. /\ call' = call /\ turn' = turn /\ stored' = stored /\ local' = local /\ run' = run
      /\ asked' = asked /\ retry' = retry /\ texts' = texts /\ failures' = failures
      /\ said' = said /\ choices' = choices /\ granted' = granted /\ delivered' = delivered
      /\ heard' = heard /\ lost' = lost /\ whole' = whole /\ skipped' = skipped
  BY DEF vars, agent, caller, history
<1>2. Typed'
  BY <1>1 DEF Base, Typed, CallOK, StateOK, RunOK, CallerOK, HistoryOK, Minted
<1>3. (PhaseInv /\ PlacesInv /\ ReplyInv /\ BatchInv)'
  BY <1>1 DEF Base, PhaseInv, PlacesInv, ReplyInv, BatchInv, Minted, Reply, Queue, Batch,
     Done, Collected, Delivered, Completed, Capped
<1> QED BY <1>2, <1>3 DEF Base

LEMMA AlwaysApproveBase ==
    ASSUME Base, NEW i \in asked, NEW scope \in Scopes, AlwaysApprove(i, scope)
    PROVE  Base'
<1>1. /\ stored' = [stored EXCEPT !.standing[i] = scope]
      /\ choices' = [choices EXCEPT ![i] = scope]
      /\ call' = call /\ turn' = turn /\ local' = local /\ run' = run
      /\ asked' = asked /\ retry' = retry /\ texts' = texts /\ failures' = failures
      /\ said' = said /\ granted' = granted /\ delivered' = delivered
      /\ heard' = heard /\ lost' = lost /\ whole' = whole /\ skipped' = skipped
  BY DEF AlwaysApprove, caller
<1>2. i \in Ids
  BY MintedIsIds DEF Base, Typed, CallerOK
<1> DEFINE standing == [stored.standing EXCEPT ![i] = scope]
<1>3. standing \in [Ids -> Scopes] /\ stored \in State
  BY <1>2, StateFields DEF Base, Typed, StateOK
<1>4. stored' = [stored EXCEPT !.standing = standing]
  BY <1>1, <1>3, StateIs
<1> HIDE DEF standing
<1>5. /\ stored'.queued = stored.queued /\ stored'.collected = stored.collected
      /\ stored'.held = stored.held /\ stored' \in State
  BY <1>3, <1>4, StateIs
<1>6. Typed'
  <2>1. StateOK'
    BY <1>1, <1>5 DEF Base, Typed, StateOK
  <2>2. HistoryOK'
    BY <1>1 DEF Base, Typed, HistoryOK, Minted
  <2> QED BY <1>1, <2>1, <2>2 DEF Base, Typed, CallOK, RunOK, CallerOK, Minted
<1>7. (PhaseInv /\ PlacesInv /\ ReplyInv /\ BatchInv)'
  BY <1>1, <1>5 DEF Base, PhaseInv, PlacesInv, ReplyInv, BatchInv, Minted, Reply, Queue, Batch,
     Done, Collected, Delivered, Completed, Capped
<1> QED BY <1>6, <1>7 DEF Base

\* A run that begins.
LEMMA BeginFacts ==
    ASSUME Base, NEW reply \in Inputs, NEW text \in Messages, Begin(reply, text)
    PROVE  /\ run.at = "idle" /\ reply \in Replyings /\ DOMAIN reply \subseteq asked \cup retry
           /\ text \in TextSeqs /\ texts' \in 0..MaxTexts
           /\ \/ text = <<>> /\ texts' = texts
              \/ text = <<texts + 1>> /\ texts' = texts + 1
           /\ local' = Prepared(stored, reply) /\ local' \in State /\ stored' = stored
           /\ run' \in Runs /\ run'.at = "prepared" /\ run'.reply = reply /\ run'.text = text
           /\ run'.pass = 0 /\ run'.batch = <<>> /\ run'.sent = Nothing
           /\ call' = call /\ turn' = turn /\ asked' = asked /\ retry' = retry
           /\ failures' = failures /\ skipped' = (skipped \/ ~ asked \subseteq DOMAIN reply)
           /\ said' = said /\ choices' = choices /\ granted' = granted
           /\ delivered' = delivered /\ heard' = heard /\ lost' = lost /\ whole' = whole
<1>1. /\ run.at = "idle" /\ DOMAIN reply \subseteq asked \cup retry
      /\ local' = Prepared(stored, reply) /\ stored' = stored
      /\ run' = [NoRun EXCEPT !.at = "prepared", !.reply = reply, !.text = text]
      /\ texts + Len(text) <= MaxTexts /\ texts' = texts + Len(text)
      /\ call' = call /\ turn' = turn /\ asked' = asked /\ retry' = retry
      /\ failures' = failures /\ skipped' = (skipped \/ ~ asked \subseteq DOMAIN reply)
      /\ said' = said /\ choices' = choices /\ granted' = granted
      /\ delivered' = delivered /\ heard' = heard /\ lost' = lost /\ whole' = whole
  BY DEF Begin
<1>2. asked \cup retry \subseteq Minted /\ Minted \subseteq Ids /\ texts \in 0..MaxTexts
  BY MintedIsIds DEF Base, Typed, CallerOK
<1>3. reply \in Replyings
  BY <1>2 DEF Inputs, Replyings
<1>4. /\ \/ text = <<>> /\ texts' = texts
         \/ text = <<texts + 1>> /\ texts' = texts + 1
      /\ texts' \in 0..MaxTexts /\ text \in TextSeqs
  <2>1. CASE text = <<>>
    <3>1. Len(text) = 0 /\ text \in TextSeqs
      BY <2>1 DEF TextSeqs
    <3>2. texts' = texts
      BY <1>1, <1>2, <3>1, ConfigAssumption
    <3>3. texts' \in 0..MaxTexts
      BY <1>2, <3>2
    <3> QED BY <2>1, <3>1, <3>2, <3>3, Zenon
  <2>2. CASE text = <<texts + 1>>
    <3>1. Len(text) = 1
      BY <2>2
    <3>2. texts' = texts + 1 /\ texts' \in 1..MaxTexts
      BY <1>1, <1>2, <3>1, ConfigAssumption
    <3> QED BY <2>2, <3>2 DEF TextSeqs
  <2> QED BY <2>1, <2>2 DEF Messages
<1>5. local' \in State
  BY <1>1, <1>2, <1>3, PreparedFields DEF Base, Typed, StateOK, CallOK
<1>6. /\ run' \in Runs /\ run'.at = "prepared" /\ run'.reply = reply /\ run'.text = text
      /\ run'.pass = 0 /\ run'.batch = <<>> /\ run'.sent = Nothing
  BY <1>1, <1>3, <1>4, NothingIs DEF Runs
<1> QED BY <1>1, <1>3, <1>4, <1>5, <1>6

LEMMA BeginBase ==
    ASSUME Base, NEW reply \in Inputs, NEW text \in Messages, Begin(reply, text)
    PROVE  Base'
<1>1. /\ run.at = "idle" /\ reply \in Replyings /\ DOMAIN reply \subseteq asked \cup retry
      /\ texts' \in 0..MaxTexts
      /\ local' = Prepared(stored, reply) /\ local' \in State /\ stored' = stored
      /\ run' \in Runs /\ run'.at = "prepared" /\ run'.reply = reply
      /\ run'.pass = 0 /\ run'.batch = <<>> /\ run'.sent = Nothing
      /\ call' = call /\ turn' = turn /\ asked' = asked /\ retry' = retry
      /\ failures' = failures /\ skipped' = (skipped \/ ~ asked \subseteq DOMAIN reply)
      /\ said' = said /\ choices' = choices /\ granted' = granted
      /\ delivered' = delivered /\ heard' = heard /\ lost' = lost /\ whole' = whole
  BY BeginFacts
<1>2. Typed'
  <2>1. CallOK' /\ StateOK' /\ RunOK' /\ CallerOK'
    BY <1>1 DEF Base, Typed, CallOK, StateOK, RunOK, CallerOK, Minted
  <2>2. HistoryOK'
    BY <1>1 DEF Base, Typed, HistoryOK, Minted
  <2> QED BY <2>1, <2>2 DEF Typed
<1>3. PhaseInv'
  <2>1. /\ local'.queued = stored.queued /\ local'.held = stored.held
        /\ local'.collected = {a \in stored.collected : a.id \notin DOMAIN reply} \cup Brought(reply)
    <3>1. DOMAIN reply \subseteq Minted
      BY <1>1 DEF Base, Typed, CallerOK
    <3> QED BY <1>1, <3>1, PreparedFields DEF Base, Typed, StateOK, CallOK
  <2> QED BY <1>1, <2>1 DEF PhaseInv, Reply
<1>4. PlacesInv' /\ ReplyInv'
  BY <1>1 DEF Base, PlacesInv, ReplyInv, Minted, Reply, Queue, Done, Collected, Delivered, Completed
<1>5. BatchInv'
  BY <1>1, EmptyInSeq DEF BatchInv, Batch
<1> QED BY <1>2, <1>3, <1>4, <1>5 DEF Base

LEMMA AbandonBase ==
    ASSUME Base, Abandon
    PROVE  Base'
<1>1. /\ run.at # "idle" /\ failures < MaxFailures
      /\ run' = NoRun /\ local' = NoState /\ failures' = failures + 1
      /\ retry' = IF run.at = "inner" THEN DOMAIN run.reply ELSE retry
      /\ call' = call /\ turn' = turn /\ stored' = stored /\ asked' = asked /\ texts' = texts
      /\ said' = said /\ choices' = choices /\ granted' = granted /\ delivered' = delivered
      /\ heard' = heard /\ lost' = lost /\ whole' = whole /\ skipped' = skipped
  BY DEF Abandon, history
<1>2. retry' \subseteq Done /\ retry' \subseteq Minted
  BY <1>1 DEF Base, ReplyInv, PlacesInv, Reply
<1>3. Typed'
  <2>1. CallOK' /\ StateOK' /\ RunOK'
    BY <1>1, NothingIs DEF Base, Typed, CallOK, StateOK, RunOK
  <2>2. CallerOK'
    BY <1>1, <1>2, ConfigAssumption DEF Base, Typed, CallerOK, Minted
  <2>3. HistoryOK'
    BY <1>1 DEF Base, Typed, HistoryOK, Minted
  <2> QED BY <2>1, <2>2, <2>3 DEF Typed
<1>4. PhaseInv' /\ BatchInv'
  BY <1>1, NothingIs, EmptyInSeq DEF PhaseInv, BatchInv, Batch
<1>5. PlacesInv' /\ ReplyInv'
  BY <1>1, <1>2, NothingIs DEF Base, PlacesInv, ReplyInv, Minted, Queue, Done, Collected,
     Delivered, Completed
<1> QED BY <1>3, <1>4, <1>5 DEF Base

LEMMA AcceptFacts ==
    ASSUME Base, Accept
    PROVE  /\ said' \in [Ids -> Replies \cup {"none"}] /\ choices' \in [Ids -> Scopes]
           /\ granted' \subseteq Calls /\ granted \subseteq granted'
           /\ \A i \in Ids : i \notin Reply => said'[i] = said[i]
           /\ \A i \in Reply : said'[i] = run.reply[i] /\ said'[i] # "none"
<1>1. /\ said' = [i \in Ids |-> IF i \in DOMAIN run.reply THEN run.reply[i] ELSE said[i]]
      /\ choices' = [i \in Ids |-> IF i \in DOMAIN run.reply THEN "none" ELSE choices[i]]
      /\ granted' = granted \cup UNION {Covered(choices[i], call[i]) :
                       i \in {j \in DOMAIN run.reply : run.reply[j] = "approve"}}
  BY DEF Accept
<1>2. Reply \subseteq Ids /\ \A i \in Reply : run.reply[i] \in Replies
  BY RunFields, ReplyingIs DEF Base, Typed, Reply
<1>3. Reply \subseteq Minted \/ run.at \notin {"prepared", "inner"}
  BY DEF Base, ReplyInv, PlacesInv, Typed, CallerOK
<1>4. run.at \notin {"prepared", "inner"} => Reply = {}
  BY RunFields, NothingIs DEF Base, Typed, PhaseInv, Reply
<1>5. \A i \in Reply : call[i] \in Calls
  BY <1>3, <1>4 DEF Base, Typed, CallOK, CallSeqs, Minted
<1>6. \A i \in Reply : Covered(choices[i], call[i]) \subseteq Calls
  BY <1>5, CoveredIsCalls
<1>7. granted' \subseteq Calls /\ granted \subseteq granted'
  BY <1>1, <1>6 DEF Base, Typed, HistoryOK, Reply
<1>8. said' \in [Ids -> Replies \cup {"none"}] /\ choices' \in [Ids -> Scopes]
  BY <1>1, <1>2 DEF Base, Typed, HistoryOK, Reply, Scopes
<1>9. /\ \A i \in Ids : i \notin Reply => said'[i] = said[i]
      /\ \A i \in Reply : said'[i] = run.reply[i] /\ said'[i] # "none"
  BY <1>1, <1>2 DEF Reply, Replies
<1> QED BY <1>7, <1>8, <1>9

\* A run that shows one of the requests that are queued: h, to a consumer that has left
\* or that has not.
LEMMA SurfaceFacts ==
    ASSUME Base, Surface
    PROVE  LET s == Drained(local)
               h == Head(s.queued)
               auto == Standing(local, stored.queued)
           IN  /\ run.at = "prepared" /\ run' = NoRun /\ local' = NoState
               /\ stored' \in State /\ Accept
               /\ stored'.held = stored.held \o run.text
               /\ stored'.collected = s.collected
               /\ stored'.rules = local.rules /\ stored'.standing = local.standing
               /\ Distinct(stored'.queued) /\ h \in Queue \ auto
               /\ InSeq(stored'.queued) = (Queue \ auto) \ {h}
               /\ \/ /\ asked' = (asked \ Reply) \cup {h} /\ lost' = lost /\ retry' = {}
                  \/ asked' = asked \ Reply /\ lost' = lost \cup {h} /\ retry' = Reply
               /\ call' = call /\ turn' = turn /\ texts' = texts /\ failures' = failures
               /\ delivered' = delivered /\ heard' = heard /\ whole' = whole
               /\ skipped' = skipped
<1> DEFINE s == Drained(local)
           h == Head(s.queued)
           auto == Standing(local, stored.queued)
<1>1. /\ run.at = "prepared" /\ s.queued # <<>>
      /\ stored' = [s EXCEPT !.queued = Tail(@), !.held = @ \o run.text]
      /\ Accept /\ Show({h}, asked \ DOMAIN run.reply)
      /\ run' = NoRun /\ local' = NoState
      /\ call' = call /\ turn' = turn /\ texts' = texts /\ failures' = failures
      /\ delivered' = delivered /\ heard' = heard /\ whole' = whole /\ skipped' = skipped
  BY DEF Surface
<1>2. /\ s \in State /\ s.rules = local.rules /\ s.standing = local.standing
      /\ s.held = stored.held /\ Distinct(s.queued) /\ InSeq(s.queued) = Queue \ auto
  BY <1>1, DrainedFacts
<1>3. \/ asked' = (asked \ Reply) \cup {h} /\ lost' = lost /\ retry' = {}
      \/ asked' = asked \ Reply /\ lost' = lost \cup {h} /\ retry' = Reply
  <2>1. Show({h}, asked \ Reply)
    BY <1>1 DEF Reply
  <2> HIDE DEF h
  <2> QED BY <2>1 DEF Show, Reply
<1> HIDE DEF s, auto
<1>4. /\ Tail(s.queued) \in IdSeqs /\ Distinct(Tail(s.queued))
      /\ h \in Queue \ auto /\ InSeq(Tail(s.queued)) = (Queue \ auto) \ {h}
  <2>1. s.queued \in IdSeqs
    BY <1>2, StateFields
  <2> DEFINE q == s.queued
  <2>2. q \in Seq(Ids) /\ q # <<>> /\ Distinct(q) /\ InSeq(q) = Queue \ auto
    BY <1>1, <1>2, <2>1 DEF IdSeqs
  <2> HIDE DEF q
  <2>3. /\ Tail(q) \in Seq(Ids) /\ InSeq(q) = InSeq(Tail(q)) \cup {Head(q)}
        /\ Distinct(Tail(q)) /\ Head(q) \notin InSeq(Tail(q))
    BY <2>2, HeadAndTail
  <2> QED BY <2>2, <2>3 DEF q, IdSeqs
<1>5. /\ stored' \in State /\ stored'.held = stored.held \o run.text
      /\ stored'.collected = s.collected /\ stored'.queued = Tail(s.queued)
      /\ stored'.rules = s.rules /\ stored'.standing = s.standing
  <2> DEFINE queued == Tail(s.queued)
             held == s.held \o run.text
  <2>1. held \in TextSeqs
    <3>1. s.held \in TextSeqs /\ run.text \in TextSeqs
      BY <1>2, StateFields, RunFields DEF Base, Typed
    <3> QED BY <3>1, ConcatProperties DEF TextSeqs
  <2>2. queued \in IdSeqs /\ held = stored.held \o run.text
    BY <1>2, <1>4
  <2>3. stored' = [s EXCEPT !.queued = queued, !.held = held]
    BY <1>1
  <2> HIDE DEF queued, held
  <2>4. stored' = [rules |-> s.rules, queued |-> queued, collected |-> s.collected,
                   held |-> held, standing |-> s.standing]
    BY <1>2, <2>3, StateIs
  <2>5. /\ s.rules \subseteq Calls /\ s.collected \subseteq Answer
        /\ s.standing \in [Ids -> Scopes]
    BY <1>2, StateFields
  <2>6. stored' \in State
    BY <2>1, <2>2, <2>4, <2>5, StateIs
  <2> QED BY <2>2, <2>4, <2>6 DEF queued
<1> HIDE DEF h
<1> QED BY <1>1, <1>2, <1>3, <1>4, <1>5 DEF s, auto, h

LEMMA SurfaceBase ==
    ASSUME Base, Surface
    PROVE  Base'
<1> DEFINE s == Drained(local)
           h == Head(s.queued)
           auto == Standing(local, stored.queued)
<1>1. /\ run.at = "prepared" /\ run' = NoRun /\ local' = NoState
      /\ stored' \in State /\ Accept
      /\ stored'.collected = s.collected
      /\ Distinct(stored'.queued) /\ h \in Queue \ auto
      /\ InSeq(stored'.queued) = (Queue \ auto) \ {h}
      /\ \/ asked' = (asked \ Reply) \cup {h} /\ lost' = lost /\ retry' = {}
         \/ asked' = asked \ Reply /\ lost' = lost \cup {h} /\ retry' = Reply
      /\ call' = call /\ turn' = turn /\ texts' = texts /\ failures' = failures
      /\ delivered' = delivered /\ whole' = whole /\ skipped' = skipped
  BY SurfaceFacts
<1>2. /\ auto \subseteq Queue /\ IdsIn(s.collected) = Collected \cup Reply \cup auto
      /\ OneEach(s.collected)
  BY <1>1, DrainedFacts
<1>3. /\ said' \in [Ids -> Replies \cup {"none"}] /\ choices' \in [Ids -> Scopes]
      /\ granted' \subseteq Calls /\ \A i \in Ids : i \notin Reply => said'[i] = said[i]
  BY <1>1, AcceptFacts
<1> HIDE DEF s, h, auto
<1>4. /\ Queue' = (Queue \ auto) \ {h} /\ Collected' = Collected \cup Reply \cup auto
      /\ Delivered' = Delivered /\ Done' = Done \cup Reply \cup auto
      /\ Minted' = Minted /\ Completed' = Completed /\ Reply' = {}
  BY <1>1, <1>2, NothingIs DEF Queue, Collected, Delivered, Done, Minted, Completed, Reply
<1>5. /\ asked \cap (Queue \cup lost \cup Done) = {}
      /\ Queue \cap (lost \cup Done) = {} /\ lost \cap Done = {}
      /\ Completed \subseteq asked \cup Queue \cup lost \cup Done
      /\ Queue \cup Done \subseteq Minted /\ Reply \subseteq asked \cup Done
      /\ asked \subseteq Minted /\ lost \subseteq Minted
  BY <1>1 DEF Base, PlacesInv, ReplyInv, Typed, CallerOK, HistoryOK
<1>6. Typed'
  <2>1. CallOK' /\ StateOK' /\ RunOK'
    BY <1>1, NothingIs DEF Base, Typed, CallOK, StateOK, RunOK
  <2>2. asked' \subseteq Minted' /\ retry' \subseteq Minted' /\ lost' \subseteq Minted'
    BY <1>1, <1>4, <1>5
  <2>3. CallerOK'
    BY <1>1, <2>2 DEF Base, Typed, CallerOK
  <2>4. HistoryOK'
    BY <1>1, <1>3, <1>4, <2>2 DEF Base, Typed, HistoryOK
  <2> QED BY <2>1, <2>3, <2>4 DEF Typed
<1>7. PhaseInv' /\ BatchInv'
  BY <1>1, NothingIs, EmptyInSeq DEF PhaseInv, BatchInv, Batch
<1>8. PlacesInv'
  <2>1. asked' \cap (Queue \cup lost \cup Done)' = {}
    BY <1>1, <1>2, <1>4, <1>5
  <2>2. Queue' \cap (lost \cup Done)' = {} /\ (lost \cap Done)' = {}
    BY <1>1, <1>2, <1>4, <1>5
  <2>3. /\ Completed' \subseteq (asked \cup Queue \cup lost \cup Done)'
        /\ (Queue \cup Done \subseteq Minted)'
    BY <1>1, <1>2, <1>4, <1>5
  <2> QED BY <1>1, <1>2, <2>1, <2>2, <2>3 DEF PlacesInv
<1>9. ReplyInv'
  <2>1. \A i \in Queue' : said'[i] = "none"
    BY <1>2, <1>3, <1>4, <1>5, MintedIsIds DEF Base, Typed, ReplyInv
  <2>2. \A i \in Ids \ Minted' : turn'[i] = 0 /\ said'[i] = "none"
    BY <1>1, <1>3, <1>4, <1>5 DEF Base, ReplyInv
  <2> QED BY <1>1, <1>4, <2>1, <2>2, NothingIs DEF ReplyInv
<1> QED BY <1>6, <1>7, <1>8, <1>9 DEF Base

\* A run that calls the inner agent, with all that is collected.
LEMMA CallInnerFacts ==
    ASSUME Base, CallInner
    PROVE  LET s == Drained(local)
               auto == Standing(local, stored.queued)
           IN  /\ run.at = "prepared" /\ stored' = s /\ s \in State /\ Accept
               /\ s.queued = <<>> /\ Queue = auto
               /\ s.rules = local.rules /\ s.standing = local.standing
               /\ s.held = stored.held
               /\ local' \in State /\ local'.rules = s.rules
               /\ local'.standing = s.standing /\ local'.queued = <<>>
               /\ local'.collected = {} /\ local'.held = <<>>
               /\ run' \in Runs /\ run'.at = "inner" /\ run'.reply = run.reply
               /\ run'.batch = <<>> /\ run'.pass = 0 /\ run'.text = run.text
               /\ run'.sent.answers = s.collected
               /\ run'.sent.texts = stored.held \o run.text
               /\ asked' = asked \ Reply /\ retry' = {}
               /\ call' = call /\ turn' = turn /\ texts' = texts /\ failures' = failures
               /\ delivered' = delivered /\ heard' = heard /\ lost' = lost
               /\ whole' = whole /\ skipped' = skipped
<1> DEFINE s == Drained(local)
           auto == Standing(local, stored.queued)
           sent == Injected(s, run.text)
<1>1. /\ run.at = "prepared" /\ s.queued = <<>> /\ stored' = s /\ local' = Emptied(s)
      /\ run' = [run EXCEPT !.at = "inner", !.sent = sent]
      /\ Accept /\ asked' = asked \ Reply /\ retry' = {}
      /\ call' = call /\ turn' = turn /\ texts' = texts /\ failures' = failures
      /\ delivered' = delivered /\ heard' = heard /\ lost' = lost /\ whole' = whole
      /\ skipped' = skipped
  BY DEF CallInner, Reply
<1>2. /\ s \in State /\ s.rules = local.rules /\ s.standing = local.standing
      /\ s.held = stored.held /\ InSeq(s.queued) = Queue \ auto /\ auto \subseteq Queue
  BY <1>1, DrainedFacts
<1>3. Queue = auto
  BY <1>1, <1>2, EmptyInSeq
<1>4. /\ local' \in State /\ local'.rules = s.rules /\ local'.standing = s.standing
      /\ local'.queued = <<>> /\ local'.collected = {} /\ local'.held = <<>>
  BY <1>1, <1>2, EmptiedFields
<1>5. /\ sent.answers = s.collected /\ sent.texts = stored.held \o run.text
      /\ sent \in [answers : SUBSET Answer, texts : TextSeqs]
  <2> DEFINE held == s.held \o run.text
  <2>1. held \in TextSeqs
    <3>1. s.held \in TextSeqs /\ run.text \in TextSeqs
      BY <1>2, StateFields, RunFields DEF Base, Typed
    <3> QED BY <3>1, ConcatProperties DEF TextSeqs
  <2>2. s.collected \subseteq Answer
    BY <1>2, StateFields
  <2>3. sent = [answers |-> s.collected, texts |-> held]
    BY DEF Injected
  <2>4. held = stored.held \o run.text
    BY <1>2
  <2> HIDE DEF held, sent
  <2> QED BY <2>1, <2>2, <2>3, <2>4
<1> HIDE DEF sent
<1>6. /\ run' \in Runs /\ run'.at = "inner" /\ run'.reply = run.reply /\ run'.batch = run.batch
      /\ run'.pass = run.pass /\ run'.text = run.text /\ run'.sent = sent
  <2>1. run \in Runs
    BY DEF Base, Typed, RunOK
  <2> QED BY <1>1, <1>5, <2>1 DEF Runs
<1>7. run.batch = <<>> /\ run.pass = 0
  BY <1>1 DEF Base, PhaseInv
<1> QED BY <1>1, <1>2, <1>3, <1>4, <1>5, <1>6, <1>7

LEMMA CallInnerBase ==
    ASSUME Base, CallInner
    PROVE  Base'
<1> DEFINE s == Drained(local)
           auto == Standing(local, stored.queued)
<1>1. /\ run.at = "prepared" /\ stored' = s /\ s \in State /\ Accept
      /\ s.queued = <<>> /\ Queue = auto
      /\ local' \in State /\ local'.queued = <<>>
      /\ local'.collected = {} /\ local'.held = <<>>
      /\ run' \in Runs /\ run'.at = "inner" /\ run'.reply = run.reply
      /\ run'.batch = <<>> /\ run'.sent.answers = s.collected
      /\ asked' = asked \ Reply /\ retry' = {}
      /\ call' = call /\ turn' = turn /\ texts' = texts /\ failures' = failures
      /\ delivered' = delivered /\ lost' = lost /\ whole' = whole /\ skipped' = skipped
  BY CallInnerFacts
<1>2. IdsIn(s.collected) = Collected \cup Reply \cup auto /\ OneEach(s.collected)
  BY <1>1, DrainedFacts
<1>3. /\ said' \in [Ids -> Replies \cup {"none"}] /\ choices' \in [Ids -> Scopes]
      /\ granted' \subseteq Calls /\ \A i \in Ids : i \notin Reply => said'[i] = said[i]
  BY <1>1, AcceptFacts
<1> HIDE DEF s, auto
<1>4. /\ Queue' = {} /\ Collected' = Collected \cup Reply \cup Queue
      /\ Delivered' = Delivered /\ Done' = Done \cup Reply \cup Queue
      /\ Minted' = Minted /\ Completed' = Completed /\ Reply' = Reply
  BY <1>1, <1>2, EmptyInSeq DEF Queue, Collected, Delivered, Done, Minted, Completed, Reply
<1>5. /\ asked \cap (Queue \cup lost \cup Done) = {}
      /\ Queue \cap (lost \cup Done) = {} /\ lost \cap Done = {}
      /\ Completed \subseteq asked \cup Queue \cup lost \cup Done
      /\ Queue \cup Done \subseteq Minted /\ Reply \subseteq asked \cup Done
      /\ asked \subseteq Minted
  BY <1>1 DEF Base, PlacesInv, ReplyInv, Typed, CallerOK
<1>6. Typed'
  <2>1. CallOK' /\ StateOK' /\ RunOK'
    BY <1>1 DEF Base, Typed, CallOK, StateOK, RunOK
  <2>2. CallerOK'
    BY <1>1, <1>4, <1>5 DEF Base, Typed, CallerOK
  <2>3. HistoryOK'
    BY <1>1, <1>3, <1>4 DEF Base, Typed, HistoryOK
  <2> QED BY <2>1, <2>2, <2>3 DEF Typed
<1>7. PhaseInv'
  BY <1>1 DEF PhaseInv
<1>8. BatchInv'
  BY <1>1, EmptyInSeq DEF BatchInv, Batch
<1>9. PlacesInv'
  <2>1. (asked \cap (Queue \cup lost \cup Done))' = {} /\ (lost \cap Done)' = {}
    BY <1>1, <1>4, <1>5
  <2>2. /\ Completed' \subseteq (asked \cup Queue \cup lost \cup Done)'
        /\ (Queue \cup Done \subseteq Minted)' /\ (Queue \cap (lost \cup Done))' = {}
    BY <1>1, <1>4, <1>5
  <2> QED BY <1>1, <1>2, <2>1, <2>2, EmptyInSeq DEF PlacesInv
<1>10. ReplyInv'
  <2>1. \A i \in Ids \ Minted' : turn'[i] = 0 /\ said'[i] = "none"
    BY <1>1, <1>3, <1>4, <1>5 DEF Base, ReplyInv
  <2> QED BY <1>1, <1>4, <2>1 DEF ReplyInv
<1> QED BY <1>6, <1>7, <1>8, <1>9, <1>10 DEF Base

\* The inner agent's turn asks for one more approval, n.
LEMMA AskFacts ==
    ASSUME Base, NEW c \in Calls, Ask(c)
    PROVE  LET n == Len(call) + 1
           IN  /\ run.at = "inner" /\ n \in Ids /\ n \notin Minted /\ Minted' = Minted \cup {n}
               /\ CallOK' /\ \A i \in Minted : call'[i] = call[i]
               /\ run' \in Runs /\ run'.at = "inner" /\ run'.reply = run.reply
               /\ run'.text = run.text /\ run'.pass = run.pass /\ run'.sent = run.sent
               /\ Distinct(run'.batch) /\ InSeq(run'.batch) = Batch \cup {n}
               /\ IF Streaming /\ Capped
                  THEN asked' = asked \cup {n} /\ whole' = whole \cup {n}
                  ELSE asked' = asked /\ whole' = whole
               /\ turn' = turn /\ stored' = stored /\ local' = local /\ retry' = retry
               /\ texts' = texts /\ failures' = failures
               /\ said' = said /\ choices' = choices /\ granted' = granted
               /\ delivered' = delivered /\ heard' = heard /\ lost' = lost
               /\ skipped' = skipped
<1> DEFINE n == Len(call) + 1
           batch == Append(run.batch, n)
<1>1. /\ run.at = "inner" /\ Len(call) < MaxRequests /\ call' = Append(call, c)
      /\ run' = [run EXCEPT !.batch = Append(@, Len(call'))]
      /\ IF Streaming /\ Capped
         THEN asked' = asked \cup {Len(call')} /\ whole' = whole \cup {Len(call')}
         ELSE asked' = asked /\ whole' = whole
      /\ turn' = turn /\ stored' = stored /\ local' = local /\ retry' = retry
      /\ texts' = texts /\ failures' = failures
      /\ said' = said /\ choices' = choices /\ granted' = granted
      /\ delivered' = delivered /\ heard' = heard /\ lost' = lost /\ skipped' = skipped
  BY DEF Ask
<1>2. call \in Seq(Calls) /\ Len(call) \in 0..MaxRequests /\ MaxRequests \in Nat
  BY ConfigAssumption DEF Base, Typed, CallOK, CallSeqs
<1>3. /\ call' \in Seq(Calls) /\ Len(call') = n /\ \A i \in 1..Len(call) : call'[i] = call[i]
  BY <1>1, <1>2
<1>4. n \in 1..MaxRequests /\ 1..n = (1..Len(call)) \cup {n} /\ n \notin 1..Len(call)
  BY <1>1, <1>2
<1>5. run.batch \in IdSeqs /\ Distinct(run.batch) /\ Batch \subseteq Minted
  BY RunFields DEF Base, Typed, BatchInv
<1>6. run' = [run EXCEPT !.batch = batch]
  BY <1>1, <1>3
<1> HIDE DEF n
<1>7. batch \in IdSeqs /\ Distinct(batch) /\ InSeq(batch) = Batch \cup {n}
  <2>1. n \in Ids /\ n \notin InSeq(run.batch)
    BY <1>4, <1>5 DEF Minted, Ids, Batch
  <2>2. batch \in IdSeqs
    BY <1>5, <2>1 DEF IdSeqs
  <2>3. Distinct(batch)
    BY <1>5, <2>1, AppendDistinct DEF IdSeqs
  <2>4. InSeq(batch) = Batch \cup {n}
    BY <1>5, <2>1, AppendInSeq DEF IdSeqs, Batch
  <2> QED BY <2>2, <2>3, <2>4
<1> HIDE DEF batch
<1>8. /\ run' \in Runs /\ run'.at = "inner" /\ run'.reply = run.reply /\ run'.text = run.text
      /\ run'.pass = run.pass /\ run'.sent = run.sent /\ run'.batch = batch
  <2>1. run \in Runs
    BY DEF Base, Typed, RunOK
  <2> QED BY <1>1, <1>6, <1>7, <2>1 DEF Runs
<1>9. n \in Ids /\ n \notin Minted /\ Minted' = Minted \cup {n}
  BY <1>3, <1>4 DEF Minted, Ids
<1>10. CallOK' /\ \A i \in Minted : call'[i] = call[i]
  BY <1>3, <1>4 DEF CallOK, CallSeqs, Minted
<1> QED BY <1>1, <1>3, <1>7, <1>8, <1>9, <1>10 DEF n

LEMMA AskBase ==
    ASSUME Base, NEW c \in Calls, Ask(c)
    PROVE  Base'
<1> DEFINE n == Len(call) + 1
<1>1. /\ run.at = "inner" /\ n \in Ids /\ n \notin Minted /\ Minted' = Minted \cup {n}
      /\ CallOK'
      /\ run' \in Runs /\ run'.at = "inner" /\ run'.reply = run.reply
      /\ run'.pass = run.pass /\ run'.sent = run.sent
      /\ Distinct(run'.batch) /\ InSeq(run'.batch) = Batch \cup {n}
      /\ IF Streaming /\ Capped
         THEN asked' = asked \cup {n} /\ whole' = whole \cup {n}
         ELSE asked' = asked /\ whole' = whole
      /\ turn' = turn /\ stored' = stored /\ local' = local /\ retry' = retry
      /\ texts' = texts /\ failures' = failures
      /\ said' = said /\ choices' = choices /\ granted' = granted
      /\ delivered' = delivered /\ lost' = lost /\ skipped' = skipped
  BY AskFacts
<1> HIDE DEF n
<1>2. /\ Minted \subseteq Ids /\ turn[n] = 0 /\ said[n] = "none"
      /\ Queue \cup Done \subseteq Minted /\ asked \subseteq Minted /\ lost \subseteq Minted
      /\ retry \subseteq Minted /\ whole \subseteq Minted
  BY <1>1, MintedIsIds DEF Base, Typed, PlacesInv, ReplyInv, CallerOK, HistoryOK
<1>3. /\ Queue' = Queue /\ Collected' = Collected /\ Done' = Done /\ Reply' = Reply
      /\ Batch' = Batch \cup {n} /\ Capped' = Capped
  BY <1>1 DEF Queue, Collected, Done, Delivered, Reply, Batch, Capped
<1>4. Completed' = Completed
  BY <1>1, <1>2 DEF Completed
<1>5. Typed'
  <2>1. StateOK' /\ RunOK'
    BY <1>1 DEF Base, Typed, StateOK, RunOK
  <2>2. asked' \subseteq Minted' /\ retry' \subseteq Minted' /\ whole' \subseteq Minted'
    BY <1>1, <1>2
  <2>3. CallerOK'
    BY <1>1, <2>2 DEF Base, Typed, CallerOK
  <2>4. turn' \in [Ids -> Minted' \cup {0}]
    BY <1>1 DEF Base, Typed, HistoryOK
  <2>5. HistoryOK'
    BY <1>1, <1>2, <2>2, <2>4 DEF Base, Typed, HistoryOK
  <2> QED BY <1>1, <2>1, <2>3, <2>5 DEF Typed
<1>6. PhaseInv'
  BY <1>1 DEF Base, PhaseInv
<1>7. PlacesInv'
  <2>1. /\ asked' \subseteq asked \cup {n} /\ asked \subseteq asked'
    BY <1>1
  <2> QED BY <1>1, <1>2, <1>3, <1>4, <2>1 DEF Base, PlacesInv
<1>8. ReplyInv'
  BY <1>1, <1>3 DEF Base, ReplyInv
<1>9. BatchInv'
  <2>1. \A i \in Batch' : /\ turn'[i] = 0 /\ said'[i] = "none"
                          /\ i \notin (Queue \cup lost \cup Done)'
    BY <1>1, <1>2, <1>3 DEF Base, BatchInv
  <2>2. \A i \in Batch' : i \in asked' => Streaming /\ Capped' /\ i \in whole'
    BY <1>1, <1>2, <1>3 DEF Base, BatchInv
  <2>3. Streaming /\ Capped' => Batch' \subseteq asked'
    BY <1>1, <1>3 DEF Base, BatchInv
  <2>4. Distinct(run'.batch) /\ Batch' \subseteq Minted'
    BY <1>1, <1>3 DEF Base, BatchInv
  <2> QED BY <2>1, <2>2, <2>3, <2>4 DEF BatchInv
<1> QED BY <1>5, <1>6, <1>7, <1>8, <1>9 DEF Base

\* The inner run has completed: its answers are delivered, its requests are a turn.
LEMMA InnerDoneFacts ==
    ASSUME Base, InnerDone
    PROVE  /\ run.at = "inner"
           /\ turn' \in [Ids -> Minted \cup {0}]
           /\ \A i \in Ids \ Batch : turn'[i] = turn[i]
           /\ \A i \in Batch : turn'[i] = Head(run.batch)
           /\ Batch # {} => Head(run.batch) \in Batch
           /\ Batch \subseteq Minted /\ Completed' = Completed \cup Batch
           /\ delivered' = delivered \cup stored.collected
           /\ Delivered' = Delivered \cup Collected
           /\ delivered' \subseteq Answer
           /\ heard' = heard \o run.sent.texts
           /\ Minted' = Minted
           /\ call' = call /\ texts' = texts /\ failures' = failures
           /\ said' = said /\ choices' = choices /\ granted' = granted /\ skipped' = skipped
<1>1. /\ run.at = "inner"
      /\ turn' = [i \in Ids |-> IF i \in InSeq(run.batch) THEN Head(run.batch) ELSE turn[i]]
      /\ delivered' = delivered \cup run.sent.answers /\ heard' = heard \o run.sent.texts
      /\ call' = call /\ texts' = texts /\ failures' = failures
      /\ said' = said /\ choices' = choices /\ granted' = granted /\ skipped' = skipped
  BY DEF InnerDone
<1>2. delivered' = delivered \cup stored.collected
  BY <1>1 DEF Base, PhaseInv
<1>3. Delivered' = Delivered \cup Collected
  BY <1>2, IdsOfUnion DEF Delivered, Collected
<1>4. delivered' \subseteq Answer
  BY <1>2, StateFields DEF Base, Typed, StateOK, HistoryOK
<1>5. Batch \subseteq Minted /\ Minted \subseteq Ids /\ 0 \notin Minted /\ run.batch \in IdSeqs
  BY MintedIsIds, RunFields DEF Base, Typed, BatchInv
<1>6. Batch # {} => Head(run.batch) \in Batch
  <2> SUFFICES ASSUME Batch # {} PROVE Head(run.batch) \in Batch
    OBVIOUS
  <2> DEFINE b == run.batch
  <2>1. b \in Seq(Ids) /\ b # <<>>
    BY <1>5, EmptyInSeq DEF Batch, IdSeqs
  <2> HIDE DEF b
  <2>2. Head(b) \in InSeq(b)
    BY <2>1, HeadAndTail
  <2> QED BY <2>2 DEF b, Batch
<1>7. /\ \A i \in Ids \ Batch : turn'[i] = turn[i]
      /\ \A i \in Batch : turn'[i] = Head(run.batch)
  BY <1>1, <1>5 DEF Batch
<1>8. turn' \in [Ids -> Minted \cup {0}]
  <2>1. turn \in [Ids -> Minted \cup {0}]
    BY DEF Base, Typed, HistoryOK
  <2> QED BY <1>1, <1>5, <1>6, <2>1 DEF Batch
<1>9. Minted' = Minted
  BY <1>1 DEF Minted
<1>10. Completed' = Completed \cup Batch
  BY <1>5, <1>6, <1>7, <1>9 DEF Completed
<1> QED BY <1>1, <1>2, <1>3, <1>4, <1>5, <1>6, <1>7, <1>8, <1>9, <1>10

\* What a step that ends an inner run has to say of its own, and what follows: the
\* requests of the turn that was completed are put in their places.
LEMMA InnerBase ==
    ASSUME Base, InnerDone,
           stored' \in State, local' \in State, run' \in Runs, PhaseInv', run'.batch = <<>>,
           run' = NoRun \/ (run'.at = "inner" /\ run'.reply = run.reply),
           Distinct(stored'.queued), OneEach(stored'.collected),
           asked \subseteq asked', lost \subseteq lost',
           (asked' \cup lost' \cup Queue' \cup Collected') \ (asked \cup lost) = Batch \ asked,
           asked' \cap (lost' \cup Queue' \cup Collected') = {},
           lost' \cap (Queue' \cup Collected') = {}, Queue' \cap Collected' = {},
           retry' \subseteq Done, whole' \subseteq Minted
    PROVE  Base'
<1>1. /\ run.at = "inner" /\ turn' \in [Ids -> Minted \cup {0}] /\ Minted' = Minted
      /\ \A i \in Ids \ Batch : turn'[i] = turn[i] /\ Batch \subseteq Minted
      /\ Completed' = Completed \cup Batch
      /\ Delivered' = Delivered \cup Collected /\ delivered' \subseteq Answer
      /\ call' = call /\ texts' = texts /\ failures' = failures
      /\ said' = said /\ choices' = choices /\ granted' = granted /\ skipped' = skipped
  BY InnerDoneFacts
<1>2. /\ Queue = {} /\ asked \cap (lost \cup Done) = {} /\ lost \cap Done = {}
      /\ Completed \subseteq asked \cup lost \cup Done
      /\ asked \cup Done \cup lost \subseteq Minted
      /\ Batch \cap (lost \cup Done) = {} /\ \A i \in Batch : said[i] = "none"
      /\ Batch \subseteq Minted
  <2>1. Queue = {}
    BY <1>1, EmptyInSeq DEF Base, PhaseInv, Queue
  <2> QED BY <2>1 DEF Base, PlacesInv, BatchInv, Typed, CallerOK, HistoryOK
<1>3. Done' = Done \cup Collected'
  BY <1>1 DEF Done
<1>4. Typed'
  <2>1. CallOK' /\ StateOK' /\ RunOK'
    BY <1>1 DEF Base, Typed, CallOK, StateOK, RunOK
  <2>2. asked' \subseteq Minted' /\ retry' \subseteq Minted' /\ lost' \subseteq Minted'
    BY <1>1, <1>2
  <2>3. CallerOK'
    BY <1>1, <2>2 DEF Base, Typed, CallerOK
  <2>4. HistoryOK'
    BY <1>1, <2>2 DEF Base, Typed, HistoryOK
  <2> QED BY <2>1, <2>3, <2>4 DEF Typed
<1>5. PlacesInv'
  <2>1. (asked \cap (Queue \cup lost \cup Done))' = {}
    BY <1>2, <1>3
  <2>2. (Queue \cap (lost \cup Done))' = {} /\ (lost \cap Done)' = {}
    BY <1>2, <1>3
  <2>3. /\ Completed' \subseteq (asked \cup Queue \cup lost \cup Done)'
        /\ (Queue \cup Done \subseteq Minted)'
    BY <1>1, <1>2, <1>3
  <2> QED BY <2>1, <2>2, <2>3 DEF PlacesInv
<1>6. ReplyInv'
  <2>1. Queue' \subseteq Batch
    BY <1>2
  <2>2. run' = NoRun \/ Reply' = Reply
    BY DEF Reply
  <2>3. run.at = "inner" => Reply \subseteq Done
    BY DEF Base, ReplyInv
  <2>4. \A i \in Ids \ Minted' : turn'[i] = 0 /\ said'[i] = "none"
    BY <1>1, <1>2 DEF Base, ReplyInv
  <2> QED BY <1>1, <1>2, <1>3, <2>1, <2>2, <2>3, <2>4, NothingIs DEF ReplyInv
<1>7. BatchInv'
  BY EmptyInSeq DEF BatchInv, Batch
<1> QED BY <1>4, <1>5, <1>6, <1>7 DEF Base

\* A turn that goes to the caller as it is.
LEMMA EndCappedFacts ==
    ASSUME Base, EndCapped
    PROVE  /\ InnerDone /\ stored' = local /\ run' = NoRun /\ local' = NoState
           /\ asked' = asked \cup Batch /\ lost' = lost /\ whole' = whole \cup Batch
           /\ retry' \subseteq Done
<1>1. /\ Capped /\ InnerDone /\ run.at = "inner"
      /\ stored' = local /\ run' = NoRun /\ local' = NoState
  BY DEF EndCapped, InnerDone
<1>2. CASE Streaming
  <2>1. asked' = asked /\ retry' = retry /\ lost' = lost /\ whole' = whole
    BY <1>2 DEF EndCapped
  <2>2. Batch \subseteq asked /\ Batch \subseteq whole
    BY <1>1, <1>2 DEF Base, BatchInv
  <2>3. retry \subseteq Done
    BY DEF Base, ReplyInv
  <2> QED BY <1>1, <2>1, <2>2, <2>3
<1>3. CASE ~ Streaming
  <2>1. Show(Batch, asked) /\ whole' = whole \cup Batch
    BY <1>3 DEF EndCapped, Batch
  <2>2. asked' = asked \cup Batch /\ lost' = lost /\ retry' = {}
    BY <1>3, <2>1 DEF Show
  <2> QED BY <1>1, <2>1, <2>2
<1> QED BY <1>2, <1>3

LEMMA EndCappedBase ==
    ASSUME Base, EndCapped
    PROVE  Base'
<1>1. /\ InnerDone /\ run.at = "inner" /\ stored' = local /\ run' = NoRun /\ local' = NoState
      /\ asked' = asked \cup Batch /\ lost' = lost /\ whole' = whole \cup Batch
      /\ retry' \subseteq Done
  BY EndCappedFacts, InnerDoneFacts
<1>2. local.queued = <<>> /\ local.collected = {} /\ local \in State
  BY <1>1 DEF Base, PhaseInv, Typed, StateOK
<1>3. /\ stored' \in State /\ local' \in State /\ run' \in Runs /\ run'.batch = <<>>
      /\ Distinct(stored'.queued) /\ OneEach(stored'.collected)
      /\ Queue' = {} /\ Collected' = {}
  BY <1>1, <1>2, NothingIs, EmptyInSeq DEF OneEach, Queue, Collected, IdsIn
<1>4. PhaseInv'
  BY <1>1, NothingIs DEF PhaseInv
<1>5. /\ Batch \cap lost = {} /\ asked \cap lost = {} /\ Batch \subseteq Minted
      /\ whole \subseteq Minted
  BY DEF Base, PlacesInv, BatchInv, Typed, HistoryOK
<1>6. /\ asked \subseteq asked' /\ lost \subseteq lost'
      /\ (asked' \cup lost' \cup Queue' \cup Collected') \ (asked \cup lost) = Batch \ asked
      /\ asked' \cap (lost' \cup Queue' \cup Collected') = {}
      /\ lost' \cap (Queue' \cup Collected') = {} /\ Queue' \cap Collected' = {}
      /\ whole' \subseteq Minted
  BY <1>1, <1>3, <1>5
<1> QED BY <1>1, <1>3, <1>4, <1>6, InnerBase

\* A turn whose requests are all approved without asking.
LEMMA RerunFacts ==
    ASSUME Base, Rerun
    PROVE  /\ InnerDone /\ ~ Capped
           /\ stored' \in State /\ stored'.rules = local.rules
           /\ stored'.standing = local.standing /\ stored'.held = <<>>
           /\ stored'.queued = <<>> /\ stored'.collected = Covers(local, run.batch)
           /\ Standing(local, run.batch) = Batch
           /\ local' \in State /\ local'.rules = local.rules
           /\ local'.standing = local.standing /\ local'.held = <<>>
           /\ local'.queued = <<>> /\ local'.collected = {}
           /\ run' \in Runs /\ run'.at = "inner" /\ run'.reply = run.reply
           /\ run'.text = run.text /\ run'.batch = <<>>
           /\ run'.sent.answers = stored'.collected /\ run'.sent.texts = <<>>
           /\ asked' = asked /\ retry' = retry /\ lost' = lost /\ whole' = whole
<1> DEFINE s == Decided(local, run.batch, FALSE)
           sent == Injected(s, <<>>)
<1>1. /\ ~ Capped /\ InnerDone /\ run.at = "inner" /\ Open(local, run.batch) = <<>>
      /\ stored' = s /\ local' = Emptied(s)
      /\ run' = [run EXCEPT !.pass = @ + 1, !.sent = sent, !.batch = <<>>]
      /\ asked' = asked /\ retry' = retry /\ lost' = lost /\ whole' = whole
  BY DEF Rerun, InnerDone
<1>2. /\ local \in State /\ run.batch \in IdSeqs /\ Distinct(run.batch)
      /\ local.queued = <<>> /\ local.collected = {} /\ local.held = <<>>
  BY <1>1, RunFields DEF Base, PhaseInv, BatchInv, Typed, StateOK
<1>3. /\ s \in State /\ s.rules = local.rules /\ s.held = local.held
      /\ s.standing = local.standing /\ s.collected = Covers(local, run.batch)
      /\ s.queued = <<>>
  BY <1>1, <1>2, DecidedFields
<1>4. Standing(local, run.batch) = Batch
  <2>1. InSeq(Open(local, run.batch)) = InSeq(run.batch) \ Standing(local, run.batch)
    BY <1>2, OpenAndCovers
  <2>2. InSeq(run.batch) \ Standing(local, run.batch) = {}
    BY <1>1, <2>1, EmptyInSeq
  <2> QED BY <2>2 DEF Standing, Batch
<1>5. /\ local' \in State /\ local'.rules = s.rules /\ local'.standing = s.standing
      /\ local'.queued = s.queued /\ local'.collected = {} /\ local'.held = <<>>
  BY <1>1, <1>3, EmptiedFields
<1>6. /\ sent \in [answers : SUBSET Answer, texts : TextSeqs]
      /\ sent.answers = s.collected /\ sent.texts = <<>>
  <2> DEFINE texts0 == s.held \o <<>>
  <2>1. s.collected \subseteq Answer
    BY <1>3, StateFields
  <2>2. texts0 = <<>> /\ texts0 \in TextSeqs
    <3>1. s.held = <<>>
      BY <1>2, <1>3
    <3>2. <<>> \o <<>> = <<>> /\ <<>> \in TextSeqs
      BY ConcatEmptySeq DEF TextSeqs
    <3> HIDE DEF s
    <3> QED BY <3>1, <3>2
  <2>3. sent = [answers |-> s.collected, texts |-> texts0]
    BY DEF Injected
  <2> HIDE DEF texts0, sent, s
  <2> QED BY <2>1, <2>2, <2>3
<1>7. run.pass + 1 \in 0..MaxReruns
  BY <1>1, RunFields, ConfigAssumption DEF Base, Typed, Capped
<1>8. /\ run' \in Runs /\ run'.at = "inner" /\ run'.reply = run.reply /\ run'.text = run.text
      /\ run'.batch = <<>> /\ run'.sent = sent
  <2> DEFINE none == <<>>
  <2>1. run \in Runs /\ none \in IdSeqs
    BY DEF Base, Typed, RunOK, IdSeqs
  <2>2. run' = [run EXCEPT !.pass = @ + 1, !.sent = sent, !.batch = none] /\ none = <<>>
    BY <1>1
  <2> HIDE DEF none, sent, s
  <2> QED BY <1>1, <1>6, <1>7, <2>1, <2>2 DEF Runs
<1> HIDE DEF s, sent
<1> QED BY <1>1, <1>2, <1>3, <1>4, <1>5, <1>6, <1>8

LEMMA RerunBase ==
    ASSUME Base, Rerun
    PROVE  Base'
<1>1. /\ InnerDone /\ run.at = "inner" /\ ~ Capped
      /\ stored' \in State /\ stored'.queued = <<>>
      /\ stored'.collected = Covers(local, run.batch) /\ Standing(local, run.batch) = Batch
      /\ local' \in State /\ local'.held = <<>> /\ local'.queued = <<>> /\ local'.collected = {}
      /\ run' \in Runs /\ run'.at = "inner" /\ run'.reply = run.reply /\ run'.batch = <<>>
      /\ run'.sent.answers = stored'.collected
      /\ asked' = asked /\ retry' = retry /\ lost' = lost /\ whole' = whole
  BY RerunFacts, InnerDoneFacts
<1>2. PhaseInv'
  BY <1>1 DEF PhaseInv
<1>3. IdsIn(Covers(local, run.batch)) = Batch /\ OneEach(Covers(local, run.batch))
  BY <1>1, OpenAndCovers, RunFields DEF Base, Typed
<1>4. Queue' = {} /\ Collected' = Batch /\ Distinct(stored'.queued) /\ OneEach(stored'.collected)
  BY <1>1, <1>3, EmptyInSeq DEF Queue, Collected
<1>5. /\ Batch \cap lost = {} /\ Batch \cap asked = {} /\ asked \cap lost = {}
      /\ retry \subseteq Done /\ whole \subseteq Minted
  BY <1>1 DEF Base, PlacesInv, BatchInv, ReplyInv, Typed, HistoryOK
<1>6. /\ asked \subseteq asked' /\ lost \subseteq lost'
      /\ (asked' \cup lost' \cup Queue' \cup Collected') \ (asked \cup lost) = Batch \ asked
      /\ asked' \cap (lost' \cup Queue' \cup Collected') = {}
      /\ lost' \cap (Queue' \cup Collected') = {} /\ Queue' \cap Collected' = {}
      /\ retry' \subseteq Done /\ whole' \subseteq Minted
  BY <1>1, <1>4, <1>5
<1> QED BY <1>1, <1>2, <1>4, <1>6, InnerBase

\* A turn of which the caller is shown what is left, or the first of it.
LEMMA ReturnFacts ==
    ASSUME Base, NEW preserve \in BOOLEAN, Return(preserve)
    PROVE  LET kept == Kept(local, run.batch, preserve)
               auto == Standing(local, run.batch)
           IN  /\ InnerDone /\ ~ Capped /\ run' = NoRun /\ local' = NoState
               /\ stored' \in State /\ stored'.rules = local.rules
               /\ stored'.standing = local.standing /\ stored'.held = <<>>
               /\ stored'.collected = Covers(local, run.batch)
               /\ Distinct(stored'.queued) /\ kept \cap InSeq(stored'.queued) = {}
               /\ kept \cup InSeq(stored'.queued) = Batch \ auto /\ auto \subseteq Batch
               /\ \/ asked' = asked \cup kept /\ lost' = lost /\ retry' = {}
                  \/ asked' = asked /\ lost' = lost \cup kept /\ retry' = Reply
               /\ whole' = IF preserve THEN whole \cup Batch ELSE whole
               /\ preserve \/ \A i, j \in kept : i = j
<1> DEFINE s == Decided(local, run.batch, preserve)
           kept == Kept(local, run.batch, preserve)
           auto == Standing(local, run.batch)
<1>1. /\ ~ Capped /\ InnerDone /\ run.at = "inner" /\ stored' = s
      /\ Show(kept, asked) /\ run' = NoRun /\ local' = NoState
      /\ whole' = IF preserve THEN whole \cup Batch ELSE whole
  BY DEF Return, InnerDone, Batch
<1>2. /\ local \in State /\ run.batch \in IdSeqs /\ Distinct(run.batch)
      /\ local.queued = <<>> /\ local.collected = {} /\ local.held = <<>>
  BY <1>1, RunFields DEF Base, PhaseInv, BatchInv, Typed, StateOK
<1>3. /\ s \in State /\ s.rules = local.rules /\ s.held = local.held
      /\ s.standing = local.standing /\ s.collected = Covers(local, run.batch)
      /\ Distinct(s.queued) /\ kept \cup InSeq(s.queued) = InSeq(run.batch) \ auto
      /\ kept \cap InSeq(s.queued) = {}
      /\ preserve \/ \A i, j \in kept : i = j
  BY <1>2, DecidedFields
<1>4. auto \subseteq Batch
  BY DEF Standing, Batch
<1> HIDE DEF s, kept, auto
<1>5. \/ asked' = asked \cup kept /\ lost' = lost /\ retry' = {}
      \/ asked' = asked /\ lost' = lost \cup kept /\ retry' = Reply
  BY <1>1 DEF Show, Reply
<1> QED BY <1>1, <1>2, <1>3, <1>4, <1>5 DEF s, kept, auto, Batch

LEMMA ReturnBase ==
    ASSUME Base, NEW preserve \in BOOLEAN, Return(preserve)
    PROVE  Base'
<1> DEFINE kept == Kept(local, run.batch, preserve)
           auto == Standing(local, run.batch)
<1>1. /\ InnerDone /\ run.at = "inner" /\ ~ Capped /\ run' = NoRun /\ local' = NoState
      /\ stored' \in State /\ stored'.collected = Covers(local, run.batch)
      /\ Distinct(stored'.queued) /\ kept \cap InSeq(stored'.queued) = {}
      /\ kept \cup InSeq(stored'.queued) = Batch \ auto /\ auto \subseteq Batch
      /\ \/ asked' = asked \cup kept /\ lost' = lost /\ retry' = {}
         \/ asked' = asked /\ lost' = lost \cup kept /\ retry' = Reply
      /\ whole' = IF preserve THEN whole \cup Batch ELSE whole
  BY ReturnFacts, InnerDoneFacts
<1>2. IdsIn(Covers(local, run.batch)) = auto /\ OneEach(Covers(local, run.batch))
  BY OpenAndCovers, RunFields DEF Base, Typed
<1> HIDE DEF kept, auto
<1>3. PhaseInv' /\ local' \in State /\ run' \in Runs /\ run'.batch = <<>>
  BY <1>1, NothingIs DEF PhaseInv
<1>4. Collected' = auto /\ OneEach(stored'.collected) /\ Queue' = InSeq(stored'.queued)
  BY <1>1, <1>2 DEF Queue, Collected
<1>5. /\ Batch \cap lost = {} /\ Batch \cap asked = {} /\ asked \cap lost = {}
      /\ Reply \subseteq Done /\ whole \subseteq Minted /\ Batch \subseteq Minted
  BY <1>1 DEF Base, PlacesInv, BatchInv, ReplyInv, Typed, HistoryOK
<1>6. /\ asked \subseteq asked' /\ lost \subseteq lost'
      /\ (asked' \cup lost' \cup Queue' \cup Collected') \ (asked \cup lost) = Batch \ asked
  BY <1>1, <1>4, <1>5
<1>7. /\ asked' \cap (lost' \cup Queue' \cup Collected') = {}
      /\ lost' \cap (Queue' \cup Collected') = {} /\ Queue' \cap Collected' = {}
      /\ retry' \subseteq Done /\ whole' \subseteq Minted
  BY <1>1, <1>4, <1>5
<1> QED BY <1>1, <1>3, <1>4, <1>6, <1>7, InnerBase

LEMMA StepBase == Base /\ [Next]_vars => Base'
<1> SUFFICES ASSUME Base, [Next]_vars PROVE Base'
  OBVIOUS
<1>1. CASE UNCHANGED vars
  BY <1>1, StutterBase
<1>2. ASSUME NEW i \in asked, NEW scope \in Scopes, AlwaysApprove(i, scope) PROVE Base'
  BY <1>2, AlwaysApproveBase
<1>3. ASSUME NEW reply \in Inputs, NEW text \in Messages, Begin(reply, text) PROVE Base'
  BY <1>3, BeginBase
<1>4. CASE Abandon
  BY <1>4, AbandonBase
<1>5. CASE Surface
  BY <1>5, SurfaceBase
<1>6. CASE CallInner
  BY <1>6, CallInnerBase
<1>7. ASSUME NEW c \in Calls, Ask(c) PROVE Base'
  BY <1>7, AskBase
<1>8. CASE InnerEnds
  BY <1>8, EndCappedBase, RerunBase, ReturnBase DEF InnerEnds
<1> QED BY <1>1, <1>2, <1>3, <1>4, <1>5, <1>6, <1>7, <1>8 DEF Next

LEMMA BaseHolds == Spec => []Base
<1>1. Init => Base
  BY InitBase
<1>2. Base /\ [Next]_vars => Base'
  BY StepBase
<1> QED BY <1>1, <1>2, PTL DEF Spec

-----------------------------------------------------------------------------
(* Decisions.                                                              *)

\* What the inner agent is told of a request is the caller's answer or a rule's.
Justified(a) ==
    IF said[a.id] # "none" THEN a.approved = (said[a.id] # "reject")
    ELSE a.approved /\ call[a.id] \in AutoApproved \cup granted

\* Rules and choices are those that were accepted, in the session and, after the answers
\* of the run, in its copy; and every answer that waits to be sent is justified.
DecisionsInv ==
    /\ stored.rules = granted /\ stored.standing = choices
    /\ run.at = "prepared" =>
          /\ local.rules = stored.rules \cup Ruled(stored.standing, run.reply)
          /\ local.standing = [i \in Ids |-> IF i \in Reply THEN "none" ELSE stored.standing[i]]
    /\ run.at = "inner" => local.rules = stored.rules /\ local.standing = stored.standing
    /\ \A a \in stored.collected : Justified(a)

\* Once the state is saved, the caller's answers and choices are accepted as they were
\* applied to the copy, and what is collected is justified.
LEMMA SavedDecisions ==
    ASSUME Base, DecisionsInv, run.at = "prepared", Accept, call' = call
    PROVE  LET s == Drained(local)
           IN  /\ s.rules = granted' /\ s.standing = choices'
               /\ \A a \in s.collected : Justified(a)'
<1> DEFINE s == Drained(local)
           auto == Standing(local, stored.queued)
<1>1. /\ s \in State /\ s.rules = local.rules /\ s.standing = local.standing
      /\ auto \subseteq Queue
      /\ \A a \in s.collected :
            \/ a \in stored.collected /\ a.id \notin Reply
            \/ a.id \in Reply /\ a.approved = (run.reply[a.id] # "reject")
            \/ a.id \in auto /\ a.approved = TRUE /\ IsAutoApproved(local, a.id)
  BY DrainedFacts
<1> HIDE DEF s, auto
<1>2. /\ local.rules = granted \cup Ruled(choices, run.reply)
      /\ local.standing = [i \in Ids |-> IF i \in Reply THEN "none" ELSE choices[i]]
  BY DEF DecisionsInv
<1>3. local.rules = granted' /\ local.standing = choices'
  BY <1>2 DEF Accept, Ruled, Reply
<1>4. /\ granted \subseteq granted'
      /\ \A i \in Ids : i \notin Reply => said'[i] = said[i]
      /\ \A i \in Reply : said'[i] = run.reply[i] /\ said'[i] # "none"
  BY AcceptFacts
<1>5. ASSUME NEW a \in s.collected PROVE Justified(a)'
  <2>1. a.id \in Ids
    BY <1>1, <1>5, StateFields DEF Answer
  <2>2. CASE a \in stored.collected /\ a.id \notin Reply
    <3>1. Justified(a) /\ said'[a.id] = said[a.id]
      BY <1>4, <2>1, <2>2 DEF DecisionsInv
    <3> QED BY <1>4, <3>1 DEF Justified
  <2>3. CASE a.id \in Reply /\ a.approved = (run.reply[a.id] # "reject")
    BY <1>4, <2>3 DEF Justified
  <2>4. CASE a.id \in auto /\ a.approved = TRUE /\ IsAutoApproved(local, a.id)
    <3>1. a.id \in Queue
      BY <1>1, <2>4
    <3>2. a.id \notin Reply /\ said[a.id] = "none"
      BY <3>1 DEF Base, PlacesInv, ReplyInv
    <3>3. said'[a.id] = "none" /\ call[a.id] \in AutoApproved \cup granted'
      BY <1>3, <1>4, <2>1, <2>4, <3>2 DEF IsAutoApproved
    <3> QED BY <2>4, <3>3 DEF Justified
  <2> QED BY <1>1, <2>2, <2>3, <2>4
<1> QED BY <1>1, <1>3, <1>5 DEF s

\* A batch that is decided: what it collects is justified by a rule.
LEMMA DecidedDecisions ==
    ASSUME Base, DecisionsInv, InnerDone
    PROVE  \A a \in Covers(local, run.batch) : Justified(a)'
<1>1. /\ IdsIn(Covers(local, run.batch)) = Standing(local, run.batch)
      /\ \A a \in Covers(local, run.batch) : a.approved = TRUE /\ IsAutoApproved(local, a.id)
  BY OpenAndCovers, RunFields DEF Base, Typed
<1>2. local.rules = granted /\ run.at = "inner"
  BY InnerDoneFacts DEF DecisionsInv
<1>3. said' = said /\ granted' = granted /\ call' = call
  BY InnerDoneFacts
<1> SUFFICES ASSUME NEW a \in Covers(local, run.batch) PROVE Justified(a)'
  OBVIOUS
<1>4. a.id \in Batch /\ a.approved = TRUE /\ call[a.id] \in AutoApproved \cup granted
  BY <1>1, <1>2 DEF IdsIn, Standing, Batch, IsAutoApproved
<1>5. said[a.id] = "none"
  BY <1>4 DEF Base, BatchInv
<1> QED BY <1>3, <1>4, <1>5 DEF Justified

LEMMA DecisionsStep ==
    ASSUME EarlyChoices = FALSE, Base, DecisionsInv, [Next]_vars
    PROVE  DecisionsInv'
<1>1. CASE UNCHANGED vars
  BY <1>1 DEF vars, agent, caller, history, DecisionsInv, Justified, Reply, Ruled
<1>2. ASSUME NEW i \in asked, NEW scope \in Scopes, AlwaysApprove(i, scope)
      PROVE  DecisionsInv'
  <2>1. /\ stored' = [stored EXCEPT !.standing[i] = scope] /\ run.at = "idle"
        /\ choices' = [choices EXCEPT ![i] = scope]
        /\ call' = call /\ run' = run /\ said' = said /\ granted' = granted
    BY <1>2 DEF AlwaysApprove
  <2>2. stored \in State
    BY DEF Base, Typed, StateOK
  <2>3. /\ stored'.rules = stored.rules /\ stored'.collected = stored.collected
        /\ stored'.standing = [stored.standing EXCEPT ![i] = scope]
    BY <2>1, <2>2, StateIs
  <2>4. stored'.standing = choices'
    BY <2>1, <2>3 DEF DecisionsInv
  <2> QED BY <2>1, <2>3, <2>4 DEF DecisionsInv, Justified
<1>3. ASSUME NEW reply \in Inputs, NEW text \in Messages, Begin(reply, text)
      PROVE  DecisionsInv'
  <2>1. /\ reply \in Replyings /\ DOMAIN reply \subseteq asked \cup retry
        /\ local' = Prepared(stored, reply) /\ stored' = stored
        /\ run'.at = "prepared" /\ run'.reply = reply
        /\ call' = call /\ said' = said /\ choices' = choices /\ granted' = granted
    BY <1>3, BeginFacts
  <2>2. DOMAIN reply \subseteq Minted
    BY <2>1 DEF Base, Typed, CallerOK
  <2>3. /\ local'.rules = stored.rules \cup Ruled(stored.standing, reply)
        /\ local'.standing = [i \in Ids |-> IF i \in DOMAIN reply THEN "none"
                                             ELSE stored.standing[i]]
    BY <2>1, <2>2, PreparedFields DEF Base, Typed, StateOK, CallOK
  <2>4. Ruled(stored.standing, reply)' = Ruled(stored.standing, reply)
    BY <2>1 DEF Ruled
  <2> QED BY <2>1, <2>3, <2>4 DEF DecisionsInv, Justified, Reply, Ruled
<1>4. CASE Abandon
  <2>1. run' = NoRun /\ stored' = stored /\ call' = call /\ said' = said
        /\ choices' = choices /\ granted' = granted
    BY <1>4 DEF Abandon, history
  <2> QED BY <2>1, NothingIs DEF DecisionsInv, Justified
<1>5. CASE Surface
  <2>1. /\ run.at = "prepared" /\ run' = NoRun /\ Accept /\ call' = call
        /\ stored'.collected = Drained(local).collected
        /\ stored'.rules = local.rules /\ stored'.standing = local.standing
    BY <1>5, SurfaceFacts
  <2>2. /\ Drained(local).rules = local.rules /\ Drained(local).standing = local.standing
    BY <2>1, DrainedFacts
  <2> QED BY <2>1, <2>2, SavedDecisions, NothingIs DEF DecisionsInv
<1>6. CASE CallInner
  <2>1. /\ run.at = "prepared" /\ run'.at = "inner" /\ Accept /\ call' = call
        /\ stored' = Drained(local) /\ local'.rules = stored'.rules
        /\ local'.standing = stored'.standing
    BY <1>6, CallInnerFacts
  <2> QED BY <2>1, SavedDecisions DEF DecisionsInv
<1>7. ASSUME NEW c \in Calls, Ask(c) PROVE DecisionsInv'
  <2>1. /\ run.at = "inner" /\ run'.at = "inner" /\ stored' = stored /\ local' = local
        /\ \A i \in Minted : call'[i] = call[i]
        /\ said' = said /\ choices' = choices /\ granted' = granted
    BY <1>7, AskFacts
  <2>2. \A a \in stored.collected : a.id \in Minted
    BY DEF Base, PlacesInv, Done, Collected, IdsIn
  <2> QED BY <2>1, <2>2 DEF DecisionsInv, Justified
<1>8. CASE InnerEnds
  <2>1. InnerDone => /\ run.at = "inner" /\ said' = said /\ choices' = choices
                     /\ granted' = granted /\ local.rules = granted
                     /\ local.standing = choices
    BY InnerDoneFacts DEF DecisionsInv
  <2>2. CASE EndCapped
    <3>1. InnerDone /\ stored' = local /\ run' = NoRun
      BY <2>2, EndCappedFacts
    <3>2. local.collected = {}
      BY <2>1, <3>1 DEF Base, PhaseInv
    <3> QED BY <2>1, <3>1, <3>2, NothingIs DEF DecisionsInv
  <2>3. CASE Rerun
    <3>1. /\ InnerDone /\ stored'.rules = local.rules /\ stored'.standing = local.standing
          /\ stored'.collected = Covers(local, run.batch) /\ run'.at = "inner"
          /\ local'.rules = local.rules /\ local'.standing = local.standing
      BY <2>3, RerunFacts
    <3> QED BY <2>1, <3>1, DecidedDecisions DEF DecisionsInv
  <2>4. ASSUME NEW preserve \in BOOLEAN, Return(preserve) PROVE DecisionsInv'
    <3>1. /\ InnerDone /\ stored'.rules = local.rules /\ stored'.standing = local.standing
          /\ stored'.collected = Covers(local, run.batch) /\ run' = NoRun
      BY <2>4, ReturnFacts
    <3> QED BY <2>1, <3>1, DecidedDecisions, NothingIs DEF DecisionsInv
  <2> QED BY <1>8, <2>2, <2>3, <2>4 DEF InnerEnds
<1> QED BY <1>1, <1>2, <1>3, <1>4, <1>5, <1>6, <1>7, <1>8 DEF Next

\* Nothing is approved, for once or for good, that the caller did not approve: the answers
\* that are sent to the inner agent (inject_collected) are the caller's last or a rule's,
\* and there is a rule (prepare_inbound) exactly for the choices whose approvals have
\* come back.  A choice that is made while a run is going on may be overwritten by that
\* run's copy of the state, hence the hypothesis.
THEOREM DecisionsHold ==
    ASSUME EarlyChoices = FALSE
    PROVE  Spec => []DecisionsAreTheCallers
<1>1. Init => DecisionsInv
  <2> SUFFICES ASSUME Init PROVE DecisionsInv
    OBVIOUS
  <2>1. /\ stored = NoState /\ run = NoRun /\ granted = {}
        /\ choices = [i \in Ids |-> "none"]
    BY DEF Init
  <2>2. NoState.standing = [i \in Ids |-> "none"]
    BY DEF NoState
  <2> QED BY <2>1, <2>2, NothingIs DEF DecisionsInv
<1>2. Base /\ DecisionsInv /\ [Next]_vars => DecisionsInv'
  BY DecisionsStep
<1>3. Base /\ DecisionsInv => DecisionsAreTheCallers
  <2> SUFFICES ASSUME Base, DecisionsInv PROVE DecisionsAreTheCallers
    OBVIOUS
  <2>1. run.sent.answers \subseteq stored.collected
    <3>1. run.at \in {"idle", "prepared", "inner"}
      BY RunFields DEF Base, Typed
    <3>2. run.at # "inner" => run.sent = Nothing
      BY <3>1, NothingIs DEF Base, PhaseInv
    <3> QED BY <3>2, NothingIs DEF Base, PhaseInv
  <2>2. AnswersAreTheCallers
    BY <2>1 DEF DecisionsInv, Justified, AnswersAreTheCallers
  <2>3. RulesAsChosen
    BY DEF DecisionsInv, RulesAsChosen
  <2> QED BY <2>2, <2>3 DEF DecisionsAreTheCallers
<1> QED BY <1>1, <1>2, <1>3, BaseHolds, PTL DEF Spec

-----------------------------------------------------------------------------
(* Places and messages.                                                    *)

\* The messages that the caller has written, in the order of their numbers: those that
\* were heard, and those that are held, come with the run, or were sent by it.
TextInv ==
    /\ heard \in Seq(1..texts) /\ stored.held \in Seq(1..texts)
    /\ Ascending(heard \o stored.held)
    /\ run.at = "prepared" =>
          /\ run.text \in Seq(1..texts) /\ Ascending((heard \o stored.held) \o run.text)
    /\ run.at = "inner" =>
          /\ run.sent.texts \in Seq(1..texts) /\ Ascending(heard \o run.sent.texts)

LEMMA OneMore ==
    ASSUME NEW t \in Nat, NEW s \in Seq(1..t), Ascending(s)
    PROVE  /\ Ascending(s \o <<>>) /\ Ascending(s \o <<t + 1>>)
           /\ s \in Seq(1..(t + 1)) /\ <<>> \in Seq(1..t) /\ <<t + 1>> \in Seq(1..(t + 1))
<1>1. s \o <<>> = s
  BY ConcatEmptySeq
<1> DEFINE a == s \o <<t + 1>>
<1>2. /\ Len(s) \in Nat /\ DOMAIN s = 1..Len(s) /\ DOMAIN a = 1..(Len(s) + 1)
      /\ \A k \in 1..Len(s) : a[k] = s[k] /\ s[k] \in 1..t
      /\ a[Len(s) + 1] = t + 1
  OBVIOUS
<1> HIDE DEF a
<1>3. Ascending(a)
  <2> SUFFICES ASSUME NEW m \in DOMAIN a, NEW n \in DOMAIN a, m < n PROVE a[m] < a[n]
    BY DEF Ascending
  <2>1. m \in 1..Len(s) /\ a[m] = s[m] /\ a[m] \in 1..t
    BY <1>2
  <2>2. CASE n = Len(s) + 1
    BY <1>2, <2>1, <2>2
  <2>3. CASE n # Len(s) + 1
    <3>1. n \in 1..Len(s) /\ a[n] = s[n]
      BY <1>2, <2>3
    <3> QED BY <1>2, <2>1, <3>1 DEF Ascending
  <2> QED BY <2>2, <2>3
<1>4. 1..t \subseteq 1..(t + 1) /\ s \in Seq(1..(t + 1))
  BY <1>2, SeqDef
<1>5. <<>> \in Seq(1..t) /\ <<t + 1>> \in Seq(1..(t + 1))
  OBVIOUS
<1> QED BY <1>1, <1>3, <1>4, <1>5 DEF a

LEMMA TextStep ==
    ASSUME Base, TextInv, [Next]_vars
    PROVE  TextInv'
<1>1. CASE UNCHANGED vars
  BY <1>1 DEF vars, agent, caller, history, TextInv
<1>2. ASSUME NEW i \in asked, NEW scope \in Scopes, AlwaysApprove(i, scope) PROVE TextInv'
  <2>1. /\ stored' = [stored EXCEPT !.standing[i] = scope]
        /\ heard' = heard /\ texts' = texts /\ run' = run
    BY <1>2 DEF AlwaysApprove, caller
  <2>2. stored'.held = stored.held
    BY <2>1, StateIs DEF Base, Typed, StateOK
  <2> QED BY <2>1, <2>2 DEF TextInv
<1>3. ASSUME NEW reply \in Inputs, NEW text \in Messages, Begin(reply, text) PROVE TextInv'
  <2>1. /\ \/ text = <<>> /\ texts' = texts
           \/ text = <<texts + 1>> /\ texts' = texts + 1
        /\ stored' = stored /\ run'.at = "prepared" /\ run'.text = text /\ heard' = heard
    BY <1>3, BeginFacts
  <2> DEFINE w == heard \o stored.held
             h == stored.held
  <2>2. /\ heard \in Seq(1..texts) /\ h \in Seq(1..texts)
        /\ w \in Seq(1..texts) /\ Ascending(w) /\ texts \in Nat
    BY ConcatProperties DEF TextInv, Base, Typed, CallerOK
  <2> HIDE DEF w, h
  <2>3. /\ heard \in Seq(1..(texts + 1)) /\ h \in Seq(1..(texts + 1))
        /\ Ascending(w \o <<>>) /\ Ascending(w \o <<texts + 1>>)
        /\ <<>> \in Seq(1..texts) /\ <<texts + 1>> \in Seq(1..(texts + 1))
    <3>1. h \in Seq(1..(texts + 1)) /\ heard \in Seq(1..(texts + 1))
      BY <2>2, SeqDef
    <3> QED BY <2>2, <3>1, OneMore
  <2>4. /\ heard' \in Seq(1..texts') /\ h \in Seq(1..texts')
        /\ text \in Seq(1..texts') /\ Ascending(w \o text)
    BY <2>1, <2>2, <2>3
  <2> QED BY <2>1, <2>2, <2>4 DEF TextInv, w, h
<1>4. CASE Abandon
  <2>1. run' = NoRun /\ stored' = stored /\ heard' = heard /\ texts' = texts
    BY <1>4 DEF Abandon, history
  <2> QED BY <2>1, NothingIs DEF TextInv
<1>5. ASSUME run.at = "prepared"
      PROVE  /\ stored.held \o run.text \in Seq(1..texts)
             /\ Ascending(heard \o (stored.held \o run.text))
  <2>1. /\ heard \in Seq(1..texts) /\ stored.held \in Seq(1..texts) /\ run.text \in Seq(1..texts)
        /\ Ascending((heard \o stored.held) \o run.text)
    BY <1>5 DEF TextInv
  <2>2. stored.held \o run.text \in Seq(1..texts)
    BY <2>1, ConcatProperties
  <2>3. (heard \o stored.held) \o run.text = heard \o (stored.held \o run.text)
    <3> DEFINE held == stored.held
               text == run.text
    <3>1. heard \in Seq(1..texts) /\ held \in Seq(1..texts) /\ text \in Seq(1..texts)
      BY <2>1
    <3> HIDE DEF held, text
    <3>2. (heard \o held) \o text = heard \o (held \o text)
      BY <3>1, ConcatAssociative
    <3> QED BY <3>2 DEF held, text
  <2> QED BY <2>1, <2>2, <2>3
<1>6. CASE Surface
  <2>1. /\ run.at = "prepared" /\ run' = NoRun /\ stored'.held = stored.held \o run.text
        /\ heard' = heard /\ texts' = texts
    BY <1>6, SurfaceFacts
  <2> QED BY <1>5, <2>1, NothingIs DEF TextInv
<1>7. CASE CallInner
  <2>1. /\ run.at = "prepared" /\ run'.at = "inner" /\ stored' = Drained(local)
        /\ Drained(local).held = stored.held
        /\ run'.sent.texts = stored.held \o run.text
        /\ heard' = heard /\ texts' = texts
    BY <1>7, CallInnerFacts
  <2> QED BY <1>5, <2>1 DEF TextInv
<1>8. ASSUME NEW c \in Calls, Ask(c) PROVE TextInv'
  <2>1. /\ run.at = "inner" /\ run'.at = "inner" /\ stored' = stored
        /\ run'.sent = run.sent /\ heard' = heard /\ texts' = texts
    BY <1>8, AskFacts
  <2> QED BY <2>1 DEF TextInv
<1>9. CASE InnerEnds
  <2>1. InnerDone => /\ heard' = heard \o run.sent.texts /\ texts' = texts
                     /\ run.at = "inner" /\ texts \in Nat
    BY InnerDoneFacts DEF Base, Typed, CallerOK
  <2>2. InnerDone => /\ heard' \in Seq(1..texts') /\ Ascending(heard' \o <<>>)
                     /\ <<>> \in Seq(1..texts')
    <3> SUFFICES ASSUME InnerDone
                 PROVE  /\ heard' \in Seq(1..texts') /\ Ascending(heard' \o <<>>)
                        /\ <<>> \in Seq(1..texts')
      OBVIOUS
    <3>1. heard \in Seq(1..texts) /\ run.sent.texts \in Seq(1..texts) /\ Ascending(heard')
      BY <2>1 DEF TextInv
    <3>2. heard' \in Seq(1..texts) /\ texts \in Nat
      BY <2>1, <3>1, ConcatProperties
    <3> QED BY <2>1, <3>1, <3>2, OneMore
  <2>3. /\ EndCapped => InnerDone /\ stored'.held = <<>> /\ run'.at = "idle"
        /\ Rerun => /\ InnerDone /\ stored'.held = <<>> /\ run'.at = "inner"
                    /\ run'.sent.texts = <<>>
        /\ \A preserve \in BOOLEAN :
              Return(preserve) => InnerDone /\ stored'.held = <<>> /\ run'.at = "idle"
    <3>1. EndCapped => InnerDone /\ stored'.held = <<>> /\ run'.at = "idle"
      BY EndCappedFacts, InnerDoneFacts, NothingIs DEF Base, PhaseInv
    <3> QED BY <3>1, RerunFacts, ReturnFacts, NothingIs
  <2> QED BY <1>9, <2>2, <2>3 DEF InnerEnds, TextInv
<1> QED BY <1>1, <1>2, <1>3, <1>4, <1>6, <1>7, <1>8, <1>9 DEF Next

LEMMA TextHolds == Spec => []TextInv
<1>1. Init => TextInv
  <2> SUFFICES ASSUME Init PROVE TextInv
    OBVIOUS
  <2>1. stored = NoState /\ run = NoRun /\ heard = <<>>
    BY DEF Init
  <2>2. heard \in Seq(1..texts) /\ stored.held = <<>> /\ heard \o stored.held = <<>>
    BY <2>1, NothingIs, ConcatEmptySeq
  <2>3. DOMAIN (heard \o stored.held) = {}
    BY <2>2
  <2> QED BY <2>1, <2>2, <2>3, NothingIs DEF TextInv, Ascending
<1>2. Base /\ TextInv /\ [Next]_vars => TextInv'
  BY TextStep
<1> QED BY <1>1, <1>2, BaseHolds, PTL DEF Spec

LEMMA OneEachCounts ==
    ASSUME NEW A \in SUBSET Answer, OneEach(A)
    PROVE  Cardinality(IdsIn(A)) = Cardinality(A)
<1>1. IsFiniteSet(Ids)
  BY ConfigAssumption, FS_Interval DEF Ids
<1>2. IsFiniteSet(IdsIn(A))
  BY <1>1, IdsInIds, FS_Subset
<1> DEFINE f == [i \in IdsIn(A) |-> CHOOSE a \in A : a.id = i]
<1>3. \A i \in IdsIn(A) : f[i] \in A /\ f[i].id = i
  BY DEF IdsIn
<1>4. f \in Bijection(IdsIn(A), A)
  <2>1. f \in [IdsIn(A) -> A]
    BY <1>3
  <2>2. \A i, j \in IdsIn(A) : f[i] = f[j] => i = j
    <3> HIDE DEF f
    <3> QED BY <1>3, Zenon
  <2>3. \A a \in A : \E i \in IdsIn(A) : f[i] = a
    <3>1. \A a \in A : a.id \in IdsIn(A)
      BY DEF IdsIn
    <3> HIDE DEF f
    <3> QED BY <1>3, <3>1 DEF OneEach
  <2> HIDE DEF f
  <2> QED BY <2>1, <2>2, <2>3 DEF Bijection, Injection, Surjection, IsInjective
<1>5. ExistsBijection(IdsIn(A), A)
  BY <1>4 DEF ExistsBijection
<1> QED BY <1>2, <1>5, FS_Bijection

\* The state and the histories have their types, and of a request one answer is collected.
THEOREM TypeCorrect == Spec => []TypeOK
<1>1. Base /\ TextInv => TypeOK
  <2> SUFFICES ASSUME Base, TextInv PROVE TypeOK
    OBVIOUS
  <2>1. call \in Seq(Calls) /\ Len(call) <= MaxRequests
    BY ConfigAssumption DEF Base, Typed, CallOK, CallSeqs
  <2>2. run \in Run
    BY DEF Base, Typed, RunOK, Runs, Run, Replyings, TextSeqs, IdSeqs
  <2>3. Cardinality(IdsIn(stored.collected)) = Cardinality(stored.collected)
    BY OneEachCounts, StateFields DEF Base, Typed, StateOK, PlacesInv
  <2>4. asked \cup retry \cup lost \cup whole \subseteq Minted
    BY DEF Base, Typed, CallerOK, HistoryOK
  <2>5. /\ stored \in State /\ local \in State
        /\ texts \in 0..MaxTexts /\ failures \in 0..MaxFailures
    BY DEF Base, Typed, StateOK, CallerOK
  <2>6. /\ turn \in [Ids -> Minted \cup {0}]
        /\ said \in [Ids -> Replies \cup {"none"}] /\ choices \in [Ids -> Scopes]
        /\ granted \subseteq Calls /\ delivered \subseteq Answer /\ skipped \in BOOLEAN
        /\ heard \in Seq(1..texts)
    BY DEF Base, Typed, HistoryOK, TextInv
  <2> QED BY <2>1, <2>2, <2>3, <2>4, <2>5, <2>6 DEF TypeOK
<1> QED BY <1>1, BaseHolds, TextHolds, PTL

\* Between runs every request of a completed turn is in exactly one place, with the caller,
\* queued, answered, or lost with a stream, and every message of the caller was heard or is
\* held, once and in its order, however runs fail, are dropped and are repeated (save_state
\* before the inner agent is called and again when it has answered).
THEOREM NothingIsLostOrDoubled == Spec => []AccountedFor
<1>1. Base /\ TextInv => AccountedFor
  <2> SUFFICES ASSUME Base, TextInv PROVE AccountedFor
    OBVIOUS
  <2> DEFINE places == <<asked, InSeq(stored.queued), lost,
                         IdsIn(stored.collected \cup delivered)>>
             in(i) == {p \in 1..4 : i \in places[p]}
  <2>1. /\ places[1] = asked /\ places[2] = Queue /\ places[3] = lost /\ places[4] = Done
    BY IdsOfUnion DEF Queue, Done, Collected, Delivered
  <2>2. /\ asked \cap (Queue \cup lost \cup Done) = {}
        /\ Queue \cap (lost \cup Done) = {} /\ lost \cap Done = {}
        /\ Completed \subseteq asked \cup Queue \cup lost \cup Done
    BY DEF Base, PlacesInv
  <2>3. ASSUME NEW i \in Completed PROVE Cardinality(in(i)) = 1
    <3> HIDE DEF places
    <3>1. \E p \in 1..4 : in(i) = {p}
      <4>1. CASE i \in asked
        <5>1. in(i) = {1}
          BY <2>1, <2>2, <4>1
        <5> QED BY <5>1
      <4>2. CASE i \in Queue
        <5>1. in(i) = {2}
          BY <2>1, <2>2, <4>2
        <5> QED BY <5>1
      <4>3. CASE i \in lost
        <5>1. in(i) = {3}
          BY <2>1, <2>2, <4>3
        <5> QED BY <5>1
      <4>4. CASE i \in Done
        <5>1. in(i) = {4}
          BY <2>1, <2>2, <4>4
        <5> QED BY <5>1
      <4> QED BY <2>2, <4>1, <4>2, <4>3, <4>4
    <3> HIDE DEF in
    <3> QED BY <3>1, FS_Singleton
  <2>4. \A m, n \in DOMAIN (heard \o stored.held) :
           m < n => (heard \o stored.held)[m] < (heard \o stored.held)[n]
    BY DEF TextInv, Ascending
  <2> QED BY <2>3, <2>4 DEF AccountedFor
<1> QED BY <1>1, BaseHolds, TextHolds, PTL

-----------------------------------------------------------------------------
(* One by one, then together.                                              *)

\* A turn is named by one of its own requests.
NamedInv == \A i \in Completed : turn[i] \in Minted /\ turn[turn[i]] = turn[i]

\* Of a turn all answers are delivered or none, and all are sent or none; and all that the
\* caller was asked it answers before the inner agent is called, if it skips nothing.
SentInv ==
    \A i \in IdsIn(run.sent.answers) \ Delivered : \A j \in Completed \ lost :
       turn[j] = turn[i] => j \in IdsIn(run.sent.answers)
TurnInv ==
    /\ run.at = "prepared" => asked \subseteq Reply
    /\ run.at = "inner" => asked \subseteq whole
    /\ \A i, j \in asked \ whole : i = j
    /\ \A i \in Delivered, j \in Completed \ lost : turn[j] = turn[i] => j \in Delivered
    /\ SentInv
TogetherInv == NamedInv /\ (skipped \/ TurnInv)

\* A turn that is completed now is not one that was completed before.
LEMMA TurnsApart ==
    ASSUME Base, NamedInv, InnerDone
    PROVE  /\ NamedInv'
           /\ \A i \in Minted \ Batch, j \in Minted : turn'[j] = turn'[i] /\ turn'[j] # 0 =>
                 j \notin Batch /\ turn[i] = turn'[i] /\ turn[j] = turn'[j]
<1>1. /\ \A i \in Ids \ Batch : turn'[i] = turn[i]
      /\ \A i \in Batch : turn'[i] = Head(run.batch)
      /\ Batch # {} => Head(run.batch) \in Batch
      /\ Batch \subseteq Minted /\ Completed' = Completed \cup Batch /\ Minted' = Minted
  BY InnerDoneFacts
<1>2. /\ \A i \in Batch : turn[i] = 0 /\ i # 0
      /\ Minted \subseteq Ids
  BY MintedIsIds DEF Base, Typed, BatchInv
<1>3. \A i \in Completed : i \in Minted /\ turn[i] \in Minted \ Batch /\ turn[turn[i]] = turn[i]
  BY <1>2 DEF NamedInv, Completed
<1>4. Completed \cap Batch = {}
  BY <1>2 DEF Completed
<1>5. NamedInv'
  <2> SUFFICES ASSUME NEW i \in Completed' PROVE turn'[i] \in Minted' /\ turn'[turn'[i]] = turn'[i]
    BY DEF NamedInv
  <2>1. CASE i \in Batch
    BY <1>1, <2>1
  <2>2. CASE i \in Completed
    <3>1. turn'[i] = turn[i] /\ turn'[turn[i]] = turn[turn[i]]
      BY <1>1, <1>2, <1>3, <1>4, <2>2
    <3> QED BY <1>1, <1>3, <2>2, <3>1
  <2> QED BY <1>1, <2>1, <2>2
<1>6. ASSUME NEW i \in Minted \ Batch, NEW j \in Minted, turn'[j] = turn'[i], turn'[j] # 0
      PROVE  j \notin Batch /\ turn[i] = turn'[i] /\ turn[j] = turn'[j]
  <2>1. turn[i] = turn'[i] /\ i \in Completed
    BY <1>1, <1>2, <1>6 DEF Completed
  <2>2. turn'[j] \notin Batch
    BY <1>3, <1>6, <2>1
  <2>3. j \notin Batch
    BY <1>1, <2>2
  <2> QED BY <1>1, <1>2, <2>1, <2>3
<1> QED BY <1>5, <1>6

\* When an inner run has ended, turns are delivered whole.
LEMMA DeliveredWhole ==
    ASSUME Base, NamedInv, TurnInv, InnerDone, lost \subseteq lost'
    PROVE  \A i \in Delivered', j \in (Completed \ lost)' :
              turn'[j] = turn'[i] => j \in Delivered'
<1>1. /\ run.at = "inner" /\ Batch \subseteq Minted /\ Completed' = Completed \cup Batch
      /\ Delivered' = Delivered \cup Collected /\ Minted' = Minted
  BY InnerDoneFacts
<1>2. /\ Done \subseteq Minted /\ Batch \cap Done = {}
      /\ IdsIn(run.sent.answers) = Collected
  BY <1>1 DEF Base, PhaseInv, PlacesInv, BatchInv, Collected
<1> SUFFICES ASSUME NEW i \in Delivered', NEW j \in (Completed \ lost)', turn'[j] = turn'[i]
             PROVE  j \in Delivered'
  OBVIOUS
<1>3. i \in Done /\ i \in Minted \ Batch /\ j \in Minted /\ j \notin lost /\ turn'[j] # 0
  BY <1>1, <1>2 DEF Done, Completed
<1>4. j \notin Batch /\ turn[i] = turn[j]
  BY <1>3, TurnsApart
<1>5. j \in Completed \ lost
  BY <1>1, <1>3, <1>4
<1>6. CASE i \in Delivered
  BY <1>1, <1>4, <1>5, <1>6 DEF TurnInv
<1>7. CASE i \notin Delivered
  BY <1>1, <1>2, <1>3, <1>4, <1>5, <1>7 DEF TurnInv, SentInv, Done
<1> QED BY <1>6, <1>7

LEMMA NothingSent ==
    ASSUME run' = NoRun
    PROVE  SentInv' /\ run'.at = "idle"
BY NothingIs DEF SentInv, IdsIn

LEMMA TogetherStep ==
    ASSUME Base, TogetherInv, [Next]_vars
    PROVE  TogetherInv'
<1>1. CASE UNCHANGED vars
  BY <1>1 DEF vars, agent, caller, history, TogetherInv, NamedInv, TurnInv, SentInv, Completed,
     Delivered, Reply, Minted
<1>2. ASSUME NEW i \in asked, NEW scope \in Scopes, AlwaysApprove(i, scope) PROVE TogetherInv'
  BY <1>2 DEF AlwaysApprove, caller, TogetherInv, NamedInv, TurnInv, SentInv, Completed,
     Delivered, Reply, Minted
<1>3. ASSUME NEW reply \in Inputs, NEW text \in Messages, Begin(reply, text) PROVE TogetherInv'
  <2>1. /\ run'.at = "prepared" /\ run'.reply = reply /\ run'.sent = Nothing
        /\ call' = call /\ turn' = turn /\ asked' = asked /\ lost' = lost /\ whole' = whole
        /\ delivered' = delivered /\ skipped' = (skipped \/ ~ asked \subseteq DOMAIN reply)
    BY <1>3, BeginFacts
  <2>2. IdsIn(run'.sent.answers) = {}
    BY <2>1, NothingIs DEF IdsIn
  <2>3. NamedInv' /\ Completed' = Completed /\ Delivered' = Delivered
    BY <2>1 DEF TogetherInv, NamedInv, Completed, Minted, Delivered
  <2>4. SentInv'
    BY <2>2 DEF SentInv
  <2>5. skipped' \/ TurnInv'
    BY <2>1, <2>3, <2>4 DEF TogetherInv, TurnInv, Reply
  <2> QED BY <2>3, <2>5 DEF TogetherInv
<1>4. CASE Abandon
  <2>1. /\ run' = NoRun /\ call' = call /\ turn' = turn /\ asked' = asked /\ lost' = lost
        /\ whole' = whole /\ delivered' = delivered /\ skipped' = skipped
    BY <1>4 DEF Abandon, history
  <2>2. NamedInv' /\ Completed' = Completed /\ Delivered' = Delivered
    BY <2>1 DEF TogetherInv, NamedInv, Completed, Minted, Delivered
  <2>3. skipped' \/ TurnInv'
    BY <2>1, <2>2, NothingSent DEF TogetherInv, TurnInv
  <2> QED BY <2>2, <2>3 DEF TogetherInv
<1>5. CASE Surface
  <2> DEFINE h == Head(Drained(local).queued)
  <2>1. /\ run.at = "prepared" /\ run' = NoRun
        /\ asked' \subseteq (asked \ Reply) \cup {h} /\ lost \subseteq lost'
        /\ call' = call /\ turn' = turn /\ whole' = whole /\ delivered' = delivered
        /\ skipped' = skipped
    BY <1>5, SurfaceFacts
  <2> HIDE DEF h
  <2>2. NamedInv' /\ Completed' = Completed /\ Delivered' = Delivered
    BY <2>1 DEF TogetherInv, NamedInv, Completed, Minted, Delivered
  <2>3. skipped' \/ TurnInv'
    BY <2>1, <2>2, NothingSent DEF TogetherInv, TurnInv
  <2> QED BY <2>2, <2>3 DEF TogetherInv
<1>6. CASE CallInner
  <2>1. /\ run.at = "prepared" /\ run'.at = "inner"
        /\ run'.sent.answers = Drained(local).collected /\ stored' = Drained(local)
        /\ Drained(local).queued = <<>>
        /\ asked' = asked \ Reply /\ call' = call /\ turn' = turn /\ delivered' = delivered
        /\ lost' = lost /\ whole' = whole /\ skipped' = skipped
    BY <1>6, CallInnerFacts
  <2>2. /\ NamedInv' /\ Completed' = Completed /\ Delivered' = Delivered
        /\ IdsIn(run'.sent.answers) = Collected' /\ Minted' = Minted
    BY <2>1 DEF TogetherInv, NamedInv, Completed, Minted, Delivered, Collected
  <2>3. PlacesInv' /\ Queue' = {}
    BY <1>6, <2>1, CallInnerBase, EmptyInSeq DEF Base, Queue
  <2>4. ASSUME TurnInv PROVE TurnInv'
    <3>1. asked' = {}
      BY <2>1, <2>4 DEF TurnInv
    <3>2. /\ Completed' \subseteq lost' \cup Collected' \cup Delivered'
          /\ Collected' \cap lost' = {} /\ Collected' \subseteq Minted'
      BY <2>3, <3>1 DEF PlacesInv, Done
    <3>3. ASSUME NEW i \in Collected' \ Delivered', NEW j \in Completed' \ lost',
                 turn'[j] = turn'[i]
          PROVE  j \in Collected'
      <4>1. i \in Completed \ lost
        BY <2>1, <2>2, <3>2, <3>3 DEF Completed
      <4>2. j \notin Delivered
        BY <2>1, <2>2, <2>4, <3>3, <4>1 DEF TurnInv
      <4> QED BY <2>2, <3>2, <3>3, <4>2
    <3>4. SentInv'
      BY <2>2, <3>3 DEF SentInv
    <3> QED BY <2>1, <2>2, <2>4, <3>1, <3>4 DEF TurnInv
  <2> QED BY <2>1, <2>2, <2>4 DEF TogetherInv
<1>7. ASSUME NEW c \in Calls, Ask(c) PROVE TogetherInv'
  <2> DEFINE n == Len(call) + 1
  <2>1. /\ run.at = "inner" /\ run'.at = "inner" /\ run'.sent = run.sent
        /\ n \in Ids /\ n \notin Minted /\ Minted' = Minted \cup {n}
        /\ IF Streaming /\ Capped
           THEN asked' = asked \cup {n} /\ whole' = whole \cup {n}
           ELSE asked' = asked /\ whole' = whole
        /\ turn' = turn /\ delivered' = delivered /\ lost' = lost /\ skipped' = skipped
    BY <1>7, AskFacts
  <2> HIDE DEF n
  <2>2. turn[n] = 0
    BY <2>1 DEF Base, ReplyInv
  <2>3. Completed' = Completed /\ Delivered' = Delivered
    BY <2>1, <2>2 DEF Completed, Delivered
  <2>4. NamedInv'
    BY <2>1, <2>3 DEF TogetherInv, NamedInv
  <2>5. TurnInv => TurnInv'
    <3>1. SentInv => SentInv'
      BY <2>1, <2>3 DEF SentInv
    <3> QED BY <2>1, <2>3, <3>1 DEF TurnInv
  <2> QED BY <2>1, <2>4, <2>5 DEF TogetherInv
<1>8. CASE InnerEnds
  <2>1. InnerDone => NamedInv' /\ skipped' = skipped /\ run.at = "inner"
    BY TurnsApart, InnerDoneFacts DEF TogetherInv
  <2>2. CASE EndCapped
    <3>1. /\ InnerDone /\ run' = NoRun /\ lost' = lost
          /\ asked' = asked \cup Batch /\ whole' = whole \cup Batch
      BY <2>2, EndCappedFacts
    <3>2. TurnInv => TurnInv'
      BY <2>1, <3>1, DeliveredWhole, NothingSent DEF TogetherInv, TurnInv
    <3> QED BY <2>1, <3>1, <3>2 DEF TogetherInv
  <2>3. ASSUME NEW preserve \in BOOLEAN, Return(preserve) PROVE TogetherInv'
    <3> DEFINE kept == Kept(local, run.batch, preserve)
    <3>1. /\ InnerDone /\ run' = NoRun /\ lost \subseteq lost'
          /\ asked' \subseteq asked \cup kept /\ kept \subseteq Batch
          /\ whole' = IF preserve THEN whole \cup Batch ELSE whole
          /\ preserve \/ \A i, j \in kept : i = j
      BY <2>3, ReturnFacts
    <3> HIDE DEF kept
    <3>2. TurnInv => TurnInv'
      BY <2>1, <3>1, DeliveredWhole, NothingSent DEF TogetherInv, TurnInv
    <3> QED BY <2>1, <3>1, <3>2 DEF TogetherInv
  <2>4. CASE Rerun
    <3>1. /\ InnerDone /\ run'.at = "inner" /\ run'.sent.answers = stored'.collected
          /\ stored'.collected = Covers(local, run.batch) /\ Standing(local, run.batch) = Batch
          /\ asked' = asked /\ lost' = lost /\ whole' = whole
      BY <2>4, RerunFacts
    <3>2. IdsIn(run'.sent.answers) = Batch
      <4>1. IdsIn(Covers(local, run.batch)) = Standing(local, run.batch)
        BY OpenAndCovers, RunFields DEF Base, Typed
      <4> QED BY <3>1, <4>1
    <3>3. SentInv'
      <4>1. /\ \A i \in Ids \ Batch : turn'[i] = turn[i]
            /\ \A i \in Batch : turn'[i] = Head(run.batch)
            /\ Batch # {} => Head(run.batch) \in Batch
            /\ Completed' = Completed \cup Batch /\ Minted' = Minted /\ Batch \subseteq Minted
        BY <3>1, InnerDoneFacts
      <4> SUFFICES ASSUME NEW i \in Batch, NEW j \in Completed', turn'[j] = turn'[i]
                   PROVE  j \in Batch
        BY <3>2 DEF SentInv
      <4>2. ASSUME j \notin Batch PROVE FALSE
        <5>1. j \in Minted \ Batch /\ i \in Minted /\ turn'[i] # 0
          BY <4>1, <4>2 DEF Completed
        <5> QED BY <3>1, <5>1, TurnsApart DEF TogetherInv
      <4> QED BY <4>2
    <3>4. TurnInv => TurnInv'
      BY <2>1, <3>1, <3>3, DeliveredWhole DEF TogetherInv, TurnInv
    <3> QED BY <2>1, <3>1, <3>4 DEF TogetherInv
  <2> QED BY <1>8, <2>2, <2>3, <2>4 DEF InnerEnds
<1> QED BY <1>1, <1>2, <1>3, <1>4, <1>5, <1>6, <1>7, <1>8 DEF Next

\* A caller that answers what it is asked is asked about one call at a time, but for a turn
\* that is shown whole, and the requests of one turn are answered in one message to the
\* inner agent (decide, drain_queue): of the rest of a batch nothing is sent while one of
\* it is with the caller or queued.
THEOREM AskedOneByOne == Spec => []OneByOneThenTogether
<1>1. Init => TogetherInv
  <2> SUFFICES ASSUME Init PROVE TogetherInv
    OBVIOUS
  <2>1. /\ call = <<>> /\ turn = [i \in Ids |-> 0] /\ asked = {} /\ delivered = {} /\ run = NoRun
    BY DEF Init
  <2>2. Completed = {} /\ Delivered = {} /\ IdsIn(run.sent.answers) = {} /\ run.at = "idle"
    BY <2>1, NothingIs DEF Completed, Minted, Delivered, IdsIn
  <2> QED BY <2>1, <2>2 DEF TogetherInv, NamedInv, TurnInv, SentInv
<1>2. Base /\ TogetherInv /\ [Next]_vars => TogetherInv'
  BY TogetherStep
<1>3. Base /\ TogetherInv => OneByOneThenTogether
  <2> SUFFICES ASSUME Base, TogetherInv PROVE OneByOneThenTogether
    OBVIOUS
  <2>1. OneAtATime
    <3>1. ASSUME ~ skipped PROVE Cardinality(asked \ whole) <= 1
      <4>1. \A i, j \in asked \ whole : i = j
        BY <3>1 DEF TogetherInv, TurnInv
      <4>2. CASE asked \ whole = {}
        BY <4>2, FS_EmptySet
      <4>3. CASE asked \ whole # {}
        <5>1. \E i : asked \ whole = {i}
          BY <4>1, <4>3
        <5> QED BY <5>1, FS_Singleton
      <4> QED BY <4>2, <4>3
    <3> QED BY <3>1 DEF OneAtATime
  <2>2. BatchSentTogether
    BY DEF TogetherInv, TurnInv, SentInv, BatchSentTogether, Delivered
  <2> QED BY <2>1, <2>2 DEF OneByOneThenTogether
<1> QED BY <1>1, <1>2, <1>3, BaseHolds, PTL DEF Spec
=============================================================================
