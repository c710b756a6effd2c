------------------------- MODULE ConversationProofs -------------------------
(***************************************************************************)
(* For every agent, caller and conversation: what the history keeps and    *)
(* what compaction leaves.                                                 *)
(***************************************************************************)
EXTENDS Conversation, SequenceTheorems, FiniteSetTheorems, WellFoundedInduction, TLAPS

-----------------------------------------------------------------------------
(* Numbers.                                                                *)

\* A set of numbers that has 0, and with a number the next one, has them all.
LEMMA SetInduction ==
    ASSUME NEW S \in SUBSET Nat, 0 \in S, \A n \in S : n + 1 \in S
    PROVE  S = Nat
<1> DEFINE Less == {ss \in Nat \X Nat : ss[1] < ss[2]}
<1>1. IsWellFoundedOn(Less, Nat)
  BY NatLessThanWellFounded DEF OpToRel
<1>2. ASSUME Nat \ S # {} PROVE FALSE
  <2> DEFINE Rest == Nat \ S
  <2>1. Rest \subseteq Nat /\ Rest # {}
    BY <1>2
  <2>2. PICK x \in Rest : \A y \in Rest : ~ (<<y, x>> \in Less)
    <3> HIDE DEF Less, Rest
    <3> QED BY <1>1, <2>1, WFMin
  <2>3. x \in Nat /\ x # 0 /\ x - 1 \in Nat /\ x = (x - 1) + 1
    OBVIOUS
  <2>4. x - 1 \notin S
    BY <2>3
  <2>5. <<x - 1, x>> \in Less
    BY <2>3
  <2> QED BY <2>2, <2>3, <2>4, <2>5
<1> QED BY <1>2

\* The same up to m.
LEMMA Upto ==
    ASSUME NEW m \in Nat, NEW S, 0 \in S, \A n \in 0 .. m - 1 : n \in S => n + 1 \in S
    PROVE  \A n \in 0 .. m : n \in S
<1> DEFINE Good == {n \in Nat : n <= m => n \in S}
<1>1. Good \in SUBSET Nat /\ 0 \in Good
  OBVIOUS
<1>2. ASSUME NEW n \in Good PROVE n + 1 \in Good
  OBVIOUS
<1>3. Good = Nat
  <2> HIDE DEF Good
  <2> QED BY <1>1, <1>2, SetInduction
<1> QED BY <1>3

\* The maximum of a set is the element it has no greater one than.
LEMMA MaxIs ==
    ASSUME NEW S, NEW x \in S, S \subseteq Int, \A y \in S : y <= x
    PROVE  Max(S) = x
<1> DEFINE m == CHOOSE z \in S : \A y \in S : z >= y
<1>1. \A y \in S : x >= y
  OBVIOUS
<1>2. m \in S /\ \A y \in S : m >= y
  BY <1>1
<1>3. m = x
  <2> HIDE DEF m
  <2>1. m >= x /\ x >= m /\ m \in Int /\ x \in Int
    BY <1>1, <1>2
  <2> QED BY <2>1
<1> QED BY <1>3 DEF Max

\* A nonempty set of numbers with a bound has its maximum.
LEMMA MaxOf ==
    ASSUME NEW b \in Nat, NEW S \in SUBSET (0 .. b), S # {}
    PROVE  Max(S) \in S /\ \A y \in S : y <= Max(S)
<1> DEFINE Good == {n \in 0 .. b : S \subseteq 0 .. n => \E x \in S : \A y \in S : y <= x}
<1>1. 0 \in Good
  <2>1. ASSUME S \subseteq 0 .. 0 PROVE S = {0}
    <3>1. 0 .. 0 = {0}
      OBVIOUS
    <3> QED BY <2>1, <3>1
  <2> QED BY <2>1
<1>2. ASSUME NEW n \in 0 .. b - 1, n \in Good PROVE n + 1 \in Good
  <2> SUFFICES ASSUME S \subseteq 0 .. n + 1 PROVE \E x \in S : \A y \in S : y <= x
    OBVIOUS
  <2>1. CASE n + 1 \in S
    BY <2>1
  <2>2. CASE n + 1 \notin S
    <3>1. S \subseteq 0 .. n
      BY <2>2
    <3> QED BY <1>2, <3>1
  <2> QED BY <2>1, <2>2
<1>3. b \in Good
  <2> HIDE DEF Good
  <2>1. \A n \in 0 .. b : n \in Good
    BY <1>1, <1>2, Upto
  <2> QED BY <2>1
<1>4. PICK x \in S : \A y \in S : y <= x
  BY <1>3
<1>5. Max(S) = x
  <2>1. S \subseteq Int
    OBVIOUS
  <2> QED BY <1>4, <2>1, MaxIs
<1> QED BY <1>4, <1>5

-----------------------------------------------------------------------------
(* Sequences.                                                              *)

\* What a part of a list holds.
LEMMA SubSeqIs ==
    ASSUME NEW T, NEW s \in Seq(T), NEW a \in Nat \ {0}, NEW b \in 0 .. Len(s), a <= b + 1
    PROVE  /\ SubSeq(s, a, b) \in Seq(T) /\ Len(SubSeq(s, a, b)) = b - a + 1
           /\ \A i \in 1 .. b - a + 1 : SubSeq(s, a, b)[i] = s[a + i - 1]
<1>1. \A i \in a .. b : s[i] \in T
  OBVIOUS
<1> QED BY <1>1, SubSeqProperties

\* What the last n of a list are.
LEMMA LastNIs ==
    ASSUME NEW T, NEW s \in Seq(T), NEW n \in 0 .. Len(s)
    PROVE  /\ LastN(s, n) \in Seq(T) /\ Len(LastN(s, n)) = n
           /\ \A i \in 1 .. n : LastN(s, n)[i] = s[Len(s) - n + i]
<1>1. Len(s) \in Nat /\ Len(s) - n + 1 \in Nat \ {0} /\ Len(s) \in 0 .. Len(s)
  OBVIOUS
<1>2. /\ SubSeq(s, Len(s) - n + 1, Len(s)) \in Seq(T)
      /\ Len(SubSeq(s, Len(s) - n + 1, Len(s))) = Len(s) - (Len(s) - n + 1) + 1
      /\ \A i \in 1 .. Len(s) - (Len(s) - n + 1) + 1 :
           SubSeq(s, Len(s) - n + 1, Len(s))[i] = s[(Len(s) - n + 1) + i - 1]
  BY <1>1, SubSeqIs
<1>3. /\ Len(s) - (Len(s) - n + 1) + 1 = n
      /\ \A i \in 1 .. n : (Len(s) - n + 1) + i - 1 = Len(s) - n + i
  BY <1>1
<1> QED BY <1>2, <1>3 DEF LastN

\* The last n of s, and t behind: the last of s and t together.
LEMMA LastNConcat ==
    ASSUME NEW T, NEW s \in Seq(T), NEW t \in Seq(T), NEW n \in 0 .. Len(s)
    PROVE  LastN(s, n) \o t = LastN(s \o t, n + Len(t))
<1> DEFINE a == LastN(s, n) \o t
           b == LastN(s \o t, n + Len(t))
<1>1. /\ s \o t \in Seq(T) /\ Len(s \o t) = Len(s) + Len(t)
      /\ \A i \in 1 .. Len(s) + Len(t) :
           (s \o t)[i] = IF i <= Len(s) THEN s[i] ELSE t[i - Len(s)]
  BY ConcatProperties
<1>2. /\ LastN(s, n) \in Seq(T) /\ Len(LastN(s, n)) = n
      /\ \A i \in 1 .. n : LastN(s, n)[i] = s[Len(s) - n + i]
  BY LastNIs
<1>3. /\ a \in Seq(T) /\ Len(a) = n + Len(t)
      /\ \A i \in 1 .. n + Len(t) :
           a[i] = IF i <= n THEN LastN(s, n)[i] ELSE t[i - n]
  <2> DEFINE l == LastN(s, n)
  <2>1. l \in Seq(T) /\ Len(l) = n
    BY <1>2
  <2> HIDE DEF l
  <2>2. /\ l \o t \in Seq(T) /\ Len(l \o t) = Len(l) + Len(t)
        /\ \A i \in 1 .. Len(l) + Len(t) : (l \o t)[i] = IF i <= Len(l) THEN l[i] ELSE t[i - Len(l)]
    BY <2>1, ConcatProperties
  <2> QED BY <2>1, <2>2 DEF l
<1>4. Len(s) \in Nat /\ Len(t) \in Nat /\ n + Len(t) \in 0 .. Len(s \o t)
  BY <1>1
<1>5. /\ b \in Seq(T) /\ Len(b) = n + Len(t)
      /\ \A i \in 1 .. n + Len(t) : b[i] = (s \o t)[Len(s \o t) - (n + Len(t)) + i]
  <2> DEFINE u == s \o t
             m == n + Len(t)
  <2>1. u \in Seq(T) /\ m \in 0 .. Len(u)
    BY <1>1, <1>4
  <2> HIDE DEF u, m
  <2>2. /\ LastN(u, m) \in Seq(T) /\ Len(LastN(u, m)) = m
        /\ \A i \in 1 .. m : LastN(u, m)[i] = u[Len(u) - m + i]
    BY <2>1, LastNIs
  <2> QED BY <2>2 DEF u, m
<1> HIDE DEF a, b
<1>6. \A i \in 1 .. n + Len(t) : a[i] = b[i]
  <2> TAKE i \in 1 .. n + Len(t)
  <2>1. b[i] = (s \o t)[Len(s) - n + i] /\ Len(s) - n + i \in 1 .. Len(s) + Len(t)
    <3>1. Len(s \o t) = Len(s) + Len(t)
      BY <1>1
    <3>2. b[i] = (s \o t)[Len(s \o t) - (n + Len(t)) + i]
      BY <1>5
    <3>3. (Len(s) + Len(t)) - (n + Len(t)) + i = Len(s) - n + i
      BY <1>4
    <3> QED BY <1>4, <3>1, <3>2, <3>3
  <2>2. CASE i <= n
    BY <1>1, <1>2, <1>3, <1>4, <2>1, <2>2
  <2>3. CASE i > n
    <3>1. (s \o t)[Len(s) - n + i] = t[(Len(s) - n + i) - Len(s)] /\ (Len(s) - n + i) - Len(s) = i - n
      BY <1>1, <1>4, <2>1, <2>3
    <3> QED BY <1>3, <1>4, <2>1, <2>3, <3>1
  <2> QED BY <1>4, <2>2, <2>3
<1>7. a = b
  BY <1>3, <1>5, <1>6, SeqEqual
<1> QED BY <1>7 DEF a, b

\* The last n of the last m.
LEMMA LastNLastN ==
    ASSUME NEW T, NEW s \in Seq(T), NEW m \in 0 .. Len(s), NEW n \in 0 .. m
    PROVE  LastN(LastN(s, m), n) = LastN(s, n)
<1> DEFINE l == LastN(s, m)
           a == LastN(l, n)
           b == LastN(s, n)
<1>1. Len(s) \in Nat /\ n \in 0 .. Len(s)
  OBVIOUS
<1>2. l \in Seq(T) /\ Len(l) = m /\ \A i \in 1 .. m : l[i] = s[Len(s) - m + i]
  BY LastNIs
<1>3. b \in Seq(T) /\ Len(b) = n /\ \A i \in 1 .. n : b[i] = s[Len(s) - n + i]
  BY <1>1, LastNIs
<1> HIDE DEF l, b
<1>4. a \in Seq(T) /\ Len(a) = n /\ \A i \in 1 .. n : a[i] = l[m - n + i]
  <2>1. l \in Seq(T) /\ n \in 0 .. Len(l)
    BY <1>2
  <2>2. /\ LastN(l, n) \in Seq(T) /\ Len(LastN(l, n)) = n
        /\ \A i \in 1 .. n : LastN(l, n)[i] = l[Len(l) - n + i]
    BY <2>1, LastNIs
  <2> QED BY <1>2, <2>2
<1> HIDE DEF a
<1>5. \A i \in 1 .. n : a[i] = b[i]
  <2> TAKE i \in 1 .. n
  <2>1. m - n + i \in 1 .. m /\ Len(s) - m + (m - n + i) = Len(s) - n + i
    BY <1>1
  <2>2. l[m - n + i] = s[Len(s) - m + (m - n + i)]
    BY <1>2, <2>1
  <2>3. b[i] = s[Len(s) - n + i] /\ a[i] = l[m - n + i]
    BY <1>3, <1>4
  <2> QED BY <2>1, <2>2, <2>3
<1>6. a = b
  BY <1>3, <1>4, <1>5, SeqEqual
<1> QED BY <1>6 DEF a, b, l

\* The last of a list, all of them, are the list.
LEMMA LastNAll ==
    ASSUME NEW T, NEW s \in Seq(T)
    PROVE  LastN(s, Len(s)) = s /\ LastN(s, 0) = <<>>
<1>1. Len(s) \in 0 .. Len(s) /\ 0 \in 0 .. Len(s)
  OBVIOUS
<1>2. LastN(s, Len(s)) = s
  <2> DEFINE a == LastN(s, Len(s))
  <2>1. a \in Seq(T) /\ Len(a) = Len(s) /\ \A i \in 1 .. Len(s) : a[i] = s[Len(s) - Len(s) + i]
    BY <1>1, LastNIs
  <2> HIDE DEF a
  <2>2. \A i \in 1 .. Len(s) : a[i] = s[i]
    BY <2>1
  <2>3. a = s
    BY <2>1, <2>2, SeqEqual
  <2> QED BY <2>3 DEF a
<1>3. LastN(s, 0) = <<>>
  <2>1. LastN(s, 0) \in Seq(T) /\ Len(LastN(s, 0)) = 0
    BY <1>1, LastNIs
  <2> QED BY <2>1, EmptySeq
<1> QED BY <1>2, <1>3

\* The smaller of two numbers.
LEMMA MinOfTwo ==
    ASSUME NEW a \in Int, NEW b \in Int
    PROVE  Min({a, b}) = IF a <= b THEN a ELSE b
<1> DEFINE m == IF a <= b THEN a ELSE b
           c == CHOOSE x \in {a, b} : \A y \in {a, b} : x =< y
<1>1. m \in {a, b} /\ \A y \in {a, b} : m =< y
  OBVIOUS
<1>2. c \in {a, b} /\ \A y \in {a, b} : c =< y
  BY <1>1
<1>3. c = m
  <2> HIDE DEF c
  <2>1. c =< m /\ m =< c /\ c \in Int /\ m \in Int
    BY <1>1, <1>2
  <2> QED BY <2>1
<1> QED BY <1>3 DEF Min

-----------------------------------------------------------------------------
(* The alignment of an input with what is stored.                          *)

\* A caller's input: the last k messages of the conversation, then new ones.
LEMMA InputIs ==
    ASSUME NEW t \in Seq(Message), NEW k \in 0 .. Len(t), NEW new \in Seq(Message)
    PROVE  /\ LastN(t, k) \o new \in Seq(Message)
           /\ Len(LastN(t, k) \o new) = k + Len(new)
           /\ \A i \in 1 .. k : (LastN(t, k) \o new)[i] = t[Len(t) - k + i]
           /\ \A i \in k + 1 .. k + Len(new) : (LastN(t, k) \o new)[i] = new[i - k]
<1> DEFINE l == LastN(t, k)
<1>1. l \in Seq(Message) /\ Len(l) = k /\ \A i \in 1 .. k : l[i] = t[Len(t) - k + i]
  BY LastNIs
<1> HIDE DEF l
<1>2. /\ l \o new \in Seq(Message) /\ Len(l \o new) = Len(l) + Len(new)
      /\ \A i \in 1 .. Len(l) + Len(new) :
           (l \o new)[i] = IF i <= Len(l) THEN l[i] ELSE new[i - Len(l)]
  BY <1>1, ConcatProperties
<1>3. Len(new) \in Nat
  OBVIOUS
<1>4. \A i \in 1 .. k : (l \o new)[i] = t[Len(t) - k + i]
  BY <1>1, <1>2, <1>3
<1>5. \A i \in k + 1 .. k + Len(new) : (l \o new)[i] = new[i - k]
  BY <1>1, <1>2, <1>3
<1> QED BY <1>1, <1>2, <1>4, <1>5 DEF l

\* The end of an input that starts behind n of what it replays.
LEMMA InputFrom ==
    ASSUME NEW t \in Seq(Message), NEW k \in 0 .. Len(t), NEW new \in Seq(Message),
           NEW n \in 0 .. k
    PROVE  SubSeq(LastN(t, k) \o new, n + 1, k + Len(new)) = LastN(t, k - n) \o new
<1> DEFINE input == LastN(t, k) \o new
           a == SubSeq(input, n + 1, k + Len(new))
           b == LastN(t, k - n) \o new
<1>0. Len(new) \in Nat /\ Len(t) \in Nat /\ k - n \in 0 .. Len(t)
  OBVIOUS
<1>1. /\ input \in Seq(Message) /\ Len(input) = k + Len(new)
      /\ \A i \in 1 .. k : input[i] = t[Len(t) - k + i]
      /\ \A i \in k + 1 .. k + Len(new) : input[i] = new[i - k]
  BY InputIs
<1>2. /\ b \in Seq(Message) /\ Len(b) = (k - n) + Len(new)
      /\ \A i \in 1 .. k - n : b[i] = t[Len(t) - (k - n) + i]
      /\ \A i \in k - n + 1 .. k - n + Len(new) : b[i] = new[i - (k - n)]
  BY <1>0, InputIs
<1> HIDE DEF input, b
<1>3. /\ a \in Seq(Message) /\ Len(a) = k - n + Len(new)
      /\ \A i \in 1 .. k - n + Len(new) : a[i] = input[n + i]
  <2>1. n + 1 \in Nat \ {0} /\ k + Len(new) \in 0 .. Len(input) /\ n + 1 <= k + Len(new) + 1
    BY <1>0, <1>1
  <2>2. /\ a \in Seq(Message) /\ Len(a) = k + Len(new) - (n + 1) + 1
        /\ \A i \in 1 .. k + Len(new) - (n + 1) + 1 : a[i] = input[(n + 1) + i - 1]
    BY <1>1, <2>1, SubSeqIs
  <2> HIDE DEF a
  <2> QED BY <1>0, <2>2
<1> HIDE DEF a
<1>4. \A i \in 1 .. k - n + Len(new) : a[i] = b[i]
  <2> TAKE i \in 1 .. k - n + Len(new)
  <2>1. CASE i <= k - n
    <3>1. n + i \in 1 .. k /\ Len(t) - k + (n + i) = Len(t) - (k - n) + i
      BY <1>0, <2>1
    <3> QED BY <1>0, <1>1, <1>2, <1>3, <2>1, <3>1
  <2>2. CASE i > k - n
    <3>1. n + i \in k + 1 .. k + Len(new) /\ (n + i) - k = i - (k - n) /\ i \in k - n + 1 .. k - n + Len(new)
      BY <1>0, <2>2
    <3> QED BY <1>1, <1>2, <1>3, <3>1
  <2> QED BY <1>0, <2>1, <2>2
<1>5. a = b
  BY <1>2, <1>3, <1>4, SeqEqual
<1> QED BY <1>5 DEF a, b, input

\* The front of the last s, then the last k of it: the last s.
LEMMA LastNSplit ==
    ASSUME NEW T, NEW t \in Seq(T), NEW s \in 0 .. Len(t), NEW k \in 0 .. s
    PROVE  /\ SubSeq(LastN(t, s), 1, s - k) \in Seq(T)
           /\ SubSeq(LastN(t, s), 1, s - k) \o LastN(t, k) = LastN(t, s)
<1> DEFINE l == LastN(t, s)
           a == SubSeq(l, 1, s - k)
           c == LastN(t, k)
           b == a \o c
<1>0. Len(t) \in Nat /\ k \in 0 .. Len(t)
  OBVIOUS
<1>1. l \in Seq(T) /\ Len(l) = s /\ \A i \in 1 .. s : l[i] = t[Len(t) - s + i]
  BY LastNIs
<1>2. c \in Seq(T) /\ Len(c) = k /\ \A i \in 1 .. k : c[i] = t[Len(t) - k + i]
  BY <1>0, LastNIs
<1> HIDE DEF l, c
<1>3. a \in Seq(T) /\ Len(a) = s - k /\ \A i \in 1 .. s - k : a[i] = l[i]
  <2>1. 1 \in Nat \ {0} /\ s - k \in 0 .. Len(l) /\ 1 <= s - k + 1
    BY <1>1
  <2>2. /\ a \in Seq(T) /\ Len(a) = (s - k) - 1 + 1
        /\ \A i \in 1 .. (s - k) - 1 + 1 : a[i] = l[1 + i - 1]
    BY <1>1, <2>1, SubSeqIs
  <2> HIDE DEF a
  <2> QED BY <1>0, <2>2
<1> HIDE DEF a
<1>4. /\ b \in Seq(T) /\ Len(b) = Len(a) + Len(c)
      /\ \A i \in 1 .. Len(a) + Len(c) : b[i] = IF i <= Len(a) THEN a[i] ELSE c[i - Len(a)]
  BY <1>2, <1>3, ConcatProperties
<1> HIDE DEF b
<1>5. \A i \in 1 .. s : b[i] = l[i]
  <2> TAKE i \in 1 .. s
  <2>0. i \in 1 .. Len(a) + Len(c) /\ b[i] = IF i <= Len(a) THEN a[i] ELSE c[i - Len(a)]
    BY <1>0, <1>2, <1>3, <1>4
  <2>1. CASE i <= s - k
    <3>1. i \in 1 .. s - k /\ a[i] = l[i]
      BY <1>0, <1>3, <2>1
    <3> QED BY <1>3, <2>0, <2>1, <3>1
  <2>2. CASE i > s - k
    <3>1. i - (s - k) \in 1 .. k /\ Len(t) - k + (i - (s - k)) = Len(t) - s + i
      BY <1>0, <2>2
    <3>2. b[i] = c[i - (s - k)]
      BY <1>0, <1>3, <2>0, <2>2
    <3>3. c[i - (s - k)] = t[Len(t) - k + (i - (s - k))] /\ l[i] = t[Len(t) - s + i]
      BY <1>1, <1>2, <3>1
    <3> QED BY <3>1, <3>2, <3>3
  <2> QED BY <1>0, <2>1, <2>2
<1>6. Len(b) = s
  BY <1>0, <1>2, <1>3, <1>4
<1>7. b = l
  BY <1>1, <1>4, <1>5, <1>6, SeqEqual
<1> QED BY <1>3, <1>7 DEF a, b, c, l

\* What two lists in one hold.
LEMMA BehindIs ==
    \A T : \A u, v \in Seq(T) :
      /\ u \o v \in Seq(T) /\ Len(u \o v) = Len(u) + Len(v)
      /\ Len(u) \in Nat /\ Len(v) \in Nat
      /\ \A i \in 1 .. Len(u) : (u \o v)[i] = u[i]
      /\ \A j \in 1 .. Len(v) : (u \o v)[Len(u) + j] = v[j]
OBVIOUS

\* Lists of messages join in any grouping.
LEMMA Associative ==
    \A a, b, c \in Seq(Message) : (a \o b) \o c = a \o (b \o c)
BY ConcatAssociative

\* So do lists of parts.
LEMMA PartsAssociative ==
    \A a, b, c \in Seq(Part) : (a \o b) \o c = a \o (b \o c)
BY ConcatAssociative

\* An alignment, where the caller said something new that is not the last
\* message of the conversation, and that one is not a user's: what is injected
\* and sent, and what is stored, end the conversation with the new input behind.
LEMMA AlignIs ==
    ASSUME NEW t \in Seq(Message), NEW s \in 0 .. Len(t), NEW k \in 0 .. Len(t),
           NEW new \in Seq(Message), Len(new) > 0,
           retention \in Nat \cup {Unlimited},
           s = Len(t) \/ (retention # Unlimited /\ s >= retention),
           Len(t) > 0 => /\ t[Len(t)].role # "user"
                         /\ \A i \in 1 .. Len(new) : new[i] # t[Len(t)]
    PROVE  LET input == LastN(t, k) \o new
               a == Align(LastN(t, s), input)
           IN  /\ \E n \in s .. Len(t) : a.inject \o input = LastN(t, n) \o new
               /\ \E n \in s .. Len(t) : LastN(t, s) \o a.new = LastN(t, n) \o new
               /\ a.inject \in Seq(Message) /\ a.new \in Seq(Message)
<1> DEFINE input == LastN(t, k) \o new
           ms == LastN(t, s)
           a == Align(ms, input)
<1> SUFFICES /\ \E n \in s .. Len(t) : a.inject \o input = LastN(t, n) \o new
             /\ \E n \in s .. Len(t) : ms \o a.new = LastN(t, n) \o new
             /\ a.inject \in Seq(Message) /\ a.new \in Seq(Message)
  OBVIOUS
<1>0. Len(new) \in Nat /\ Len(t) \in Nat /\ s \in Nat /\ k \in Nat
  OBVIOUS
<1>1. /\ input \in Seq(Message) /\ Len(input) = k + Len(new)
      /\ \A i \in 1 .. k : input[i] = t[Len(t) - k + i]
      /\ \A i \in k + 1 .. k + Len(new) : input[i] = new[i - k]
  BY InputIs
<1>2. ms \in Seq(Message) /\ Len(ms) = s /\ \A i \in 1 .. s : ms[i] = t[Len(t) - s + i]
  BY LastNIs
<1>3. LastN(t, k) \in Seq(Message) /\ Len(LastN(t, k)) = k
  BY LastNIs
<1>4. \A n \in 0 .. k : SubSeq(input, n + 1, k + Len(new)) = LastN(t, k - n) \o new
  BY InputFrom
<1>9. /\ input \in Seq(Message) /\ Len(input) = k + Len(new) /\ Len(input) \in Nat
      /\ ms \in Seq(Message) /\ Len(ms) = s
  BY <1>0, <1>1, <1>2
<1>5. LastN(t, 0) = <<>> /\ <<>> \o new = new /\ <<>> \o input = input
  BY <1>1, LastNAll, ConcatEmptySeq
<1> HIDE DEF input, ms
<1>6. CASE s = 0
  <2>1. ms = <<>>
    BY <1>2, <1>6, EmptySeq
  <2>2. a = [inject |-> ms, new |-> input]
    BY <2>1 DEF Align
  <2> HIDE DEF a
  <2>3. a.inject \o input = LastN(t, k) \o new /\ ms \o a.new = LastN(t, k) \o new
    <3>1. a.inject \o input = input /\ ms \o a.new = input
      BY <1>5, <2>1, <2>2
    <3> QED BY <3>1 DEF input
  <2>4. k \in s .. Len(t)
    BY <1>6
  <2>5. a.inject \in Seq(Message) /\ a.new \in Seq(Message)
    BY <1>1, <1>2, <2>2
  <2> QED BY <2>3, <2>4, <2>5
<1>7. CASE s > 0
  \* where all of ms is found
  <2>1. Len(t) > 0 /\ ms[s] = t[Len(t)]
    BY <1>0, <1>2, <1>7
  <2>2. ms # <<>> /\ input # <<>> /\ CouldBeAReplay(ms)
    <3>1. s \in DOMAIN ms /\ Len(input) > 0
      BY <1>0, <1>1, <1>2, <1>7
    <3>2. Len(<<>>) = 0
      OBVIOUS
    <3>3. ms # <<>> /\ input # <<>>
      BY <1>2, <1>7, <3>1, <3>2
    <3>4. ms[s].role # "user"
      BY <2>1
    <3> QED BY <3>1, <3>3, <3>4 DEF CouldBeAReplay
  <2>3. \A i \in 1 .. k + Len(new) : input[i] = ms[s] => i <= k
    <3> SUFFICES ASSUME NEW i \in 1 .. k + Len(new), i > k PROVE input[i] # ms[s]
      BY <1>0
    <3>1. i \in k + 1 .. k + Len(new) /\ i - k \in 1 .. Len(new)
      BY <1>0
    <3> QED BY <1>1, <2>1, <3>1
  <2>4. \A b \in Blocks(ms, input) : b \in 0 .. k - s /\ SubSeq(input, b + 1, b + s) = ms
    <3> SUFFICES ASSUME NEW b \in Blocks(ms, input)
                 PROVE  b \in 0 .. k - s /\ SubSeq(input, b + 1, b + s) = ms
      OBVIOUS
    <3>1. b \in 0 .. k + Len(new) - s - 1 /\ SubSeq(input, b + 1, b + s) = ms
      BY <1>1, <1>2, SMTT(20) DEF Blocks
    <3>2. \A i \in 1 .. s : ms[i] = input[b + i]
      <4>1. b + 1 \in Nat \ {0} /\ b + s \in 0 .. Len(input) /\ b + 1 <= b + s + 1
        BY <1>0, <1>1, <3>1
      <4>2. /\ SubSeq(input, b + 1, b + s) \in Seq(Message)
            /\ \A i \in 1 .. (b + s) - (b + 1) + 1 :
                 SubSeq(input, b + 1, b + s)[i] = input[(b + 1) + i - 1]
        <5> DEFINE p == b + 1
                   q == b + s
        <5>1. p \in Nat \ {0} /\ q \in 0 .. Len(input) /\ p <= q + 1
          BY <4>1
        <5> HIDE DEF p, q
        <5>2. /\ SubSeq(input, p, q) \in Seq(Message)
              /\ \A i \in 1 .. q - p + 1 : SubSeq(input, p, q)[i] = input[p + i - 1]
          BY <1>9, <5>1, SubSeqIs
        <5> QED BY <5>2 DEF p, q
      <4>3. (b + s) - (b + 1) + 1 = s /\ \A i \in 1 .. s : (b + 1) + i - 1 = b + i
        BY <1>0, <3>1
      <4> QED BY <3>1, <4>2, <4>3
    <3>3. s \in 1 .. s /\ b + s \in 1 .. k + Len(new)
      BY <1>0, <1>7, <3>1
    <3>4. b + s <= k
      BY <2>3, <3>2, <3>3
    <3> QED BY <1>0, <3>1, <3>4
  <2>5. s <= k => k - s \in Blocks(ms, input)
    <3> SUFFICES ASSUME s <= k PROVE k - s \in Blocks(ms, input)
      OBVIOUS
    <3> DEFINE c == SubSeq(input, k - s + 1, k)
    <3>1. c \in Seq(Message) /\ Len(c) = s /\ \A i \in 1 .. s : c[i] = input[k - s + i]
      <4>1. k - s + 1 \in Nat \ {0} /\ k \in 0 .. Len(input) /\ k - s + 1 <= k + 1
        BY <1>0, <1>1
      <4>2. /\ c \in Seq(Message) /\ Len(c) = k - (k - s + 1) + 1
            /\ \A i \in 1 .. k - (k - s + 1) + 1 : c[i] = input[(k - s + 1) + i - 1]
        BY <1>9, <4>1, SubSeqIs
      <4>3. k - (k - s + 1) + 1 = s /\ \A i \in 1 .. s : (k - s + 1) + i - 1 = k - s + i
        BY <1>0
      <4> HIDE DEF c
      <4> QED BY <4>2, <4>3
    <3> HIDE DEF c
    <3>2. \A i \in 1 .. s : c[i] = ms[i]
      <4> TAKE i \in 1 .. s
      <4>1. k - s + i \in 1 .. k /\ Len(t) - k + (k - s + i) = Len(t) - s + i
        BY <1>0
      <4>2. input[k - s + i] = t[Len(t) - k + (k - s + i)]
        BY <1>1, <4>1
      <4> QED BY <1>2, <3>1, <4>1, <4>2
    <3>3. c = ms
      BY <1>2, <3>1, <3>2, SeqEqual
    <3>4. k - s \in 0 .. Len(input) - Len(ms) - 1 /\ (k - s) + Len(ms) = k
      BY <1>0, <1>1, <1>2
    <3> QED BY <3>3, <3>4 DEF Blocks, c
  <2> DEFINE block == BlockStart(ms, input)
             overlap == TrailingOverlap(ms, input)
  <2>6. /\ block \in Int /\ block >= 0 =>
               a = [inject |-> <<>>, new |-> SubSeq(input, block + Len(ms) + 1, Len(input))]
        /\ block \in Int /\ block < 0 =>
               a = [inject |-> SubSeq(ms, 1, Len(ms) - overlap),
                    new |-> SubSeq(input, overlap + 1, Len(input))]
    BY <2>2 DEF Align
  \* the input begins with ms
  <2>7. CASE 0 \in Blocks(ms, input)
    <3>1. block = 0
      BY <2>7 DEF BlockStart
    <3>2. a.inject = <<>> /\ a.new = SubSeq(input, s + 1, k + Len(new))
      <4> HIDE DEF a, block
      <4>1. block \in Int /\ block >= 0 /\ block + Len(ms) + 1 = s + 1
        BY <1>0, <1>9, <3>1
      <4>2. a = [inject |-> <<>>, new |-> SubSeq(input, s + 1, k + Len(new))]
        BY <1>9, <2>6, <4>1
      <4> QED BY <4>2
    <3>3. 0 \in 0 .. k - s /\ SubSeq(input, 0 + 1, 0 + s) = ms
      BY <2>4, <2>7
    <3>4. SubSeq(input, 1, s) = ms /\ s <= k
      BY <1>0, <3>3
    <3>5. ms \o a.new = input
      <4>1. ms \o a.new = SubSeq(input, 1, s) \o SubSeq(input, s + 1, k + Len(new))
        BY <3>2, <3>4
      <4>2. SubSeq(input, 1, s) \o SubSeq(input, s + 1, k + Len(new)) = SubSeq(input, 1, k + Len(new))
        <5>1. 1 \in 1 .. Len(input) + 1 /\ s \in 1 - 1 .. Len(input) /\ k + Len(new) \in s .. Len(input)
          BY <1>0, <1>9, <3>4
        <5> QED BY <1>9, <5>1, ConcatAdjacentSubSeq
      <4>3. SubSeq(input, 1, k + Len(new)) = input
        BY <1>9, SubSeqFull
      <4> QED BY <4>1, <4>2, <4>3
    <3>6. a.new \in Seq(Message)
      <4>1. s + 1 \in Nat \ {0} /\ k + Len(new) \in 0 .. Len(input) /\ s + 1 <= k + Len(new) + 1
        BY <1>0, <1>9, <3>4
      <4> HIDE DEF a
      <4>2. SubSeq(input, s + 1, k + Len(new)) \in Seq(Message)
        BY <1>9, <4>1, SubSeqIs
      <4> QED BY <3>2, <4>2
    <3>7. k \in s .. Len(t) /\ a.inject \o input = input /\ a.inject \in Seq(Message)
      BY <1>0, <1>5, <3>2, <3>4
    <3> HIDE DEF a
    <3> QED BY <3>5, <3>6, <3>7 DEF input
  \* a window is found, behind what was trimmed
  <2>8. CASE 0 \notin Blocks(ms, input) /\ IsWindow(ms) /\ Blocks(ms, input) # {}
    <3>1. s <= k
      BY <1>0, <2>4, <2>8
    <3>2. Max(Blocks(ms, input)) = k - s
      <4> DEFINE B == Blocks(ms, input)
      <4>1. k - s \in B
        BY <2>5, <3>1
      <4>2. \A b \in B : b \in 0 .. k - s
        BY <2>4
      <4> HIDE DEF B
      <4>3. B \subseteq Int /\ \A b \in B : b <= k - s
        BY <4>2
      <4>4. Max(B) = k - s
        BY <4>1, <4>3, MaxIs
      <4> QED BY <4>4 DEF B
    <3>3. block = k - s
      BY <2>8, <3>2 DEF BlockStart
    <3>4. a.inject = <<>> /\ a.new = SubSeq(input, k + 1, k + Len(new))
      <4> HIDE DEF a, block
      <4>1. block \in Int /\ block >= 0 /\ block + Len(ms) + 1 = k + 1
        BY <1>0, <1>9, <3>1, <3>3
      <4>2. a = [inject |-> <<>>, new |-> SubSeq(input, k + 1, k + Len(new))]
        BY <1>9, <2>6, <4>1
      <4> QED BY <4>2
    <3>5. a.new = new
      <4>1. k \in 0 .. k /\ k - k = 0
        BY <1>0
      <4>2. SubSeq(input, k + 1, k + Len(new)) = LastN(t, k - k) \o new
        BY <1>4, <4>1
      <4> QED BY <1>5, <3>4, <4>1, <4>2
    <3>6. k \in s .. Len(t) /\ s \in s .. Len(t)
      BY <1>0, <3>1
    <3>7. a.inject \o input = LastN(t, k) \o new
      BY <1>5, <3>4 DEF input
    <3>8. ms \o a.new = LastN(t, s) \o new
      BY <3>5 DEF ms
    <3>9. a.inject \in Seq(Message) /\ a.new \in Seq(Message)
      BY <3>4, <3>5
    <3> HIDE DEF a
    <3> QED BY <3>6, <3>7, <3>8, <3>9
  \* the input begins in the middle of ms
  <2>9. CASE ~ (0 \in Blocks(ms, input)) /\ ~ (IsWindow(ms) /\ Blocks(ms, input) # {})
    <3>1. block = -1
      BY <2>9 DEF BlockStart
    <3>2. k < s
      <4>1. CASE Blocks(ms, input) = {}
        BY <1>0, <2>5, <4>1
      <4>2. CASE ~IsWindow(ms)
        <5>1. s = Len(t)
          BY <1>0, <1>2, <4>2 DEF IsWindow
        <5>2. s <= k => k - s = 0
          BY <1>0, <5>1
        <5> QED BY <1>0, <2>5, <2>9, <5>2
      <4> QED BY <2>9, <4>1, <4>2
    <3>3. overlap = k
      <4> DEFINE O == {n \in 1 .. Min({Len(ms), Len(input) - 1}) :
                         /\ LastN(ms, n) = SubSeq(input, 1, n)
                         /\ n = 1 => Last(ms).role # "user"}
                 m == Min({Len(ms), Len(input) - 1})
      <4>1. m \in Int /\ m <= s /\ m <= k + Len(new) - 1 /\ k <= m
        <5>1. Len(ms) \in Int /\ Len(input) - 1 \in Int
          BY <1>0, <1>9
        <5>2. m = IF Len(ms) <= Len(input) - 1 THEN Len(ms) ELSE Len(input) - 1
          BY <5>1, MinOfTwo
        <5> HIDE DEF m
        <5>3. Len(new) >= 1
          BY <1>0
        <5> QED BY <1>0, <1>9, <3>2, <5>2, <5>3
      <4>2. \A n \in O : n \in 1 .. k
        <5> SUFFICES ASSUME NEW n \in O PROVE n \in 1 .. k
          OBVIOUS
        <5>1. n \in 1 .. m /\ LastN(ms, n) = SubSeq(input, 1, n)
          OBVIOUS
        <5> HIDE DEF m, O
        <5>2. n \in 1 .. s /\ n \in 0 .. Len(ms) /\ n \in 1 .. k + Len(new) /\ n \in 1 .. n
          BY <1>0, <1>2, <4>1, <5>1
        <5>3. LastN(ms, n)[n] = ms[Len(ms) - n + n]
          <6>1. n \in 0 .. Len(ms) /\ n \in 1 .. n
            BY <5>2
          <6>2. /\ LastN(ms, n) \in Seq(Message)
                /\ \A i \in 1 .. n : LastN(ms, n)[i] = ms[Len(ms) - n + i]
            <7>1. ms \in Seq(Message) /\ n \in 0 .. Len(ms)
              BY <1>9, <6>1
            <7> QED BY <7>1, LastNIs
          <6> QED BY <6>1, <6>2
        <5>4. SubSeq(input, 1, n)[n] = input[1 + n - 1]
          <6>1. 1 \in Nat \ {0} /\ n \in 0 .. Len(input) /\ 1 <= n + 1 /\ n \in 1 .. n - 1 + 1
            BY <1>1, <5>2
          <6> QED BY <1>1, <6>1, SubSeqIs
        <5>5. Len(ms) - n + n = s /\ 1 + n - 1 = n
          BY <1>0, <1>2, <5>2
        <5>6. input[n] = ms[s]
          BY <5>1, <5>3, <5>4, <5>5
        <5>7. n <= k
          BY <2>3, <5>2, <5>6
        <5> QED BY <5>2, <5>7
      <4>3. k \in {0} \cup O
        <5>1. CASE k = 0
          BY <5>1
        <5>2. CASE k > 0
          <6>1. k \in 1 .. m
            BY <1>0, <4>1, <5>2
          <6>2. LastN(ms, k) = LastN(t, k)
            BY <1>0, <3>2, LastNLastN DEF ms
          <6>3. SubSeq(input, 1, k) = LastN(t, k)
            <7> DEFINE c == SubSeq(input, 1, k)
                       l == LastN(t, k)
            <7>1. 1 \in Nat \ {0} /\ k \in 0 .. Len(input) /\ 1 <= k + 1
              BY <1>0, <1>1
            <7>2. /\ c \in Seq(Message) /\ Len(c) = k - 1 + 1
                  /\ \A i \in 1 .. k - 1 + 1 : c[i] = input[1 + i - 1]
              BY <1>1, <7>1, SubSeqIs
            <7>3. l \in Seq(Message) /\ Len(l) = k /\ \A i \in 1 .. k : l[i] = t[Len(t) - k + i]
              BY LastNIs
            <7> HIDE DEF c, l
            <7>4. k - 1 + 1 = k /\ \A i \in 1 .. k : 1 + i - 1 = i
              BY <1>0
            <7>5. Len(c) = k /\ \A i \in 1 .. k : c[i] = l[i]
              <8>1. \A i \in 1 .. k : c[i] = input[1 + i - 1]
                BY <7>2, <7>4
              <8>2. \A i \in 1 .. k : c[i] = input[i]
                BY <7>4, <8>1
              <8>3. \A i \in 1 .. k : input[i] = l[i]
                BY <1>1, <7>3
              <8>4. Len(c) = k
                BY <7>2, <7>4
              <8> QED BY <8>2, <8>3, <8>4
            <7>6. c = l
              BY <7>2, <7>3, <7>5, SeqEqual
            <7> QED BY <7>6 DEF c, l
          <6>4. Last(ms).role # "user"
            BY <1>2, <2>1 DEF Last
          <6> QED BY <6>1, <6>2, <6>3, <6>4
        <5> QED BY <1>0, <5>1, <5>2
      <4>4. overlap = Max({0} \cup O)
        BY DEF TrailingOverlap
      <4> HIDE DEF O, overlap
      <4>5. {0} \cup O \subseteq Int /\ \A n \in {0} \cup O : n <= k
        BY <1>0, <4>2
      <4> QED BY <4>3, <4>4, <4>5, MaxIs
    <3>4. a.inject = SubSeq(ms, 1, s - k) /\ a.new = SubSeq(input, k + 1, k + Len(new))
      <4> HIDE DEF a, block, overlap
      <4>1. block \in Int /\ block < 0
        BY <3>1
      <4>2. a = [inject |-> SubSeq(ms, 1, s - k), new |-> SubSeq(input, k + 1, k + Len(new))]
        BY <1>9, <2>6, <3>3, <4>1
      <4> QED BY <4>2
    <3>5. a.new = new
      <4>1. k \in 0 .. k /\ k - k = 0
        BY <1>0
      <4>2. SubSeq(input, k + 1, k + Len(new)) = LastN(t, k - k) \o new
        BY <1>4, <4>1
      <4> QED BY <1>5, <3>4, <4>1, <4>2
    <3>6. a.inject \in Seq(Message) /\ a.inject \o LastN(t, k) = ms
      <4>1. k \in 0 .. s
        BY <1>0, <3>2
      <4>2. /\ SubSeq(ms, 1, s - k) \in Seq(Message)
            /\ SubSeq(ms, 1, s - k) \o LastN(t, k) = ms
        BY <4>1, LastNSplit DEF ms
      <4> HIDE DEF a
      <4> QED BY <3>4, <4>2
    <3>7. a.inject \o input = ms \o new
      <4> DEFINE x == a.inject
                 y == LastN(t, k)
      <4>0. x \in Seq(Message) /\ y \in Seq(Message)
        BY <1>3, <3>6
      <4> HIDE DEF x, y
      <4>1. (x \o y) \o new = x \o (y \o new)
        BY <4>0, Associative
      <4>2. (a.inject \o LastN(t, k)) \o new = a.inject \o (LastN(t, k) \o new)
        BY <4>1 DEF x, y
      <4> HIDE DEF a
      <4> QED BY <3>6, <4>2 DEF input
    <3>8. s \in s .. Len(t)
      BY <1>0
    <3>9. /\ a.inject \o input = LastN(t, s) \o new /\ ms \o a.new = LastN(t, s) \o new
          /\ a.new \in Seq(Message)
      BY <3>5, <3>7 DEF ms
    <3> HIDE DEF a
    <3> QED BY <3>6, <3>8, <3>9
  <2> QED BY <2>7, <2>8, <2>9
<1> HIDE DEF a
<1>8. s = 0 \/ s > 0
  BY <1>0
<1> QED BY <1>6, <1>7, <1>8

-----------------------------------------------------------------------------
(* What is stored.                                                         *)

\* The last message of the conversation is none the caller could say now.
EndsInReply(t) ==
    Len(t) > 0 => /\ t[Len(t)].role # "user"
                  /\ \A new \in NewInputs : \A i \in 1 .. Len(new) : new[i] # t[Len(t)]

\* The run in flight was given a replay of the conversation and something new.
RequestKept ==
    /\ request.new \in Seq(Message) /\ Len(request.new) > 0
    /\ Len(transcript) > 0 => request.new \in NewInputs
    /\ \E k \in 0 .. Len(transcript) : request.input = LastN(transcript, k) \o request.new
    /\ request.base \in Seq(Message)
    /\ \E n \in Len(stored) .. Len(transcript) :
         request.base \o request.input = LastN(transcript, n) \o request.new

TurnInv ==
    /\ retention \in Nat \cup {Unlimited}
    /\ transcript \in Seq(Message)
    /\ stored = Trim(transcript)
    /\ EndsInReply(transcript)
    /\ inFlight => RequestKept

\* A trimmed list is the end of it, all of it unless it is at its cap.
LEMMA TrimIs ==
    ASSUME NEW t \in Seq(Message), retention \in Nat \cup {Unlimited}
    PROVE  LET s == Len(Trim(t))
           IN  /\ s \in 0 .. Len(t) /\ Trim(t) = LastN(t, s)
               /\ s = Len(t) \/ (retention # Unlimited /\ s >= retention)
<1>1. CASE retention = Unlimited \/ Len(t) <= retention
  <2>1. Trim(t) = t
    BY <1>1 DEF Trim
  <2>2. LastN(t, Len(t)) = t /\ Len(t) \in 0 .. Len(t)
    BY LastNAll
  <2> QED BY <2>1, <2>2
<1>2. CASE ~ (retention = Unlimited \/ Len(t) <= retention)
  <2>1. retention \in 0 .. Len(t) /\ retention # Unlimited
    BY <1>2
  <2>2. Trim(t) = LastN(t, retention)
    BY <1>2 DEF Trim
  <2>3. Len(LastN(t, retention)) = retention
    BY <2>1, LastNIs
  <2> QED BY <2>1, <2>2, <2>3
<1> QED BY <1>1, <1>2

\* What a list keeps of t with something behind it does not depend on how much
\* of t is looked at, as long as it is no less than it kept.
LEMMA TrimEnd ==
    ASSUME NEW t \in Seq(Message), NEW u \in Seq(Message), Len(u) > 0,
           retention \in Nat \cup {Unlimited},
           NEW n \in Len(Trim(t)) .. Len(t)
    PROVE  Trim(LastN(t, n) \o u) = Trim(t \o u)
<1> DEFINE s == Len(Trim(t))
           w == t \o u
           m == n + Len(u)
           l == LastN(t, n) \o u
<1>0. /\ s \in 0 .. Len(t) /\ Trim(t) = LastN(t, s)
      /\ s = Len(t) \/ (retention # Unlimited /\ s >= retention)
  BY TrimIs
<1> HIDE DEF s
<1>1. n \in s .. Len(t)
  BY DEF s
<1>2. Len(t) \in Nat /\ Len(u) \in Nat /\ n \in 0 .. Len(t) /\ s \in Nat /\ n \in Nat
  BY <1>0, <1>1
<1>3. l = LastN(w, m)
  BY <1>2, LastNConcat
<1>4. w \in Seq(Message) /\ Len(w) = Len(t) + Len(u)
  BY ConcatProperties
<1> HIDE DEF w
<1>5. m \in 0 .. Len(w)
  BY <1>2, <1>4
<1>6. Len(LastN(w, m)) = m
  BY <1>4, <1>5, LastNIs
<1> HIDE DEF l
<1>7. CASE n = Len(t)
  <2>1. m = Len(w)
    BY <1>4, <1>7
  <2>2. LastN(w, m) = w
    BY <1>4, <2>1, LastNAll
  <2> QED BY <1>3, <2>2 DEF l, w
<1>8. CASE n # Len(t)
  <2>1. retention # Unlimited /\ retention \in Nat /\ retention <= n
    BY <1>0, <1>1, <1>2, <1>8
  <2>2. retention < m /\ retention < Len(w)
    BY <1>2, <1>4, <2>1
  <2>3. Trim(l) = LastN(LastN(w, m), retention) /\ Trim(w) = LastN(w, retention)
    <3>1. ~ (Len(w) <= retention) /\ ~ (Len(l) <= retention)
      BY <1>2, <1>3, <1>4, <1>6, <2>1, <2>2
    <3> QED BY <1>3, <2>1, <3>1 DEF Trim
  <2>4. retention \in 0 .. m
    BY <1>2, <2>1, <2>2
  <2>5. LastN(LastN(w, m), retention) = LastN(w, retention)
    BY <1>4, <1>5, <2>4, LastNLastN
  <2> QED BY <2>3, <2>5 DEF l, w
<1> QED BY <1>7, <1>8

\* It holds of a conversation that has not begun.
LEMMA TurnInvInit ==
    Init => TurnInv
<1> SUFFICES ASSUME Init PROVE TurnInv
  OBVIOUS
<1>1. transcript = <<>> /\ stored = <<>> /\ Len(<<>>) = 0 /\ <<>> \in Seq(Message)
  BY DEF Init
<1>2. retention \in Nat \cup {Unlimited}
  BY ConversationAssumption DEF Init
<1>3. Trim(<<>>) = <<>>
  <2>1. LET s == Len(Trim(<<>>))
        IN  s \in 0 .. Len(<<>>) /\ Trim(<<>>) = LastN(<<>>, s)
    BY <1>1, <1>2, TrimIs
  <2>2. Len(Trim(<<>>)) = 0
    BY <1>1, <2>1
  <2>3. LastN(<<>>, 0) = <<>>
    BY <1>1, LastNAll
  <2> QED BY <2>1, <2>2, <2>3
<1>4. ~inFlight
  BY DEF Init
<1> QED BY <1>1, <1>2, <1>3, <1>4 DEF TurnInv, EndsInReply

\* What Align makes of the run in flight, or of one that could begin.
LEMMA AlignStored ==
    ASSUME TurnInv, NEW k \in 0 .. Len(transcript), NEW new \in Seq(Message), Len(new) > 0,
           Len(transcript) > 0 => new \in NewInputs
    PROVE  LET input == LastN(transcript, k) \o new
               a == Align(stored, input)
           IN  /\ \E n \in Len(stored) .. Len(transcript) :
                     a.inject \o input = LastN(transcript, n) \o new
               /\ \E n \in Len(stored) .. Len(transcript) :
                     stored \o a.new = LastN(transcript, n) \o new
               /\ a.inject \in Seq(Message) /\ a.new \in Seq(Message)
<1> DEFINE s == Len(stored)
           input == LastN(transcript, k) \o new
           a == Align(stored, input)
<1>1. /\ transcript \in Seq(Message) /\ retention \in Nat \cup {Unlimited}
      /\ stored = Trim(transcript)
  BY DEF TurnInv
<1>2. /\ s \in 0 .. Len(transcript) /\ stored = LastN(transcript, s)
      /\ s = Len(transcript) \/ (retention # Unlimited /\ s >= retention)
  BY <1>1, TrimIs
<1>3. Len(transcript) > 0 => /\ transcript[Len(transcript)].role # "user"
                             /\ \A i \in 1 .. Len(new) : new[i] # transcript[Len(transcript)]
  BY DEF TurnInv, EndsInReply
<1>4. LET b == Align(LastN(transcript, s), input)
      IN  /\ \E n \in s .. Len(transcript) : b.inject \o input = LastN(transcript, n) \o new
          /\ \E n \in s .. Len(transcript) :
                LastN(transcript, s) \o b.new = LastN(transcript, n) \o new
          /\ b.inject \in Seq(Message) /\ b.new \in Seq(Message)
  <2> HIDE DEF s
  <2> QED BY <1>1, <1>2, <1>3, AlignIs
<1> QED BY <1>2, <1>4

\* Every step of a run keeps it.
LEMMA TurnInvStep ==
    ASSUME Recognizable, TurnInv, [Next]_vars
    PROVE  TurnInv'
<1>0. /\ transcript \in Seq(Message) /\ Len(transcript) \in Nat
      /\ retention \in Nat \cup {Unlimited}
      /\ stored = Trim(transcript) /\ EndsInReply(transcript)
  BY DEF TurnInv
<1>1. ASSUME NEW new \in IF transcript = <<>> THEN Openings ELSE NewInputs,
             NEW k \in 0 .. MaxReplay \cup {Len(transcript)}, Prepare(new, k)
      PROVE  TurnInv'
  <2> DEFINE input == LastN(transcript, k) \o new
             a == Align(stored, input)
  <2>1. new \in Seq(Message) /\ Len(new) > 0
    <3>1. new \in Openings \cup NewInputs
      OBVIOUS
    <3>2. new \in Seq(Message) /\ new # <<>>
      BY <3>1, ConversationAssumption DEF Recognizable
    <3> QED BY <3>2
  <2>2. Len(transcript) > 0 => new \in NewInputs
    OBVIOUS
  <2>3. k \in 0 .. Len(transcript)
    BY <1>0, <1>1 DEF Prepare
  <2>4. /\ \E n \in Len(stored) .. Len(transcript) :
              a.inject \o input = LastN(transcript, n) \o new
        /\ a.inject \in Seq(Message)
    BY <2>1, <2>2, <2>3, AlignStored
  <2>5. /\ request'.input = input /\ request'.new = new /\ request'.base = a.inject
        /\ transcript' = transcript /\ stored' = stored /\ retention' = retention
    BY <1>1 DEF Prepare
  <2>6. RequestKept'
    <3> HIDE DEF input, a
    <3>1. /\ request'.new \in Seq(Message) /\ Len(request'.new) > 0
          /\ Len(transcript') > 0 => request'.new \in NewInputs
      BY <2>1, <2>2, <2>5
    <3>2. \E m \in 0 .. Len(transcript') :
            request'.input = LastN(transcript', m) \o request'.new
      BY <2>3, <2>5 DEF input
    <3>3. request'.base \in Seq(Message)
      BY <2>4, <2>5
    <3>4. \E n \in Len(stored') .. Len(transcript') :
            request'.base \o request'.input = LastN(transcript', n) \o request'.new
      BY <2>4, <2>5
    <3> QED BY <3>1, <3>2, <3>3, <3>4 DEF RequestKept
  <2>7. stored' = Trim(transcript)'
    BY <1>0, <2>5 DEF Trim
  <2>8. EndsInReply(transcript')
    BY <1>0, <2>5
  <2> HIDE DEF a, input
  <2> QED BY <1>0, <2>5, <2>6, <2>7, <2>8 DEF TurnInv
<1>2. ASSUME NEW reply \in Replies, Complete(reply) PROVE TurnInv'
  <2> DEFINE new == request.new
             a == Align(stored, request.input)
             t == transcript
             u == new \o reply
  <2>1. /\ inFlight /\ stored' = Trim(stored \o a.new \o reply)
        /\ transcript' = t \o new \o reply /\ ~inFlight'
        /\ retention' = retention
    BY <1>2 DEF Complete
  <2>2. /\ new \in Seq(Message) /\ Len(new) > 0
        /\ Len(t) > 0 => new \in NewInputs
        /\ \E k \in 0 .. Len(t) : request.input = LastN(t, k) \o new
    BY <2>1 DEF TurnInv, RequestKept
  <2>3. reply \in Seq(Message) /\ Len(reply) > 0
    <3>1. reply \in Seq(Message) /\ reply # <<>>
      BY ConversationAssumption DEF Recognizable
    <3> QED BY <3>1
  <2>4. PICK k \in 0 .. Len(t) : request.input = LastN(t, k) \o new
    BY <2>2
  <2>5. /\ \E n \in Len(stored) .. Len(t) : stored \o a.new = LastN(t, n) \o new
        /\ a.new \in Seq(Message)
    <3> HIDE DEF new
    <3>1. k \in 0 .. Len(transcript) /\ (Len(transcript) > 0 => new \in NewInputs)
      BY <2>2
    <3>2. LET b == Align(stored, LastN(transcript, k) \o new)
          IN  /\ \E n \in Len(stored) .. Len(transcript) :
                    stored \o b.new = LastN(transcript, n) \o new
              /\ b.new \in Seq(Message)
      BY <2>2, <3>1, AlignStored
    <3> QED BY <2>4, <3>2
  <2>6. PICK n \in Len(stored) .. Len(t) : stored \o a.new = LastN(t, n) \o new
    BY <2>5
  <2> HIDE DEF new, a
  <2>7. u \in Seq(Message) /\ Len(u) = Len(new) + Len(reply)
    BY <2>2, <2>3, ConcatProperties
  <2>8. t \o new \o reply = t \o u
    <3>1. t \in Seq(Message) /\ new \in Seq(Message) /\ reply \in Seq(Message)
      BY <1>0, <2>2, <2>3
    <3> HIDE DEF t
    <3> QED BY <3>1, Associative, Zenon
  <2>9. (LastN(t, n) \o new) \o reply = LastN(t, n) \o u
    <3>1. n \in 0 .. Len(t)
      <4>1. Len(stored) \in Nat
        BY <1>0, TrimIs
      <4> QED BY <4>1
    <3>2. LastN(t, n) \in Seq(Message)
      BY <1>0, <3>1, LastNIs
    <3>3. new \in Seq(Message) /\ reply \in Seq(Message)
      BY <2>2, <2>3
    <3> QED BY <3>2, <3>3, Associative
  <2>10. Trim(LastN(t, n) \o u) = Trim(t \o u)
    <3>1. Len(u) > 0
      BY <2>2, <2>3, <2>7
    <3> HIDE DEF u
    <3>2. n \in Len(Trim(t)) .. Len(t)
      BY <1>0
    <3> QED BY <1>0, <2>7, <3>1, <3>2, TrimEnd
  <2>11. stored' = Trim(transcript)'
    <3>1. stored' = Trim(t \o u) /\ transcript' = t \o u
      BY <2>1, <2>6, <2>8, <2>9, <2>10
    <3> QED BY <2>1, <3>1 DEF Trim
  <2>12. transcript' \in Seq(Message) /\ Len(transcript') = Len(t) + Len(u)
    <3> HIDE DEF u
    <3> QED BY <1>0, <2>1, <2>7, <2>8, ConcatProperties
  <2>13. EndsInReply(transcript')
    <3>1. transcript' = t \o u
      BY <2>1, <2>8
    <3> DEFINE m == Len(t) + Len(u)
    <3>2. u[Len(u)] = reply[Len(reply)]
      <4>1. Len(u) \in 1 .. Len(new) + Len(reply) /\ Len(u) > Len(new) /\ Len(u) - Len(new) = Len(reply)
        BY <2>2, <2>3, <2>7
      <4>2. \A i \in 1 .. Len(new) + Len(reply) :
              u[i] = IF i <= Len(new) THEN new[i] ELSE reply[i - Len(new)]
        BY <2>2, <2>3, ConcatProperties
      <4> QED BY <2>2, <2>3, <4>1, <4>2
    <3>3. transcript'[m] = u[Len(u)]
      <4> HIDE DEF u
      <4>1. m \in 1 .. Len(t) + Len(u) /\ m > Len(t) /\ m - Len(t) = Len(u)
        BY <1>0, <2>2, <2>3, <2>7
      <4>2. \A i \in 1 .. Len(t) + Len(u) :
              (t \o u)[i] = IF i <= Len(t) THEN t[i] ELSE u[i - Len(t)]
        BY <1>0, <2>7, ConcatProperties
      <4> QED BY <1>0, <2>7, <3>1, <4>1, <4>2
    <3>4. transcript'[Len(transcript')] = Last(reply)
      BY <2>12, <3>2, <3>3 DEF Last
    <3>5. /\ Last(reply).role # "user"
          /\ \A v \in NewInputs : \A i \in 1 .. Len(v) : v[i] # Last(reply)
      BY DEF Recognizable, ToSet
    <3> QED BY <3>4, <3>5 DEF EndsInReply
  <2> HIDE DEF t, u
  <2> QED BY <1>0, <2>1, <2>11, <2>12, <2>13 DEF TurnInv
<1>3. CASE Fail
  <2>1. UNCHANGED <<retention, stored, transcript>> /\ ~inFlight'
    BY <1>3 DEF Fail
  <2>2. Trim(transcript)' = Trim(transcript)
    BY <2>1 DEF Trim
  <2> QED BY <1>0, <2>1, <2>2 DEF TurnInv
<1>4. CASE UNCHANGED vars
  <2>1. UNCHANGED <<retention, stored, transcript, request, inFlight>>
    BY <1>4 DEF vars
  <2>2. Trim(transcript)' = Trim(transcript)
    BY <2>1 DEF Trim
  <2>3. RequestKept => RequestKept'
    BY <2>1 DEF RequestKept
  <2> QED BY <1>0, <2>1, <2>2, <2>3 DEF TurnInv
<1> QED BY <1>1, <1>2, <1>3, <1>4 DEF Next

\* It says what was to be shown.
LEMMA TurnsKeptFromInv ==
    TurnInv => TurnsKept
BY DEF TurnInv, RequestKept, TurnsKept

\* However a caller replays the conversation (align), where new turns can be
\* told from a replay: the history store holds the whole conversation or, at its
\* cap, the last of it, and what is compacted and sent is its end and the new
\* input, nothing twice and nothing in between left out.
THEOREM ConversationStored ==
    ASSUME Recognizable
    PROVE  Spec => []TurnsKept
<1>1. TurnInv /\ [Next]_vars => TurnInv'
  BY TurnInvStep
<1> QED BY <1>1, TurnInvInit, TurnsKeptFromInv, PTL DEF Spec

-----------------------------------------------------------------------------
(* Recursive functions over a list.                                        *)

\* A function defined at n from what it is at n - 1, by G[n], exists.
LEMMA Recursion ==
    ASSUME NEW T, NEW base \in T, NEW m \in Nat, NEW G \in [1 .. m -> [T -> T]]
    PROVE  \E f \in [0 .. m -> T] :
             f[0] = base /\ \A n \in 1 .. m : f[n] = G[n][f[n - 1]]
<1> DEFINE Good == {k \in 0 .. m : \E f \in [0 .. k -> T] :
                      f[0] = base /\ \A n \in 1 .. k : f[n] = G[n][f[n - 1]]}
<1>1. 0 \in Good
  <2> DEFINE f == [n \in 0 .. 0 |-> base]
  <2>1. f \in [0 .. 0 -> T] /\ f[0] = base /\ \A n \in 1 .. 0 : f[n] = G[n][f[n - 1]]
    OBVIOUS
  <2> HIDE DEF f
  <2> QED BY <2>1
<1>2. ASSUME NEW k \in 0 .. m - 1, k \in Good PROVE k + 1 \in Good
  <2>1. PICK f \in [0 .. k -> T] : f[0] = base /\ \A n \in 1 .. k : f[n] = G[n][f[n - 1]]
    BY <1>2
  <2> DEFINE g == [n \in 0 .. k + 1 |-> IF n = k + 1 THEN G[k + 1][f[k]] ELSE f[n]]
  <2>2. G[k + 1][f[k]] \in T
    <3>1. k + 1 \in 1 .. m /\ f[k] \in T
      OBVIOUS
    <3>2. G[k + 1] \in [T -> T]
      BY <3>1
    <3> QED BY <3>1, <3>2
  <2>3. g \in [0 .. k + 1 -> T]
    <3>1. \A n \in 0 .. k + 1 : (IF n = k + 1 THEN G[k + 1][f[k]] ELSE f[n]) \in T
      BY <2>2
    <3> QED BY <3>1
  <2>4. g[0] = base
    BY <2>1
  <2>5. \A n \in 1 .. k + 1 : g[n] = G[n][g[n - 1]]
    <3> TAKE n \in 1 .. k + 1
    <3>1. CASE n \in 1 .. k
      <4>1. g[n] = f[n] /\ g[n - 1] = f[n - 1]
        BY <3>1
      <4>2. f[n] = G[n][f[n - 1]]
        BY <2>1, <3>1
      <4> HIDE DEF g
      <4> QED BY <4>1, <4>2
    <3>2. CASE n = k + 1
      <4>1. g[n] = G[k + 1][f[k]] /\ g[k] = f[k] /\ n - 1 = k
        BY <3>2
      <4> HIDE DEF g
      <4> QED BY <3>2, <4>1
    <3> QED BY <3>1, <3>2
  <2>6. k + 1 \in 0 .. m
    OBVIOUS
  <2> HIDE DEF g
  <2> QED BY <2>3, <2>4, <2>5, <2>6
<1>3. m \in Good
  <2>1. Good \subseteq 0 .. m
    OBVIOUS
  <2> HIDE DEF Good
  <2>2. \A n \in 0 .. m : n \in Good
    BY <1>1, <1>2, Upto
  <2> QED BY <2>2
<1> QED BY <1>3

\* The same, where the provers need not look into it.
Steps(G, T, m) == G \in [1 .. m -> [T -> T]]
Runs(f, G, T, m, base) ==
    f \in [0 .. m -> T] /\ f[0] = base /\ \A n \in 1 .. m : f[n] = G[n][f[n - 1]]

\* There is such a run.
LEMMA RunExists ==
    \A T, base, m, G : base \in T /\ m \in Nat /\ Steps(G, T, m) => \E f : Runs(f, G, T, m, base)
BY Recursion DEF Steps, Runs

\* Pick is a run over its list.
LEMMA PickIs ==
    ASSUME NEW A, NEW s \in Seq(A), NEW J
    PROVE  \E f \in [0 .. Len(s) -> Seq(A)] :
             /\ Pick(s, J) = f[Len(s)] /\ f[0] = <<>>
             /\ \A n \in 1 .. Len(s) :
                  f[n] = IF n \in J THEN Append(f[n - 1], s[n]) ELSE f[n - 1]
<1> DEFINE m == Len(s)
           G == [n \in 1 .. m |-> [x \in Seq(A) |-> IF n \in J THEN Append(x, s[n]) ELSE x]]
           Is(h) == h = [n \in 0 .. Len(s) |-> IF n = 0 THEN <<>>
                             ELSE IF n \in J THEN Append(h[n - 1], s[n]) ELSE h[n - 1]]
           c == CHOOSE h : Is(h)
<1>1. m \in Nat /\ <<>> \in Seq(A) /\ \A n \in 1 .. m : s[n] \in A
  OBVIOUS
<1>2. G \in [1 .. m -> [Seq(A) -> Seq(A)]]
  OBVIOUS
<1>3. \A n \in 1 .. m : \A x \in Seq(A) : G[n][x] = IF n \in J THEN Append(x, s[n]) ELSE x
  OBVIOUS
<1>4. PICK f : f \in [0 .. m -> Seq(A)] /\ f[0] = <<>> /\ \A n \in 1 .. m : f[n] = G[n][f[n - 1]]
  <2>1. Steps(G, Seq(A), m)
    BY <1>2 DEF Steps
  <2> HIDE DEF G, m, Is, c
  <2>2. \E f : Runs(f, G, Seq(A), m, <<>>)
    BY <1>1, <2>1, RunExists
  <2> QED BY <2>2 DEF Runs
<1> HIDE DEF G
<1>5. \A n \in 1 .. m : f[n] = IF n \in J THEN Append(f[n - 1], s[n]) ELSE f[n - 1]
  <2> TAKE n \in 1 .. m
  <2>1. f[n - 1] \in Seq(A)
    BY <1>1, <1>4
  <2> QED BY <1>3, <1>4, <2>1
<1>6. Is(f)
  <2> DEFINE r == [n \in 0 .. Len(s) |-> IF n = 0 THEN <<>>
                             ELSE IF n \in J THEN Append(f[n - 1], s[n]) ELSE f[n - 1]]
  <2>1. \A n \in 0 .. m : n = 0 \/ n \in 1 .. m
    BY <1>1
  <2>2. \A n \in 0 .. m : r[n] = f[n]
    BY <1>4, <1>5, <2>1
  <2> QED BY <1>4, <2>2
<1>7. Is(c)
  <2> HIDE DEF Is
  <2> QED BY <1>6
<1>8. Pick(s, J) = c[Len(s)]
  BY DEF Pick
<1> HIDE DEF c
<1>9. c[0] = <<>> /\ \A n \in 1 .. m : c[n] = IF n \in J THEN Append(c[n - 1], s[n]) ELSE c[n - 1]
  <2>1. 0 \in 0 .. m /\ \A n \in 1 .. m : n \in 0 .. m /\ n # 0
    BY <1>1
  <2> QED BY <1>7, <2>1
<1>10. c \in [0 .. m -> Seq(A)]
  <2> DEFINE S == {n \in 0 .. m : c[n] \in Seq(A)}
  <2>1. 0 \in S
    <3>1. 0 \in 0 .. m /\ c[0] \in Seq(A)
      BY <1>1, <1>9
    <3> QED BY <3>1
  <2>2. ASSUME NEW n \in 0 .. m - 1, n \in S PROVE n + 1 \in S
    <3>1. n + 1 \in 1 .. m /\ (n + 1) - 1 = n
      BY <1>1
    <3>2. c[n + 1] = IF n + 1 \in J THEN Append(c[n], s[n + 1]) ELSE c[n]
      BY <1>9, <3>1
    <3>3. c[n] \in Seq(A) /\ s[n + 1] \in A
      BY <1>1, <2>2, <3>1
    <3>4. Append(c[n], s[n + 1]) \in Seq(A)
      BY <3>3, AppendProperties
    <3>5. c[n + 1] \in Seq(A)
      BY <3>2, <3>3, <3>4
    <3> QED BY <3>1, <3>5
  <2> HIDE DEF S
  <2>3. \A n \in 0 .. m : n \in S
    BY <1>1, <2>1, <2>2, Upto
  <2>4. \A n \in 0 .. m : c[n] \in Seq(A)
    BY <2>3 DEF S
  <2>5. c = [n \in 0 .. m |-> c[n]]
    BY <1>7
  <2> QED BY <2>4, <2>5
<1> QED BY <1>8, <1>9, <1>10

\* What holds of a function at 0, and at n when it holds at n - 1.
LEMMA Typed ==
    ASSUME NEW T, NEW m \in Nat, NEW c, c[0] \in T,
           \A n \in 1 .. m : c[n - 1] \in T => c[n] \in T
    PROVE  \A n \in 0 .. m : c[n] \in T
<1> DEFINE S == {n \in 0 .. m : c[n] \in T}
<1>1. 0 \in S
  OBVIOUS
<1>2. ASSUME NEW n \in 0 .. m - 1, n \in S PROVE n + 1 \in S
  <2>1. n + 1 \in 1 .. m /\ (n + 1) - 1 = n
    OBVIOUS
  <2> QED BY <1>2, <2>1
<1> HIDE DEF S
<1>3. \A n \in 0 .. m : n \in S
  BY <1>1, <1>2, Upto
<1> QED BY <1>3 DEF S

\* A set of sequences that has the empty one, and all that append to one of it.
LEMMA SeqInduction ==
    ASSUME NEW T, NEW S, <<>> \in S, \A s \in Seq(T) : \A x \in T : s \in S => Append(s, x) \in S
    PROVE  \A s \in Seq(T) : s \in S
<1> TAKE s \in Seq(T)
<1> DEFINE Good == {n \in 0 .. Len(s) : SubSeq(s, 1, n) \in S}
<1>0. Len(s) \in Nat
  OBVIOUS
<1>1. 0 \in Good
  <2>1. SubSeq(s, 1, 0) = <<>>
    BY SubSeqEmpty
  <2>2. SubSeq(s, 1, 0) \in S
    BY <2>1
  <2>3. 0 \in 0 .. Len(s)
    BY <1>0
  <2> QED BY <2>2, <2>3
<1>2. ASSUME NEW n \in 0 .. Len(s) - 1, n \in Good PROVE n + 1 \in Good
  <2> DEFINE a == SubSeq(s, 1, n)
             b == SubSeq(s, 1, n + 1)
             c == Append(a, s[n + 1])
  <2>1. a \in Seq(T) /\ Len(a) = n /\ \A i \in 1 .. n : a[i] = s[i]
    <3>1. \A i \in 1 .. n : s[i] \in T
      BY <1>0
    <3>2. /\ SubSeq(s, 1, n) \in Seq(T)
          /\ Len(SubSeq(s, 1, n)) = IF 1 <= n THEN n - 1 + 1 ELSE 0
          /\ \A i \in 1 .. n - 1 + 1 : SubSeq(s, 1, n)[i] = s[1 + i - 1]
      BY <3>1, SubSeqProperties
    <3> QED BY <1>0, <3>2
  <2>2. b \in Seq(T) /\ Len(b) = n + 1 /\ \A i \in 1 .. n + 1 : b[i] = s[i]
    <3>1. \A i \in 1 .. n + 1 : s[i] \in T
      BY <1>0
    <3> DEFINE k == n + 1
    <3>2. k \in Nat /\ k >= 1
      OBVIOUS
    <3> HIDE DEF k
    <3>3. /\ SubSeq(s, 1, k) \in Seq(T)
          /\ Len(SubSeq(s, 1, k)) = IF 1 <= k THEN k - 1 + 1 ELSE 0
          /\ \A i \in 1 .. k - 1 + 1 : SubSeq(s, 1, k)[i] = s[1 + i - 1]
      BY <3>1, <3>2, SubSeqProperties DEF k
    <3> QED BY <3>2, <3>3 DEF k
  <2>3. s[n + 1] \in T
    BY <1>0
  <2> HIDE DEF a, b
  <2>4. /\ c \in Seq(T) /\ Len(c) = n + 1
        /\ \A i \in 1 .. n : c[i] = a[i]
        /\ c[n + 1] = s[n + 1]
    BY <2>1, <2>3, AppendProperties
  <2> HIDE DEF c
  <2>5. \A i \in 1 .. n + 1 : c[i] = b[i]
    <3> TAKE i \in 1 .. n + 1
    <3>1. i = n + 1 \/ i \in 1 .. n
      OBVIOUS
    <3> QED BY <2>1, <2>2, <2>4, <3>1
  <2>6. c = b
    BY <2>2, <2>4, <2>5, SeqEqual
  <2>7. a \in S
    BY <1>2 DEF a
  <2>8. c \in S
    BY <2>1, <2>3, <2>7 DEF c
  <2> QED BY <1>0, <2>6, <2>8 DEF b
<1>3. Len(s) \in Good
  <2> HIDE DEF Good
  <2> DEFINE l == Len(s)
  <2>1. \A n \in 0 .. l : n \in Good
    BY <1>0, <1>1, <1>2, Upto
  <2> QED BY <1>0, <2>1
<1>4. SubSeq(s, 1, Len(s)) = s
  BY SubSeqFull
<1> QED BY <1>3, <1>4

-----------------------------------------------------------------------------
(* The parts of a list, in their order.                                    *)

Site == [mi : Nat, ci : Nat, part : Part]

SitesOf(m, n) == [j \in DOMAIN m.parts |-> [mi |-> n, ci |-> j, part |-> m.parts[j]]]

\* The sites of one message.
LEMMA SitesOfIs ==
    ASSUME NEW m \in Message, NEW n \in Nat
    PROVE  /\ SitesOf(m, n) \in Seq(Site) /\ Len(SitesOf(m, n)) = Len(m.parts)
           /\ Len(m.parts) \in Nat
           /\ \A j \in 1 .. Len(m.parts) :
                SitesOf(m, n)[j] = [mi |-> n, ci |-> j, part |-> m.parts[j]]
<1>1. m.parts \in Seq(Part)
  BY DEF Message
<1>2. Len(m.parts) \in Nat /\ DOMAIN m.parts = 1 .. Len(m.parts)
  BY <1>1
<1>3. \A j \in 1 .. Len(m.parts) : [mi |-> n, ci |-> j, part |-> m.parts[j]] \in Site
  BY <1>1 DEF Site
<1>4. SitesOf(m, n) \in [1 .. Len(m.parts) -> Site]
  BY <1>2, <1>3 DEF SitesOf
<1> QED BY <1>2, <1>4, LenProperties, SeqDef DEF SitesOf

\* Sites is a run over the messages.
LEMMA SitesIs ==
    ASSUME NEW ms \in Seq(Message)
    PROVE  \E f : /\ Sites(ms) = f[Len(ms)] /\ f[0] = <<>>
                  /\ \A n \in 0 .. Len(ms) : f[n] \in Seq(Site)
                  /\ \A n \in 1 .. Len(ms) : f[n] = f[n - 1] \o SitesOf(ms[n], n)
<1> DEFINE m == Len(ms)
           W == Seq(Site)
           b == <<>>
           G == [n \in 1 .. m |-> [x \in W |-> x \o SitesOf(ms[n], n)]]
           Is(h) == h = [n \in 0 .. Len(ms) |-> IF n = 0 THEN <<>>
                             ELSE h[n - 1] \o [j \in DOMAIN ms[n].parts |->
                               [mi |-> n, ci |-> j, part |-> ms[n].parts[j]]]]
           c == CHOOSE h : Is(h)
<1>1. m \in Nat
  OBVIOUS
<1>2. \A n \in 1 .. m : SitesOf(ms[n], n) \in Seq(Site)
  BY SitesOfIs
<1>3. G \in [1 .. m -> [W -> W]]
  <2>1. \A n \in 1 .. m : \A x \in W : x \o SitesOf(ms[n], n) \in W
    BY <1>2, ConcatProperties
  <2> QED BY <2>1
<1>4. \A n \in 1 .. m : \A x \in W : G[n][x] = x \o SitesOf(ms[n], n)
  OBVIOUS
<1>5. b \in W
  OBVIOUS
<1>6. PICK f : f \in [0 .. m -> W] /\ f[0] = b /\ \A n \in 1 .. m : f[n] = G[n][f[n - 1]]
  <2>1. Steps(G, W, m)
    BY <1>3 DEF Steps
  <2> HIDE DEF G, m, W, b, Is, c
  <2>2. \E f : Runs(f, G, W, m, b)
    BY <1>1, <1>5, <2>1, RunExists
  <2> QED BY <2>2 DEF Runs
<1> HIDE DEF G
<1>7. \A n \in 1 .. m : f[n] = f[n - 1] \o SitesOf(ms[n], n)
  <2> TAKE n \in 1 .. m
  <2>1. f[n - 1] \in W
    BY <1>1, <1>6
  <2> QED BY <1>4, <1>6, <2>1
<1>8. Is(f)
  <2> DEFINE r == [n \in 0 .. Len(ms) |-> IF n = 0 THEN <<>>
                             ELSE f[n - 1] \o [j \in DOMAIN ms[n].parts |->
                               [mi |-> n, ci |-> j, part |-> ms[n].parts[j]]]]
  <2>1. \A n \in 0 .. m : n = 0 \/ n \in 1 .. m
    BY <1>1
  <2>2. \A n \in 0 .. m : r[n] = f[n]
    BY <1>6, <1>7, <2>1 DEF SitesOf
  <2> QED BY <1>6, <2>2
<1>9. Is(c)
  <2> HIDE DEF Is
  <2> QED BY <1>8
<1>10. Sites(ms) = c[Len(ms)]
  BY DEF Sites
<1> HIDE DEF c
<1>11. c[0] = <<>> /\ \A n \in 1 .. m : c[n] = c[n - 1] \o SitesOf(ms[n], n)
  <2>1. 0 \in 0 .. m /\ \A n \in 1 .. m : n \in 0 .. m /\ n # 0
    BY <1>1
  <2> QED BY <1>9, <2>1 DEF SitesOf
<1>12. \A n \in 0 .. m : c[n] \in W
  <2>1. c[0] \in W
    BY <1>11
  <2>2. \A n \in 1 .. m : c[n - 1] \in W => c[n] \in W
    BY <1>2, <1>11, ConcatProperties
  <2> HIDE DEF W, m, Is
  <2> QED BY <1>1, <2>1, <2>2, Typed
<1> QED BY <1>10, <1>11, <1>12

\* The sites of a longer list.
LEMMA SitesAppend ==
    /\ Sites(<<>>) = <<>>
    /\ \A ms \in Seq(Message) : \A m \in Message :
         /\ Sites(ms) \in Seq(Site)
         /\ Sites(Append(ms, m)) = Sites(ms) \o SitesOf(m, Len(ms) + 1)
<1>1. Sites(<<>>) = <<>>
  <2>1. <<>> \in Seq(Message) /\ Len(<<>>) = 0
    OBVIOUS
  <2>2. PICK f : Sites(<<>>) = f[Len(<<>>)] /\ f[0] = <<>>
    BY <2>1, SitesIs
  <2> QED BY <2>1, <2>2
<1>2. ASSUME NEW ms \in Seq(Message), NEW m \in Message
      PROVE  /\ Sites(ms) \in Seq(Site)
             /\ Sites(Append(ms, m)) = Sites(ms) \o SitesOf(m, Len(ms) + 1)
  <2> DEFINE t == Append(ms, m)
             l == Len(ms)
  <2>1. t \in Seq(Message) /\ Len(t) = l + 1 /\ l \in Nat /\ t[l + 1] = m
    BY AppendProperties
  <2>2. \A n \in 1 .. l : t[n] = ms[n]
    BY AppendProperties
  <2>3. PICK f : /\ Sites(ms) = f[Len(ms)] /\ f[0] = <<>>
                 /\ \A n \in 0 .. Len(ms) : f[n] \in Seq(Site)
                 /\ \A n \in 1 .. Len(ms) : f[n] = f[n - 1] \o SitesOf(ms[n], n)
    BY SitesIs
  <2> HIDE DEF t
  <2>4. PICK g : /\ Sites(t) = g[Len(t)] /\ g[0] = <<>>
                 /\ \A n \in 0 .. Len(t) : g[n] \in Seq(Site)
                 /\ \A n \in 1 .. Len(t) : g[n] = g[n - 1] \o SitesOf(t[n], n)
    BY <2>1, SitesIs
  <2> DEFINE Same == {n \in 0 .. l : g[n] = f[n]}
  <2>5. 0 \in Same
    BY <2>1, <2>3, <2>4
  <2>6. ASSUME NEW n \in 0 .. l - 1, n \in Same PROVE n + 1 \in Same
    <3>1. n + 1 \in 1 .. l /\ n + 1 \in 1 .. Len(t) /\ (n + 1) - 1 = n
      BY <2>1
    <3>2. g[n + 1] = g[n] \o SitesOf(t[n + 1], n + 1) /\ f[n + 1] = f[n] \o SitesOf(ms[n + 1], n + 1)
      BY <2>3, <2>4, <3>1
    <3>3. g[n] = f[n] /\ t[n + 1] = ms[n + 1]
      BY <2>2, <2>6, <3>1
    <3>4. g[n + 1] = f[n + 1] /\ n + 1 \in 0 .. l
      BY <3>1, <3>2, <3>3
    <3> HIDE DEF l
    <3> QED BY <3>4
  <2>7. \A n \in 0 .. l : n \in Same
    <3> HIDE DEF Same, l
    <3>1. l \in Nat
      BY <2>1
    <3> QED BY <2>5, <2>6, <3>1, Upto
  <2>8. g[l] = f[l] /\ Sites(ms) = f[l] /\ Sites(t) = g[l + 1]
    BY <2>1, <2>3, <2>4, <2>7
  <2>9. g[l + 1] = g[l] \o SitesOf(m, l + 1)
    <3>1. l + 1 \in 1 .. Len(t) /\ (l + 1) - 1 = l
      BY <2>1
    <3> QED BY <2>1, <2>4, <3>1
  <2>10. Sites(ms) \in Seq(Site)
    BY <2>1, <2>3
  <2> QED BY <2>8, <2>9, <2>10 DEF t
<1> QED BY <1>1, <1>2

Flat(ms) == [n \in DOMAIN Sites(ms) |-> Sites(ms)[n].part]

\* The parts of a list are those at its sites.
LEMMA FlatIs ==
    ASSUME NEW ms \in Seq(Message)
    PROVE  /\ Sites(ms) \in Seq(Site)
           /\ Flat(ms) \in Seq(Part) /\ Len(Flat(ms)) = Len(Sites(ms)) /\ Len(Flat(ms)) \in Nat
           /\ \A n \in 1 .. Len(Sites(ms)) : Flat(ms)[n] = Sites(ms)[n].part
<1>1. Sites(ms) \in Seq(Site)
  <2>1. PICK f : /\ Sites(ms) = f[Len(ms)] /\ f[0] = <<>>
                 /\ \A n \in 0 .. Len(ms) : f[n] \in Seq(Site)
                 /\ \A n \in 1 .. Len(ms) : f[n] = f[n - 1] \o SitesOf(ms[n], n)
    BY SitesIs
  <2> QED BY <2>1
<1>2. Len(Sites(ms)) \in Nat /\ DOMAIN Sites(ms) = 1 .. Len(Sites(ms))
  BY <1>1
<1>3. \A n \in 1 .. Len(Sites(ms)) : Sites(ms)[n].part \in Part
  <2>1. \A n \in 1 .. Len(Sites(ms)) : Sites(ms)[n] \in Site
    BY <1>1
  <2> QED BY <2>1 DEF Site
<1>4. Flat(ms) \in [1 .. Len(Sites(ms)) -> Part]
  BY <1>2, <1>3 DEF Flat
<1> QED BY <1>1, <1>2, <1>4, LenProperties, SeqDef DEF Flat

\* The parts of a list with one more message.
LEMMA FlatAppend ==
    /\ Flat(<<>>) = <<>>
    /\ \A ms \in Seq(Message) : \A m \in Message : Flat(Append(ms, m)) = Flat(ms) \o m.parts
<1>1. Flat(<<>>) = <<>>
  <2>1. <<>> \in Seq(Message) /\ Len(<<>>) = 0
    OBVIOUS
  <2>2. Len(Flat(<<>>)) = 0 /\ Flat(<<>>) \in Seq(Part)
    BY <2>1, FlatIs, SitesAppend
  <2> QED BY <2>2, EmptySeq
<1>2. ASSUME NEW ms \in Seq(Message), NEW m \in Message
      PROVE  Flat(Append(ms, m)) = Flat(ms) \o m.parts
  <2> DEFINE t == Append(ms, m)
             a == Flat(t)
             b == Flat(ms) \o m.parts
             x == Sites(ms)
             y == SitesOf(m, Len(ms) + 1)
             z == x \o y
  <2>1. t \in Seq(Message) /\ Len(ms) + 1 \in Nat
    BY AppendProperties
  <2>2. Sites(t) = z
    BY SitesAppend
  <2>3. /\ y \in Seq(Site) /\ Len(y) = Len(m.parts) /\ Len(m.parts) \in Nat
        /\ \A j \in 1 .. Len(m.parts) : y[j].part = m.parts[j]
    <3> DEFINE k == Len(ms) + 1
    <3>1. k \in Nat
      BY <2>1
    <3> HIDE DEF k
    <3>2. /\ SitesOf(m, k) \in Seq(Site) /\ Len(SitesOf(m, k)) = Len(m.parts)
          /\ Len(m.parts) \in Nat
          /\ \A j \in 1 .. Len(m.parts) :
               SitesOf(m, k)[j] = [mi |-> k, ci |-> j, part |-> m.parts[j]]
      BY <3>1, SitesOfIs
    <3>3. \A j \in 1 .. Len(m.parts) : SitesOf(m, k)[j].part = m.parts[j]
      <4> TAKE j \in 1 .. Len(m.parts)
      <4>1. SitesOf(m, k)[j] = [mi |-> k, ci |-> j, part |-> m.parts[j]]
        BY <3>2
      <4> QED BY <4>1
    <3> QED BY <3>2, <3>3 DEF k
  <2>4. /\ x \in Seq(Site) /\ Flat(ms) \in Seq(Part) /\ Len(Flat(ms)) = Len(x)
        /\ Len(x) \in Nat
        /\ \A n \in 1 .. Len(x) : Flat(ms)[n] = x[n].part
    BY FlatIs
  <2> HIDE DEF t, x, y
  <2>5. /\ a \in Seq(Part) /\ Len(a) = Len(Sites(t))
        /\ \A n \in 1 .. Len(Sites(t)) : a[n] = Sites(t)[n].part
    BY <2>1, FlatIs
  <2> HIDE DEF a
  <2>6. /\ Len(z) = Len(x) + Len(y)
        /\ \A n \in 1 .. Len(x) + Len(y) : z[n] = IF n <= Len(x) THEN x[n] ELSE y[n - Len(x)]
    <3>1. x \in Seq(Site)
      BY <2>4
    <3>2. y \in Seq(Site)
      BY <2>3
    <3> QED BY <3>1, <3>2, ConcatProperties
  <2> HIDE DEF z
  <2>7. m.parts \in Seq(Part)
    BY DEF Message
  <2>8. /\ b \in Seq(Part) /\ Len(b) = Len(x) + Len(y)
        /\ \A n \in 1 .. Len(x) + Len(y) :
             b[n] = IF n <= Len(x) THEN Flat(ms)[n] ELSE m.parts[n - Len(x)]
    <3> DEFINE f == Flat(ms)
               g == m.parts
    <3>1. f \in Seq(Part)
      BY <2>4
    <3>2. g \in Seq(Part)
      BY <2>7
    <3>3. Len(f) = Len(x) /\ Len(g) = Len(y)
      BY <2>3, <2>4
    <3> HIDE DEF f, g
    <3>4. /\ f \o g \in Seq(Part) /\ Len(f \o g) = Len(f) + Len(g)
          /\ \A n \in 1 .. Len(f) + Len(g) : (f \o g)[n] = IF n <= Len(f) THEN f[n] ELSE g[n - Len(f)]
      BY <3>1, <3>2, ConcatProperties
    <3> QED BY <3>3, <3>4 DEF f, g
  <2> HIDE DEF b
  <2>9. \A n \in 1 .. Len(x) + Len(y) : a[n] = b[n]
    <3> TAKE n \in 1 .. Len(x) + Len(y)
    <3>1. a[n] = z[n].part
      BY <2>2, <2>5, <2>6
    <3>2. CASE n <= Len(x)
      <4>1. n \in 1 .. Len(x)
        BY <3>2
      <4> QED BY <2>4, <2>6, <2>8, <3>1, <3>2, <4>1
    <3>3. CASE n > Len(x)
      <4>1. n - Len(x) \in 1 .. Len(m.parts) /\ ~ (n <= Len(x))
        BY <2>3, <2>4, <3>3
      <4>2. z[n] = y[n - Len(x)] /\ b[n] = m.parts[n - Len(x)]
        BY <2>6, <2>8, <4>1
      <4> QED BY <2>3, <3>1, <4>1, <4>2
    <3> QED BY <2>4, <3>2, <3>3
  <2>10. Len(a) = Len(b)
    BY <2>2, <2>5, <2>6, <2>8
  <2>11. a = b
    BY <2>5, <2>8, <2>9, <2>10, SeqEqual
  <2> QED BY <2>11 DEF a, b, t
<1> QED BY <1>1, <1>2

\* Appending to what is behind a is appending to all of it.
LEMMA ConcatAppend ==
    \A T : \A a, s \in Seq(T) : \A x \in T : a \o Append(s, x) = Append(a \o s, x)
<1> SUFFICES ASSUME NEW T, NEW a \in Seq(T), NEW s \in Seq(T), NEW x \in T
             PROVE  a \o Append(s, x) = Append(a \o s, x)
  OBVIOUS
<1> DEFINE u == <<x>>
<1>1. u \in Seq(T)
  OBVIOUS
<1>2. Append(s, x) = s \o u
  BY AppendIsConcat
<1>3. a \o s \in Seq(T)
  BY ConcatProperties
<1>4. Append(a \o s, x) = (a \o s) \o u
  BY <1>3, AppendIsConcat
<1> HIDE DEF u
<1>5. (a \o s) \o u = a \o (s \o u)
  BY <1>1, ConcatAssociative, SMTT(20)
<1> QED BY <1>2, <1>4, <1>5

\* The parts and the first sites of two lists in one.
LEMMA FlatConcat ==
    ASSUME NEW a \in Seq(Message)
    PROVE  \A b \in Seq(Message) :
             /\ Flat(a \o b) = Flat(a) \o Flat(b)
             /\ Len(Sites(a)) <= Len(Sites(a \o b))
             /\ \A n \in 1 .. Len(Sites(a)) : Sites(a \o b)[n] = Sites(a)[n]
<1> DEFINE Good == {b \in Seq(Message) :
                      /\ Flat(a \o b) = Flat(a) \o Flat(b)
                      /\ Len(Sites(a)) <= Len(Sites(a \o b))
                      /\ \A n \in 1 .. Len(Sites(a)) : Sites(a \o b)[n] = Sites(a)[n]}
<1>0. /\ Sites(a) \in Seq(Site) /\ Flat(a) \in Seq(Part) /\ Len(Sites(a)) \in Nat
  BY FlatIs
<1>1. <<>> \in Good
  <2>1. a \o <<>> = a /\ Flat(a) \o <<>> = Flat(a)
    BY <1>0, ConcatEmptySeq
  <2>2. Flat(<<>>) = <<>> /\ <<>> \in Seq(Message)
    BY FlatAppend
  <2> QED BY <1>0, <2>1, <2>2
<1>2. ASSUME NEW b \in Seq(Message), NEW m \in Message, b \in Good PROVE Append(b, m) \in Good
  <2> DEFINE c == a \o b
             d == Append(b, m)
  <2>1. c \in Seq(Message) /\ d \in Seq(Message)
    BY ConcatProperties, AppendProperties
  <2>2. a \o d = Append(c, m)
    BY ConcatAppend
  <2>3. /\ Flat(c) = Flat(a) \o Flat(b) /\ Len(Sites(a)) <= Len(Sites(c))
        /\ \A n \in 1 .. Len(Sites(a)) : Sites(c)[n] = Sites(a)[n]
    BY <1>2
  <2>4. Flat(d) = Flat(b) \o m.parts
    BY FlatAppend
  <2> HIDE DEF c, d
  <2>5. Flat(Append(c, m)) = Flat(c) \o m.parts
    BY <2>1, FlatAppend
  <2>6. m.parts \in Seq(Part) /\ Flat(b) \in Seq(Part)
    BY FlatIs DEF Message
  <2>7. (Flat(a) \o Flat(b)) \o m.parts = Flat(a) \o (Flat(b) \o m.parts)
    <3> DEFINE x == Flat(a)
               y == Flat(b)
               z == m.parts
    <3>1. x \in Seq(Part)
      BY <1>0
    <3>2. y \in Seq(Part)
      BY <2>6
    <3>3. z \in Seq(Part)
      BY <2>6
    <3> HIDE DEF x, y, z
    <3>4. (x \o y) \o z = x \o (y \o z)
      BY <3>1, <3>2, <3>3, PartsAssociative, Zenon
    <3> QED BY <3>4 DEF x, y, z
  <2>8. Flat(a \o d) = Flat(a) \o Flat(d)
    BY <2>2, <2>3, <2>4, <2>5, <2>7
  <2>9. /\ Len(Sites(a)) <= Len(Sites(a \o d))
        /\ \A n \in 1 .. Len(Sites(a)) : Sites(a \o d)[n] = Sites(a)[n]
    <3> DEFINE x == Sites(c)
               y == SitesOf(m, Len(c) + 1)
    <3>1. Sites(a \o d) = x \o y /\ x \in Seq(Site)
      BY <2>1, <2>2, SitesAppend
    <3>2. y \in Seq(Site) /\ Len(y) \in Nat
      <4>1. Len(c) + 1 \in Nat
        BY <2>1
      <4> QED BY <4>1, SitesOfIs
    <3> HIDE DEF x, y
    <3>3. /\ Len(x \o y) = Len(x) + Len(y)
          /\ \A n \in 1 .. Len(x) + Len(y) : (x \o y)[n] = IF n <= Len(x) THEN x[n] ELSE y[n - Len(x)]
      BY <3>1, <3>2, ConcatProperties
    <3>4. Len(x) \in Nat /\ Len(Sites(a)) <= Len(x)
      BY <2>3, <3>1 DEF x
    <3>5. \A n \in 1 .. Len(Sites(a)) : (x \o y)[n] = x[n]
      BY <1>0, <3>2, <3>3, <3>4
    <3> QED BY <1>0, <2>3, <3>1, <3>2, <3>3, <3>4, <3>5 DEF x
  <2> QED BY <2>1, <2>8, <2>9 DEF d
<1> HIDE DEF Good
<1>3. \A b \in Seq(Message) : b \in Good
  BY <1>1, <1>2, SeqInduction
<1> QED BY <1>3 DEF Good

\* A site is where its part is, and sites of one message come in its order.
LEMMA SitesOrder ==
    \A ms \in Seq(Message) :
      \A n \in 1 .. Len(Sites(ms)) :
        /\ Sites(ms)[n].mi \in 1 .. Len(ms)
        /\ Sites(ms)[n].ci \in 1 .. Len(ms[Sites(ms)[n].mi].parts)
        /\ Sites(ms)[n].part = ms[Sites(ms)[n].mi].parts[Sites(ms)[n].ci]
        /\ \A k \in 1 .. n - 1 : Sites(ms)[k].mi = Sites(ms)[n].mi => Sites(ms)[k].ci < Sites(ms)[n].ci
<1> DEFINE At(ms, n) ==
             /\ Sites(ms)[n].mi \in 1 .. Len(ms)
             /\ Sites(ms)[n].ci \in 1 .. Len(ms[Sites(ms)[n].mi].parts)
             /\ Sites(ms)[n].part = ms[Sites(ms)[n].mi].parts[Sites(ms)[n].ci]
             /\ \A k \in 1 .. n - 1 :
                  Sites(ms)[k].mi = Sites(ms)[n].mi => Sites(ms)[k].ci < Sites(ms)[n].ci
           Good == {ms \in Seq(Message) : \A n \in 1 .. Len(Sites(ms)) : At(ms, n)}
<1>1. <<>> \in Good
  <2>1. Len(Sites(<<>>)) = 0
    BY SitesAppend
  <2> QED BY <2>1
<1>2. ASSUME NEW ms \in Seq(Message), NEW m \in Message, ms \in Good PROVE Append(ms, m) \in Good
  <2> DEFINE t == Append(ms, m)
             l == Len(ms)
             x == Sites(ms)
             y == SitesOf(m, l + 1)
             z == x \o y
  <2>1. t \in Seq(Message) /\ Len(t) = l + 1 /\ l \in Nat /\ t[l + 1] = m
        /\ \A i \in 1 .. l : t[i] = ms[i]
    BY AppendProperties
  <2>2. Sites(t) = z /\ x \in Seq(Site)
    BY SitesAppend
  <2>3. /\ y \in Seq(Site) /\ Len(y) = Len(m.parts) /\ Len(m.parts) \in Nat
        /\ \A j \in 1 .. Len(m.parts) : y[j] = [mi |-> l + 1, ci |-> j, part |-> m.parts[j]]
    BY <2>1, SitesOfIs
  <2>4. \A n \in 1 .. Len(x) : At(ms, n)
    BY <1>2
  <2> HIDE DEF t, y, x
  <2>5. /\ Len(z) = Len(x) + Len(y)
        /\ \A n \in 1 .. Len(x) + Len(y) : z[n] = IF n <= Len(x) THEN x[n] ELSE y[n - Len(x)]
    <3>1. x \in Seq(Site)
      BY <2>2
    <3>2. y \in Seq(Site)
      BY <2>3
    <3> QED BY <3>1, <3>2, ConcatProperties
  <2>6. Len(x) \in Nat
    BY <2>2
  <2> HIDE DEF z
  <2>7. \A n \in 1 .. Len(x) : /\ z[n] = x[n] /\ x[n].mi \in 1 .. l
                               /\ x[n].ci \in 1 .. Len(ms[x[n].mi].parts)
                               /\ x[n].part = ms[x[n].mi].parts[x[n].ci]
                               /\ \A k \in 1 .. n - 1 : x[k].mi = x[n].mi => x[k].ci < x[n].ci
    <3> TAKE n \in 1 .. Len(x)
    <3>1. At(ms, n)
      BY <2>4
    <3>2. z[n] = x[n]
      BY <2>3, <2>5, <2>6
    <3> QED BY <3>1, <3>2 DEF x
  <2>8. ASSUME NEW n \in 1 .. Len(z) PROVE At(t, n)
    <3>1. CASE n <= Len(x)
      <4>1. n \in 1 .. Len(x) /\ z[n].mi \in 1 .. l /\ z[n].mi \in 1 .. Len(t)
        BY <2>1, <2>6, <2>7, <3>1
      <4>2. t[z[n].mi] = ms[z[n].mi]
        BY <2>1, <4>1
      <4>3. z[n].ci \in 1 .. Len(t[z[n].mi].parts) /\ z[n].part = t[z[n].mi].parts[z[n].ci]
        <5>1. /\ z[n] = x[n] /\ x[n].ci \in 1 .. Len(ms[x[n].mi].parts)
              /\ x[n].part = ms[x[n].mi].parts[x[n].ci]
          BY <2>7, <4>1
        <5> QED BY <4>2, <5>1
      <4>4. \A k \in 1 .. n - 1 : z[k].mi = z[n].mi => z[k].ci < z[n].ci
        <5> TAKE k \in 1 .. n - 1
        <5>1. k \in 1 .. Len(x)
          BY <2>6, <4>1
        <5>2. z[k] = x[k] /\ z[n] = x[n] /\ (x[k].mi = x[n].mi => x[k].ci < x[n].ci)
          BY <2>7, <4>1, <5>1
        <5> QED BY <5>2
      <4> QED BY <2>2, <4>1, <4>3, <4>4
    <3>2. CASE n > Len(x)
      <4> DEFINE j == n - Len(x)
      <4>1. j \in 1 .. Len(m.parts) /\ n \in 1 .. Len(x) + Len(y) /\ ~ (n <= Len(x))
        BY <2>3, <2>5, <2>6, <3>2
      <4>2. z[n] = [mi |-> l + 1, ci |-> j, part |-> m.parts[j]]
        BY <2>3, <2>5, <4>1
      <4> HIDE DEF j
      <4>3. z[n].mi = l + 1 /\ z[n].ci = j /\ z[n].part = m.parts[j]
        BY <4>2
      <4>4. \A k \in 1 .. n - 1 : z[k].mi = z[n].mi => z[k].ci < z[n].ci
        <5> TAKE k \in 1 .. n - 1
        <5>1. CASE k <= Len(x)
          <6>1. k \in 1 .. Len(x)
            BY <5>1
          <6>2. z[k].mi \in 1 .. l
            BY <2>7, <6>1
          <6> QED BY <2>1, <4>3, <6>2
        <5>2. CASE k > Len(x)
          <6>1. k - Len(x) \in 1 .. Len(m.parts) /\ k \in 1 .. Len(x) + Len(y) /\ ~ (k <= Len(x))
                /\ k - Len(x) < j
            BY <2>3, <2>6, <4>1, <5>2 DEF j
          <6>2. z[k] = [mi |-> l + 1, ci |-> k - Len(x), part |-> m.parts[k - Len(x)]]
            BY <2>3, <2>5, <6>1
          <6>3. z[k].ci = k - Len(x)
            BY <6>2
          <6> QED BY <4>3, <6>1, <6>3
        <5> QED BY <2>6, <5>1, <5>2
      <4>5. z[n].mi \in 1 .. Len(t) /\ t[z[n].mi] = m
        BY <2>1, <4>3
      <4> QED BY <2>2, <4>1, <4>3, <4>4, <4>5
    <3> QED BY <2>6, <3>1, <3>2
  <2> HIDE DEF At
  <2> QED BY <2>1, <2>2, <2>8 DEF t
<1>3. \A ms \in Seq(Message) : ms \in Good
  <2> HIDE DEF Good
  <2> QED BY <1>1, <1>2, SeqInduction
<1> QED BY <1>3

-----------------------------------------------------------------------------
(* Pairing.                                                                *)

PairState(N) == [open : SUBSET (1 .. N), pairs : SUBSET [call : 1 .. N, result : 1 .. N]]

SameId(ps, open, n) == {o \in open : ps[o].id = ps[n].id}

\* The result at n was matched with the latest open call of its id.
Matched(ps, acc, n, new) ==
    \E m \in SameId(ps, acc.open, n) :
      /\ \A o \in SameId(ps, acc.open, n) : o <= m
      /\ new = [open |-> acc.open \ {m}, pairs |-> acc.pairs \cup {[call |-> m, result |-> n]}]

\* The part at n opens nothing and closes nothing.
Unmatched(ps, acc, n) ==
    ps[n].kind # "call" /\ ~ (ps[n].kind = "result" /\ SameId(ps, acc.open, n) # {})

\* What a step of pairing does, by the part it is at.
LEMMA PairPartIs ==
    ASSUME NEW N \in Nat, NEW ps, NEW acc \in PairState(N), NEW n \in 1 .. N
    PROVE  /\ PairPart(ps, acc, n) \in PairState(N)
           /\ ps[n].kind = "call" =>
                PairPart(ps, acc, n) = [open |-> acc.open \cup {n}, pairs |-> acc.pairs]
           /\ ps[n].kind = "result" /\ SameId(ps, acc.open, n) # {} =>
                Matched(ps, acc, n, PairPart(ps, acc, n))
           /\ Unmatched(ps, acc, n) => PairPart(ps, acc, n) = acc
<1>1. acc.open \in SUBSET (1 .. N) /\ acc.pairs \in SUBSET [call : 1 .. N, result : 1 .. N]
      /\ acc = [open |-> acc.open, pairs |-> acc.pairs]
  BY DEF PairState
<1>2. CASE ps[n].kind = "call"
  <2>1. PairPart(ps, acc, n) = [open |-> acc.open \cup {n}, pairs |-> acc.pairs]
    BY <1>1, <1>2 DEF PairPart
  <2>2. PairPart(ps, acc, n) \in PairState(N)
    BY <1>1, <2>1 DEF PairState
  <2> QED BY <1>2, <2>1, <2>2 DEF Unmatched
<1>3. CASE ps[n].kind = "result" /\ SameId(ps, acc.open, n) # {}
  <2> DEFINE S == SameId(ps, acc.open, n)
             m == Max(S)
  <2>1. S \in SUBSET (0 .. N) /\ S # {}
    BY <1>1, <1>3 DEF SameId
  <2>2. m \in S /\ \A o \in S : o <= m
    <3> HIDE DEF S
    <3> QED BY <2>1, MaxOf
  <2>3. PairPart(ps, acc, n) = [open |-> acc.open \ {m},
                                pairs |-> acc.pairs \cup {[call |-> m, result |-> n]}]
    BY <1>1, <1>3 DEF PairPart, SameId
  <2>4. m \in acc.open
    BY <2>2 DEF SameId
  <2> HIDE DEF m
  <2>5. [call |-> m, result |-> n] \in [call : 1 .. N, result : 1 .. N]
    BY <1>1, <2>4
  <2>6. PairPart(ps, acc, n) \in PairState(N)
    BY <1>1, <2>3, <2>5 DEF PairState
  <2>7. Matched(ps, acc, n, PairPart(ps, acc, n))
    BY <2>2, <2>3 DEF Matched
  <2> HIDE DEF S
  <2> QED BY <1>3, <2>6, <2>7 DEF Unmatched
<1>4. CASE ps[n].kind # "call" /\ ~ (ps[n].kind = "result" /\ SameId(ps, acc.open, n) # {})
  <2>1. PairPart(ps, acc, n) = acc
    BY <1>4 DEF PairPart, SameId
  <2> QED BY <1>4, <2>1 DEF Unmatched
<1> QED BY <1>2, <1>3, <1>4 DEF Unmatched

\* A part that is neither a call nor answers one changes nothing.
LEMMA PairPartUnmatched ==
    \A ps, acc, n : Unmatched(ps, acc, n) => PairPart(ps, acc, n) = acc
BY DEF Unmatched, PairPart, SameId

\* Pairing is a run over the parts.
LEMMA PairPartsIs ==
    ASSUME NEW ps, NEW N \in Nat, N = Len(ps)
    PROVE  \E f : /\ PairParts(ps) = f[N] /\ f[0] = [open |-> {}, pairs |-> {}]
                  /\ \A n \in 0 .. N : f[n] \in PairState(N)
                  /\ \A n \in 1 .. N : f[n] = PairPart(ps, f[n - 1], n)
<1> DEFINE W == PairState(N)
           b == [open |-> {}, pairs |-> {}]
           G == [n \in 1 .. N |-> [x \in W |-> PairPart(ps, x, n)]]
           Is(h) == h = [n \in 0 .. Len(ps) |->
                           IF n = 0 THEN [open |-> {}, pairs |-> {}] ELSE PairPart(ps, h[n - 1], n)]
           c == CHOOSE h : Is(h)
<1>1. b \in W
  BY DEF PairState
<1>2. \A n \in 1 .. N : \A x \in W : PairPart(ps, x, n) \in W
  BY PairPartIs
<1>3. G \in [1 .. N -> [W -> W]]
  <2> HIDE DEF W
  <2> QED BY <1>2
<1>4. \A n \in 1 .. N : \A x \in W : G[n][x] = PairPart(ps, x, n)
  OBVIOUS
<1>5. PICK f : f \in [0 .. N -> W] /\ f[0] = b /\ \A n \in 1 .. N : f[n] = G[n][f[n - 1]]
  <2>1. Steps(G, W, N)
    BY <1>3 DEF Steps
  <2> HIDE DEF G, W, b, Is, c
  <2>2. \E f : Runs(f, G, W, N, b)
    BY <1>1, <2>1, RunExists
  <2> QED BY <2>2 DEF Runs
<1> HIDE DEF G, W
<1>6. \A n \in 1 .. N : f[n] = PairPart(ps, f[n - 1], n)
  <2> TAKE n \in 1 .. N
  <2>1. f[n - 1] \in W
    BY <1>5
  <2> QED BY <1>4, <1>5, <2>1
<1>7. Is(f)
  <2> DEFINE r == [n \in 0 .. Len(ps) |->
                     IF n = 0 THEN [open |-> {}, pairs |-> {}] ELSE PairPart(ps, f[n - 1], n)]
  <2>1. \A n \in 0 .. N : n = 0 \/ n \in 1 .. N
    OBVIOUS
  <2>2. \A n \in 0 .. N : r[n] = f[n]
    BY <1>5, <1>6, <2>1
  <2> QED BY <1>5, <2>2
<1>8. Is(c)
  <2> HIDE DEF Is
  <2> QED BY <1>7
<1>9. PairParts(ps) = c[N]
  BY DEF PairParts
<1> HIDE DEF c
<1>10. c[0] = b /\ \A n \in 1 .. N : c[n] = PairPart(ps, c[n - 1], n)
  <2>1. 0 \in 0 .. N /\ \A n \in 1 .. N : n \in 0 .. N /\ n # 0
    OBVIOUS
  <2> QED BY <1>8, <2>1
<1>11. \A n \in 0 .. N : c[n] \in W
  <2>1. c[0] \in W
    BY <1>1, <1>10
  <2>2. \A n \in 1 .. N : c[n - 1] \in W => c[n] \in W
    BY <1>2, <1>10
  <2> HIDE DEF Is
  <2> QED BY <2>1, <2>2, Typed
<1> QED BY <1>9, <1>10, <1>11 DEF W

\* What pairing has found among the first n parts.
PairInv(ps, acc, n) ==
    /\ \A o \in acc.open : o \in 1 .. n /\ ps[o].kind = "call"
    /\ \A p \in acc.pairs :
         /\ p.call \in 1 .. n /\ p.result \in 1 .. n /\ p.call < p.result
         /\ ps[p.call].kind = "call" /\ ps[p.result].kind = "result"
         /\ ps[p.call].id = ps[p.result].id /\ p.call \notin acc.open
    /\ \A p, q \in acc.pairs : p.call = q.call \/ p.result = q.result => p = q

\* A step of pairing keeps this, and the pairs there are.
LEMMA PairInvStep ==
    ASSUME NEW N \in Nat, NEW ps, NEW acc \in PairState(N), NEW n \in 1 .. N,
           PairInv(ps, acc, n - 1)
    PROVE  PairInv(ps, PairPart(ps, acc, n), n) /\ acc.pairs \subseteq PairPart(ps, acc, n).pairs
<1> DEFINE new == PairPart(ps, acc, n)
           S == SameId(ps, acc.open, n)
<1>0. acc.open \in SUBSET (1 .. N) /\ acc.pairs \in SUBSET [call : 1 .. N, result : 1 .. N]
  BY DEF PairState
<1>1. /\ \A o \in acc.open : o \in 1 .. n - 1 /\ o \in 1 .. n /\ ps[o].kind = "call"
      /\ \A p \in acc.pairs :
           /\ p.call \in 1 .. n - 1 /\ p.result \in 1 .. n - 1
           /\ p.call \in 1 .. n /\ p.result \in 1 .. n /\ p.call < p.result
           /\ ps[p.call].kind = "call" /\ ps[p.result].kind = "result"
           /\ ps[p.call].id = ps[p.result].id /\ p.call \notin acc.open
           /\ p.call # n /\ p.result # n
      /\ \A p, q \in acc.pairs : p.call = q.call \/ p.result = q.result => p = q
  BY DEF PairInv
<1>2. CASE ps[n].kind = "call"
  <2>1. new.open = acc.open \cup {n} /\ new.pairs = acc.pairs
    BY <1>2, PairPartIs
  <2> HIDE DEF new
  <2>2. PairInv(ps, new, n)
    BY <1>1, <1>2, <2>1 DEF PairInv
  <2> QED BY <2>1, <2>2 DEF new
<1>3. CASE ps[n].kind = "result" /\ S # {}
  <2>1. PICK m \in S : /\ \A o \in S : o <= m
                       /\ new = [open |-> acc.open \ {m},
                                 pairs |-> acc.pairs \cup {[call |-> m, result |-> n]}]
    <3>1. Matched(ps, acc, n, new)
      BY <1>3, PairPartIs
    <3> QED BY <3>1 DEF Matched
  <2>2. new.open = acc.open \ {m} /\ new.pairs = acc.pairs \cup {[call |-> m, result |-> n]}
    BY <2>1
  <2>3. m \in acc.open /\ ps[m].id = ps[n].id
    BY DEF SameId
  <2> DEFINE r == [call |-> m, result |-> n]
  <2>4. r.call = m /\ r.result = n /\ new.pairs = acc.pairs \cup {r}
    BY <2>2
  <2> HIDE DEF new, r
  <2>5. \A o \in new.open : o \in 1 .. n /\ ps[o].kind = "call"
    BY <1>1, <2>2
  <2>6. ASSUME NEW p \in new.pairs
        PROVE  /\ p.call \in 1 .. n /\ p.result \in 1 .. n /\ p.call < p.result
               /\ ps[p.call].kind = "call" /\ ps[p.result].kind = "result"
               /\ ps[p.call].id = ps[p.result].id /\ p.call \notin new.open
    <3>1. CASE p \in acc.pairs
      BY <1>1, <2>2, <3>1
    <3>2. CASE p = r
      <4>1. m \in 1 .. n - 1 /\ m < n /\ n \in 1 .. n
        BY <1>1, <2>3
      <4> QED BY <1>1, <1>3, <2>2, <2>3, <2>4, <3>2, <4>1
    <3> QED BY <2>4, <3>1, <3>2
  <2>7. ASSUME NEW p \in new.pairs, NEW q \in new.pairs, p.call = q.call \/ p.result = q.result
        PROVE  p = q
    <3>1. CASE p \in acc.pairs /\ q \in acc.pairs
      BY <1>1, <2>7, <3>1
    <3>2. CASE p \in acc.pairs /\ q = r
      BY <1>1, <2>3, <2>4, <2>7, <3>2
    <3>3. CASE p = r /\ q \in acc.pairs
      BY <1>1, <2>3, <2>4, <2>7, <3>3
    <3> QED BY <2>4, <3>1, <3>2, <3>3
  <2>8. PairInv(ps, new, n)
    BY <2>5, <2>6, <2>7 DEF PairInv
  <2> QED BY <2>4, <2>8 DEF new
<1>4. CASE ps[n].kind # "call" /\ ~ (ps[n].kind = "result" /\ S # {})
  <2>1. new = acc
    <3>1. Unmatched(ps, acc, n)
      BY <1>4 DEF Unmatched
    <3> QED BY <3>1, PairPartIs
  <2> HIDE DEF new
  <2>2. PairInv(ps, acc, n)
    BY <1>1 DEF PairInv
  <2> QED BY <2>1, <2>2 DEF new
<1> QED BY <1>2, <1>3, <1>4

\* The same with what holds on the way.
LEMMA Pairing ==
    ASSUME NEW ps, NEW N \in Nat, N = Len(ps)
    PROVE  \E f : /\ PairParts(ps) = f[N] /\ f[0] = [open |-> {}, pairs |-> {}]
                  /\ \A n \in 0 .. N : f[n] \in PairState(N) /\ PairInv(ps, f[n], n)
                  /\ \A n \in 1 .. N : f[n] = PairPart(ps, f[n - 1], n)
                  /\ \A n \in 0 .. N : f[n].pairs \subseteq f[N].pairs
<1>1. PICK f : /\ PairParts(ps) = f[N] /\ f[0] = [open |-> {}, pairs |-> {}]
               /\ \A n \in 0 .. N : f[n] \in PairState(N)
               /\ \A n \in 1 .. N : f[n] = PairPart(ps, f[n - 1], n)
  BY PairPartsIs
<1> DEFINE Good == {n \in 0 .. N : PairInv(ps, f[n], n)}
<1>2. 0 \in Good
  BY <1>1 DEF PairInv
<1>3. ASSUME NEW n \in 0 .. N - 1, n \in Good
      PROVE  n + 1 \in Good /\ f[n].pairs \subseteq f[n + 1].pairs
  <2> DEFINE k == n + 1
  <2>1. k \in 1 .. N
    OBVIOUS
  <2>2. k - 1 = n
    OBVIOUS
  <2>3. f[n] \in PairState(N)
    BY <1>1
  <2>4. PairInv(ps, f[n], k - 1)
    BY <1>3, <2>2
  <2>5. f[k] = PairPart(ps, f[n], k)
    BY <1>1, <2>1, <2>2
  <2> HIDE DEF k
  <2>6. PairInv(ps, PairPart(ps, f[n], k), k) /\ f[n].pairs \subseteq PairPart(ps, f[n], k).pairs
    BY <2>1, <2>3, <2>4, PairInvStep
  <2>7. k \in 0 .. N
    BY <2>1
  <2> QED BY <2>5, <2>6, <2>7 DEF k
<1>4. \A n \in 0 .. N : n \in Good
  <2> HIDE DEF Good
  <2> QED BY <1>2, <1>3, Upto
<1> DEFINE Less == {d \in 0 .. N : f[N - d].pairs \subseteq f[N].pairs}
<1>5. 0 \in Less
  BY <1>1
<1>6. ASSUME NEW d \in 0 .. N - 1, d \in Less PROVE d + 1 \in Less
  <2> DEFINE n == N - (d + 1)
  <2>1. n \in 0 .. N - 1 /\ n + 1 = N - d /\ n \in 0 .. N
    OBVIOUS
  <2>2. f[n].pairs \subseteq f[n + 1].pairs
    BY <1>3, <1>4, <2>1
  <2> QED BY <1>6, <2>1, <2>2
<1>7. \A d \in 0 .. N : d \in Less
  <2> HIDE DEF Less
  <2> QED BY <1>5, <1>6, Upto
<1>8. \A n \in 0 .. N : f[n].pairs \subseteq f[N].pairs
  <2> TAKE n \in 0 .. N
  <2>1. N - n \in 0 .. N /\ N - (N - n) = n
    OBVIOUS
  <2>2. N - n \in Less
    BY <1>7, <2>1
  <2> QED BY <2>1, <2>2
<1> QED BY <1>1, <1>4, <1>8

-----------------------------------------------------------------------------
(* Thinning: a sequence that holds some of another, in its order.          *)

\* qs is what ps has at g[1] < g[2] < ...
Thins(g, qs, ps) ==
    /\ g \in [1 .. Len(qs) -> 1 .. Len(ps)]
    /\ \A i \in 1 .. Len(qs) : qs[i] = ps[g[i]]
    /\ \A i, j \in 1 .. Len(qs) : i < j => g[i] < g[j]

\* Both halves of a pair are held, or none.
Closed(g, M, pairs) ==
    \A p \in pairs : (\E i \in 1 .. M : g[i] = p.call) <=> (\E i \in 1 .. M : g[i] = p.result)

\* Pairing qs goes as pairing ps does: a holds of ps what b holds of qs, among
\* the first m.
Follows(g, M, a, b, n, m) ==
    /\ m \in 0 .. M
    /\ \A i \in 1 .. M : i <= m <=> g[i] <= n
    /\ \A i \in 1 .. M : i \in b.open <=> g[i] \in a.open
    /\ \A i, j \in 1 .. M :
         [call |-> i, result |-> j] \in b.pairs <=> [call |-> g[i], result |-> g[j]] \in a.pairs

\* A step of pairing ps, on a part that qs does not have.
LEMMA FollowsSkip ==
    ASSUME NEW ps, NEW qs, NEW N \in Nat, NEW M \in Nat, N = Len(ps), M = Len(qs),
           NEW g, Thins(g, qs, ps), NEW a \in PairState(N), NEW b \in PairState(M),
           NEW k \in 1 .. N, NEW m, Follows(g, M, a, b, k - 1, m), PairInv(ps, a, k - 1),
           Closed(g, M, PairPart(ps, a, k).pairs), \A i \in 1 .. M : g[i] # k
    PROVE  Follows(g, M, PairPart(ps, a, k), b, k, m)
<1> DEFINE new == PairPart(ps, a, k)
<1>1. /\ m \in 0 .. M
      /\ \A i \in 1 .. M : i <= m <=> g[i] <= k - 1
      /\ \A i \in 1 .. M : i \in b.open <=> g[i] \in a.open
      /\ \A i, j \in 1 .. M :
           [call |-> i, result |-> j] \in b.pairs <=> [call |-> g[i], result |-> g[j]] \in a.pairs
  BY DEF Follows
<1>2. \A i \in 1 .. M : g[i] \in 1 .. N /\ g[i] # k
  BY DEF Thins
<1>3. \A i \in 1 .. M : i <= m <=> g[i] <= k
  <2> TAKE i \in 1 .. M
  <2>1. g[i] <= k - 1 <=> g[i] <= k
    BY <1>2
  <2> QED BY <1>1, <2>1
<1>4. CASE ps[k].kind = "call"
  <2>1. new = [open |-> a.open \cup {k}, pairs |-> a.pairs]
    BY <1>4, PairPartIs
  <2>2. new.open = a.open \cup {k} /\ new.pairs = a.pairs
    BY <2>1
  <2> HIDE DEF new
  <2>3. \A i \in 1 .. M : i \in b.open <=> g[i] \in new.open
    BY <1>1, <1>2, <2>2
  <2> QED BY <1>1, <1>3, <2>2, <2>3 DEF Follows, new
<1>5. CASE ps[k].kind = "result" /\ SameId(ps, a.open, k) # {}
  <2>1. Matched(ps, a, k, new)
    BY <1>5, PairPartIs
  <2>2. PICK o \in SameId(ps, a.open, k) :
               new = [open |-> a.open \ {o}, pairs |-> a.pairs \cup {[call |-> o, result |-> k]}]
    BY <2>1 DEF Matched
  <2> DEFINE r == [call |-> o, result |-> k]
  <2>3. new.open = a.open \ {o} /\ new.pairs = a.pairs \cup {r} /\ r.call = o /\ r.result = k
    BY <2>2
  <2> HIDE DEF new, r
  <2>4. \A i \in 1 .. M : g[i] # o
    <3>1. r \in new.pairs
      BY <2>3
    <3>2. (\E i \in 1 .. M : g[i] = r.call) <=> (\E i \in 1 .. M : g[i] = r.result)
      BY <3>1 DEF Closed, new
    <3> QED BY <1>2, <2>3, <3>2
  <2>5. \A i \in 1 .. M : i \in b.open <=> g[i] \in new.open
    BY <1>1, <2>3, <2>4
  <2>6. ASSUME NEW i \in 1 .. M, NEW j \in 1 .. M
        PROVE  [call |-> i, result |-> j] \in b.pairs <=> [call |-> g[i], result |-> g[j]] \in new.pairs
    <3>1. [call |-> g[i], result |-> g[j]] # r
      BY <1>2 DEF r
    <3> QED BY <1>1, <2>3, <3>1
  <2> QED BY <1>1, <1>3, <2>5, <2>6 DEF Follows, new
<1>6. CASE ps[k].kind # "call" /\ ~ (ps[k].kind = "result" /\ SameId(ps, a.open, k) # {})
  <2>1. new = a
    <3>1. Unmatched(ps, a, k)
      BY <1>6 DEF Unmatched
    <3> QED BY <3>1, PairPartIs
  <2> HIDE DEF new
  <2> QED BY <1>1, <1>3, <2>1 DEF Follows, new
<1> QED BY <1>4, <1>5, <1>6

\* A step of both, on the same part.
LEMMA FollowsBoth ==
    ASSUME NEW ps, NEW qs, NEW N \in Nat, NEW M \in Nat, N = Len(ps), M = Len(qs),
           NEW g, Thins(g, qs, ps), NEW a \in PairState(N), NEW b \in PairState(M),
           NEW k \in 1 .. N, NEW m, Follows(g, M, a, b, k - 1, m), PairInv(ps, a, k - 1),
           NEW h \in 1 .. M, g[h] = k,
           Closed(g, M, PairPart(ps, a, k).pairs)
    PROVE  h = m + 1 /\ Follows(g, M, PairPart(ps, a, k), PairPart(qs, b, h), k, h)
<1> DEFINE na == PairPart(ps, a, k)
           nb == PairPart(qs, b, h)
<1>1. /\ m \in 0 .. M
      /\ \A i \in 1 .. M : i <= m <=> g[i] <= k - 1
      /\ \A i \in 1 .. M : i \in b.open <=> g[i] \in a.open
      /\ \A i, j \in 1 .. M :
           [call |-> i, result |-> j] \in b.pairs <=> [call |-> g[i], result |-> g[j]] \in a.pairs
  BY DEF Follows
<1>2. /\ \A i \in 1 .. M : g[i] \in 1 .. N /\ qs[i] = ps[g[i]]
      /\ \A i, j \in 1 .. M : i < j => g[i] < g[j]
  BY DEF Thins
<1>3. \A i, j \in 1 .. M : g[i] = g[j] => i = j
  <2> SUFFICES ASSUME NEW i \in 1 .. M, NEW j \in 1 .. M, g[i] = g[j], i # j PROVE FALSE
    OBVIOUS
  <2>1. i < j \/ j < i
    OBVIOUS
  <2>2. g[i] < g[j] \/ g[j] < g[i]
    BY <1>2, <2>1
  <2> QED BY <1>2, <2>2
<1>4. h = m + 1
  <2>1. ~ (h <= m)
    BY <1>1
  <2>2. ASSUME m + 1 < h PROVE FALSE
    <3>1. m + 1 \in 1 .. M
      BY <1>1, <2>2
    <3>2. g[m + 1] < k
      BY <1>2, <2>2, <3>1
    <3>3. g[m + 1] \in Int /\ g[m + 1] <= k - 1
      BY <1>2, <3>1, <3>2
    <3>4. m + 1 <= m
      BY <1>1, <3>1, <3>3
    <3> QED BY <1>1, <3>4
  <2> QED BY <1>1, <2>1, <2>2
<1>5. \A i \in 1 .. M : i <= h <=> g[i] <= k
  <2> TAKE i \in 1 .. M
  <2>1. CASE i = h
    BY <2>1
  <2>2. CASE i # h
    <3>1. g[i] # k /\ g[i] \in Int
      BY <1>2, <1>3, <2>2
    <3>2. g[i] <= k - 1 <=> g[i] <= k
      BY <3>1
    <3>3. i <= m <=> i <= h
      BY <1>1, <1>4, <2>2
    <3> QED BY <1>1, <3>2, <3>3
  <2> QED BY <2>1, <2>2
<1>6. qs[h] = ps[k]
  BY <1>2
<1>7. a.open \in SUBSET (1 .. N) /\ b.open \in SUBSET (1 .. M)
  BY DEF PairState
\* calls that are open in both are matched with the same results
<1>8. \A i \in 1 .. M : i \in SameId(qs, b.open, h) <=> g[i] \in SameId(ps, a.open, k)
  BY <1>1, <1>2, <1>6 DEF SameId
<1>9. CASE ps[k].kind = "call"
  <2>1. na = [open |-> a.open \cup {k}, pairs |-> a.pairs]
    BY <1>9, PairPartIs
  <2>2. nb = [open |-> b.open \cup {h}, pairs |-> b.pairs]
    BY <1>6, <1>9, PairPartIs
  <2>3. na.open = a.open \cup {k} /\ na.pairs = a.pairs /\ nb.open = b.open \cup {h} /\ nb.pairs = b.pairs
    BY <2>1, <2>2
  <2> HIDE DEF na, nb
  <2>4. \A i \in 1 .. M : i \in nb.open <=> g[i] \in na.open
    BY <1>1, <1>3, <2>3
  <2>5. Follows(g, M, na, nb, k, h)
    BY <1>1, <1>5, <2>3, <2>4 DEF Follows
  <2> QED BY <1>4, <2>5 DEF na, nb
<1>10. CASE ps[k].kind = "result" /\ SameId(ps, a.open, k) # {}
  <2>1. Matched(ps, a, k, na)
    BY <1>10, PairPartIs
  <2>2. PICK o \in SameId(ps, a.open, k) :
               /\ \A x \in SameId(ps, a.open, k) : x <= o
               /\ na = [open |-> a.open \ {o}, pairs |-> a.pairs \cup {[call |-> o, result |-> k]}]
    BY <2>1 DEF Matched
  <2> DEFINE r == [call |-> o, result |-> k]
  <2>3. na.open = a.open \ {o} /\ na.pairs = a.pairs \cup {r} /\ r.call = o /\ r.result = k
    BY <2>2
  <2>4. PICK u \in 1 .. M : g[u] = o
    <3> HIDE DEF na, r
    <3>1. r \in na.pairs
      BY <2>3
    <3>2. (\E i \in 1 .. M : g[i] = r.call) <=> (\E i \in 1 .. M : g[i] = r.result)
      BY <3>1 DEF Closed, na
    <3> QED BY <2>3, <3>2
  <2>5. u \in SameId(qs, b.open, h)
    BY <1>8, <2>4
  <2>6. \A i \in SameId(qs, b.open, h) : i <= u
    <3> TAKE i \in SameId(qs, b.open, h)
    <3>1. i \in 1 .. M
      BY <1>7 DEF SameId
    <3>2. g[i] <= g[u]
      BY <1>8, <2>2, <2>4, <3>1
    <3>3. ~ (u < i)
      BY <1>2, <3>1, <3>2
    <3> QED BY <3>1, <3>3
  <2>7. Matched(qs, b, h, nb)
    <3>1. SameId(qs, b.open, h) # {} /\ qs[h].kind = "result"
      BY <1>6, <1>10, <2>5
    <3> QED BY <3>1, PairPartIs
  <2>8. PICK v \in SameId(qs, b.open, h) :
               /\ \A x \in SameId(qs, b.open, h) : x <= v
               /\ nb = [open |-> b.open \ {v}, pairs |-> b.pairs \cup {[call |-> v, result |-> h]}]
    BY <2>7 DEF Matched
  <2>9. v = u
    <3>1. v \in 1 .. M /\ v <= u /\ u <= v
      BY <1>7, <2>5, <2>6, <2>8 DEF SameId
    <3> QED BY <3>1
  <2> DEFINE z == [call |-> u, result |-> h]
  <2>10. nb.open = b.open \ {u} /\ nb.pairs = b.pairs \cup {z}
    BY <2>8, <2>9
  <2> HIDE DEF na, nb
  <2>11. \A i \in 1 .. M : i \in nb.open <=> g[i] \in na.open
    BY <1>1, <1>3, <2>3, <2>4, <2>10
  <2>12. ASSUME NEW i \in 1 .. M, NEW j \in 1 .. M
         PROVE  [call |-> i, result |-> j] \in nb.pairs
                  <=> [call |-> g[i], result |-> g[j]] \in na.pairs
    <3>1. [call |-> i, result |-> j] = z <=> [call |-> g[i], result |-> g[j]] = r
      <4>1. [call |-> i, result |-> j] = z <=> i = u /\ j = h
        OBVIOUS
      <4>2. [call |-> g[i], result |-> g[j]] = r <=> g[i] = o /\ g[j] = k
        OBVIOUS
      <4> QED BY <1>3, <2>4, <4>1, <4>2
    <3> HIDE DEF r, z
    <3> QED BY <1>1, <2>3, <2>10, <3>1
  <2>13. Follows(g, M, na, nb, k, h)
    BY <1>5, <2>11, <2>12 DEF Follows
  <2> QED BY <1>4, <2>13 DEF na, nb
<1>11. CASE ps[k].kind # "call" /\ ~ (ps[k].kind = "result" /\ SameId(ps, a.open, k) # {})
  <2>1. na = a
    <3>1. Unmatched(ps, a, k)
      BY <1>11 DEF Unmatched
    <3> QED BY <3>1, PairPartIs, SMTT(20)
  <2>2. nb = b
    <3>1. ps[k].kind = "result" => SameId(qs, b.open, h) = {}
      <4>1. SameId(qs, b.open, h) \subseteq 1 .. M
        BY <1>7 DEF SameId
      <4> QED BY <1>8, <1>11, <4>1
    <3>2. Unmatched(qs, b, h)
      BY <1>6, <1>11, <3>1 DEF Unmatched
    <3> HIDE DEF na
    <3>3. PairPart(qs, b, h) = b
      BY <3>2, PairPartUnmatched
    <3> QED BY <3>3
  <2> HIDE DEF na, nb
  <2>3. Follows(g, M, na, nb, k, h)
    BY <1>1, <1>5, <2>1, <2>2 DEF Follows
  <2> QED BY <1>4, <2>3 DEF na, nb
<1> QED BY <1>9, <1>10, <1>11

BothStep(ps, qs, N, M, g, a, b, k, m, h) ==
    /\ N \in Nat /\ M \in Nat /\ N = Len(ps) /\ M = Len(qs)
    /\ Thins(g, qs, ps) /\ a \in PairState(N) /\ b \in PairState(M) /\ k \in 1 .. N
    /\ Follows(g, M, a, b, k - 1, m) /\ PairInv(ps, a, k - 1)
    /\ h \in 1 .. M /\ g[h] = k /\ Closed(g, M, PairPart(ps, a, k).pairs)

\* A step of the two runs together.
LEMMA FollowsBothStep ==
    \A ps, qs, N, M, g, a, b, k, m, h :
      BothStep(ps, qs, N, M, g, a, b, k, m, h) =>
        h = m + 1 /\ Follows(g, M, PairPart(ps, a, k), PairPart(qs, b, h), k, h)
<1> SUFFICES ASSUME NEW ps, NEW qs, NEW N, NEW M, NEW g, NEW a, NEW b, NEW k, NEW m, NEW h,
                    BothStep(ps, qs, N, M, g, a, b, k, m, h)
             PROVE  h = m + 1 /\ Follows(g, M, PairPart(ps, a, k), PairPart(qs, b, h), k, h)
  OBVIOUS
<1>1. N \in Nat
  BY DEF BothStep
<1>2. M \in Nat
  BY DEF BothStep
<1>3. N = Len(ps) /\ M = Len(qs)
  BY DEF BothStep
<1>4. Thins(g, qs, ps)
  BY DEF BothStep
<1>5. a \in PairState(N)
  BY DEF BothStep
<1>6. b \in PairState(M)
  BY DEF BothStep
<1>7. k \in 1 .. N /\ h \in 1 .. M /\ g[h] = k
  BY DEF BothStep
<1>8. Follows(g, M, a, b, k - 1, m)
  BY DEF BothStep
<1>9. PairInv(ps, a, k - 1)
  BY DEF BothStep
<1>10. Closed(g, M, PairPart(ps, a, k).pairs)
  BY DEF BothStep
<1> QED BY <1>1, <1>2, <1>3, <1>4, <1>5, <1>6, <1>7, <1>8, <1>9, <1>10, FollowsBoth, SMTT(20)

\* The pairs of qs are those of ps whose halves it holds.
LEMMA Thinning ==
    ASSUME NEW ps, NEW qs, Len(ps) \in Nat, Len(qs) \in Nat, NEW g, Thins(g, qs, ps),
           Closed(g, Len(qs), PairParts(ps).pairs)
    PROVE  \A i, j \in 1 .. Len(qs) :
             [call |-> i, result |-> j] \in PairParts(qs).pairs
               <=> [call |-> g[i], result |-> g[j]] \in PairParts(ps).pairs
<1> DEFINE N == Len(ps)
           M == Len(qs)
<1>1. N \in Nat /\ N = Len(ps) /\ M \in Nat /\ M = Len(qs)
  OBVIOUS
<1> HIDE DEF N, M
<1>2. PICK f : /\ PairParts(ps) = f[N] /\ f[0] = [open |-> {}, pairs |-> {}]
               /\ \A n \in 0 .. N : f[n] \in PairState(N) /\ PairInv(ps, f[n], n)
               /\ \A n \in 1 .. N : f[n] = PairPart(ps, f[n - 1], n)
               /\ \A n \in 0 .. N : f[n].pairs \subseteq f[N].pairs
  BY <1>1, Pairing
<1>3. PICK h : /\ PairParts(qs) = h[M] /\ h[0] = [open |-> {}, pairs |-> {}]
               /\ \A n \in 0 .. M : h[n] \in PairState(M) /\ PairInv(qs, h[n], n)
               /\ \A n \in 1 .. M : h[n] = PairPart(qs, h[n - 1], n)
               /\ \A n \in 0 .. M : h[n].pairs \subseteq h[M].pairs
  BY <1>1, Pairing
<1>4. \A i \in 1 .. M : g[i] \in 1 .. N
  BY <1>1 DEF Thins
<1> DEFINE Good == {n \in 0 .. N : \E m \in 0 .. M : Follows(g, M, f[n], h[m], n, m)}
<1>5. 0 \in Good
  <2>1. Follows(g, M, f[0], h[0], 0, 0)
    <3>1. \A i \in 1 .. M : ~ (g[i] <= 0) /\ ~ (i <= 0)
      BY <1>1, <1>4
    <3>2. f[0].open = {} /\ f[0].pairs = {} /\ h[0].open = {} /\ h[0].pairs = {} /\ 0 \in 0 .. M
      BY <1>1, <1>2, <1>3
    <3> QED BY <3>1, <3>2 DEF Follows
  <2> QED BY <1>1, <2>1
<1>6. ASSUME NEW n \in 0 .. N - 1, n \in Good PROVE n + 1 \in Good
  <2> DEFINE k == n + 1
  <2>1. k \in 1 .. N /\ k - 1 = n /\ k \in 0 .. N /\ n \in 0 .. N
    BY <1>1
  <2>2. PICK m \in 0 .. M : Follows(g, M, f[n], h[m], n, m)
    BY <1>6
  <2>3. f[n] \in PairState(N) /\ h[m] \in PairState(M) /\ PairInv(ps, f[n], n) /\ f[k] = PairPart(ps, f[n], k)
    BY <1>2, <1>3, <2>1
  <2>4. Closed(g, M, f[k].pairs)
    <3>1. f[k].pairs \subseteq PairParts(ps).pairs
      BY <1>2, <2>1
    <3> QED BY <1>1, <3>1 DEF Closed
  <2> HIDE DEF k
  <2>5. CASE \A i \in 1 .. M : g[i] # k
    <3>1. Follows(g, M, f[n], h[m], k - 1, m) /\ PairInv(ps, f[n], k - 1)
      BY <2>1, <2>2, <2>3
    <3>2. Closed(g, M, PairPart(ps, f[n], k).pairs)
      BY <2>3, <2>4
    <3>3. Follows(g, M, PairPart(ps, f[n], k), h[m], k, m)
      BY <1>1, <2>1, <2>3, <2>5, <3>1, <3>2, FollowsSkip
    <3> QED BY <2>1, <2>3, <3>3 DEF k
  <2>6. CASE \E i \in 1 .. M : g[i] = k
    <3>0. PICK l \in 1 .. M : g[l] = k
      BY <2>6
    <3>1. Follows(g, M, f[n], h[m], k - 1, m) /\ PairInv(ps, f[n], k - 1)
      BY <2>1, <2>2, <2>3
    <3>2. Closed(g, M, PairPart(ps, f[n], k).pairs)
      BY <2>3, <2>4
    <3>3. l = m + 1 /\ Follows(g, M, PairPart(ps, f[n], k), PairPart(qs, h[m], l), k, l)
      <4> DEFINE a == f[n]
                 b == h[m]
      <4>1. BothStep(ps, qs, N, M, g, a, b, k, m, l)
        BY <1>1, <2>1, <2>3, <3>0, <3>1, <3>2 DEF BothStep
      <4> HIDE DEF Good, a, b
      <4>12. l = m + 1 /\ Follows(g, M, PairPart(ps, a, k), PairPart(qs, b, l), k, l)
        BY <4>1, FollowsBothStep
      <4> QED BY <4>12 DEF a, b
    <3>4. h[l] = PairPart(qs, h[m], l) /\ l \in 0 .. M
      BY <1>1, <1>3, <3>3
    <3> QED BY <2>1, <2>3, <3>3, <3>4 DEF k
  <2> QED BY <2>5, <2>6
<1>7. N \in Good
  <2> HIDE DEF Good
  <2> QED BY <1>1, <1>5, <1>6, Upto
<1>8. PICK m \in 0 .. M : Follows(g, M, f[N], h[m], N, m)
  BY <1>7
<1>9. m = M
  <2>1. CASE M = 0
    BY <2>1
  <2>2. CASE M > 0
    <3>1. M \in 1 .. M /\ g[M] <= N
      BY <1>1, <1>4, <2>2
    <3>2. M <= m
      BY <1>8, <3>1 DEF Follows
    <3> QED BY <1>1, <3>2
  <2> QED BY <1>1, <2>1, <2>2
<1> QED BY <1>1, <1>2, <1>3, <1>8, <1>9 DEF Follows

Paired(ps) == UNION {{p.call, p.result} : p \in PairParts(ps).pairs}

\* What pairing returns.
LEMMA PairsAre ==
    ASSUME NEW ps, Len(ps) \in Nat
    PROVE  PairParts(ps) \in PairState(Len(ps)) /\ PairInv(ps, PairParts(ps), Len(ps))
<1> DEFINE N == Len(ps)
<1>1. N \in Nat
  OBVIOUS
<1>2. N = Len(ps)
  OBVIOUS
<1> HIDE DEF N
<1>3. PICK f : /\ PairParts(ps) = f[N] /\ f[0] = [open |-> {}, pairs |-> {}]
               /\ \A n \in 0 .. N : f[n] \in PairState(N) /\ PairInv(ps, f[n], n)
               /\ \A n \in 1 .. N : f[n] = PairPart(ps, f[n - 1], n)
               /\ \A n \in 0 .. N : f[n].pairs \subseteq f[N].pairs
  BY <1>1, <1>2, Pairing
<1>4. N \in 0 .. N
  BY <1>1
<1> QED BY <1>2, <1>3, <1>4

\* A part is half of an exchange of qs when it is of one of ps.
LEMMA ThinPaired ==
    ASSUME NEW ps, NEW qs, Len(ps) \in Nat, Len(qs) \in Nat, NEW g, Thins(g, qs, ps),
           Closed(g, Len(qs), PairParts(ps).pairs)
    PROVE  \A i \in 1 .. Len(qs) : i \in Paired(qs) <=> g[i] \in Paired(ps)
<1>1. \A i, j \in 1 .. Len(qs) :
        [call |-> i, result |-> j] \in PairParts(qs).pairs
          <=> [call |-> g[i], result |-> g[j]] \in PairParts(ps).pairs
  BY Thinning
<1>2. /\ PairParts(ps).pairs \subseteq [call : 1 .. Len(ps), result : 1 .. Len(ps)]
      /\ PairParts(qs).pairs \subseteq [call : 1 .. Len(qs), result : 1 .. Len(qs)]
  BY PairsAre DEF PairState
<1> TAKE i \in 1 .. Len(qs)
<1>3. ASSUME i \in Paired(qs) PROVE g[i] \in Paired(ps)
  <2>1. PICK p \in PairParts(qs).pairs : i = p.call \/ i = p.result
    BY <1>3 DEF Paired
  <2>2. p.call \in 1 .. Len(qs) /\ p.result \in 1 .. Len(qs) /\ p = [call |-> p.call, result |-> p.result]
    BY <1>2
  <2>3. [call |-> g[p.call], result |-> g[p.result]] \in PairParts(ps).pairs
    BY <1>1, <2>2
  <2> QED BY <2>1, <2>3 DEF Paired
<1>4. ASSUME g[i] \in Paired(ps) PROVE i \in Paired(qs)
  <2>1. PICK p \in PairParts(ps).pairs : g[i] = p.call \/ g[i] = p.result
    BY <1>4 DEF Paired
  <2>2. p = [call |-> p.call, result |-> p.result]
    BY <1>2
  <2>3. (\E k \in 1 .. Len(qs) : g[k] = p.call) <=> (\E k \in 1 .. Len(qs) : g[k] = p.result)
    BY DEF Closed
  <2>4. CASE g[i] = p.call
    <3>1. PICK j \in 1 .. Len(qs) : g[j] = p.result
      BY <2>3, <2>4
    <3>2. [call |-> i, result |-> j] \in PairParts(qs).pairs
      BY <1>1, <2>2, <2>4, <3>1
    <3> QED BY <3>2 DEF Paired
  <2>5. CASE g[i] = p.result
    <3>1. PICK j \in 1 .. Len(qs) : g[j] = p.call
      BY <2>3, <2>5
    <3>2. [call |-> j, result |-> i] \in PairParts(qs).pairs
      BY <1>1, <2>2, <2>5, <3>1
    <3> QED BY <3>2 DEF Paired
  <2> QED BY <2>1, <2>4, <2>5
<1> QED BY <1>3, <1>4

-----------------------------------------------------------------------------
(* Picking.                                                                *)

\* q is what s has at the indices of K among its first n.
Thinned(g, q, s, n, K) ==
    /\ g \in [1 .. Len(q) -> 1 .. n]
    /\ \A i \in 1 .. Len(q) : q[i] = s[g[i]]
    /\ \A i, j \in 1 .. Len(q) : i < j => g[i] < g[j]
    /\ \A k \in 1 .. n : k \in K <=> \E i \in 1 .. Len(q) : g[i] = k

\* g is a thinning to q1 and q2, in which q1 comes from the first n1 of s, and
\* q2 as g2 says from the n2 behind.
ThinnedBoth(g, q1, q2, s, n1, n2, K, g2) ==
    /\ Thinned(g, q1 \o q2, s, n1 + n2, K)
    /\ \A i \in 1 .. Len(q1) : g[i] \in 1 .. n1
    /\ \A i \in 1 .. Len(q2) : g[Len(q1) + i] = n1 + g2[i]

\* Two thinnings make one.
LEMMA ThinnedConcat ==
    ASSUME NEW T, NEW q1 \in Seq(T), NEW q2 \in Seq(T), NEW n1 \in Nat, NEW n2 \in Nat,
           NEW s, NEW s2, NEW g1, NEW g2, NEW K, NEW K2,
           Thinned(g1, q1, s, n1, K), Thinned(g2, q2, s2, n2, K2),
           \A j \in 1 .. n2 : s[n1 + j] = s2[j] /\ (j \in K2 <=> n1 + j \in K)
    PROVE  \E g : ThinnedBoth(g, q1, q2, s, n1, n2, K, g2)
<1> DEFINE M1 == Len(q1)
           M2 == Len(q2)
           q == q1 \o q2
           n == n1 + n2
           g == [i \in 1 .. M1 + M2 |-> IF i <= M1 THEN g1[i] ELSE n1 + g2[i - M1]]
<1>1. M1 \in Nat /\ M2 \in Nat
  OBVIOUS
<1>2. /\ Len(q) = M1 + M2
      /\ \A i \in 1 .. M1 + M2 : q[i] = IF i <= M1 THEN q1[i] ELSE q2[i - M1]
  BY ConcatProperties
<1>3. /\ \A i \in 1 .. M1 : g1[i] \in 1 .. n1 /\ q1[i] = s[g1[i]]
      /\ \A i, j \in 1 .. M1 : i < j => g1[i] < g1[j]
      /\ \A k \in 1 .. n1 : k \in K <=> \E i \in 1 .. M1 : g1[i] = k
  BY DEF Thinned
<1>4. /\ \A i \in 1 .. M2 : g2[i] \in 1 .. n2 /\ q2[i] = s2[g2[i]]
      /\ \A i, j \in 1 .. M2 : i < j => g2[i] < g2[j]
      /\ \A k \in 1 .. n2 : k \in K2 <=> \E i \in 1 .. M2 : g2[i] = k
  BY DEF Thinned
<1> HIDE DEF M1, M2, q
<1>5. \A i \in 1 .. M1 : i \in 1 .. M1 + M2 /\ g[i] = g1[i] /\ q[i] = q1[i]
  BY <1>1, <1>2, SMTT(20)
<1>6. \A i \in 1 .. M2 : M1 + i \in 1 .. M1 + M2 /\ g[M1 + i] = n1 + g2[i] /\ q[M1 + i] = q2[i]
  <2> TAKE i \in 1 .. M2
  <2>1. M1 + i \in 1 .. M1 + M2 /\ ~ (M1 + i <= M1) /\ (M1 + i) - M1 = i
    BY <1>1
  <2> QED BY <1>2, <2>1
<1>7. \A i \in 1 .. M1 + M2 : i \in 1 .. M1 \/ (i - M1 \in 1 .. M2 /\ i = M1 + (i - M1))
  BY <1>1
<1> HIDE DEF g
<1>8. \A i \in 1 .. M1 : g[i] \in 1 .. n1
  BY <1>3, <1>5
<1>9. \A i \in 1 .. M2 : g[M1 + i] \in n1 + 1 .. n
  <2> TAKE i \in 1 .. M2
  <2>1. g2[i] \in 1 .. n2
    BY <1>4
  <2> QED BY <1>6, <2>1
<1>10. g \in [1 .. M1 + M2 -> 1 .. n]
  <2>1. \A i \in 1 .. M1 + M2 : g[i] \in 1 .. n
    <3> TAKE i \in 1 .. M1 + M2
    <3>1. CASE i \in 1 .. M1
      BY <1>8, <3>1
    <3>2. CASE i - M1 \in 1 .. M2 /\ i = M1 + (i - M1)
      <4>1. g[i] \in n1 + 1 .. n
        BY <1>9, <3>2
      <4> QED BY <4>1
    <3> QED BY <1>7, <3>1, <3>2
  <2> QED BY <2>1 DEF g
<1>11. \A i \in 1 .. M1 + M2 : q[i] = s[g[i]]
  <2> TAKE i \in 1 .. M1 + M2
  <2>1. CASE i \in 1 .. M1
    BY <1>3, <1>5, <2>1
  <2>2. CASE i - M1 \in 1 .. M2 /\ i = M1 + (i - M1)
    <3> DEFINE j == i - M1
    <3>1. j \in 1 .. M2 /\ i = M1 + j
      BY <2>2
    <3> HIDE DEF j
    <3>2. q[i] = q2[j] /\ g[i] = n1 + g2[j] /\ q2[j] = s2[g2[j]] /\ g2[j] \in 1 .. n2
      BY <1>4, <1>6, <3>1
    <3>3. s[n1 + g2[j]] = s2[g2[j]]
      BY <3>2
    <3> QED BY <3>2, <3>3
  <2> QED BY <1>7, <2>1, <2>2
<1>12. \A i, j \in 1 .. M1 + M2 : i < j => g[i] < g[j]
  <2> SUFFICES ASSUME NEW i \in 1 .. M1 + M2, NEW j \in 1 .. M1 + M2, i < j PROVE g[i] < g[j]
    OBVIOUS
  <2>1. CASE i \in 1 .. M1 /\ j \in 1 .. M1
    BY <1>3, <1>5, <2>1
  <2>2. CASE i \in 1 .. M1 /\ (j - M1 \in 1 .. M2 /\ j = M1 + (j - M1))
    <3>1. g[i] \in 1 .. n1 /\ g[j] \in n1 + 1 .. n
      BY <1>8, <1>9, <2>2
    <3> QED BY <3>1
  <2>3. CASE (i - M1 \in 1 .. M2 /\ i = M1 + (i - M1)) /\ (j - M1 \in 1 .. M2 /\ j = M1 + (j - M1))
    <3> DEFINE a == i - M1
               b == j - M1
    <3>1. a \in 1 .. M2 /\ b \in 1 .. M2 /\ i = M1 + a /\ j = M1 + b /\ a < b
      BY <1>1, <2>3
    <3> HIDE DEF a, b
    <3>2. g[i] = n1 + g2[a] /\ g[j] = n1 + g2[b]
      BY <1>6, <3>1
    <3>3. g2[a] < g2[b] /\ g2[a] \in Int /\ g2[b] \in Int
      BY <1>4, <3>1
    <3> QED BY <3>2, <3>3
  <2>4. CASE (i - M1 \in 1 .. M2 /\ i = M1 + (i - M1)) /\ j \in 1 .. M1
    BY <1>1, <2>4
  <2> QED BY <1>7, <2>1, <2>2, <2>3, <2>4
<1>13. \A k \in 1 .. n : k \in K <=> \E i \in 1 .. M1 + M2 : g[i] = k
  <2> TAKE k \in 1 .. n
  <2>1. CASE k <= n1
    <3>1. k \in 1 .. n1
      BY <2>1
    <3>2. ASSUME k \in K PROVE \E i \in 1 .. M1 + M2 : g[i] = k
      <4>1. PICK i \in 1 .. M1 : g1[i] = k
        BY <1>3, <3>1, <3>2
      <4> QED BY <1>5, <4>1
    <3>3. ASSUME NEW i \in 1 .. M1 + M2, g[i] = k PROVE k \in K
      <4>1. i \in 1 .. M1
        <5>1. ASSUME i - M1 \in 1 .. M2, i = M1 + (i - M1) PROVE FALSE
          <6>1. g[i] \in n1 + 1 .. n
            BY <1>9, <5>1
          <6> QED BY <2>1, <3>3, <6>1
        <5> QED BY <1>7, <5>1
      <4> QED BY <1>3, <1>5, <3>1, <3>3, <4>1
    <3> QED BY <3>2, <3>3
  <2>2. CASE k > n1
    <3> DEFINE l == k - n1
    <3>1. l \in 1 .. n2 /\ k = n1 + l
      BY <2>2
    <3> HIDE DEF l
    <3>2. ASSUME k \in K PROVE \E i \in 1 .. M1 + M2 : g[i] = k
      <4>1. l \in K2
        BY <3>1, <3>2
      <4>2. PICK i \in 1 .. M2 : g2[i] = l
        BY <1>4, <3>1, <4>1
      <4>3. M1 + i \in 1 .. M1 + M2 /\ g[M1 + i] = k
        BY <1>6, <3>1, <4>2
      <4> QED BY <4>3
    <3>3. ASSUME NEW i \in 1 .. M1 + M2, g[i] = k PROVE k \in K
      <4>1. i - M1 \in 1 .. M2 /\ i = M1 + (i - M1)
        <5>1. ASSUME i \in 1 .. M1 PROVE FALSE
          BY <1>8, <2>2, <3>3, <5>1
        <5> QED BY <1>7, <5>1
      <4> DEFINE j == i - M1
      <4>2. j \in 1 .. M2 /\ i = M1 + j
        BY <4>1
      <4> HIDE DEF j
      <4>3. g[i] = n1 + g2[j] /\ g2[j] \in 1 .. n2
        BY <1>4, <1>6, <4>2
      <4>4. g2[j] = l
        BY <3>1, <3>3, <4>3
      <4>5. l \in K2
        BY <1>4, <3>1, <4>2, <4>4
      <4> QED BY <3>1, <4>5
    <3> QED BY <3>2, <3>3
  <2> QED BY <2>1, <2>2
<1>14. Thinned(g, q, s, n, K)
  BY <1>2, <1>10, <1>11, <1>12, <1>13 DEF Thinned
<1>15. \A i \in 1 .. M2 : g[M1 + i] = n1 + g2[i]
  BY <1>6
<1>16. ThinnedBoth(g, q1, q2, s, n1, n2, K, g2)
  BY <1>8, <1>14, <1>15 DEF ThinnedBoth, q, n, M1, M2
<1> QED BY <1>16

\* Pick takes what is at the indices it is given.
LEMMA PickThinned ==
    ASSUME NEW A, NEW s \in Seq(A), NEW J
    PROVE  Pick(s, J) \in Seq(A) /\ \E g : Thinned(g, Pick(s, J), s, Len(s), J)
<1>1. PICK f \in [0 .. Len(s) -> Seq(A)] :
        /\ Pick(s, J) = f[Len(s)] /\ f[0] = <<>>
        /\ \A n \in 1 .. Len(s) :
             f[n] = IF n \in J THEN Append(f[n - 1], s[n]) ELSE f[n - 1]
  BY PickIs
<1>2. Len(s) \in Nat
  OBVIOUS
<1> DEFINE Good == {n \in 0 .. Len(s) : \E g : Thinned(g, f[n], s, n, J)}
<1>3. 0 \in Good
  <2> DEFINE g == [i \in 1 .. 0 |-> 0]
  <2>1. Len(f[0]) = 0
    BY <1>1
  <2>2. Thinned(g, f[0], s, 0, J)
    BY <2>1 DEF Thinned
  <2> HIDE DEF g
  <2> QED BY <1>2, <2>2
<1>4. ASSUME NEW n \in 0 .. Len(s) - 1, n \in Good PROVE n + 1 \in Good
  <2> DEFINE k == n + 1
  <2>1. k \in 1 .. Len(s) /\ k - 1 = n /\ k \in 0 .. Len(s) /\ n \in 0 .. Len(s)
    BY <1>2
  <2>2. PICK g : Thinned(g, f[n], s, n, J)
    BY <1>4
  <2> DEFINE q == f[n]
             M == Len(q)
  <2>3. q \in Seq(A) /\ M \in Nat /\ s[k] \in A
    BY <1>2, <2>1
  <2>4. f[k] = IF k \in J THEN Append(q, s[k]) ELSE q
    BY <1>1, <2>1
  <2>5. /\ \A i \in 1 .. M : g[i] \in 1 .. n /\ q[i] = s[g[i]] /\ g[i] \in 1 .. k /\ g[i] < k
        /\ \A i, j \in 1 .. M : i < j => g[i] < g[j]
        /\ \A m \in 1 .. n : m \in J <=> \E i \in 1 .. M : g[i] = m
        /\ g = [i \in 1 .. M |-> g[i]]
    <3>1. g \in [1 .. M -> 1 .. n]
      BY <2>2 DEF Thinned
    <3>2. /\ \A i \in 1 .. M : q[i] = s[g[i]]
          /\ \A i, j \in 1 .. M : i < j => g[i] < g[j]
          /\ \A m \in 1 .. n : m \in J <=> \E i \in 1 .. M : g[i] = m
      BY <2>2 DEF Thinned
    <3>3. \A m \in 1 .. n : m \in 1 .. k /\ m < k
      BY <2>1
    <3> HIDE DEF k, q, M
    <3>4. \A i \in 1 .. M : g[i] \in 1 .. n /\ g[i] \in 1 .. k /\ g[i] < k
      BY <3>1, <3>3
    <3> QED BY <3>1, <3>2, <3>4
  <2>6. \A m \in 1 .. k : m = k \/ m \in 1 .. n
    OBVIOUS
  <2> HIDE DEF k, q, M
  <2>7. CASE k \notin J
    <3>1. f[k] = q
      BY <2>4, <2>7
    <3>2. \A m \in 1 .. k : m \in J <=> \E i \in 1 .. M : g[i] = m
      BY <2>5, <2>6, <2>7
    <3>3. Thinned(g, q, s, k, J)
      BY <2>5, <3>2 DEF Thinned, M
    <3> QED BY <2>1, <3>1, <3>3 DEF k
  <2>8. CASE k \in J
    <3> DEFINE r == Append(q, s[k])
               h == [i \in 1 .. M + 1 |-> IF i = M + 1 THEN k ELSE g[i]]
    <3>1. /\ Len(r) = M + 1 /\ r[M + 1] = s[k]
          /\ \A i \in 1 .. M : r[i] = q[i]
      BY <2>3, AppendProperties DEF M
    <3>2. h[M + 1] = k /\ \A i \in 1 .. M : h[i] = g[i]
      BY <2>3
    <3>3. \A i \in 1 .. M + 1 : i = M + 1 \/ i \in 1 .. M
      BY <2>3
    <3>4. M + 1 \in 1 .. M + 1 /\ k \in 1 .. k /\ \A i \in 1 .. M : i \in 1 .. M + 1 /\ i < M + 1
      BY <2>1, <2>3
    <3> HIDE DEF r
    <3>5. h \in [1 .. M + 1 -> 1 .. k]
      <4>1. \A i \in 1 .. M + 1 : (IF i = M + 1 THEN k ELSE g[i]) \in 1 .. k
        BY <2>5, <3>3, <3>4
      <4> QED BY <4>1
    <3> HIDE DEF h
    <3>6. \A i \in 1 .. M + 1 : r[i] = s[h[i]]
      BY <2>5, <3>1, <3>2, <3>3
    <3>7. \A i, j \in 1 .. M + 1 : i < j => h[i] < h[j]
      <4> SUFFICES ASSUME NEW i \in 1 .. M + 1, NEW j \in 1 .. M + 1, i < j PROVE h[i] < h[j]
        OBVIOUS
      <4>1. i \in 1 .. M
        BY <2>3
      <4>2. CASE j = M + 1
        BY <2>5, <3>2, <4>1, <4>2
      <4>3. CASE j \in 1 .. M
        BY <2>5, <3>2, <4>1, <4>3
      <4> QED BY <3>3, <4>2, <4>3
    <3>8. \A m \in 1 .. k : m \in J <=> \E i \in 1 .. M + 1 : h[i] = m
      <4> TAKE m \in 1 .. k
      <4>1. CASE m = k
        BY <2>8, <3>2, <3>4, <4>1
      <4>2. CASE m \in 1 .. n
        <5>1. m # k
          BY <2>1, <4>2 DEF k
        <5>2. (\E i \in 1 .. M + 1 : h[i] = m) <=> (\E i \in 1 .. M : g[i] = m)
          BY <3>2, <3>3, <3>4, <5>1
        <5> QED BY <2>5, <4>2, <5>2
      <4> QED BY <2>6, <4>1, <4>2
    <3>9. Thinned(h, r, s, k, J)
      BY <3>1, <3>5, <3>6, <3>7, <3>8 DEF Thinned
    <3>10. f[k] = r
      BY <2>4, <2>8 DEF r
    <3> QED BY <2>1, <3>9, <3>10 DEF k
  <2> QED BY <2>7, <2>8
<1>5. Len(s) \in Good
  <2> DEFINE l == Len(s)
  <2> HIDE DEF Good
  <2>1. l \in Nat /\ 0 \in Good /\ \A n \in 0 .. l - 1 : n \in Good => n + 1 \in Good
    BY <1>2, <1>3, <1>4
  <2> HIDE DEF l
  <2>2. \A n \in 0 .. l : n \in Good
    BY <2>1, Upto
  <2> QED BY <1>2, <2>2 DEF l
<1> QED BY <1>1, <1>2, <1>5

-----------------------------------------------------------------------------
(* Dropping orphans.                                                       *)

\* The places a list gives the parts of its last message.
LEMMA SitesAt ==
    ASSUME NEW a \in Seq(Message), NEW m \in Message, NEW b \in Seq(Message)
    PROVE  LET full == Append(a, m) \o b
               H == Len(Flat(a))
           IN  /\ H \in Nat /\ Len(m.parts) \in Nat
               /\ H + Len(m.parts) <= Len(Flat(full))
               /\ Len(Flat(Append(a, m))) = H + Len(m.parts)
               /\ \A j \in 1 .. Len(m.parts) :
                    /\ Sites(full)[H + j] = [mi |-> Len(a) + 1, ci |-> j, part |-> m.parts[j]]
                    /\ Flat(full)[H + j] = m.parts[j]
<1> DEFINE am == Append(a, m)
           full == am \o b
           H == Len(Flat(a))
           P == Len(m.parts)
           n == Len(a) + 1
<1>1. am \in Seq(Message) /\ full \in Seq(Message) /\ n \in Nat
  OBVIOUS
<1>2. SitesOf(m, n) \in Seq(Site) /\ Len(SitesOf(m, n)) = P /\ P \in Nat
      /\ \A j \in 1 .. P : SitesOf(m, n)[j] = [mi |-> n, ci |-> j, part |-> m.parts[j]]
  BY <1>1, SitesOfIs
<1>3. Sites(a) \in Seq(Site) /\ Len(Flat(a)) = Len(Sites(a)) /\ H \in Nat
  BY FlatIs
<1>4. Sites(am) = Sites(a) \o SitesOf(m, n)
  BY SitesAppend
<1>5. Sites(am) \in Seq(Site) /\ Len(Flat(am)) = Len(Sites(am))
  BY <1>1, FlatIs
<1>6. Sites(full) \in Seq(Site) /\ Len(Flat(full)) = Len(Sites(full))
      /\ \A k \in 1 .. Len(Sites(full)) : Flat(full)[k] = Sites(full)[k].part
  BY <1>1, FlatIs
<1>7. Len(Sites(am)) <= Len(Sites(full))
      /\ \A k \in 1 .. Len(Sites(am)) : Sites(full)[k] = Sites(am)[k]
  BY <1>1, FlatConcat
<1> HIDE DEF am, full, P, n
<1>8. Len(Sites(am)) = H + P
  <2> DEFINE u == Sites(a)
             v == SitesOf(m, n)
  <2>1. u \in Seq(Site) /\ v \in Seq(Site) /\ Len(u) = H /\ Len(v) = P
    BY <1>2, <1>3
  <2> HIDE DEF H, u, v
  <2>2. Len(u \o v) = H + P
    BY <2>1
  <2> QED BY <1>4, <2>2 DEF u, v
<1>9. \A j \in 1 .. P : Sites(am)[H + j] = SitesOf(m, n)[j]
  <2> DEFINE u == Sites(a)
             v == SitesOf(m, n)
  <2>1. u \in Seq(Site) /\ v \in Seq(Site) /\ Len(u) = H /\ Len(v) = P
    BY <1>2, <1>3
  <2> HIDE DEF H, u, v
  <2>2. \A j \in 1 .. P : (u \o v)[H + j] = v[j]
    BY <1>2, <1>3, <2>1
  <2> QED BY <1>4, <2>2 DEF u, v
<1>10. \A j \in 1 .. P : H + j \in 1 .. Len(Sites(am)) /\ H + j \in 1 .. Len(Sites(full))
  <2>1. Len(Sites(full)) \in Nat
    BY <1>6
  <2> HIDE DEF H
  <2> QED BY <1>2, <1>3, <1>7, <1>8, <2>1
<1> HIDE DEF H
<1>11. \A j \in 1 .. P : /\ Sites(full)[H + j] = [mi |-> n, ci |-> j, part |-> m.parts[j]]
                         /\ Flat(full)[H + j] = m.parts[j]
  <2> TAKE j \in 1 .. P
  <2>1. Sites(full)[H + j] = [mi |-> n, ci |-> j, part |-> m.parts[j]]
    BY <1>2, <1>7, <1>9, <1>10
  <2> QED BY <1>6, <1>10, <2>1
<1> QED BY <1>2, <1>3, <1>5, <1>6, <1>7, <1>8, <1>11 DEF am, full, H, P, n

\* Two parts have two places.
LEMMA SitesApart ==
    ASSUME NEW ms \in Seq(Message), NEW k \in 1 .. Len(Sites(ms)), NEW n \in 1 .. Len(Sites(ms)),
           Sites(ms)[k] = Sites(ms)[n]
    PROVE  k = n
<1>1. ASSUME NEW i \in 1 .. Len(Sites(ms)), NEW j \in 1 .. Len(Sites(ms)),
             Sites(ms)[i] = Sites(ms)[j], i < j PROVE FALSE
  <2>1. i \in 1 .. j - 1
    BY <1>1
  <2>2. Sites(ms)[i].ci < Sites(ms)[j].ci
    BY <1>1, <2>1, SitesOrder
  <2>3. Sites(ms)[j].ci \in 1 .. Len(ms[Sites(ms)[j].mi].parts)
    BY <1>1, SitesOrder
  <2> QED BY <1>1, <2>2, <2>3
<1> QED BY <1>1

\* An entry of a list under repair.
Entry == [msg : Message, origin : Nat]

\* The messages of entries.
LEMMA MessagesIs ==
    ASSUME NEW es \in Seq(Entry)
    PROVE  /\ Messages(es) \in Seq(Message) /\ Len(Messages(es)) = Len(es)
           /\ \A i \in 1 .. Len(es) : Messages(es)[i] = es[i].msg
<1>1. \A i \in 1 .. Len(es) : es[i].msg \in Message
  <2> TAKE i \in 1 .. Len(es)
  <2>1. es[i] \in Entry
    OBVIOUS
  <2> QED BY <2>1 DEF Entry
<1>2. Messages(es) = [i \in 1 .. Len(es) |-> es[i].msg] /\ Len(es) \in Nat
  BY DEF Messages
<1> QED BY <1>1, <1>2

\* The messages of entries and of one more.
LEMMA MessagesAppend ==
    ASSUME NEW es \in Seq(Entry), NEW e \in Entry
    PROVE  Messages(Append(es, e)) = Append(Messages(es), e.msg)
<1> DEFINE x == Messages(es)
           ee == Append(es, e)
           y == Messages(ee)
           z == Append(x, e.msg)
<1>1. ee \in Seq(Entry) /\ Len(ee) = Len(es) + 1 /\ e.msg \in Message /\ Len(es) \in Nat
      /\ ee[Len(es) + 1] = e /\ \A i \in 1 .. Len(es) : ee[i] = es[i]
  BY AppendProperties DEF Entry
<1>2. x \in Seq(Message) /\ Len(x) = Len(es) /\ \A i \in 1 .. Len(es) : x[i] = es[i].msg
  BY MessagesIs
<1>3. y \in Seq(Message) /\ Len(y) = Len(ee) /\ \A i \in 1 .. Len(ee) : y[i] = ee[i].msg
  <2> HIDE DEF ee
  <2> QED BY <1>1, MessagesIs
<1> HIDE DEF x, y, ee
<1>4. z \in Seq(Message) /\ Len(z) = Len(es) + 1
      /\ z[Len(es) + 1] = e.msg /\ \A i \in 1 .. Len(es) : z[i] = x[i]
  BY <1>1, <1>2, AppendProperties
<1> HIDE DEF z
<1>5. \A i \in 1 .. Len(es) + 1 : i = Len(es) + 1 \/ i \in 1 .. Len(es)
  BY <1>1
<1>6. \A i \in 1 .. Len(es) + 1 : y[i] = z[i]
  BY <1>1, <1>2, <1>3, <1>4, <1>5
<1>7. y = z
  BY <1>1, <1>3, <1>4, <1>6, SeqEqual
<1> QED BY <1>7 DEF x, y, z, ee

\* What is left of a message is a message, of its role.
LEMMA ReducedIs ==
    ASSUME NEW m \in Message, NEW J
    PROVE  /\ ReducedTo(m, J) \in Message /\ ReducedTo(m, J).role = m.role
           /\ ReducedTo(m, J).parts = Pick(m.parts, J)
<1>1. m.parts \in Seq(Part) /\ m.role \in Roles
  BY DEF Message
<1>2. Pick(m.parts, J) \in Seq(Part)
  BY <1>1, PickThinned
<1> QED BY <1>1, <1>2 DEF Message, ReducedTo

\* What dropping orphans keeps of the parts: all after the first H, and of those
\* the ones that are no calls or results, or stand at a place in P.
Kept(ms, H, P) ==
    {k \in 1 .. Len(Flat(ms)) : k <= H => ~IsToolPart(Flat(ms)[k]) \/ Sites(ms)[k] \in P}

Bare(m, i, P) ==
    ReducedTo(m, {j \in DOMAIN m.parts :
                    LET p == m.parts[j]
                    IN  ~IsToolPart(p) \/ [mi |-> i, ci |-> j, part |-> p] \in P})

\* What dropping leaves of one message, behind what it left of those before.
LEMMA BareThinned ==
    ASSUME NEW a \in Seq(Message), NEW m \in Message, NEW b \in Seq(Message),
           NEW P, NEW H \in Nat, Len(Flat(Append(a, m))) <= H,
           NEW q \in Seq(Part), NEW g0,
           Thinned(g0, q, Flat(Append(a, m) \o b), Len(Flat(a)), Kept(Append(a, m) \o b, H, P))
    PROVE  \E g : Thinned(g, q \o Bare(m, Len(a) + 1, P).parts, Flat(Append(a, m) \o b),
                          Len(Flat(Append(a, m))), Kept(Append(a, m) \o b, H, P))
<1> DEFINE full == Append(a, m) \o b
           K == Kept(full, H, P)
           L == Len(Flat(a))
           N == Len(m.parts)
           J == {j \in DOMAIN m.parts :
                    LET p == m.parts[j]
                    IN  ~IsToolPart(p) \/ [mi |-> Len(a) + 1, ci |-> j, part |-> p] \in P}
           r == Pick(m.parts, J)
           F == Flat(full)
           L2 == Len(Flat(Append(a, m)))
           parts == m.parts
<1>1. Bare(m, Len(a) + 1, P).parts = r
  BY ReducedIs DEF Bare
<1>2. parts \in Seq(Part)
  BY DEF Message
<1>3. /\ L \in Nat /\ N \in Nat /\ L + N <= Len(F) /\ L2 = L + N
      /\ \A j \in 1 .. N : /\ Sites(full)[L + j] = [mi |-> Len(a) + 1, ci |-> j, part |-> parts[j]]
                           /\ F[L + j] = parts[j]
  BY SitesAt
<1>4. \A j \in 1 .. N : j \in J <=> ~IsToolPart(parts[j])
                                      \/ [mi |-> Len(a) + 1, ci |-> j, part |-> parts[j]] \in P
  BY <1>2
<1>5. r \in Seq(Part) /\ \E g : Thinned(g, r, parts, N, J)
  <2> HIDE DEF J
  <2> QED BY <1>2, PickThinned
<1>6. Thinned(g0, q, F, L, K)
  OBVIOUS
<1>7. full \in Seq(Message)
  OBVIOUS
<1>8. Len(F) \in Nat
  BY <1>7, FlatIs
<1> HIDE DEF J, r, full
<1>9. \A j \in 1 .. N : j \in J <=> L + j \in K
  <2> TAKE j \in 1 .. N
  <2>1. L + j \in 1 .. Len(F) /\ L + j <= H
    <3> HIDE DEF L, N, F, L2
    <3> QED BY <1>3, <1>8 DEF L2
  <2>2. L + j \in K <=> ~IsToolPart(F[L + j]) \/ Sites(full)[L + j] \in P
    <3> HIDE DEF L
    <3> QED BY <2>1 DEF Kept
  <2> HIDE DEF L, N, F, L2, K, parts
  <2> QED BY <1>3, <1>4, <2>2
<1> HIDE DEF K, L, N, F, L2, parts
<1>10. PICK g2 : Thinned(g2, r, parts, N, J)
  BY <1>5
<1>11. \A j \in 1 .. N : F[L + j] = parts[j] /\ (j \in J <=> L + j \in K)
  BY <1>3, <1>9
<1>12. \E g : /\ Thinned(g, q \o r, F, L + N, K)
              /\ \A i \in 1 .. Len(q) : g[i] \in 1 .. L
  <2>1. PICK g : ThinnedBoth(g, q, r, F, L, N, K, g2)
    BY <1>3, <1>5, <1>6, <1>10, <1>11, ThinnedConcat
  <2> QED BY <2>1 DEF ThinnedBoth
<1> QED BY <1>1, <1>3, <1>12 DEF K, L, L2, F, full

\* A list cut behind its n-th message.
LEMMA CutAt ==
    ASSUME NEW h \in Seq(Message), NEW n \in 1 .. Len(h), NEW p \in Seq(Message)
    PROVE  LET a == SubSeq(h, 1, n - 1)
               b == SubSeq(h, n + 1, Len(h)) \o p
           IN  /\ a \in Seq(Message) /\ Len(a) = n - 1 /\ h[n] \in Message /\ b \in Seq(Message)
               /\ SubSeq(h, 1, n) = Append(a, h[n])
               /\ h \o p = Append(a, h[n]) \o b
               /\ Len(Flat(Append(a, h[n]))) <= Len(Flat(h))
<1> DEFINE a == SubSeq(h, 1, n - 1)
           am == Append(a, h[n])
           c == SubSeq(h, n + 1, Len(h))
<1>1. a \in Seq(Message) /\ Len(a) = n - 1 /\ h[n] \in Message /\ n - 1 \in Nat
      /\ \A i \in 1 .. n - 1 : a[i] = h[i]
  <2>1. \A i \in 1 .. n - 1 : h[i] \in Message
    OBVIOUS
  <2> QED BY <2>1
<1>2. c \in Seq(Message) /\ Len(c) = Len(h) - n /\ \A i \in 1 .. Len(h) - n : c[i] = h[n + i]
  <2>1. \A i \in n + 1 .. Len(h) : h[i] \in Message
    OBVIOUS
  <2> QED BY <2>1
<1>3. am \in Seq(Message) /\ Len(am) = n /\ am[n] = h[n] /\ \A i \in 1 .. n - 1 : am[i] = h[i]
  <2> HIDE DEF a
  <2> QED BY <1>1, AppendProperties
<1>4. SubSeq(h, 1, n) \in Seq(Message) /\ Len(SubSeq(h, 1, n)) = n
      /\ \A i \in 1 .. n : SubSeq(h, 1, n)[i] = h[i]
  <2>1. \A i \in 1 .. n : h[i] \in Message
    OBVIOUS
  <2> QED BY <2>1
<1> HIDE DEF a, am, c
<1>5. \A i \in 1 .. n : i = n \/ i \in 1 .. n - 1
  OBVIOUS
<1>6. SubSeq(h, 1, n) = am
  <2> DEFINE u == SubSeq(h, 1, n)
  <2>1. \A i \in 1 .. n : u[i] = am[i]
    BY <1>3, <1>4, <1>5
  <2>2. u \in Seq(Message) /\ Len(u) = n
    BY <1>4
  <2> HIDE DEF u
  <2>3. u = am
    BY <1>3, <2>1, <2>2, SeqEqual
  <2> QED BY <2>3 DEF u
<1>7. h = am \o c
  <2> DEFINE v == am \o c
  <2>1. v \in Seq(Message) /\ Len(v) = Len(h)
    <3>1. am \in Seq(Message) /\ c \in Seq(Message)
      BY <1>2, <1>3
    <3>2. v \in Seq(Message) /\ Len(v) = Len(am) + Len(c)
      <4> HIDE DEF am, c
      <4> QED BY <3>1, BehindIs
    <3> QED BY <1>2, <1>3, <3>2
  <2>2. \A i \in 1 .. Len(h) : v[i] = h[i]
    <3> TAKE i \in 1 .. Len(h)
    <3>1. CASE i \in 1 .. n
      BY <1>2, <1>3, <1>5, <3>1
    <3>2. CASE i \in n + 1 .. Len(h)
      <4>1. i - n \in 1 .. Len(h) - n /\ n + (i - n) = i
        BY <3>2
      <4>2. v[i] = c[i - n]
        BY <1>2, <1>3, <3>2
      <4> QED BY <1>2, <4>1, <4>2
    <3>3. i \in 1 .. n \/ i \in n + 1 .. Len(h)
      <4> HIDE DEF v
      <4> QED OBVIOUS
    <3> HIDE DEF v
    <3> QED BY <3>1, <3>2, <3>3
  <2> HIDE DEF v
  <2>3. v = h
    BY <2>1, <2>2, SeqEqual
  <2> QED BY <2>3 DEF v
<1>8. h \o p = am \o (c \o p)
  BY <1>2, <1>3, <1>7, Associative
<1>9. Len(Flat(am)) <= Len(Flat(h))
  <2>1. Flat(am \o c) = Flat(am) \o Flat(c)
    BY <1>2, <1>3, FlatConcat
  <2>2. Flat(am) \in Seq(Part) /\ Flat(c) \in Seq(Part)
    BY <1>2, <1>3, FlatIs
  <2> QED BY <1>7, <2>1, <2>2
<1>10. c \o p \in Seq(Message)
  BY <1>2
<1> QED BY <1>1, <1>3, <1>6, <1>8, <1>9, <1>10 DEF a, am, c

\* How Pick goes through s.
Picks(f, s, J) ==
    /\ Pick(s, J) = f[Len(s)] /\ f[0] = <<>>
    /\ \A n \in 1 .. Len(s) : f[n] = IF n \in J THEN Append(f[n - 1], s[n]) ELSE f[n - 1]

\* Such a run exists.
LEMMA PickRuns ==
    \A A, J : \A s \in Seq(A) : \E f \in [0 .. Len(s) -> Seq(A)] : Picks(f, s, J)
BY PickIs DEF Picks

\* What dropping orphans leaves of the parts.
LEMMA DropThinned ==
    ASSUME NEW es \in Seq(Entry), NEW pending \in Seq(Message)
    PROVE  LET h == Messages(es)
               full == h \o pending
               out == DropOrphanedToolExchanges(es, pending)
           IN  /\ out \in Seq(Entry)
               /\ \E g : Thinned(g, Flat(Messages(out)), Flat(full), Len(Flat(h)),
                                 Kept(full, Len(Flat(h)), PairedSites(full)))
<1> DEFINE h == Messages(es)
           full == h \o pending
           P == PairedSites(full)
           N == Len(es)
           H == Len(Flat(h))
           F == Flat(full)
           K == Kept(full, H, P)
           Strip(i) == Bare(es[i].msg, i, P)
           s == [i \in DOMAIN es |-> [es[i] EXCEPT !.msg = Strip(i)]]
           J == {i \in DOMAIN es : Strip(i).parts # <<>> \/ es[i].msg.parts = <<>>}
           out == DropOrphanedToolExchanges(es, pending)
<1>1. out = Pick(s, J)
  BY DEF DropOrphanedToolExchanges, Bare
<1>2. h \in Seq(Message) /\ Len(h) = N /\ N \in Nat /\ DOMAIN es = 1 .. N
      /\ \A i \in 1 .. N : h[i] = es[i].msg
  BY MessagesIs
<1>3. H \in Nat
  BY <1>2, FlatIs
<1> HIDE DEF h, N, H, F, K, full, P
<1>4. \A i \in 1 .. N : /\ es[i] \in Entry /\ h[i] \in Message /\ Strip(i) \in Message
                        /\ s[i] \in Entry /\ s[i].msg = Strip(i)
  <2> TAKE i \in 1 .. N
  <2>1. es[i] \in Entry
    BY <1>2
  <2>2. h[i] \in Message /\ es[i].msg = h[i]
    BY <1>2
  <2>3. Strip(i) \in Message
    BY <2>2, ReducedIs DEF Bare
  <2>4. s[i] = [es[i] EXCEPT !.msg = Strip(i)]
    BY <1>2
  <2> HIDE DEF Strip, s
  <2> QED BY <2>1, <2>2, <2>3, <2>4 DEF Entry
<1>5. s \in Seq(Entry) /\ Len(s) = N
  <2> DEFINE e(i) == [es[i] EXCEPT !.msg = Strip(i)]
  <2>1. s = [i \in 1 .. N |-> e(i)]
    BY <1>2
  <2>2. \A i \in 1 .. N : s[i] \in Entry
    BY <1>4
  <2> HIDE DEF e, s
  <2>3. \A i \in 1 .. N : e(i) \in Entry
    BY <2>1, <2>2
  <2> QED BY <1>2, <2>1, <2>3
<1>6. \A i \in 1 .. N : i \notin J => Strip(i).parts = <<>>
  BY <1>2
<1> HIDE DEF s, J, out
<1>7. PICK f \in [0 .. N -> Seq(Entry)] :
        /\ Pick(s, J) = f[N] /\ f[0] = <<>>
        /\ \A n \in 1 .. N :
             f[n] = IF n \in J THEN Append(f[n - 1], s[n]) ELSE f[n - 1]
  <2>1. \E f \in [0 .. Len(s) -> Seq(Entry)] : Picks(f, s, J)
    BY <1>5, PickRuns
  <2> QED BY <1>5, <2>1 DEF Picks
<1> DEFINE A(n) == SubSeq(h, 1, n)
           Good == {n \in 0 .. N : \E g : Thinned(g, Flat(Messages(f[n])), F, Len(Flat(A(n))), K)}
<1>8. 0 \in Good
  <2> DEFINE g == [i \in 1 .. 0 |-> 0]
  <2>1. A(0) = <<>>
    BY <1>2
  <2>2. Messages(f[0]) = <<>>
    BY <1>7 DEF Messages
  <2>3. Flat(<<>>) = <<>> /\ Len(<<>>) = 0
    BY FlatAppend
  <2>4. Thinned(g, <<>>, F, 0, K)
    BY <2>3 DEF Thinned
  <2> HIDE DEF g
  <2>5. Thinned(g, Flat(Messages(f[0])), F, Len(Flat(A(0))), K)
    BY <2>1, <2>2, <2>3, <2>4
  <2> QED BY <1>2, <2>5
<1>9. ASSUME NEW n \in 0 .. N - 1, n \in Good PROVE n + 1 \in Good
  <2> DEFINE k == n + 1
             a == A(n)
             m == h[k]
             b == SubSeq(h, k + 1, Len(h)) \o pending
             q == Flat(Messages(f[n]))
  <2>1. k \in 1 .. N /\ k - 1 = n /\ k \in 0 .. N /\ n \in 0 .. N /\ k \in 1 .. Len(h)
    BY <1>2
  <2>2. PICK g0 : Thinned(g0, q, F, Len(Flat(a)), K)
    BY <1>9
  <2>3. LET aa == SubSeq(h, 1, k - 1)
        IN  /\ aa \in Seq(Message) /\ Len(aa) = k - 1 /\ h[k] \in Message /\ b \in Seq(Message)
            /\ SubSeq(h, 1, k) = Append(aa, h[k])
            /\ h \o pending = Append(aa, h[k]) \o b
            /\ Len(Flat(Append(aa, h[k]))) <= Len(Flat(h))
    <3> HIDE DEF k
    <3> QED BY <1>2, <2>1, CutAt
  <2>4. /\ a \in Seq(Message) /\ Len(a) = n /\ m \in Message /\ b \in Seq(Message)
        /\ A(k) = Append(a, m) /\ full = Append(a, m) \o b
        /\ Len(Flat(Append(a, m))) <= H
    BY <2>1, <2>3 DEF full, H
  <2>5. f[n] \in Seq(Entry)
    BY <2>1
  <2>6. Messages(f[n]) \in Seq(Message)
    BY <2>5, MessagesIs
  <2>7. q \in Seq(Part)
    BY <2>6, FlatIs
  <2> HIDE DEF a, b, A
  <2>8. f[k] = IF k \in J THEN Append(f[n], s[k]) ELSE f[n]
    BY <1>7, <2>1
  <2>9. m = es[k].msg /\ s[k] \in Entry /\ s[k].msg = Strip(k) /\ Strip(k) = Bare(m, k, P)
        /\ Strip(k) \in Message
    BY <1>2, <1>4, <2>1
  <2> HIDE DEF m, q, Good, Strip
  <2>10. Thinned(g0, q, Flat(Append(a, m) \o b), Len(Flat(a)), Kept(Append(a, m) \o b, H, P))
    BY <2>2, <2>4 DEF F, K
  <2>11. \E g : Thinned(g, q \o Bare(m, Len(a) + 1, P).parts, Flat(Append(a, m) \o b),
                          Len(Flat(Append(a, m))), Kept(Append(a, m) \o b, H, P))
    BY <1>3, <2>4, <2>7, <2>10, BareThinned
  <2>12. PICK g : Thinned(g, q \o Strip(k).parts, F, Len(Flat(A(k))), K)
    BY <2>4, <2>9, <2>11 DEF F, K
  <2>13. Flat(Messages(f[k])) = q \o Strip(k).parts
    <3>1. CASE k \in J
      <4>1. Messages(f[k]) = Append(Messages(f[n]), Strip(k))
        BY <2>5, <2>8, <2>9, <3>1, MessagesAppend
      <4> QED BY <2>6, <2>9, <4>1, FlatAppend DEF q
    <3>2. CASE k \notin J
      <4>1. f[k] = f[n] /\ Strip(k).parts = <<>>
        BY <1>6, <2>1, <2>8, <3>2
      <4>2. q \o <<>> = q
        BY <2>7
      <4> QED BY <4>1, <4>2 DEF q
    <3> QED BY <3>1, <3>2
  <2>14. Thinned(g, Flat(Messages(f[k])), F, Len(Flat(A(k))), K)
    BY <2>12, <2>13
  <2> HIDE DEF k
  <2>15. k \in Good
    BY <2>1, <2>14 DEF Good
  <2> QED BY <2>15 DEF k
<1> HIDE DEF Good
<1>10. N \in Good
  <2>1. N \in Nat /\ 0 \in Good /\ \A n \in 0 .. N - 1 : n \in Good => n + 1 \in Good
    BY <1>2, <1>8, <1>9
  <2>2. \A n \in 0 .. N : n \in Good
    BY <2>1, Upto
  <2> QED BY <1>2, <2>2
<1>11. A(N) = h
  <2>1. SubSeq(h, 1, Len(h)) = h
    <3> DEFINE l == Len(h)
               u == SubSeq(h, 1, l)
    <3>1. l \in Nat /\ \A i \in 1 .. l : h[i] \in Message
      BY <1>2
    <3>2. u \in Seq(Message) /\ Len(u) = l /\ \A i \in 1 .. l : u[i] = h[i]
      BY <1>2, <3>1
    <3> HIDE DEF u
    <3>3. u = h
      BY <1>2, <3>2, SeqEqual
    <3> QED BY <3>3 DEF u
  <2> QED BY <1>2, <2>1
<1>12. f[N] \in Seq(Entry) /\ out = f[N]
  BY <1>1, <1>2, <1>7
<1>13. \E g : Thinned(g, Flat(Messages(out)), F, Len(Flat(h)), K)
  BY <1>10, <1>11, <1>12 DEF Good
<1> QED BY <1>12, <1>13 DEF h, full, P, H, F, K, out

\* The places of paired parts are the paired places.
LEMMA PairedPlaces ==
    ASSUME NEW ms \in Seq(Message)
    PROVE  \A n \in 1 .. Len(Flat(ms)) : Sites(ms)[n] \in PairedSites(ms) <=> n \in Paired(Flat(ms))
<1> DEFINE S == Sites(ms)
           F == Flat(ms)
           prs == PairParts(F).pairs
<1>1. /\ S \in Seq(Site) /\ F \in Seq(Part) /\ Len(F) = Len(S) /\ Len(F) \in Nat
  BY FlatIs
<1>2. PairToolExchanges(ms).pairs = {[call |-> S[p.call], result |-> S[p.result]] : p \in prs}
  BY DEF PairToolExchanges, PairSites, Flat
<1>3. PairedSites(ms) = UNION {{p.call, p.result} : p \in PairToolExchanges(ms).pairs}
  BY DEF PairedSites
<1>4. \A p \in prs : p.call \in 1 .. Len(F) /\ p.result \in 1 .. Len(F)
  BY <1>1, PairsAre DEF PairState
<1>5. \A i, j \in 1 .. Len(F) : S[i] = S[j] => i = j
  BY <1>1, SitesApart
<1> HIDE DEF S, F, prs
<1> SUFFICES ASSUME NEW n \in 1 .. Len(F) PROVE S[n] \in PairedSites(ms) <=> \E p \in prs : n = p.call \/ n = p.result
  BY DEF Paired, S, F, prs
<1>6. ASSUME S[n] \in PairedSites(ms) PROVE \E p \in prs : n = p.call \/ n = p.result
  <2>1. PICK e \in PairToolExchanges(ms).pairs : S[n] = e.call \/ S[n] = e.result
    BY <1>3, <1>6
  <2>2. PICK p \in prs : e = [call |-> S[p.call], result |-> S[p.result]]
    BY <1>2
  <2>3. S[n] = S[p.call] \/ S[n] = S[p.result]
    BY <2>1, <2>2
  <2> QED BY <1>4, <1>5, <2>3
<1>7. ASSUME NEW p \in prs, n = p.call \/ n = p.result PROVE S[n] \in PairedSites(ms)
  <2> DEFINE e == [call |-> S[p.call], result |-> S[p.result]]
  <2>1. e \in PairToolExchanges(ms).pairs
    BY <1>2
  <2>2. S[n] = e.call \/ S[n] = e.result
    BY <1>7
  <2> HIDE DEF e
  <2> QED BY <1>3, <2>1, <2>2
<1> QED BY <1>6, <1>7

\* Every call and result in x has its other half in x and y.
WholeParts(x, y) == \A n \in 1 .. Len(x) : IsToolPart(x[n]) => n \in Paired(x \o y)
Whole(ms, pending) == WholeParts(Flat(ms), Flat(pending))

\* What dropping leaves is whole, and leaves paired what was in the input.
LEMMA DropWhole ==
    ASSUME NEW es \in Seq(Entry), NEW pending \in Seq(Message)
    PROVE  LET out == DropOrphanedToolExchanges(es, pending)
               x == Flat(Messages(out))
               y == Flat(pending)
               H == Len(Flat(Messages(es)))
           IN  /\ out \in Seq(Entry) /\ Whole(Messages(out), pending)
               /\ \A j \in 1 .. Len(y) :
                    H + j \in Paired(Flat(Messages(es)) \o y) => Len(x) + j \in Paired(x \o y)
<1> DEFINE h == Messages(es)
           full == h \o pending
           P == PairedSites(full)
           H == Len(Flat(h))
           F == Flat(full)
           K == Kept(full, H, P)
           out == DropOrphanedToolExchanges(es, pending)
           x == Flat(Messages(out))
           y == Flat(pending)
           M == Len(y)
<1>1. h \in Seq(Message)
  BY MessagesIs
<1>2. out \in Seq(Entry) /\ \E g : Thinned(g, x, F, H, K)
  BY DropThinned
<1>3. Messages(out) \in Seq(Message)
  <2> HIDE DEF out
  <2> QED BY <1>2, MessagesIs
<1>4. x \in Seq(Part) /\ y \in Seq(Part) /\ M \in Nat
  BY <1>3, FlatIs
<1>5. Flat(h) \in Seq(Part) /\ H \in Nat
  BY <1>1, FlatIs
<1>6. F = Flat(h) \o y
  BY <1>1, FlatConcat
<1>7. full \in Seq(Message)
  BY <1>1
<1>8. F \in Seq(Part) /\ Len(F) = H + M /\ \A j \in 1 .. M : F[H + j] = y[j]
  <2> DEFINE w == Flat(h)
  <2>1. w \in Seq(Part) /\ y \in Seq(Part)
    BY <1>4, <1>5
  <2> HIDE DEF w, y
  <2>2. /\ w \o y \in Seq(Part) /\ Len(w \o y) = Len(w) + Len(y)
        /\ \A j \in 1 .. Len(y) : (w \o y)[Len(w) + j] = y[j]
    BY <2>1, BehindIs
  <2>3. H = Len(w) /\ F = w \o y
    BY <1>6 DEF w
  <2> HIDE DEF H, F
  <2> QED BY <2>2, <2>3
<1>9. Len(F) = Len(Sites(full))
  BY <1>7, FlatIs
<1> HIDE DEF h, x, y, F, H, K, P, M, full, out
<1> DEFINE g2 == [j \in 1 .. M |-> j]
           K2 == 1 .. M
<1>10. Thinned(g2, y, y, M, K2)
  BY <1>4 DEF Thinned, M
<1>11. \A j \in 1 .. M : F[H + j] = y[j] /\ (j \in K2 <=> H + j \in K)
  <2> TAKE j \in 1 .. M
  <2>1. H + j \in 1 .. Len(F) /\ ~ (H + j <= H)
    BY <1>4, <1>5, <1>8
  <2> QED BY <1>8, <2>1 DEF K, Kept, F
<1> HIDE DEF g2, K2
<1>12. PICK g1 : Thinned(g1, x, F, H, K)
  BY <1>2
<1>13. \E g : /\ Thinned(g, x \o y, F, H + M, K)
              /\ \A i \in 1 .. Len(x) : g[i] \in 1 .. H
              /\ \A j \in 1 .. M : g[Len(x) + j] = H + j
  <2>1. PICK g : ThinnedBoth(g, x, y, F, H, M, K, g2)
    BY <1>4, <1>5, <1>10, <1>11, <1>12, ThinnedConcat
  <2>2. M = Len(y) /\ \A j \in 1 .. M : g2[j] = j
    BY DEF g2, M
  <2> QED BY <2>1, <2>2 DEF ThinnedBoth
<1> DEFINE z == x \o y
<1>14. PICK g : /\ Thinned(g, z, F, Len(F), K) /\ \A i \in 1 .. Len(x) : g[i] \in 1 .. H
                /\ \A j \in 1 .. M : g[Len(x) + j] = H + j
  BY <1>8, <1>13
<1>15. z \in Seq(Part) /\ Len(x) \in Nat /\ Len(x) <= Len(z) /\ \A i \in 1 .. Len(x) : z[i] = x[i]
  BY <1>4
<1> HIDE DEF z
<1>16. Thins(g, z, F)
  BY <1>14 DEF Thinned, Thins
<1>17. \A k \in 1 .. Len(F) : k \in Paired(F) => k \in K
  <2> SUFFICES ASSUME NEW k \in 1 .. Len(F), k \in Paired(F) PROVE k \in K
    OBVIOUS
  <2>1. Sites(full)[k] \in P
    BY <1>7, PairedPlaces DEF F, P
  <2> QED BY <2>1 DEF K, Kept, F
<1>18. Closed(g, Len(z), PairParts(F).pairs)
  <2> SUFFICES ASSUME NEW p \in PairParts(F).pairs
               PROVE  /\ \E i \in 1 .. Len(z) : g[i] = p.call
                      /\ \E i \in 1 .. Len(z) : g[i] = p.result
    BY DEF Closed
  <2>1. p.call \in 1 .. Len(F) /\ p.result \in 1 .. Len(F)
    BY <1>8, PairsAre DEF PairState
  <2>2. p.call \in Paired(F) /\ p.result \in Paired(F)
    BY DEF Paired
  <2>3. p.call \in K /\ p.result \in K
    BY <1>17, <2>1, <2>2
  <2> QED BY <1>14, <2>1, <2>3 DEF Thinned
<1>19. \A i \in 1 .. Len(z) : i \in Paired(z) <=> g[i] \in Paired(F)
  BY <1>8, <1>15, <1>16, <1>18, ThinPaired
<1>20. WholeParts(x, y)
  <2> SUFFICES ASSUME NEW n \in 1 .. Len(x), IsToolPart(x[n]) PROVE n \in Paired(x \o y)
    BY DEF WholeParts
  <2>1. n \in 1 .. Len(z) /\ z[n] = x[n]
    BY <1>15
  <2>2. g[n] \in 1 .. H /\ g[n] \in 1 .. Len(F) /\ z[n] = F[g[n]] /\ g[n] \in K
    BY <1>14, <2>1 DEF Thinned
  <2>3. g[n] <= H /\ IsToolPart(F[g[n]])
    BY <1>5, <2>1, <2>2
  <2>4. Sites(full)[g[n]] \in P
    BY <2>2, <2>3 DEF K, Kept, F
  <2>5. g[n] \in Paired(F)
    BY <1>7, <2>2, <2>4, PairedPlaces DEF F, P
  <2> QED BY <1>19, <2>1, <2>5 DEF z
<1>21. \A j \in 1 .. M : H + j \in Paired(F) => Len(x) + j \in Paired(z)
  <2> SUFFICES ASSUME NEW j \in 1 .. M, H + j \in Paired(F) PROVE Len(x) + j \in Paired(z)
    OBVIOUS
  <2>1. Len(z) = Len(x) + M
    BY <1>4 DEF z, M
  <2>2. Len(x) + j \in 1 .. Len(z)
    BY <1>4, <1>15, <2>1
  <2> QED BY <1>14, <1>19, <2>2
<1> QED BY <1>2, <1>6, <1>20, <1>21 DEF Whole, out, x, y, z, H, F, M, h

-----------------------------------------------------------------------------
(* Putting a block into a list.                                            *)

\* What may be put between the parts of a list: nothing of an exchange, or a
\* whole one.
IsExchange(b) ==
    /\ Len(b) = 2
    /\ b[1].kind = "call" /\ b[2].kind = "result" /\ b[1].id = b[2].id

IsBlock(b) == IsExchange(b) \/ \A n \in 1 .. Len(b) : ~IsToolPart(b[n])

\* A call and a result of its id right behind it are paired.
LEMMA NeighboursPair ==
    ASSUME NEW ps, Len(ps) \in Nat, NEW a \in Nat, a + 2 <= Len(ps),
           ps[a + 1].kind = "call", ps[a + 2].kind = "result", ps[a + 1].id = ps[a + 2].id
    PROVE  [call |-> a + 1, result |-> a + 2] \in PairParts(ps).pairs
<1> DEFINE N == Len(ps)
           n1 == a + 1
           n2 == a + 2
<1>1. /\ N \in Nat /\ n1 \in 1 .. N /\ n2 \in 1 .. N /\ n1 - 1 = a /\ n2 - 1 = n1
      /\ a \in 0 .. N /\ n1 \in 0 .. N /\ n2 \in 0 .. N
  OBVIOUS
<1>2. N = Len(ps)
  OBVIOUS
<1>3. ps[n1].kind = "call" /\ ps[n2].kind = "result" /\ ps[n1].id = ps[n2].id
  OBVIOUS
<1> HIDE DEF N, n1, n2
<1>4. PICK f : /\ PairParts(ps) = f[N] /\ f[0] = [open |-> {}, pairs |-> {}]
               /\ \A n \in 0 .. N : f[n] \in PairState(N) /\ PairInv(ps, f[n], n)
               /\ \A n \in 1 .. N : f[n] = PairPart(ps, f[n - 1], n)
               /\ \A n \in 0 .. N : f[n].pairs \subseteq f[N].pairs
  BY <1>1, <1>2, Pairing
<1>5. f[a] \in PairState(N) /\ f[n1] \in PairState(N) /\ PairInv(ps, f[n1], n1)
  BY <1>1, <1>4
<1>6. f[n1] = PairPart(ps, f[a], n1) /\ f[n2] = PairPart(ps, f[n1], n2)
  BY <1>1, <1>4
<1>7. f[n1] = [open |-> f[a].open \cup {n1}, pairs |-> f[a].pairs]
  <2> DEFINE acc == f[a]
  <2>1. acc \in PairState(N)
    BY <1>5
  <2> HIDE DEF acc
  <2>2. PairPart(ps, acc, n1) = [open |-> acc.open \cup {n1}, pairs |-> acc.pairs]
    BY <1>1, <1>3, <2>1, PairPartIs
  <2> QED BY <1>6, <2>2 DEF acc
<1>8. n1 \in SameId(ps, f[n1].open, n2)
  BY <1>3, <1>7 DEF SameId
<1>9. Matched(ps, f[n1], n2, f[n2])
  <2>1. /\ PairPart(ps, f[n1], n2) \in PairState(N)
        /\ ps[n2].kind = "result" /\ SameId(ps, f[n1].open, n2) # {} =>
             Matched(ps, f[n1], n2, PairPart(ps, f[n1], n2))
    BY <1>1, <1>5, PairPartIs
  <2> QED BY <1>3, <1>6, <1>8, <2>1
<1>10. PICK m \in SameId(ps, f[n1].open, n2) :
         /\ \A o \in SameId(ps, f[n1].open, n2) : o <= m
         /\ f[n2] = [open |-> f[n1].open \ {m}, pairs |-> f[n1].pairs \cup {[call |-> m, result |-> n2]}]
  BY <1>9 DEF Matched
<1>11. m \in 1 .. n1
  BY <1>5, <1>10 DEF SameId, PairInv
<1>12. m = n1
  BY <1>1, <1>8, <1>10, <1>11
<1>13. [call |-> n1, result |-> n2] \in f[n2].pairs
  BY <1>10, <1>12
<1> QED BY <1>1, <1>4, <1>13 DEF n1, n2

\* An exchange pairs within a block, or not at all with one.
LEMMA BlockClosed ==
    ASSUME NEW ps, Len(ps) \in Nat, NEW b, Len(b) \in Nat, NEW a \in Nat, a + Len(b) <= Len(ps),
           \A j \in 1 .. Len(b) : ps[a + j] = b[j], IsBlock(b)
    PROVE  /\ \A p \in PairParts(ps).pairs : p.call \in a + 1 .. a + Len(b) <=> p.result \in a + 1 .. a + Len(b)
           /\ \A j \in 1 .. Len(b) : IsToolPart(b[j]) => a + j \in Paired(ps)
<1> DEFINE prs == PairParts(ps).pairs
           N == Len(ps)
<1>1. \A p \in prs : /\ p.call \in 1 .. N /\ p.result \in 1 .. N
                     /\ ps[p.call].kind = "call" /\ ps[p.result].kind = "result"
                     /\ \A q \in prs : p.call = q.call \/ p.result = q.result => p = q
  <2>1. PairParts(ps) \in PairState(N) /\ PairInv(ps, PairParts(ps), N)
    BY PairsAre
  <2> HIDE DEF N
  <2> QED BY <2>1 DEF PairInv
<1>2. CASE \A n \in 1 .. Len(b) : ~IsToolPart(b[n])
  <2>1. \A k \in a + 1 .. a + Len(b) : ~IsToolPart(ps[k])
    <3> TAKE k \in a + 1 .. a + Len(b)
    <3>1. k - a \in 1 .. Len(b) /\ a + (k - a) = k
      OBVIOUS
    <3> QED BY <1>2, <3>1
  <2>2. \A p \in prs : p.call \notin a + 1 .. a + Len(b) /\ p.result \notin a + 1 .. a + Len(b)
    BY <1>1, <2>1 DEF IsToolPart
  <2> QED BY <1>2, <2>2
<1>3. CASE IsExchange(b)
  <2>1. Len(b) = 2 /\ 1 \in 1 .. Len(b) /\ 2 \in 1 .. Len(b)
    BY <1>3 DEF IsExchange
  <2>2. ps[a + 1].kind = "call" /\ ps[a + 2].kind = "result" /\ ps[a + 1].id = ps[a + 2].id
    BY <1>3, <2>1 DEF IsExchange
  <2>3. [call |-> a + 1, result |-> a + 2] \in prs
    BY <2>1, <2>2, NeighboursPair
  <2> DEFINE e == [call |-> a + 1, result |-> a + 2]
  <2>4. e \in prs /\ e.call = a + 1 /\ e.result = a + 2
    BY <2>3
  <2>5. \A k \in a + 1 .. a + Len(b) : k = a + 1 \/ k = a + 2
    BY <2>1
  <2>6. a + 1 \in a + 1 .. a + Len(b) /\ a + 2 \in a + 1 .. a + Len(b)
    BY <2>1
  <2> HIDE DEF e, prs
  <2>7. ASSUME NEW p \in prs
        PROVE p.call \in a + 1 .. a + Len(b) <=> p.result \in a + 1 .. a + Len(b)
    <3>1. p.call \in a + 1 .. a + Len(b) => p.call = e.call
      BY <1>1, <2>2, <2>4, <2>5
    <3>2. p.result \in a + 1 .. a + Len(b) => p.result = e.result
      BY <1>1, <2>2, <2>4, <2>5
    <3>3. p.call = e.call \/ p.result = e.result => p = e
      BY <1>1, <2>4
    <3> QED BY <2>4, <2>6, <3>1, <3>2, <3>3
  <2>8. a + 1 \in Paired(ps) /\ a + 2 \in Paired(ps)
    BY <2>4 DEF Paired, prs
  <2>9. \A j \in 1 .. Len(b) : j = 1 \/ j = 2
    BY <2>1
  <2> QED BY <2>7, <2>8, <2>9 DEF prs
<1> QED BY <1>2, <1>3 DEF IsBlock

\* Putting a block into a whole list leaves it whole.
LEMMA BlockWhole ==
    ASSUME NEW u \in Seq(Part), NEW v \in Seq(Part), NEW w \in Seq(Part), NEW y \in Seq(Part),
           IsBlock(v), WholeParts(u \o w, y)
    PROVE  WholeParts((u \o v) \o w, y)
<1> DEFINE t == w \o y
           uv == u \o v
           ps == uv \o t
           qs == u \o t
           a == Len(u)
           b == Len(v)
           c == Len(t)
           lw == Len(w)
           g == [i \in 1 .. a + c |-> IF i <= a THEN i ELSE b + i]
<1>1. t \in Seq(Part) /\ uv \in Seq(Part)
  BY BehindIs
<1>2. /\ Len(uv) = a + b /\ a \in Nat /\ b \in Nat
      /\ \A i \in 1 .. a : uv[i] = u[i]
      /\ \A j \in 1 .. b : uv[a + j] = v[j]
  OBVIOUS
<1>3. c = lw + Len(y) /\ lw \in Nat /\ Len(y) \in Nat /\ c \in Nat /\ lw <= c
  OBVIOUS
<1> HIDE DEF t, uv, lw
<1>4. /\ ps \in Seq(Part) /\ Len(ps) = a + b + c
      /\ \A i \in 1 .. a + b : ps[i] = uv[i]
      /\ \A j \in 1 .. c : ps[a + b + j] = t[j]
  <2>1. /\ uv \o t \in Seq(Part) /\ Len(uv \o t) = Len(uv) + Len(t)
        /\ \A i \in 1 .. Len(uv) : (uv \o t)[i] = uv[i]
        /\ \A j \in 1 .. Len(t) : (uv \o t)[Len(uv) + j] = t[j]
    BY <1>1, BehindIs
  <2> HIDE DEF a, b
  <2>2. Len(uv) = a + b
    BY <1>2
  <2> QED BY <2>1, <2>2
<1>5. /\ qs \in Seq(Part) /\ Len(qs) = a + c
      /\ \A i \in 1 .. a : qs[i] = u[i]
      /\ \A j \in 1 .. c : qs[a + j] = t[j]
  BY <1>1
<1> HIDE DEF a, b, c, ps, qs
<1>6. \A i \in 1 .. a + c : /\ g[i] \in 1 .. a + b + c
                            /\ (i \in 1 .. a /\ g[i] = i) \/ (i - a \in 1 .. c /\ g[i] = a + b + (i - a) /\ i = a + (i - a))
  BY <1>2, <1>3
<1>7. g \in [1 .. Len(qs) -> 1 .. Len(ps)]
  <2>1. \A i \in 1 .. a + c : (IF i <= a THEN i ELSE b + i) \in 1 .. a + b + c
    BY <1>2, <1>3
  <2> QED BY <1>4, <1>5, <2>1
<1>8. \A i, j \in 1 .. a + c : i < j => g[i] < g[j]
  BY <1>2, <1>3
<1>9. \A k \in 1 .. a + b + c : k \notin a + 1 .. a + b => \E i \in 1 .. a + c : g[i] = k
  <2> SUFFICES ASSUME NEW k \in 1 .. a + b + c, k \notin a + 1 .. a + b
               PROVE  \E i \in 1 .. a + c : g[i] = k
    OBVIOUS
  <2>1. CASE k <= a
    <3>1. k \in 1 .. a + c /\ g[k] = k
      BY <1>2, <1>3, <2>1
    <3> QED BY <3>1
  <2>2. CASE k > a + b
    <3>1. k - b \in 1 .. a + c /\ g[k - b] = k
      BY <1>2, <1>3, <2>2
    <3> QED BY <3>1
  <2> QED BY <1>2, <2>1, <2>2
<1>10. \A i \in 1 .. a + c : g[i] \notin a + 1 .. a + b
  BY <1>2, <1>3
<1> HIDE DEF g
<1>11. \A i \in 1 .. a + c : qs[i] = ps[g[i]]
  <2> TAKE i \in 1 .. a + c
  <2>1. CASE i \in 1 .. a /\ g[i] = i
    <3>1. i \in 1 .. a + b
      BY <1>2, <2>1
    <3> QED BY <1>2, <1>4, <1>5, <2>1, <3>1
  <2>2. CASE i - a \in 1 .. c /\ g[i] = a + b + (i - a) /\ i = a + (i - a)
    <3> DEFINE j == i - a
    <3>1. j \in 1 .. c /\ g[i] = a + b + j /\ i = a + j
      BY <2>2
    <3> HIDE DEF j
    <3> QED BY <1>4, <1>5, <3>1
  <2> QED BY <1>6, <2>1, <2>2
<1>12. Thins(g, qs, ps)
  BY <1>5, <1>7, <1>8, <1>11 DEF Thins
<1>13. /\ \A p \in PairParts(ps).pairs : p.call \in a + 1 .. a + b <=> p.result \in a + 1 .. a + b
       /\ \A j \in 1 .. b : IsToolPart(v[j]) => a + j \in Paired(ps)
  <2>1. Len(ps) \in Nat /\ a + Len(v) <= Len(ps) /\ Len(v) \in Nat /\ b = Len(v)
    BY <1>2, <1>3, <1>4 DEF b
  <2>2. \A j \in 1 .. Len(v) : ps[a + j] = v[j]
    <3> TAKE j \in 1 .. Len(v)
    <3>1. j \in 1 .. b /\ a + j \in 1 .. a + b
      BY <1>2 DEF b
    <3> QED BY <1>2, <1>4, <3>1
  <2>3. /\ \A p \in PairParts(ps).pairs : p.call \in a + 1 .. a + Len(v) <=> p.result \in a + 1 .. a + Len(v)
        /\ \A j \in 1 .. Len(v) : IsToolPart(v[j]) => a + j \in Paired(ps)
    BY <1>2, <2>1, <2>2, BlockClosed
  <2> QED BY <2>1, <2>3
<1>14. Closed(g, Len(qs), PairParts(ps).pairs)
  <2> SUFFICES ASSUME NEW p \in PairParts(ps).pairs
               PROVE  (\E i \in 1 .. a + c : g[i] = p.call) <=> (\E i \in 1 .. a + c : g[i] = p.result)
    BY <1>5 DEF Closed
  <2>1. p.call \in 1 .. a + b + c /\ p.result \in 1 .. a + b + c
    <3>1. Len(ps) \in Nat
      BY <1>4
    <3>2. p.call \in 1 .. Len(ps) /\ p.result \in 1 .. Len(ps)
      BY <3>1, PairsAre DEF PairState
    <3> QED BY <1>4, <3>2
  <2> QED BY <1>9, <1>10, <1>13, <2>1
<1>15. \A i \in 1 .. Len(qs) : i \in Paired(qs) <=> g[i] \in Paired(ps)
  BY <1>4, <1>5, <1>12, <1>14, ThinPaired
<1>16. qs = (u \o w) \o y /\ ps = ((u \o v) \o w) \o y
  <2>1. (uv \o w) \o y = uv \o (w \o y)
    BY <1>1, PartsAssociative, SMTT(40)
  <2>2. (u \o w) \o y = u \o (w \o y)
    BY PartsAssociative, SMTT(40)
  <2> QED BY <2>1, <2>2 DEF qs, ps, t, uv
<1> DEFINE x2 == uv \o w
           x1 == u \o w
<1>17. x2 \in Seq(Part) /\ Len(x2) = a + b + lw /\ ps = x2 \o y
  <2>1. ps = x2 \o y
    BY <1>16 DEF uv
  <2>2. x2 \in Seq(Part) /\ Len(x2) = Len(uv) + Len(w)
    BY <1>1
  <2> HIDE DEF x2
  <2> QED BY <1>2, <2>1, <2>2 DEF lw
<1>18. x1 \in Seq(Part) /\ Len(x1) = a + lw /\ qs = x1 \o y
  BY <1>16 DEF lw, a
<1> HIDE DEF x1, x2
<1>19. \A n \in 1 .. Len(x2) : x2[n] = ps[n]
  BY <1>17
<1>20. \A n \in 1 .. Len(x1) : x1[n] = qs[n]
  BY <1>18
<1>21. \A i \in 1 .. a + lw : IsToolPart(qs[i]) => i \in Paired(qs)
  BY <1>18, <1>20 DEF WholeParts, x1
<1> SUFFICES ASSUME NEW n \in 1 .. a + b + lw, IsToolPart(ps[n]) PROVE n \in Paired(ps)
  BY <1>17, <1>19 DEF WholeParts, x2, uv
<1>22. n \in 1 .. a + b + c
  BY <1>2, <1>3
<1>23. CASE n \in a + 1 .. a + b
  <2> DEFINE j == n - a
  <2>1. j \in 1 .. b /\ n = a + j /\ n \in 1 .. a + b
    BY <1>2, <1>23
  <2> HIDE DEF j
  <2>2. ps[n] = v[j]
    BY <1>2, <1>4, <2>1
  <2> QED BY <1>13, <2>1, <2>2
<1>24. CASE n \notin a + 1 .. a + b
  <2>1. PICK i \in 1 .. a + c : g[i] = n
    BY <1>9, <1>22, <1>24
  <2>2. i \in 1 .. a + lw
    <3>1. CASE i \in 1 .. a /\ g[i] = i
      BY <1>2, <1>3, <3>1, SMTT(20)
    <3>2. CASE i - a \in 1 .. c /\ g[i] = a + b + (i - a) /\ i = a + (i - a)
      BY <1>2, <1>3, <2>1, <3>2
    <3> QED BY <1>6, <3>1, <3>2
  <2>3. i \in Paired(qs)
    BY <1>11, <1>21, <2>1, <2>2
  <2> QED BY <1>5, <1>15, <2>1, <2>3
<1> QED BY <1>23, <1>24

\* A nonempty set of numbers has its minimum.
LEMMA MinOf ==
    ASSUME NEW b \in Nat, NEW S \in SUBSET (0 .. b), S # {}
    PROVE  Min(S) \in S /\ \A y \in S : Min(S) <= y
<1> DEFINE R == {b - x : x \in S}
           x0 == b - Max(R)
<1>1. R \in SUBSET (0 .. b) /\ R # {}
  <2>1. \A x \in S : b - x \in 0 .. b
    OBVIOUS
  <2>2. PICK x \in S : TRUE
    OBVIOUS
  <2>3. b - x \in R
    OBVIOUS
  <2> QED BY <2>1, <2>3
<1>2. Max(R) \in R /\ \A y \in R : y <= Max(R)
  <2> HIDE DEF R
  <2> QED BY <1>1, MaxOf
<1>3. PICK x \in S : Max(R) = b - x
  BY <1>2
<1>4. \A y \in S : x <= y
  <2> TAKE y \in S
  <2>1. b - y \in R
    OBVIOUS
  <2>2. b - y <= b - x /\ x \in 0 .. b /\ y \in 0 .. b
    BY <1>2, <1>3, <2>1
  <2> QED BY <2>2
<1> DEFINE m == CHOOSE z \in S : \A y \in S : z <= y
<1>5. m \in S /\ \A y \in S : m <= y
  BY <1>4
<1>6. Min(S) = m
  BY DEF Min
<1> HIDE DEF m
<1> QED BY <1>5, <1>6

\* A list cut at a place.
LEMMA CutSeq ==
    ASSUME NEW T, NEW s \in Seq(T), NEW p \in 1 .. Len(s) + 1
    PROVE  LET u == SubSeq(s, 1, p - 1)
               v == SubSeq(s, p, Len(s))
           IN  u \in Seq(T) /\ v \in Seq(T) /\ s = u \o v
<1> DEFINE u == SubSeq(s, 1, p - 1)
           v == SubSeq(s, p, Len(s))
           w == u \o v
           l == Len(s)
<1>1. p - 1 \in 0 .. Len(s) /\ 1 \in Nat \ {0} /\ 1 <= p - 1 + 1 /\ l \in Nat
      /\ p \in Nat \ {0} /\ Len(s) \in 0 .. Len(s) /\ p <= Len(s) + 1
  OBVIOUS
<1>2. u \in Seq(T) /\ Len(u) = p - 1 - 1 + 1
      /\ \A i \in 1 .. p - 1 - 1 + 1 : u[i] = s[1 + i - 1]
  BY <1>1, SubSeqIs
<1>3. v \in Seq(T) /\ Len(v) = Len(s) - p + 1
      /\ \A i \in 1 .. Len(s) - p + 1 : v[i] = s[p + i - 1]
  BY <1>1, SubSeqIs
<1> HIDE DEF u, v, l
<1>4. Len(u) = p - 1 /\ Len(v) = l - p + 1 /\ \A i \in 1 .. p - 1 : u[i] = s[i]
  BY <1>1, <1>2, <1>3 DEF l
<1>5. /\ w \in Seq(T) /\ Len(w) = Len(u) + Len(v)
      /\ \A i \in 1 .. Len(u) : w[i] = u[i]
      /\ \A j \in 1 .. Len(v) : w[Len(u) + j] = v[j]
  <2>1. u \in Seq(T) /\ v \in Seq(T)
    BY <1>2, <1>3
  <2> QED BY <2>1, BehindIs
<1> HIDE DEF w
<1>6. \A i \in 1 .. l : w[i] = s[i]
  <2> TAKE i \in 1 .. l
  <2>1. CASE i \in 1 .. p - 1
    BY <1>4, <1>5, <2>1
  <2>2. CASE i \in p .. l
    <3> DEFINE j == i - p + 1
    <3>1. j \in 1 .. l - p + 1 /\ p - 1 + j = i /\ p + j - 1 = i
      BY <1>1, <2>2
    <3> HIDE DEF j
    <3>2. w[i] = v[j] /\ v[j] = s[i]
      <4>1. w[p - 1 + j] = v[j]
        BY <1>4, <1>5, <3>1
      <4>2. v[j] = s[p + j - 1]
        BY <1>3, <3>1 DEF l
      <4> QED BY <3>1, <4>1, <4>2
    <3> QED BY <3>2
  <2> QED BY <1>1, <2>1, <2>2
<1>7. Len(w) = l
  BY <1>1, <1>4, <1>5
<1>8. w = s
  BY <1>5, <1>6, <1>7, SeqEqual DEF l
<1> QED BY <1>2, <1>3, <1>8 DEF u, v, w

\* The messages of two lists of entries in one.
LEMMA MessagesConcat ==
    ASSUME NEW a \in Seq(Entry), NEW b \in Seq(Entry)
    PROVE  Messages(a \o b) = Messages(a) \o Messages(b)
<1> DEFINE c == a \o b
           x == Messages(a)
           y == Messages(b)
           z == x \o y
           l == Len(a)
           k == Len(b)
<1>1. /\ c \in Seq(Entry) /\ Len(c) = l + k /\ l \in Nat /\ k \in Nat
      /\ \A i \in 1 .. l : c[i] = a[i]
      /\ \A j \in 1 .. k : c[l + j] = b[j]
  BY BehindIs
<1>2. x \in Seq(Message) /\ Len(x) = l /\ \A i \in 1 .. l : x[i] = a[i].msg
  BY MessagesIs
<1>3. y \in Seq(Message) /\ Len(y) = k /\ \A i \in 1 .. k : y[i] = b[i].msg
  BY MessagesIs
<1> DEFINE m == Messages(c)
<1> HIDE DEF c, x, y
<1>4. m \in Seq(Message) /\ Len(m) = Len(c) /\ \A i \in 1 .. Len(c) : m[i] = c[i].msg
  BY <1>1, MessagesIs
<1>5. /\ z \in Seq(Message) /\ Len(z) = Len(x) + Len(y)
      /\ \A i \in 1 .. Len(x) : z[i] = x[i]
      /\ \A j \in 1 .. Len(y) : z[Len(x) + j] = y[j]
  <2>1. x \in Seq(Message) /\ y \in Seq(Message)
    BY <1>2, <1>3
  <2> QED BY <2>1, BehindIs
<1> HIDE DEF m, z, l, k
<1>6. \A i \in 1 .. l + k : m[i] = z[i]
  <2> TAKE i \in 1 .. l + k
  <2>1. CASE i \in 1 .. l
    <3>1. m[i] = c[i].msg /\ c[i] = a[i]
      BY <1>1, <1>4, <2>1
    <3>2. z[i] = x[i] /\ x[i] = a[i].msg
      BY <1>2, <1>5, <2>1
    <3> QED BY <3>1, <3>2
  <2>2. CASE i \in l + 1 .. l + k
    <3> DEFINE j == i - l
    <3>1. j \in 1 .. k /\ l + j = i
      BY <1>1, <2>2
    <3> HIDE DEF j
    <3>2. m[i] = c[i].msg /\ c[i] = b[j]
      BY <1>1, <1>4, <3>1
    <3>3. z[i] = y[j] /\ y[j] = b[j].msg
      BY <1>2, <1>3, <1>5, <3>1
    <3> QED BY <3>2, <3>3
  <2> QED BY <1>1, <2>1, <2>2
<1>7. m = z
  BY <1>1, <1>2, <1>3, <1>4, <1>5, <1>6, SeqEqual
<1> QED BY <1>7 DEF m, z, x, y, c

\* Putting a block into the messages keeps the request whole.
LEMMA InsertWhole ==
    ASSUME NEW es \in Seq(Entry), NEW new \in Seq(Entry), NEW pending \in Seq(Message),
           IsBlock(Flat(Messages(new))), Whole(Messages(es), pending), NEW p \in 1 .. Len(es) + 1
    PROVE  LET r == SubSeq(es, 1, p - 1) \o new \o SubSeq(es, p, Len(es))
           IN  r \in Seq(Entry) /\ Whole(Messages(r), pending)
<1> DEFINE a == SubSeq(es, 1, p - 1)
           b == SubSeq(es, p, Len(es))
           r == (a \o new) \o b
           A == Messages(a)
           B == Messages(b)
           N == Messages(new)
           u == Flat(A)
           v == Flat(N)
           w == Flat(B)
           y == Flat(pending)
<1>1. a \in Seq(Entry) /\ b \in Seq(Entry) /\ es = a \o b
  BY CutSeq
<1> HIDE DEF a, b
<1>2. a \o new \in Seq(Entry) /\ r \in Seq(Entry)
  BY <1>1
<1>3. A \in Seq(Message) /\ B \in Seq(Message) /\ N \in Seq(Message)
  BY <1>1, MessagesIs
<1>4. Messages(es) = A \o B
  BY <1>1, MessagesConcat
<1>5. Messages(r) = (A \o N) \o B
  <2>1. Messages(a \o new) = A \o N
    BY <1>1, MessagesConcat
  <2>2. Messages((a \o new) \o b) = Messages(a \o new) \o B
    BY <1>1, <1>2, MessagesConcat
  <2> QED BY <2>1, <2>2
<1> HIDE DEF A, B, N, r
<1>6. u \in Seq(Part) /\ v \in Seq(Part) /\ w \in Seq(Part) /\ y \in Seq(Part)
  BY <1>3, FlatIs
<1>7. Flat(A \o B) = u \o w
  BY <1>3, FlatConcat
<1>8. Flat((A \o N) \o B) = (u \o v) \o w
  <2>1. A \o N \in Seq(Message)
    BY <1>3
  <2>2. Flat(A \o N) = u \o v
    BY <1>3, FlatConcat
  <2>3. Flat((A \o N) \o B) = Flat(A \o N) \o w
    BY <1>3, <2>1, FlatConcat
  <2> QED BY <2>2, <2>3
<1>9. WholeParts(u \o w, y) /\ IsBlock(v)
  BY <1>4, <1>7 DEF Whole, N
<1> HIDE DEF u, v, w, y
<1>10. WholeParts((u \o v) \o w, y)
  BY <1>6, <1>9, BlockWhole
<1>11. Whole(Messages(r), pending)
  BY <1>5, <1>8, <1>10 DEF Whole, y
<1> QED BY <1>2, <1>11 DEF r, a, b

-----------------------------------------------------------------------------
(* Ensuring that something renders.                                        *)

\* Two indices, in their order, pick two elements, in theirs.
LEMMA PickTwo ==
    ASSUME NEW T, NEW s \in Seq(T), NEW i \in 1 .. Len(s), NEW j \in 1 .. Len(s), i < j
    PROVE  LET q == Pick(s, {i, j})
           IN  q \in Seq(T) /\ Len(q) = 2 /\ q[1] = s[i] /\ q[2] = s[j]
<1> DEFINE J == {i, j}
           q == Pick(s, J)
           n == Len(s)
<1>1. q \in Seq(T) /\ \E g : Thinned(g, q, s, n, J)
  <2> HIDE DEF J
  <2> QED BY PickThinned
<1>2. PICK g : Thinned(g, q, s, n, J)
  BY <1>1
<1> DEFINE M == Len(q)
<1>3. M \in Nat /\ n \in Nat /\ i \in 1 .. n /\ j \in 1 .. n
  BY <1>1
<1> HIDE DEF q, M
<1>4. /\ g \in [1 .. M -> 1 .. n]
      /\ \A x \in 1 .. M : q[x] = s[g[x]]
      /\ \A x, y \in 1 .. M : x < y => g[x] < g[y]
      /\ \A k \in 1 .. n : k \in J <=> \E x \in 1 .. M : g[x] = k
  BY <1>2 DEF Thinned, M
<1> HIDE DEF n
<1>5. PICK a \in 1 .. M : g[a] = i
  BY <1>3, <1>4
<1>6. PICK b \in 1 .. M : g[b] = j
  BY <1>3, <1>4
<1>7. \A x \in 1 .. M : g[x] = i \/ g[x] = j
  BY <1>3, <1>4
<1>8. \A x, y \in 1 .. M : g[x] = g[y] => x = y
  <2> SUFFICES ASSUME NEW x \in 1 .. M, NEW y \in 1 .. M, g[x] = g[y] PROVE x = y
    OBVIOUS
  <2>1. g[x] \in 1 .. n /\ g[y] \in 1 .. n
    BY <1>4
  <2>2. ~ (x < y) /\ ~ (y < x)
    BY <1>4, <1>3, <2>1
  <2> QED BY <1>3, <2>2
<1>9. \A x \in 1 .. M : x = a \/ x = b
  BY <1>5, <1>6, <1>7, <1>8
<1>10. a < b
  <2>1. a # b
    BY <1>3, <1>5, <1>6
  <2>2. ~ (b < a)
    BY <1>3, <1>4, <1>5, <1>6
  <2> QED BY <1>3, <2>1, <2>2
<1>11. a = 1 /\ b = 2 /\ M = 2
  <2>1. 1 \in 1 .. M /\ 2 \in 1 .. M /\ M \in 1 .. M
    BY <1>3, <1>10
  <2>2. (1 = a \/ 1 = b) /\ (2 = a \/ 2 = b) /\ (M = a \/ M = b)
    BY <1>9, <2>1
  <2>3. a \in Nat /\ b \in Nat /\ a \in 1 .. M /\ b \in 1 .. M
    BY <1>3
  <2> QED BY <1>3, <1>10, <2>2, <2>3
<1>12. q[1] = s[i] /\ q[2] = s[j]
  BY <1>4, <1>5, <1>6, <1>11
<1> QED BY <1>1, <1>11, <1>12 DEF q, M

\* The element at an index.
LEMMA PickOne ==
    ASSUME NEW T, NEW s \in Seq(T), NEW i \in 1 .. Len(s)
    PROVE  LET q == Pick(s, {i})
           IN  q \in Seq(T) /\ Len(q) = 1 /\ q[1] = s[i]
<1> DEFINE J == {i}
           q == Pick(s, J)
           n == Len(s)
<1>1. q \in Seq(T) /\ \E g : Thinned(g, q, s, n, J)
  <2> HIDE DEF J
  <2> QED BY PickThinned
<1>2. PICK g : Thinned(g, q, s, n, J)
  BY <1>1
<1> DEFINE M == Len(q)
<1>3. M \in Nat /\ n \in Nat /\ i \in 1 .. n
  BY <1>1
<1> HIDE DEF q, M
<1>4. /\ g \in [1 .. M -> 1 .. n]
      /\ \A x \in 1 .. M : q[x] = s[g[x]]
      /\ \A x, y \in 1 .. M : x < y => g[x] < g[y]
      /\ \A k \in 1 .. n : k \in J <=> \E x \in 1 .. M : g[x] = k
  BY <1>2 DEF Thinned, M
<1> HIDE DEF n
<1>5. PICK a \in 1 .. M : g[a] = i
  BY <1>3, <1>4
<1>6. \A x \in 1 .. M : g[x] = i
  BY <1>3, <1>4
<1>7. \A x, y \in 1 .. M : ~ (x < y)
  BY <1>3, <1>4, <1>6
<1>8. M = 1
  <2>1. 1 \in 1 .. M /\ M \in 1 .. M
    BY <1>3, <1>5
  <2> QED BY <1>3, <1>7, <2>1, SMTT(20)
<1>9. q[1] = s[i]
  BY <1>4, <1>6, <1>8
<1> QED BY <1>1, <1>8, <1>9 DEF q, M

\* What is left of a message by itself is no half of an exchange.
LEMMA PlainIs ==
    ASSUME NEW m \in Message
    PROVE  /\ Plain(m) \in Message /\ Plain(m).role = m.role
           /\ \A n \in 1 .. Len(Plain(m).parts) : /\ ~IsToolPart(Plain(m).parts[n])
                                                   /\ Renders(m.role, Plain(m).parts[n])
<1> DEFINE s == m.parts
           J == {j \in DOMAIN s : Renders(m.role, s[j]) /\ ~IsToolPart(s[j])}
           q == Pick(s, J)
<1>1. s \in Seq(Part)
  BY DEF Message
<1>2. Plain(m) = ReducedTo(m, J)
  BY DEF Plain
<1>3. Plain(m) \in Message /\ Plain(m).role = m.role /\ Plain(m).parts = q
  BY <1>2, ReducedIs
<1>4. \E g : Thinned(g, q, s, Len(s), J)
  <2> HIDE DEF J
  <2> QED BY <1>1, PickThinned
<1>5. PICK g : Thinned(g, q, s, Len(s), J)
  BY <1>4
<1>6. \A k \in J : ~IsToolPart(s[k]) /\ Renders(m.role, s[k])
  OBVIOUS
<1> HIDE DEF q, J, s
<1>7. \A n \in 1 .. Len(q) : q[n] = s[g[n]] /\ g[n] \in J
  BY <1>5 DEF Thinned
<1> QED BY <1>3, <1>6, <1>7

\* The parts of one message.
LEMMA FlatOne ==
    ASSUME NEW m \in Message
    PROVE  Flat(<<m>>) = m.parts
<1> DEFINE e == <<>>
<1>1. e \in Seq(Message) /\ Append(e, m) = <<m>> /\ Flat(e) = e
  BY FlatAppend
<1>2. m.parts \in Seq(Part) /\ e \o m.parts = m.parts
  BY DEF Message
<1> HIDE DEF e
<1>3. Flat(Append(e, m)) = Flat(e) \o m.parts
  BY <1>1, FlatAppend
<1> QED BY <1>1, <1>2, <1>3

\* The parts of two messages.
LEMMA FlatTwo ==
    ASSUME NEW m \in Message, NEW n \in Message
    PROVE  Flat(<<m, n>>) = m.parts \o n.parts
<1> DEFINE e == <<m>>
<1>1. e \in Seq(Message) /\ Append(e, n) = <<m, n>>
  <2>1. e \in Seq(Message)
    OBVIOUS
  <2> DEFINE x == Append(e, n)
             y == <<m, n>>
  <2>2. x \in Seq(Message) /\ Len(x) = 2 /\ x[1] = m /\ x[2] = n
    BY AppendProperties
  <2>3. y \in Seq(Message) /\ Len(y) = 2 /\ y[1] = m /\ y[2] = n
    OBVIOUS
  <2> HIDE DEF x, y
  <2>4. \A i \in 1 .. 2 : x[i] = y[i]
    BY <2>2, <2>3
  <2>5. x = y
    BY <2>2, <2>3, <2>4, SeqEqual
  <2> QED BY <2>1, <2>5 DEF x, y
<1>3. Flat(e) = m.parts
  BY FlatOne
<1> HIDE DEF e
<1>2. Flat(Append(e, n)) = Flat(e) \o n.parts
  BY <1>1, FlatAppend
<1> QED BY <1>1, <1>2, <1>3

\* What the first match of a place returns.
LEMMA LastPair ==
    ASSUME NEW ps, Len(ps) \in Nat, PairParts(ps).pairs # {}
    PROVE  LET latest == CHOOSE p \in PairParts(ps).pairs :
                           \A q \in PairParts(ps).pairs : q.result <= p.result
           IN  latest \in PairParts(ps).pairs
<1> DEFINE prs == PairParts(ps).pairs
           N == Len(ps)
           R == {p.result : p \in prs}
<1>1. \A p \in prs : p.result \in 0 .. N
  <2>1. PairParts(ps) \in PairState(N)
    BY PairsAre
  <2> QED BY <2>1 DEF PairState
<1>2. R \in SUBSET (0 .. N) /\ R # {} /\ N \in Nat
  <2>1. PICK p \in prs : TRUE
    OBVIOUS
  <2>2. p.result \in R
    OBVIOUS
  <2> HIDE DEF prs, N
  <2> QED BY <1>1, <2>2 DEF N
<1> DEFINE x == Max(R)
<1>3. x \in R /\ \A y \in R : y <= x
  <2> HIDE DEF R, N
  <2> QED BY <1>2, MaxOf
<1> HIDE DEF x
<1>4. PICK p \in prs : p.result = x
  BY <1>3
<1>5. \A q \in prs : q.result <= p.result
  BY <1>3, <1>4
<1> HIDE DEF prs, R
<1> QED BY <1>5 DEF prs

\* The latest complete exchange, when there is one, is a block.
LEMMA ExchangeIs ==
    ASSUME NEW original \in Seq(Message),
           LatestCompleteToolExchange(original) # <<>>
    PROVE  LET x == LatestCompleteToolExchange(original)
           IN  /\ x \in Seq(Entry) /\ IsBlock(Flat(Messages(x)))
               /\ Len(x) >= 1 /\ MessageRenders(x[1].msg)
<1> DEFINE S == Sites(original)
           J == {n \in DOMAIN Sites(original) :
                         original[Sites(original)[n].mi].role # "system"}
           sites == Pick(Sites(original), J)
           pp == [n \in DOMAIN sites |-> sites[n].part]
           pairs == PairParts(pp).pairs
           latest == CHOOSE p \in pairs : \A q \in pairs : q.result <= p.result
           call == sites[latest.call]
           result == sites[latest.result]
           Half(mi, K) == [msg |-> ReducedTo(original[mi], K), origin |-> mi]
           x == LatestCompleteToolExchange(original)
<1>1. x = CASE pairs = {} -> <<>>
            [] pairs # {} /\ call.mi = result.mi -> <<Half(call.mi, {call.ci, result.ci})>>
            [] pairs # {} /\ call.mi # result.mi ->
                 <<Half(call.mi, {call.ci}), Half(result.mi, {result.ci})>>
  BY DEF LatestCompleteToolExchange
<1>2. S \in Seq(Site)
  BY FlatIs
<1>3. sites \in Seq(Site) /\ \E g : Thinned(g, sites, S, Len(S), J)
  <2> HIDE DEF J
  <2> QED BY <1>2, PickThinned
<1>20. \A n \in J : original[S[n].mi].role # "system"
  OBVIOUS
<1> HIDE DEF S, J, sites, x
<1>4. PICK g : Thinned(g, sites, S, Len(S), J)
  BY <1>3
<1>5. /\ \A i \in 1 .. Len(sites) : g[i] \in 1 .. Len(S) /\ sites[i] = S[g[i]]
      /\ \A i, j \in 1 .. Len(sites) : i < j => g[i] < g[j]
  BY <1>4 DEF Thinned
<1>6. Len(pp) = Len(sites) /\ Len(pp) \in Nat /\ \A i \in 1 .. Len(sites) : pp[i] = sites[i].part
  BY <1>3
<1> HIDE DEF pp
<1>7. pairs # {}
  BY <1>1 DEF x
<1>8. latest \in pairs
  BY <1>6, <1>7, LastPair
<1>9. PairInv(pp, PairParts(pp), Len(pp))
  BY <1>6, PairsAre
<1> HIDE DEF latest
<1> DEFINE c == latest.call
           r == latest.result
<1>10. /\ c \in 1 .. Len(sites) /\ r \in 1 .. Len(sites) /\ c < r
       /\ pp[c].kind = "call" /\ pp[r].kind = "result" /\ pp[c].id = pp[r].id
  BY <1>6, <1>8, <1>9 DEF PairInv
<1> HIDE DEF c, r
<1>21. g[c] \in J
  BY <1>4, <1>5, <1>10 DEF Thinned, c, r
<1>11. call = S[g[c]] /\ result = S[g[r]] /\ g[c] \in 1 .. Len(S) /\ g[r] \in 1 .. Len(S) /\ g[c] < g[r]
  BY <1>5, <1>10 DEF c, r
<1>12. call.part.kind = "call" /\ result.part.kind = "result" /\ call.part.id = result.part.id
  BY <1>6, <1>10 DEF c, r
<1>13. \A n \in 1 .. Len(S) :
        /\ S[n].mi \in 1 .. Len(original)
        /\ S[n].ci \in 1 .. Len(original[S[n].mi].parts)
        /\ S[n].part = original[S[n].mi].parts[S[n].ci]
        /\ \A k \in 1 .. n - 1 : S[k].mi = S[n].mi => S[k].ci < S[n].ci
  BY SitesOrder DEF S
<1> DEFINE i == call.mi
           j == result.mi
           ic == call.ci
           jr == result.ci
<1> HIDE DEF call, result
<1>14. /\ i \in 1 .. Len(original) /\ ic \in 1 .. Len(original[i].parts)
       /\ call.part = original[i].parts[ic]
       /\ j \in 1 .. Len(original) /\ jr \in 1 .. Len(original[j].parts)
       /\ result.part = original[j].parts[jr]
  BY <1>11, <1>13
<1>15. i = j => ic < jr
  <2>1. g[c] \in 1 .. g[r] - 1
    BY <1>11
  <2> QED BY <1>11, <1>13, <2>1
<1>22. original[i].role # "system"
  BY <1>11, <1>20, <1>21
<1> HIDE DEF i, j, ic, jr
<1>23. ASSUME NEW m \in Message, m.role = original[i].role, Len(m.parts) >= 1,
              m.parts[1] = original[i].parts[ic]
       PROVE  MessageRenders(m)
  <2>1. Len(m.parts) \in Nat /\ DOMAIN m.parts = 1 .. Len(m.parts)
    BY DEF Message
  <2>2. 1 \in DOMAIN m.parts
    BY <1>23, <2>1
  <2>3. m.parts[1].kind = "call"
    BY <1>12, <1>14, <1>23
  <2> QED BY <1>22, <1>23, <2>2, <2>3 DEF MessageRenders, Renders
<1>16. original[i] \in Message /\ original[j] \in Message /\ i \in Nat /\ j \in Nat
  BY <1>14
<1>17. original[i].parts \in Seq(Part) /\ original[j].parts \in Seq(Part)
  BY <1>16 DEF Message
<1>18. CASE i = j
  <2> DEFINE m == ReducedTo(original[i], {ic, jr})
             e == [msg |-> m, origin |-> i]
             q == Pick(original[i].parts, {ic, jr})
  <2>1. x = <<e>>
    BY <1>1, <1>7, <1>18 DEF i, j, ic, jr
  <2>2. m \in Message /\ m.parts = q /\ m.role = original[i].role
    BY <1>16, ReducedIs
  <2>3. Len(q) = 2 /\ q[1] = original[i].parts[ic] /\ q[2] = original[i].parts[jr]
    BY <1>14, <1>15, <1>17, <1>18, PickTwo
  <2> HIDE DEF m, q
  <2>4. e \in Entry
    BY <1>16, <2>2 DEF Entry
  <2>5. Messages(<<e>>) = <<m>>
    BY DEF Messages
  <2>6. Flat(<<m>>) = q
    BY <2>2, FlatOne
  <2>7. IsExchange(q)
    BY <1>12, <1>14, <1>18, <2>3 DEF IsExchange
  <2>9. MessageRenders(m) /\ e.msg = m
    BY <1>23, <2>2, <2>3
  <2> HIDE DEF e
  <2>8. <<e>> \in Seq(Entry) /\ Len(<<e>>) = 1 /\ <<e>>[1] = e
    BY <2>4
  <2> QED BY <2>1, <2>5, <2>6, <2>7, <2>8, <2>9 DEF IsBlock, x
<1>19. CASE i # j
  <2> DEFINE m == ReducedTo(original[i], {ic})
             n == ReducedTo(original[j], {jr})
             e == [msg |-> m, origin |-> i]
             f == [msg |-> n, origin |-> j]
             q == Pick(original[i].parts, {ic})
             h == Pick(original[j].parts, {jr})
  <2>1. x = <<e, f>>
    BY <1>1, <1>7, <1>19 DEF i, j, ic, jr
  <2>2. m \in Message /\ m.parts = q /\ n \in Message /\ n.parts = h /\ m.role = original[i].role
    BY <1>16, ReducedIs
  <2>3. q \in Seq(Part) /\ Len(q) = 1 /\ q[1] = original[i].parts[ic]
    BY <1>14, <1>17, PickOne
  <2>4. h \in Seq(Part) /\ Len(h) = 1 /\ h[1] = original[j].parts[jr]
    BY <1>14, <1>17, PickOne
  <2> HIDE DEF m, n, q, h
  <2>5. e \in Entry /\ f \in Entry
    BY <1>16, <2>2 DEF Entry
  <2>6. Messages(<<e, f>>) = <<m, n>>
    BY DEF Messages
  <2>7. Flat(<<m, n>>) = q \o h
    BY <2>2, FlatTwo
  <2>8. Len(q \o h) = 2 /\ (q \o h)[1] = q[1] /\ (q \o h)[2] = h[1]
    <3>1. q \in Seq(Part) /\ h \in Seq(Part)
      BY <2>3, <2>4
    <3>2. /\ q \o h \in Seq(Part) /\ Len(q \o h) = Len(q) + Len(h)
          /\ \A k \in 1 .. Len(q) : (q \o h)[k] = q[k]
          /\ \A k \in 1 .. Len(h) : (q \o h)[Len(q) + k] = h[k]
      BY <3>1, BehindIs
    <3>3. Len(q) = 1 /\ Len(h) = 1 /\ 1 \in 1 .. Len(q) /\ 1 \in 1 .. Len(h)
      BY <2>3, <2>4
    <3> QED BY <3>2, <3>3
  <2>9. IsExchange(q \o h)
    BY <1>12, <1>14, <2>3, <2>4, <2>8 DEF IsExchange
  <2>11. MessageRenders(m) /\ e.msg = m
    BY <1>23, <2>2, <2>3
  <2> HIDE DEF e, f
  <2>10. <<e, f>> \in Seq(Entry) /\ Len(<<e, f>>) = 2 /\ <<e, f>>[1] = e
    BY <2>5
  <2> DEFINE w == <<e, f>>
  <2>12. w \in Seq(Entry) /\ Len(w) >= 1 /\ w[1].msg = m
    BY <2>10, <2>11
  <2>13. IsBlock(Flat(Messages(w)))
    BY <2>6, <2>7, <2>9 DEF IsBlock
  <2> HIDE DEF w
  <2> QED BY <2>1, <2>11, <2>12, <2>13 DEF x, w
<1> QED BY <1>18, <1>19

\* The place at which a message is put back is one of the list.
LEMMA PositionIs ==
    ASSUME NEW es \in Seq(Entry), NEW index
    PROVE  ChronologicalPosition(es, index) \in 1 .. Len(es) + 1
<1> DEFINE I == {i \in 1 .. Len(es) : es[i].origin > index}
           l == Len(es)
<1>1. I \in SUBSET (0 .. l) /\ l \in Nat /\ \A i \in I : i \in 1 .. l
  OBVIOUS
<1>2. SelectInSeq(es, LAMBDA e : e.origin > index) = IF I # {} THEN Min(I) ELSE 0
  BY DEF SelectInSeq
<1> HIDE DEF I, l
<1>3. I # {} => Min(I) \in I
  BY <1>1, MinOf
<1>4. SelectInSeq(es, LAMBDA e : e.origin > index) \in 0 .. l
  BY <1>1, <1>2, <1>3
<1> DEFINE later == SelectInSeq(es, LAMBDA e : e.origin > index)
<1>5. ChronologicalPosition(es, index) = IF later = 0 THEN l + 1 ELSE later
  BY DEF ChronologicalPosition, l
<1>6. later \in 0 .. l
  BY <1>4
<1> HIDE DEF later
<1> QED BY <1>1, <1>5, <1>6 DEF l

\* Ensuring that something renders keeps a whole list whole.
LEMMA EnsureWhole ==
    ASSUME NEW original \in Seq(Message), NEW es \in Seq(Entry), NEW pending \in Seq(Message),
           Whole(Messages(es), pending)
    PROVE  LET r == EnsureNonSystemMessage(original, es)
           IN  r \in Seq(Entry) /\ Whole(Messages(r), pending)
<1> DEFINE renders == \E i \in DOMAIN es : MessageRenders(es[i].msg)
           I == {i \in 1 .. Len(original) : /\ original[i].role \notin {"system", "tool"}
                                            /\ Plain(original[i]).parts # <<>>}
           plain == SelectLastInSeq(original,
                   LAMBDA m : m.role \notin {"system", "tool"} /\ Plain(m).parts # <<>>)
           exchange == LatestCompleteToolExchange(original)
           Insert(new) == SubSeq(es, 1, ChronologicalPosition(es, new[1].origin) - 1) \o new
                            \o SubSeq(es, ChronologicalPosition(es, new[1].origin), Len(es))
           new1 == <<[msg |-> Plain(original[plain]), origin |-> plain]>>
           r == EnsureNonSystemMessage(original, es)
<1>1. r = CASE renders -> es
            [] ~renders /\ plain # 0 -> Insert(new1)
            [] ~renders /\ plain = 0 /\ exchange # <<>> -> Insert(exchange)
            [] OTHER -> es
  BY DEF EnsureNonSystemMessage
<1>2. plain = IF I # {} THEN Max(I) ELSE 0
  BY DEF SelectLastInSeq
<1>3. plain # 0 => plain \in 1 .. Len(original)
  <2> DEFINE l == Len(original)
  <2>1. I \in SUBSET (0 .. l) /\ l \in Nat /\ \A i \in I : i \in 1 .. l
    OBVIOUS
  <2> HIDE DEF I, l, plain
  <2>2. I # {} => Max(I) \in I
    BY <2>1, MaxOf
  <2> QED BY <1>2, <2>1, <2>2 DEF l
<1> HIDE DEF plain, exchange, renders, I
<1>4. ASSUME NEW new \in Seq(Entry), IsBlock(Flat(Messages(new)))
      PROVE  Insert(new) \in Seq(Entry) /\ Whole(Messages(Insert(new)), pending)
  <2> DEFINE p == ChronologicalPosition(es, new[1].origin)
  <2>1. p \in 1 .. Len(es) + 1
    BY PositionIs
  <2> HIDE DEF p
  <2>2. LET x == SubSeq(es, 1, p - 1) \o new \o SubSeq(es, p, Len(es))
        IN  x \in Seq(Entry) /\ Whole(Messages(x), pending)
    BY <1>4, <2>1, InsertWhole
  <2> QED BY <2>2 DEF p
<1>5. ASSUME plain # 0 PROVE new1 \in Seq(Entry) /\ IsBlock(Flat(Messages(new1)))
  <2> DEFINE m == Plain(original[plain])
             e == [msg |-> m, origin |-> plain]
  <2>1. original[plain] \in Message /\ plain \in Nat
    BY <1>3, <1>5
  <2>2. m \in Message /\ \A n \in 1 .. Len(m.parts) : ~IsToolPart(m.parts[n])
    BY <2>1, PlainIs
  <2> HIDE DEF m
  <2>3. e \in Entry
    BY <2>1, <2>2 DEF Entry
  <2>4. Messages(<<e>>) = <<m>>
    BY DEF Messages
  <2>5. Flat(<<m>>) = m.parts
    BY <2>2, FlatOne
  <2> HIDE DEF e
  <2>6. <<e>> \in Seq(Entry)
    BY <2>3
  <2>7. IsBlock(Flat(Messages(<<e>>)))
    BY <2>2, <2>4, <2>5 DEF IsBlock
  <2> QED BY <2>6, <2>7 DEF e, m
<1>6. ASSUME exchange # <<>> PROVE exchange \in Seq(Entry) /\ IsBlock(Flat(Messages(exchange)))
  BY <1>6, ExchangeIs DEF exchange
<1> HIDE DEF new1, r, Insert
<1>7. CASE ~renders /\ plain # 0
  BY <1>1, <1>4, <1>5, <1>7 DEF r
<1>8. CASE ~renders /\ plain = 0 /\ exchange # <<>>
  BY <1>1, <1>4, <1>6, <1>8 DEF r
<1>9. CASE renders \/ (~renders /\ plain = 0 /\ exchange = <<>>)
  BY <1>1, <1>9 DEF r
<1> QED BY <1>7, <1>8, <1>9

-----------------------------------------------------------------------------
(* The repair.                                                             *)

\* Going back over the list finds a place in the original for every message, or 0.
LEMMA OriginIndicesIs ==
    ASSUME NEW ms \in Seq(Message), NEW original \in Seq(Message)
    PROVE  OriginIndices(ms, original) \in Seq(Entry)
<1> DEFINE N == Len(ms)
           L == Len(original)
           W == 0 .. L + 1
           b == L + 1
           Back(x, n) == Max({0} \cup {i \in 1 .. x - 1 : original[i] = ms[Len(ms) - n + 1]})
           G == [n \in 1 .. N |-> [x \in W |-> Back(x, n)]]
           Is(h) == h = [n \in 0 .. Len(ms) |->
                           IF n = 0 THEN Len(original) + 1
                           ELSE Max({0} \cup {i \in 1 .. h[n - 1] - 1 :
                                                original[i] = ms[Len(ms) - n + 1]})]
           c == CHOOSE h : Is(h)
<1>0. N \in Nat /\ L \in Nat
  OBVIOUS
<1>1. b \in W
  BY <1>0
<1>2. \A n \in 1 .. N : \A x \in W : Back(x, n) \in W
  <2> TAKE n \in 1 .. N
  <2> TAKE x \in W
  <2> DEFINE S == {0} \cup {i \in 1 .. x - 1 : original[i] = ms[Len(ms) - n + 1]}
  <2> HIDE DEF L
  <2>1. S \in SUBSET (0 .. L + 1) /\ S # {} /\ L + 1 \in Nat
    BY <1>0
  <2> HIDE DEF S
  <2>2. Max(S) \in S
    BY <2>1, MaxOf
  <2> QED BY <2>1, <2>2 DEF S
<1>3. G \in [1 .. N -> [W -> W]]
  <2> HIDE DEF W, Back
  <2> QED BY <1>2
<1>4. \A n \in 1 .. N : \A x \in W : G[n][x] = Back(x, n)
  <2> HIDE DEF W, Back
  <2> QED OBVIOUS
<1>5. PICK f : f \in [0 .. N -> W] /\ f[0] = b /\ \A n \in 1 .. N : f[n] = G[n][f[n - 1]]
  <2>1. Steps(G, W, N)
    BY <1>3 DEF Steps
  <2> HIDE DEF G, W, b, Is, c, N, L, Back
  <2>2. \E f : Runs(f, G, W, N, b)
    BY <1>0, <1>1, <2>1, RunExists
  <2> QED BY <2>2 DEF Runs
<1> HIDE DEF G, W
<1>6. \A n \in 1 .. N : f[n] = Back(f[n - 1], n)
  <2> TAKE n \in 1 .. N
  <2>1. f[n - 1] \in W
    BY <1>5
  <2> HIDE DEF Back
  <2> QED BY <1>4, <1>5, <2>1
<1>7. Is(f)
  <2> DEFINE r == [n \in 0 .. Len(ms) |->
                     IF n = 0 THEN Len(original) + 1
                     ELSE Max({0} \cup {i \in 1 .. f[n - 1] - 1 :
                                          original[i] = ms[Len(ms) - n + 1]})]
  <2>1. \A n \in 0 .. N : n = 0 \/ n \in 1 .. N
    OBVIOUS
  <2>2. \A n \in 0 .. N : r[n] = f[n]
    BY <1>5, <1>6, <2>1
  <2> QED BY <1>5, <2>2
<1>8. Is(c)
  <2> HIDE DEF Is
  <2> QED BY <1>7
<1> HIDE DEF c
<1>9. c[0] = b /\ \A n \in 1 .. N : c[n] = Back(c[n - 1], n)
  <2>1. 0 \in 0 .. N /\ \A n \in 1 .. N : n \in 0 .. N /\ n # 0
    OBVIOUS
  <2> QED BY <1>8, <2>1
<1>10. \A n \in 0 .. N : c[n] \in W
  <2> HIDE DEF Is, Back, b, N
  <2>1. c[0] \in W
    BY <1>1, <1>9
  <2>2. \A n \in 1 .. N : c[n - 1] \in W => c[n] \in W
    BY <1>2, <1>9
  <2> QED BY <1>0, <2>1, <2>2, Typed
<1>11. OriginIndices(ms, original)
         = [i \in DOMAIN ms |-> [msg |-> ms[i], origin |-> c[Len(ms) - i + 1]]]
  BY DEF OriginIndices, c
<1>12. \A i \in DOMAIN ms : [msg |-> ms[i], origin |-> c[Len(ms) - i + 1]] \in Entry
  <2> TAKE i \in DOMAIN ms
  <2>1. i \in 1 .. N /\ N - i + 1 \in 0 .. N /\ ms[i] \in Message
    OBVIOUS
  <2>2. c[N - i + 1] \in Nat
    BY <1>0, <1>10, <2>1 DEF W
  <2> QED BY <2>1, <2>2 DEF Entry
<1> DEFINE e(i) == [msg |-> ms[i], origin |-> c[Len(ms) - i + 1]]
<1> HIDE DEF e
<1>13. [i \in 1 .. N |-> e(i)] \in Seq(Entry)
  BY <1>0, <1>12 DEF e
<1>14. DOMAIN ms = 1 .. N
  OBVIOUS
<1>15. OriginIndices(ms, original) = [i \in DOMAIN ms |-> e(i)]
  BY <1>11 DEF e
<1> HIDE DEF N
<1> QED BY <1>13, <1>14, <1>15

\* Reinstating calls makes entries of entries.
LEMMA ReinstateIs ==
    ASSUME NEW original \in Seq(Message), NEW es \in Seq(Entry), NEW pending
    PROVE  ReinstateCallsAnsweredByPending(original, es, pending) \in Seq(Entry)
<1> DEFINE chosen == ChosenCalls(original, es, pending)
           K(i) == {c.ci : c \in {d \in chosen : d.mi = i}}
           e(i) == [msg |-> ReducedTo(original[i], K(i)), origin |-> i]
           s == [i \in DOMAIN original |-> e(i)]
           J == {c.mi : c \in chosen}
<1>1. ReinstateCallsAnsweredByPending(original, es, pending) = es \o Pick(s, J)
  BY DEF ReinstateCallsAnsweredByPending
<1> HIDE DEF chosen, K, J
<1>2. \A i \in 1 .. Len(original) : e(i) \in Entry
  <2> TAKE i \in 1 .. Len(original)
  <2>1. original[i] \in Message /\ i \in Nat
    OBVIOUS
  <2>2. ReducedTo(original[i], K(i)) \in Message
    BY <2>1, ReducedIs
  <2> QED BY <2>1, <2>2 DEF Entry
<1> HIDE DEF e
<1>3. s \in Seq(Entry)
  <2>1. Len(original) \in Nat /\ DOMAIN original = 1 .. Len(original)
    OBVIOUS
  <2> QED BY <1>2, <2>1
<1> HIDE DEF s
<1>4. Pick(s, J) \in Seq(Entry)
  BY <1>3, PickThinned
<1> QED BY <1>1, <1>4

\* A cut, repaired, has no half exchanges with what is pending.
LEMMA FinalizeWhole ==
    ASSUME NEW original \in Seq(Message), NEW retained \in Seq(Message),
           NEW pending \in Seq(Message)
    PROVE  LET h == FinalizeCompaction(original, retained, pending)
           IN  h \in Seq(Message) /\ Whole(h, pending)
<1> DEFINE entries == OriginIndices(retained, original)
           reinstated == ReinstateCallsAnsweredByPending(original, entries, pending)
           repaired == DropOrphanedToolExchanges(reinstated, pending)
           ensured == EnsureNonSystemMessage(original, repaired)
           h == FinalizeCompaction(original, retained, pending)
<1>1. h = Messages(repaired) \/ h = Messages(ensured)
  BY DEF FinalizeCompaction
<1>2. entries \in Seq(Entry)
  BY OriginIndicesIs
<1> HIDE DEF entries
<1>3. reinstated \in Seq(Entry)
  BY <1>2, ReinstateIs
<1> HIDE DEF reinstated
<1>4. repaired \in Seq(Entry) /\ Whole(Messages(repaired), pending)
  BY <1>3, DropWhole
<1> HIDE DEF repaired
<1>5. ensured \in Seq(Entry) /\ Whole(Messages(ensured), pending)
  BY <1>4, EnsureWhole
<1> HIDE DEF ensured, h
<1>6. Messages(repaired) \in Seq(Message) /\ Messages(ensured) \in Seq(Message)
  BY <1>4, <1>5, MessagesIs
<1> QED BY <1>1, <1>4, <1>5, <1>6 DEF h

-----------------------------------------------------------------------------
(* The strategies.                                                         *)

\* How many system messages lead.
LEMMA SystemCountIs ==
    ASSUME NEW ms \in Seq(Message)
    PROVE  LeadingSystemCount(ms) \in 0 .. Len(ms)
<1> DEFINE I == {i \in 1 .. Len(ms) : ms[i].role # "system"}
           l == Len(ms)
           first == SelectInSeq(ms, LAMBDA m : m.role # "system")
<1>1. I \in SUBSET (0 .. l) /\ l \in Nat /\ \A i \in I : i \in 1 .. l
  OBVIOUS
<1>2. first = IF I # {} THEN Min(I) ELSE 0
  BY DEF SelectInSeq
<1> HIDE DEF I, l, first
<1>3. I # {} => Min(I) \in I
  BY <1>1, MinOf
<1>4. first \in 0 .. l
  <2>1. CASE I # {}
    BY <1>1, <1>2, <1>3, <2>1
  <2>2. CASE I = {}
    BY <1>1, <1>2, <2>2
  <2> QED BY <2>1, <2>2
<1>5. LeadingSystemCount(ms) = IF first = 0 THEN l ELSE first - 1
  BY DEF LeadingSystemCount, first, l
<1> QED BY <1>1, <1>4, <1>5 DEF l

\* From any place on, a part of a list is a list.
LEMMA RestIs ==
    ASSUME NEW T, NEW s \in Seq(T), NEW a \in Nat \ {0}, NEW b \in Int, b <= Len(s)
    PROVE  SubSeq(s, a, b) \in Seq(T)
<1>1. \A i \in a .. b : s[i] \in T
  OBVIOUS
<1> QED BY <1>1, SubSeqProperties

\* What a cut keeps is a list of messages;
LEMMA KeepFromIs ==
    ASSUME NEW ms \in Seq(Message), NEW n \in 0 .. Len(ms), NEW sys \in 0 .. Len(ms),
           NEW start \in Nat \ {0}, NEW preserve
    PROVE  KeepFrom(ms, n, sys, start, preserve) \in Seq(Message)
<1> DEFINE rest == SubSeq(ms, n + 1, Len(ms))
           I == {i \in 1 .. Len(rest) : rest[i].role = "user"}
           first == SelectInSeq(rest, LAMBDA m : m.role = "user")
           l == Len(rest)
           kept == PreservedFirstUser(rest, start, preserve)
           a == SubSeq(ms, 1, sys)
           b == SubSeq(rest, start, Len(rest))
<1>1. rest \in Seq(Message)
  <2>1. n + 1 \in Nat \ {0} /\ Len(ms) \in Int /\ Len(ms) <= Len(ms)
    OBVIOUS
  <2> QED BY <2>1, RestIs
<1>2. a \in Seq(Message)
  <2>1. 1 \in Nat \ {0} /\ sys \in Int /\ sys <= Len(ms)
    OBVIOUS
  <2> QED BY <2>1, RestIs
<1> HIDE DEF rest
<1>3. b \in Seq(Message)
  <2>1. Len(rest) \in Int /\ Len(rest) <= Len(rest)
    BY <1>1
  <2> QED BY <1>1, <2>1, RestIs
<1>4. I \in SUBSET (0 .. l) /\ l \in Nat /\ \A i \in I : i \in 1 .. l
  BY <1>1
<1>5. first = IF I # {} THEN Min(I) ELSE 0
  BY DEF SelectInSeq
<1>6. kept = IF preserve /\ first # 0 /\ first < start THEN <<rest[first]>> ELSE <<>>
  BY DEF PreservedFirstUser
<1> HIDE DEF I, first, kept
<1>7. I # {} => Min(I) \in I
  <2> HIDE DEF l
  <2> QED BY <1>4, MinOf
<1>8. first # 0 => first \in 1 .. Len(rest)
  BY <1>4, <1>5, <1>7
<1>9. kept \in Seq(Message)
  <2>1. CASE preserve /\ first # 0 /\ first < start
    <3>1. rest[first] \in Message
      BY <1>1, <1>8, <2>1
    <3> QED BY <1>6, <2>1, <3>1
  <2>2. CASE ~(preserve /\ first # 0 /\ first < start)
    BY <1>6, <2>2
  <2> QED BY <2>1, <2>2
<1>10. KeepFrom(ms, n, sys, start, preserve) = (a \o kept) \o b
  BY DEF KeepFrom, kept, rest
<1> HIDE DEF a, b
<1> QED BY <1>2, <1>3, <1>9, <1>10

\* the place from which it keeps them is one;
LEMMA StartOfLastIs ==
    ASSUME NEW n \in Int, NEW len \in Nat
    PROVE  StartOfLast(n, len) \in Nat \ {0}
BY DEF StartOfLast

\* and so is what each strategy returns: truncation,
LEMMA TruncationIs ==
    ASSUME NEW ms \in Seq(Message), NEW s, s.limit \in Nat
    PROVE  Truncation(ms, s) \in Seq(Message)
<1> DEFINE n == LeadingSystemCount(ms)
           l == Len(ms)
           rest == l - n
           start == StartOfLast(s.limit - n, rest)
<1>1. n \in 0 .. l /\ l \in Nat /\ rest \in Nat /\ n \in 0 .. Len(ms)
  <2>1. n \in 0 .. Len(ms) /\ Len(ms) \in Nat
    BY SystemCountIs
  <2> HIDE DEF n
  <2> QED BY <2>1
<1>2. Truncation(ms, s) =
        CASE l <= s.limit -> ms
          [] l > s.limit /\ n >= s.limit -> KeepFrom(ms, n, s.limit, rest + 1, s.preserve)
          [] OTHER -> KeepFrom(ms, n, n, start, s.preserve)
  BY DEF Truncation
<1> HIDE DEF n, start
<1>3. start \in Nat \ {0}
  <2> HIDE DEF rest
  <2>1. s.limit - n \in Int
    BY <1>1
  <2> QED BY <1>1, <2>1, StartOfLastIs DEF start
<1>4. ASSUME n >= s.limit PROVE KeepFrom(ms, n, s.limit, rest + 1, s.preserve) \in Seq(Message)
  <2>1. s.limit \in 0 .. Len(ms) /\ rest + 1 \in Nat \ {0}
    BY <1>1, <1>4
  <2> QED BY <1>1, <2>1, KeepFromIs
<1>5. KeepFrom(ms, n, n, start, s.preserve) \in Seq(Message)
  BY <1>1, <1>3, KeepFromIs
<1> HIDE DEF l, rest
<1> QED BY <1>1, <1>2, <1>4, <1>5

\* the window,
LEMMA SlidingWindowIs ==
    ASSUME NEW ms \in Seq(Message), NEW s, s.limit \in Nat
    PROVE  SlidingWindow(ms, s) \in Seq(Message)
<1> DEFINE n == LeadingSystemCount(ms)
           start == StartOfLast(s.limit, Len(ms) - n)
<1>1. n \in 0 .. Len(ms) /\ Len(ms) - n \in Nat
  <2>1. n \in 0 .. Len(ms) /\ Len(ms) \in Nat
    BY SystemCountIs
  <2> HIDE DEF n
  <2> QED BY <2>1
<1>2. SlidingWindow(ms, s) = KeepFrom(ms, n, n, start, s.preserve)
  BY DEF SlidingWindow
<1> HIDE DEF n
<1>3. start \in Nat \ {0}
  <2> DEFINE len == Len(ms) - n
             limit == s.limit
  <2>1. limit \in Int /\ len \in Nat
    BY <1>1
  <2> HIDE DEF len, limit
  <2>2. StartOfLast(limit, len) \in Nat \ {0}
    BY <2>1, StartOfLastIs
  <2> QED BY <2>2 DEF len, limit
<1> HIDE DEF start
<1> QED BY <1>1, <1>2, <1>3, KeepFromIs

\* the budget,
LEMMA TokenBudgetIs ==
    ASSUME NEW ms \in Seq(Message), NEW s
    PROVE  TokenBudget(ms, s) \in Seq(Message)
<1> DEFINE n == LeadingSystemCount(ms)
           rest == Len(ms) - n
           Fits(i) == TotalTokens(SubSeq(ms, 1, n) \o SubSeq(ms, n + i, Len(ms))) <= s.limit
           S == {i \in 1 .. rest : Fits(i)} \cup {rest}
           start == IF rest = 0 THEN 1 ELSE Min(S)
<1>1. n \in 0 .. Len(ms) /\ rest \in Nat
  <2>1. n \in 0 .. Len(ms) /\ Len(ms) \in Nat
    BY SystemCountIs
  <2> HIDE DEF n
  <2> QED BY <2>1
<1>2. TokenBudget(ms, s) = KeepFrom(ms, n, n, start, s.preserve)
  BY DEF TokenBudget
<1> HIDE DEF n, Fits, rest
<1>3. start \in Nat \ {0}
  <2>1. S \in SUBSET (0 .. rest) /\ S # {}
    BY <1>1
  <2>2. rest # 0 => \A i \in S : i \in 1 .. rest
    BY <1>1
  <2> HIDE DEF S
  <2>3. Min(S) \in S
    BY <1>1, <2>1, MinOf
  <2> QED BY <2>2, <2>3
<1> HIDE DEF start
<1> QED BY <1>1, <1>2, <1>3, KeepFromIs

\* the eviction of results,
LEMMA SelectiveIs ==
    ASSUME NEW ms \in Seq(Message), NEW s
    PROVE  SelectiveToolResult(ms, s) \in Seq(Message)
<1> DEFINE bearing == {i \in DOMAIN ms : HasToolResult(ms[i])}
           stale == {i \in bearing : Cardinality({j \in bearing : j > i}) >= s.limit}
           Evicted(p) == IF p.kind = "result" THEN [p EXCEPT !.body = Omitted] ELSE p
           Parts(m) == [j \in DOMAIN m.parts |-> Evicted(m.parts[j])]
           e(i) == IF i \in stale THEN [ms[i] EXCEPT !.parts = Parts(ms[i])] ELSE ms[i]
<1>1. SelectiveToolResult(ms, s) = [i \in DOMAIN ms |-> e(i)]
  BY DEF SelectiveToolResult
<1> HIDE DEF stale
<1>2. \A p \in Part : Evicted(p) \in Part
  BY CompactionAssumption DEF Part
<1> HIDE DEF Evicted
<1>3. \A i \in DOMAIN ms : e(i) \in Message
  <2> TAKE i \in DOMAIN ms
  <2>1. ms[i] \in Message
    OBVIOUS
  <2> DEFINE ps == ms[i].parts
  <2>2. ps \in Seq(Part)
    BY <2>1 DEF Message
  <2> HIDE DEF ps
  <2>3. [j \in DOMAIN ps |-> Evicted(ps[j])] \in Seq(Part)
    BY <1>2, <2>2
  <2>4. Parts(ms[i]) \in Seq(Part)
    BY <2>3 DEF ps
  <2> HIDE DEF Parts
  <2> QED BY <2>1, <2>4 DEF Message
<1> HIDE DEF e
<1>4. DOMAIN ms = 1 .. Len(ms) /\ Len(ms) \in Nat
  OBVIOUS
<1> QED BY <1>1, <1>3, <1>4

\* any of them,
LEMMA CompactIs ==
    ASSUME NEW ms \in Seq(Message), NEW s \in Strategy
    PROVE  Compact(ms, s) \in Seq(Message)
<1>1. s.kind \in {"truncation", "window", "budget", "results", "contextWindow"} /\ s.limit \in Nat
  BY DEF Strategy
<1>2. Truncation(ms, s) \in Seq(Message)
  BY <1>1, TruncationIs
<1>3. SlidingWindow(ms, s) \in Seq(Message)
  BY <1>1, SlidingWindowIs
<1>4. TokenBudget(ms, s) \in Seq(Message)
  BY TokenBudgetIs
<1>5. SelectiveToolResult(ms, s) \in Seq(Message)
  BY SelectiveIs
<1>6. ContextWindow(ms, s) \in Seq(Message)
  <2> DEFINE evicted == IF TotalTokens(ms) > s.eviction
                        THEN SelectiveToolResult(ms, [limit |-> s.limit]) ELSE ms
             t == [limit |-> s.eviction, preserve |-> s.preserve]
  <2>1. evicted \in Seq(Message)
    BY SelectiveIs
  <2>2. ContextWindow(ms, s) = IF TotalTokens(evicted) > s.truncation
                               THEN TokenBudget(evicted, t) ELSE evicted
    BY DEF ContextWindow
  <2> HIDE DEF evicted, t
  <2>3. TokenBudget(evicted, t) \in Seq(Message)
    BY <2>1, TokenBudgetIs
  <2> QED BY <2>1, <2>2, <2>3
<1> QED BY <1>1, <1>2, <1>3, <1>4, <1>5, <1>6 DEF Compact

\* and a pipeline of them.
LEMMA PipelineIs ==
    ASSUME NEW ms \in Seq(Message), NEW stages \in Seq(Strategy)
    PROVE  Pipeline(ms, stages) \in Seq(Message)
<1> DEFINE N == Len(stages)
           W == Seq(Message)
           G == [n \in 1 .. N |-> [x \in W |-> Compact(x, stages[n])]]
           Is(h) == h = [n \in 0 .. Len(stages) |->
                           IF n = 0 THEN ms ELSE Compact(h[n - 1], stages[n])]
           c == CHOOSE h : Is(h)
<1>1. N \in Nat /\ ms \in W
  OBVIOUS
<1>2. \A n \in 1 .. N : \A x \in W : Compact(x, stages[n]) \in W
  <2> TAKE n \in 1 .. N
  <2>1. stages[n] \in Strategy
    OBVIOUS
  <2> QED BY <2>1, CompactIs
<1>3. G \in [1 .. N -> [W -> W]]
  <2> HIDE DEF W
  <2> QED BY <1>2
<1>4. \A n \in 1 .. N : \A x \in W : G[n][x] = Compact(x, stages[n])
  <2> HIDE DEF W
  <2> QED OBVIOUS
<1>5. PICK f : f \in [0 .. N -> W] /\ f[0] = ms /\ \A n \in 1 .. N : f[n] = G[n][f[n - 1]]
  <2>1. Steps(G, W, N)
    BY <1>3 DEF Steps
  <2> HIDE DEF G, W, Is, c, N
  <2>2. \E f : Runs(f, G, W, N, ms)
    BY <1>1, <2>1, RunExists
  <2> QED BY <2>2 DEF Runs
<1> HIDE DEF G, W
<1>6. \A n \in 1 .. N : f[n] = Compact(f[n - 1], stages[n])
  <2> TAKE n \in 1 .. N
  <2>1. f[n - 1] \in W
    BY <1>5
  <2> QED BY <1>4, <1>5, <2>1
<1>7. Is(f)
  <2> DEFINE r == [n \in 0 .. Len(stages) |->
                     IF n = 0 THEN ms ELSE Compact(f[n - 1], stages[n])]
  <2>1. \A n \in 0 .. N : n = 0 \/ n \in 1 .. N
    OBVIOUS
  <2>2. \A n \in 0 .. N : r[n] = f[n]
    BY <1>5, <1>6, <2>1
  <2> QED BY <1>5, <2>2
<1>8. Is(c)
  <2> HIDE DEF Is
  <2> QED BY <1>7
<1>9. Pipeline(ms, stages) = c[N]
  BY DEF Pipeline
<1> HIDE DEF c
<1>10. c[0] = ms /\ \A n \in 1 .. N : c[n] = Compact(c[n - 1], stages[n])
  <2>1. 0 \in 0 .. N /\ \A n \in 1 .. N : n \in 0 .. N /\ n # 0
    OBVIOUS
  <2> QED BY <1>8, <2>1
<1>11. \A n \in 0 .. N : c[n] \in W
  <2> HIDE DEF Is, N
  <2>1. c[0] \in W
    BY <1>1, <1>10
  <2>2. \A n \in 1 .. N : c[n - 1] \in W => c[n] \in W
    BY <1>2, <1>10
  <2> QED BY <1>1, <2>1, <2>2, Typed
<1> QED BY <1>1, <1>9, <1>11 DEF W

\* What is injected and what is stored of an input are lists.
LEMMA AlignTyped ==
    ASSUME NEW ms \in Seq(Message), NEW input \in Seq(Message)
    PROVE  Align(ms, input).inject \in Seq(Message) /\ Align(ms, input).new \in Seq(Message)
<1> DEFINE block == BlockStart(ms, input)
           overlap == TrailingOverlap(ms, input)
           replay == ms # <<>> /\ input # <<>> /\ CouldBeAReplay(ms)
           l == Len(ms)
           k == Len(input)
           none == <<>>
           behind == SubSeq(input, block + Len(ms) + 1, Len(input))
<1>1. Align(ms, input) =
        CASE ~replay -> [inject |-> ms, new |-> input]
          [] replay /\ block >= 0 -> [inject |-> none, new |-> behind]
          [] replay /\ block < 0 ->
               [inject |-> SubSeq(ms, 1, Len(ms) - overlap),
                new |-> SubSeq(input, overlap + 1, Len(input))]
  BY DEF Align
<1>2. l \in Nat /\ k \in Nat
  OBVIOUS
<1>3. block \in Int
  <2> DEFINE B == Blocks(ms, input)
             b == k - l - 1
  <2>1. B \subseteq 0 .. b
    BY DEF Blocks
  <2>2. block = CASE 0 \in B -> 0
                  [] 0 \notin B /\ IsWindow(ms) /\ B # {} -> Max(B)
                  [] OTHER -> -1
    BY DEF BlockStart
  <2> HIDE DEF B, l, k, block
  <2>3. ASSUME B # {} PROVE Max(B) \in Int
    <3>1. b \in Nat
      <4>1. PICK x \in B : TRUE
        BY <2>3
      <4>2. b \in Int
        BY <1>2
      <4>3. x \in 0 .. b
        BY <2>1
      <4> HIDE DEF b
      <4> QED BY <4>2, <4>3
    <3>2. B \in SUBSET (0 .. b)
      BY <2>1
    <3> HIDE DEF b
    <3>3. Max(B) \in B
      BY <2>3, <3>1, <3>2, MaxOf
    <3>4. \A x \in B : x \in Int
      BY <3>1, <3>2
    <3> QED BY <3>3, <3>4
  <2> QED BY <2>2, <2>3
<1>4. overlap \in 0 .. l
  <2> DEFINE S == {0} \cup {n \in 1 .. Min({Len(ms), Len(input) - 1}) :
                    /\ LastN(ms, n) = SubSeq(input, 1, n)
                    /\ n = 1 => Last(ms).role # "user"}
             m == Min({l, k - 1})
  <2>1. overlap = Max(S)
    BY DEF TrailingOverlap
  <2>2. m \in Int /\ m <= l
    <3>1. l \in Int /\ k - 1 \in Int
      BY <1>2
    <3> HIDE DEF l, k
    <3>2. Min({l, k - 1}) = IF l <= k - 1 THEN l ELSE k - 1
      BY <3>1, MinOfTwo
    <3> QED BY <3>1, <3>2
  <2>3. S \subseteq {0} \cup 1 .. m /\ 0 \in S
    OBVIOUS
  <2> HIDE DEF S, m, l, overlap
  <2>4. S \in SUBSET (0 .. l) /\ S # {}
    BY <1>2, <2>2, <2>3
  <2>5. Max(S) \in S
    BY <1>2, <2>4, MaxOf
  <2> QED BY <2>1, <2>4, <2>5
<1>5. ASSUME block >= 0 PROVE behind \in Seq(Message)
  <2>1. block + l + 1 \in Nat \ {0} /\ k \in Int /\ k <= Len(input)
    <3> HIDE DEF block, l
    <3> QED BY <1>2, <1>3, <1>5
  <2> DEFINE a == block + Len(ms) + 1
  <2>2. a \in Nat \ {0} /\ Len(input) \in Int /\ Len(input) <= Len(input)
    BY <2>1
  <2> HIDE DEF a
  <2>3. SubSeq(input, a, Len(input)) \in Seq(Message)
    BY <2>2, RestIs
  <2> QED BY <2>3 DEF a
<1>6. SubSeq(ms, 1, Len(ms) - overlap) \in Seq(Message)
  <2>1. 1 \in Nat \ {0} /\ l - overlap \in Int /\ l - overlap <= Len(ms)
    <3> HIDE DEF overlap
    <3> QED BY <1>2, <1>4
  <2> DEFINE b == Len(ms) - overlap
  <2>2. b \in Int /\ b <= Len(ms) /\ 1 \in Nat \ {0}
    BY <2>1
  <2> HIDE DEF b
  <2>3. SubSeq(ms, 1, b) \in Seq(Message)
    BY <2>2, RestIs
  <2> QED BY <2>3 DEF b
<1>7. SubSeq(input, overlap + 1, Len(input)) \in Seq(Message)
  <2> HIDE DEF overlap
  <2>1. overlap + 1 \in Nat \ {0} /\ Len(input) \in Int /\ Len(input) <= Len(input)
    BY <1>2, <1>4
  <2> QED BY <2>1, RestIs
<1>11. none \in Seq(Message)
  OBVIOUS
<1> HIDE DEF block, overlap, replay, none, behind
<1>8. CASE ~replay
  BY <1>1, <1>8
<1>9. CASE replay /\ block >= 0
  BY <1>1, <1>3, <1>5, <1>9, <1>11
<1>10. CASE replay /\ block < 0
  BY <1>1, <1>6, <1>7, <1>10
<1> QED BY <1>3, <1>8, <1>9, <1>10

-----------------------------------------------------------------------------
(* What is sent.                                                           *)
\* The lists of a conversation are lists, and what was sent last is whole.
SentInv ==
    /\ pipeline \in Seq(Strategy)
    /\ retention \in Nat \cup {Unlimited}
    /\ stored \in Seq(Message) /\ transcript \in Seq(Message)
    /\ request.new \in Seq(Message) /\ request.input \in Seq(Message)
    /\ request.history \in Seq(Message) /\ Whole(request.history, request.input)

\* It holds of the request before the first run.
LEMMA SentInvInit == Init => SentInv
<1> SUFFICES ASSUME Init PROVE SentInv
  OBVIOUS
<1> DEFINE e == <<>>
<1>1. /\ stored = e /\ transcript = e /\ request.new = e /\ request.input = e
      /\ request.history = e /\ e \in Seq(Message) /\ Flat(e) = e /\ Len(e) = 0
  BY FlatAppend DEF Init, NoRequest
<1>2. pipeline \in Seq(Strategy) /\ retention \in Nat \cup {Unlimited}
  BY ConversationAssumption DEF Init
<1> HIDE DEF e
<1>3. Whole(e, e)
  BY <1>1 DEF Whole, WholeParts
<1> QED BY <1>1, <1>2, <1>3 DEF SentInv

\* What a store keeps of messages is messages.
LEMMA TrimTyped ==
    ASSUME NEW t \in Seq(Message), retention \in Nat \cup {Unlimited}
    PROVE  Trim(t) \in Seq(Message)
<1> DEFINE s == Len(Trim(t))
<1>1. s \in 0 .. Len(t) /\ Trim(t) = LastN(t, s)
  BY TrimIs
<1> HIDE DEF s
<1>2. LastN(t, s) \in Seq(Message)
  BY <1>1, LastNIs
<1> QED BY <1>1, <1>2

\* Every step of a run keeps it.
LEMMA SentInvStep ==
    SentInv /\ [Next]_vars => SentInv'
<1> SUFFICES ASSUME SentInv, [Next]_vars PROVE SentInv'
  OBVIOUS
<1>1. /\ pipeline \in Seq(Strategy) /\ retention \in Nat \cup {Unlimited}
      /\ stored \in Seq(Message) /\ transcript \in Seq(Message)
      /\ request.new \in Seq(Message) /\ request.input \in Seq(Message)
  BY DEF SentInv
<1>2. ASSUME NEW new \in Seq(Message),
             NEW k \in Nat, Prepare(new, k) PROVE SentInv'
  <2> DEFINE input == LastN(transcript, k) \o new
             base == Align(stored, input).inject
             cut == Pipeline(base, pipeline)
             h == FinalizeCompaction(base, cut, input)
  <2>1. /\ request' = [input |-> input, new |-> new, base |-> base, history |-> h]
        /\ k <= Len(transcript)
        /\ pipeline' = pipeline /\ retention' = retention /\ stored' = stored
        /\ transcript' = transcript
    BY <1>2 DEF Prepare
  <2>2. input \in Seq(Message)
    <3>1. k \in 0 .. Len(transcript)
      BY <1>1, <2>1
    <3>2. LastN(transcript, k) \in Seq(Message)
      BY <1>1, <3>1, LastNIs
    <3> QED BY <3>2
  <2> HIDE DEF input
  <2>3. base \in Seq(Message)
    BY <1>1, <2>2, AlignTyped
  <2> HIDE DEF base
  <2>4. cut \in Seq(Message)
    BY <1>1, <2>3, PipelineIs
  <2> HIDE DEF cut
  <2>5. h \in Seq(Message) /\ Whole(h, input)
    BY <2>2, <2>3, <2>4, FinalizeWhole
  <2> HIDE DEF h
  <2>6. request'.new = new /\ request'.input = input /\ request'.history = h
    BY <2>1
  <2> QED BY <1>1, <2>1, <2>2, <2>5, <2>6 DEF SentInv
<1>3. ASSUME NEW reply \in Seq(Message), Complete(reply) PROVE SentInv'
  <2> DEFINE new == Align(stored, request.input).new
             s == stored \o new \o reply
  <2>1. /\ stored' = Trim(s)
        /\ transcript' = transcript \o request.new \o reply
        /\ pipeline' = pipeline /\ retention' = retention /\ request' = request
    BY <1>3 DEF Complete
  <2>2. new \in Seq(Message)
    BY <1>1, AlignTyped
  <2> HIDE DEF new
  <2>3. s \in Seq(Message) /\ transcript \o request.new \o reply \in Seq(Message)
    BY <1>1, <2>2
  <2> HIDE DEF s
  <2>4. Trim(s) \in Seq(Message)
    BY <1>1, <2>3, TrimTyped
  <2> QED BY <2>1, <2>3, <2>4 DEF SentInv
<1>4. CASE Fail
  BY <1>4 DEF Fail, SentInv
<1>5. CASE UNCHANGED vars
  BY <1>5 DEF vars, SentInv
<1>6. Openings \subseteq Seq(Message) /\ NewInputs \subseteq Seq(Message) /\ Replies \subseteq Seq(Message)
  BY ConversationAssumption
<1>7. \A k \in 0 .. MaxReplay \cup {Len(transcript)} : k \in Nat
  BY <1>1, ConversationAssumption
<1> QED BY <1>2, <1>3, <1>4, <1>5, <1>6, <1>7 DEF Next

\* Whole in its parts is whole in its sites.
LEMMA WholeIsNoHalfExchange == SentInv => NoHalfExchange
<1> SUFFICES ASSUME SentInv PROVE NoHalfExchange
  OBVIOUS
<1> DEFINE h == request.history
           input == request.input
           F == Flat(h)
           S == Sites(h)
<1>1. h \in Seq(Message) /\ input \in Seq(Message) /\ Whole(h, input) /\ Sent = h \o input
  BY DEF SentInv, Sent
<1> HIDE DEF h, input
<1>2. /\ S \in Seq(Site) /\ Len(F) = Len(S) /\ \A n \in 1 .. Len(S) : F[n] = S[n].part
  BY <1>1, FlatIs
<1> DEFINE full == h \o input
<1>3. full \in Seq(Message) /\ Sent = full
  BY <1>1
<1>4. /\ Flat(full) = F \o Flat(input) /\ Len(S) <= Len(Sites(full))
      /\ \A n \in 1 .. Len(S) : Sites(full)[n] = S[n]
  BY <1>1, FlatConcat
<1>5. Len(Flat(full)) = Len(Sites(full)) /\ Len(Flat(full)) \in Nat
  BY <1>3, FlatIs
<1>6. \A n \in 1 .. Len(Flat(full)) : Sites(full)[n] \in PairedSites(full) <=> n \in Paired(Flat(full))
  BY <1>3, PairedPlaces
<1>7. Len(S) \in Nat
  BY <1>2
<1> HIDE DEF F, S, full
<1>8. \A n \in 1 .. Len(S) : IsToolPart(S[n].part) => S[n] \in PairedSites(Sent)
  <2> SUFFICES ASSUME NEW n \in 1 .. Len(S), IsToolPart(S[n].part) PROVE S[n] \in PairedSites(Sent)
    OBVIOUS
  <2>1. IsToolPart(F[n]) /\ n \in 1 .. Len(F)
    BY <1>2
  <2>2. n \in Paired(F \o Flat(input))
    BY <1>1, <2>1 DEF Whole, WholeParts, F
  <2>3. n \in 1 .. Len(Flat(full))
    BY <1>4, <1>5, <1>7
  <2> QED BY <1>3, <1>4, <1>6, <2>2, <2>3
<1>9. ToSet(S) = {S[n] : n \in 1 .. Len(S)}
  BY <1>2 DEF ToSet
<1> QED BY <1>8, <1>9 DEF NoHalfExchange, S, h

(* Whatever strategies an agent was built with, and whatever its caller replays,
   every call and result that compaction sends has its other half in the
   request (finalize_compaction). *)
THEOREM CompactionWhole == Spec => []NoHalfExchange
<1>1. Spec => []SentInv
  BY SentInvInit, SentInvStep, PTL DEF Spec
<1> QED BY <1>1, WholeIsNoHalfExchange, PTL

-----------------------------------------------------------------------------
(* Which calls and results pair.                                           *)

\* A call is opened.
LEMMA CallOpens ==
    \A N \in Nat : \A ps : \A acc \in PairState(N) : \A n \in 1 .. N :
      ps[n].kind = "call" => /\ PairPart(ps, acc, n).open = acc.open \cup {n}
                             /\ PairPart(ps, acc, n).pairs = acc.pairs
<1> TAKE N \in Nat
<1> TAKE ps
<1> TAKE acc \in PairState(N)
<1> TAKE n \in 1 .. N
<1> SUFFICES ASSUME ps[n].kind = "call"
             PROVE  /\ PairPart(ps, acc, n).open = acc.open \cup {n}
                    /\ PairPart(ps, acc, n).pairs = acc.pairs
  OBVIOUS
<1> DEFINE new == PairPart(ps, acc, n)
<1>1. new = [open |-> acc.open \cup {n}, pairs |-> acc.pairs]
  BY PairPartIs
<1> HIDE DEF new
<1> QED BY <1>1 DEF new

\* What pairing has found after each part of ps.
PairRun(f, ps) ==
    /\ Len(ps) \in Nat
    /\ PairParts(ps) = f[Len(ps)] /\ f[0] = [open |-> {}, pairs |-> {}]
    /\ \A n \in 0 .. Len(ps) : f[n] \in PairState(Len(ps)) /\ PairInv(ps, f[n], n)
    /\ \A n \in 1 .. Len(ps) : f[n] = PairPart(ps, f[n - 1], n)
    /\ \A n \in 0 .. Len(ps) : f[n].pairs \subseteq f[Len(ps)].pairs

\* There is such a run.
LEMMA PairRunExists == \A ps : Len(ps) \in Nat => \E f : PairRun(f, ps)
<1> TAKE ps
<1> SUFFICES ASSUME Len(ps) \in Nat PROVE \E f : PairRun(f, ps)
  OBVIOUS
<1> DEFINE N == Len(ps)
<1>1. N \in Nat /\ N = Len(ps)
  OBVIOUS
<1> HIDE DEF N
<1>2. \E f : /\ PairParts(ps) = f[N] /\ f[0] = [open |-> {}, pairs |-> {}]
             /\ \A n \in 0 .. N : f[n] \in PairState(N) /\ PairInv(ps, f[n], n)
             /\ \A n \in 1 .. N : f[n] = PairPart(ps, f[n - 1], n)
             /\ \A n \in 0 .. N : f[n].pairs \subseteq f[N].pairs
  BY <1>1, Pairing
<1> QED BY <1>1, <1>2 DEF PairRun

\* A step of pairing: what is open stays so, or is answered there.
LEMMA OpenStep ==
    ASSUME NEW ps, NEW N \in Nat, NEW acc \in PairState(N), NEW n \in 1 .. N, NEW c \in acc.open
    PROVE  LET new == PairPart(ps, acc, n)
           IN  /\ acc.pairs \subseteq new.pairs
               /\ c \in new.open \/ [call |-> c, result |-> n] \in new.pairs
<1> DEFINE new == PairPart(ps, acc, n)
           S == SameId(ps, acc.open, n)
<1>2. CASE ps[n].kind = "call"
  <2>1. new = [open |-> acc.open \cup {n}, pairs |-> acc.pairs]
    BY <1>2, PairPartIs
  <2> HIDE DEF new
  <2> QED BY <2>1 DEF new
<1>3. CASE ps[n].kind = "result" /\ S # {}
  <2>1. Matched(ps, acc, n, new)
    BY <1>3, PairPartIs
  <2> HIDE DEF new
  <2>2. PICK m \in S : new = [open |-> acc.open \ {m},
                              pairs |-> acc.pairs \cup {[call |-> m, result |-> n]}]
    BY <2>1 DEF Matched
  <2>3. new.open = acc.open \ {m} /\ new.pairs = acc.pairs \cup {[call |-> m, result |-> n]}
    BY <2>2
  <2> QED BY <2>3 DEF new
<1>4. CASE ps[n].kind # "call" /\ ~ (ps[n].kind = "result" /\ S # {})
  <2>1. Unmatched(ps, acc, n)
    BY <1>4 DEF Unmatched
  <2>2. new = acc
    BY <2>1, PairPartIs
  <2> HIDE DEF new
  <2> QED BY <2>2 DEF new
<1> QED BY <1>2, <1>3, <1>4

\* A call that is open after m parts is so after n, or answered between.
LEMMA StaysOpen ==
    ASSUME NEW ps, NEW f, PairRun(f, ps), NEW m \in 0 .. Len(ps), NEW c \in f[m].open
    PROVE  \A n \in m .. Len(ps) :
             c \in f[n].open \/ \E p \in f[n].pairs : p.call = c /\ p.result > m
<1> DEFINE N == Len(ps)
           Ok(n) == c \in f[n].open \/ \E p \in f[n].pairs : p.call = c /\ p.result > m
           Good == {d \in 0 .. N - m : Ok(m + d)}
<1>0. N \in Nat /\ m \in Nat /\ N - m \in Nat
  BY DEF PairRun
<1>1. 0 \in Good
  BY <1>0
<1>2. ASSUME NEW d \in 0 .. N - m - 1, d \in Good PROVE d + 1 \in Good
  <2> DEFINE k == m + d
  <2>1. k \in 0 .. N /\ k + 1 \in 1 .. N /\ (k + 1) - 1 = k /\ m + (d + 1) = k + 1 /\ k + 1 > m
        /\ d + 1 \in 0 .. N - m
    BY <1>0
  <2>2. f[k] \in PairState(N) /\ f[k + 1] = PairPart(ps, f[k], k + 1)
    BY <2>1 DEF PairRun
  <2>3. Ok(k)
    BY <1>2
  <2> HIDE DEF k
  <2>4. CASE c \in f[k].open
    <3>1. c \in f[k + 1].open \/ [call |-> c, result |-> k + 1] \in f[k + 1].pairs
      BY <1>0, <2>1, <2>2, <2>4, OpenStep
    <3>2. ASSUME [call |-> c, result |-> k + 1] \in f[k + 1].pairs
          PROVE \E p \in f[k + 1].pairs : p.call = c /\ p.result > m
      <4> DEFINE p == [call |-> c, result |-> k + 1]
      <4>1. p.call = c /\ p.result = k + 1 /\ p \in f[k + 1].pairs
        BY <3>2
      <4> HIDE DEF p
      <4> QED BY <2>1, <4>1
    <3> QED BY <2>1, <3>1, <3>2
  <2>5. CASE \E p \in f[k].pairs : p.call = c /\ p.result > m
    <3>1. f[k].pairs \subseteq f[k + 1].pairs
      <4>1. PairInv(ps, f[k], k)
        BY <2>1 DEF PairRun
      <4>2. f[k].pairs \subseteq PairPart(ps, f[k], k + 1).pairs
        BY <1>0, <2>1, <2>2, <4>1, PairInvStep
      <4> QED BY <2>2, <4>2
    <3> QED BY <2>1, <2>5, <3>1
  <2> QED BY <2>3, <2>4, <2>5
<1>3. \A d \in 0 .. N - m : d \in Good
  <2> HIDE DEF Good, N
  <2> QED BY <1>0, <1>1, <1>2, Upto
<1> TAKE n \in m .. Len(ps)
<1>4. n - m \in 0 .. N - m /\ m + (n - m) = n
  BY <1>0
<1>5. n - m \in Good
  BY <1>3, <1>4
<1> QED BY <1>4, <1>5

\* A result behind a call of its id that is open then: there is a pair with a
\* result behind, and no earlier call.
LEMMA Answered ==
    ASSUME NEW ps, NEW f, PairRun(f, ps), NEW m \in 0 .. Len(ps), NEW c \in f[m].open,
           NEW r \in m + 1 .. Len(ps), ps[r].kind = "result", ps[r].id = ps[c].id
    PROVE  \E p \in PairParts(ps).pairs : p.result > m /\ p.call >= c
<1> DEFINE N == Len(ps)
           a == f[r - 1]
<1>0. N \in Nat /\ m \in Nat /\ r - 1 \in m .. N /\ r - 1 \in 0 .. N /\ r \in 1 .. N /\ r > m
      /\ r \in 0 .. N
  BY DEF PairRun
<1>1. a \in PairState(N) /\ f[r] = PairPart(ps, a, r)
  BY <1>0 DEF PairRun
<1>2. a.pairs \subseteq PairParts(ps).pairs /\ f[r].pairs \subseteq PairParts(ps).pairs
  BY <1>0 DEF PairRun
<1>3. c \in a.open \/ \E p \in a.pairs : p.call = c /\ p.result > m
  BY <1>0, StaysOpen
<1>4. c \in Int
  BY DEF PairRun, PairState
<1> HIDE DEF a
<1>5. CASE \E p \in a.pairs : p.call = c /\ p.result > m
  BY <1>2, <1>4, <1>5
<1>6. CASE c \in a.open
  <2>1. c \in SameId(ps, a.open, r)
    BY <1>6 DEF SameId
  <2>2. Matched(ps, a, r, f[r])
    <3>1. ps[r].kind = "result" /\ SameId(ps, a.open, r) # {}
      BY <2>1
    <3> HIDE DEF N
    <3>2. Matched(ps, a, r, PairPart(ps, a, r))
      BY <1>0, <1>1, <3>1, PairPartIs
    <3> QED BY <1>1, <3>2
  <2>3. PICK k \in SameId(ps, a.open, r) :
          /\ \A o \in SameId(ps, a.open, r) : o <= k
          /\ f[r] = [open |-> a.open \ {k}, pairs |-> a.pairs \cup {[call |-> k, result |-> r]}]
    BY <2>2 DEF Matched
  <2> DEFINE p == [call |-> k, result |-> r]
  <2>4. p.call = k /\ p.result = r /\ p \in f[r].pairs
    BY <2>3
  <2>5. k \in Int /\ k >= c
    BY <1>1, <1>4, <2>1, <2>3 DEF SameId, PairState
  <2> HIDE DEF p
  <2> QED BY <1>0, <1>2, <2>4, <2>5
<1> QED BY <1>3, <1>5, <1>6

\* A call, and a result of its id behind it: there is a pair, of no earlier call.
LEMMA PairBehind ==
    ASSUME NEW ps, Len(ps) \in Nat, NEW c \in 1 .. Len(ps), NEW r \in c + 1 .. Len(ps),
           ps[c].kind = "call", ps[r].kind = "result", ps[r].id = ps[c].id
    PROVE  \E p \in PairParts(ps).pairs : p.call >= c
<1>1. PICK f : PairRun(f, ps)
  BY PairRunExists
<1>2. c \in 0 .. Len(ps) /\ c - 1 \in 0 .. Len(ps)
  OBVIOUS
<1>3. f[c - 1] \in PairState(Len(ps)) /\ f[c] = PairPart(ps, f[c - 1], c)
  BY <1>1, <1>2 DEF PairRun
<1>5. c \in f[c].open
  BY <1>3, CallOpens
<1> QED BY <1>1, <1>2, <1>5, Answered

\* Pairing depends on the part at n and on the open calls of its id.
LEMMA PairPartSame ==
    ASSUME NEW ps, NEW qs, NEW acc, NEW n, ps[n] = qs[n],
           SameId(ps, acc.open, n) = SameId(qs, acc.open, n)
    PROVE  PairPart(ps, acc, n) = PairPart(qs, acc, n)
BY DEF PairPart, SameId

\* Pairing x and y begins with pairing x.
LEMMA PrefixRun ==
    ASSUME NEW x \in Seq(Part), NEW y \in Seq(Part), NEW f, PairRun(f, x \o y)
    PROVE  f[Len(x)] = PairParts(x)
<1> DEFINE L == Len(x)
           z == x \o y
<1>1. L \in Nat /\ L <= Len(z) /\ Len(z) \in Nat /\ \A i \in 1 .. L : z[i] = x[i]
  BY BehindIs
<1>2. PICK g : PairRun(g, x)
  BY <1>1, PairRunExists
<1> HIDE DEF z
<1> DEFINE Same == {n \in 0 .. L : f[n] = g[n]}
<1>3. 0 \in Same
  BY <1>1, <1>2 DEF PairRun
<1>4. ASSUME NEW n \in 0 .. L - 1, n \in Same PROVE n + 1 \in Same
  <2> DEFINE k == n + 1
             a == g[n]
  <2>1. k \in 1 .. L /\ k - 1 = n /\ n \in 0 .. L /\ k \in 1 .. Len(z) /\ k \in 0 .. L
    BY <1>1
  <2>2. f[k] = PairPart(z, f[n], k) /\ g[k] = PairPart(x, g[n], k)
    BY <1>2, <2>1 DEF PairRun, z
  <2>3. f[n] = a /\ a \in PairState(L)
    BY <1>2, <1>4, <2>1 DEF PairRun
  <2> HIDE DEF k, a
  <2>4. \A o \in a.open : o \in 1 .. L
    BY <2>3 DEF PairState
  <2>5. z[k] = x[k] /\ SameId(z, a.open, k) = SameId(x, a.open, k)
    BY <1>1, <2>1, <2>4 DEF SameId
  <2>6. PairPart(z, a, k) = PairPart(x, a, k)
    BY <2>5, PairPartSame
  <2> QED BY <2>1, <2>2, <2>3, <2>6 DEF k, a
<1>5. \A n \in 0 .. L : n \in Same
  <2> HIDE DEF Same, L
  <2> QED BY <1>1, <1>3, <1>4, Upto
<1> QED BY <1>1, <1>2, <1>5 DEF PairRun

\* A call of x that y answers is open at the end of x.
LEMMA CrossOpen ==
    ASSUME NEW x \in Seq(Part), NEW y \in Seq(Part), NEW p \in PairParts(x \o y).pairs,
           p.result > Len(x), p.call <= Len(x)
    PROVE  p.call \in PairParts(x).open
<1> DEFINE L == Len(x)
           z == x \o y
           N == Len(z)
<1>1. L \in Nat /\ L <= N /\ N \in Nat /\ N - L \in Nat
  BY BehindIs
<1>2. PICK f : PairRun(f, z)
  BY <1>1, PairRunExists
<1>3. f[L] = PairParts(x)
  BY <1>2, PrefixRun
<1> HIDE DEF z, L
<1> DEFINE Ok(n) == /\ \A o \in f[n].open : o <= L => o \in f[L].open
                    /\ \A q \in f[n].pairs : q.result > L /\ q.call <= L => q.call \in f[L].open
           Good == {d \in 0 .. N - L : Ok(L + d)}
<1>4. 0 \in Good
  <2>1. PairInv(z, f[L], L)
    BY <1>1, <1>2 DEF PairRun
  <2>2. \A q \in f[L].pairs : ~ (q.result > L)
    BY <1>1, <2>1 DEF PairInv
  <2> QED BY <1>1, <2>2
<1>5. ASSUME NEW d \in 0 .. N - L - 1, d \in Good PROVE d + 1 \in Good
  <2> DEFINE k == L + d
             n == k + 1
  <2>1. k \in 0 .. N /\ n \in 1 .. N /\ n - 1 = k /\ L + (d + 1) = n /\ n > L
        /\ d + 1 \in 0 .. N - L
    BY <1>1
  <2>2. f[k] \in PairState(N) /\ f[n] = PairPart(z, f[k], n)
    BY <1>2, <2>1 DEF PairRun
  <2>3. Ok(k)
    BY <1>5
  <2> DEFINE a == f[k]
             b == f[n]
             S == SameId(z, a.open, n)
  <2> HIDE DEF k, n, N
  <2>4. CASE z[n].kind = "call"
    <3>1. N \in Nat /\ n \in 1 .. N /\ a \in PairState(N) /\ b = PairPart(z, a, n)
      BY <1>1, <2>1, <2>2
    <3> HIDE DEF a, b
    <3>2. b.open = a.open \cup {n} /\ b.pairs = a.pairs
      BY <2>4, <3>1, CallOpens
    <3> USE DEF a, b
    <3>3. ~ (n <= L)
      BY <1>1, <2>1
    <3>4. Ok(n)
      BY <2>3, <3>2, <3>3
    <3> QED BY <2>1, <3>4
  <2>5. CASE z[n].kind = "result" /\ S # {}
    <3>0. Matched(z, a, n, PairPart(z, a, n))
      BY <1>1, <2>1, <2>2, <2>5, PairPartIs
    <3>1. Matched(z, a, n, b)
      BY <2>2, <3>0
    <3>2. PICK m \in S : b = [open |-> a.open \ {m}, pairs |-> a.pairs \cup {[call |-> m, result |-> n]}]
      BY <3>1 DEF Matched
    <3>3. b.open = a.open \ {m} /\ b.pairs = a.pairs \cup {[call |-> m, result |-> n]}
      BY <3>2
    <3>4. m \in a.open
      BY DEF SameId
    <3>5. \A q \in b.pairs : q \in a.pairs \/ q.call = m
      BY <3>3
    <3> HIDE DEF a, b
    <3>6. Ok(n)
      BY <2>3, <3>3, <3>4, <3>5 DEF a, b
    <3> QED BY <2>1, <3>6
  <2>6. CASE z[n].kind # "call" /\ ~ (z[n].kind = "result" /\ S # {})
    <3>1. Unmatched(z, a, n)
      BY <2>6 DEF Unmatched
    <3>2. b = a
      BY <1>1, <2>1, <2>2, <3>1, PairPartIs
    <3>3. Ok(n)
      BY <2>3, <3>2
    <3> QED BY <2>1, <3>3
  <2> QED BY <2>4, <2>5, <2>6
<1>6. \A d \in 0 .. N - L : d \in Good
  <2> HIDE DEF Good, N
  <2> QED BY <1>1, <1>4, <1>5, Upto
<1>7. Ok(N)
  <2>1. N - L \in 0 .. N - L /\ L + (N - L) = N
    BY <1>1
  <2>2. N - L \in Good
    BY <1>6, <2>1
  <2> QED BY <2>1, <2>2
<1>8. p \in f[N].pairs /\ p.result > L /\ p.call <= L
  BY <1>2 DEF PairRun, z, L
<1> QED BY <1>3, <1>7, <1>8

\* Calls behind x leave what is open in x open, and are open themselves.
LEMMA CallsBehind ==
    ASSUME NEW x \in Seq(Part), NEW y \in Seq(Part), \A j \in 1 .. Len(y) : y[j].kind = "call"
    PROVE  /\ PairParts(x).open \subseteq PairParts(x \o y).open
           /\ \A j \in 1 .. Len(y) : Len(x) + j \in PairParts(x \o y).open
<1> DEFINE L == Len(x)
           M == Len(y)
           z == x \o y
<1>1. L \in Nat /\ M \in Nat /\ Len(z) = L + M /\ \A j \in 1 .. M : z[L + j] = y[j]
  BY BehindIs
<1>2. PICK f : PairRun(f, z)
  <2>1. Len(z) \in Nat
    BY <1>1
  <2> HIDE DEF z
  <2> QED BY <2>1, PairRunExists
<1>3. f[L] = PairParts(x)
  BY <1>2, PrefixRun
<1> HIDE DEF z, L, M
<1> DEFINE Ok(d) == f[L].open \cup {L + j : j \in 1 .. d} \subseteq f[L + d].open
           Good == {d \in 0 .. M : Ok(d)}
<1>4. 0 \in Good
  BY <1>1
<1>5. ASSUME NEW d \in 0 .. M - 1, d \in Good PROVE d + 1 \in Good
  <2> DEFINE k == L + d
             n == k + 1
  <2>1. k \in 0 .. L + M /\ n \in 1 .. L + M /\ n - 1 = k /\ L + (d + 1) = n /\ d + 1 \in 0 .. M
        /\ d + 1 \in 1 .. M
    BY <1>1
  <2>2. f[k] \in PairState(L + M) /\ f[n] = PairPart(z, f[k], n)
    BY <1>1, <1>2, <2>1 DEF PairRun
  <2>3. z[n].kind = "call"
    BY <1>1, <2>1 DEF M
  <2> HIDE DEF n
  <2>4. L + M \in Nat
    BY <1>1
  <2>5. f[n].open = f[k].open \cup {n}
    <3> DEFINE a == f[k]
               N == L + M
    <3>1. N \in Nat /\ n \in 1 .. N /\ a \in PairState(N) /\ f[n] = PairPart(z, a, n)
      BY <2>1, <2>2, <2>4
    <3> HIDE DEF k, a, N
    <3>2. PairPart(z, a, n).open = a.open \cup {n}
      BY <2>3, <3>1, CallOpens
    <3> QED BY <3>1, <3>2 DEF a
  <2>6. \A j \in 1 .. d + 1 : j \in 1 .. d \/ L + j = n
    BY <1>1, <2>1
  <2>7. Ok(d)
    BY <1>5
  <2> QED BY <2>1, <2>5, <2>6, <2>7
<1>6. \A d \in 0 .. M : d \in Good
  <2> HIDE DEF Good
  <2> QED BY <1>1, <1>4, <1>5, Upto
<1>7. Ok(M) /\ f[L + M] = PairParts(z)
  <2>1. M \in 0 .. M
    BY <1>1
  <2>2. M \in Good
    BY <1>6, <2>1
  <2>3. f[Len(z)] = PairParts(z)
    BY <1>2 DEF PairRun
  <2> QED BY <1>1, <2>2, <2>3
<1> QED BY <1>3, <1>7 DEF z, L, M

-----------------------------------------------------------------------------
(* The sites of what is put behind a list.                                 *)

\* A site of b, in a and b.
Behind(a, s) == [mi |-> Len(a) + s.mi, ci |-> s.ci, part |-> s.part]

\* The sites of a and b are those of a, and those of b behind them.
LEMMA SitesBehind ==
    ASSUME NEW a \in Seq(Message)
    PROVE  \A b \in Seq(Message) :
             /\ Len(Sites(a \o b)) = Len(Sites(a)) + Len(Sites(b))
             /\ \A n \in 1 .. Len(Sites(b)) :
                  Sites(a \o b)[Len(Sites(a)) + n] = Behind(a, Sites(b)[n])
<1> DEFINE A == Len(Sites(a))
           Ok(b) == /\ Len(Sites(a \o b)) = A + Len(Sites(b))
                    /\ \A n \in 1 .. Len(Sites(b)) : Sites(a \o b)[A + n] = Behind(a, Sites(b)[n])
           Good == {b \in Seq(Message) : Ok(b)}
<1>0. Sites(a) \in Seq(Site) /\ A \in Nat /\ Len(a) \in Nat
  BY FlatIs
<1>1. <<>> \in Good
  <2> DEFINE e == <<>>
  <2>1. e \in Seq(Message) /\ a \o e = a /\ Sites(e) = e /\ Len(e) = 0
    BY SitesAppend, ConcatEmptySeq
  <2> HIDE DEF e
  <2>2. Ok(e)
    BY <1>0, <2>1
  <2> QED BY <2>1, <2>2 DEF e
<1>2. ASSUME NEW b \in Seq(Message), NEW m \in Message, b \in Good PROVE Append(b, m) \in Good
  <2> DEFINE c == a \o b
             d == Append(b, m)
             B == Len(Sites(b))
             k == Len(m.parts)
             u == SitesOf(m, Len(c) + 1)
             v == SitesOf(m, Len(b) + 1)
  <2>1. c \in Seq(Message) /\ Len(c) = Len(a) + Len(b) /\ d \in Seq(Message) /\ Len(b) \in Nat
    BY ConcatProperties, AppendProperties
  <2>2. a \o d = Append(c, m)
    BY ConcatAppend
  <2> HIDE DEF c, d
  <2>3. Sites(a \o d) = Sites(c) \o u /\ Sites(c) \in Seq(Site)
    BY <2>1, <2>2, SitesAppend
  <2>4. Sites(d) = Sites(b) \o v /\ Sites(b) \in Seq(Site)
    BY SitesAppend DEF d
  <2>5. /\ u \in Seq(Site) /\ Len(u) = k /\ k \in Nat
        /\ \A j \in 1 .. k : u[j] = [mi |-> Len(c) + 1, ci |-> j, part |-> m.parts[j]]
    <3>1. Len(c) + 1 \in Nat
      BY <2>1
    <3> QED BY <3>1, SitesOfIs
  <2>6. /\ v \in Seq(Site) /\ Len(v) = k
        /\ \A j \in 1 .. k : v[j] = [mi |-> Len(b) + 1, ci |-> j, part |-> m.parts[j]]
    <3>1. Len(b) + 1 \in Nat
      BY <2>1
    <3> QED BY <3>1, SitesOfIs
  <2>7. Ok(b) /\ Len(Sites(c)) = A + B /\ B \in Nat
    BY <1>2, FlatIs DEF c
  <2> DEFINE x == Sites(c)
             y == Sites(b)
             X == x \o u
             Y == y \o v
  <2>8. x \in Seq(Site) /\ y \in Seq(Site) /\ Len(x) = A + B /\ Len(y) = B
    BY <2>3, <2>4, <2>7
  <2> HIDE DEF x, y, u, v, B, k, A
  <2>9. /\ Len(X) = A + B + k
        /\ \A i \in 1 .. A + B : X[i] = x[i]
        /\ \A j \in 1 .. k : X[A + B + j] = u[j]
    <3>1. /\ Len(x \o u) = Len(x) + Len(u)
          /\ \A i \in 1 .. Len(x) : (x \o u)[i] = x[i]
          /\ \A j \in 1 .. Len(u) : (x \o u)[Len(x) + j] = u[j]
      <4>1. x \in Seq(Site) /\ u \in Seq(Site)
        BY <2>5, <2>8
      <4> QED BY <4>1, BehindIs
    <3> HIDE DEF X
    <3> QED BY <2>5, <2>8, <3>1 DEF X
  <2>10. /\ Len(Y) = B + k
         /\ \A i \in 1 .. B : Y[i] = y[i]
         /\ \A j \in 1 .. k : Y[B + j] = v[j]
    <3>1. /\ Len(y \o v) = Len(y) + Len(v)
          /\ \A i \in 1 .. Len(y) : (y \o v)[i] = y[i]
          /\ \A j \in 1 .. Len(v) : (y \o v)[Len(y) + j] = v[j]
      <4>1. y \in Seq(Site) /\ v \in Seq(Site)
        BY <2>6, <2>8
      <4> QED BY <4>1, BehindIs
    <3> QED BY <2>6, <2>8, <3>1
  <2> HIDE DEF X, Y
  <2>11. \A n \in 1 .. B : x[A + n] = Behind(a, y[n])
    BY <2>7 DEF x, y, c, B
  <2>12. \A n \in 1 .. B + k : X[A + n] = Behind(a, Y[n])
    <3> TAKE n \in 1 .. B + k
    <3>1. CASE n \in 1 .. B
      <4>1. A + n \in 1 .. A + B
        BY <1>0, <2>7, <3>1
      <4>2. X[A + n] = x[A + n] /\ Y[n] = y[n]
        BY <2>9, <2>10, <3>1, <4>1
      <4> QED BY <2>11, <3>1, <4>2
    <3>2. CASE n \in B + 1 .. B + k
      <4> DEFINE j == n - B
      <4>1. j \in 1 .. k /\ A + B + j = A + n /\ B + j = n
        BY <1>0, <2>5, <2>7, <3>2
      <4> HIDE DEF j
      <4>2. X[A + n] = u[j] /\ Y[n] = v[j]
        BY <2>9, <2>10, <4>1
      <4>3. /\ u[j] = [mi |-> Len(a) + (Len(b) + 1), ci |-> j, part |-> m.parts[j]]
            /\ v[j].mi = Len(b) + 1 /\ v[j].ci = j /\ v[j].part = m.parts[j]
        <5>1. Len(c) + 1 = Len(a) + (Len(b) + 1)
          BY <1>0, <2>1
        <5>2. u[j] = [mi |-> Len(c) + 1, ci |-> j, part |-> m.parts[j]]
          BY <2>5, <4>1
        <5>3. v[j] = [mi |-> Len(b) + 1, ci |-> j, part |-> m.parts[j]]
          BY <2>6, <4>1
        <5> QED BY <5>1, <5>2, <5>3
      <4> QED BY <4>2, <4>3 DEF Behind
    <3> QED BY <2>5, <2>7, <3>1, <3>2
  <2>13. Sites(a \o d) = X /\ Sites(d) = Y
    BY <2>3, <2>4 DEF X, Y, x, y
  <2>14. Ok(d)
    <3>1. Len(X) = A + Len(Y)
      BY <1>0, <2>5, <2>7, <2>9, <2>10
    <3> QED BY <2>10, <2>12, <2>13, <3>1 DEF A
  <2> QED BY <2>1, <2>14 DEF d
<1> HIDE DEF Good
<1>3. \A b \in Seq(Message) : b \in Good
  BY <1>1, <1>2, SeqInduction
<1> QED BY <1>3 DEF Good

\* Every part of a message of the list has a site.
LEMMA PartSite ==
    ASSUME NEW ms \in Seq(Message), NEW i \in 1 .. Len(ms), NEW j \in 1 .. Len(ms[i].parts)
    PROVE  \E n \in 1 .. Len(Sites(ms)) :
             Sites(ms)[n] = [mi |-> i, ci |-> j, part |-> ms[i].parts[j]]
<1> DEFINE e == <<>>
           a == SubSeq(ms, 1, i - 1)
           b == SubSeq(ms, i + 1, Len(ms)) \o e
           full == Append(a, ms[i]) \o b
           H == Len(Flat(a))
<1>1. e \in Seq(Message) /\ ms \o e = ms
  BY ConcatEmptySeq
<1> HIDE DEF e
<1>2. a \in Seq(Message) /\ Len(a) = i - 1 /\ ms[i] \in Message /\ b \in Seq(Message) /\ ms \o e = full
  BY <1>1, CutAt
<1> HIDE DEF a, b
<1>3. /\ H \in Nat /\ Len(ms[i].parts) \in Nat
      /\ H + Len(ms[i].parts) <= Len(Flat(full))
      /\ Sites(full)[H + j] = [mi |-> Len(a) + 1, ci |-> j, part |-> ms[i].parts[j]]
  BY <1>2, SitesAt
<1>4. full = ms
  BY <1>1, <1>2
<1> HIDE DEF full, H
<1>5. H + j \in 1 .. Len(Sites(ms)) /\ Len(a) + 1 = i
  <2>1. Len(Flat(ms)) = Len(Sites(ms)) /\ Len(Flat(ms)) \in Nat
    BY FlatIs
  <2> QED BY <1>2, <1>3, <1>4, <2>1
<1> QED BY <1>3, <1>4, <1>5

\* A part that renders, and is paired if it is half of an exchange, reaches the model.
LEMMA ReachesAt ==
    ASSUME NEW ms \in Seq(Message), NEW n \in 1 .. Len(Sites(ms)),
           ms[Sites(ms)[n].mi].role # "system",
           Renders(ms[Sites(ms)[n].mi].role, Flat(ms)[n]),
           IsToolPart(Flat(ms)[n]) => n \in Paired(Flat(ms))
    PROVE  \E s \in ToSet(Sites(ms)) : Reaches(ms, s)
<1> DEFINE S == Sites(ms)
           F == Flat(ms)
<1>1. S \in Seq(Site) /\ Len(F) = Len(S) /\ F[n] = S[n].part
  BY FlatIs
<1>2. S[n] \in PairedSites(ms) <=> n \in Paired(F)
  BY <1>1, PairedPlaces
<1>3. S[n] \in ToSet(S)
  BY <1>1 DEF ToSet
<1>4. Reaches(ms, S[n])
  BY <1>1, <1>2 DEF Reaches
<1> QED BY <1>3, <1>4

-----------------------------------------------------------------------------
(* Choosing the calls to reinstate.                                        *)

\* A result of the list that no call before it answers is counted.
LEMMA UnansweredCounted ==
    ASSUME NEW ms \in Seq(Message), NEW s \in ToSet(Sites(ms)), s \notin PairedSites(ms),
           s.part.kind = "result"
    PROVE  UnansweredResults(ms, s.part.id) \in Nat /\ UnansweredResults(ms, s.part.id) > 0
<1> DEFINE S == Sites(ms)
           T == ToSet(S)
           N == Len(S)
           m == [i \in 1 .. N |-> S[i]]
           U == {t \in T \ PairedSites(ms) : t.part.kind = "result" /\ t.part.id = s.part.id}
<1>1. S \in Seq(Site) /\ N \in Nat
  BY FlatIs
<1>2. T = {S[i] : i \in 1 .. N}
  BY <1>1 DEF ToSet
<1> HIDE DEF S, T, N
<1>3. m \in Surjection(1 .. N, T)
  BY <1>2 DEF Surjection
<1> HIDE DEF m
<1>4. IsFiniteSet(1 .. N)
  BY <1>1, FS_Interval
<1>5. IsFiniteSet(T)
  BY <1>3, <1>4, FS_Surjection
<1>6. U \subseteq T /\ s \in U
  BY DEF T, S
<1>7. UnansweredResults(ms, s.part.id) = Cardinality(U)
  BY DEF UnansweredResults, T, S
<1> HIDE DEF U
<1>8. IsFiniteSet(U)
  BY <1>5, <1>6, FS_Subset
<1>9. Cardinality(U) \in Nat
  BY <1>8, FS_CardinalityType
<1>10. Cardinality(U) # 0
  BY <1>6, <1>8, FS_EmptySet
<1> QED BY <1>7, <1>9, <1>10

\* A call of the original is passed over, chosen, or not wanted.
Choice(P, Q) == [supplied : SUBSET P, chosen : SUBSET Q]

Supplies(acc, site) == {c \in acc.supplied : c.part = site.part}
TakenFor(acc, site) == {c \in acc.chosen : c.part.id = site.part.id}

\* What happens to an open call of the original.
LEMMA ChooseCallIs ==
    ASSUME NEW P, NEW Q, NEW pending, NEW acc \in Choice(P, Q), NEW site \in Q
    PROVE  LET new == ChooseCall(pending, acc, site)
           IN  /\ new \in Choice(P, Q) /\ acc.chosen \subseteq new.chosen
               /\ \/ Supplies(acc, site) # {}
                  \/ site \in new.chosen
                  \/ ~ (Cardinality(TakenFor(acc, site)) < UnansweredResults(pending, site.part.id))
<1> DEFINE new == ChooseCall(pending, acc, site)
           c == CHOOSE x \in Supplies(acc, site) : TRUE
           Wanted == Cardinality(TakenFor(acc, site)) < UnansweredResults(pending, site.part.id)
<1>0. /\ acc = [supplied |-> acc.supplied, chosen |-> acc.chosen]
      /\ acc.supplied \in SUBSET P /\ acc.chosen \in SUBSET Q
  BY DEF Choice
<1>1. new = CASE Supplies(acc, site) # {} -> [acc EXCEPT !.supplied = @ \ {c}]
              [] Supplies(acc, site) = {} /\ Wanted -> [acc EXCEPT !.chosen = @ \cup {site}]
              [] OTHER -> acc
  BY DEF ChooseCall, Supplies, TakenFor
<1> HIDE DEF c, Wanted, new
<1>2. CASE Supplies(acc, site) # {}
  <2>1. new = [supplied |-> acc.supplied \ {c}, chosen |-> acc.chosen]
    BY <1>0, <1>1, <1>2
  <2>2. new.supplied = acc.supplied \ {c} /\ new.chosen = acc.chosen
    BY <2>1
  <2>3. new \in Choice(P, Q)
    BY <1>0, <2>1 DEF Choice
  <2> QED BY <1>2, <2>2, <2>3 DEF new
<1>3. CASE Supplies(acc, site) = {} /\ Wanted
  <2>1. new = [supplied |-> acc.supplied, chosen |-> acc.chosen \cup {site}]
    BY <1>0, <1>1, <1>3
  <2>2. new.supplied = acc.supplied /\ new.chosen = acc.chosen \cup {site}
    BY <2>1
  <2>3. new \in Choice(P, Q)
    BY <1>0, <2>1 DEF Choice
  <2> QED BY <2>2, <2>3 DEF new
<1>4. CASE Supplies(acc, site) = {} /\ ~Wanted
  BY <1>1, <1>4 DEF new, Wanted
<1> QED BY <1>2, <1>3, <1>4

\* One step of choosing, at the n-th part of the original from the end.
ChooseAt(original, pending, acc, n) ==
    LET site == Sites(original)[Len(Sites(original)) - n + 1]
    IN  IF site \in PairToolExchanges(original).open THEN ChooseCall(pending, acc, site) ELSE acc

\* A step only adds to what is chosen.
LEMMA ChooseAtIs ==
    ASSUME NEW original, NEW P, NEW pending,
           NEW acc \in Choice(P, PairToolExchanges(original).open), NEW n
    PROVE  /\ ChooseAt(original, pending, acc, n) \in Choice(P, PairToolExchanges(original).open)
           /\ acc.chosen \subseteq ChooseAt(original, pending, acc, n).chosen
<1> DEFINE site == Sites(original)[Len(Sites(original)) - n + 1]
           Q == PairToolExchanges(original).open
           new == ChooseCall(pending, acc, site)
<1>1. ChooseAt(original, pending, acc, n) = IF site \in Q THEN new ELSE acc
  BY DEF ChooseAt
<1> HIDE DEF site
<1>2. site \in Q => new \in Choice(P, Q) /\ acc.chosen \subseteq new.chosen
  <2> HIDE DEF Q
  <2> QED BY ChooseCallIs DEF Q
<1> QED BY <1>1, <1>2

\* What has been chosen after each part of the original, newest first.
ChoiceRun(f, original, es, pending) ==
    LET N == Len(Sites(original))
    IN  /\ N \in Nat
        /\ ChosenCalls(original, es, pending) = f[N].chosen
        /\ f[0] = [supplied |-> PairToolExchanges(Messages(es)).open, chosen |-> {}]
        /\ \A n \in 0 .. N : f[n] \in Choice(PairToolExchanges(Messages(es)).open,
                                            PairToolExchanges(original).open)
        /\ \A n \in 1 .. N : f[n] = ChooseAt(original, pending, f[n - 1], n)
        /\ \A n \in 0 .. N : f[n].chosen \subseteq f[N].chosen

\* Choosing is a run over the parts of the original, newest first.
LEMMA ChoiceRunExists ==
    ASSUME NEW original \in Seq(Message), NEW es, NEW pending
    PROVE  \E f : ChoiceRun(f, original, es, pending)
<1> DEFINE sites == Sites(original)
           N == Len(sites)
           P == PairToolExchanges(Messages(es)).open
           Q == PairToolExchanges(original).open
           W == Choice(P, Q)
           b == [supplied |-> P, chosen |-> {}]
           G == [n \in 1 .. N |-> [x \in W |-> ChooseAt(original, pending, x, n)]]
           At(h, n) == LET site == sites[N - n + 1]
                       IN  IF site \in Q THEN ChooseCall(pending, h[n - 1], site) ELSE h[n - 1]
           Is(h) == h = [n \in 0 .. N |-> IF n = 0 THEN b ELSE At(h, n)]
           c == CHOOSE h : Is(h)
<1>0. N \in Nat
  <2>1. sites \in Seq(Site)
    BY FlatIs
  <2> QED BY <2>1
<1>1. b \in W
  BY DEF Choice
<1>2. \A n \in 1 .. N : \A x \in W : ChooseAt(original, pending, x, n) \in W
  BY ChooseAtIs
<1>3. G \in [1 .. N -> [W -> W]]
  <2> HIDE DEF W, N
  <2> QED BY <1>2
<1>4. \A n \in 1 .. N : \A x \in W : G[n][x] = ChooseAt(original, pending, x, n)
  OBVIOUS
<1>5. PICK f : f \in [0 .. N -> W] /\ f[0] = b /\ \A n \in 1 .. N : f[n] = G[n][f[n - 1]]
  <2>1. Steps(G, W, N)
    BY <1>3 DEF Steps
  <2> HIDE DEF G, W, b, Is, c, N
  <2>2. \E f : Runs(f, G, W, N, b)
    BY <1>0, <1>1, <2>1, RunExists
  <2> QED BY <2>2 DEF Runs
<1> HIDE DEF G, W
<1>6. \A h : \A n : At(h, n) = ChooseAt(original, pending, h[n - 1], n)
  BY DEF ChooseAt
<1>7. ChosenCalls(original, es, pending) = c[N].chosen
  BY DEF ChosenCalls
<1> HIDE DEF At, P, Q, N, b
<1>8. \A n \in 1 .. N : f[n] = At(f, n)
  <2> TAKE n \in 1 .. N
  <2>1. n - 1 \in 0 .. N
    BY <1>0
  <2>2. f[n - 1] \in W
    BY <1>5, <2>1
  <2> QED BY <1>4, <1>5, <1>6, <2>2
<1>9. Is(f)
  <2> DEFINE r == [n \in 0 .. N |-> IF n = 0 THEN b ELSE At(f, n)]
  <2>1. \A n \in 0 .. N : n = 0 \/ n \in 1 .. N
    BY <1>0
  <2>2. \A n \in 0 .. N : r[n] = f[n]
    BY <1>5, <1>8, <2>1
  <2> QED BY <1>5, <2>2
<1>10. Is(c)
  <2> HIDE DEF Is
  <2> QED BY <1>9
<1> HIDE DEF c
<1>11. c[0] = b /\ \A n \in 1 .. N : c[n] = ChooseAt(original, pending, c[n - 1], n)
  <2>1. 0 \in 0 .. N /\ \A n \in 1 .. N : n \in 0 .. N /\ n # 0
    BY <1>0
  <2> QED BY <1>6, <1>10, <2>1
<1>12. \A n \in 0 .. N : c[n] \in W
  <2>1. c[0] \in W
    BY <1>1, <1>11
  <2>2. \A n \in 1 .. N : c[n - 1] \in W => c[n] \in W
    BY <1>2, <1>11
  <2> HIDE DEF Is
  <2> QED BY <1>0, <2>1, <2>2, Typed
<1>13. \A n \in 1 .. N : c[n - 1].chosen \subseteq c[n].chosen
  <2> TAKE n \in 1 .. N
  <2>1. n - 1 \in 0 .. N
    BY <1>0
  <2>2. c[n - 1] \in Choice(P, Q)
    BY <1>12, <2>1 DEF W
  <2> HIDE DEF Is
  <2>3. c[n - 1].chosen \subseteq ChooseAt(original, pending, c[n - 1], n).chosen
    BY <2>2, ChooseAtIs DEF Q
  <2> QED BY <1>11, <2>3
<1> DEFINE Less == {d \in 0 .. N : c[N - d].chosen \subseteq c[N].chosen}
<1>14. 0 \in Less
  BY <1>0
<1>15. ASSUME NEW d \in 0 .. N - 1, d \in Less PROVE d + 1 \in Less
  <2> DEFINE n == N - d
  <2>1. n \in 1 .. N /\ n - 1 = N - (d + 1) /\ d + 1 \in 0 .. N
    BY <1>0
  <2>2. c[n - 1].chosen \subseteq c[n].chosen
    BY <1>13, <2>1
  <2> QED BY <1>15, <2>1, <2>2
<1>16. \A d \in 0 .. N : d \in Less
  <2> HIDE DEF Less
  <2> QED BY <1>0, <1>14, <1>15, Upto
<1>17. \A n \in 0 .. N : c[n].chosen \subseteq c[N].chosen
  <2> TAKE n \in 0 .. N
  <2>1. N - n \in 0 .. N /\ N - (N - n) = n
    BY <1>0
  <2>2. N - n \in Less
    BY <1>16, <2>1
  <2> QED BY <2>1, <2>2
<1>18. ChoiceRun(c, original, es, pending)
  <2> HIDE DEF Is
  <2> QED BY <1>0, <1>7, <1>11, <1>12, <1>17 DEF ChoiceRun, N, P, Q, W, b
<1> QED BY <1>18

\* A call with this id that es holds is open, or one of the original is chosen.
Provided(original, es, pending, id) ==
    \/ \E c \in PairToolExchanges(Messages(es)).open : c.part.id = id
    \/ \E c \in ChosenCalls(original, es, pending) : c.part.id = id

\* An open call of the original with an id that results of the input wait for:
\* what was kept has an open call with this id, or one is chosen.
LEMMA CallProvided ==
    ASSUME NEW original \in Seq(Message), NEW es, NEW pending,
           NEW s \in PairToolExchanges(original).open, s \in ToSet(Sites(original)),
           UnansweredResults(pending, s.part.id) \in Nat,
           UnansweredResults(pending, s.part.id) > 0
    PROVE  Provided(original, es, pending, s.part.id)
<1> DEFINE N == Len(Sites(original))
           P == PairToolExchanges(Messages(es)).open
           Q == PairToolExchanges(original).open
<1>1. PICK f : ChoiceRun(f, original, es, pending)
  BY ChoiceRunExists
<1>2. /\ N \in Nat /\ ChosenCalls(original, es, pending) = f[N].chosen
      /\ \A n \in 0 .. N : f[n] \in Choice(P, Q) /\ f[n].chosen \subseteq f[N].chosen
      /\ \A n \in 1 .. N : f[n] = ChooseAt(original, pending, f[n - 1], n)
  BY <1>1 DEF ChoiceRun
<1>3. PICK i \in 1 .. N : Sites(original)[i] = s
  <2>1. Sites(original) \in Seq(Site)
    BY FlatIs
  <2> QED BY <2>1 DEF ToSet
<1> DEFINE n == N - i + 1
           a == f[n - 1]
           new == ChooseCall(pending, a, s)
<1>4. n \in 1 .. N /\ n \in 0 .. N /\ n - 1 \in 0 .. N /\ N - n + 1 = i
  BY <1>2
<1>5. f[n] = new
  <2>1. f[n] = ChooseAt(original, pending, a, n)
    BY <1>2, <1>4
  <2>2. Sites(original)[Len(Sites(original)) - n + 1] = s
    BY <1>3, <1>4
  <2> HIDE DEF n, a, N
  <2> QED BY <2>1, <2>2 DEF ChooseAt
<1>6. a \in Choice(P, Q) /\ s \in Q
  BY <1>2, <1>4
<1> HIDE DEF n, a, N, P, Q
<1>7. \/ Supplies(a, s) # {}
      \/ s \in new.chosen
      \/ ~ (Cardinality(TakenFor(a, s)) < UnansweredResults(pending, s.part.id))
  BY <1>6, ChooseCallIs
<1> HIDE DEF new
<1>8. f[n].chosen \subseteq f[N].chosen /\ a.chosen \subseteq f[N].chosen
  BY <1>2, <1>4 DEF a
<1>9. CASE Supplies(a, s) # {}
  <2>1. PICK c \in a.supplied : c.part = s.part
    BY <1>9 DEF Supplies
  <2>2. c \in P
    BY <1>6 DEF Choice
  <2> QED BY <2>1, <2>2 DEF P, Provided
<1>10. CASE s \in new.chosen
  BY <1>2, <1>5, <1>8, <1>10 DEF Provided
<1>11. CASE ~ (Cardinality(TakenFor(a, s)) < UnansweredResults(pending, s.part.id))
  <2>1. TakenFor(a, s) # {}
    BY <1>11, FS_EmptySet
  <2>2. PICK c \in a.chosen : c.part.id = s.part.id
    BY <2>1 DEF TakenFor
  <2> QED BY <1>2, <1>8, <2>2 DEF Provided
<1> QED BY <1>7, <1>9, <1>10, <1>11

-----------------------------------------------------------------------------
(* Reinstating them.                                                       *)

\* The calls left open, and their places.
LEMMA OpenSites ==
    ASSUME NEW ms \in Seq(Message)
    PROVE  /\ \A o \in PairParts(Flat(ms)).open :
                /\ o \in 1 .. Len(Flat(ms)) /\ Flat(ms)[o].kind = "call"
                /\ Sites(ms)[o].part = Flat(ms)[o]
                /\ Sites(ms)[o] \in PairToolExchanges(ms).open /\ Sites(ms)[o] \in ToSet(Sites(ms))
           /\ \A c \in PairToolExchanges(ms).open :
                \E o \in PairParts(Flat(ms)).open : c = Sites(ms)[o]
<1> DEFINE S == Sites(ms)
           F == Flat(ms)
           open == PairParts(F).open
<1>1. S \in Seq(Site) /\ Len(F) = Len(S) /\ Len(F) \in Nat /\ \A n \in 1 .. Len(S) : F[n] = S[n].part
  BY FlatIs
<1>2. PairToolExchanges(ms).open = {S[n] : n \in open}
  BY DEF PairToolExchanges, PairSites, Flat
<1>3. PairParts(F) \in PairState(Len(F)) /\ PairInv(F, PairParts(F), Len(F))
  BY <1>1, PairsAre
<1>4. \A o \in open : o \in 1 .. Len(F) /\ F[o].kind = "call"
  BY <1>3 DEF PairState, PairInv
<1>5. ToSet(S) = {S[n] : n \in 1 .. Len(S)}
  BY <1>1 DEF ToSet
<1> HIDE DEF S, F, open
<1>6. \A o \in open : F[o] = S[o].part /\ S[o] \in PairToolExchanges(ms).open /\ S[o] \in ToSet(S)
  BY <1>1, <1>2, <1>4, <1>5
<1>7. \A c \in PairToolExchanges(ms).open : \E o \in open : c = S[o]
  BY <1>2
<1> QED BY <1>4, <1>6, <1>7 DEF S, F, open

\* The messages that reinstate chosen calls hold these calls, and nothing else.
Reduced(original, chosen, i) ==
    [msg |-> ReducedTo(original[i], {c.ci : c \in {d \in chosen : d.mi = i}}), origin |-> i]
Reinstated(original, chosen) ==
    Pick([i \in DOMAIN original |-> Reduced(original, chosen, i)], {c.mi : c \in chosen})

\* Every chosen call is in them, and no other part.
LEMMA ReinstatedParts ==
    ASSUME NEW original \in Seq(Message), NEW chosen,
           \A c \in chosen : /\ c.mi \in 1 .. Len(original)
                             /\ c.ci \in 1 .. Len(original[c.mi].parts)
                             /\ c.part = original[c.mi].parts[c.ci]
    PROVE  LET new == Reinstated(original, chosen)
               y == Flat(Messages(new))
           IN  /\ new \in Seq(Entry)
               /\ \A j \in 1 .. Len(y) : \E c \in chosen : y[j] = c.part
               /\ \A c \in chosen : \E j \in 1 .. Len(y) : y[j] = c.part
<1> DEFINE N == Len(original)
           K(i) == {c.ci : c \in {d \in chosen : d.mi = i}}
           J == {c.mi : c \in chosen}
           s == [i \in DOMAIN original |-> Reduced(original, chosen, i)]
           new == Reinstated(original, chosen)
           ms == Messages(new)
           y == Flat(ms)
<1>1. N \in Nat /\ DOMAIN original = 1 .. N
  OBVIOUS
<1>2. \A i \in 1 .. N : /\ Reduced(original, chosen, i) \in Entry
                        /\ Reduced(original, chosen, i).msg.parts = Pick(original[i].parts, K(i))
  <2> TAKE i \in 1 .. N
  <2> DEFINE m == ReducedTo(original[i], K(i))
             e == [msg |-> m, origin |-> i]
  <2>1. original[i] \in Message /\ i \in Nat
    BY <1>1
  <2>2. Reduced(original, chosen, i) = e
    BY DEF Reduced
  <2> HIDE DEF K
  <2>3. m \in Message /\ m.parts = Pick(original[i].parts, K(i))
    BY <2>1, ReducedIs
  <2> HIDE DEF m
  <2>4. e \in Entry /\ e.msg = m
    BY <2>1, <2>3 DEF Entry
  <2> QED BY <2>2, <2>3, <2>4
<1>3. s \in Seq(Entry) /\ Len(s) = N /\ \A i \in 1 .. N : s[i] = Reduced(original, chosen, i)
  <2> DEFINE e(i) == Reduced(original, chosen, i)
  <2> HIDE DEF e, N
  <2>1. \A i \in 1 .. N : e(i) \in Entry
    BY <1>2 DEF e
  <2>2. [i \in 1 .. N |-> e(i)] \in Seq(Entry) /\ Len([i \in 1 .. N |-> e(i)]) = N
    BY <1>1, <2>1
  <2>3. s = [i \in 1 .. N |-> e(i)]
    BY <1>1 DEF e
  <2> QED BY <2>2, <2>3 DEF e
<1>4. new = Pick(s, J)
  BY DEF Reinstated
<1> HIDE DEF s, J, new, N
<1>5. new \in Seq(Entry) /\ \E g : Thinned(g, new, s, N, J)
  BY <1>3, <1>4, PickThinned
<1>6. PICK g : Thinned(g, new, s, N, J)
  BY <1>5
<1>7. /\ \A k \in 1 .. Len(new) : g[k] \in 1 .. N /\ g[k] \in J /\ new[k] = s[g[k]]
      /\ \A i \in 1 .. N : i \in J => \E k \in 1 .. Len(new) : g[k] = i
  BY <1>6 DEF Thinned
<1>8. ms \in Seq(Message) /\ Len(ms) = Len(new) /\ \A k \in 1 .. Len(new) : ms[k] = new[k].msg
  BY <1>5, MessagesIs
<1>9. \A k \in 1 .. Len(ms) : ms[k].parts = Pick(original[g[k]].parts, K(g[k]))
  <2> TAKE k \in 1 .. Len(ms)
  <2> HIDE DEF K
  <2>1. k \in 1 .. Len(new) /\ g[k] \in 1 .. N
    BY <1>7, <1>8
  <2>2. ms[k] = Reduced(original, chosen, g[k]).msg
    BY <1>3, <1>7, <1>8, <2>1
  <2> QED BY <1>2, <2>1, <2>2
<1>10. \A i \in 1 .. N : LET q == Pick(original[i].parts, K(i))
                         IN  \E h : Thinned(h, q, original[i].parts, Len(original[i].parts), K(i))
  <2> TAKE i \in 1 .. N
  <2>0. original[i] \in Message
    BY DEF N
  <2>1. original[i].parts \in Seq(Part)
    BY <2>0 DEF Message
  <2> HIDE DEF K
  <2> QED BY <2>1, PickThinned
<1> HIDE DEF ms
<1>11. Len(y) = Len(Sites(ms)) /\ \A n \in 1 .. Len(Sites(ms)) : y[n] = Sites(ms)[n].part
  BY <1>8, FlatIs
<1> HIDE DEF y
<1>12. ASSUME NEW n \in 1 .. Len(y) PROVE \E c \in chosen : y[n] = c.part
  <2> DEFINE k == Sites(ms)[n].mi
             l == Sites(ms)[n].ci
  <2>1. /\ k \in 1 .. Len(ms) /\ l \in 1 .. Len(ms[k].parts)
        /\ Sites(ms)[n].part = ms[k].parts[l]
    BY <1>8, <1>11, SitesOrder
  <2>2. y[n] = ms[k].parts[l]
    BY <1>11, <2>1
  <2> HIDE DEF k, l
  <2> DEFINE i == g[k]
             q == Pick(original[i].parts, K(i))
  <2>3. i \in 1 .. N /\ ms[k].parts = q
    BY <1>7, <1>8, <1>9, <2>1
  <2> HIDE DEF i
  <2>4. PICK h : Thinned(h, q, original[i].parts, Len(original[i].parts), K(i))
    BY <1>10, <2>3
  <2> HIDE DEF q
  <2>5. h[l] \in 1 .. Len(original[i].parts) /\ h[l] \in K(i) /\ q[l] = original[i].parts[h[l]]
    BY <2>1, <2>3, <2>4 DEF Thinned
  <2>6. PICK c \in chosen : c.mi = i /\ c.ci = h[l]
    BY <2>5
  <2> QED BY <2>2, <2>3, <2>5, <2>6
<1>13. ASSUME NEW c \in chosen PROVE \E n \in 1 .. Len(y) : y[n] = c.part
  <2> DEFINE i == c.mi
  <2>1. i \in 1 .. N /\ i \in J /\ c.ci \in K(i) /\ c.ci \in 1 .. Len(original[i].parts)
        /\ c.part = original[i].parts[c.ci]
    BY DEF J, N
  <2>2. PICK k \in 1 .. Len(new) : g[k] = i
    BY <1>7, <2>1
  <2> DEFINE q == Pick(original[i].parts, K(i))
  <2>3. k \in 1 .. Len(ms) /\ ms[k].parts = q
    <3>1. k \in 1 .. Len(ms)
      BY <1>8
    <3>2. ms[k].parts = Pick(original[g[k]].parts, K(g[k]))
      <4> HIDE DEF K
      <4> QED BY <1>9, <3>1
    <3> QED BY <2>2, <3>1, <3>2
  <2>4. PICK h : Thinned(h, q, original[i].parts, Len(original[i].parts), K(i))
    BY <1>10, <2>1
  <2> HIDE DEF q, i
  <2>5. PICK l \in 1 .. Len(q) : h[l] = c.ci
    <3> HIDE DEF K
    <3> QED BY <2>1, <2>4 DEF Thinned
  <2>6. q[l] = c.part
    BY <2>1, <2>4, <2>5 DEF Thinned
  <2>7. l \in 1 .. Len(ms[k].parts) /\ ms[k].parts[l] = c.part
    BY <2>3, <2>6
  <2>8. PICK n \in 1 .. Len(Sites(ms)) :
          Sites(ms)[n] = [mi |-> k, ci |-> l, part |-> ms[k].parts[l]]
    BY <1>8, <2>3, <2>7, PartSite
  <2> QED BY <1>11, <2>7, <2>8
<1> QED BY <1>5, <1>12, <1>13 DEF y, ms, new

\* When an open call with an id is kept or chosen, one is open after reinstating.
LEMMA ReinstatedOpen ==
    ASSUME NEW original \in Seq(Message), NEW es \in Seq(Entry), NEW pending, NEW id,
           Provided(original, es, pending, id)
    PROVE  LET F == Flat(Messages(ReinstateCallsAnsweredByPending(original, es, pending)))
           IN  \E o \in PairParts(F).open : F[o].id = id
<1> DEFINE chosen == ChosenCalls(original, es, pending)
           new == Reinstated(original, chosen)
           es1 == ReinstateCallsAnsweredByPending(original, es, pending)
           x == Flat(Messages(es))
           y == Flat(Messages(new))
<1>1. es1 = es \o new
  BY DEF ReinstateCallsAnsweredByPending, Reinstated, Reduced
<1>2. chosen \subseteq PairToolExchanges(original).open
  <2>1. PICK f : ChoiceRun(f, original, es, pending)
    BY ChoiceRunExists
  <2> DEFINE N == Len(Sites(original))
  <2>2. N \in Nat /\ chosen = f[N].chosen
        /\ \A n \in 0 .. N : f[n] \in Choice(PairToolExchanges(Messages(es)).open,
                                            PairToolExchanges(original).open)
    BY <2>1 DEF ChoiceRun
  <2>3. N \in 0 .. N
    BY <2>2
  <2> HIDE DEF N
  <2> QED BY <2>2, <2>3 DEF Choice
<1> HIDE DEF chosen
<1>3. \A c \in chosen : /\ c.mi \in 1 .. Len(original)
                        /\ c.ci \in 1 .. Len(original[c.mi].parts)
                        /\ c.part = original[c.mi].parts[c.ci]
                        /\ c.part.kind = "call"
  <2> TAKE c \in chosen
  <2>1. PICK o \in PairParts(Flat(original)).open : c = Sites(original)[o]
    BY <1>2, OpenSites
  <2>2. o \in 1 .. Len(Flat(original)) /\ Flat(original)[o].kind = "call"
        /\ Sites(original)[o].part = Flat(original)[o]
    BY OpenSites
  <2>3. o \in 1 .. Len(Sites(original))
    BY <2>2, FlatIs
  <2> QED BY <2>1, <2>2, <2>3, SitesOrder
<1>4. /\ new \in Seq(Entry)
      /\ \A j \in 1 .. Len(y) : \E c \in chosen : y[j] = c.part
      /\ \A c \in chosen : \E j \in 1 .. Len(y) : y[j] = c.part
  BY <1>3, ReinstatedParts
<1> HIDE DEF new
<1>5. Messages(es) \in Seq(Message) /\ Messages(new) \in Seq(Message)
      /\ Messages(es1) = Messages(es) \o Messages(new)
  BY <1>1, <1>4, MessagesIs, MessagesConcat
<1>6. x \in Seq(Part) /\ y \in Seq(Part) /\ Flat(Messages(es1)) = x \o y
  BY <1>5, FlatIs, FlatConcat
<1> HIDE DEF es1
<1>7. \A j \in 1 .. Len(y) : y[j].kind = "call"
  BY <1>3, <1>4
<1>8. \A c \in PairToolExchanges(Messages(es)).open :
        \E o \in PairParts(x).open : o \in 1 .. Len(x) /\ x[o] = c.part
  <2> DEFINE ms == Messages(es)
  <2>0. ms \in Seq(Message)
    BY <1>5
  <2> HIDE DEF ms
  <2>1. \A c \in PairToolExchanges(ms).open :
          \E o \in PairParts(Flat(ms)).open : o \in 1 .. Len(Flat(ms)) /\ Flat(ms)[o] = c.part
    <3> TAKE c \in PairToolExchanges(ms).open
    <3>1. PICK o \in PairParts(Flat(ms)).open : c = Sites(ms)[o]
      BY <2>0, OpenSites
    <3>2. o \in 1 .. Len(Flat(ms)) /\ Sites(ms)[o].part = Flat(ms)[o]
      BY <2>0, OpenSites
    <3> QED BY <3>1, <3>2
  <2> QED BY <2>1 DEF ms
<1> HIDE DEF x, y
<1>9. /\ PairParts(x).open \subseteq PairParts(x \o y).open
      /\ \A j \in 1 .. Len(y) : Len(x) + j \in PairParts(x \o y).open
  BY <1>6, <1>7, CallsBehind
<1>10. /\ \A i \in 1 .. Len(x) : (x \o y)[i] = x[i]
       /\ \A j \in 1 .. Len(y) : (x \o y)[Len(x) + j] = y[j]
  BY <1>6, BehindIs
<1>11. CASE \E c \in PairToolExchanges(Messages(es)).open : c.part.id = id
  <2>1. PICK c \in PairToolExchanges(Messages(es)).open : c.part.id = id
    BY <1>11
  <2>2. PICK o \in PairParts(x).open : o \in 1 .. Len(x) /\ x[o] = c.part
    BY <1>8
  <2> QED BY <1>6, <1>9, <1>10, <2>1, <2>2 DEF es1
<1>12. CASE \E c \in chosen : c.part.id = id
  <2>1. PICK c \in chosen : c.part.id = id
    BY <1>12
  <2>2. PICK j \in 1 .. Len(y) : y[j] = c.part
    BY <1>4
  <2> QED BY <1>6, <1>9, <1>10, <2>1, <2>2 DEF es1
<1> QED BY <1>11, <1>12 DEF chosen, Provided

-----------------------------------------------------------------------------
(* Ensuring that something renders.                                        *)

\* A list without a latest complete exchange has no call with a result behind.
LEMMA NoExchange ==
    ASSUME NEW original \in Seq(Message), LatestCompleteToolExchange(original) = <<>>,
           NEW m \in 1 .. Len(Sites(original)), NEW n \in 1 .. Len(Sites(original)), m < n,
           Exchanged(original, Sites(original)[m], Sites(original)[n])
    PROVE  FALSE
<1> DEFINE S == Sites(original)
           J == {k \in DOMAIN Sites(original) :
                         original[Sites(original)[k].mi].role # "system"}
           sites == Pick(Sites(original), J)
           pp == [k \in DOMAIN sites |-> sites[k].part]
           pairs == PairParts(pp).pairs
           latest == CHOOSE p \in pairs : \A q \in pairs : q.result <= p.result
           call == sites[latest.call]
           result == sites[latest.result]
           Half(mi, K) == [msg |-> ReducedTo(original[mi], K), origin |-> mi]
           e1 == Half(call.mi, {call.ci, result.ci})
           e2 == Half(call.mi, {call.ci})
           e3 == Half(result.mi, {result.ci})
           x == LatestCompleteToolExchange(original)
<1>1. x = CASE pairs = {} -> <<>>
            [] pairs # {} /\ call.mi = result.mi -> <<e1>>
            [] pairs # {} /\ call.mi # result.mi -> <<e2, e3>>
  BY DEF LatestCompleteToolExchange
<1>2. S \in Seq(Site) /\ DOMAIN S = 1 .. Len(S)
  BY FlatIs
<1>3. sites \in Seq(Site) /\ \E g : Thinned(g, sites, S, Len(S), J)
  <2> HIDE DEF J
  <2> QED BY <1>2, PickThinned
<1>4. m \in J /\ n \in J
  BY <1>2 DEF Exchanged
<1>5. S[m].part.kind = "call" /\ S[n].part.kind = "result" /\ S[m].part.id = S[n].part.id
  BY DEF Exchanged
<1> HIDE DEF S, J, sites, x
<1>6. PICK g : Thinned(g, sites, S, Len(S), J)
  BY <1>3
<1>7. /\ \A i \in 1 .. Len(sites) : g[i] \in 1 .. Len(S) /\ sites[i] = S[g[i]]
      /\ \A i, j \in 1 .. Len(sites) : i < j => g[i] < g[j]
      /\ \A k \in 1 .. Len(S) : k \in J => \E i \in 1 .. Len(sites) : g[i] = k
  BY <1>6 DEF Thinned
<1>8. Len(pp) = Len(sites) /\ Len(pp) \in Nat /\ \A i \in 1 .. Len(sites) : pp[i] = sites[i].part
  BY <1>3
<1> HIDE DEF pp
<1>9. PICK i \in 1 .. Len(sites) : g[i] = m
  BY <1>4, <1>7 DEF S
<1>10. PICK j \in 1 .. Len(sites) : g[j] = n
  BY <1>4, <1>7 DEF S
<1>11. i < j
  <2>1. CASE i = j
    BY <1>9, <1>10, <2>1
  <2>2. CASE j < i
    <3>1. g[j] < g[i]
      BY <1>7, <2>2
    <3> QED BY <1>9, <1>10, <3>1
  <2> QED BY <2>1, <2>2
<1>12. pp[i].kind = "call" /\ pp[j].kind = "result" /\ pp[j].id = pp[i].id
  <2>1. sites[i] = S[m] /\ sites[j] = S[n]
    BY <1>7, <1>9, <1>10
  <2>2. pp[i] = sites[i].part /\ pp[j] = sites[j].part
    BY <1>8
  <2> QED BY <1>5, <2>1, <2>2
<1>13. \E p \in pairs : p.call >= i
  <2>1. i \in 1 .. Len(pp) /\ j \in i + 1 .. Len(pp)
    BY <1>8, <1>11
  <2> QED BY <1>8, <1>12, <2>1, PairBehind
<1> HIDE DEF pairs, call, result
<1>14. x = <<e1>> \/ x = <<e2, e3>>
  BY <1>1, <1>13
<1> HIDE DEF e1, e2, e3
<1>15. x # <<>>
  <2>1. <<e1>> # <<>> /\ <<e2, e3>> # <<>>
    OBVIOUS
  <2> QED BY <1>14, <2>1
<1> QED BY <1>15 DEF x

\* What is put into a list is in it.
LEMMA InsertedIs ==
    ASSUME NEW es \in Seq(Entry), NEW new \in Seq(Entry), Len(new) >= 1, NEW p \in 1 .. Len(es) + 1
    PROVE  LET r == SubSeq(es, 1, p - 1) \o new \o SubSeq(es, p, Len(es))
           IN  \E i \in 1 .. Len(r) : r[i] = new[1]
<1> DEFINE u == SubSeq(es, 1, p - 1)
           v == SubSeq(es, p, Len(es))
           t == u \o new
<1>1. u \in Seq(Entry) /\ v \in Seq(Entry)
  BY CutSeq
<1> HIDE DEF u, v
<1>2. /\ t \in Seq(Entry) /\ Len(t) = Len(u) + Len(new) /\ Len(u) \in Nat /\ Len(new) \in Nat
      /\ \A j \in 1 .. Len(new) : t[Len(u) + j] = new[j]
  BY <1>1, BehindIs
<1> HIDE DEF t
<1>3. /\ Len(t \o v) = Len(t) + Len(v) /\ Len(v) \in Nat
      /\ \A i \in 1 .. Len(t) : (t \o v)[i] = t[i]
  <2>1. t \in Seq(Entry) /\ v \in Seq(Entry)
    BY <1>1, <1>2
  <2> QED BY <2>1, BehindIs
<1>4. 1 \in 1 .. Len(new) /\ Len(u) + 1 \in 1 .. Len(t) /\ Len(u) + 1 \in 1 .. Len(t \o v)
  BY <1>2, <1>3
<1>5. (t \o v)[Len(u) + 1] = new[1]
  BY <1>2, <1>3, <1>4
<1> QED BY <1>4, <1>5 DEF t, u, v

\* After ensuring that something renders, something does, if the original has
\* something to react to.
LEMMA EnsureRenders ==
    ASSUME NEW original \in Seq(Message), NEW es \in Seq(Entry), Answerable(original)
    PROVE  LET r == EnsureNonSystemMessage(original, es)
           IN  \E i \in 1 .. Len(r) : MessageRenders(r[i].msg)
<1> DEFINE renders == \E i \in DOMAIN es : MessageRenders(es[i].msg)
           I == {i \in 1 .. Len(original) : /\ original[i].role \notin {"system", "tool"}
                                            /\ Plain(original[i]).parts # <<>>}
           plain == SelectLastInSeq(original,
                   LAMBDA m : m.role \notin {"system", "tool"} /\ Plain(m).parts # <<>>)
           exchange == LatestCompleteToolExchange(original)
           Insert(new) == SubSeq(es, 1, ChronologicalPosition(es, new[1].origin) - 1) \o new
                            \o SubSeq(es, ChronologicalPosition(es, new[1].origin), Len(es))
           new1 == <<[msg |-> Plain(original[plain]), origin |-> plain]>>
           r == EnsureNonSystemMessage(original, es)
           Ok(q) == \E i \in 1 .. Len(q) : MessageRenders(q[i].msg)
<1>1. r = CASE renders -> es
            [] ~renders /\ plain # 0 -> Insert(new1)
            [] ~renders /\ plain = 0 /\ exchange # <<>> -> Insert(exchange)
            [] OTHER -> es
  BY DEF EnsureNonSystemMessage
<1>2. plain = IF I # {} THEN Max(I) ELSE 0
  BY DEF SelectLastInSeq
<1>3. I # {} => plain \in I /\ plain \in 1 .. Len(original)
  <2> DEFINE l == Len(original)
  <2>1. I \in SUBSET (0 .. l) /\ l \in Nat /\ \A i \in I : i \in 1 .. l
    OBVIOUS
  <2> HIDE DEF I, l, plain
  <2>2. I # {} => Max(I) \in I
    BY <2>1, MaxOf
  <2> QED BY <1>2, <2>1, <2>2 DEF l
<1>4. plain # 0 => I # {}
  BY <1>2
<1>5. renders => Ok(es)
  <2>1. DOMAIN es = 1 .. Len(es)
    OBVIOUS
  <2> QED BY <2>1
<1>6. \A i \in I : /\ original[i] \in Message /\ original[i].role # "system"
                   /\ Plain(original[i]).parts # <<>>
  OBVIOUS
<1>7. plain # 0 \/ exchange # <<>>
  <2> SUFFICES ASSUME plain = 0, exchange = <<>> PROVE FALSE
    OBVIOUS
  <2>1. I = {}
    <3> HIDE DEF I, plain, exchange
    <3> QED BY <1>3
  <2>2. ~ \E i \in DOMAIN original : /\ original[i].role \notin {"system", "tool"}
                                     /\ Plain(original[i]).parts # <<>>
    <3>1. DOMAIN original = 1 .. Len(original)
      OBVIOUS
    <3> QED BY <2>1, <3>1
  <2>3. PICK m, n \in DOMAIN Sites(original) :
          m < n /\ Exchanged(original, Sites(original)[m], Sites(original)[n])
    <3> HIDE DEF I, plain, exchange, renders
    <3> QED BY <2>2 DEF Answerable
  <2>4. DOMAIN Sites(original) = 1 .. Len(Sites(original))
    <3>1. Sites(original) \in Seq(Site)
      BY FlatIs
    <3> QED BY <3>1
  <2> QED BY <2>3, <2>4, NoExchange
<1> HIDE DEF plain, exchange, renders, I
<1>8. ASSUME NEW new \in Seq(Entry), Len(new) >= 1, MessageRenders(new[1].msg)
      PROVE  Ok(Insert(new))
  <2> DEFINE p == ChronologicalPosition(es, new[1].origin)
  <2>1. p \in 1 .. Len(es) + 1
    BY PositionIs
  <2> HIDE DEF p
  <2>2. LET x == SubSeq(es, 1, p - 1) \o new \o SubSeq(es, p, Len(es))
        IN  \E i \in 1 .. Len(x) : x[i] = new[1]
    BY <1>8, <2>1, InsertedIs
  <2> QED BY <1>8, <2>2 DEF p
<1>9. ASSUME plain # 0 PROVE new1 \in Seq(Entry) /\ Len(new1) >= 1 /\ MessageRenders(new1[1].msg)
  <2> DEFINE m == Plain(original[plain])
             e == [msg |-> m, origin |-> plain]
             role == original[plain].role
  <2>1. /\ original[plain] \in Message /\ plain \in Nat /\ role # "system"
        /\ m.parts # <<>>
    BY <1>3, <1>4, <1>6, <1>9
  <2>2. m \in Message /\ m.role = role /\ \A n \in 1 .. Len(m.parts) : Renders(role, m.parts[n])
    BY <2>1, PlainIs
  <2> HIDE DEF m, role
  <2>3. m.parts \in Seq(Part)
    BY <2>2 DEF Message
  <2>4. DOMAIN m.parts = 1 .. Len(m.parts) /\ 1 \in 1 .. Len(m.parts)
    BY <2>1, <2>3
  <2>5. MessageRenders(m)
    BY <2>1, <2>2, <2>4 DEF MessageRenders
  <2>6. e \in Entry /\ e.msg = m
    BY <2>1, <2>2 DEF Entry
  <2>7. new1 = <<e>>
    BY DEF m
  <2> HIDE DEF e, new1
  <2>8. <<e>> \in Seq(Entry) /\ Len(<<e>>) = 1 /\ <<e>>[1] = e
    BY <2>6
  <2> QED BY <2>5, <2>6, <2>7, <2>8
<1>10. ASSUME exchange # <<>>
       PROVE  exchange \in Seq(Entry) /\ Len(exchange) >= 1 /\ MessageRenders(exchange[1].msg)
  BY <1>10, ExchangeIs DEF exchange
<1> HIDE DEF new1, r, Insert, Ok
<1>11. renders => Ok(r)
  BY <1>1, <1>5
<1>12. ~renders /\ plain # 0 => Ok(r)
  BY <1>1, <1>8, <1>9
<1>13. ~renders /\ plain = 0 /\ exchange # <<>> => Ok(r)
  BY <1>1, <1>8, <1>10
<1>14. Ok(r)
  BY <1>7, <1>11, <1>12, <1>13
<1> QED BY <1>14 DEF Ok, r

\* A message ahead that renders reaches the model, in a list that is whole.
LEMMA RendersReaches ==
    ASSUME NEW h \in Seq(Message), NEW pending \in Seq(Message), Whole(h, pending),
           NEW i \in 1 .. Len(h), MessageRenders(h[i])
    PROVE  \E s \in ToSet(Sites(h \o pending)) : Reaches(h \o pending, s)
<1> DEFINE full == h \o pending
<1>1. full \in Seq(Message) /\ full[i] = h[i]
  BY BehindIs
<1>2. h[i].role # "system"
  BY DEF MessageRenders
<1>3. PICK j \in DOMAIN h[i].parts : Renders(h[i].role, h[i].parts[j])
  BY DEF MessageRenders
<1>4. j \in 1 .. Len(h[i].parts)
  <2>1. h[i] \in Message
    OBVIOUS
  <2>2. h[i].parts \in Seq(Part)
    BY <2>1 DEF Message
  <2> QED BY <2>2
<1>5. PICK n \in 1 .. Len(Sites(h)) : Sites(h)[n] = [mi |-> i, ci |-> j, part |-> h[i].parts[j]]
  BY <1>4, PartSite
<1>6. /\ Flat(full) = Flat(h) \o Flat(pending) /\ Len(Sites(h)) <= Len(Sites(full))
      /\ Sites(full)[n] = Sites(h)[n]
  BY FlatConcat
<1>7. Flat(h)[n] = h[i].parts[j] /\ Len(Flat(h)) = Len(Sites(h))
  BY <1>5, FlatIs
<1>8. /\ Len(Sites(full)) \in Nat /\ Len(Sites(h)) \in Nat
      /\ \A k \in 1 .. Len(Sites(full)) : Flat(full)[k] = Sites(full)[k].part
  BY <1>1, FlatIs
<1> HIDE DEF full
<1>9. n \in 1 .. Len(Sites(full))
  BY <1>6, <1>8
<1>10. Flat(full)[n] = h[i].parts[j] /\ Sites(full)[n].mi = i
  <2>1. Sites(full)[n].part = h[i].parts[j] /\ Sites(full)[n].mi = i
    BY <1>5, <1>6
  <2> QED BY <1>8, <1>9, <2>1
<1>11. IsToolPart(Flat(full)[n]) => n \in Paired(Flat(full))
  BY <1>6, <1>7, <1>10 DEF Whole, WholeParts
<1>12. \E s \in ToSet(Sites(full)) : Reaches(full, s)
  BY <1>1, <1>2, <1>3, <1>9, <1>10, <1>11, ReachesAt
<1> QED BY <1>12 DEF full

-----------------------------------------------------------------------------
(* What of the input reaches the model.                                    *)

\* Every call and result of the input is half of an exchange, and no system's.
PendingWhole(base, pending) ==
    \A n \in 1 .. Len(Flat(pending)) : IsToolPart(Flat(pending)[n]) =>
      /\ Len(Flat(base)) + n \in Paired(Flat(base) \o Flat(pending))
      /\ pending[Sites(pending)[n].mi].role # "system"

\* A part of the input reaches the model behind whatever h.
LEMMA PendingPartReaches ==
    ASSUME NEW h \in Seq(Message), NEW pending \in Seq(Message), NEW n \in 1 .. Len(Flat(pending)),
           pending[Sites(pending)[n].mi].role # "system",
           Renders(pending[Sites(pending)[n].mi].role, Flat(pending)[n]),
           IsToolPart(Flat(pending)[n]) => Len(Flat(h)) + n \in Paired(Flat(h) \o Flat(pending))
    PROVE  \E s \in ToSet(Sites(h \o pending)) : Reaches(h \o pending, s)
<1> DEFINE full == h \o pending
           S == Sites(full)
           L == Len(Sites(h))
           k == L + n
           i == Sites(pending)[n].mi
<1>1. full \in Seq(Message) /\ Flat(full) = Flat(h) \o Flat(pending)
  <2>1. full \in Seq(Message)
    OBVIOUS
  <2>2. Flat(full) = Flat(h) \o Flat(pending)
    BY FlatConcat
  <2> QED BY <2>1, <2>2
<1>2. /\ Len(Flat(h)) = L /\ L \in Nat /\ Len(Flat(pending)) = Len(Sites(pending))
      /\ Flat(pending)[n] = Sites(pending)[n].part
  BY FlatIs
<1>3. n \in 1 .. Len(Sites(pending)) /\ Len(S) = L + Len(Sites(pending))
      /\ S[k] = Behind(h, Sites(pending)[n])
  BY <1>2, SitesBehind
<1>4. i \in 1 .. Len(pending)
  BY <1>3, SitesOrder
<1>5. full[Len(h) + i] = pending[i]
  BY <1>4, BehindIs
<1>6. S[k].mi = Len(h) + i /\ S[k].part = Flat(pending)[n]
  BY <1>2, <1>3 DEF Behind
<1>7. Len(S) \in Nat /\ \A j \in 1 .. Len(S) : Flat(full)[j] = S[j].part
  BY <1>1, FlatIs
<1>8. k \in 1 .. Len(S)
  <2>1. Len(Sites(pending)) \in Nat
    BY <1>2, FlatIs
  <2> QED BY <1>2, <1>3, <2>1
<1>9. Flat(full)[k] = Flat(pending)[n]
  BY <1>6, <1>7, <1>8
<1>10. IsToolPart(Flat(full)[k]) => k \in Paired(Flat(full))
  BY <1>1, <1>2, <1>9
<1>11. full[S[k].mi].role = pending[i].role
  BY <1>5, <1>6
<1> HIDE DEF full, k
<1>12. \E s \in ToSet(Sites(full)) : Reaches(full, s)
  BY <1>1, <1>8, <1>9, <1>10, <1>11, ReachesAt
<1> QED BY <1>12 DEF full

\* An input that renders reaches the model behind whatever a cut, repaired,
\* leaves: with the calls its results answer, when it is these that render.
LEMMA PendingReaches ==
    ASSUME NEW base \in Seq(Message), NEW es \in Seq(Entry), NEW pending \in Seq(Message),
           PendingWhole(base, pending), NEW i \in 1 .. Len(pending), MessageRenders(pending[i])
    PROVE  LET h == Messages(DropOrphanedToolExchanges(
                      ReinstateCallsAnsweredByPending(base, es, pending), pending))
           IN  \E s \in ToSet(Sites(h \o pending)) : Reaches(h \o pending, s)
<1> DEFINE es1 == ReinstateCallsAnsweredByPending(base, es, pending)
           es2 == DropOrphanedToolExchanges(es1, pending)
           h == Messages(es2)
           x == Flat(h)
           x1 == Flat(Messages(es1))
           x0 == Flat(base)
           y == Flat(pending)
           X0 == Len(x0)
           X1 == Len(x1)
           X == Len(x)
           M == Len(y)
           Goal == \E s \in ToSet(Sites(h \o pending)) : Reaches(h \o pending, s)
<1> SUFFICES Goal
  OBVIOUS
<1>1. es1 \in Seq(Entry)
  BY ReinstateIs
<1>2. ASSUME NEW id,
             Provided(base, es, pending, id)
      PROVE  \E o \in PairParts(x1).open : x1[o].id = id
  <2>1. LET F == Flat(Messages(ReinstateCallsAnsweredByPending(base, es, pending)))
        IN  \E o \in PairParts(F).open : F[o].id = id
    BY <1>2, ReinstatedOpen
  <2> QED BY <2>1
<1> HIDE DEF es1
<1>3. /\ es2 \in Seq(Entry)
      /\ \A j \in 1 .. M : X1 + j \in Paired(x1 \o y) => X + j \in Paired(x \o y)
  BY <1>1, DropWhole
<1> HIDE DEF es2
<1>4. h \in Seq(Message) /\ Messages(es1) \in Seq(Message)
  BY <1>1, <1>3, MessagesIs
<1>5. /\ x \in Seq(Part) /\ x1 \in Seq(Part) /\ x0 \in Seq(Part) /\ y \in Seq(Part)
      /\ X \in Nat /\ X1 \in Nat /\ X0 \in Nat /\ M \in Nat
  BY <1>4, FlatIs
<1>6. M = Len(Sites(pending)) /\ \A n \in 1 .. M : y[n] = Sites(pending)[n].part
  BY FlatIs
<1>7. \A n \in 1 .. M : Sites(pending)[n] \in PairedSites(pending) <=> n \in Paired(y)
  BY PairedPlaces
<1>8. ASSUME NEW n \in 1 .. M, IsToolPart(y[n]), X + n \in Paired(x \o y) PROVE Goal
  <2>1. pending[Sites(pending)[n].mi].role # "system"
    BY <1>8 DEF PendingWhole
  <2>2. Renders(pending[Sites(pending)[n].mi].role, y[n])
    BY <1>8 DEF IsToolPart, Renders
  <2> QED BY <1>4, <1>8, <2>1, <2>2, PendingPartReaches
<1> HIDE DEF Goal, h
<1>9. /\ Len(x \o y) = X + M /\ \A n \in 1 .. M : (x \o y)[X + n] = y[n]
      /\ Len(x1 \o y) = X1 + M /\ \A n \in 1 .. M : (x1 \o y)[X1 + n] = y[n]
      /\ \A n \in 1 .. X1 : (x1 \o y)[n] = x1[n]
      /\ Len(x0 \o y) = X0 + M /\ \A n \in 1 .. M : (x0 \o y)[X0 + n] = y[n]
      /\ \A n \in 1 .. X0 : (x0 \o y)[n] = x0[n]
  <2> HIDE DEF x, x1, x0, y
  <2>1. Len(x \o y) = X + M /\ \A n \in 1 .. M : (x \o y)[X + n] = y[n]
    BY <1>5, BehindIs
  <2>2. /\ Len(x1 \o y) = X1 + M /\ \A n \in 1 .. M : (x1 \o y)[X1 + n] = y[n]
        /\ \A n \in 1 .. X1 : (x1 \o y)[n] = x1[n]
    BY <1>5, BehindIs
  <2>3. /\ Len(x0 \o y) = X0 + M /\ \A n \in 1 .. M : (x0 \o y)[X0 + n] = y[n]
        /\ \A n \in 1 .. X0 : (x0 \o y)[n] = x0[n]
    BY <1>5, BehindIs
  <2> QED BY <2>1, <2>2, <2>3
<1>10. i \in DOMAIN pending /\ pending[i].role # "system"
  BY DEF MessageRenders
<1>11. PICK j \in DOMAIN pending[i].parts : Renders(pending[i].role, pending[i].parts[j])
  BY DEF MessageRenders
<1>12. j \in 1 .. Len(pending[i].parts)
  <2>1. pending[i] \in Message
    OBVIOUS
  <2>2. pending[i].parts \in Seq(Part)
    BY <2>1 DEF Message
  <2> QED BY <2>2
<1>13. PICK n \in 1 .. Len(Sites(pending)) :
         Sites(pending)[n] = [mi |-> i, ci |-> j, part |-> pending[i].parts[j]]
  BY <1>12, PartSite
<1>14. n \in 1 .. M /\ y[n] = pending[i].parts[j] /\ Sites(pending)[n].mi = i
  BY <1>6, <1>13
<1>15. CASE ~IsToolPart(y[n])
  <2>1. y[n] = Flat(pending)[n] /\ n \in 1 .. Len(Flat(pending))
    BY <1>14
  <2>2. /\ pending[Sites(pending)[n].mi].role # "system"
        /\ Renders(pending[Sites(pending)[n].mi].role, Flat(pending)[n])
    BY <1>10, <1>11, <1>14
  <2> HIDE DEF y
  <2> QED BY <1>4, <1>15, <2>1, <2>2, PendingPartReaches DEF Goal
<1>16. CASE IsToolPart(y[n])
  <2>1. X0 + n \in Paired(x0 \o y)
    BY <1>14, <1>16 DEF PendingWhole
  <2> HIDE DEF x0, x1, x, y
  <2>2. PICK p \in PairParts(x0 \o y).pairs : X0 + n = p.call \/ X0 + n = p.result
    BY <2>1 DEF Paired
  <2> DEFINE z0 == x0 \o y
  <2>3. Len(z0) \in Nat /\ PairParts(z0) \in PairState(Len(z0)) /\ PairInv(z0, PairParts(z0), Len(z0))
    <3>1. Len(z0) \in Nat
      BY <1>5, <1>9
    <3> HIDE DEF z0
    <3> QED BY <3>1, PairsAre
  <2>4. /\ p.call \in 1 .. X0 + M /\ p.result \in 1 .. X0 + M /\ p.call < p.result
        /\ z0[p.call].kind = "call" /\ z0[p.result].kind = "result"
        /\ z0[p.call].id = z0[p.result].id
    BY <1>9, <2>2, <2>3 DEF PairInv, PairState
  <2> DEFINE r == p.result - X0
  <2>5. r \in 1 .. M /\ X0 + r = p.result /\ p.result > X0
    <3> DEFINE u == p.call
               v == p.result
    <3>1. (X0 + n = u \/ X0 + n = v) /\ u \in 1 .. X0 + M /\ v \in 1 .. X0 + M /\ u < v
      BY <2>2, <2>4
    <3>2. X0 \in Nat /\ M \in Nat /\ n \in 1 .. M
      BY <1>5, <1>14
    <3> HIDE DEF u, v, X0, M
    <3>3. v - X0 \in 1 .. M /\ X0 + (v - X0) = v /\ v > X0
      BY <3>1, <3>2
    <3> QED BY <3>3 DEF v
  <2>6. y[r].kind = "result" /\ y[r].id = z0[p.call].id
    BY <1>9, <2>4, <2>5
  <2> HIDE DEF r, z0
  <2>7. CASE \E c \in 1 .. M : c < r /\ y[c].kind = "call" /\ y[c].id = y[r].id
    <3>1. PICK c \in 1 .. M : c < r /\ y[c].kind = "call" /\ y[c].id = y[r].id
      BY <2>7
    <3> DEFINE z == x \o y
               a == X + c
               b == X + r
    <3>2. /\ Len(z) \in Nat /\ a \in 1 .. Len(z) /\ b \in a + 1 .. Len(z)
          /\ z[a] = y[c] /\ z[b] = y[r]
      <4>1. X \in Nat /\ M \in Nat /\ c \in 1 .. M /\ r \in 1 .. M /\ c < r /\ Len(z) = X + M
        BY <1>5, <1>9, <2>5, <3>1
      <4>2. z[a] = y[c] /\ z[b] = y[r]
        BY <1>9, <4>1
      <4> HIDE DEF z, X, M
      <4> QED BY <4>1, <4>2
    <3>3. z[a].kind = "call" /\ z[b].kind = "result" /\ z[b].id = z[a].id
      BY <2>6, <3>1, <3>2
    <3>20. Len(z) = X + M
      BY <1>9
    <3> HIDE DEF z, a, b
    <3>4. PICK q \in PairParts(z).pairs : q.call >= a
      BY <3>2, <3>3, PairBehind
    <3>5. q.call \in 1 .. Len(z) /\ z[q.call].kind = "call" /\ q.call \in Paired(z)
      <4>1. PairParts(z) \in PairState(Len(z)) /\ PairInv(z, PairParts(z), Len(z))
        BY <3>2, PairsAre
      <4> QED BY <4>1 DEF PairInv, PairState, Paired
    <3> DEFINE k == q.call - X
    <3>6. k \in 1 .. M /\ X + k = q.call
      <4> DEFINE u == q.call
      <4>1. X \in Nat /\ M \in Nat /\ c \in 1 .. M /\ u >= X + c /\ u \in 1 .. X + M
        BY <1>5, <3>1, <3>4, <3>5, <3>20 DEF a
      <4> HIDE DEF u, X, M
      <4>2. u - X \in 1 .. M /\ X + (u - X) = u
        BY <4>1
      <4> QED BY <4>2 DEF u
    <3>7. IsToolPart(y[k])
      <4>1. z[q.call] = y[k]
        <5>1. (x \o y)[X + k] = y[k]
          <6> HIDE DEF k
          <6> QED BY <1>9, <3>6
        <5> QED BY <3>6, <5>1 DEF z
      <4> HIDE DEF k
      <4> QED BY <3>5, <4>1 DEF IsToolPart
    <3> HIDE DEF k
    <3>8. X + k \in Paired(x \o y)
      BY <3>5, <3>6 DEF z
    <3> QED BY <1>8, <3>6, <3>7, <3>8
  <2>8. CASE \A c \in 1 .. M : ~ (c < r /\ y[c].kind = "call" /\ y[c].id = y[r].id)
    <3>1. p.call <= X0
      <4> SUFFICES ASSUME p.call > X0 PROVE FALSE
        BY <1>5, <2>4
      <4> DEFINE c == p.call - X0
      <4>1. c \in 1 .. M /\ X0 + c = p.call /\ c < r
        <5> DEFINE u == p.call
        <5>1. X0 \in Nat /\ M \in Nat /\ u > X0 /\ u \in 1 .. X0 + M /\ p.result \in Int
              /\ X0 + r = p.result /\ r \in 1 .. M /\ u < p.result
          BY <1>5, <2>4, <2>5
        <5> DEFINE v == p.result
        <5>3. v \in Int /\ X0 + r = v /\ u < v
          BY <5>1
        <5> HIDE DEF u, v, X0, M
        <5>4. u \in Int /\ u > X0 /\ u <= X0 + M /\ r \in Int /\ X0 \in Int /\ M \in Int
          BY <5>1
        <5>2. u - X0 \in 1 .. M /\ X0 + (u - X0) = u /\ u - X0 < r
          BY <5>3, <5>4
        <5> QED BY <5>2 DEF u
      <4>2. y[c] = z0[p.call]
        BY <1>9, <4>1 DEF z0
      <4> HIDE DEF c
      <4> QED BY <2>4, <2>6, <2>8, <4>1, <4>2
    <3>2. p.call \in PairParts(x0).open /\ p.call \in 1 .. X0
      <4>1. p.call \in 1 .. X0
        BY <1>5, <2>4, <3>1
      <4>2. x0 \in Seq(Part) /\ y \in Seq(Part) /\ p \in PairParts(x0 \o y).pairs
        BY <1>5, <2>2
      <4>3. p.result > Len(x0) /\ p.call <= Len(x0)
        BY <2>5, <3>1
      <4>4. p.call \in PairParts(x0).open
        BY <4>2, <4>3, CrossOpen
      <4> QED BY <4>1, <4>4
    <3> DEFINE s == Sites(base)[p.call]
               t == Sites(pending)[r]
               id == y[r].id
    <3>3. s \in PairToolExchanges(base).open /\ s \in ToSet(Sites(base)) /\ s.part = x0[p.call]
      BY <3>2, OpenSites DEF x0
    <3>4. s.part.id = id
      BY <1>9, <2>6, <3>2, <3>3 DEF z0
    <3>5. t \in ToSet(Sites(pending)) /\ t.part = y[r]
      <4>1. Sites(pending) \in Seq(Site)
        BY FlatIs
      <4> QED BY <1>6, <2>5, <4>1 DEF ToSet
    <3>6. t \notin PairedSites(pending)
      <4> SUFFICES ASSUME t \in PairedSites(pending) PROVE FALSE
        OBVIOUS
      <4>1. r \in Paired(y)
        BY <1>7, <2>5
      <4>2. PICK q \in PairParts(y).pairs : r = q.call \/ r = q.result
        BY <4>1 DEF Paired
      <4>3. PairParts(y) \in PairState(M) /\ PairInv(y, PairParts(y), M)
        BY <1>5, PairsAre
      <4>4. /\ q.call \in 1 .. M /\ q.call < q.result /\ y[q.call].kind = "call"
            /\ y[q.result].kind = "result" /\ y[q.call].id = y[q.result].id
        BY <4>2, <4>3 DEF PairInv, PairState
      <4>5. r = q.result
        BY <2>6, <4>2, <4>4
      <4> QED BY <2>8, <4>4, <4>5
    <3>7. UnansweredResults(pending, id) \in Nat /\ UnansweredResults(pending, id) > 0
      <4>1. t.part.id = id /\ t.part.kind = "result"
        BY <2>6, <3>5
      <4> HIDE DEF t, id
      <4> QED BY <3>5, <3>6, <4>1, UnansweredCounted
    <3>8. Provided(base, es, pending, id)
      <4>1. UnansweredResults(pending, s.part.id) \in Nat /\ UnansweredResults(pending, s.part.id) > 0
        BY <3>4, <3>7
      <4> HIDE DEF s
      <4>2. Provided(base, es, pending, s.part.id)
        BY <3>3, <4>1, CallProvided
      <4> QED BY <3>4, <4>2
    <3>9. PICK o \in PairParts(x1).open : x1[o].id = id
      <4> HIDE DEF id
      <4> QED BY <1>2, <3>8
    <3> DEFINE z1 == x1 \o y
    <3>10. PICK f : PairRun(f, z1)
      <4>1. Len(z1) \in Nat
        BY <1>5, <1>9
      <4> QED BY <4>1, PairRunExists
    <3>11. f[X1] = PairParts(x1)
      BY <1>5, <3>10, PrefixRun
    <3>12. o \in 1 .. X1
      <4>1. PairParts(x1) \in PairState(X1)
        BY <1>5, PairsAre
      <4> QED BY <4>1 DEF PairState
    <3> DEFINE b == X1 + r
    <3>13. /\ X1 \in 0 .. Len(z1) /\ b \in X1 + 1 .. Len(z1) /\ Len(z1) = X1 + M
           /\ z1[b] = y[r] /\ z1[o] = x1[o]
      BY <1>5, <1>9, <2>5, <3>12
    <3> HIDE DEF z1, b
    <3>14. z1[b].kind = "result" /\ z1[b].id = z1[o].id
      BY <2>6, <3>9, <3>13
    <3>15. PICK q \in PairParts(z1).pairs : q.result > X1
      BY <3>9, <3>10, <3>11, <3>13, <3>14, Answered
    <3>16. q.result \in 1 .. Len(z1) /\ z1[q.result].kind = "result" /\ q.result \in Paired(z1)
      <4>1. Len(z1) \in Nat
        BY <3>10 DEF PairRun
      <4>2. PairParts(z1) \in PairState(Len(z1)) /\ PairInv(z1, PairParts(z1), Len(z1))
        BY <4>1, PairsAre
      <4> QED BY <4>2 DEF PairInv, PairState, Paired
    <3> DEFINE k == q.result - X1
    <3>17. k \in 1 .. M /\ X1 + k = q.result
      <4> DEFINE u == q.result
      <4>1. X1 \in Nat /\ M \in Nat /\ u > X1 /\ u \in 1 .. X1 + M
        BY <1>5, <3>13, <3>15, <3>16
      <4> HIDE DEF u, X1, M
      <4>2. u - X1 \in 1 .. M /\ X1 + (u - X1) = u
        BY <4>1
      <4> QED BY <4>2 DEF u
    <3>18. IsToolPart(y[k])
      <4>1. z1[q.result] = y[k]
        <5>1. (x1 \o y)[X1 + k] = y[k]
          <6> HIDE DEF k
          <6> QED BY <1>9, <3>17
        <5> QED BY <3>17, <5>1 DEF z1
      <4> HIDE DEF k
      <4> QED BY <3>16, <4>1 DEF IsToolPart
    <3> HIDE DEF k
    <3>19. X + k \in Paired(x \o y)
      BY <1>3, <3>16, <3>17 DEF z1, x, x1, y
    <3> QED BY <1>8, <3>17, <3>18, <3>19
  <2> QED BY <2>7, <2>8
<1> QED BY <1>15, <1>16 DEF Goal, h, es2, es1

-----------------------------------------------------------------------------
(* Something to react to.                                                  *)

\* The input is whole, by its sites in the conversation.
LEMMA InputIsWhole ==
    ASSUME NEW base \in Seq(Message), NEW pending \in Seq(Message),
           \A s \in ToSet(Sites(base \o pending)) :
             s.mi > Len(base) /\ IsToolPart(s.part)
               => s \in PairedSites(base \o pending) /\ (base \o pending)[s.mi].role # "system"
    PROVE  PendingWhole(base, pending)
<1> DEFINE full == base \o pending
           S == Sites(full)
           L == Len(Sites(base))
<1>1. full \in Seq(Message)
  OBVIOUS
<1>2. Flat(full) = Flat(base) \o Flat(pending)
  BY FlatConcat
<1>3. /\ Len(Flat(base)) = L /\ L \in Nat /\ Len(Flat(pending)) = Len(Sites(pending))
      /\ Len(Sites(pending)) \in Nat
      /\ \A n \in 1 .. Len(Sites(pending)) : Flat(pending)[n] = Sites(pending)[n].part
  BY FlatIs
<1>4. /\ Len(S) = L + Len(Sites(pending))
      /\ \A n \in 1 .. Len(Sites(pending)) : S[L + n] = Behind(base, Sites(pending)[n])
  BY SitesBehind
<1>5. S \in Seq(Site) /\ Len(Flat(full)) = Len(S)
  BY <1>1, FlatIs
<1>6. \A k \in 1 .. Len(S) : S[k] \in ToSet(S)
  BY <1>5 DEF ToSet
<1>7. \A k \in 1 .. Len(S) : S[k] \in PairedSites(full) <=> k \in Paired(Flat(full))
  BY <1>1, <1>5, PairedPlaces
<1>8. \A i \in 1 .. Len(pending) : full[Len(base) + i] = pending[i]
  BY BehindIs
<1>9. \A s \in ToSet(S) : s.mi > Len(base) /\ IsToolPart(s.part)
                           => s \in PairedSites(full) /\ full[s.mi].role # "system"
  OBVIOUS
<1>10. Len(base) \in Nat
  OBVIOUS
<1> HIDE DEF full, S, L
<1> SUFFICES ASSUME NEW n \in 1 .. Len(Flat(pending)), IsToolPart(Flat(pending)[n])
             PROVE  /\ Len(Flat(base)) + n \in Paired(Flat(base) \o Flat(pending))
                    /\ pending[Sites(pending)[n].mi].role # "system"
  BY DEF PendingWhole
<1> DEFINE k == L + n
           i == Sites(pending)[n].mi
<1>11. n \in 1 .. Len(Sites(pending)) /\ k \in 1 .. Len(S)
  BY <1>3, <1>4
<1>12. i \in 1 .. Len(pending)
  BY <1>11, SitesOrder
<1>13. S[k].mi = Len(base) + i /\ S[k].part = Flat(pending)[n]
  <2>1. S[k] = Behind(base, Sites(pending)[n])
    BY <1>4, <1>11
  <2>2. Flat(pending)[n] = Sites(pending)[n].part
    BY <1>3, <1>11
  <2> HIDE DEF k
  <2> QED BY <2>1, <2>2 DEF Behind
<1>14. Len(base) + i > Len(base)
  BY <1>10, <1>12
<1> HIDE DEF k
<1>15. S[k] \in PairedSites(full) /\ full[Len(base) + i].role # "system"
  BY <1>6, <1>9, <1>11, <1>13, <1>14
<1>16. k \in Paired(Flat(full))
  BY <1>7, <1>11, <1>15
<1> QED BY <1>2, <1>3, <1>8, <1>12, <1>15, <1>16 DEF k

\* What is left of a message as a plain one is of it.
LEMMA PlainRenders ==
    ASSUME NEW m \in Message, m.role # "system", Plain(m).parts # <<>>
    PROVE  MessageRenders(m)
<1> DEFINE s == m.parts
           J == {j \in DOMAIN s : Renders(m.role, s[j]) /\ ~IsToolPart(s[j])}
           q == Pick(s, J)
<1>1. s \in Seq(Part)
  BY DEF Message
<1>2. Plain(m) = ReducedTo(m, J)
  BY DEF Plain
<1>3. Plain(m).parts = q
  BY <1>2, ReducedIs
<1>4. q \in Seq(Part) /\ \E g : Thinned(g, q, s, Len(s), J)
  <2> HIDE DEF J
  <2> QED BY <1>1, PickThinned
<1>5. PICK g : Thinned(g, q, s, Len(s), J)
  BY <1>4
<1>6. \A k \in J : k \in DOMAIN s /\ Renders(m.role, s[k])
  OBVIOUS
<1> HIDE DEF q, J, s
<1>7. 1 \in 1 .. Len(q)
  BY <1>3, <1>4
<1>8. g[1] \in J
  BY <1>5, <1>7 DEF Thinned
<1> QED BY <1>6, <1>8 DEF MessageRenders, s

\* What there is to react to is in the history, if the input does not render.
LEMMA AnswerableBehind ==
    ASSUME NEW base \in Seq(Message), NEW pending \in Seq(Message), PendingWhole(base, pending),
           Answerable(base \o pending), ~ \E i \in 1 .. Len(pending) : MessageRenders(pending[i])
    PROVE  Answerable(base)
<1> DEFINE full == base \o pending
           S == Sites(full)
           B == Sites(base)
           Y == Sites(pending)
           L == Len(B)
           H == Len(base)
<1>1. full \in Seq(Message)
  OBVIOUS
<1>2. /\ Len(Flat(base)) = L /\ L \in Nat /\ Len(Flat(pending)) = Len(Y) /\ Len(Y) \in Nat
      /\ \A n \in 1 .. Len(Y) : Flat(pending)[n] = Y[n].part
      /\ DOMAIN B = 1 .. L
  BY FlatIs
<1>3. /\ Len(S) = L + Len(Y)
      /\ \A n \in 1 .. Len(Y) : S[L + n] = Behind(base, Y[n])
  BY SitesBehind
<1>4. /\ \A i \in 1 .. H : full[i] = base[i]
      /\ \A i \in 1 .. Len(pending) : full[H + i] = pending[i]
      /\ Len(full) = H + Len(pending) /\ H \in Nat /\ Len(pending) \in Nat
  BY BehindIs
<1>5. \A n \in 1 .. L : S[n] = B[n]
  BY FlatConcat
<1>6. DOMAIN S = 1 .. Len(S) /\ DOMAIN full = 1 .. Len(full) /\ DOMAIN base = 1 .. H
  BY <1>1, FlatIs
<1>7. \A n \in 1 .. Len(Y) : ~IsToolPart(Y[n].part)
  <2> SUFFICES ASSUME NEW n \in 1 .. Len(Y), IsToolPart(Y[n].part) PROVE FALSE
    OBVIOUS
  <2> DEFINE i == Y[n].mi
             j == Y[n].ci
  <2>1. i \in 1 .. Len(pending) /\ j \in 1 .. Len(pending[i].parts) /\ Y[n].part = pending[i].parts[j]
    BY SitesOrder
  <2>2. pending[i].role # "system"
    BY <1>2 DEF PendingWhole
  <2> HIDE DEF i, j
  <2>3. DOMAIN pending[i].parts = 1 .. Len(pending[i].parts)
    <3>1. pending[i] \in Message
      BY <2>1
    <3> QED BY <3>1 DEF Message
  <2>4. MessageRenders(pending[i])
    BY <2>1, <2>2, <2>3 DEF MessageRenders, Renders, IsToolPart
  <2> QED BY <2>1, <2>4
<1>8. \A n \in 1 .. L : B[n].mi \in 1 .. H
  BY SitesOrder
<1>9. \A i \in 1 .. Len(pending) : pending[i] \in Message
  OBVIOUS
<1>10. \/ \E i \in DOMAIN full : full[i].role \notin {"system", "tool"} /\ Plain(full[i]).parts # <<>>
       \/ \E m, n \in DOMAIN S : m < n /\ Exchanged(full, S[m], S[n])
  BY DEF Answerable
<1>11. ASSUME NEW i \in DOMAIN base, base[i].role \notin {"system", "tool"},
              Plain(base[i]).parts # <<>>
       PROVE  Answerable(base)
  BY <1>11 DEF Answerable
<1>12. ASSUME NEW m \in DOMAIN B, NEW n \in DOMAIN B, m < n, Exchanged(base, B[m], B[n])
       PROVE  Answerable(base)
  BY <1>12 DEF Answerable
<1> HIDE DEF full, S, B, Y, L, H
<1>13. CASE \E i \in DOMAIN full : full[i].role \notin {"system", "tool"} /\ Plain(full[i]).parts # <<>>
  <2>1. PICK i \in DOMAIN full : full[i].role \notin {"system", "tool"} /\ Plain(full[i]).parts # <<>>
    BY <1>13
  <2>2. CASE i \in 1 .. H
    BY <1>4, <1>6, <1>11, <2>1, <2>2
  <2>3. CASE i > H
    <3> DEFINE k == i - H
    <3>1. k \in 1 .. Len(pending) /\ H + k = i
      BY <1>4, <1>6, <2>3
    <3> HIDE DEF k
    <3>2. full[i] = pending[k] /\ pending[k] \in Message
      BY <1>4, <1>9, <3>1
    <3>3. MessageRenders(pending[k])
      BY <2>1, <3>2, PlainRenders
    <3> QED BY <3>1, <3>3
  <2>4. i \in 1 .. H \/ i > H
    BY <1>4, <1>6
  <2> QED BY <2>2, <2>3, <2>4
<1>14. CASE \E m, n \in DOMAIN S : m < n /\ Exchanged(full, S[m], S[n])
  <2>1. PICK m, n \in DOMAIN S : m < n /\ Exchanged(full, S[m], S[n])
    BY <1>14
  <2>2. CASE n > L
    <3> DEFINE k == n - L
    <3>1. k \in 1 .. Len(Y) /\ L + k = n
      BY <1>2, <1>3, <1>6, <2>2
    <3> HIDE DEF k
    <3>2. S[n].part = Y[k].part
      <4>1. S[L + k] = Behind(base, Y[k])
        BY <1>3, <3>1
      <4>2. S[n] = Behind(base, Y[k])
        BY <3>1, <4>1
      <4> QED BY <4>2 DEF Behind
    <3>3. IsToolPart(Y[k].part)
      BY <2>1, <3>2 DEF Exchanged, IsToolPart
    <3> QED BY <1>7, <3>1, <3>3
  <2>3. CASE ~ (n > L)
    <3>1. m \in 1 .. L /\ n \in 1 .. L
      BY <1>2, <1>3, <1>6, <2>1, <2>3
    <3>2. /\ S[m] = B[m] /\ S[n] = B[n]
          /\ full[B[m].mi] = base[B[m].mi] /\ full[B[n].mi] = base[B[n].mi]
      BY <1>4, <1>5, <1>8, <3>1
    <3>3. Exchanged(base, B[m], B[n])
      BY <2>1, <3>2 DEF Exchanged
    <3>4. m \in DOMAIN B /\ n \in DOMAIN B /\ m < n
      BY <1>2, <2>1, <3>1
    <3> QED BY <1>12, <3>3, <3>4
  <2> QED BY <2>2, <2>3
<1> QED BY <1>10, <1>13, <1>14

\* A cut, repaired, leaves something to react to.
LEMMA FinalizeReaches ==
    ASSUME NEW base \in Seq(Message), NEW retained \in Seq(Message), NEW pending \in Seq(Message),
           PendingWhole(base, pending), Answerable(base \o pending)
    PROVE  LET h == FinalizeCompaction(base, retained, pending)
           IN  \E s \in ToSet(Sites(h \o pending)) : Reaches(h \o pending, s)
<1> DEFINE entries == OriginIndices(retained, base)
           reinstated == ReinstateCallsAnsweredByPending(base, entries, pending)
           repaired == DropOrphanedToolExchanges(reinstated, pending)
           ensured == EnsureNonSystemMessage(base, repaired)
           h == FinalizeCompaction(base, retained, pending)
           renders == \E i \in DOMAIN pending : MessageRenders(pending[i])
           Goal(ms) == \E s \in ToSet(Sites(ms \o pending)) : Reaches(ms \o pending, s)
<1>1. h = Messages(IF renders THEN repaired ELSE ensured)
  BY DEF FinalizeCompaction
<1>2. entries \in Seq(Entry)
  BY OriginIndicesIs
<1>3. DOMAIN pending = 1 .. Len(pending)
  OBVIOUS
<1>4. h \in Seq(Message) /\ Whole(h, pending)
  BY FinalizeWhole
<1> SUFFICES Goal(h)
  OBVIOUS
<1> HIDE DEF entries, h
<1>5. ASSUME NEW i \in 1 .. Len(pending), MessageRenders(pending[i]) PROVE Goal(Messages(repaired))
  BY <1>2, <1>5, PendingReaches
<1>6. reinstated \in Seq(Entry)
  BY <1>2, ReinstateIs
<1> HIDE DEF reinstated
<1>7. repaired \in Seq(Entry)
  BY <1>6, DropWhole
<1> HIDE DEF repaired
<1>8. ensured \in Seq(Entry) \/ renders
  <2> SUFFICES ASSUME ~renders PROVE ensured \in Seq(Entry)
    OBVIOUS
  <2>1. Whole(Messages(repaired), pending)
    BY <1>6, DropWhole DEF repaired
  <2> QED BY <1>7, <2>1, EnsureWhole
<1>9. CASE renders
  <2>1. PICK i \in 1 .. Len(pending) : MessageRenders(pending[i])
    BY <1>3, <1>9
  <2> HIDE DEF Goal
  <2>2. Goal(Messages(repaired))
    BY <1>5, <2>1
  <2> QED BY <1>1, <1>9, <2>2
<1>10. CASE ~renders
  <2>1. Answerable(base)
    BY <1>3, <1>10, AnswerableBehind
  <2>2. \E i \in 1 .. Len(ensured) : MessageRenders(ensured[i].msg)
    BY <1>7, <2>1, EnsureRenders
  <2> HIDE DEF ensured, renders
  <2>3. h = Messages(ensured) /\ ensured \in Seq(Entry)
    BY <1>1, <1>8, <1>10
  <2>4. PICK i \in 1 .. Len(ensured) : MessageRenders(ensured[i].msg)
    BY <2>2
  <2>5. i \in 1 .. Len(h) /\ h[i] = ensured[i].msg
    BY <2>3, MessagesIs
  <2>6. MessageRenders(h[i])
    BY <2>4, <2>5
  <2> QED BY <1>4, <2>5, <2>6, RendersReaches
<1> QED BY <1>9, <1>10

\* What a request is made of, and that it has something to react to.
ReachInv == SentInv /\ request.base \in Seq(Message) /\ NeverSystemOnly

\* It holds before the first run, when there is nothing to react to.
LEMMA ReachInvInit == Init => ReachInv
<1> SUFFICES ASSUME Init PROVE ReachInv
  OBVIOUS
<1> DEFINE e == <<>>
<1>1. /\ request.base = e /\ request.input = e /\ e \in Seq(Message) /\ Sites(e) = e
      /\ e \o e = e /\ DOMAIN e = {}
  BY SitesAppend DEF Init, NoRequest
<1>2. SentInv
  BY SentInvInit
<1> HIDE DEF e
<1>3. ~Answerable(e)
  BY <1>1 DEF Answerable
<1>4. NeverSystemOnly
  BY <1>1, <1>3 DEF NeverSystemOnly
<1> QED BY <1>1, <1>2, <1>4 DEF ReachInv

\* A run that begins makes it hold of its request; the others leave it.
LEMMA ReachInvStep == ReachInv /\ [Next]_vars => ReachInv'
<1> SUFFICES ASSUME ReachInv, [Next]_vars PROVE ReachInv'
  OBVIOUS
<1>1. SentInv /\ SentInv'
  BY SentInvStep DEF ReachInv
<1>2. request' = request => ReachInv'
  BY <1>1 DEF ReachInv, NeverSystemOnly, InputWhole, Sent
<1>3. ASSUME NEW new \in Seq(Message), NEW k \in Nat, Prepare(new, k) PROVE ReachInv'
  <2> DEFINE input == LastN(transcript, k) \o new
             base == Align(stored, input).inject
             cut == Pipeline(base, pipeline)
             h == FinalizeCompaction(base, cut, input)
  <2>1. /\ request' = [input |-> input, new |-> new, base |-> base, history |-> h]
        /\ k <= Len(transcript)
    BY <1>3 DEF Prepare
  <2>2. /\ stored \in Seq(Message) /\ transcript \in Seq(Message) /\ pipeline \in Seq(Strategy)
    BY <1>1 DEF SentInv
  <2>3. input \in Seq(Message)
    <3>1. k \in 0 .. Len(transcript)
      BY <2>1, <2>2
    <3>2. LastN(transcript, k) \in Seq(Message)
      BY <2>2, <3>1, LastNIs
    <3> QED BY <3>2
  <2> HIDE DEF input
  <2>4. base \in Seq(Message)
    BY <2>2, <2>3, AlignTyped
  <2> HIDE DEF base
  <2>5. cut \in Seq(Message)
    BY <2>2, <2>4, PipelineIs
  <2> HIDE DEF cut
  <2>6. PendingWhole(base, input) /\ Answerable(base \o input)
          => \E s \in ToSet(Sites(h \o input)) : Reaches(h \o input, s)
    BY <2>3, <2>4, <2>5, FinalizeReaches
  <2> HIDE DEF h
  <2>7. request'.input = input /\ request'.base = base /\ request'.history = h
    BY <2>1
  <2>8. InputWhole' => PendingWhole(base, input)
    <3> SUFFICES ASSUME InputWhole' PROVE PendingWhole(base, input)
      OBVIOUS
    <3>1. \A s \in ToSet(Sites(base \o input)) :
            s.mi > Len(base) /\ IsToolPart(s.part)
              => s \in PairedSites(base \o input) /\ (base \o input)[s.mi].role # "system"
      BY <2>7 DEF InputWhole
    <3> QED BY <2>3, <2>4, <3>1, InputIsWhole
  <2>9. NeverSystemOnly'
    BY <2>6, <2>7, <2>8 DEF NeverSystemOnly, Sent
  <2> QED BY <1>1, <2>4, <2>7, <2>9 DEF ReachInv
<1>4. ASSUME NEW reply \in Seq(Message), Complete(reply) PROVE ReachInv'
  <2>1. request' = request
    BY <1>4 DEF Complete
  <2> QED BY <1>2, <2>1
<1>5. CASE Fail \/ UNCHANGED vars
  BY <1>2, <1>5 DEF Fail, vars
<1>6. Openings \subseteq Seq(Message) /\ NewInputs \subseteq Seq(Message) /\ Replies \subseteq Seq(Message)
  BY ConversationAssumption
<1>7. \A k \in 0 .. MaxReplay \cup {Len(transcript)} : k \in Nat
  BY <1>1, ConversationAssumption DEF SentInv
<1> QED BY <1>3, <1>4, <1>5, <1>6, <1>7 DEF Next

(* Whatever strategies an agent was built with: when its conversation holds
   something to react to and the input no half of an exchange, so does the
   request, whatever was cut (finalize_compaction, ensure_non_system_message). *)
THEOREM AlwaysAnswerable == Spec => []NeverSystemOnly
<1>1. Spec => []ReachInv
  BY ReachInvInit, ReachInvStep, PTL DEF Spec
<1>2. ReachInv => NeverSystemOnly
  BY DEF ReachInv
<1> QED BY <1>1, <1>2, PTL

=============================================================================
