-------------------------- MODULE ConsoleFeedProof --------------------------
(***************************************************************************)
(* Proofs about ConsoleFeed: whatever the limits of the backlogs and of    *)
(* the channels, however many operators and viewers there are, and         *)
(* whichever statement fails, request is dropped or restart comes between  *)
(* two steps, a console shows every hub's lines in their order, once, with *)
(* none missing unless it was told so, and says of every command what came *)
(* of it.                                                                  *)
(*                                                                         *)
(* The invariant relates a console's lines, the queues that wait for it    *)
(* and the backlogs to the set of all lines pushed.  Its parts are         *)
(* operators of that set, so that a step adds one line to the set and the  *)
(* lemmas say what becomes of each part.                                   *)
(***************************************************************************)
EXTENDS ConsoleFeed, TLAPS, FiniteSetTheorems, SequenceTheorems,
        WellFoundedInduction, NaturalsInduction

(* What is written of a line, and of a console.                            *)
Lines == [seq: Nat, hub: Hubs, row: Nat \cup {None}, outcome: {"ok", "failed", None}]
Feeds == [at: {"off", "half", "on"}, hears: SUBSET Hubs, since: Nat,
          queue: [Hubs -> Seq(Lines)], shown: Seq(Lines), told: SUBSET Hubs]

(* Lines in the order of their numbers.                                    *)
Ascending(s) == \A i, j \in DOMAIN s : i < j => s[i].seq < s[j].seq

(* One line for a number.                                                  *)
Distinct(P) ==
  /\ P \subseteq Lines /\ IsFiniteSet(P)
  /\ \A x, y \in P : x.seq = y.seq => x = y

(* Lines of one hub, in their order, of the lines P that were pushed.      *)
OfHub(h, s, P) ==
  /\ s \in Seq(Lines) /\ Ascending(s)
  /\ LinesOf(s) \subseteq P /\ \A x \in LinesOf(s) : x.hub = h

(* What is missing from the lines S of a hub is older than they are.       *)
Newest(h, S, P) ==
  \A x \in P : x.hub = h /\ x \notin S => \A y \in S : x.seq < y.seq

(* Every line of a hub is among S.                                         *)
All(h, S, P) == \A x \in P : x.hub = h => x \in S

(* A backlog of a hub: its newest lines, and all of them until it is full. *)
Kept(h, s, P) ==
  /\ OfHub(h, s, P) /\ Len(s) <= Keeps[h]
  /\ Newest(h, LinesOf(s), P)
  /\ Len(s) < Keeps[h] => All(h, LinesOf(s), P)

(* What a console has of a hub comes before what waits for it.             *)
Connected(f, P, n) ==
  /\ f.since <= n
  /\ LinesOf(f.shown) \subseteq P
  /\ \A h \in Hubs :
       /\ OfHub(h, f.queue[h], P)
       /\ \A y \in LinesOf(f.queue[h]) :
            /\ y.seq >= f.since
            /\ \A x \in LinesOf(f.shown) : x.hub = h => x.seq < y.seq

(* What a console has, or will have next, of a hub.                        *)
Has(f, h) == {x \in LinesOf(f.shown) \cup LinesOf(f.queue[h]) : x.hub = h}

(* All lines of a hub but those too old for a backlog.                     *)
Complete(f, h, P) ==
  /\ Newest(h, Has(f, h), P)
  /\ Cardinality(Has(f, h)) >= Keeps[h] \/ All(h, Has(f, h), P)

(* Between its two subscriptions a console has lines of the log alone.     *)
HalfWay(f, P) ==
  /\ f.hears = {"log"} /\ f.told = {} /\ f.queue["audit"] = << >>
  /\ \A x \in LinesOf(f.shown) : x.hub = "log"
  /\ Complete(f, "log", P)

(* The order of OldLinesFirst.                                             *)
InOrder(f) ==
  \A i, j \in DOMAIN f.shown : i < j =>
    \/ f.shown[i].seq < f.shown[j].seq
    \/ /\ f.shown[i].hub # f.shown[j].hub /\ f.shown[j].seq >= f.since
       /\ f.shown[i].seq > f.shown[j].seq

(* A console with both subscriptions.                                      *)
Whole(f, P) ==
  /\ f.hears = Hubs /\ InOrder(f)
  /\ \A h \in Hubs \ f.told : Complete(f, h, P)

(* A console, wherever its handler is.                                     *)
Follows(f, P, n) ==
  /\ f.at # "off" => Connected(f, P, n)
  /\ f.at = "half" => HalfWay(f, P)
  /\ f.at = "on" => Whole(f, P)

(* A set of numbers that is not empty has a least one.                     *)
LEMMA Least ==
  ASSUME NEW S, S \subseteq Nat, S # {}
  PROVE  \E m \in S : \A y \in S : m <= y
<1>1. PICK m \in S : \A y \in S : ~(<<y, m>> \in OpToRel(<, Nat))
  BY NatLessThanWellFounded, WFMin
<1>2. \A y \in S : ~(y < m)
  BY <1>1 DEF OpToRel
<1> QED
  BY <1>2

(* A first one of some lines.                                              *)
LEMMA First ==
  ASSUME NEW S, S \subseteq Lines, S # {}
  PROVE  \E x \in S : \A y \in S : x.seq <= y.seq
<1> DEFINE N == {x.seq : x \in S}
<1>1. N \subseteq Nat /\ N # {}
  BY DEF Lines
<1>2. PICK m \in N : \A y \in N : m <= y
  <2> HIDE DEF N
  <2> QED
    BY <1>1, Least
<1> QED
  BY <1>2

(* The lines of S before x.                                                *)
Before(S, x) == {y \in S : y.seq < x.seq}

(* The lines before one of S are fewer than the lines of S.                *)
LEMMA BeforeFinite ==
  ASSUME NEW S, Distinct(S), NEW x \in S
  PROVE  /\ IsFiniteSet(Before(S, x)) /\ Cardinality(Before(S, x)) \in Nat
         /\ Cardinality(Before(S, x)) < Cardinality(S)
         /\ IsFiniteSet(Before(S, x) \cup {x})
         /\ Cardinality(Before(S, x) \cup {x}) = Cardinality(Before(S, x)) + 1
<1>1. IsFiniteSet(S) /\ Before(S, x) \cup {x} \subseteq S /\ x \notin Before(S, x)
      /\ Before(S, x) \subseteq S
  BY DEF Before, Distinct, Lines
<1>2. IsFiniteSet(Before(S, x)) /\ IsFiniteSet(Before(S, x) \cup {x})
  BY <1>1, FS_Subset
<1>3. Cardinality(Before(S, x) \cup {x}) = Cardinality(Before(S, x)) + 1
  BY <1>1, <1>2, FS_AddElement
<1>4. Cardinality(Before(S, x) \cup {x}) <= Cardinality(S) /\ Cardinality(S) \in Nat
      /\ Cardinality(Before(S, x)) \in Nat
  BY <1>1, <1>2, FS_Subset, FS_CardinalityType
<1> QED
  BY <1>2, <1>3, <1>4

(* More come before a later line.                                          *)
LEMMA RankGrows ==
  ASSUME NEW S, Distinct(S), NEW x \in S, NEW y \in S, x.seq < y.seq
  PROVE  Cardinality(Before(S, x)) < Cardinality(Before(S, y))
<1>1. Before(S, x) \cup {x} \subseteq Before(S, y)
  BY DEF Before, Distinct, Lines
<1>2. Cardinality(Before(S, x) \cup {x}) <= Cardinality(Before(S, y))
  <2>1. IsFiniteSet(Before(S, y))
    BY BeforeFinite
  <2> QED
    BY <1>1, <2>1, FS_Subset
<1>3. /\ Cardinality(Before(S, x) \cup {x}) = Cardinality(Before(S, x)) + 1
      /\ Cardinality(Before(S, x)) \in Nat /\ Cardinality(Before(S, y)) \in Nat
  BY BeforeFinite
<1> QED
  BY <1>2, <1>3

(* There is a line for every place.                                        *)
LEMMA RankExists ==
  ASSUME NEW S, Distinct(S), NEW k \in Nat, k < Cardinality(S)
  PROVE  \E x \in S : Cardinality(Before(S, x)) = k
<1> DEFINE B == {i \in Nat : i < Cardinality(S) /\ ~\E x \in S : Cardinality(Before(S, x)) = i}
<1> SUFFICES ASSUME ~\E x \in S : Cardinality(Before(S, x)) = k PROVE FALSE
  OBVIOUS
<1>0. k \in B
  OBVIOUS
<1>1. PICK i \in B : \A j \in B : i <= j
  <2>1. B \subseteq Nat
    OBVIOUS
  <2> HIDE DEF B
  <2> QED
    BY <1>0, <2>1, Least
<1>2. i \in Nat /\ i < Cardinality(S) /\ ~\E x \in S : Cardinality(Before(S, x)) = i
  OBVIOUS
<1>3. IsFiniteSet(S) /\ S \subseteq Lines /\ Cardinality(S) \in Nat
  BY FS_CardinalityType DEF Distinct
<1>4. CASE i = 0
  <2>1. S # {}
    BY <1>2, <1>4, FS_EmptySet
  <2>2. PICK x \in S : \A y \in S : x.seq <= y.seq
    BY <1>3, <2>1, First
  <2>3. Before(S, x) = {}
    BY <1>3, <2>2 DEF Before, Lines
  <2>4. Cardinality(Before(S, x)) = 0
    BY <2>3, FS_EmptySet
  <2> QED
    BY <1>2, <1>4, <2>4
<1>5. CASE i # 0
  <2>1. i - 1 \in Nat /\ i - 1 < Cardinality(S) /\ i - 1 \notin B
    BY <1>1, <1>2, <1>3, <1>5
  <2>2. PICK x \in S : Cardinality(Before(S, x)) = i - 1
    BY <2>1
  <2> DEFINE R == S \ (Before(S, x) \cup {x})
  <2>3. Cardinality(Before(S, x) \cup {x}) = i
    <3>1. Cardinality(Before(S, x) \cup {x}) = Cardinality(Before(S, x)) + 1
      BY BeforeFinite
    <3> QED
      BY <1>2, <2>2, <3>1
  <2>4. R # {}
    <3> SUFFICES ASSUME R = {} PROVE FALSE
      OBVIOUS
    <3>1. S = Before(S, x) \cup {x}
      BY DEF Before
    <3> QED
      BY <1>2, <2>3, <3>1
  <2>5. R \subseteq Lines
    BY <1>3
  <2>6. PICK y \in R : \A z \in R : y.seq <= z.seq
    <3> HIDE DEF R
    <3> QED
      BY <2>4, <2>5, First
  <2>7. y \in S /\ x.seq < y.seq
    BY <1>3 DEF Before, Distinct, Lines
  <2>8. Before(S, y) = Before(S, x) \cup {x}
    BY <1>3, <2>6, <2>7 DEF Before, Lines
  <2> QED
    BY <1>2, <2>3, <2>7, <2>8
<1> QED
  BY <1>4, <1>5

(* The first frame has the lines of both backlogs, by number.              *)
LEMMA MergedSorts ==
  ASSUME NEW log, NEW audit, Distinct(LinesOf(log) \cup LinesOf(audit))
  PROVE  /\ Merged(log, audit) \in Seq(Lines) /\ Ascending(Merged(log, audit))
         /\ LinesOf(Merged(log, audit)) = LinesOf(log) \cup LinesOf(audit)
<1> DEFINE S == LinesOf(log) \cup LinesOf(audit)
           M == Merged(log, audit)
           n == Cardinality(S)
<1>1. M = [i \in 1 .. n |-> CHOOSE x \in S : Cardinality(Before(S, x)) = i - 1]
  BY DEF Merged, Before
<1>2. Distinct(S) /\ S \subseteq Lines /\ n \in Nat
  BY FS_CardinalityType DEF Distinct
<1> HIDE DEF S, M, n
<1>3. ASSUME NEW i \in 1 .. n
      PROVE  M[i] \in S /\ Cardinality(Before(S, M[i])) = i - 1
  <2>1. i - 1 \in Nat /\ i - 1 < Cardinality(S)
    BY <1>2 DEF n
  <2>2. \E x \in S : Cardinality(Before(S, x)) = i - 1
    BY <1>2, <2>1, RankExists
  <2>3. M[i] = CHOOSE x \in S : Cardinality(Before(S, x)) = i - 1
    BY <1>1
  <2> QED
    BY <2>2, <2>3
<1>4. DOMAIN M = 1 .. n /\ M \in Seq(Lines)
  <2>1. M = [i \in 1 .. n |-> M[i]]
    BY <1>1
  <2> QED
    BY <1>2, <1>3, <2>1, IsASeq
<1>5. Ascending(M)
  <2> SUFFICES ASSUME NEW i \in 1 .. n, NEW j \in 1 .. n, i < j PROVE M[i].seq < M[j].seq
    BY <1>4 DEF Ascending
  <2>1. M[i] \in S /\ M[j] \in S /\ M[i].seq \in Nat /\ M[j].seq \in Nat
    BY <1>2, <1>3 DEF Lines
  <2>2. CASE M[j].seq < M[i].seq
    <3>1. j - 1 < i - 1
      BY <1>2, <1>3, <2>1, <2>2, RankGrows
    <3> QED
      BY <3>1
  <2>3. CASE M[j].seq = M[i].seq
    <3>1. M[i] = M[j]
      BY <1>2, <2>1, <2>3 DEF Distinct
    <3>2. i - 1 = j - 1
      BY <1>3, <3>1
    <3> QED
      BY <3>2
  <2> QED
    BY <2>1, <2>2, <2>3
<1>6. LinesOf(M) \subseteq S
  BY <1>3, <1>4 DEF LinesOf
<1>7. ASSUME NEW x \in S PROVE x \in LinesOf(M)
  <2> DEFINE i == Cardinality(Before(S, x)) + 1
  <2>0. Cardinality(Before(S, x)) \in Nat /\ Cardinality(Before(S, x)) < n
    BY <1>2, BeforeFinite DEF n
  <2>1. i \in 1 .. n /\ Cardinality(Before(S, x)) = i - 1
    BY <1>2, <2>0
  <2> HIDE DEF i
  <2>2. M[i] \in S /\ Cardinality(Before(S, M[i])) = i - 1
    BY <1>3, <2>1
  <2>3. M[i] = x
    <3>0. i \in Nat /\ ~(i - 1 < i - 1)
      BY <2>1
    <3>1. ~(M[i].seq < x.seq) /\ ~(x.seq < M[i].seq)
      BY <1>2, <2>1, <2>2, <3>0, RankGrows
    <3>2. M[i].seq = x.seq
      BY <1>2, <2>2, <3>1 DEF Lines
    <3> QED
      BY <1>2, <2>2, <3>2 DEF Distinct
  <2> QED
    BY <1>4, <2>1, <2>3 DEF LinesOf
<1> QED
  BY <1>4, <1>5, <1>6, <1>7 DEF M, S

(* The end of some lines, and what goes with the rest.                     *)
LEMMA LastOfIs ==
  ASSUME NEW s \in Seq(Lines), NEW n \in Nat
  PROVE  /\ LastOf(n, s) \in Seq(Lines)
         /\ Len(LastOf(n, s)) = IF Len(s) > n THEN n ELSE Len(s)
         /\ \A i \in DOMAIN LastOf(n, s) :
              /\ i + (Len(s) - Len(LastOf(n, s))) \in DOMAIN s
              /\ LastOf(n, s)[i] = s[i + (Len(s) - Len(LastOf(n, s)))]
<1> DEFINE m == IF Len(s) > n THEN Len(s) - n + 1 ELSE 1
           l == Len(s)
           t == LastOf(n, s)
<1>1. l \in Nat /\ DOMAIN s = 1 .. l /\ \A i \in 1 .. l : s[i] \in Lines
  OBVIOUS
<1>2. t = SubSeq(s, m, l)
  BY DEF LastOf
<1>3. m \in 1 .. l + 1 /\ l - m + 1 = IF l > n THEN n ELSE l
  BY <1>1
<1> HIDE DEF m, l, t
<1>4. m \in Int /\ l \in Int /\ \A i \in m .. l : s[i] \in Lines
  BY <1>1, <1>3
<1>5. /\ t \in Seq(Lines) /\ Len(t) = IF m <= l THEN l - m + 1 ELSE 0
      /\ \A i \in 1 .. l - m + 1 : t[i] = s[m + i - 1]
  BY <1>2, <1>4, SubSeqProperties
<1>6. Len(t) = l - m + 1
  BY <1>1, <1>3, <1>5
<1>7. DOMAIN t = 1 .. l - m + 1
  BY <1>5, <1>6
<1>8. ASSUME NEW i \in 1 .. l - m + 1
      PROVE  i + (l - Len(t)) \in 1 .. l /\ t[i] = s[i + (l - Len(t))]
  <2>1. i + (l - Len(t)) = m + i - 1 /\ m + i - 1 \in 1 .. l
    BY <1>1, <1>3, <1>6
  <2> QED
    BY <1>5, <2>1
<1>9. Len(t) = IF l > n THEN n ELSE l
  BY <1>3, <1>6
<1> QED
  BY <1>1, <1>5, <1>7, <1>8, <1>9 DEF t, l

(* The last n of n lines or fewer are all of them.                         *)
LEMMA LastOfAll ==
  ASSUME NEW s \in Seq(Lines), NEW n \in Nat, Len(s) <= n
  PROVE  LastOf(n, s) = s
<1> DEFINE t == LastOf(n, s)
<1>1. t \in Seq(Lines) /\ Len(s) \in Nat
  BY LastOfIs
<1>2. Len(t) = Len(s)
  BY <1>1, LastOfIs
<1>3. \A i \in DOMAIN t : t[i] = s[i + (Len(s) - Len(t))]
  BY LastOfIs
<1> HIDE DEF t
<1>4. DOMAIN t = 1 .. Len(s) /\ \A i \in 1 .. Len(s) : t[i] = s[i]
  BY <1>1, <1>2, <1>3
<1>5. t = s
  BY <1>1, <1>2, <1>4, SeqEqual
<1> QED
  BY <1>5 DEF t

(* What goes from a hub's lines is older than what stays.                  *)
LEMMA LastOfHub ==
  ASSUME NEW h, NEW P, NEW s, OfHub(h, s, P), NEW n \in Nat
  PROVE  /\ OfHub(h, LastOf(n, s), P) /\ LinesOf(LastOf(n, s)) \subseteq LinesOf(s)
         /\ \A x \in LinesOf(s) \ LinesOf(LastOf(n, s)) :
              \A y \in LinesOf(LastOf(n, s)) : x.seq < y.seq
<1> DEFINE t == LastOf(n, s)
           k == Len(s) - Len(t)
<1>1. s \in Seq(Lines) /\ DOMAIN s = 1 .. Len(s) /\ Len(s) \in Nat
  BY DEF OfHub
<1>2. /\ t \in Seq(Lines) /\ DOMAIN t = 1 .. Len(t) /\ Len(t) \in 0 .. Len(s)
      /\ \A i \in DOMAIN t : i + k \in DOMAIN s /\ t[i] = s[i + k]
  BY <1>1, LastOfIs
<1> HIDE DEF t
<1>3. k \in Nat
  BY <1>1, <1>2
<1>4. LinesOf(t) \subseteq LinesOf(s)
  BY <1>2 DEF LinesOf
<1>5. Ascending(t)
  <2> SUFFICES ASSUME NEW i \in DOMAIN t, NEW j \in DOMAIN t, i < j
               PROVE  t[i].seq < t[j].seq
    BY DEF Ascending
  <2>1. i + k < j + k
    BY <1>2, <1>3
  <2> QED
    BY <1>2, <2>1 DEF OfHub, Ascending
<1>6. ASSUME NEW x \in LinesOf(s) \ LinesOf(t), NEW y \in LinesOf(t)
      PROVE  x.seq < y.seq
  <2>1. PICK a \in DOMAIN s : x = s[a]
    BY DEF LinesOf
  <2>2. PICK b \in DOMAIN t : y = t[b]
    BY DEF LinesOf
  <2>3. a <= k
    <3> SUFFICES ASSUME a > k PROVE FALSE
      BY <1>1, <1>3
    <3>1. a - k \in DOMAIN t /\ (a - k) + k = a
      BY <1>1, <1>2, <1>3
    <3>2. t[a - k] = x
      BY <1>2, <2>1, <3>1
    <3> QED
      BY <3>1, <3>2 DEF LinesOf
  <2>4. a < b + k /\ b + k \in DOMAIN s /\ y = s[b + k]
    BY <1>1, <1>2, <1>3, <2>2, <2>3
  <2> QED
    BY <2>1, <2>4 DEF OfHub, Ascending
<1> QED
  BY <1>2, <1>4, <1>5, <1>6 DEF OfHub, t

(* One more element at the end of a sequence.                              *)
LEMMA AppendOne ==
  ASSUME NEW S, NEW s \in Seq(S), NEW x \in S
  PROVE  /\ Append(s, x) \in Seq(S) /\ Len(Append(s, x)) = Len(s) + 1 /\ Len(s) \in Nat
         /\ DOMAIN s = 1 .. Len(s) /\ DOMAIN Append(s, x) = 1 .. Len(s) + 1
         /\ (\A i \in 1 .. Len(s) : Append(s, x)[i] = s[i]) /\ Append(s, x)[Len(s) + 1] = x
         /\ LinesOf(Append(s, x)) = LinesOf(s) \cup {x}
<1>1. /\ Append(s, x) \in Seq(S) /\ Len(Append(s, x)) = Len(s) + 1 /\ Len(s) \in Nat
      /\ DOMAIN s = 1 .. Len(s) /\ DOMAIN Append(s, x) = 1 .. Len(s) + 1
      /\ (\A i \in 1 .. Len(s) : Append(s, x)[i] = s[i]) /\ Append(s, x)[Len(s) + 1] = x
  OBVIOUS
<1>2. 1 .. Len(s) + 1 = 1 .. Len(s) \cup {Len(s) + 1}
  BY <1>1
<1>3. LinesOf(Append(s, x)) = LinesOf(s) \cup {x}
  BY <1>1, <1>2 DEF LinesOf
<1> QED
  BY <1>1, <1>3

(* One line more, of lines.                                                *)
LEMMA AppendLine ==
  ASSUME NEW s \in Seq(Lines), NEW x \in Lines
  PROVE  /\ Append(s, x) \in Seq(Lines) /\ Len(Append(s, x)) = Len(s) + 1
         /\ LinesOf(Append(s, x)) = LinesOf(s) \cup {x}
BY AppendOne

(* A later line of the same hub at the end of its lines.                   *)
LEMMA AppendHub ==
  ASSUME NEW h, NEW P, NEW s, OfHub(h, s, P), NEW x \in Lines, x.hub = h,
         \A y \in P : y.seq < x.seq
  PROVE  OfHub(h, Append(s, x), P \cup {x})
<1>1. s \in Seq(Lines) /\ Len(s) \in Nat /\ DOMAIN s = 1 .. Len(s)
  BY DEF OfHub
<1>2. /\ Append(s, x) \in Seq(Lines) /\ DOMAIN Append(s, x) = 1 .. Len(s) + 1
      /\ LinesOf(Append(s, x)) = LinesOf(s) \cup {x}
      /\ \A i \in 1 .. Len(s) : Append(s, x)[i] = s[i]
      /\ Append(s, x)[Len(s) + 1] = x
  BY <1>1, AppendLine
<1>3. Ascending(Append(s, x))
  <2> SUFFICES ASSUME NEW i \in 1 .. Len(s) + 1, NEW j \in 1 .. Len(s) + 1, i < j
               PROVE  Append(s, x)[i].seq < Append(s, x)[j].seq
    BY <1>2 DEF Ascending
  <2>1. i \in 1 .. Len(s) /\ Append(s, x)[i] = s[i]
    BY <1>1, <1>2
  <2>2. CASE j \in 1 .. Len(s)
    BY <1>1, <1>2, <2>1, <2>2 DEF OfHub, Ascending
  <2>3. CASE j = Len(s) + 1
    <3>1. s[i] \in P
      BY <1>1, <2>1 DEF OfHub, LinesOf
    <3> QED
      BY <1>2, <2>1, <2>3, <3>1
  <2> QED
    BY <1>1, <2>2, <2>3
<1> QED
  BY <1>2, <1>3 DEF OfHub

(* A backlog to which a line is pushed.                                    *)
LEMMA PushKeeps ==
  ASSUME NEW h \in Hubs, NEW P, P \subseteq Lines, NEW s, Kept(h, s, P),
         NEW x \in Lines, x.hub = h, \A y \in P : y.seq < x.seq
  PROVE  Kept(h, Append(LastOf(Keeps[h] - 1, s), x), P \cup {x})
<1> DEFINE n == Keeps[h] - 1
           t == LastOf(n, s)
           u == Append(t, x)
<1>1. n \in Nat /\ Keeps[h] = n + 1 /\ OfHub(h, s, P) /\ s \in Seq(Lines)
      /\ Len(s) <= n + 1 /\ Len(s) \in Nat
  BY FeedAssumption DEF Kept, OfHub
<1> HIDE DEF n
<1>2. /\ OfHub(h, t, P) /\ LinesOf(t) \subseteq LinesOf(s)
      /\ \A y \in LinesOf(s) \ LinesOf(t) : \A z \in LinesOf(t) : y.seq < z.seq
  BY <1>1, LastOfHub
<1>a. t \in Seq(Lines)
  BY <1>2 DEF OfHub
<1>3. Len(t) = IF Len(s) > n THEN n ELSE Len(s)
  BY <1>1, LastOfIs
<1>4. Len(s) <= n => t = s
  BY <1>1, <1>a, LastOfAll
<1> HIDE DEF t
<1>5. /\ OfHub(h, u, P \cup {x}) /\ Len(u) = Len(t) + 1 /\ LinesOf(u) = LinesOf(t) \cup {x}
  BY <1>2, <1>a, AppendHub, AppendLine
<1> HIDE DEF u
<1>6. Len(u) <= Keeps[h]
  BY <1>1, <1>3, <1>5
<1>7. Newest(h, LinesOf(u), P \cup {x})
  <2> SUFFICES ASSUME NEW y \in P, y.hub = h, y \notin LinesOf(t), NEW z \in LinesOf(u)
               PROVE  y.seq < z.seq
    BY <1>5 DEF Newest
  <2>1. CASE z = x
    BY <2>1
  <2>2. CASE z \in LinesOf(t)
    <3>1. z \in LinesOf(s)
      BY <1>2, <2>2
    <3> QED
      BY <1>2, <2>2, <3>1 DEF Kept, Newest
  <2> QED
    BY <1>5, <2>1, <2>2
<1>8. Len(u) < Keeps[h] => All(h, LinesOf(u), P \cup {x})
  <2> SUFFICES ASSUME Len(u) < Keeps[h] PROVE All(h, LinesOf(u), P \cup {x})
    OBVIOUS
  <2>1. Len(s) < Keeps[h] /\ t = s
    BY <1>1, <1>3, <1>4, <1>5
  <2> QED
    BY <1>5, <2>1 DEF Kept, All
<1> QED
  BY <1>5, <1>6, <1>7, <1>8 DEF Kept, u, t, n

(* A line for the other hub.                                               *)
LEMMA OtherKeeps ==
  ASSUME NEW h \in Hubs, NEW P, NEW s, Kept(h, s, P), NEW x, x.hub # h
  PROVE  Kept(h, s, P \cup {x})
BY DEF Kept, OfHub, Newest, All

(* A sequence has finitely many lines.                                     *)
LEMMA LinesFinite ==
  ASSUME NEW s \in Seq(Lines)
  PROVE  IsFiniteSet(LinesOf(s)) /\ LinesOf(s) \subseteq Lines
<1>1. DOMAIN s = 1 .. Len(s) /\ Len(s) \in Nat /\ \A i \in DOMAIN s : s[i] \in Lines
  OBVIOUS
<1>2. IsFiniteSet(DOMAIN s)
  BY <1>1, FS_Interval
<1>3. s \in Surjection(DOMAIN s, LinesOf(s))
  BY <1>1 DEF Surjection, LinesOf
<1>4. IsFiniteSet(LinesOf(s))
  BY <1>2, <1>3, FS_Surjection
<1> QED
  BY <1>1, <1>4 DEF LinesOf

(* Lines in their order are as many as there are places.                   *)
LEMMA AscendingCount ==
  ASSUME NEW s \in Seq(Lines), Ascending(s)
  PROVE  Cardinality(LinesOf(s)) = Len(s)
<1>1. DOMAIN s = 1 .. Len(s) /\ Len(s) \in Nat /\ s \in [1 .. Len(s) -> Lines]
  OBVIOUS
<1>2. IsFiniteSet(1 .. Len(s)) /\ Cardinality(1 .. Len(s)) = Len(s)
  BY <1>1, FS_Interval
<1>3. \A i, j \in 1 .. Len(s) : s[i] = s[j] => i = j
  <2> SUFFICES ASSUME NEW i \in 1 .. Len(s), NEW j \in 1 .. Len(s), s[i] = s[j] PROVE i = j
    OBVIOUS
  <2>1. s[i].seq \in Nat /\ ~(s[i].seq < s[j].seq) /\ ~(s[j].seq < s[i].seq)
    BY <1>1 DEF Lines
  <2> QED
    BY <1>1, <2>1 DEF Ascending
<1>4. s \in Bijection(1 .. Len(s), LinesOf(s))
  BY <1>1, <1>3 DEF Bijection, Injection, IsInjective, Surjection, LinesOf
<1>5. Cardinality(LinesOf(s)) = Cardinality(1 .. Len(s))
  BY <1>2, <1>4, FS_Bijection DEF ExistsBijection
<1> QED
  BY <1>2, <1>5

(* Lines that are pushed stay pushed.                                      *)
LEMMA OfHubMore ==
  ASSUME NEW h, NEW s, NEW P, NEW Q, OfHub(h, s, P), P \subseteq Q
  PROVE  OfHub(h, s, Q)
BY DEF OfHub

(* A console has finitely many lines.                                      *)
LEMMA HasFinite ==
  ASSUME NEW f \in Feeds, NEW h \in Hubs
  PROVE  IsFiniteSet(Has(f, h)) /\ Cardinality(Has(f, h)) \in Nat
<1>1. f.shown \in Seq(Lines) /\ f.queue[h] \in Seq(Lines)
  BY DEF Feeds
<1>2. IsFiniteSet(LinesOf(f.shown)) /\ IsFiniteSet(LinesOf(f.queue[h]))
  BY <1>1, LinesFinite
<1>3. IsFiniteSet(LinesOf(f.shown) \cup LinesOf(f.queue[h]))
  BY <1>2, FS_Union
<1>4. Has(f, h) \subseteq LinesOf(f.shown) \cup LinesOf(f.queue[h])
  BY DEF Has
<1> QED
  BY <1>3, <1>4, FS_Subset, FS_CardinalityType

(* A line of another hub leaves nothing out.                               *)
LEMMA CompleteOther ==
  ASSUME NEW f, NEW h, NEW P, Complete(f, h, P), NEW x, x.hub # h
  PROVE  Complete(f, h, P \cup {x})
BY DEF Complete, Newest, All

(* A line that is heard leaves nothing out.                                *)
LEMMA CompleteHear ==
  ASSUME NEW f \in Feeds, NEW g \in Feeds, NEW h \in Hubs, NEW P, P \subseteq Lines,
         Complete(f, h, P), NEW x \in Lines, Has(g, h) = Has(f, h) \cup {x},
         \A y \in P : y.seq < x.seq
  PROVE  Complete(g, h, P \cup {x})
<1>1. Newest(h, Has(g, h), P \cup {x})
  BY DEF Complete, Newest
<1>2. CASE All(h, Has(f, h), P)
  <2>1. All(h, Has(g, h), P \cup {x})
    BY <1>2 DEF All
  <2> QED
    BY <1>1, <2>1 DEF Complete
<1>3. CASE Cardinality(Has(f, h)) >= Keeps[h]
  <2>1. Cardinality(Has(f, h)) <= Cardinality(Has(g, h))
    <3>1. IsFiniteSet(Has(g, h)) /\ Has(f, h) \subseteq Has(g, h)
      BY HasFinite
    <3> QED
      BY <3>1, FS_Subset
  <2>2. Cardinality(Has(f, h)) \in Nat /\ Cardinality(Has(g, h)) \in Nat /\ Keeps[h] \in Nat
    BY HasFinite, FeedAssumption
  <2>3. Cardinality(Has(g, h)) >= Keeps[h]
    BY <1>3, <2>1, <2>2
  <2> QED
    BY <1>1, <2>3 DEF Complete
<1> QED
  BY <1>2, <1>3 DEF Complete

(* A line is pushed: a console that hears it has it queued, and one that   *)
(* does not has not subscribed to its hub yet.                             *)
LEMMA HearKeeps ==
  ASSUME NEW P, NEW n \in Nat, Distinct(P), \A y \in P : y.seq < n,
         NEW f \in Feeds, Follows(f, P, n),
         NEW h \in Hubs, NEW x \in Lines, x.hub = h, x.seq = n
  PROVE  Hear(f, h, x) \in Feeds /\ Follows(Hear(f, h, x), P \cup {x}, n + 1)
<1>0. P \subseteq Lines /\ f.since \in Nat
  BY DEF Distinct, Feeds
<1>1. CASE h \notin f.hears
  <2>1. Hear(f, h, x) = f
    BY <1>1 DEF Hear
  <2>2. Connected(f, P, n) => Connected(f, P \cup {x}, n + 1)
    <3>1. \A k \in Hubs : OfHub(k, f.queue[k], P) => OfHub(k, f.queue[k], P \cup {x})
      BY OfHubMore
    <3>2. f.since <= n => f.since <= n + 1
      BY <1>0
    <3> QED
      BY <3>1, <3>2 DEF Connected
  <2>3. HalfWay(f, P) => HalfWay(f, P \cup {x})
    <3> SUFFICES ASSUME HalfWay(f, P) PROVE Complete(f, "log", P \cup {x})
      BY DEF HalfWay
    <3>1. x.hub # "log"
      BY <1>1 DEF HalfWay
    <3> QED
      BY <3>1, CompleteOther DEF HalfWay
  <2>4. ~Whole(f, P)
    BY <1>1 DEF Whole
  <2> QED
    BY <2>1, <2>2, <2>3, <2>4 DEF Follows
<1>2. CASE h \in f.hears
  <2> DEFINE g == Hear(f, h, x)
  <2>1. g = [f EXCEPT !.queue[h] = Append(@, x)]
    BY <1>2 DEF Hear
  <2>2. f.queue \in [Hubs -> Seq(Lines)] /\ f.queue[h] \in Seq(Lines)
    BY DEF Feeds
  <2>3. /\ Append(f.queue[h], x) \in Seq(Lines)
        /\ LinesOf(Append(f.queue[h], x)) = LinesOf(f.queue[h]) \cup {x}
    BY <2>2, AppendLine
  <2>4. /\ g.at = f.at /\ g.hears = f.hears /\ g.since = f.since /\ g.shown = f.shown
        /\ g.told = f.told /\ g.queue = [f.queue EXCEPT ![h] = Append(@, x)]
    BY <2>1 DEF Feeds
  <2>5. g \in Feeds
    <3>1. [f.queue EXCEPT ![h] = Append(@, x)] \in [Hubs -> Seq(Lines)]
      BY <2>2, <2>3
    <3>2. g = [f EXCEPT !.queue = [f.queue EXCEPT ![h] = Append(@, x)]]
      BY <2>1 DEF Feeds
    <3> QED
      BY <3>1, <3>2 DEF Feeds
  <2> HIDE DEF g
  <2>6. /\ g.queue[h] = Append(f.queue[h], x)
        /\ \A k \in Hubs : k # h => g.queue[k] = f.queue[k]
    BY <2>2, <2>4
  <2>7. Has(g, h) = Has(f, h) \cup {x} /\ \A k \in Hubs : k # h => Has(g, k) = Has(f, k)
    BY <2>3, <2>4, <2>6 DEF Has
  <2>8. Connected(f, P, n) => Connected(g, P \cup {x}, n + 1)
    <3> SUFFICES ASSUME Connected(f, P, n) PROVE Connected(g, P \cup {x}, n + 1)
      OBVIOUS
    <3>1. g.since <= n + 1 /\ LinesOf(g.shown) \subseteq P \cup {x}
      BY <1>0, <2>4 DEF Connected
    <3>2. OfHub(h, g.queue[h], P \cup {x})
      BY <2>6, AppendHub DEF Connected
    <3>3. \A y \in LinesOf(g.queue[h]) :
            y.seq >= g.since /\ \A z \in LinesOf(g.shown) : z.hub = h => z.seq < y.seq
      BY <1>0, <2>3, <2>4, <2>6 DEF Connected
    <3>4. ASSUME NEW k \in Hubs, k # h
          PROVE  /\ OfHub(k, g.queue[k], P \cup {x})
                 /\ \A y \in LinesOf(g.queue[k]) :
                      y.seq >= g.since /\ \A z \in LinesOf(g.shown) : z.hub = k => z.seq < y.seq
      <4>1. OfHub(k, g.queue[k], P \cup {x})
        BY <2>6, <3>4, OfHubMore DEF Connected
      <4> QED
        BY <2>4, <2>6, <3>4, <4>1 DEF Connected
    <3> QED
      BY <3>1, <3>2, <3>3, <3>4 DEF Connected
  <2>9. \A k \in Hubs : Complete(f, k, P) => Complete(g, k, P \cup {x})
    <3> SUFFICES ASSUME NEW k \in Hubs, Complete(f, k, P) PROVE Complete(g, k, P \cup {x})
      OBVIOUS
    <3>1. CASE k = h
      BY <1>0, <2>5, <2>7, <3>1, CompleteHear
    <3>2. CASE k # h
      <4>1. Complete(f, k, P \cup {x})
        BY <3>2, CompleteOther
      <4> QED
        BY <2>7, <3>2, <4>1 DEF Complete
    <3> QED
      BY <3>1, <3>2
  <2>10. HalfWay(f, P) => HalfWay(g, P \cup {x})
    <3> SUFFICES ASSUME HalfWay(f, P) PROVE HalfWay(g, P \cup {x})
      OBVIOUS
    <3>1. h = "log" /\ "log" \in Hubs /\ "audit" \in Hubs
      BY <1>2 DEF HalfWay, Hubs
    <3>2. g.queue["audit"] = << >>
      BY <2>6, <3>1 DEF HalfWay
    <3> QED
      BY <2>4, <2>9, <3>1, <3>2 DEF HalfWay
  <2>11. Whole(f, P) => Whole(g, P \cup {x})
    <3>1. InOrder(f) => InOrder(g)
      BY <2>4 DEF InOrder
    <3> QED
      BY <2>4, <2>9, <3>1 DEF Whole
  <2>12. Follows(g, P \cup {x}, n + 1)
    BY <2>4, <2>8, <2>10, <2>11 DEF Follows
  <2> QED
    BY <2>5, <2>12 DEF g
<1> QED
  BY <1>1, <1>2

(* A console that has a hub's backlog has what it should.                  *)
LEMMA FullBacklog ==
  ASSUME NEW f \in Feeds, NEW h \in Hubs, NEW P, NEW s, Kept(h, s, P),
         Has(f, h) = LinesOf(s)
  PROVE  Complete(f, h, P)
<1>1. s \in Seq(Lines) /\ Ascending(s) /\ Len(s) \in Nat /\ Keeps[h] \in Nat
  BY FeedAssumption DEF Kept, OfHub
<1>2. Cardinality(LinesOf(s)) = Len(s)
  BY <1>1, AscendingCount
<1>3. Len(s) < Keeps[h] \/ Len(s) >= Keeps[h]
  BY <1>1
<1> QED
  BY <1>2, <1>3 DEF Kept, Complete

(* The first subscription takes the backlog of the log (SubscribeLog).     *)
LEMMA LogKeeps ==
  ASSUME NEW P, NEW n \in Nat, NEW s, Kept("log", s, P), NEW f,
         f = [at |-> "half", hears |-> {"log"}, since |-> n,
              queue |-> Silence, shown |-> s, told |-> {}]
  PROVE  f \in Feeds /\ Follows(f, P, n)
<1>1. s \in Seq(Lines) /\ LinesOf(s) \subseteq P /\ \A x \in LinesOf(s) : x.hub = "log"
  BY DEF Kept, OfHub
<1>2. "log" \in Hubs /\ "audit" \in Hubs
  BY DEF Hubs
<1>3. Silence \in [Hubs -> Seq(Lines)] /\ \A h \in Hubs : Silence[h] = << >>
  BY DEF Silence
<1>4. f \in Feeds
  BY <1>1, <1>2, <1>3 DEF Feeds
<1>5. LinesOf(<< >>) = {}
  BY DEF LinesOf
<1>6. \A h \in Hubs : OfHub(h, << >>, P)
  BY <1>5 DEF OfHub, Ascending
<1>7. Connected(f, P, n)
  BY <1>1, <1>3, <1>5, <1>6 DEF Connected
<1>8. Has(f, "log") = LinesOf(s)
  BY <1>1, <1>2, <1>3, <1>5 DEF Has
<1>9. Complete(f, "log", P)
  BY <1>2, <1>4, <1>8, FullBacklog
<1>10. HalfWay(f, P)
  BY <1>1, <1>2, <1>3, <1>9 DEF HalfWay
<1> QED
  BY <1>4, <1>7, <1>10 DEF Follows

(* The second takes the announcements, and sorts both (SubscribeAudit).    *)
LEMMA AuditKeeps ==
  ASSUME NEW P, NEW n \in Nat, Distinct(P), NEW f \in Feeds, Follows(f, P, n), f.at = "half",
         NEW s, Kept("audit", s, P), NEW g,
         g = [f EXCEPT !.at = "on", !.hears = Hubs, !.shown = Merged(@, s)]
  PROVE  g \in Feeds /\ Follows(g, P, n)
<1>0. "log" \in Hubs /\ "audit" \in Hubs /\ Hubs = {"log", "audit"}
  BY DEF Hubs
<1>1. Connected(f, P, n) /\ HalfWay(f, P)
  BY DEF Follows
<1>2. LinesOf(s) \subseteq P /\ \A x \in LinesOf(s) : x.hub = "audit"
  BY DEF Kept, OfHub
<1>3. Distinct(LinesOf(f.shown) \cup LinesOf(s))
  <2>1. LinesOf(f.shown) \cup LinesOf(s) \subseteq P
    BY <1>1, <1>2 DEF Connected
  <2>2. IsFiniteSet(LinesOf(f.shown) \cup LinesOf(s))
    BY <2>1, FS_Subset DEF Distinct
  <2> QED
    BY <2>1, <2>2 DEF Distinct
<1> DEFINE m == Merged(f.shown, s)
<1>4. /\ m \in Seq(Lines) /\ Ascending(m)
      /\ LinesOf(m) = LinesOf(f.shown) \cup LinesOf(s)
  BY <1>3, MergedSorts
<1> HIDE DEF m
<1>5. g = [f EXCEPT !.at = "on", !.hears = Hubs, !.shown = m]
  BY DEF m
<1>6. /\ g.at = "on" /\ g.hears = Hubs /\ g.since = f.since /\ g.shown = m
      /\ g.told = f.told /\ g.queue = f.queue /\ g \in Feeds
  BY <1>4, <1>5 DEF Feeds
<1>7. f.queue["audit"] = << >> /\ LinesOf(<< >>) = {} /\ f.told = {}
      /\ \A x \in LinesOf(f.shown) : x.hub = "log"
  BY <1>1 DEF HalfWay, LinesOf
<1>8. Has(g, "log") = Has(f, "log") /\ Has(g, "audit") = LinesOf(s)
  <2>1. Has(g, "log") = Has(f, "log")
    BY <1>2, <1>4, <1>6 DEF Has
  <2>2. Has(g, "audit") = LinesOf(s)
    BY <1>2, <1>4, <1>6, <1>7 DEF Has
  <2> QED
    BY <2>1, <2>2
<1>9. Complete(g, "log", P) /\ Complete(g, "audit", P)
  <2>1. Complete(g, "log", P)
    BY <1>1, <1>8 DEF HalfWay, Complete
  <2>2. Complete(g, "audit", P)
    BY <1>0, <1>6, <1>8, FullBacklog
  <2> QED
    BY <2>1, <2>2
<1>10. InOrder(g)
  BY <1>4, <1>6 DEF InOrder, Ascending
<1>11. Whole(g, P)
  BY <1>0, <1>6, <1>9, <1>10 DEF Whole
<1>12. Connected(g, P, n)
  <2>1. g.since <= n /\ LinesOf(g.shown) \subseteq P
    BY <1>1, <1>2, <1>4, <1>6 DEF Connected
  <2>2. \A h \in Hubs : OfHub(h, g.queue[h], P)
    BY <1>1, <1>6 DEF Connected
  <2>3. ASSUME NEW h \in Hubs, NEW y \in LinesOf(g.queue[h])
        PROVE  y.seq >= g.since /\ \A x \in LinesOf(g.shown) : x.hub = h => x.seq < y.seq
    <3>1. h = "log"
      BY <1>0, <1>6, <1>7, <2>3
    <3> QED
      BY <1>1, <1>2, <1>4, <1>6, <2>3, <3>1 DEF Connected
  <2> QED
    BY <2>1, <2>2, <2>3 DEF Connected
<1> QED
  BY <1>6, <1>11, <1>12 DEF Follows

(* A console that is told of a loss is owed no line of that hub (Lag).     *)
LEMMA LagKeeps ==
  ASSUME NEW P, NEW n \in Nat, NEW f \in Feeds, Follows(f, P, n), f.at = "on", NEW h \in Hubs,
         NEW g, g = [f EXCEPT !.queue[h] = LastOf(Channel, @), !.told = @ \cup {h}]
  PROVE  g \in Feeds /\ Follows(g, P, n)
<1>1. Connected(f, P, n) /\ Whole(f, P) /\ f.queue \in [Hubs -> Seq(Lines)] /\ Channel \in Nat
  BY FeedAssumption DEF Follows, Feeds
<1> DEFINE t == LastOf(Channel, f.queue[h])
<1>2. OfHub(h, f.queue[h], P)
  BY <1>1 DEF Connected
<1>3. OfHub(h, t, P) /\ LinesOf(t) \subseteq LinesOf(f.queue[h]) /\ t \in Seq(Lines)
  <2>1. OfHub(h, t, P) /\ LinesOf(t) \subseteq LinesOf(f.queue[h])
    BY <1>1, <1>2, LastOfHub
  <2> QED
    BY <2>1 DEF OfHub
<1> DEFINE q == [f.queue EXCEPT ![h] = t]
           w == f.told \cup {h}
<1>4. g = [f EXCEPT !.queue = q, !.told = w]
  BY DEF Feeds
<1>a. w \subseteq Hubs
  BY DEF Feeds
<1> HIDE DEF t, w
<1>5. q \in [Hubs -> Seq(Lines)] /\ q[h] = t /\ \A k \in Hubs : k # h => q[k] = f.queue[k]
  BY <1>1, <1>3
<1> HIDE DEF q
<1>6. /\ g.at = "on" /\ g.hears = f.hears /\ g.since = f.since /\ g.shown = f.shown
      /\ g.told = w /\ g.queue = q /\ g \in Feeds
  BY <1>4, <1>5, <1>a DEF Feeds
<1>7. Connected(g, P, n)
  <2>1. \A k \in Hubs :
          OfHub(k, g.queue[k], P) /\ LinesOf(g.queue[k]) \subseteq LinesOf(f.queue[k])
    BY <1>1, <1>3, <1>5, <1>6 DEF Connected
  <2> QED
    BY <1>1, <1>6, <2>1 DEF Connected
<1>8. Whole(g, P)
  <2>1. \A k \in Hubs \ g.told : Has(g, k) = Has(f, k) /\ k \in Hubs \ f.told
    BY <1>5, <1>6 DEF Has, w
  <2>2. \A k \in Hubs \ g.told : Complete(g, k, P)
    BY <1>1, <2>1 DEF Whole, Complete
  <2>3. InOrder(g)
    BY <1>1, <1>6 DEF InOrder, Whole
  <2> QED
    BY <1>1, <1>6, <2>2, <2>3 DEF Whole
<1> QED
  BY <1>6, <1>7, <1>8 DEF Follows

(* The first line and the others.                                          *)
LEMMA HeadTail ==
  ASSUME NEW s \in Seq(Lines), s # << >>
  PROVE  /\ Head(s) \in Lines /\ Tail(s) \in Seq(Lines)
         /\ LinesOf(s) = {Head(s)} \cup LinesOf(Tail(s))
         /\ Ascending(s) => /\ Ascending(Tail(s))
                            /\ \A y \in LinesOf(Tail(s)) : Head(s).seq < y.seq
<1>1. /\ Head(s) \in Lines /\ Tail(s) \in Seq(Lines) /\ Len(Tail(s)) = Len(s) - 1
      /\ \A i \in 1 .. Len(Tail(s)) : Tail(s)[i] = s[i + 1]
  BY HeadTailProperties
<1>2. /\ Len(s) \in Nat \ {0} /\ DOMAIN s = 1 .. Len(s) /\ Head(s) = s[1]
  BY EmptySeq
<1> DEFINE t == Tail(s)
<1>3. DOMAIN t = 1 .. Len(s) - 1 /\ \A i \in 1 .. Len(s) - 1 : t[i] = s[i + 1]
  BY <1>1
<1> HIDE DEF t
<1>4. LinesOf(s) \subseteq {Head(s)} \cup LinesOf(t)
  <2> SUFFICES ASSUME NEW i \in 1 .. Len(s) PROVE s[i] \in {Head(s)} \cup LinesOf(t)
    BY <1>2 DEF LinesOf
  <2>1. CASE i = 1
    BY <1>2, <2>1
  <2>2. CASE i # 1
    <3>1. i - 1 \in 1 .. Len(s) - 1 /\ (i - 1) + 1 = i
      BY <1>2, <2>2
    <3>2. t[i - 1] = s[i] /\ i - 1 \in DOMAIN t
      BY <1>3, <3>1
    <3> QED
      BY <3>2 DEF LinesOf
  <2> QED
    BY <2>1, <2>2
<1>5. ASSUME NEW i \in 1 .. Len(s) - 1
      PROVE  i + 1 \in 1 .. Len(s) /\ t[i] = s[i + 1] /\ 1 < i + 1
  BY <1>2, <1>3
<1>6. {Head(s)} \cup LinesOf(t) \subseteq LinesOf(s)
  <2>1. 1 \in DOMAIN s
    BY <1>2
  <2> QED
    BY <1>2, <1>3, <1>5, <2>1 DEF LinesOf
<1>7. ASSUME Ascending(s)
      PROVE  Ascending(t) /\ \A y \in LinesOf(t) : Head(s).seq < y.seq
  <2>1. ASSUME NEW i \in 1 .. Len(s) - 1, NEW j \in 1 .. Len(s) - 1, i < j
        PROVE  t[i].seq < t[j].seq
    <3>1. i + 1 < j + 1
      BY <2>1
    <3> QED
      BY <1>2, <1>5, <1>7, <3>1 DEF Ascending
  <2>2. ASSUME NEW i \in 1 .. Len(s) - 1 PROVE Head(s).seq < t[i].seq
    <3>1. 1 \in DOMAIN s
      BY <1>2
    <3> QED
      BY <1>2, <1>5, <1>7, <3>1 DEF Ascending
  <2> QED
    BY <1>3, <2>1, <2>2 DEF Ascending, LinesOf
<1> QED
  BY <1>1, <1>4, <1>6, <1>7 DEF t

(* The next line comes after all lines of its hub, and after the first     *)
(* frame (Receive).                                                        *)
LEMMA ReceiveKeeps ==
  ASSUME NEW P, NEW n \in Nat, Distinct(P), NEW f \in Feeds, Follows(f, P, n), f.at = "on",
         NEW h \in Hubs, f.queue[h] # << >>, NEW g,
         g = [f EXCEPT !.shown = Append(@, Head(f.queue[h])), !.queue[h] = Tail(@)]
  PROVE  g \in Feeds /\ Follows(g, P, n)
<1>1. /\ Connected(f, P, n) /\ Whole(f, P) /\ f.queue \in [Hubs -> Seq(Lines)]
      /\ f.queue[h] \in Seq(Lines) /\ f.shown \in Seq(Lines) /\ f.since \in Nat
  BY DEF Follows, Feeds
<1> DEFINE x == Head(f.queue[h])
           t == Tail(f.queue[h])
           q == [f.queue EXCEPT ![h] = t]
           s == Append(f.shown, x)
<1>2. g = [f EXCEPT !.shown = s, !.queue = q]
  BY DEF Feeds
<1>3. /\ x \in Lines /\ t \in Seq(Lines) /\ LinesOf(f.queue[h]) = {x} \cup LinesOf(t)
      /\ Ascending(t) /\ \A y \in LinesOf(t) : x.seq < y.seq
  <2>1. Ascending(f.queue[h])
    BY <1>1 DEF Connected, OfHub
  <2> QED
    BY <1>1, <2>1, HeadTail
<1> HIDE DEF x, t
<1>4. s \in Seq(Lines) /\ LinesOf(s) = LinesOf(f.shown) \cup {x}
  BY <1>1, <1>3, AppendLine
<1>5. q \in [Hubs -> Seq(Lines)] /\ q[h] = t /\ \A k \in Hubs : k # h => q[k] = f.queue[k]
  BY <1>1, <1>3
<1>6. /\ DOMAIN s = 1 .. Len(f.shown) + 1 /\ DOMAIN f.shown = 1 .. Len(f.shown)
      /\ Len(f.shown) \in Nat
      /\ \A i \in 1 .. Len(f.shown) : s[i] = f.shown[i]
      /\ s[Len(f.shown) + 1] = x
  BY <1>1, <1>3
<1> HIDE DEF q, s
<1>7. /\ g.at = "on" /\ g.hears = f.hears /\ g.since = f.since /\ g.shown = s
      /\ g.told = f.told /\ g.queue = q /\ g \in Feeds
  BY <1>2, <1>4, <1>5 DEF Feeds
<1>8. /\ x \in P /\ x.hub = h /\ x.seq >= f.since
      /\ \A y \in LinesOf(f.shown) : y.hub = h => y.seq < x.seq
      /\ \A y \in LinesOf(t) : y.hub = h
  BY <1>1, <1>3 DEF Connected, OfHub
<1>9. Connected(g, P, n)
  <2>1. g.since <= n /\ LinesOf(g.shown) \subseteq P
    BY <1>1, <1>4, <1>7, <1>8 DEF Connected
  <2>2. OfHub(h, t, P) /\ LinesOf(t) \subseteq LinesOf(f.queue[h])
    BY <1>1, <1>3 DEF Connected, OfHub
  <2>3. ASSUME NEW y \in LinesOf(t)
        PROVE  y.seq >= f.since /\ \A z \in LinesOf(s) : z.hub = h => z.seq < y.seq
    <3>1. y \in LinesOf(f.queue[h])
      BY <2>2
    <3> QED
      BY <1>1, <1>3, <1>4, <2>3, <3>1 DEF Connected
  <2>4. ASSUME NEW k \in Hubs, k # h, NEW y \in LinesOf(f.queue[k])
        PROVE  y.seq >= f.since /\ \A z \in LinesOf(s) : z.hub = k => z.seq < y.seq
    BY <1>1, <1>4, <1>8, <2>4 DEF Connected
  <2>5. ASSUME NEW k \in Hubs, k # h PROVE OfHub(k, f.queue[k], P)
    BY <1>1 DEF Connected
  <2>6. ASSUME NEW k \in Hubs
        PROVE  /\ OfHub(k, g.queue[k], P)
               /\ \A y \in LinesOf(g.queue[k]) :
                    y.seq >= g.since /\ \A z \in LinesOf(g.shown) : z.hub = k => z.seq < y.seq
    <3>1. CASE k = h
      BY <1>5, <1>7, <2>2, <2>3, <3>1
    <3>2. CASE k # h
      BY <1>5, <1>7, <2>4, <2>5, <3>2
    <3> QED
      BY <3>1, <3>2
  <2> QED
    BY <2>1, <2>6 DEF Connected
<1>10. \A k \in Hubs : Has(g, k) = Has(f, k)
  <2> SUFFICES ASSUME NEW k \in Hubs PROVE Has(g, k) = Has(f, k)
    OBVIOUS
  <2>1. CASE k = h
    BY <1>3, <1>4, <1>5, <1>7, <2>1 DEF Has
  <2>2. CASE k # h
    BY <1>4, <1>5, <1>7, <1>8, <2>2 DEF Has
  <2> QED
    BY <2>1, <2>2
<1>11. InOrder(g)
  <2> SUFFICES ASSUME NEW i \in 1 .. Len(f.shown) + 1, NEW j \in 1 .. Len(f.shown) + 1, i < j
               PROVE  \/ s[i].seq < s[j].seq
                      \/ s[i].hub # s[j].hub /\ s[j].seq >= f.since /\ s[i].seq > s[j].seq
    <3>1. DOMAIN g.shown = 1 .. Len(f.shown) + 1 /\ g.shown = s /\ g.since = f.since
      BY <1>6, <1>7
    <3> QED
      BY <3>1 DEF InOrder
  <2>1. i \in 1 .. Len(f.shown) /\ s[i] = f.shown[i] /\ s[i] \in LinesOf(f.shown)
    <3>1. i \in 1 .. Len(f.shown)
      BY <1>6
    <3> QED
      BY <1>6, <3>1 DEF LinesOf
  <2>2. CASE j \in 1 .. Len(f.shown)
    <3>1. j \in DOMAIN f.shown /\ i \in DOMAIN f.shown /\ s[j] = f.shown[j] /\ InOrder(f)
      BY <1>1, <1>6, <2>1, <2>2 DEF Whole
    <3> QED
      BY <2>1, <3>1, Zenon DEF InOrder
  <2>3. CASE j = Len(f.shown) + 1
    <3>1. s[j] = x
      BY <1>6, <2>3
    <3>2. CASE s[i].hub = h
      BY <1>8, <2>1, <3>1, <3>2
    <3>3. CASE s[i].hub # h
      <4>1. s[i] \in P /\ s[i] # x
        BY <1>1, <1>8, <2>1, <3>3 DEF Connected
      <4>2. s[i].seq # x.seq /\ s[i].seq \in Nat /\ x.seq \in Nat
        BY <1>8, <4>1 DEF Distinct, Lines
      <4> QED
        BY <1>8, <3>1, <3>3, <4>2
    <3> QED
      BY <3>2, <3>3
  <2> QED
    BY <1>6, <2>2, <2>3
<1>12. Whole(g, P)
  BY <1>1, <1>7, <1>10, <1>11 DEF Whole, Complete
<1> QED
  BY <1>7, <1>9, <1>12 DEF Follows

(* A console that is closed is owed nothing.                               *)
LEMMA OffFollows ==
  ASSUME NEW P, NEW n
  PROVE  Off \in Feeds /\ Follows(Off, P, n)
<1>1. Silence \in [Hubs -> Seq(Lines)]
  BY DEF Silence
<1> QED
  BY <1>1 DEF Off, Feeds, Follows

(* The lines of both hubs, by number.                                      *)
Numbered(p, n) ==
  /\ n = Len(p) /\ p \in Seq(Lines)
  /\ \A i \in DOMAIN p : p[i].seq = i - 1

(* What holds of the hubs and of every console.                            *)
FeedInv ==
  /\ Numbered(pushed, seq)
  /\ backlog \in [Hubs -> Seq(Lines)]
  /\ \A h \in Hubs : Kept(h, backlog[h], LinesOf(pushed))
  /\ feed \in [Viewer -> Feeds]
  /\ \A v \in Viewer : Follows(feed[v], LinesOf(pushed), seq)

(* Lines by number have one number each, below the next one.               *)
LEMMA NumberedDistinct ==
  ASSUME NEW p, NEW n, Numbered(p, n)
  PROVE  /\ n \in Nat /\ Distinct(LinesOf(p)) /\ LinesOf(p) \subseteq Lines
         /\ \A x \in LinesOf(p) : x.seq < n
<1>1. /\ p \in Seq(Lines) /\ n = Len(p) /\ n \in Nat /\ DOMAIN p = 1 .. n
      /\ \A i \in 1 .. n : p[i].seq = i - 1
  BY DEF Numbered
<1>2. IsFiniteSet(LinesOf(p)) /\ LinesOf(p) \subseteq Lines
  BY <1>1, LinesFinite
<1>3. \A i, j \in 1 .. n : p[i].seq = p[j].seq => i = j
  <2> SUFFICES ASSUME NEW i \in 1 .. n, NEW j \in 1 .. n, p[i].seq = p[j].seq PROVE i = j
    OBVIOUS
  <2>1. i - 1 = j - 1
    BY <1>1
  <2> QED
    BY <2>1
<1>4. \A x, y \in LinesOf(p) : x.seq = y.seq => x = y
  BY <1>1, <1>3 DEF LinesOf
<1>5. \A x \in LinesOf(p) : x.seq < n
  <2> SUFFICES ASSUME NEW i \in 1 .. n PROVE p[i].seq < n
    BY <1>1 DEF LinesOf
  <2>1. p[i].seq = i - 1
    BY <1>1
  <2> QED
    BY <1>1, <2>1
<1> QED
  BY <1>1, <1>2, <1>4, <1>5 DEF Distinct

(* The next number goes to the next line.                                  *)
LEMMA NumberedPush ==
  ASSUME NEW p, NEW n, Numbered(p, n), NEW x \in Lines, x.seq = n
  PROVE  Numbered(Append(p, x), n + 1) /\ LinesOf(Append(p, x)) = LinesOf(p) \cup {x}
<1>1. /\ p \in Seq(Lines) /\ n = Len(p) /\ n \in Nat /\ DOMAIN p = 1 .. n
      /\ \A i \in 1 .. n : p[i].seq = i - 1
  BY DEF Numbered
<1> DEFINE a == Append(p, x)
<1>2. /\ a \in Seq(Lines) /\ Len(a) = n + 1 /\ LinesOf(a) = LinesOf(p) \cup {x}
  BY <1>1, AppendLine
<1>3. DOMAIN a = 1 .. n + 1 /\ (\A i \in 1 .. n : a[i] = p[i]) /\ a[n + 1] = x
  BY <1>1
<1> HIDE DEF a
<1>4. ASSUME NEW i \in 1 .. n + 1 PROVE a[i].seq = i - 1
  <2>1. CASE i = n + 1
    BY <1>1, <1>3, <2>1
  <2>2. CASE i # n + 1
    <3>1. i \in 1 .. n
      BY <1>1, <2>2
    <3> QED
      BY <1>1, <1>3, <3>1
  <2> QED
    BY <2>1, <2>2
<1> QED
  BY <1>2, <1>3, <1>4 DEF Numbered, a

(* LogHub::push, for every backlog and every console.                      *)
LEMMA PushFeed ==
  ASSUME FeedInv, NEW h \in Hubs, NEW x \in Lines, x.hub = h, x.seq = seq, Push(h, x)
  PROVE  FeedInv'
<1> DEFINE P == LinesOf(pushed)
<1>1. /\ Numbered(pushed, seq) /\ backlog \in [Hubs -> Seq(Lines)]
      /\ \A k \in Hubs : Kept(k, backlog[k], P)
      /\ feed \in [Viewer -> Feeds] /\ \A v \in Viewer : Follows(feed[v], P, seq)
  BY DEF FeedInv
<1>2. /\ seq' = seq + 1 /\ pushed' = Append(pushed, x)
      /\ backlog' = [backlog EXCEPT ![h] = Append(LastOf(Keeps[h] - 1, @), x)]
      /\ feed' = [v \in Viewer |-> Hear(feed[v], h, x)]
  BY DEF Push
<1>3. /\ seq \in Nat /\ Distinct(P) /\ P \subseteq Lines /\ \A y \in P : y.seq < seq
  BY <1>1, NumberedDistinct
<1>4. Numbered(pushed', seq') /\ LinesOf(pushed') = P \cup {x}
  BY <1>1, <1>2, NumberedPush
<1> HIDE DEF P
<1> DEFINE b == Append(LastOf(Keeps[h] - 1, backlog[h]), x)
<1>5. Kept(h, b, P \cup {x})
  BY <1>1, <1>3, PushKeeps
<1>6. b \in Seq(Lines)
  BY <1>5 DEF Kept, OfHub
<1>7. backlog' = [backlog EXCEPT ![h] = b]
  BY <1>2
<1> HIDE DEF b
<1>8. /\ backlog' \in [Hubs -> Seq(Lines)] /\ backlog'[h] = b
      /\ \A k \in Hubs : k # h => backlog'[k] = backlog[k]
  BY <1>1, <1>6, <1>7
<1>9. ASSUME NEW k \in Hubs PROVE Kept(k, backlog'[k], P \cup {x})
  <2>1. CASE k = h
    BY <1>5, <1>8, <2>1
  <2>2. CASE k # h
    <3>1. Kept(k, backlog[k], P \cup {x})
      BY <1>1, <2>2, OtherKeeps
    <3> QED
      BY <1>8, <2>2, <3>1
  <2> QED
    BY <2>1, <2>2
<1>10. ASSUME NEW v \in Viewer
       PROVE  feed'[v] \in Feeds /\ Follows(feed'[v], P \cup {x}, seq')
  <2>1. feed'[v] = Hear(feed[v], h, x) /\ feed[v] \in Feeds /\ Follows(feed[v], P, seq)
    BY <1>1, <1>2
  <2>2. Hear(feed[v], h, x) \in Feeds /\ Follows(Hear(feed[v], h, x), P \cup {x}, seq + 1)
    BY <1>3, <2>1, HearKeeps
  <2> QED
    BY <1>2, <2>1, <2>2
<1>11. feed' \in [Viewer -> Feeds]
  <2>1. feed' = [v \in Viewer |-> feed'[v]]
    BY <1>2
  <2> QED
    BY <1>10, <2>1
<1> QED
  BY <1>4, <1>8, <1>9, <1>10, <1>11 DEF FeedInv

(* A step of one console is no step of another.                            *)
LEMMA OneFeed ==
  ASSUME FeedInv, NEW v \in Viewer, NEW g \in Feeds, Follows(g, LinesOf(pushed), seq),
         feed' = [feed EXCEPT ![v] = g], UNCHANGED hubs
  PROVE  FeedInv'
<1>1. /\ seq' = seq /\ pushed' = pushed /\ backlog' = backlog
  BY DEF hubs
<1>2. feed' \in [Viewer -> Feeds] /\ \A u \in Viewer : feed'[u] = IF u = v THEN g ELSE feed[u]
  BY DEF FeedInv
<1>3. \A u \in Viewer : Follows(feed'[u], LinesOf(pushed), seq)
  BY <1>2 DEF FeedInv
<1> QED
  BY <1>1, <1>2, <1>3 DEF FeedInv

(* stream_log subscribes to the log.                                       *)
LEMMA SubscribeLogFeed ==
  ASSUME FeedInv, NEW v \in Viewer, SubscribeLog(v)
  PROVE  FeedInv'
<1> DEFINE g == [at |-> "half", hears |-> {"log"}, since |-> seq,
                 queue |-> Silence, shown |-> backlog["log"], told |-> {}]
<1>1. feed' = [feed EXCEPT ![v] = g] /\ UNCHANGED hubs
  BY DEF SubscribeLog
<1>2. seq \in Nat /\ Kept("log", backlog["log"], LinesOf(pushed))
  BY NumberedDistinct DEF FeedInv, Hubs
<1>3. g \in Feeds /\ Follows(g, LinesOf(pushed), seq)
  BY <1>2, LogKeeps
<1> HIDE DEF g
<1> QED
  BY <1>1, <1>3, OneFeed

(* stream_log subscribes to the audit.                                     *)
LEMMA SubscribeAuditFeed ==
  ASSUME FeedInv, NEW v \in Viewer, SubscribeAudit(v)
  PROVE  FeedInv'
<1> DEFINE g == [feed[v] EXCEPT !.at = "on", !.hears = Hubs,
                                !.shown = Merged(@, backlog["audit"])]
<1>1. feed' = [feed EXCEPT ![v] = g] /\ UNCHANGED hubs /\ feed[v].at = "half"
  BY DEF SubscribeAudit, FeedInv
<1>2. /\ seq \in Nat /\ Distinct(LinesOf(pushed))
      /\ Kept("audit", backlog["audit"], LinesOf(pushed))
      /\ feed[v] \in Feeds /\ Follows(feed[v], LinesOf(pushed), seq)
  BY NumberedDistinct DEF FeedInv, Hubs
<1>3. g \in Feeds /\ Follows(g, LinesOf(pushed), seq)
  BY <1>1, <1>2, AuditKeeps
<1> HIDE DEF g
<1> QED
  BY <1>1, <1>3, OneFeed

(* log_stream sends a line.                                                *)
LEMMA ReceiveFeed ==
  ASSUME FeedInv, NEW v \in Viewer, NEW h \in Hubs, Receive(v, h)
  PROVE  FeedInv'
<1> DEFINE g == [feed[v] EXCEPT !.shown = Append(@, Head(feed[v].queue[h])),
                                !.queue[h] = Tail(@)]
<1>1. feed' = [feed EXCEPT ![v] = g] /\ UNCHANGED hubs /\ feed[v].at = "on"
  BY DEF Receive, FeedInv
<1>2. /\ seq \in Nat /\ Distinct(LinesOf(pushed))
      /\ feed[v] \in Feeds /\ Follows(feed[v], LinesOf(pushed), seq)
  BY NumberedDistinct DEF FeedInv
<1>3. feed[v].queue[h] # << >>
  BY DEF Receive
<1>4. g \in Feeds /\ Follows(g, LinesOf(pushed), seq)
  BY <1>1, <1>2, <1>3, ReceiveKeeps
<1> HIDE DEF g
<1> QED
  BY <1>1, <1>4, OneFeed

(* log_stream sends a notice.                                              *)
LEMMA LagFeed ==
  ASSUME FeedInv, NEW v \in Viewer, NEW h \in Hubs, Lag(v, h)
  PROVE  FeedInv'
<1> DEFINE g == [feed[v] EXCEPT !.queue[h] = LastOf(Channel, @), !.told = @ \cup {h}]
<1>1. feed' = [feed EXCEPT ![v] = g] /\ UNCHANGED hubs /\ feed[v].at = "on"
  BY DEF Lag, FeedInv
<1>2. /\ seq \in Nat
      /\ feed[v] \in Feeds /\ Follows(feed[v], LinesOf(pushed), seq)
  BY NumberedDistinct DEF FeedInv
<1>3. g \in Feeds /\ Follows(g, LinesOf(pushed), seq)
  BY <1>1, <1>2, LagKeeps
<1> HIDE DEF g
<1> QED
  BY <1>1, <1>3, OneFeed

(* The browser goes away.                                                  *)
LEMMA LeaveFeed ==
  ASSUME FeedInv, NEW v \in Viewer, Leave(v)
  PROVE  FeedInv'
<1>1. feed' = [feed EXCEPT ![v] = Off] /\ UNCHANGED hubs
  BY DEF Leave
<1> QED
  BY <1>1, OffFollows, OneFeed

(* At the start, and after a restart, no line has been pushed.             *)
LEMMA NothingKept ==
  ASSUME NEW h \in Hubs
  PROVE  /\ Numbered(<< >>, 0) /\ Silence \in [Hubs -> Seq(Lines)]
         /\ Kept(h, Silence[h], LinesOf(<< >>))
<1>1. LinesOf(<< >>) = {} /\ Silence \in [Hubs -> Seq(Lines)] /\ Silence[h] = << >>
  BY DEF LinesOf, Silence
<1>2. Keeps[h] \in Nat
  BY FeedAssumption
<1> QED
  BY <1>1, <1>2 DEF Numbered, Kept, OfHub, Ascending, Newest, All

(* The service starts.                                                     *)
LEMMA InitFeed ==
  ASSUME Init
  PROVE  FeedInv
<1>1. Silence \in [Hubs -> Seq(Lines)] /\ Numbered(<< >>, 0)
  BY NothingKept DEF Hubs
<1> QED
  BY <1>1, NothingKept, OffFollows DEF Init, FeedInv

(* The service starts anew.                                                *)
LEMMA RestartFeed ==
  ASSUME Restart
  PROVE  FeedInv'
<1>1. Silence \in [Hubs -> Seq(Lines)] /\ Numbered(<< >>, 0)
  BY NothingKept DEF Hubs
<1> QED
  BY <1>1, NothingKept, OffFollows DEF Restart, FeedInv

(* A step of another part.                                                 *)
LEMMA FeedUnchanged ==
  ASSUME FeedInv, UNCHANGED <<hubs, feed>>
  PROVE  FeedInv'
BY DEF FeedInv, hubs

(* What the invariant says of a console.                                   *)
LEMMA FeedShows ==
  ASSUME FeedInv
  PROVE  OldLinesFirst /\ NoneMissed
<1>1. ASSUME NEW v \in Viewer, feed[v].at = "on" PROVE Whole(feed[v], LinesOf(pushed))
  BY <1>1 DEF FeedInv, Follows
<1>2. OldLinesFirst
  BY <1>1 DEF OldLinesFirst, Whole, InOrder
<1>3. \A v \in Viewer, h \in Hubs : Held(v, h) = Has(feed[v], h)
  BY DEF Held, Has
<1>4. NoneMissed
  <2> SUFFICES ASSUME NEW v \in Viewer, feed[v].at = "on", NEW h \in Hubs \ feed[v].told,
                      NEW x \in LinesOf(pushed), x.hub = h, x \notin Held(v, h)
               PROVE  /\ \A y \in Held(v, h) : x.seq < y.seq
                      /\ Cardinality(Held(v, h)) >= Keeps[h]
    BY DEF NoneMissed
  <2>1. Complete(feed[v], h, LinesOf(pushed)) /\ Held(v, h) = Has(feed[v], h)
    BY <1>1, <1>3 DEF Whole
  <2> QED
    BY <2>1 DEF Complete, Newest, All
<1> QED
  BY <1>2, <1>4

(* What is written of a command that is running.                           *)
Calls == [at: {"idle", "run", "settle", "announce"}, row: Nat, outcome: {"ok", "failed", None}]

(* The types of what commands use.                                         *)
CmdTyped ==
  /\ file \in Seq(Nat \cup {None}) /\ read \in 0 .. Len(file) /\ Len(file) <= MaxLog
  /\ rows \in Seq({"pending", "ok", "failed"}) /\ Len(rows) <= MaxCommands
  /\ call \in [Request -> Calls] /\ troubles \in 0 .. MaxTroubles

(* A command's row is its own, and it has not been announced.              *)
RowsOwned ==
  \A q \in Request : call[q].at # "idle" =>
    /\ call[q].row \in DOMAIN rows
    /\ \A i \in Announced : pushed[i].row # call[q].row
    /\ \A p \in Request : p # q /\ call[p].at # "idle" => call[p].row # call[q].row

(* A command knows what came of it, and its row says no other thing.       *)
OutcomesTrue ==
  \A q \in Request :
    /\ call[q].at \in {"run", "settle"} => rows[call[q].row] = "pending"
    /\ call[q].at \in {"settle", "announce"} =>
         /\ call[q].outcome \in {"ok", "failed"}
         /\ call[q].outcome = "ok" => call[q].row \in Ran
    /\ call[q].at = "announce" => rows[call[q].row] \in {call[q].outcome, "pending"}

(* What is announced has a row.                                            *)
Announcements == \A i \in Announced : pushed[i].row \in DOMAIN rows

(* What holds of commands: each part needs the others.                     *)
CmdInv == RowsOwned /\ OutcomesTrue /\ Announcements /\ AttributionHolds

(* The server prints a line of its own, which names no command.            *)
LEMMA ChatterCmd ==
  ASSUME CmdTyped, CmdInv, Chatter
  PROVE  CmdTyped' /\ CmdInv'
<1>1. /\ Len(file) < MaxLog /\ file' = Append(file, None)
      /\ UNCHANGED <<seq, backlog, pushed, read, rows, call, feed, troubles>>
  BY DEF Chatter, hubs
<1>2. /\ file' \in Seq(Nat \cup {None}) /\ Len(file') = Len(file) + 1 /\ Len(file) \in Nat
      /\ LinesOf(file') = LinesOf(file) \cup {None}
  <2>1. file \in Seq(Nat \cup {None}) /\ None \in Nat \cup {None}
    BY DEF CmdTyped
  <2> QED
    BY <1>1, <2>1, AppendOne
<1>3. CmdTyped'
  BY <1>1, <1>2, FeedAssumption DEF CmdTyped
<1>4. Ran' = Ran /\ Announced' = Announced
  BY <1>1, <1>2 DEF Ran, Announced
<1> QED
  BY <1>1, <1>3, <1>4 DEF CmdInv, RowsOwned, OutcomesTrue, Announcements, AttributionHolds

(* A line of the log is no announcement.                                   *)
LEMMA FollowCmd ==
  ASSUME FeedInv, CmdTyped, CmdInv, Follow
  PROVE  FeedInv' /\ CmdTyped' /\ CmdInv'
<1> DEFINE x == Line("log", file[read + 1], None)
<1>1. /\ read < Len(file) /\ Push("log", x) /\ read' = read + 1
      /\ UNCHANGED <<file, rows, call, troubles>>
  BY DEF Follow
<1>2. x \in Lines /\ x.hub = "log" /\ x.seq = seq
  <2>1. seq \in Nat
    BY NumberedDistinct DEF FeedInv
  <2>2. file[read + 1] \in Nat \cup {None}
    BY <1>1 DEF CmdTyped
  <2> QED
    BY <2>1, <2>2 DEF Line, Lines, Hubs
<1> HIDE DEF x
<1>3. FeedInv'
  BY <1>1, <1>2, PushFeed DEF Hubs
<1>4. CmdTyped'
  BY <1>1 DEF CmdTyped
<1>5. /\ DOMAIN pushed = 1 .. Len(pushed) /\ DOMAIN pushed' = 1 .. Len(pushed) + 1
      /\ Len(pushed) \in Nat /\ (\A i \in 1 .. Len(pushed) : pushed'[i] = pushed[i])
      /\ pushed'[Len(pushed) + 1] = x
  <2>1. pushed \in Seq(Lines) /\ pushed' = Append(pushed, x)
    BY <1>1 DEF FeedInv, Numbered, Push
  <2> QED
    BY <1>2, <2>1, AppendOne
<1>6. Announced' = Announced /\ \A i \in Announced : pushed'[i] = pushed[i]
  <2>1. \A i \in 1 .. Len(pushed) + 1 : i \in 1 .. Len(pushed) \/ i = Len(pushed) + 1
    BY <1>5
  <2>2. 1 .. Len(pushed) \subseteq 1 .. Len(pushed) + 1
    BY <1>5
  <2> QED
    BY <1>2, <1>5, <2>1, <2>2 DEF Announced
<1>7. Ran' = Ran
  BY <1>1 DEF Ran
<1> QED
  BY <1>1, <1>3, <1>4, <1>6, <1>7
     DEF CmdInv, RowsOwned, OutcomesTrue, Announcements, AttributionHolds

(* A command gets a row that no other has, and that nothing was announced  *)
(* of (audit::begin).                                                      *)
LEMMA BeginCmd ==
  ASSUME CmdTyped, CmdInv, NEW q \in Request, Begin(q)
  PROVE  CmdTyped' /\ CmdInv'
<1> DEFINE c == [at |-> "run", row |-> Len(rows) + 1, outcome |-> None]
<1>1. /\ Len(rows) < MaxCommands /\ rows' = Append(rows, "pending")
      /\ call' = [call EXCEPT ![q] = c]
      /\ UNCHANGED <<pushed, file, read, troubles>>
  BY DEF Begin, hubs
<1>2. /\ rows' \in Seq({"pending", "ok", "failed"}) /\ Len(rows') = Len(rows) + 1
      /\ Len(rows) \in Nat /\ DOMAIN rows = 1 .. Len(rows)
      /\ DOMAIN rows' = 1 .. Len(rows) + 1
      /\ (\A i \in 1 .. Len(rows) : rows'[i] = rows[i]) /\ rows'[Len(rows) + 1] = "pending"
  <2>1. rows \in Seq({"pending", "ok", "failed"}) /\ "pending" \in {"pending", "ok", "failed"}
    BY DEF CmdTyped
  <2> QED
    BY <1>1, <2>1, AppendOne
<1>3. c \in Calls /\ c.at = "run" /\ c.row = Len(rows) + 1
  BY <1>2 DEF Calls
<1> HIDE DEF c
<1>4. /\ call' \in [Request -> Calls] /\ call'[q] = c
      /\ \A p \in Request : p # q => call'[p] = call[p]
  BY <1>1, <1>3 DEF CmdTyped
<1>5. CmdTyped'
  BY <1>1, <1>2, <1>4, FeedAssumption DEF CmdTyped
<1>6. Ran' = Ran /\ Announced' = Announced
  BY <1>1 DEF Ran, Announced
<1> DEFINE n == Len(rows) + 1
<1>7. n \notin DOMAIN rows /\ DOMAIN rows' = DOMAIN rows \cup {n}
      /\ (\A r \in DOMAIN rows : rows'[r] = rows[r]) /\ rows'[n] = "pending" /\ c.row = n
  BY <1>2, <1>3
<1> HIDE DEF n
<1>8. RowsOwned'
  <2> SUFFICES ASSUME NEW p \in Request, call'[p].at # "idle"
               PROVE  /\ call'[p].row \in DOMAIN rows'
                      /\ \A i \in Announced : pushed[i].row # call'[p].row
                      /\ \A o \in Request :
                           o # p /\ call'[o].at # "idle" => call'[o].row # call'[p].row
    BY <1>1, <1>6 DEF RowsOwned
  <2>1. CASE p = q
    BY <1>4, <1>7, <2>1 DEF CmdInv, RowsOwned, Announcements
  <2>2. CASE p # q
    BY <1>4, <1>7, <2>2 DEF CmdInv, RowsOwned
  <2> QED
    BY <2>1, <2>2
<1>9. OutcomesTrue'
  <2> SUFFICES ASSUME NEW p \in Request
      PROVE  /\ call'[p].at \in {"run", "settle"} => rows'[call'[p].row] = "pending"
             /\ call'[p].at \in {"settle", "announce"} =>
                  /\ call'[p].outcome \in {"ok", "failed"}
                  /\ call'[p].outcome = "ok" => call'[p].row \in Ran
             /\ call'[p].at = "announce" => rows'[call'[p].row] \in {call'[p].outcome, "pending"}
    BY <1>6 DEF OutcomesTrue
  <2>1. CASE p = q
    BY <1>3, <1>4, <1>7, <2>1
  <2>2. CASE p # q
    <3>1. call[p].at # "idle" => call[p].row \in DOMAIN rows
      BY DEF CmdInv, RowsOwned
    <3> QED
      BY <1>4, <1>7, <2>2, <3>1 DEF CmdInv, OutcomesTrue
  <2> QED
    BY <2>1, <2>2
<1>10. Announcements' /\ AttributionHolds'
  BY <1>1, <1>6, <1>7 DEF CmdInv, Announcements, AttributionHolds
<1> QED
  BY <1>5, <1>8, <1>9, <1>10 DEF CmdInv

(* A command that could not be recorded is refused.                        *)
LEMMA BeginFailsCmd ==
  ASSUME CmdTyped, CmdInv, NEW q \in Request, BeginFails(q)
  PROVE  CmdTyped' /\ CmdInv'
<1>1. UNCHANGED <<pushed, file, read, rows, call>> /\ troubles' \in 0 .. MaxTroubles
  BY FeedAssumption DEF BeginFails, hubs, Trouble, CmdTyped
<1>2. Ran' = Ran /\ Announced' = Announced
  BY <1>1 DEF Ran, Announced
<1> QED
  BY <1>1, <1>2 DEF CmdTyped, CmdInv, RowsOwned, OutcomesTrue, Announcements, AttributionHolds

(* The server runs it, and what the handler heard is not better than what  *)
(* happened (run_command).                                                 *)
LEMMA RunCmd ==
  ASSUME CmdTyped, CmdInv, NEW q \in Request, Run(q)
  PROVE  CmdTyped' /\ CmdInv'
<1>0. /\ call[q].at = "run" /\ UNCHANGED <<pushed, read, rows, troubles>>
      /\ call \in [Request -> Calls] /\ call[q] \in Calls
  BY DEF Run, hubs, CmdTyped
<1>1. PICK outcome \in {"ok", "failed"} :
        /\ call' = [call EXCEPT ![q].at = "settle", ![q].outcome = outcome]
        /\ \/ Len(file) < MaxLog /\ file' = Append(file, call[q].row)
           \/ outcome = "failed" /\ file' = file
  BY DEF Run
<1>2. /\ file' \in Seq(Nat \cup {None}) /\ Len(file') <= MaxLog /\ read \in 0 .. Len(file')
      /\ LinesOf(file) \subseteq LinesOf(file')
      /\ LinesOf(file') \subseteq LinesOf(file) \cup {call[q].row}
      /\ outcome = "ok" => call[q].row \in LinesOf(file')
  <2>1. file \in Seq(Nat \cup {None}) /\ call[q].row \in Nat /\ Len(file) \in Nat
        /\ read \in 0 .. Len(file) /\ Len(file) <= MaxLog /\ MaxLog \in Nat
    BY <1>0, FeedAssumption DEF CmdTyped, Calls
  <2>2. CASE Len(file) < MaxLog /\ file' = Append(file, call[q].row)
    <3>1. /\ file' \in Seq(Nat \cup {None}) /\ Len(file') = Len(file) + 1
          /\ LinesOf(file') = LinesOf(file) \cup {call[q].row}
      BY <2>1, <2>2, AppendOne
    <3> QED
      BY <2>1, <2>2, <3>1
  <2>3. CASE outcome = "failed" /\ file' = file
    BY <2>1, <2>3
  <2> QED
    BY <1>1, <2>2, <2>3
<1>3. /\ call' \in [Request -> Calls] /\ \A p \in Request : p # q => call'[p] = call[p]
      /\ call'[q].at = "settle" /\ call'[q].outcome = outcome /\ call'[q].row = call[q].row
  BY <1>0, <1>1 DEF Calls
<1>4. CmdTyped'
  BY <1>0, <1>2, <1>3 DEF CmdTyped
<1>5. /\ Announced' = Announced /\ Ran \subseteq Ran' /\ Ran' \subseteq Ran \cup {call[q].row}
      /\ outcome = "ok" => call[q].row \in Ran'
  <2>1. call[q].row # None
    BY <1>0, FeedAssumption DEF Calls
  <2>2. Announced' = Announced
    BY <1>0 DEF Announced
  <2> QED
    BY <1>2, <2>1, <2>2 DEF Ran
<1>6. call[q].row \in DOMAIN rows /\ rows[call[q].row] = "pending"
  BY <1>0 DEF CmdInv, RowsOwned, OutcomesTrue
<1>7. RowsOwned'
  <2>1. \A p \in Request : /\ call'[p].row = call[p].row
                           /\ call'[p].at # "idle" => call[p].at # "idle"
    BY <1>0, <1>3
  <2> QED
    BY <1>0, <1>5, <2>1 DEF CmdInv, RowsOwned
<1>8. OutcomesTrue'
  <2> SUFFICES ASSUME NEW p \in Request
      PROVE  /\ call'[p].at \in {"run", "settle"} => rows[call'[p].row] = "pending"
             /\ call'[p].at \in {"settle", "announce"} =>
                  /\ call'[p].outcome \in {"ok", "failed"}
                  /\ call'[p].outcome = "ok" => call'[p].row \in Ran'
             /\ call'[p].at = "announce" => rows[call'[p].row] \in {call'[p].outcome, "pending"}
    BY <1>0 DEF OutcomesTrue
  <2>1. CASE p = q
    BY <1>3, <1>5, <1>6, <2>1
  <2>2. CASE p # q
    BY <1>3, <1>5, <2>2 DEF CmdInv, OutcomesTrue
  <2> QED
    BY <2>1, <2>2
<1>9. Announcements' /\ AttributionHolds'
  BY <1>0, <1>5, <1>6 DEF CmdInv, Announcements, AttributionHolds
<1> QED
  BY <1>4, <1>7, <1>8, <1>9 DEF CmdInv

(* Its row is settled, or stays pending (audit::settle).                   *)
LEMMA FinishCmd ==
  ASSUME CmdTyped, CmdInv, NEW q \in Request, Finish(q)
  PROVE  CmdTyped' /\ CmdInv'
<1> DEFINE r == call[q].row
<1>0. /\ call[q].at = "settle" /\ UNCHANGED <<pushed, file, read>>
      /\ call' = [call EXCEPT ![q].at = "announce"]
      /\ call \in [Request -> Calls] /\ call[q] \in Calls
  BY DEF Finish, hubs, CmdTyped
<1>1. /\ rows \in Seq({"pending", "ok", "failed"}) /\ Len(rows) <= MaxCommands
      /\ r \in DOMAIN rows /\ rows[r] = "pending" /\ call[q].outcome \in {"ok", "failed"}
      /\ call[q].outcome = "ok" => r \in Ran
  BY <1>0 DEF CmdTyped, CmdInv, RowsOwned, OutcomesTrue
<1>2. /\ rows' \in Seq({"pending", "ok", "failed"}) /\ Len(rows') <= MaxCommands
      /\ DOMAIN rows' = DOMAIN rows /\ troubles' \in 0 .. MaxTroubles
      /\ rows'[r] \in {call[q].outcome, "pending"}
      /\ \A s \in DOMAIN rows : s # r => rows'[s] = rows[s]
  <2>1. CASE rows' = [rows EXCEPT ![call[q].row] = call[q].outcome] /\ UNCHANGED troubles
    BY <1>1, <2>1 DEF CmdTyped
  <2>2. CASE Trouble /\ UNCHANGED rows
    BY <1>1, <2>2, FeedAssumption DEF Trouble, CmdTyped
  <2> QED
    BY <2>1, <2>2 DEF Finish
<1>3. /\ call' \in [Request -> Calls] /\ \A p \in Request : p # q => call'[p] = call[p]
      /\ call'[q].at = "announce" /\ call'[q].outcome = call[q].outcome /\ call'[q].row = r
  BY <1>0 DEF Calls
<1> HIDE DEF r
<1>4. CmdTyped'
  BY <1>0, <1>2, <1>3 DEF CmdTyped
<1>5. Announced' = Announced /\ Ran' = Ran
  BY <1>0 DEF Announced, Ran
<1>6. \A p \in Request : /\ call'[p].row = call[p].row
                         /\ call'[p].at # "idle" => call[p].at # "idle"
  BY <1>0, <1>3 DEF r
<1>7. RowsOwned'
  BY <1>0, <1>2, <1>5, <1>6 DEF CmdInv, RowsOwned
<1>8. OutcomesTrue'
  <2> SUFFICES ASSUME NEW p \in Request
      PROVE  /\ call'[p].at \in {"run", "settle"} => rows'[call'[p].row] = "pending"
             /\ call'[p].at \in {"settle", "announce"} =>
                  /\ call'[p].outcome \in {"ok", "failed"}
                  /\ call'[p].outcome = "ok" => call'[p].row \in Ran
             /\ call'[p].at = "announce" => rows'[call'[p].row] \in {call'[p].outcome, "pending"}
    BY <1>5 DEF OutcomesTrue
  <2>1. CASE p = q
    BY <1>1, <1>2, <1>3, <2>1
  <2>2. CASE p # q
    <3>1. call[p].at # "idle" => call[p].row \in DOMAIN rows /\ call[p].row # r
      BY <1>0, <2>2 DEF CmdInv, RowsOwned, r
    <3> QED
      BY <1>2, <1>3, <2>2, <3>1 DEF CmdInv, OutcomesTrue
  <2> QED
    BY <2>1, <2>2
<1>9. \A i \in Announced : pushed[i].row # r /\ pushed[i].row \in DOMAIN rows
  BY <1>0 DEF CmdInv, RowsOwned, Announcements, r
<1>10. Announcements' /\ AttributionHolds'
  BY <1>0, <1>1, <1>2, <1>5, <1>9 DEF CmdInv, Announcements, AttributionHolds
<1> QED
  BY <1>4, <1>7, <1>8, <1>10 DEF CmdInv

(* A request that is over.                                                 *)
LEMMA IdleCalls ==
  /\ Idle \in Calls /\ Idle.at = "idle"
BY DEF Idle, Calls

(* It is announced: for the first time, as its row belongs to it alone     *)
(* (audit::finish).                                                        *)
LEMMA AnnounceCmd ==
  ASSUME FeedInv, CmdTyped, CmdInv, NEW q \in Request, Announce(q)
  PROVE  FeedInv' /\ CmdTyped' /\ CmdInv'
<1> DEFINE r == call[q].row
           x == Line("audit", call[q].row, call[q].outcome)
<1>1. /\ call[q].at = "announce" /\ Push("audit", x) /\ call' = [call EXCEPT ![q] = Idle]
      /\ UNCHANGED <<file, read, rows, troubles>>
      /\ call \in [Request -> Calls] /\ call[q] \in Calls
  BY DEF Announce, CmdTyped
<1>2. /\ x \in Lines /\ x.hub = "audit" /\ x.seq = seq /\ x.row = r /\ x.outcome = call[q].outcome
  <2>1. seq \in Nat
    BY NumberedDistinct DEF FeedInv
  <2> QED
    BY <1>1, <2>1 DEF Line, Lines, Hubs, Calls
<1>3. FeedInv'
  <2> HIDE DEF x
  <2> QED
    BY <1>1, <1>2, PushFeed DEF Hubs
<1>4. /\ call' \in [Request -> Calls] /\ call'[q].at = "idle"
      /\ \A p \in Request : p # q => call'[p] = call[p]
  BY <1>1, IdleCalls
<1>5. CmdTyped'
  BY <1>1, <1>4 DEF CmdTyped
<1> HIDE DEF x, r
<1> DEFINE n == Len(pushed) + 1
<1>6. /\ DOMAIN pushed' = DOMAIN pushed \cup {n} /\ n \notin DOMAIN pushed
      /\ (\A i \in DOMAIN pushed : pushed'[i] = pushed[i]) /\ pushed'[n] = x
  <2>1. pushed \in Seq(Lines) /\ pushed' = Append(pushed, x)
    BY <1>1 DEF FeedInv, Numbered, Push
  <2>2. /\ DOMAIN pushed = 1 .. Len(pushed) /\ DOMAIN pushed' = 1 .. Len(pushed) + 1
        /\ Len(pushed) \in Nat /\ (\A i \in 1 .. Len(pushed) : pushed'[i] = pushed[i])
        /\ pushed'[Len(pushed) + 1] = x
    BY <1>2, <2>1, AppendOne
  <2>3. 1 .. Len(pushed) + 1 = 1 .. Len(pushed) \cup {n} /\ n \notin 1 .. Len(pushed)
    BY <2>2
  <2> QED
    BY <2>2, <2>3
<1> HIDE DEF n
<1>7. /\ Announced' = Announced \cup {n} /\ n \notin Announced
      /\ \A i \in Announced : pushed'[i] = pushed[i]
  BY <1>2, <1>6 DEF Announced
<1>8. Ran' = Ran
  BY <1>1 DEF Ran
<1>9. /\ r \in DOMAIN rows
      /\ call[q].outcome = "ok" => r \in Ran
      /\ rows[r] \in {call[q].outcome, "pending"}
      /\ \A i \in Announced : pushed[i].row # r
      /\ \A p \in Request : p # q /\ call[p].at # "idle" => call[p].row # r
  BY <1>1 DEF CmdInv, RowsOwned, OutcomesTrue, r
<1>10. RowsOwned'
  <2> SUFFICES ASSUME NEW p \in Request, call'[p].at # "idle"
               PROVE  /\ call'[p].row \in DOMAIN rows
                      /\ \A i \in Announced' : pushed'[i].row # call'[p].row
                      /\ \A o \in Request :
                           o # p /\ call'[o].at # "idle" => call'[o].row # call'[p].row
    BY <1>1 DEF RowsOwned
  <2>1. p # q /\ call'[p] = call[p]
    BY <1>4
  <2>2. /\ call[p].row \in DOMAIN rows /\ \A i \in Announced : pushed[i].row # call[p].row
        /\ \A o \in Request : o # p /\ call[o].at # "idle" => call[o].row # call[p].row
    BY <2>1 DEF CmdInv, RowsOwned
  <2>3. \A i \in Announced' : pushed'[i].row # call[p].row
    BY <1>2, <1>6, <1>7, <1>9, <2>1, <2>2
  <2> QED
    BY <1>4, <2>1, <2>2, <2>3
<1>11. OutcomesTrue'
  BY <1>1, <1>4, <1>8 DEF CmdInv, OutcomesTrue
<1>14. /\ rows' = rows /\ pushed'[n].row = r /\ pushed'[n].outcome = call[q].outcome
  BY <1>1, <1>2, <1>6
<1>15. \A i \in Announced : pushed[i].row \in DOMAIN rows
  BY DEF CmdInv, Announcements
<1>12. Announcements'
  <2>1. ASSUME NEW i \in Announced' PROVE pushed'[i].row \in DOMAIN rows
    <3>1. CASE i = n
      BY <1>9, <1>14, <3>1
    <3>2. CASE i \in Announced
      BY <1>7, <1>15, <3>2
    <3> QED
      BY <1>7, <3>1, <3>2
  <2> QED
    BY <1>14, <2>1 DEF Announcements
<1>13. AttributionHolds'
  <2>1. Ran' \subseteq DOMAIN rows' /\ \A s \in DOMAIN rows' : rows'[s] = "ok" => s \in Ran'
    BY <1>1, <1>8 DEF CmdInv, AttributionHolds
  <2>2. ASSUME NEW i \in Announced'
        PROVE  /\ pushed'[i].outcome = "ok" => pushed'[i].row \in Ran'
               /\ rows'[pushed'[i].row] \in {pushed'[i].outcome, "pending"}
               /\ \A j \in Announced' : pushed'[j].row = pushed'[i].row => i = j
    <3>1. CASE i = n
      <4>1. \A j \in Announced' : pushed'[j].row = r => j = n
        <5> SUFFICES ASSUME NEW j \in Announced', j # n PROVE pushed'[j].row # r
          OBVIOUS
        <5>1. j \in Announced
          BY <1>7
        <5> QED
          BY <1>7, <1>9, <5>1
      <4> QED
        BY <1>8, <1>9, <1>14, <3>1, <4>1
    <3>2. CASE i \in Announced
      <4>1. /\ pushed[i].outcome = "ok" => pushed[i].row \in Ran
            /\ rows[pushed[i].row] \in {pushed[i].outcome, "pending"}
            /\ \A j \in Announced : pushed[j].row = pushed[i].row => i = j
            /\ pushed[i].row # r
        BY <1>9, <3>2 DEF CmdInv, AttributionHolds
      <4> QED
        BY <1>7, <1>8, <1>14, <3>2, <4>1
    <3> QED
      BY <1>7, <2>2, <3>1, <3>2
  <2> QED
    BY <2>1, <2>2 DEF AttributionHolds
<1> QED
  BY <1>3, <1>5, <1>10, <1>11, <1>12, <1>13 DEF CmdInv

(* The handler dies with its browser, and leaves the row as it is.         *)
LEMMA DropCmd ==
  ASSUME CmdTyped, CmdInv, NEW q \in Request, Drop(q)
  PROVE  CmdTyped' /\ CmdInv'
<1>1. /\ call' = [call EXCEPT ![q] = Idle] /\ UNCHANGED <<pushed, file, read, rows, troubles>>
  BY DEF Drop, hubs
<1>2. /\ call' \in [Request -> Calls] /\ call'[q].at = "idle"
      /\ \A p \in Request : p # q => call'[p] = call[p]
  BY <1>1, IdleCalls DEF CmdTyped
<1>3. CmdTyped'
  BY <1>1, <1>2 DEF CmdTyped
<1>4. Ran' = Ran /\ Announced' = Announced
  BY <1>1 DEF Ran, Announced
<1>5. RowsOwned' /\ OutcomesTrue'
  BY <1>1, <1>2, <1>4 DEF CmdInv, RowsOwned, OutcomesTrue
<1>6. Announcements' /\ AttributionHolds'
  BY <1>1, <1>4 DEF CmdInv, Announcements, AttributionHolds
<1> QED
  BY <1>3, <1>5, <1>6 DEF CmdInv

(* After a restart nothing has been announced.                             *)
LEMMA RestartCmd ==
  ASSUME CmdTyped, CmdInv, Restart
  PROVE  CmdTyped' /\ CmdInv'
<1>1. /\ pushed' = << >> /\ read' \in 0 .. Len(file) /\ call' = [q \in Request |-> Idle]
      /\ UNCHANGED <<file, rows>> /\ troubles' \in 0 .. MaxTroubles
  BY FeedAssumption DEF Restart, Trouble, CmdTyped
<1>2. call' \in [Request -> Calls] /\ \A q \in Request : call'[q].at = "idle"
  BY <1>1, IdleCalls
<1>3. CmdTyped'
  BY <1>1, <1>2 DEF CmdTyped
<1>4. Ran' = Ran /\ Announced' = {}
  BY <1>1 DEF Ran, Announced
<1>5. RowsOwned' /\ OutcomesTrue' /\ Announcements'
  BY <1>2, <1>4 DEF RowsOwned, OutcomesTrue, Announcements
<1>6. AttributionHolds'
  BY <1>1, <1>4 DEF CmdInv, AttributionHolds
<1> QED
  BY <1>3, <1>5, <1>6 DEF CmdInv

(* A step of a console is no step of a command.                            *)
LEMMA CmdUnchanged ==
  ASSUME CmdTyped, CmdInv, UNCHANGED <<hubs, file, read, rows, call, troubles>>
  PROVE  CmdTyped' /\ CmdInv'
<1>1. UNCHANGED <<pushed, file, read, rows, call, troubles>>
  BY DEF hubs
<1>2. Ran' = Ran /\ Announced' = Announced
  BY <1>1 DEF Ran, Announced
<1> QED
  BY <1>1, <1>2
     DEF CmdTyped, CmdInv, RowsOwned, OutcomesTrue, Announcements, AttributionHolds

(* At the start there is no command.                                       *)
LEMMA InitCmd ==
  ASSUME Init
  PROVE  CmdTyped /\ CmdInv
<1>1. /\ pushed = << >> /\ file = << >> /\ read = 0 /\ rows = << >> /\ troubles = 0
      /\ call = [q \in Request |-> Idle]
  BY DEF Init
<1>2. call \in [Request -> Calls] /\ \A q \in Request : call[q].at = "idle"
  BY <1>1, IdleCalls
<1>3. CmdTyped
  BY <1>1, <1>2, FeedAssumption DEF CmdTyped
<1>4. Ran = {} /\ Announced = {}
  BY <1>1 DEF Ran, Announced, LinesOf
<1> QED
  BY <1>1, <1>2, <1>3, <1>4
     DEF CmdInv, RowsOwned, OutcomesTrue, Announcements, AttributionHolds

(* The inductive invariant of ConsoleFeed.                                 *)
FeedGood == FeedInv /\ CmdTyped /\ CmdInv

(* Every step keeps the invariant.                                         *)
LEMMA FeedGoodStep ==
  ASSUME FeedGood, Next
  PROVE  FeedGood'
<1>1. CASE Chatter
  <2>1. FeedInv'
    BY <1>1, FeedUnchanged DEF FeedGood, Chatter
  <2> QED
    BY <1>1, <2>1, ChatterCmd DEF FeedGood
<1>2. CASE Follow
  BY <1>2, FollowCmd DEF FeedGood
<1>3. CASE Restart
  BY <1>3, RestartFeed, RestartCmd DEF FeedGood
<1>4. ASSUME NEW q \in Request, Begin(q)
      PROVE  FeedGood'
  <2>1. FeedInv'
    BY <1>4, FeedUnchanged DEF FeedGood, Begin
  <2> QED
    BY <1>4, <2>1, BeginCmd DEF FeedGood
<1>5. ASSUME NEW q \in Request, BeginFails(q)
      PROVE  FeedGood'
  <2>1. FeedInv'
    BY <1>5, FeedUnchanged DEF FeedGood, BeginFails
  <2> QED
    BY <1>5, <2>1, BeginFailsCmd DEF FeedGood
<1>6. ASSUME NEW q \in Request, Run(q)
      PROVE  FeedGood'
  <2>1. FeedInv'
    BY <1>6, FeedUnchanged DEF FeedGood, Run
  <2> QED
    BY <1>6, <2>1, RunCmd DEF FeedGood
<1>7. ASSUME NEW q \in Request, Finish(q)
      PROVE  FeedGood'
  <2>1. FeedInv'
    BY <1>7, FeedUnchanged DEF FeedGood, Finish
  <2> QED
    BY <1>7, <2>1, FinishCmd DEF FeedGood
<1>8. ASSUME NEW q \in Request, Announce(q)
      PROVE  FeedGood'
  BY <1>8, AnnounceCmd DEF FeedGood
<1>9. ASSUME NEW q \in Request, Drop(q)
      PROVE  FeedGood'
  <2>1. FeedInv'
    BY <1>9, FeedUnchanged DEF FeedGood, Drop
  <2> QED
    BY <1>9, <2>1, DropCmd DEF FeedGood
<1>10. ASSUME NEW v \in Viewer,
              SubscribeLog(v) \/ SubscribeAudit(v) \/ Leave(v)
              \/ \E h \in Hubs : Receive(v, h) \/ Lag(v, h)
       PROVE  FeedGood'
  <2>1. UNCHANGED <<hubs, file, read, rows, call, troubles>>
    BY <1>10 DEF SubscribeLog, SubscribeAudit, Leave, Receive, Lag
  <2>2. FeedInv'
    BY <1>10, SubscribeLogFeed, SubscribeAuditFeed, LeaveFeed, ReceiveFeed, LagFeed DEF FeedGood
  <2> QED
    BY <2>1, <2>2, CmdUnchanged DEF FeedGood
<1> QED
  BY <1>1, <1>2, <1>3, <1>4, <1>5, <1>6, <1>7, <1>8, <1>9, <1>10 DEF Next

(* The invariant holds.                                                    *)
LEMMA FeedGoodHolds == Spec => []FeedGood
<1>1. Init => FeedGood
  BY InitFeed, InitCmd DEF FeedGood
<1>2. FeedGood /\ [Next]_vars => FeedGood'
  <2>1. CASE Next
    BY <2>1, FeedGoodStep
  <2>2. CASE UNCHANGED vars
    <3>1. UNCHANGED <<hubs, feed>> /\ UNCHANGED <<hubs, file, read, rows, call, troubles>>
      BY <2>2 DEF vars
    <3> QED
      BY <3>1, FeedUnchanged, CmdUnchanged DEF FeedGood
  <2> QED
    BY <2>1, <2>2
<1> QED
  BY <1>1, <1>2, PTL DEF Spec

(* Every variable keeps its type: a backlog never exceeds its limit, and   *)
(* the sequence number counts the lines pushed.                            *)
THEOREM FeedTyped == Spec => []TypeOK
<1>1. FeedGood => TypeOK
  <2> SUFFICES ASSUME FeedGood PROVE TypeOK
    OBVIOUS
  <2>1. seq = Len(pushed) /\ \A h \in Hubs : Len(backlog[h]) <= Keeps[h]
    BY DEF FeedGood, FeedInv, Numbered, Kept
  <2>2. \A q \in Request : call[q].at \in {"idle", "run", "settle", "announce"}
    BY DEF FeedGood, CmdTyped, Calls
  <2>3. \A v \in Viewer : feed[v].at \in {"off", "half", "on"} /\ feed[v].hears \subseteq Hubs
                          /\ feed[v].told \subseteq Hubs
    BY DEF FeedGood, FeedInv, Feeds
  <2> QED
    BY <2>1, <2>2, <2>3 DEF TypeOK, FeedGood, CmdTyped
<1> QED
  BY <1>1, FeedGoodHolds, PTL

(* A console shows what was said and done: the lines of each hub in their  *)
(* order and once, the first frame before anything later, none missing of  *)
(* a hub without a notice, and of every command what came of it            *)
(* (log_stream, LogHub::push, audit::begin, settle, finish).               *)
THEOREM FeedIsTrueHolds == Spec => []FeedIsTrue
<1>1. FeedGood => FeedIsTrue
  BY FeedShows DEF FeedGood, CmdInv, FeedIsTrue
<1> QED
  BY <1>1, FeedGoodHolds, PTL
=============================================================================
