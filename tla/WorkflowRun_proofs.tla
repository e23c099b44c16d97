------------------------ MODULE WorkflowRun_proofs ------------------------
(***************************************************************************)
(* Theorems about a Run of any workflow, with any number of Attempts,      *)
(* faults and requests: the invariants of WorkflowInv are inductive, and   *)
(* what follows from them.                                                 *)
(***************************************************************************)
EXTENDS WorkflowInv, FiniteSetTheorems, NaturalsInduction, WellFoundedInduction, SequenceTheorems, TLAPS

-----------------------------------------------------------------------------
(***************************************************************************)
(* The sequences of nodes and writes.                                      *)
(***************************************************************************)

\* Induction over the naturals, as the least counterexample.
LEMMA LeastElement ==
  ASSUME NEW T, T \subseteq Nat, T # {}
  PROVE  \E m \in T : \A k \in T : m <= k
<1>1. IsWellFoundedOn(OpToRel(<, Nat), Nat)
  BY NatLessThanWellFounded
<1>2. PICK m \in T : \A k \in T : ~(<<k, m>> \in OpToRel(<, Nat))
  BY <1>1, WFMin
<1>3. \A k \in T : ~(k < m)
  BY <1>2 DEF OpToRel
<1> QED BY <1>3

\* The topological order is a sequence of nodes.
LEMMA OrderIsSeq == Order \in Seq(Node) /\ Len(Order) \in Nat
<1>1. Cardinality(Node) \in Nat
  BY WorkflowAssumption, FS_CardinalityType
<1>2. Order \in [1..Cardinality(Node) -> Node]
  BY WorkflowAssumption
<1>3. Order \in Seq(Node)
  BY <1>1, <1>2
<1> QED BY <1>3

\* One more node of S, in the order.
Longer(S, s, i) == IF Order[i] \in S THEN Append(s, Order[i]) ELSE s

\* f computes InOrder(S) up to position n.
Filtered(S, m, f) == f = [i \in 0..m |-> IF i = 0 THEN <<>> ELSE Longer(S, f[i - 1], i)]

\* Such an f exists.
LEMMA FilteredExists == ASSUME NEW S, NEW n \in Nat PROVE \E f : Filtered(S, n, f)
<1> DEFINE T == {k \in Nat : ~ \E f : Filtered(S, k, f)}
<1>1. SUFFICES ASSUME T # {} PROVE FALSE
  OBVIOUS
<1>2. PICK m \in T : \A k \in T : m <= k
  BY <1>1, LeastElement
<1>3. m # 0
  <2>1. Filtered(S, 0, [i \in 0 .. 0 |-> <<>>])
    BY DEF Filtered
  <2> QED BY <2>1, <1>2
<1>4. m - 1 \in Nat /\ m - 1 \notin T
  BY <1>2, <1>3
<1>5. PICK f : Filtered(S, m - 1, f)
  BY <1>4
<1> DEFINE g == [i \in 0 .. m |-> IF i = m THEN Longer(S, f[m - 1], m) ELSE f[i]]
<1>6. Filtered(S, m, g)
  <2>1. ASSUME NEW i \in 0 .. m
        PROVE  g[i] = IF i = 0 THEN <<>> ELSE Longer(S, g[i - 1], i)
    <3>1. CASE i = m
      BY <3>1, <1>3, <1>4
    <3>2. CASE i # m
      BY <3>2, <1>3, <1>4, <1>5 DEF Filtered
    <3> QED BY <3>1, <3>2
  <2> QED BY <2>1 DEF Filtered
<1> QED BY <1>6, <1>2

\* InOrder(S) has the nodes of S and no others.
LEMMA InOrderNodes ==
  ASSUME NEW S
  PROVE  /\ InOrder(S) \in Seq(Node)
         /\ \A i \in DOMAIN InOrder(S) : InOrder(S)[i] \in S \cap Node
         /\ \A n \in S \cap Node : \E i \in DOMAIN InOrder(S) : InOrder(S)[i] = n
<1> DEFINE N == Len(Order)
<1>1. N \in Nat /\ Order \in Seq(Node)
  BY OrderIsSeq
<1>2. PICK f : Filtered(S, N, f) /\ InOrder(S) = f[N]
  <2>1. \E f : Filtered(S, N, f)
    BY <1>1, FilteredExists
  <2>2. InOrder(S) = (CHOOSE f : Filtered(S, N, f))[N]
    BY DEF InOrder, Filtered, Longer
  <2> QED BY <2>1, <2>2
<1> DEFINE Good(i) == /\ f[i] \in Seq(Node)
                      /\ \A j \in 1..Len(f[i]) : f[i][j] \in S \cap Node
                      /\ \A k \in 1..i : Order[k] \in S => \E j \in 1..Len(f[i]) : f[i][j] = Order[k]
           T == {i \in 0..N : ~Good(i)}
<1>3. T = {}
  <2>1. SUFFICES ASSUME T # {} PROVE FALSE
    OBVIOUS
  <2>2. PICK m \in T : \A i \in T : m <= i
    <3>1. T \subseteq Nat
      BY <1>1
    <3> HIDE DEF T
    <3> QED BY <2>1, <3>1, LeastElement
  <2>3. m # 0
    <3>1. f[0] = <<>>
      BY <1>1, <1>2 DEF Filtered
    <3>2. f[0] \in Seq(Node) /\ Len(f[0]) = 0
      BY <3>1
    <3>3. Good(0)
      BY <3>2
    <3> QED BY <3>3, <2>2
  <2>4. m \in 1..N /\ m - 1 \in 0..N /\ m - 1 \notin T
    BY <1>1, <2>2, <2>3
  <2>5. Good(m - 1)
    BY <2>4
  <2>6. f[m] = IF Order[m] \in S THEN Append(f[m - 1], Order[m]) ELSE f[m - 1]
    <3> HIDE DEF Good, T
    <3>1. m \in 0..N /\ m # 0
      BY <1>1, <2>3, <2>4
    <3>2. f = [i \in 0..N |-> IF i = 0 THEN <<>> ELSE Longer(S, f[i - 1], i)]
      BY <1>2 DEF Filtered
    <3>3. f[m] = Longer(S, f[m - 1], m)
      BY <3>1, <3>2
    <3> QED BY <3>3 DEF Longer
  <2>7. Order[m] \in Node
    <3> HIDE DEF Good, T
    <3> QED BY <1>1, <2>4
  <2>8. CASE Order[m] \in S
    <3> DEFINE a == f[m - 1]
               b == f[m]
    <3>1. /\ b \in Seq(Node) /\ Len(b) = Len(a) + 1 /\ b[Len(a) + 1] = Order[m]
          /\ \A j \in 1..Len(a) : b[j] = a[j]
      BY <2>5, <2>6, <2>7, <2>8
    <3>2. \A j \in 1..Len(b) : b[j] \in S \cap Node
      <4>1. \A j \in 1..Len(a) : a[j] \in S \cap Node
        BY <2>5
      <4>2. \A j \in 1..Len(b) : j \in 1..Len(a) \/ j = Len(a) + 1
        BY <3>1, <2>5
      <4> QED BY <4>1, <4>2, <3>1, <2>7, <2>8
    <3>3. ASSUME NEW k \in 1..m, Order[k] \in S PROVE \E j \in 1..Len(b) : b[j] = Order[k]
      <4>1. CASE k = m
        BY <4>1, <3>1, <2>5
      <4>2. CASE k # m
        <5>1. k \in 1..(m - 1)
          BY <4>2, <2>4
        <5>2. PICK j \in 1..Len(a) : a[j] = Order[k]
          BY <5>1, <3>3, <2>5
        <5>3. j \in 1..Len(b) /\ b[j] = Order[k]
          BY <5>2, <3>1, <2>5
        <5> QED BY <5>3
      <4> QED BY <4>1, <4>2
    <3>4. Good(m)
      BY <3>1, <3>2, <3>3
    <3> QED BY <3>4, <2>2
  <2>9. CASE Order[m] \notin S
    <3>1. f[m] = f[m - 1]
      BY <2>6, <2>9
    <3>2. ASSUME NEW k \in 1..m, Order[k] \in S PROVE k \in 1..(m - 1)
      BY <3>2, <2>4, <2>9
    <3>3. Good(m)
      BY <3>1, <3>2, <2>5
    <3> QED BY <3>3, <2>2
  <2> QED BY <2>8, <2>9
<1>4. Good(N)
  BY <1>1, <1>3
<1>5. \A n \in S \cap Node : \E k \in 1..N : Order[k] = n
  <2>1. DOMAIN Order = 1..N
    BY <1>1
  <2> QED BY <2>1, WorkflowAssumption
<1> QED BY <1>2, <1>4, <1>5

\* One more sequence is appended.
With(s, p) == s \o p

\* f computes Flatten(ss) up to position n.
Joined(ss, m, f) == f = [i \in 0..m |-> IF i = 0 THEN <<>> ELSE With(f[i - 1], ss[i])]

\* Such an f exists.
LEMMA JoinedExists == ASSUME NEW ss, NEW n \in Nat PROVE \E f : Joined(ss, n, f)
<1> DEFINE T == {k \in Nat : ~ \E f : Joined(ss, k, f)}
<1>1. SUFFICES ASSUME T # {} PROVE FALSE
  OBVIOUS
<1>2. PICK m \in T : \A k \in T : m <= k
  BY <1>1, LeastElement
<1>3. m # 0
  <2>1. Joined(ss, 0, [i \in 0 .. 0 |-> <<>>])
    BY DEF Joined
  <2> QED BY <2>1, <1>2
<1>4. m - 1 \in Nat /\ m - 1 \notin T
  BY <1>2, <1>3
<1>5. PICK f : Joined(ss, m - 1, f)
  BY <1>4
<1> DEFINE g == [i \in 0 .. m |-> IF i = m THEN With(f[m - 1], ss[m]) ELSE f[i]]
<1>6. Joined(ss, m, g)
  <2>1. ASSUME NEW i \in 0 .. m PROVE g[i] = IF i = 0 THEN <<>> ELSE With(g[i - 1], ss[i])
    <3>1. CASE i = m
      BY <3>1, <1>3, <1>4
    <3>2. CASE i # m
      BY <3>2, <1>3, <1>4, <1>5 DEF Joined
    <3> QED BY <3>1, <3>2
  <2> QED BY <2>1 DEF Joined
<1> QED BY <1>6, <1>2

\* The position i of s holds the l-th element of the piece p, and the position
\* before it the element before.
From(s, i, p, l) == s[i] = p[l] /\ (l > 1 => i > 1 /\ s[i - 1] = p[l - 1])

\* The elements of two sequences that are joined keep their neighbours.
Concats(s, a, b) ==
  /\ Len(s) = Len(a) + Len(b)
  /\ \A i \in 1..Len(a) : i \in 1..Len(s) /\ From(s, i, a, i)
  /\ \A l \in 1..Len(b) : Len(a) + l \in 1..Len(s) /\ From(s, Len(a) + l, b, l)
  /\ \A i \in 1..Len(s) : i \in 1..Len(a) \/ \E l \in 1..Len(b) : i = Len(a) + l

\* An element of a concatenation is one of its parts'.
LEMMA FromConcat ==
  ASSUME NEW W, NEW a \in Seq(W), NEW b \in Seq(W), NEW s, s = a \o b
  PROVE  s \in Seq(W) /\ Concats(s, a, b)
<1>1. /\ s \in Seq(W) /\ Len(s) = Len(a) + Len(b) /\ Len(a) \in Nat /\ Len(b) \in Nat
      /\ \A i \in 1..Len(a) + Len(b) : s[i] = IF i <= Len(a) THEN a[i] ELSE b[i - Len(a)]
  BY ConcatProperties
<1>2. ASSUME NEW i \in 1..Len(a) PROVE i \in 1..Len(s) /\ From(s, i, a, i)
  BY <1>1 DEF From
<1>3. ASSUME NEW l \in 1..Len(b) PROVE Len(a) + l \in 1..Len(s) /\ From(s, Len(a) + l, b, l)
  <2>1. Len(a) + l \in 1..Len(a) + Len(b) /\ ~(Len(a) + l <= Len(a)) /\ Len(a) + l - Len(a) = l
    BY <1>1
  <2>2. s[Len(a) + l] = b[l]
    BY <1>1, <2>1
  <2>3. ASSUME l > 1 PROVE s[Len(a) + l - 1] = b[l - 1]
    <3>1. /\ Len(a) + l - 1 \in 1..Len(a) + Len(b) /\ ~(Len(a) + l - 1 <= Len(a))
          /\ (Len(a) + l - 1) - Len(a) = l - 1
      BY <1>1, <2>3
    <3> QED BY <1>1, <3>1
  <2> QED BY <1>1, <2>1, <2>2, <2>3 DEF From
<1>4. ASSUME NEW i \in 1..Len(s), i \notin 1..Len(a) PROVE \E l \in 1..Len(b) : i = Len(a) + l
  <2>1. i - Len(a) \in 1..Len(b) /\ i = Len(a) + (i - Len(a))
    BY <1>1, <1>4
  <2> QED BY <2>1
<1> QED BY <1>1, <1>2, <1>3, <1>4 DEF Concats

\* Every element of the pieces ss[1] to ss[N] is in s.
HasPieces(s, ss, N) == \A j \in 1..N : \A l \in 1..Len(ss[j]) : \E i \in 1..Len(s) : s[i] = ss[j][l]

\* Flatten has the elements of its pieces, with their neighbours.
LEMMA FlattenPieces ==
  ASSUME NEW W, NEW ss, NEW N \in Nat, DOMAIN ss = 1..N, Len(ss) = N, \A j \in 1..N : ss[j] \in Seq(W)
  PROVE  LET s == Flatten(ss)
         IN  /\ s \in Seq(W)
             /\ \A i \in 1..Len(s) : \E j \in 1..N : \E l \in 1..Len(ss[j]) : From(s, i, ss[j], l)
             /\ HasPieces(s, ss, N)
<1>2. PICK f : Joined(ss, N, f) /\ Flatten(ss) = f[N]
  <2>1. \E f : Joined(ss, N, f)
    BY JoinedExists
  <2>2. Flatten(ss) = (CHOOSE f : Joined(ss, N, f))[N]
    BY DEF Flatten, Joined, With
  <2> QED BY <2>1, <2>2
<1> DEFINE Good(i) ==
      /\ f[i] \in Seq(W)
      /\ \A x \in 1..Len(f[i]) : \E j \in 1..N : \E l \in 1..Len(ss[j]) : From(f[i], x, ss[j], l)
      /\ \A j \in 1..i : \A l \in 1..Len(ss[j]) : \E x \in 1..Len(f[i]) : f[i][x] = ss[j][l]
           T == {i \in 0..N : ~Good(i)}
<1>3. T = {}
  <2>1. SUFFICES ASSUME T # {} PROVE FALSE
    OBVIOUS
  <2>2. PICK m \in T : \A i \in T : m <= i
    <3>1. T \subseteq Nat
      OBVIOUS
    <3> HIDE DEF T
    <3> QED BY <2>1, <3>1, LeastElement
  <2>3. m # 0
    <3>1. f[0] = <<>>
      BY <1>2 DEF Joined
    <3>2. f[0] \in Seq(W) /\ Len(f[0]) = 0
      BY <3>1
    <3>3. Good(0)
      BY <3>2
    <3> QED BY <3>3, <2>2
  <2>4. m \in 1..N /\ m - 1 \in 0..N /\ m - 1 \notin T
    <3>1. m \in 0..N
      OBVIOUS
    <3>2. m \in 1..N /\ m - 1 \in 0..N /\ ~(m <= m - 1)
      BY <3>1, <2>3
    <3> HIDE DEF T
    <3> QED BY <3>2, <2>2
  <2>5. Good(m - 1)
    BY <2>4
  <2> DEFINE a == f[m - 1]
             b == ss[m]
             s == f[m]
  <2>6. s = a \o b
    <3>1. s = With(a, b)
      BY <1>2, <2>4 DEF Joined
    <3> QED BY <3>1 DEF With
  <2>7. a \in Seq(W) /\ b \in Seq(W)
    BY <2>4, <2>5
  <2>8. s \in Seq(W) /\ Concats(s, a, b)
    <3> HIDE DEF a, b, s
    <3> QED BY <2>6, <2>7, FromConcat
  <2>9. ASSUME NEW x \in 1..Len(s)
        PROVE  \E j \in 1..N : \E l \in 1..Len(ss[j]) : From(s, x, ss[j], l)
    <3>1. CASE x \in 1..Len(a)
      <4>0. PICK j \in 1..N : \E l \in 1..Len(ss[j]) : From(a, x, ss[j], l)
        BY <2>5, <3>1
      <4>1. PICK l \in 1..Len(ss[j]) : From(a, x, ss[j], l)
        BY <4>0
      <4>2. From(s, x, a, x)
        BY <2>8, <3>1 DEF Concats
      <4>3. x > 1 => s[x - 1] = a[x - 1]
        BY <4>2 DEF From
      <4>4. From(s, x, ss[j], l)
        BY <4>1, <4>2, <4>3 DEF From
      <4> QED BY <4>4
    <3>2. CASE \E l \in 1..Len(b) : x = Len(a) + l
      BY <3>2, <2>4, <2>8 DEF Concats
    <3> QED BY <3>1, <3>2, <2>8 DEF Concats
  <2>10. ASSUME NEW j \in 1..m, NEW l \in 1..Len(ss[j])
         PROVE  \E x \in 1..Len(s) : s[x] = ss[j][l]
    <3>1. CASE j = m
      BY <3>1, <2>8 DEF From, Concats
    <3>2. CASE j # m
      <4>1. j \in 1..(m - 1)
        BY <3>2, <2>4
      <4>2. PICK x \in 1..Len(a) : a[x] = ss[j][l]
        BY <4>1, <2>5
      <4>3. x \in 1..Len(s) /\ s[x] = a[x]
        BY <4>2, <2>8 DEF From, Concats
      <4> QED BY <4>2, <4>3
    <3> QED BY <3>1, <3>2
  <2>11. Good(m)
    BY <2>8, <2>9, <2>10
  <2> QED BY <2>11, <2>2
<1>4. Good(N)
  <2> HIDE DEF Good
  <2>1. N \notin T /\ N \in 0..N
    BY <1>3
  <2> QED BY <2>1
<1>5. HasPieces(f[N], ss, N)
  BY <1>4 DEF HasPieces
<1>6. /\ f[N] \in Seq(W)
      /\ \A x \in 1..Len(f[N]) : \E j \in 1..N : \E l \in 1..Len(ss[j]) : From(f[N], x, ss[j], l)
  BY <1>4
<1> HIDE DEF Good, T
<1> QED BY <1>2, <1>5, <1>6
-----------------------------------------------------------------------------
(***************************************************************************)
(* One write.                                                              *)
(***************************************************************************)

\* What a write says follows from its file.
LEMMA WriteKinds ==
  ASSUME NEW w \in Writes
  PROVE  /\ w.file \in {"node", "run", "acted", "new", "attempt", "intent"}
         /\ w.file = "node" => w.n \in Node /\ w.val \in NodeSnapshot /\ w \in NodeWrites
         /\ w.file \in {"run", "acted"} => w.val \in WorkflowSnapshot
         /\ w.file \in {"new", "attempt"} =>
              w.n \in Agent /\ w.k \in 1..MaxAttempts /\ w.val \in AttemptSnapshot
         /\ w.file = "intent" => w.val \in actionIntent
<1>1. CASE w \in NodeWrites
  BY <1>1 DEF NodeWrites
<1>2. CASE w \in [file : {"run", "acted"}, val : WorkflowSnapshot]
  <2>1. w.file \in {"run", "acted"} /\ w.val \in WorkflowSnapshot
    BY <1>2
  <2> QED BY <2>1
<1>3. CASE w \in [file : {"new", "attempt"}, n : Agent, k : 1..MaxAttempts, val : AttemptSnapshot]
  <2>1. /\ w.file \in {"new", "attempt"} /\ w.n \in Agent
        /\ w.k \in 1..MaxAttempts /\ w.val \in AttemptSnapshot
    BY <1>3
  <2> QED BY <2>1
<1>4. CASE w \in [file : {"intent"}, val : actionIntent]
  <2>1. w.file = "intent" /\ w.val \in actionIntent
    BY <1>4
  <2> QED BY <2>1
<1> QED BY <1>1, <1>2, <1>3, <1>4 DEF Writes

\* What a write of the Run is.
LEMMA RunWrite ==
  ASSUME NEW r \in WorkflowSnapshot
  PROVE  LET w == WriteRun(r) IN w \in Writes /\ w.file = "run" /\ w.val = r
<1> DEFINE w == WriteRun(r)
<1>1. w.file = "run" /\ w.val = r
  BY DEF WriteRun
<1>2. w \in [file : {"run", "acted"}, val : WorkflowSnapshot]
  BY DEF WriteRun
<1> QED BY <1>1, <1>2 DEF Writes

\* What a write of a node is.
LEMMA NodeWrite ==
  ASSUME NEW n \in Node, NEW v \in NodeSnapshot
  PROVE  LET w == WriteNode(n, v)
         IN  w \in Writes /\ w \in NodeWrites /\ w.file = "node" /\ w.n = n /\ w.val = v
<1> DEFINE w == WriteNode(n, v)
<1>1. w.file = "node" /\ w.n = n /\ w.val = v
  BY DEF WriteNode
<1>2. w \in NodeWrites
  BY DEF WriteNode, NodeWrites
<1> QED BY <1>1, <1>2 DEF Writes

\* What a write of an Attempt is.
LEMMA AttemptWrite ==
  ASSUME NEW n \in Agent, NEW k \in 1..MaxAttempts, NEW v \in AttemptSnapshot
  PROVE  /\ LET w == UpdateAttempt(n, k, v)
            IN  w \in Writes /\ w.file = "attempt" /\ w.n = n /\ w.k = k /\ w.val = v
         /\ LET w == CreateAttempt(n, k, v)
            IN  w \in Writes /\ w.file = "new" /\ w.n = n /\ w.k = k /\ w.val = v
<1> DEFINE u == UpdateAttempt(n, k, v)
           c == CreateAttempt(n, k, v)
<1>1. u.file = "attempt" /\ u.n = n /\ u.k = k /\ u.val = v
  BY DEF UpdateAttempt
<1>2. c.file = "new" /\ c.n = n /\ c.k = k /\ c.val = v
  BY DEF CreateAttempt
<1>3. u \in [file : {"new", "attempt"}, n : Agent, k : 1..MaxAttempts, val : AttemptSnapshot]
  BY DEF UpdateAttempt
<1>4. c \in [file : {"new", "attempt"}, n : Agent, k : 1..MaxAttempts, val : AttemptSnapshot]
  BY DEF CreateAttempt
<1> QED BY <1>1, <1>2, <1>3, <1>4 DEF Writes

\* The removed intent plans nothing.
LEMMA NoIntentIs == NoIntent \in actionIntent /\ NoIntent.plan = <<>> /\ NoIntent.receipt = FALSE
<1>1. <<>> \in Seq(NodeWrites)
  OBVIOUS
<1> QED BY <1>1 DEF NoIntent, actionIntent

\* What a write of the intent is.
LEMMA IntentWrite ==
  ASSUME NEW i \in actionIntent
  PROVE  LET w == WriteIntent(i) IN w \in Writes /\ w.file = "intent" /\ w.val = i
<1> DEFINE w == WriteIntent(i)
<1>1. w.file = "intent" /\ w.val = i
  BY DEF WriteIntent
<1>2. w \in [file : {"intent"}, val : actionIntent]
  BY DEF WriteIntent
<1> QED BY <1>1, <1>2 DEF Writes

\* What the write that finalizes an action is.
LEMMA ActedWrite ==
  /\ ActedRun \in WorkflowSnapshot
  /\ finalizeAction \in Writes /\ finalizeAction.file = "acted" /\ finalizeAction.val = ActedRun
<1>1. ActedRun \in WorkflowSnapshot
  BY DEF ActedRun, WorkflowSnapshot, RunPhases, Conclusions, Reasons
<1>2. finalizeAction.file = "acted" /\ finalizeAction.val = ActedRun
  BY DEF finalizeAction
<1>3. finalizeAction \in [file : {"run", "acted"}, val : WorkflowSnapshot]
  BY <1>1 DEF finalizeAction
<1> QED BY <1>1, <1>2, <1>3 DEF Writes
-----------------------------------------------------------------------------
(***************************************************************************)
(* What a step leaves alone.                                               *)
(***************************************************************************)

\* Without launches no node is being launched.
LEMMA NoLaunchIs == \A n \in Agent : NoLaunch[n] = "-"
  BY DEF NoLaunch

\* The empty sequence has no element.
LEMMA NoElement == \A s : s = <<>> => \A i \in DOMAIN s : FALSE
  OBVIOUS

\* Nothing is left to be written.
LEMMA TodoEmpty ==
  ASSUME todo' = <<>>, intent' \in actionIntent, Planned' => ~act' /\ PlanOK(intent.plan)'
  PROVE  TodoOK'
<1>0. todo' \in Seq(Writes)
  OBVIOUS
<1>1. \A i \in DOMAIN todo' : FALSE
  BY NoElement
<1>2. AgreeOK'
  BY <1>1 DEF AgreeOK
<1>3. IntentOK'
  BY <1>1 DEF IntentOK, AppliesTo
<1> QED BY <1>0, <1>1, <1>2, <1>3 DEF TodoOK

\* A plan may be applied as long as the nodes stay what they are.
LEMMA PlanKept ==
  ASSUME NEW plan, PlanOK(plan), UNCHANGED node
  PROVE  PlanOK(plan)'
<1>1. \A j \in DOMAIN plan : NodeOK(plan[j].n, plan[j].val)' <=> NodeOK(plan[j].n, plan[j].val)
  BY DEF NodeOK
<1> QED BY <1>1 DEF PlanOK

\* A write that is due stays right as long as what has ended stays ended.
Holding ==
  /\ UNCHANGED <<node, attempt, act>> /\ run'.cancel = run.cancel
  /\ \A n \in Agent, k \in 1..MaxAttempts : /\ Over(n, k) => Over(n, k)'
                                            /\ Unlaunched(n, k) => Unlaunched(n, k)'
  /\ \A n \in Agent : can.out[n] # "-" => can'.out[n] # "-"

\* A plain write stays right under such a step.
LEMMA PlainKept ==
  ASSUME Holding, NEW w \in Writes, PlainOK(w)
  PROVE  PlainOK(w)'
<1>1. w.file = "node" /\ w.n \in Agent => w.val.att \in 1..MaxAttempts \/ Open(w.val.concl)
  BY DEF PlainOK, NodeWriteOK, NodeOK, Open
<1>2. w.file = "node" => NodeWriteOK(w)'
  <2> SUFFICES ASSUME w.file = "node" PROVE NodeWriteOK(w)'
    OBVIOUS
  <2>1. NodeWriteOK(w)
    BY DEF PlainOK
  <2>2. NodeOK(w.n, w.val)' /\ w.val.att = node'[w.n].att
    BY <2>1 DEF NodeWriteOK, NodeOK, Holding
  <2>3. w.n \in Agent /\ ~Open(w.val.concl) => Over(w.n, w.val.att)'
    BY <2>1, <1>1 DEF NodeWriteOK, Holding
  <2>4. w.n \in Agent /\ Busy(w.n)' => act' \/ w.val.phase \in BusyPhases
    BY <2>1 DEF NodeWriteOK, Holding, Busy
  <2>5. node'[w.n].concl = "succeeded" => w.val = node'[w.n]
    BY <2>1 DEF NodeWriteOK, Holding
  <2>6. w.n \in Agent /\ w.val.phase \in {"running", "waiting"} => Active(w.n, node)' \/ can'.out[w.n] # "-"
    BY <2>1 DEF NodeWriteOK, Holding, Active
  <2> QED BY <2>2, <2>3, <2>4, <2>5, <2>6 DEF NodeWriteOK, Open
<1>3. w.file = "attempt" => AttemptWriteOK(w)'
  <2> SUFFICES ASSUME w.file = "attempt" PROVE AttemptWriteOK(w)'
    OBVIOUS
  <2>1. AttemptWriteOK(w) /\ w.n \in Agent /\ w.k \in 1..MaxAttempts
    BY WriteKinds DEF PlainOK
  <2> QED BY <2>1 DEF AttemptWriteOK, Holding, Open
<1>4. w.file = "intent" => PlanOK(w.val.plan)'
  <2> SUFFICES ASSUME w.file = "intent" PROVE PlanOK(w.val.plan)'
    OBVIOUS
  <2>1. PlanOK(w.val.plan) /\ UNCHANGED node
    BY DEF PlainOK, Holding
  <2> QED BY <2>1, PlanKept
<1> QED BY <1>2, <1>3, <1>4 DEF PlainOK, Holding

\* So do all writes that are due.
LEMMA TodoSame ==
  ASSUME TodoOK, UNCHANGED <<todo, intent>>, Holding, BatchOK => BatchOK' /\ lau' = lau
  PROVE  TodoOK'
<1>1. todo' \in Seq(Writes) /\ todo \in Seq(Writes)
  BY DEF TodoOK
<1>2. ASSUME NEW i \in DOMAIN todo PROVE WriteOK(i)'
  <2>0. todo[i] \in Writes
    BY <1>1
  <2>1. CASE PlainOK(todo[i])
    <3>1. PICK w : w = todo[i]
      OBVIOUS
    <3>2. PlainOK(w)'
      BY <2>0, <2>1, <3>1, PlainKept
    <3>3. todo'[i] = w
      BY <3>1
    <3> QED BY <3>2, <3>3 DEF WriteOK
  <2>2. CASE BatchOK /\ NewOK(todo[i])
    BY <2>2 DEF WriteOK, NewOK
  <2>3. CASE BatchOK /\ CreatesOK(i)
    <3>1. CreatesOK(i)'
      BY <2>3 DEF CreatesOK, NodeOK, Holding, DepsOver
    <3> QED BY <3>1, <2>3 DEF WriteOK
  <2> QED BY <2>1, <2>2, <2>3 DEF TodoOK, WriteOK
<1>3. AgreeOK'
  BY DEF AgreeOK, TodoOK, Holding
<1>4. IntentOK'
  <2>1. Planned' = Planned /\ intent' = intent /\ UNCHANGED node
    BY DEF Planned, Holding
  <2>2. Planned => PlanOK(intent.plan)'
    <3> SUFFICES ASSUME Planned PROVE PlanOK(intent.plan)'
      OBVIOUS
    <3>1. PICK plan : plan = intent.plan
      OBVIOUS
    <3>2. PlanOK(plan)
      BY <3>1 DEF TodoOK, IntentOK
    <3>3. PlanOK(plan)'
      BY <3>2, <2>1, PlanKept
    <3>4. intent'.plan = plan
      BY <3>1
    <3> QED BY <3>3, <3>4
  <2>3. UNCHANGED todo
    OBVIOUS
  <2> QED BY <2>1, <2>2, <2>3 DEF TodoOK, IntentOK, Holding, AppliesTo
<1> QED BY <1>1, <1>2, <1>3, <1>4 DEF TodoOK

\* What is said of a node depends on its snapshot and the due writes only.
LEMMA StandsSame ==
  ASSUME UNCHANGED <<node, todo>>, NEW n
  PROVE  /\ Busy(n)' = Busy(n) /\ Unsucceeded(n)' = Unsucceeded(n) /\ Untouched(n)' = Untouched(n)
         /\ Active(n, node)' = Active(n, node)
  BY DEF Busy, Unsucceeded, Untouched, Active

\* The launches go on.
LEMMA LaunchesSame ==
  ASSUME LaunchesOK, UNCHANGED <<node, attempt, lau>>,
         \/ lau = NoLaunch
         \/ /\ todo' = todo
            /\ ctl.stopping => ctl'.stopping
            /\ run.cancel => run'.cancel
  PROVE  LaunchesOK'
<1> SUFFICES ASSUME NEW n \in Agent PROVE LaunchOK(n)'
  BY DEF LaunchesOK
<1>1. LaunchOK(n)
  BY DEF LaunchesOK
<1>2. CASE lau = NoLaunch
  BY <1>2, NoLaunchIs DEF LaunchOK, Dispatched
<1>3. CASE /\ todo' = todo
           /\ ctl.stopping => ctl'.stopping
           /\ run.cancel => run'.cancel
  <2>1. Current(n)' = Current(n) /\ Startable(n)' = Startable(n)
    BY DEF Current, Startable, Open
  <2>2. (Coming(n) => Coming(n)') /\ (Untouched(n) => Untouched(n)')
    BY <1>3 DEF Coming, CreatesOK, NodeOK, DepsOver, Untouched, Active
  <2> QED BY <1>1, <1>3, <2>1, <2>2 DEF LaunchOK
<1> QED BY <1>2, <1>3

\* The observations stand.
LEMMA ObservationsSame ==
  ASSUME ObservationsOK, UNCHANGED <<node, attempt>>,
         ctl'.pc = "observe" => ctl.pc = "observe" /\ obs' = obs /\ todo' = todo /\ (run.cancel => run'.cancel),
         \A n \in Agent, k \in 1..MaxAttempts : exec[n][k] # "live" => exec'[n][k] # "live",
         FilesOK
  PROVE  ObservationsOK'
<1> SUFFICES ASSUME NEW n \in Agent PROVE ObservedOK(n)'
  BY DEF ObservationsOK
<1>1. ObservedOK(n)
  BY DEF ObservationsOK
<1>2. n \in Node /\ NodeOK(n, node[n])
  BY WorkflowAssumption DEF FilesOK
<1>3. node[n].att > 0 => node[n].att \in 1..MaxAttempts
  BY <1>2 DEF NodeOK
<1>4. node[n].att > 0 => (Execution(n) # "live" => Execution(n)' # "live")
  BY <1>3 DEF Execution
<1>5. Current(n)' = Current(n)
  BY DEF Current
<1>6. todo' = todo /\ Untouched(n) => Untouched(n)'
  BY DEF Untouched, Active
<1> QED BY <1>1, <1>4, <1>5, <1>6 DEF ObservedOK

\* The targets of a cancellation stay what they are.
LEMMA TargetsSame ==
  ASSUME TargetsOK, UNCHANGED <<node, todo>>, run.cancel => run'.cancel, FilesOK,
         \A n \in Agent : can'.out[n] = "-" \/ can'.out[n] = can.out[n],
         \A n \in Agent, k \in 1..MaxAttempts : Over(n, k) => Over(n, k)'
  PROVE  TargetsOK'
<1> SUFFICES ASSUME NEW n \in Agent PROVE TargetOK(n)'
  BY DEF TargetsOK
<1>1. TargetOK(n)
  BY DEF TargetsOK
<1>2. n \in Node /\ NodeOK(n, node[n])
  BY WorkflowAssumption DEF FilesOK
<1>3. Busy(n) => node[n].att \in 1..MaxAttempts
  BY <1>2 DEF NodeOK, Busy, BusyPhases
<1>4. Busy(n)' = Busy(n)
  BY DEF Busy
<1>5. Unsucceeded(n)' = Unsucceeded(n)
  BY DEF Unsucceeded
<1> QED BY <1>1, <1>3, <1>4, <1>5 DEF TargetOK

\* The target of a recovered controller stays what it is.
LEMMA RecoverSame ==
  ASSUME RecoverOK, UNCHANGED <<node, todo>>, FilesOK,
         ctl'.pc \in {"rmark", "rtarget", "rcancel", "rfinal"} => ctl'.pc = ctl.pc /\ ctl'.target = ctl.target,
         \A n \in Agent, k \in 1..MaxAttempts : exec[n][k] # "live" => exec'[n][k] # "live"
  PROVE  RecoverOK'
<1> SUFFICES ASSUME ctl'.pc \in {"rmark", "rtarget", "rcancel", "rfinal"} PROVE RecoverOK'
  BY DEF RecoverOK
<1>1. PICK n : n = ctl.target
  OBVIOUS
<1>2. n \in Agent => n \in Node /\ NodeOK(n, node[n])
  BY WorkflowAssumption DEF FilesOK
<1>3. n \in Agent /\ Busy(n) => node[n].att \in 1..MaxAttempts
  BY <1>2 DEF NodeOK, Busy, BusyPhases
<1>4. n \in Agent /\ Busy(n) /\ Execution(n) # "live" => Execution(n)' # "live"
  BY <1>3 DEF Execution
<1>5. Busy(n)' = Busy(n)
  BY DEF Busy
<1>6. ctl'.target = n /\ ctl'.pc = ctl.pc
  BY <1>1
<1>7. Unsucceeded(n)' = Unsucceeded(n)
  BY DEF Unsucceeded
<1> QED BY <1>1, <1>4, <1>5, <1>6, <1>7 DEF RecoverOK

\* No execution begins.
LEMMA ExecutionsSame ==
  ASSUME ExecutionsOK, UNCHANGED <<node, attempt>>,
         \A n \in Agent, k \in 1..MaxAttempts : exec[n][k] # "live" => exec'[n][k] # "live"
  PROVE  ExecutionsOK'
  BY DEF ExecutionsOK, ExecOK, Open

\* The files stay right when the nodes and their Attempts do.
LEMMA FilesSame ==
  ASSUME FilesOK, UNCHANGED <<node, attempt>>, run' \in WorkflowSnapshot, req' \in CancelRequest,
         exec' \in [Agent -> [1..MaxAttempts -> Executions]]
  PROVE  FilesOK'
  BY DEF FilesOK, NodeOK, Current

\* A request that is outdated is a request.
LEMMA OutdateType == ASSUME NEW r PROVE Outdate(r) \in CancelRequest
  BY DEF Outdate, CancelRequest

\* A step that touches neither the nodes and their Attempts nor the executions.
LEMMA Calm ==
  ASSUME RunInv, UNCHANGED <<node, attempt, exec, lau>>, run' \in WorkflowSnapshot, req' \in CancelRequest,
         ControlOK', TodoOK', TargetsOK', RecoverOK', run.cancel => run'.cancel,
         todo' = todo, lau = NoLaunch \/ (ctl.stopping => ctl'.stopping),
         ctl'.pc = "observe" => ctl.pc = "observe" /\ obs' = obs
  PROVE  RunInv'
<1>1. FilesOK /\ ThreadsOK
  BY DEF RunInv
<1>2. FilesOK'
  BY <1>1, FilesSame DEF FilesOK
<1>3. LaunchesOK'
  BY <1>1, LaunchesSame DEF ThreadsOK
<1>4. ObservationsOK'
  BY <1>1, ObservationsSame DEF ThreadsOK
<1>5. ExecutionsOK'
  BY <1>1, ExecutionsSame DEF ThreadsOK
<1> QED BY <1>2, <1>3, <1>4, <1>5 DEF RunInv, ThreadsOK

\* The same for a step that adds no target and leaves the recovery alone.
LEMMA Quiet ==
  ASSUME RunInv, UNCHANGED <<node, attempt, exec, lau>>, run' \in WorkflowSnapshot, req' \in CancelRequest,
         ControlOK', TodoOK', run.cancel => run'.cancel,
         todo' = todo, lau = NoLaunch \/ (ctl.stopping => ctl'.stopping),
         ctl'.pc = "observe" => ctl.pc = "observe" /\ obs' = obs,
         \A n \in Agent : can'.out[n] = "-" \/ can'.out[n] = can.out[n],
         ctl'.pc \in {"rmark", "rtarget", "rcancel", "rfinal"} => ctl'.pc = ctl.pc /\ ctl'.target = ctl.target
  PROVE  RunInv'
<1>1. FilesOK /\ ThreadsOK
  BY DEF RunInv
<1>2. \A n \in Agent, k \in 1..MaxAttempts : Over(n, k) => Over(n, k)'
  <2>1. CASE lau = NoLaunch
    BY <2>1, NoLaunchIs DEF Over, Unlaunched, Dispatched
  <2>2. CASE ctl.stopping => ctl'.stopping
    BY <2>2 DEF Over, Unlaunched
  <2> QED BY <2>1, <2>2
<1>3. TargetsOK'
  BY <1>1, <1>2, TargetsSame DEF ThreadsOK
<1>4. RecoverOK'
  BY <1>1, RecoverSame DEF ThreadsOK
<1> QED BY <1>3, <1>4, Calm

\* The mutex is free before and after.
LEMMA TodoRest ==
  ASSUME RunInv, todo = <<>>, todo' = <<>>, UNCHANGED <<node, intent>>, act' => act \/ ~Planned
  PROVE  TodoOK'
<1>1. IntentOK
  BY DEF RunInv, TodoOK
<1>2. Planned => ~act /\ PlanOK(intent.plan)
  BY <1>1 DEF IntentOK
<1>3. Planned' = Planned
  BY DEF Planned
<1>4. Planned => PlanOK(intent.plan)'
  <2> SUFFICES ASSUME Planned PROVE PlanOK(intent.plan)'
    OBVIOUS
  <2>1. PICK plan : plan = intent.plan
    OBVIOUS
  <2>2. PlanOK(plan)'
    BY <1>2, <2>1, PlanKept
  <2>3. intent'.plan = plan
    BY <2>1
  <2> QED BY <2>2, <2>3
<1>5. intent' \in actionIntent
  BY <1>1 DEF IntentOK
<1> QED BY <1>2, <1>3, <1>4, <1>5, TodoEmpty

\* The holder of the mutex goes on beside the step.
LEMMA TodoBeside ==
  ASSUME RunInv, UNCHANGED <<todo, node, attempt, exec, intent, lau, act>>, run'.cancel = run.cancel,
         ctl.stopping => ctl'.stopping, can'.out = can.out,
         ctl.pc = "launch" => ctl'.pc = "launch"
  PROVE  TodoOK'
<1>1. Holding
  <2>1. \A n \in Agent, k \in 1..MaxAttempts : Unlaunched(n, k) => Unlaunched(n, k)'
    BY DEF Unlaunched
  <2>2. \A n \in Agent, k \in 1..MaxAttempts : Over(n, k) => Over(n, k)'
    BY <2>1 DEF Over
  <2> QED BY <2>1, <2>2 DEF Holding
<1>2. BatchOK => BatchOK'
  BY DEF BatchOK
<1> QED BY <1>1, <1>2, TodoSame DEF RunInv
-----------------------------------------------------------------------------
(***************************************************************************)
(* The steps of the threads that leave the snapshots alone.                *)
(***************************************************************************)

\* The controller at another point.
LEMMA GoType ==
  ASSUME ctl \in ControlStates, NEW p \in ControlPoints, Go(p)
  PROVE  /\ ctl' \in ControlStates /\ ctl'.pc = p /\ ctl'.stopping = ctl.stopping
         /\ ctl'.target = ctl.target
<1>1. ctl' = [ctl EXCEPT !.pc = p]
  BY DEF Go
<1> QED BY <1>1 DEF ControlStates

\* A fresh controller.
LEMMA ControllerIs ==
  ASSUME NEW p \in ControlPoints
  PROVE  /\ Controller(p) \in ControlStates /\ Controller(p).pc = p
         /\ Controller(p).target = "-" /\ ~Controller(p).stopping
<1>1. (p # "off" /\ req # "none") \in BOOLEAN
  OBVIOUS
<1> QED BY <1>1 DEF Controller, ControlStates

\* No cancellation is being handled.
LEMMA NoCancelIs ==
  NoCancel \in CancelStates /\ NoCancel.pc = "off" /\ NoCancel.who = "-" /\ \A n \in Agent : NoCancel.out[n] = "-"
  BY DEF NoCancel, CancelStates, CancelPoints

\* The controller moves on.
LEMMA ControlMoves ==
  ASSUME RunInv, UNCHANGED <<can, act, proc, ask, hbrec, intent>>,
         ctl.pc # "off", ctl'.pc # "off", ctl' \in ControlStates, ctl'.pc # "launch" => lau' = NoLaunch,
         faults' \in 0..MaxFaults, obs' \in [Agent -> ObsPoints], lau' \in [Agent -> LaunchPoints]
  PROVE  ControlOK'
<1>1. ThreadTypes /\ ControlRules
  BY DEF RunInv, ControlOK
<1>2. ThreadTypes'
  BY <1>1 DEF ThreadTypes
<1>3. ~(Planned /\ ~act) /\ Planned' = Planned
  BY <1>1 DEF ControlRules, Planned
<1>4. ControlRules'
  BY <1>1, <1>3 DEF ControlRules
<1> QED BY <1>2, <1>4 DEF ControlOK

\* ControlTop preserves the invariant.
LEMMA StepControlTop == ASSUME RunInv, ControlTop PROVE RunInv'
<1>1. ThreadTypes /\ ControlRules /\ FilesOK /\ ctl \in ControlStates
  BY DEF RunInv, ControlOK, ThreadTypes
<1>2. lau = NoLaunch /\ todo = <<>> /\ todo' = <<>> /\ ctl.pc = "top"
  BY <1>1 DEF ControlTop, ControlRules
<1>3. ctl' \in ControlStates /\ ctl'.pc \in {"exit", "sched", "observe"}
  <2>1. CASE ctl.ctx \/ run.phase = "completed" \/ run.cancel
    <3>1. Go("exit")
      BY <2>1 DEF ControlTop
    <3> QED BY <3>1, <1>1, GoType DEF ControlPoints
  <2>2. CASE ~(ctl.ctx \/ run.phase = "completed" \/ run.cancel)
    <3>1. PICK p \in {"sched", "observe"} :
            ctl' = [ctl EXCEPT !.pc = p, !.progressed = FALSE, !.again = FALSE]
      BY <2>2 DEF ControlTop
    <3>2. ctl'.pc = p
      BY <3>1, <1>1 DEF ControlStates
    <3> QED BY <3>1, <3>2, <1>1 DEF ControlStates, ControlPoints
  <2> QED BY <2>1, <2>2
<1>4. obs' \in [Agent -> ObsPoints]
  BY <1>1 DEF ControlTop, ThreadTypes, ObsPoints
<1>5. ControlOK'
  BY <1>1, <1>2, <1>3, <1>4, ControlMoves DEF ControlTop, disk, ThreadTypes
<1>6. TodoOK'
  BY <1>2, TodoRest DEF ControlTop, disk
<1>7. FilesOK' /\ LaunchesOK' /\ TargetsOK' /\ RecoverOK' /\ ExecutionsOK'
  <2>1. UNCHANGED <<node, attempt, run, req, exec, lau, can, todo>>
    BY DEF ControlTop, disk
  <2>2. ThreadsOK
    BY DEF RunInv
  <2>3. \A n \in Agent, k \in 1..MaxAttempts : Over(n, k) => Over(n, k)'
    BY <1>2, <2>1, NoLaunchIs DEF Over, Unlaunched, Dispatched
  <2>4. FilesOK'
    BY <1>1, <2>1, FilesSame DEF FilesOK
  <2>5. LaunchesOK'
    BY <1>2, <2>1, <2>2, LaunchesSame DEF ThreadsOK
  <2>6. TargetsOK'
    BY <1>1, <2>1, <2>2, <2>3, TargetsSame DEF ThreadsOK
  <2>7. RecoverOK'
    BY <1>1, <1>3, <2>1, <2>2, RecoverSame DEF ThreadsOK
  <2>8. ExecutionsOK'
    BY <2>1, <2>2, ExecutionsSame DEF ThreadsOK
  <2> QED BY <2>4, <2>5, <2>6, <2>7, <2>8
<1>8. ObservationsOK'
  <2> SUFFICES ASSUME NEW n \in Agent, ctl'.pc = "observe", obs'[n] # "-" PROVE ObservedOK(n)'
    BY DEF ObservationsOK, ObservedOK
  <2>1. n \in findActiveAttempts(node) /\ obs'[n] = "ask"
    <3>1. CASE ctl.ctx \/ run.phase = "completed" \/ run.cancel
      <4>1. Go("exit")
        BY <3>1 DEF ControlTop
      <4> QED BY <4>1, <1>1, GoType DEF ControlPoints
    <3>2. CASE ~(ctl.ctx \/ run.phase = "completed" \/ run.cancel)
      BY <3>2 DEF ControlTop
    <3> QED BY <3>1, <3>2
  <2>2. node[n].att > 0 /\ node' = node
    BY <2>1 DEF findActiveAttempts, Active, ControlTop, disk
  <2>3. Untouched(n)'
    <3>1. Active(n, node)' /\ todo' = <<>>
      BY <2>1, <2>2, <1>2 DEF findActiveAttempts, Active
    <3> QED BY <3>1 DEF Untouched
  <2> QED BY <2>1, <2>2, <2>3 DEF ObservedOK
<1> QED BY <1>5, <1>6, <1>7, <1>8 DEF RunInv, ThreadsOK

\* ReconcileEnd preserves the invariant.
LEMMA StepReconcileEnd == ASSUME RunInv, ReconcileEnd PROVE RunInv'
<1>1. ThreadTypes /\ ControlRules /\ FilesOK /\ ctl \in ControlStates
  BY DEF RunInv, ControlOK, ThreadTypes
<1>2. lau = NoLaunch /\ todo = <<>> /\ todo' = <<>> /\ ctl.pc = "observe"
  BY <1>1 DEF ReconcileEnd, ControlRules
<1>3. ctl' \in ControlStates /\ ctl'.pc \in {"top", "sched"}
  <2>1. \E p \in {"top", "sched"}, a \in BOOLEAN : ctl' = [ctl EXCEPT !.pc = p, !.again = a]
    BY DEF ReconcileEnd
  <2>2. PICK p \in {"top", "sched"}, a \in BOOLEAN : ctl' = [ctl EXCEPT !.pc = p, !.again = a]
    BY <2>1
  <2>3. ctl'.pc = p
    BY <2>2, <1>1 DEF ControlStates
  <2> QED BY <2>2, <2>3, <1>1 DEF ControlStates, ControlPoints
<1>4. ControlOK'
  BY <1>1, <1>2, <1>3, ControlMoves DEF ReconcileEnd, disk, ThreadTypes
<1>5. TodoOK'
  BY <1>2, TodoRest DEF ReconcileEnd, disk
<1> QED BY <1>1, <1>2, <1>3, <1>4, <1>5, Quiet DEF ReconcileEnd, disk, FilesOK

\* HeartbeatFails preserves the invariant.
LEMMA StepHeartbeatFails == ASSUME RunInv, HeartbeatFails PROVE RunInv'
<1>1. ThreadTypes /\ ControlRules /\ FilesOK /\ ctl \in ControlStates
  BY DEF RunInv, ControlOK, ThreadTypes
<1>2. /\ ctl' \in ControlStates /\ ctl'.pc = ctl.pc /\ ctl.pc # "off" /\ ctl'.stopping = ctl.stopping
      /\ ctl'.target = ctl.target
  BY <1>1 DEF HeartbeatFails, ControlStates
<1>3. faults' \in 0..MaxFaults
  BY <1>1, RunAssumption DEF HeartbeatFails, Fault, ThreadTypes
<1>4. ControlOK'
  BY <1>1, <1>2, <1>3, ControlMoves DEF HeartbeatFails, disk, ThreadTypes, ControlRules
<1>5. TodoOK'
  BY <1>2, TodoBeside DEF HeartbeatFails, disk
<1> QED BY <1>1, <1>2, <1>4, <1>5, Quiet DEF HeartbeatFails, disk, FilesOK

\* HeartbeatHandsOff preserves the invariant.
LEMMA StepHeartbeatHandsOff == ASSUME RunInv, HeartbeatHandsOff PROVE RunInv'
<1>1. ThreadTypes /\ ControlRules /\ FilesOK /\ ctl \in ControlStates
  BY DEF RunInv, ControlOK, ThreadTypes
<1>2. ControlOK'
  BY <1>1 DEF HeartbeatHandsOff, disk, ThreadTypes, ControlRules, ControlOK, Planned
<1>3. TodoOK'
  BY TodoBeside DEF HeartbeatHandsOff, disk
<1> QED BY <1>1, <1>2, <1>3, Quiet DEF HeartbeatHandsOff, disk, FilesOK

\* CancelAsk preserves the invariant.
LEMMA StepCancelAsk == ASSUME RunInv, CancelAsk PROVE RunInv'
<1>1. ThreadTypes /\ ControlRules /\ FilesOK /\ ctl \in ControlStates
  BY DEF RunInv, ControlOK, ThreadTypes
<1>2. ~(Planned /\ ~act)
  BY DEF CancelAsk, mutationMu, ReplayDue, Planned
<1>3. ControlOK'
  BY <1>1, <1>2 DEF CancelAsk, ThreadTypes, ControlRules, ControlOK, Planned
<1>4. TodoOK'
  BY TodoBeside DEF CancelAsk
<1> QED BY <1>1, <1>3, <1>4, Quiet DEF CancelAsk, FilesOK, CancelRequest

\* CancelReturns preserves the invariant.
LEMMA StepCancelReturns == ASSUME RunInv, CancelReturns PROVE RunInv'
<1>1. ThreadTypes /\ ControlRules /\ FilesOK /\ ctl \in ControlStates
  BY DEF RunInv, ControlOK, ThreadTypes
<1>2. faults' \in 0..MaxFaults
  BY <1>1, RunAssumption DEF CancelReturns, Fault, ThreadTypes
<1>3. ControlOK'
  BY <1>1, <1>2 DEF CancelReturns, disk, ThreadTypes, ControlRules, ControlOK, Planned
<1>4. TodoOK'
  BY TodoBeside DEF CancelReturns, disk
<1> QED BY <1>1, <1>3, <1>4, Quiet DEF CancelReturns, disk, FilesOK

\* A handler of the request starts.
LEMMA Handler ==
  ASSUME can \in CancelStates, NEW w \in {"monitor", "caller"}, can' = [can EXCEPT !.pc = "mark", !.who = w]
  PROVE  can' \in CancelStates /\ can'.pc = "mark" /\ can'.who = w /\ can'.out = can.out
<1>1. can'.pc = "mark" /\ can'.who = w /\ can'.out = can.out
  BY DEF CancelStates
<1> QED BY <1>1 DEF CancelStates, CancelPoints

\* CancelTakesLease preserves the invariant.
LEMMA StepCancelTakesLease == ASSUME RunInv, CancelTakesLease PROVE RunInv'
<1>1. ThreadTypes /\ ControlRules /\ FilesOK /\ can \in CancelStates
  BY DEF RunInv, ControlOK, ThreadTypes
<1>2. can' \in CancelStates /\ can'.pc = "mark" /\ can'.who = "caller" /\ can'.out = can.out
  BY <1>1, Handler DEF CancelTakesLease
<1>3. ask /\ ctl.pc = "off" /\ ~act /\ can.who = "-"
  BY <1>1 DEF CancelTakesLease, LeaseFree, ControlRules, CancelStates
<1>4. \A n \in Agent : can.out[n] = "-"
  BY <1>1, <1>3 DEF ControlRules
<1>5. ControlOK'
  BY <1>1, <1>2, <1>3, <1>4 DEF CancelTakesLease, disk, ThreadTypes, ControlRules, ControlOK, Planned
<1>6. TodoOK'
  BY <1>2, TodoBeside DEF CancelTakesLease, disk
<1> QED BY <1>1, <1>2, <1>5, <1>6, Quiet DEF CancelTakesLease, disk, FilesOK

\* MonitorFinds preserves the invariant.
LEMMA StepMonitorFinds == ASSUME RunInv, MonitorFinds PROVE RunInv'
<1>1. ThreadTypes /\ ControlRules /\ FilesOK /\ can \in CancelStates
  BY DEF RunInv, ControlOK, ThreadTypes
<1>2. can' \in CancelStates /\ can'.pc = "mark" /\ can'.who = "monitor" /\ can'.out = can.out
  BY <1>1, Handler DEF MonitorFinds
<1>3. ctl.pc # "off" /\ ~act /\ can.pc = "off" /\ ~(Planned /\ ~act)
  BY <1>1 DEF MonitorFinds, ControlRules
<1>4. \A n \in Agent : can.out[n] = "-"
  BY <1>1, <1>3 DEF ControlRules
<1>5. ControlOK'
  BY <1>1, <1>2, <1>3, <1>4 DEF MonitorFinds, disk, ThreadTypes, ControlRules, ControlOK, Planned
<1>6. TodoOK'
  BY <1>2, TodoBeside DEF MonitorFinds, disk
<1> QED BY <1>1, <1>2, <1>5, <1>6, Quiet DEF MonitorFinds, disk, FilesOK

\* CancelResolve preserves the invariant.
LEMMA StepCancelResolve == ASSUME RunInv, CancelResolve PROVE RunInv'
<1>1. ThreadTypes /\ ControlRules /\ FilesOK /\ ctl \in ControlStates
  BY DEF RunInv, ControlOK, ThreadTypes
<1>2. /\ ctl' \in ControlStates /\ ctl'.pc = ctl.pc /\ (ctl.stopping => ctl'.stopping)
      /\ ctl'.target = ctl.target
  BY <1>1 DEF CancelResolve, ControlStates
<1>3. can' \in CancelStates /\ can'.pc = "off" /\ can'.who = "-" /\ \A n \in Agent : can'.out[n] = "-"
  BY NoCancelIs DEF CancelResolve
<1>4. ControlOK'
  BY <1>1, <1>2, <1>3 DEF CancelResolve, ThreadTypes, ControlRules, ControlOK, Planned
<1>5. TodoOK'
  BY TodoRest DEF CancelResolve
<1> QED BY <1>1, <1>2, <1>3, <1>4, <1>5, Quiet DEF CancelResolve, FilesOK, CancelRequest

\* ActionStartsController preserves the invariant.
LEMMA StepActionStartsController == ASSUME RunInv, ActionStartsController PROVE RunInv'
<1>1. ThreadTypes /\ ControlRules /\ FilesOK /\ ctl \in ControlStates /\ TodoOK
  BY DEF RunInv, ControlOK, ThreadTypes
<1>2. ctl' \in ControlStates /\ ctl'.pc = "top"
  BY ControllerIs DEF ActionStartsController, ControlPoints
<1>3. ~Planned /\ lau = NoLaunch /\ act
  BY <1>1 DEF ActionStartsController, TodoOK, IntentOK, ControlRules
<1>4. ControlOK'
  BY <1>1, <1>2, <1>3 DEF ActionStartsController, disk, ThreadTypes, ControlRules, ControlOK, Planned
<1>5. TodoOK'
  BY TodoRest DEF ActionStartsController, disk
<1> QED BY <1>1, <1>2, <1>3, <1>4, <1>5, Quiet DEF ActionStartsController, disk, FilesOK

\* Restart preserves the invariant.
LEMMA StepRestart == ASSUME RunInv, Restart PROVE RunInv'
<1>1. ThreadTypes /\ ControlRules /\ FilesOK
  BY DEF RunInv, ControlOK, ThreadTypes
<1>2. ControlOK'
  BY <1>1 DEF Restart, disk, ThreadTypes, ControlRules, ControlOK, Planned
<1>3. TodoOK'
  BY TodoBeside DEF Restart, disk
<1> QED BY <1>1, <1>2, <1>3, Quiet DEF Restart, disk, FilesOK

\* Crash preserves the invariant.
LEMMA StepCrash == ASSUME RunInv, Crash PROVE RunInv'
<1>1. ThreadTypes /\ ControlRules /\ FilesOK /\ TodoOK /\ ThreadsOK
  BY DEF RunInv, ControlOK, ThreadTypes
<1>2. ctl' \in ControlStates /\ ctl'.pc = "off"
  BY ControllerIs DEF Crash, ControlPoints
<1>3. faults' \in 0..MaxFaults
  BY <1>1, RunAssumption DEF Crash, Fault, ThreadTypes
<1>4. can' \in CancelStates /\ can'.pc = "off" /\ can'.who = "-" /\ \A n \in Agent : can'.out[n] = "-"
  BY NoCancelIs DEF Crash
<1>5. ControlOK'
  <2>1. lau' \in [Agent -> LaunchPoints] /\ obs' \in [Agent -> ObsPoints] /\ lau' = NoLaunch
    BY DEF Crash, NoLaunch, NoObs, LaunchPoints, ObsPoints
  <2>2. ThreadTypes'
    BY <2>1, <1>2, <1>3, <1>4 DEF Crash, ThreadTypes
  <2>3. ControlRules'
    BY <2>1, <1>2, <1>4 DEF Crash, ControlRules, NoLaunch
  <2> QED BY <2>2, <2>3 DEF ControlOK
<1>6. TodoOK'
  <2>1. Planned => PlanOK(intent.plan)
    BY <1>1 DEF TodoOK, IntentOK
  <2>2. PICK plan : plan = intent.plan
    OBVIOUS
  <2>3. Planned => PlanOK(plan)'
    BY <2>1, <2>2, PlanKept DEF Crash, disk
  <2>4. Planned' = Planned /\ intent'.plan = plan
    BY <2>2 DEF Planned, Crash, disk
  <2>5. intent' \in actionIntent
    BY <1>1 DEF TodoOK, IntentOK, Crash, disk
  <2> QED BY <2>3, <2>4, <2>5, TodoEmpty DEF Crash
<1>7. FilesOK'
  BY <1>1, FilesSame DEF FilesOK, Crash, disk
<1>8. LaunchesOK'
  BY NoLaunchIs DEF LaunchesOK, LaunchOK, Dispatched, Crash
<1>9. ObservationsOK' /\ TargetsOK' /\ RecoverOK'
  BY <1>2, <1>4 DEF ObservationsOK, ObservedOK, TargetsOK, TargetOK, RecoverOK
<1>10. ExecutionsOK'
  BY <1>1, ExecutionsSame DEF ThreadsOK, Crash, disk
<1> QED BY <1>5, <1>6, <1>7, <1>8, <1>9, <1>10 DEF RunInv, ThreadsOK
-----------------------------------------------------------------------------
(***************************************************************************)
(* The steps that write the Run alone.                                     *)
(***************************************************************************)

\* The Runs that are persisted by one write are Runs.
LEMMA RunTypes ==
  ASSUME run \in WorkflowSnapshot
  PROVE  /\ RunningRun \in WorkflowSnapshot /\ RunningRun.cancel = run.cancel
         /\ RecoveredRun \in WorkflowSnapshot /\ RecoveredRun.cancel = run.cancel
         /\ CancellingRun \in WorkflowSnapshot /\ CancellingRun.cancel
         /\ CancelFailedRun \in WorkflowSnapshot /\ CancelFailedRun.cancel
         /\ CancelledRun \in WorkflowSnapshot /\ CancelledRun.cancel
<1>1. RunningRun \in WorkflowSnapshot /\ RunningRun.cancel = run.cancel
  BY DEF RunningRun, WorkflowSnapshot, RunPhases, Conclusions, Reasons
<1>2. RecoveredRun \in WorkflowSnapshot /\ RecoveredRun.cancel = run.cancel
  BY <1>1 DEF RecoveredRun
<1>3. CancellingRun \in WorkflowSnapshot /\ CancellingRun.cancel
  BY DEF CancellingRun, WorkflowSnapshot, RunPhases, Conclusions, Reasons
<1>4. CancelFailedRun \in WorkflowSnapshot /\ CancelFailedRun.cancel
  BY DEF CancelFailedRun, WorkflowSnapshot, RunPhases, Conclusions, Reasons
<1>5. CancelledRun \in WorkflowSnapshot /\ CancelledRun.cancel
  BY DEF CancelledRun, WorkflowSnapshot, RunPhases, Conclusions, Reasons
<1> QED BY <1>1, <1>2, <1>3, <1>4, <1>5

\* PauseOnError preserves the invariant.
LEMMA StepPauseOnError == ASSUME RunInv, PauseOnError PROVE RunInv'
<1>1. ThreadTypes /\ ControlRules /\ FilesOK /\ ctl \in ControlStates
  BY DEF RunInv, ControlOK, ThreadTypes
<1>2. ctl' \in ControlStates /\ ctl'.pc = "exit"
  BY <1>1, GoType DEF PauseOnError, ControlPoints
<1>3. lau = NoLaunch /\ ctl.pc = "fault"
  BY <1>1 DEF PauseOnError, ControlRules
<1>4. run' \in WorkflowSnapshot /\ run'.cancel = run.cancel /\ req' \in CancelRequest
  <2>1. LET r == [run EXCEPT !.phase = "waiting", !.reason = "completion_missing"]
        IN  r \in WorkflowSnapshot /\ r.cancel = run.cancel
    BY <1>1 DEF FilesOK, WorkflowSnapshot, RunPhases, Reasons
  <2> QED BY <2>1, <1>1, OutdateType DEF PauseOnError, persistRun, FilesOK
<1>5. ControlOK'
  BY <1>1, <1>2, <1>3, ControlMoves DEF PauseOnError, ThreadTypes
<1>6. TodoOK'
  BY TodoRest DEF PauseOnError
<1> QED BY <1>1, <1>2, <1>3, <1>4, <1>5, <1>6, Quiet DEF PauseOnError

\* ControllerExit preserves the invariant.
LEMMA StepControllerExit == ASSUME RunInv, ControllerExit PROVE RunInv'
<1>1. ThreadTypes /\ ControlRules /\ FilesOK /\ ctl \in ControlStates /\ can \in CancelStates
  BY DEF RunInv, ControlOK, ThreadTypes
<1>2. ctl' \in ControlStates /\ ctl'.pc = "off"
  BY ControllerIs DEF ControllerExit, ControlPoints
<1>3. lau = NoLaunch /\ ctl.pc = "exit" /\ can.who = "-" /\ ~(Planned /\ ~act) /\ ctl.hb \in BOOLEAN
  BY <1>1 DEF ControllerExit, ControlRules, CancelStates, ControlStates
<1>4. run' \in WorkflowSnapshot /\ run'.cancel = run.cancel /\ req' \in CancelRequest
  <2>1. LET r == [run EXCEPT !.phase = "paused", !.concl = "none", !.reason = "controller_detached"]
        IN  r \in WorkflowSnapshot /\ r.cancel = run.cancel
    BY <1>1 DEF FilesOK, WorkflowSnapshot, RunPhases, Reasons, Conclusions
  <2> QED BY <2>1, <1>1, OutdateType DEF ControllerExit, persistRun, FilesOK
<1>5. ControlOK'
  BY <1>1, <1>2, <1>3 DEF ControllerExit, ThreadTypes, ControlRules, ControlOK, Planned
<1>6. TodoOK'
  BY TodoRest DEF ControllerExit
<1> QED BY <1>1, <1>2, <1>3, <1>4, <1>5, <1>6, Quiet DEF ControllerExit

\* RecoverFails preserves the invariant.
LEMMA StepRecoverFails == ASSUME RunInv, RecoverFails PROVE RunInv'
<1>1. ThreadTypes /\ ControlRules /\ FilesOK /\ ctl \in ControlStates
  BY DEF RunInv, ControlOK, ThreadTypes
<1>2. ctl' \in ControlStates /\ ctl'.pc = "exit"
  BY <1>1, GoType DEF RecoverFails, ControlPoints
<1>3. lau = NoLaunch /\ ctl.pc = "rfail"
  BY <1>1 DEF RecoverFails, ControlRules
<1>4. run' \in WorkflowSnapshot /\ run'.cancel /\ req' \in CancelRequest
  BY <1>1, RunTypes, OutdateType DEF RecoverFails, persistRun, FilesOK
<1>5. ControlOK'
  BY <1>1, <1>2, <1>3, ControlMoves DEF RecoverFails, ThreadTypes
<1>6. TodoOK'
  BY TodoRest DEF RecoverFails
<1> QED BY <1>1, <1>2, <1>3, <1>4, <1>5, <1>6, Quiet DEF RecoverFails

\* A controller is started for the recovered Run.
LEMMA RecoveredControlIs ==
  /\ RecoveredControl \in ControlStates /\ RecoveredControl.pc \in {"rmark", "top"}
  /\ RecoveredControl.target = "-"
<1>1. PICK p \in {"rmark", "top"} : RecoveredControl = Controller(p)
  BY DEF RecoveredControl
<1> QED BY <1>1, ControllerIs DEF ControlPoints

\* HeartbeatRecover preserves the invariant.
LEMMA StepHeartbeatRecover == ASSUME RunInv, HeartbeatRecover PROVE RunInv'
<1>1. ThreadTypes /\ ControlRules /\ FilesOK /\ can \in CancelStates /\ ThreadsOK
  BY DEF RunInv, ControlOK, ThreadTypes
<1>2. ~(Planned /\ ~act)
  BY <1>1 DEF HeartbeatRecover, ControlRules
<1>3. TodoOK'
  BY TodoRest DEF HeartbeatRecover
<1>4. run' \in WorkflowSnapshot /\ run'.cancel = run.cancel /\ req' \in CancelRequest
  BY <1>1, RunTypes, OutdateType DEF HeartbeatRecover, persistRun, FilesOK
<1>5. CASE runNeedsController
  <2>1. ctl' \in ControlStates /\ ctl'.pc \in {"rmark", "top"} /\ ctl'.target = "-"
    BY <1>5, RecoveredControlIs DEF HeartbeatRecover
  <2>2. ctl.pc = "off" /\ ~act /\ can.who = "-" /\ lau = NoLaunch
    BY <1>1, <1>5 DEF HeartbeatRecover, LeaseFree, ControlRules, CancelStates
  <2>3. ControlOK'
    BY <1>1, <1>2, <2>1, <2>2 DEF HeartbeatRecover, ThreadTypes, ControlRules, ControlOK, Planned
  <2>4. \A n \in Agent, k \in 1..MaxAttempts : Over(n, k) => Over(n, k)'
    BY <2>2, NoLaunchIs DEF Over, Unlaunched, Dispatched, HeartbeatRecover
  <2>5. TargetsOK'
    BY <1>1, <1>4, <2>4, TargetsSame DEF ThreadsOK, HeartbeatRecover
  <2>6. RecoverOK'
    BY <2>1 DEF RecoverOK
  <2> QED BY <1>3, <1>4, <2>1, <2>2, <2>3, <2>5, <2>6, Calm DEF HeartbeatRecover
<1>6. CASE ~runNeedsController
  <2>1. ControlOK'
    BY <1>1, <1>2, <1>6 DEF HeartbeatRecover, ThreadTypes, ControlRules, ControlOK, Planned
  <2> QED BY <1>3, <1>4, <1>6, <2>1, Quiet DEF HeartbeatRecover
<1> QED BY <1>5, <1>6

\* Recover preserves the invariant.
LEMMA StepRecover == ASSUME RunInv, Recover PROVE RunInv'
<1>1. ThreadTypes /\ ControlRules /\ FilesOK /\ can \in CancelStates /\ ThreadsOK
  BY DEF RunInv, ControlOK, ThreadTypes
<1>2. ~(Planned /\ ~act)
  BY <1>1 DEF Recover, mutationMu, ReplayDue, Planned
<1>3. TodoOK'
  BY TodoRest DEF Recover
<1>4. run' \in WorkflowSnapshot /\ run'.cancel = run.cancel /\ req' \in CancelRequest
  BY <1>1, RunTypes, OutdateType DEF Recover, persistRun, FilesOK
<1>5. CASE ctl.pc = "off" /\ runNeedsController
  <2>1. ctl' \in ControlStates /\ ctl'.pc \in {"rmark", "top"} /\ ctl'.target = "-"
    BY <1>5, RecoveredControlIs DEF Recover
  <2>2. ctl.pc = "off" /\ ~act /\ can.who = "-" /\ lau = NoLaunch
    BY <1>1, <1>5 DEF Recover, mutationMu, ControlRules, CancelStates
  <2>3. ControlOK'
    BY <1>1, <1>2, <2>1, <2>2 DEF Recover, ThreadTypes, ControlRules, ControlOK, Planned
  <2>4. \A n \in Agent, k \in 1..MaxAttempts : Over(n, k) => Over(n, k)'
    BY <2>2, NoLaunchIs DEF Over, Unlaunched, Dispatched, Recover
  <2>5. TargetsOK'
    BY <1>1, <1>4, <2>4, TargetsSame DEF ThreadsOK, Recover
  <2>6. RecoverOK'
    BY <2>1 DEF RecoverOK
  <2> QED BY <1>3, <1>4, <2>1, <2>2, <2>3, <2>5, <2>6, Calm DEF Recover
<1>6. CASE ~(ctl.pc = "off" /\ runNeedsController)
  <2>1. ControlOK'
    BY <1>1, <1>2, <1>6 DEF Recover, ThreadTypes, ControlRules, ControlOK, Planned
  <2> QED BY <1>3, <1>4, <1>6, <2>1, Quiet DEF Recover
<1> QED BY <1>5, <1>6

\* RecoverTarget preserves the invariant.
LEMMA StepRecoverTarget == ASSUME RunInv, RecoverTarget PROVE RunInv'
<1>1. ThreadTypes /\ ControlRules /\ FilesOK /\ ctl \in ControlStates /\ ThreadsOK
  BY DEF RunInv, ControlOK, ThreadTypes
<1>2. PICK n : n = ctl.target
  OBVIOUS
<1>3. n \in Agent /\ Busy(n) /\ lau = NoLaunch /\ ctl.pc = "rtarget"
  BY <1>1, <1>2 DEF RecoverTarget, ThreadsOK, RecoverOK, ControlRules
<1>4. node[n].att \in 1..MaxAttempts
  BY <1>1, <1>3, WorkflowAssumption DEF FilesOK, NodeOK, Busy, BusyPhases
<1>5. /\ ctl' \in ControlStates /\ ctl'.pc \in {"rfinal", "rcancel", "rfail"} /\ ctl'.target = n
      /\ ctl'.pc = "rfinal" => Current(n).concl = "cancelled" \/ Current(n).launch = "prepared"
      /\ ctl'.stopping = ctl.stopping
  <2>1. PICK p \in {"rfinal", "rcancel", "rfail"} :
          Go(p) /\ (p = "rfinal" => Current(n).concl = "cancelled" \/ Current(n).launch = "prepared")
    BY <1>2 DEF RecoverTarget
  <2> QED BY <2>1, <1>1, <1>2, GoType DEF ControlPoints
<1>6. ctl'.pc = "rfinal" => Execution(n) # "live"
  <2>1. ExecOK(n, node[n].att)
    BY <1>1, <1>3, <1>4 DEF ThreadsOK, ExecutionsOK
  <2> QED BY <2>1, <1>5 DEF ExecOK, Execution, Current, Open
<1>7. RecoverOK'
  <2>1. Busy(n)' /\ Unsucceeded(n)'
    BY <1>1, <1>2, <1>3, StandsSame DEF RecoverTarget, disk, ThreadsOK, RecoverOK
  <2> QED BY <1>3, <1>5, <1>6, <2>1 DEF RecoverOK, RecoverTarget, disk, Execution
<1>8. TargetsOK'
  <2>1. \A m \in Agent, k \in 1..MaxAttempts : Over(m, k) => Over(m, k)'
    BY <1>3, NoLaunchIs DEF Over, Unlaunched, Dispatched, RecoverTarget, disk
  <2> QED BY <1>1, <2>1, TargetsSame DEF ThreadsOK, RecoverTarget, disk
<1>9. ControlOK'
  BY <1>1, <1>3, <1>5, ControlMoves DEF RecoverTarget, disk, ThreadTypes
<1>10. TodoOK'
  BY <1>3, <1>5, TodoBeside DEF RecoverTarget, disk
<1> QED BY <1>1, <1>3, <1>5, <1>7, <1>8, <1>9, <1>10, Calm DEF RecoverTarget, disk, FilesOK

\* What is active has not succeeded.
LEMMA ActiveOpen ==
  ASSUME FilesOK, todo = <<>>, NEW n \in Node, Active(n, node)
  PROVE  n \in Agent /\ Busy(n) /\ Unsucceeded(n)
<1>1. NodeOK(n, node[n]) /\ n \in Agent
  BY DEF FilesOK, Active
<1>2. node[n].concl = "none"
  BY <1>1 DEF NodeOK, Active
<1> QED BY <1>1, <1>2 DEF Active, Busy, BusyPhases, Unsucceeded

\* RecoverMark preserves the invariant.
LEMMA StepRecoverMark == ASSUME RunInv, RecoverMark PROVE RunInv'
<1>1. ThreadTypes /\ ControlRules /\ FilesOK /\ ctl \in ControlStates /\ ThreadsOK
  BY DEF RunInv, ControlOK, ThreadTypes
<1>2. lau = NoLaunch /\ ctl.pc = "rmark" /\ ctl.target = "-"
  BY <1>1 DEF RecoverMark, ThreadsOK, RecoverOK, ControlRules
<1>3. run' \in WorkflowSnapshot /\ (run.cancel => run'.cancel) /\ req' \in CancelRequest
  BY <1>1, RunTypes, OutdateType DEF RecoverMark, persistRun, FilesOK
<1> DEFINE active == InOrder(findActiveAttempts(node))
<1>4. active # <<>> => active[1] \in Agent /\ active[1] \in Node /\ Busy(active[1]) /\ Unsucceeded(active[1])
  <2>1. active \in Seq(Node) /\ \A i \in DOMAIN active : active[i] \in findActiveAttempts(node)
    BY InOrderNodes
  <2>2. active # <<>> => 1 \in DOMAIN active
    BY <2>1
  <2>3. \A n \in findActiveAttempts(node) : n \in Agent /\ n \in Node /\ Busy(n) /\ Unsucceeded(n)
    BY <1>1, ActiveOpen DEF RecoverMark, findActiveAttempts
  <2> QED BY <2>1, <2>2, <2>3
<1>5. /\ ctl' \in ControlStates
      /\ \/ ctl'.pc \in {"exit", "rfinal"} /\ ctl'.target = "-"
         \/ ctl'.pc = "rtarget" /\ ctl'.target \in Agent /\ Busy(ctl'.target) /\ Unsucceeded(ctl'.target)
  <2>1. CASE run.phase = "completed"
    <3>1. Go("exit")
      BY <2>1 DEF RecoverMark
    <3> QED BY <3>1, <1>1, <1>2, GoType DEF ControlPoints
  <2>2. CASE run.phase # "completed" /\ active = <<>>
    <3>1. Go("rfinal")
      BY <2>2 DEF RecoverMark, Go
    <3> QED BY <3>1, <1>1, <1>2, GoType DEF ControlPoints
  <2>3. CASE run.phase # "completed" /\ active # <<>>
    <3>1. PICK n \in Node : n \in Agent /\ Busy(n) /\ Unsucceeded(n) /\ ctl' = [ctl EXCEPT !.pc = "rtarget", !.target = n]
      <4>1. ctl' = [ctl EXCEPT !.pc = "rtarget", !.target = active[1]]
        BY <2>3 DEF RecoverMark
      <4> QED BY <4>1, <2>3, <1>4
    <3>2. ctl'.pc = "rtarget" /\ ctl'.target = n
      BY <3>1, <1>1 DEF ControlStates
    <3>3. ctl' \in ControlStates
      BY <3>1, <3>2, <1>1 DEF ControlStates, ControlPoints
    <3> QED BY <3>1, <3>2, <3>3
  <2> QED BY <2>1, <2>2, <2>3
<1>6. RecoverOK'
  <2>1. PICK n : n = ctl'.target
    OBVIOUS
  <2>2. Busy(n)' = Busy(n) /\ Unsucceeded(n)' = Unsucceeded(n)
    BY StandsSame DEF RecoverMark
  <2> QED BY <2>1, <2>2, <1>5 DEF RecoverOK
<1>7. TargetsOK'
  <2>1. \A m \in Agent, k \in 1..MaxAttempts : Over(m, k) => Over(m, k)'
    BY <1>2, NoLaunchIs DEF Over, Unlaunched, Dispatched, RecoverMark
  <2> QED BY <1>1, <1>3, <2>1, TargetsSame DEF ThreadsOK, RecoverMark
<1>8. ControlOK'
  BY <1>1, <1>2, <1>5, ControlMoves DEF RecoverMark, ThreadTypes
<1>9. TodoOK'
  BY TodoRest DEF RecoverMark
<1> QED BY <1>1, <1>2, <1>3, <1>5, <1>6, <1>7, <1>8, <1>9, Calm DEF RecoverMark

\* CancelMark preserves the invariant.
LEMMA StepCancelMark == ASSUME RunInv, CancelMark PROVE RunInv'
<1>1. ThreadTypes /\ ControlRules /\ FilesOK /\ can \in CancelStates /\ ThreadsOK
  BY DEF RunInv, ControlOK, ThreadTypes
<1>2. ~act /\ ~Planned /\ can.who # "-" /\ (\A n \in Agent : can.out[n] = "-")
  BY <1>1 DEF CancelMark, ControlRules, CancelStates
<1>3. run' \in WorkflowSnapshot /\ (run.cancel => run'.cancel) /\ req' \in CancelRequest
  BY <1>1, RunTypes, OutdateType DEF CancelMark, persistRun, FilesOK
<1>4. /\ can' \in CancelStates /\ can'.pc \in {"targets", "resolve"} /\ can'.who = can.who
      /\ \A n \in Agent : can'.out[n] = "-" \/
           (can'.out[n] = "wait" /\ run.phase # "completed" /\ req # "stale" /\ n \in findActiveAttempts(node))
  <2>1. CASE req = "stale"
    <3>1. can' = [can EXCEPT !.pc = "resolve"]
      BY <2>1 DEF CancelMark
    <3>2. can'.pc = "resolve" /\ can'.who = can.who /\ can'.out = can.out
      BY <3>1, <1>1 DEF CancelStates
    <3> QED BY <3>1, <3>2, <1>1, <1>2 DEF CancelStates, CancelPoints
  <2>2. CASE req # "stale"
    <3>1. PICK f \in [Agent -> {"-", "wait"}] :
            /\ can' = [can EXCEPT !.pc = "targets", !.out = f]
            /\ \A n \in Agent : f[n] = "wait" => run.phase # "completed" /\ n \in findActiveAttempts(node)
      <4> DEFINE f == [n \in Agent |->
                        IF run.phase # "completed"
                           /\ n \in {m \in findActiveAttempts(node) : Current(m).concl # "cancelled"}
                        THEN "wait" ELSE "-"]
      <4>1. can' = [can EXCEPT !.pc = "targets", !.out = f]
        BY <2>2 DEF CancelMark
      <4>2. f \in [Agent -> {"-", "wait"}]
        OBVIOUS
      <4>3. \A n \in Agent : f[n] = "wait" => run.phase # "completed" /\ n \in findActiveAttempts(node)
        OBVIOUS
      <4> QED BY <4>1, <4>2, <4>3
    <3>2. can'.pc = "targets" /\ can'.who = can.who /\ can'.out = f
      BY <3>1, <1>1 DEF CancelStates
    <3>3. f \in [Agent -> {"-", "wait", "yes", "no"}]
      BY <3>1
    <3>4. can' \in CancelStates
      BY <3>1, <3>2, <3>3, <1>1 DEF CancelStates, CancelPoints
    <3> QED BY <3>1, <3>2, <3>4, <2>2
  <2> QED BY <2>1, <2>2
<1>5. TargetsOK'
  <2> SUFFICES ASSUME NEW n \in Agent, can'.out[n] # "-" PROVE TargetOK(n)'
    BY DEF TargetsOK, TargetOK
  <2>1. can'.out[n] = "wait" /\ run.phase # "completed" /\ req # "stale" /\ n \in findActiveAttempts(node)
    BY <1>4
  <2>2. Busy(n)' /\ Unsucceeded(n)'
    BY <2>1, <1>1, ActiveOpen, StandsSame DEF CancelMark, findActiveAttempts
  <2>3. run'.cancel
    BY <2>1, <1>1, RunTypes DEF CancelMark, persistRun, FilesOK
  <2> QED BY <2>1, <2>2, <2>3 DEF TargetOK
<1>6. RecoverOK'
  BY <1>1, RecoverSame DEF ThreadsOK, CancelMark
<1>7. ControlOK'
  BY <1>1, <1>2, <1>4 DEF CancelMark, ThreadTypes, ControlRules, ControlOK, Planned
<1>8. TodoOK'
  BY TodoRest DEF CancelMark
<1> QED BY <1>1, <1>3, <1>5, <1>6, <1>7, <1>8, Calm DEF CancelMark
-----------------------------------------------------------------------------
(***************************************************************************)
(* The steps of the executions and of the launches.                        *)
(***************************************************************************)

\* The execution of n becomes e.
Becomes(n, e) == \A m \in Agent, k \in 1..MaxAttempts :
                   exec'[m][k] = IF m = n /\ k = node[n].att THEN e ELSE exec[m][k]

\* One execution changes.
LEMMA ExecChange ==
  ASSUME FilesOK, NEW n \in Agent, node[n].att > 0, NEW e \in Executions,
         exec' = [exec EXCEPT ![n][node[n].att] = e]
  PROVE  /\ node[n].att \in 1..MaxAttempts /\ exec' \in [Agent -> [1..MaxAttempts -> Executions]]
         /\ Becomes(n, e)
<1>1. node[n].att \in 1..MaxAttempts
  BY WorkflowAssumption DEF FilesOK, NodeOK
<1>2. exec \in [Agent -> [1..MaxAttempts -> Executions]]
  BY DEF FilesOK
<1>3. PICK k \in 1..MaxAttempts : k = node[n].att
  BY <1>1
<1> DEFINE h == [exec[n] EXCEPT ![k] = e]
<1>4. exec' = [exec EXCEPT ![n] = h]
  BY <1>3
<1>5. h \in [1..MaxAttempts -> Executions] /\ \A l \in 1..MaxAttempts : h[l] = IF l = k THEN e ELSE exec[n][l]
  BY <1>2
<1> HIDE DEF h
<1>6. /\ exec' \in [Agent -> [1..MaxAttempts -> Executions]]
      /\ \A m \in Agent : exec'[m] = IF m = n THEN h ELSE exec[m]
  BY <1>2, <1>4, <1>5
<1>7. ASSUME NEW m \in Agent, NEW l \in 1..MaxAttempts
      PROVE  exec'[m][l] = IF m = n /\ l = k THEN e ELSE exec[m][l]
  BY <1>5, <1>6
<1> QED BY <1>1, <1>3, <1>6, <1>7 DEF Becomes

\* The current execution of a node with an Attempt is one.
LEMMA ExecutionType ==
  ASSUME FilesOK, NEW n \in Agent, node[n].att > 0
  PROVE  Execution(n) \in Executions /\ Ended(n) \in Executions /\ Ended(n) # "live"
<1>1. node[n].att \in 1..MaxAttempts
  BY WorkflowAssumption DEF FilesOK, NodeOK
<1>2. Execution(n) \in Executions
  BY <1>1 DEF FilesOK, Execution
<1> QED BY <1>2 DEF Ended, Executions

\* No execution begins.
NoneBegins == \A n \in Agent, k \in 1..MaxAttempts : exec[n][k] # "live" => exec'[n][k] # "live"

\* A step that ends executions and begins none.
LEMMA Ends ==
  ASSUME RunInv, UNCHANGED <<run, node, attempt, req, intent, todo, lau, act>>, NoneBegins,
         exec' \in [Agent -> [1..MaxAttempts -> Executions]], ctl'.stopping = ctl.stopping,
         ControlOK', ObservationsOK', RecoverOK', BatchOK => BatchOK',
         \A n \in Agent : \/ can'.out[n] = can.out[n]
                          \/ can.out[n] # "-" /\ can'.out[n] # "-" /\ (can'.out[n] = "yes" => Over(n, node[n].att)')
  PROVE  RunInv'
<1>1. FilesOK /\ ThreadsOK /\ TodoOK
  BY DEF RunInv
<1>2. FilesOK'
  BY <1>1, FilesSame DEF FilesOK
<1>3. \A n \in Agent, k \in 1..MaxAttempts : Unlaunched(n, k) => Unlaunched(n, k)'
  BY DEF Unlaunched
<1>4. \A n \in Agent, k \in 1..MaxAttempts : Over(n, k) => Over(n, k)'
  BY <1>3 DEF Over, NoneBegins
<1>5. TodoOK'
  <2>1. Holding
    BY <1>3, <1>4 DEF Holding
  <2> QED BY <1>1, <2>1, TodoSame
<1>6. LaunchesOK'
  BY <1>1, LaunchesSame DEF ThreadsOK
<1>7. ExecutionsOK'
  BY <1>1, ExecutionsSame DEF ThreadsOK, NoneBegins
<1>8. TargetsOK'
  <2> SUFFICES ASSUME NEW n \in Agent, can'.out[n] # "-" PROVE TargetOK(n)'
    BY DEF TargetsOK, TargetOK
  <2>1. TargetOK(n) /\ can.out[n] # "-"
    BY <1>1 DEF ThreadsOK, TargetsOK
  <2>2. Busy(n) /\ run.cancel /\ Busy(n)' /\ Unsucceeded(n)'
    BY <2>1, StandsSame DEF TargetOK
  <2>3. node[n].att \in 1..MaxAttempts
    BY <1>1, <2>2, WorkflowAssumption DEF FilesOK, NodeOK, Busy, BusyPhases
  <2>4. can'.out[n] = "yes" => Over(n, node[n].att)'
    BY <1>4, <2>1, <2>3 DEF TargetOK
  <2> QED BY <2>2, <2>4 DEF TargetOK
<1> QED BY <1>2, <1>5, <1>6, <1>7, <1>8 DEF RunInv, ThreadsOK

\* An observation of n ends.
LEMMA ObservationEnds ==
  ASSUME RunInv, NEW n \in Agent, Observing(n), NEW o \in ObsPoints, NEW e \in Executions,
         Observed(n, o, e), faults' \in 0..MaxFaults,
         e = "live" => Execution(n) = "live", o \in {"ok", "bad"} => e # "live",
         o = "lost" => e # "live" \/ ~Current(n).handle
  PROVE  RunInv'
<1>1. ThreadTypes /\ ControlRules /\ FilesOK /\ ThreadsOK
  BY DEF RunInv, ControlOK
<1>2. lau = NoLaunch /\ ctl.pc = "observe" /\ node[n].att > 0
  BY <1>1 DEF Observing, ThreadsOK, ObservationsOK, ObservedOK, ControlRules
<1>3. /\ UNCHANGED <<run, node, attempt, req, intent, proc, todo, ctl, lau, can, ask, act, hbrec>>
      /\ obs' = [obs EXCEPT ![n] = o] /\ exec' = [exec EXCEPT ![n][node[n].att] = e]
  BY DEF Observed, disk
<1>4. /\ node[n].att \in 1..MaxAttempts /\ exec' \in [Agent -> [1..MaxAttempts -> Executions]]
      /\ Becomes(n, e)
  BY <1>1, <1>2, <1>3, ExecChange
<1>5. NoneBegins /\ exec'[n][node[n].att] = e
  BY <1>4 DEF Becomes, NoneBegins, Execution
<1>6. obs' \in [Agent -> ObsPoints] /\ \A m \in Agent : obs'[m] = IF m = n THEN o ELSE obs[m]
  BY <1>1, <1>3 DEF ThreadTypes
<1>7. ControlOK'
  BY <1>1, <1>2, <1>3, <1>6, ControlMoves DEF ThreadTypes
<1>8. ObservationsOK'
  <2> SUFFICES ASSUME NEW m \in Agent PROVE ObservedOK(m)'
    BY DEF ObservationsOK
  <2>0. ObservedOK(m) /\ Untouched(m)' = Untouched(m)
    BY <1>1, <1>3, StandsSame DEF ThreadsOK, ObservationsOK
  <2>1. CASE m = n
    BY <2>0, <2>1, <1>2, <1>3, <1>5, <1>6 DEF ObservedOK, Execution, Current, Observing
  <2>2. CASE m # n
    <3>1. ObservedOK(m) /\ obs'[m] = obs[m]
      BY <1>1, <1>6, <2>2 DEF ThreadsOK, ObservationsOK
    <3>2. Execution(m)' = Execution(m) \/ ~(node[m].att > 0)
      <4>1. node[m].att > 0 => node[m].att \in 1..MaxAttempts
        BY <1>1, WorkflowAssumption DEF FilesOK, NodeOK
      <4> QED BY <4>1, <1>3, <1>4, <2>2 DEF Becomes, Execution
    <3> QED BY <2>0, <3>1, <3>2, <1>3 DEF ObservedOK, Current
  <2> QED BY <2>1, <2>2
<1>9. RecoverOK'
  BY <1>2, <1>3 DEF RecoverOK
<1>10. ~BatchOK
  BY <1>2 DEF BatchOK
<1> QED BY <1>3, <1>4, <1>5, <1>7, <1>8, <1>9, <1>10, Ends

\* An observation preserves the invariant when it says what holds.
LEMMA Observes ==
  ASSUME RunInv, NEW n \in Agent, Observing(n)
  PROVE  node[n].att > 0 /\ Execution(n) \in Executions
<1>1. node[n].att > 0 /\ FilesOK
  BY DEF RunInv, Observing, ThreadsOK, ObservationsOK, ObservedOK
<1> QED BY <1>1, ExecutionType

\* The faults are counted up to their bound.
LEMMA FaultCounts == ASSUME RunInv, NEW f, Fault(f) PROVE faults' \in 0..MaxFaults
  BY RunAssumption DEF RunInv, ControlOK, ThreadTypes, Fault

\* Without a fault the count stays.
LEMMA FaultStays == ASSUME RunInv, UNCHANGED faults PROVE faults' \in 0..MaxFaults
  BY DEF RunInv, ControlOK, ThreadTypes

\* ObserveLocal preserves the invariant.
LEMMA StepObserveLocal == ASSUME RunInv, NEW n \in Agent, ObserveLocal(n) PROVE RunInv'
<1>1. Observing(n) /\ UNCHANGED faults
  BY DEF ObserveLocal
<1>2. faults' \in 0..MaxFaults /\ Execution(n) \in Executions
  BY <1>1, FaultStays, Observes
<1>3. PICK o \in {"settled", "lost", "cancelled"} :
        Observed(n, o, Execution(n)) /\ (o = "lost" => ~Current(n).handle)
  BY DEF ObserveLocal
<1>4. PICK e \in Executions : e = Execution(n)
  BY <1>2
<1>5. Observed(n, o, e)
  BY <1>3, <1>4
<1> QED BY <1>1, <1>2, <1>3, <1>4, <1>5, ObservationEnds DEF ObsPoints

\* ObserveActive preserves the invariant.
LEMMA StepObserveActive == ASSUME RunInv, NEW n \in Agent, ObserveActive(n) PROVE RunInv'
<1>1. Observing(n) /\ UNCHANGED faults /\ Execution(n) = "live" /\ Observed(n, "active", "live")
  BY DEF ObserveActive
<1> QED BY <1>1, FaultStays, ObservationEnds DEF ObsPoints, Executions

\* ObserveEnd preserves the invariant.
LEMMA StepObserveEnd == ASSUME RunInv, NEW n \in Agent, ObserveEnd(n) PROVE RunInv'
<1>1. PICK o \in {"ok", "bad", "questions"} : Observing(n) /\ UNCHANGED faults /\ Observed(n, o, o)
  BY DEF ObserveEnd
<1> QED BY <1>1, FaultStays, ObservationEnds DEF ObsPoints, Executions

\* ObserveGone preserves the invariant.
LEMMA StepObserveGone == ASSUME RunInv, NEW n \in Agent, ObserveGone(n) PROVE RunInv'
<1>1. Observing(n) /\ Observed(n, "lost", "gone")
  BY DEF ObserveGone
<1>2. faults' \in 0..MaxFaults
  BY FaultStays, FaultCounts DEF ObserveGone
<1> QED BY <1>1, <1>2, ObservationEnds DEF ObsPoints, Executions

\* ObserveTrouble preserves the invariant.
LEMMA StepObserveTrouble == ASSUME RunInv, NEW n \in Agent, ObserveTrouble(n) PROVE RunInv'
<1>1. Observing(n) /\ faults' \in 0..MaxFaults
  BY FaultCounts DEF ObserveTrouble
<1>2. PICK e : e = Execution(n)
  OBVIOUS
<1>3. PICK o \in {"error", "asking"} : Observed(n, o, e)
  BY <1>2 DEF ObserveTrouble
<1> QED BY <1>1, <1>2, <1>3, Observes, ObservationEnds DEF ObsPoints

\* CancelTarget preserves the invariant.
LEMMA StepCancelTarget == ASSUME RunInv, NEW n \in Agent, CancelTarget(n) PROVE RunInv'
<1>1. ThreadTypes /\ ControlRules /\ FilesOK /\ ThreadsOK /\ can \in CancelStates
  BY DEF RunInv, ControlOK, ThreadTypes
<1>2. /\ UNCHANGED <<run, node, attempt, req, intent, proc, todo, ctl, obs, lau, ask, act, hbrec>>
      /\ can.pc = "targets" /\ can.out[n] = "wait"
  BY DEF CancelTarget, disk
<1>3. Busy(n) /\ run.cancel
  BY <1>1, <1>2 DEF ThreadsOK, TargetsOK, TargetOK
<1>4. node[n].att > 0 /\ node[n].att \in 1..MaxAttempts
  BY <1>1, <1>3, WorkflowAssumption DEF FilesOK, NodeOK, Busy, BusyPhases
<1>5. Execution(n) \in Executions /\ Ended(n) \in Executions /\ Ended(n) # "live"
  BY <1>1, <1>4, ExecutionType
<1>6. ExecOK(n, node[n].att) /\ LaunchOK(n)
  BY <1>1, <1>4 DEF ThreadsOK, ExecutionsOK, LaunchesOK
<1>7. PICK o \in {"yes", "no"}, e \in {Execution(n), Ended(n)} :
        /\ can' = [can EXCEPT !.out[n] = o] /\ exec' = [exec EXCEPT ![n][node[n].att] = e]
        /\ o = "yes" => e # "live" /\ lau[n] \notin Dispatched
  <2>1. CASE ~Current(n).handle
    <3>1. PICK o \in {"yes", "no"} :
            /\ can' = [can EXCEPT !.out[n] = o] /\ exec' = [exec EXCEPT ![n][node[n].att] = Execution(n)]
            /\ o = "yes" => Current(n).launch = "prepared"
      BY <2>1 DEF CancelTarget
    <3>2. Current(n).launch = "prepared" => Execution(n) # "live" /\ lau[n] \notin Dispatched
      BY <1>6 DEF ExecOK, LaunchOK, Execution, Current
    <3> QED BY <3>1, <3>2
  <2>2. CASE Current(n).handle /\ Current(n).phase = "completed"
    <3>1. can' = [can EXCEPT !.out[n] = "yes"] /\ exec' = [exec EXCEPT ![n][node[n].att] = Execution(n)]
      BY <2>2 DEF CancelTarget
    <3>2. Execution(n) # "live" /\ lau[n] \notin Dispatched
      BY <2>2, <1>6 DEF ExecOK, LaunchOK, Execution, Current
    <3> QED BY <3>1, <3>2
  <2>3. CASE Current(n).handle /\ Current(n).phase # "completed"
    <3>1. PICK o \in {"yes", "no"}, e \in {Execution(n), Ended(n)} :
            /\ can' = [can EXCEPT !.out[n] = o] /\ exec' = [exec EXCEPT ![n][node[n].att] = e]
            /\ o = "yes" => e = Ended(n)
      BY <2>3 DEF CancelTarget
    <3>2. lau[n] \notin Dispatched
      BY <2>3, <1>6 DEF LaunchOK
    <3> QED BY <3>1, <3>2, <1>5
  <2> QED BY <2>1, <2>2, <2>3
<1>8. /\ exec' \in [Agent -> [1..MaxAttempts -> Executions]]
      /\ Becomes(n, e)
  BY <1>1, <1>4, <1>5, <1>7, ExecChange
<1>9. NoneBegins /\ exec'[n][node[n].att] = e
  BY <1>4, <1>5, <1>8 DEF Becomes, NoneBegins, Execution
<1>10. /\ can' \in CancelStates /\ can'.pc = can.pc /\ can'.who = can.who
       /\ \A m \in Agent : can'.out[m] = IF m = n THEN o ELSE can.out[m]
  <2>1. can.out \in [Agent -> {"-", "wait", "yes", "no"}]
    BY <1>1 DEF CancelStates
  <2>2. can'.pc = can.pc /\ can'.who = can.who /\ can'.out = [can.out EXCEPT ![n] = o]
    BY <1>1, <1>7 DEF CancelStates
  <2>3. can'.out \in [Agent -> {"-", "wait", "yes", "no"}]
    BY <2>1, <2>2
  <2> QED BY <1>1, <1>7, <2>1, <2>2, <2>3 DEF CancelStates
<1>11. faults' \in 0..MaxFaults
  BY FaultStays, FaultCounts DEF CancelTarget
<1>12. ControlOK'
  BY <1>1, <1>2, <1>10, <1>11 DEF ThreadTypes, ControlRules, ControlOK, Planned
<1>13. ObservationsOK'
  BY <1>1, <1>2, <1>9, ObservationsSame DEF ThreadsOK, NoneBegins
<1>14. RecoverOK'
  BY <1>1, <1>2, <1>9, RecoverSame DEF ThreadsOK, NoneBegins
<1>15. o = "yes" => Over(n, node[n].att)'
  BY <1>2, <1>3, <1>7, <1>9 DEF Over, Unlaunched
<1>16. ~BatchOK
  BY <1>2 DEF BatchOK
<1> QED BY <1>2, <1>8, <1>9, <1>10, <1>12, <1>13, <1>14, <1>15, <1>16, Ends

\* RecoverCancel preserves the invariant.
LEMMA StepRecoverCancel == ASSUME RunInv, RecoverCancel PROVE RunInv'
<1>1. ThreadTypes /\ ControlRules /\ FilesOK /\ ThreadsOK /\ ctl \in ControlStates
  BY DEF RunInv, ControlOK, ThreadTypes
<1>2. PICK n : n = ctl.target
  OBVIOUS
<1>3. n \in Agent /\ Busy(n) /\ lau = NoLaunch /\ ctl.pc = "rcancel"
  BY <1>1, <1>2 DEF RecoverCancel, ThreadsOK, RecoverOK, ControlRules
<1>4. node[n].att > 0 /\ node[n].att \in 1..MaxAttempts
  BY <1>1, <1>3, WorkflowAssumption DEF FilesOK, NodeOK, Busy, BusyPhases
<1>5. Execution(n) \in Executions /\ Ended(n) \in Executions /\ Ended(n) # "live"
  BY <1>1, <1>3, <1>4, ExecutionType
<1>6. UNCHANGED <<run, node, attempt, req, intent, proc, todo, obs, lau, can, ask, act, hbrec>>
  BY DEF RecoverCancel, disk
<1>7. PICK p \in {"rfinal", "rfail"}, e \in {Execution(n), Ended(n)} :
        Go(p) /\ exec' = [exec EXCEPT ![n][node[n].att] = e] /\ (p = "rfinal" => e = Ended(n))
  BY <1>2 DEF RecoverCancel
<1>8. ctl' \in ControlStates /\ ctl'.pc = p /\ ctl'.stopping = ctl.stopping /\ ctl'.target = n
  BY <1>1, <1>2, <1>7, GoType DEF ControlPoints
<1>9. /\ exec' \in [Agent -> [1..MaxAttempts -> Executions]]
      /\ Becomes(n, e)
  BY <1>1, <1>3, <1>4, <1>5, <1>7, ExecChange
<1>10. NoneBegins /\ exec'[n][node[n].att] = e
  BY <1>3, <1>4, <1>5, <1>9 DEF Becomes, NoneBegins, Execution
<1>11. faults' \in 0..MaxFaults
  BY FaultStays, FaultCounts DEF RecoverCancel
<1>12. ControlOK'
  BY <1>1, <1>3, <1>6, <1>7, <1>8, <1>11, ControlMoves DEF ThreadTypes
<1>13. ObservationsOK'
  BY <1>7, <1>8 DEF ObservationsOK, ObservedOK
<1>14. RecoverOK'
  <2>1. Busy(n)' /\ Unsucceeded(n)'
    BY <1>1, <1>2, <1>3, <1>6, StandsSame DEF ThreadsOK, RecoverOK
  <2> QED BY <1>3, <1>5, <1>6, <1>7, <1>8, <1>10, <2>1 DEF RecoverOK, Execution
<1>15. ~BatchOK
  BY <1>3 DEF BatchOK
<1> QED BY <1>6, <1>8, <1>9, <1>10, <1>12, <1>13, <1>14, <1>15, Ends

\* The Attempt of n becomes a.
Rewritten(n, a) == \A m \in Agent, k \in 1..MaxAttempts :
                     attempt'[m][k] = IF m = n /\ k = node[n].att THEN a ELSE attempt[m][k]

\* One Attempt changes.
LEMMA AttemptChange ==
  ASSUME FilesOK, NEW n \in Agent, node[n].att > 0, NEW a \in AttemptSnapshot,
         attempt' = [attempt EXCEPT ![n][node[n].att] = a]
  PROVE  /\ node[n].att \in 1..MaxAttempts
         /\ attempt' \in [Agent -> [1..MaxAttempts -> AttemptSnapshot \cup {NoAttempt}]]
         /\ Rewritten(n, a)
<1>1. node[n].att \in 1..MaxAttempts
  BY WorkflowAssumption DEF FilesOK, NodeOK
<1>2. attempt \in [Agent -> [1..MaxAttempts -> AttemptSnapshot \cup {NoAttempt}]]
  BY DEF FilesOK
<1>3. PICK k \in 1..MaxAttempts : k = node[n].att
  BY <1>1
<1> DEFINE h == [attempt[n] EXCEPT ![k] = a]
<1>4. attempt' = [attempt EXCEPT ![n] = h]
  BY <1>3
<1>5. /\ h \in [1..MaxAttempts -> AttemptSnapshot \cup {NoAttempt}]
      /\ \A l \in 1..MaxAttempts : h[l] = IF l = k THEN a ELSE attempt[n][l]
  BY <1>2
<1> HIDE DEF h
<1>6. /\ attempt' \in [Agent -> [1..MaxAttempts -> AttemptSnapshot \cup {NoAttempt}]]
      /\ \A m \in Agent : attempt'[m] = IF m = n THEN h ELSE attempt[m]
  BY <1>2, <1>4, <1>5
<1>7. ASSUME NEW m \in Agent, NEW l \in 1..MaxAttempts
      PROVE  attempt'[m][l] = IF m = n /\ l = k THEN a ELSE attempt[m][l]
  BY <1>5, <1>6
<1> QED BY <1>1, <1>3, <1>6, <1>7 DEF Rewritten

\* Another Attempt than that of n stays what it is.
LEMMA OtherCurrent ==
  ASSUME FilesOK, UNCHANGED node, NEW n \in Agent, NEW a, Rewritten(n, a), NEW m \in Agent, node[m].att > 0
  PROVE  /\ m # n => Current(m)' = Current(m)
         /\ m = n => Current(m)' = a
<1>1. node[m].att \in 1..MaxAttempts
  BY WorkflowAssumption DEF FilesOK, NodeOK
<1> QED BY <1>1 DEF Rewritten, Current

\* A launch of n goes on from its Attempt to p, with the mutex free.
LEMMA LaunchGoes ==
  ASSUME RunInv, NEW n \in Agent, ctl.pc = "launch", todo = <<>>, NEW p \in LaunchPoints,
         lau' = [lau EXCEPT ![n] = p], node[n].att > 0, NEW a \in AttemptSnapshot,
         attempt' = [attempt EXCEPT ![n][node[n].att] = a],
         UNCHANGED <<run, node, req, intent, exec, proc, todo, ctl, obs, can, ask, act, hbrec, faults>>,
         a.concl = Current(n).concl, a.phase = Current(n).phase,
         Execution(n) = "live" => a.launch # "prepared" /\ (a.handle => a.phase # "completed"),
         p # "begin", p # "-", lau[n] # "-",
         p \in Dispatched => /\ a.launch = "dispatching" /\ ~a.handle /\ Startable(n)
                             /\ ~Unlaunched(n, node[n].att),
         p \in {"refused", "err", "none"} => ~a.handle
  PROVE  RunInv'
<1>1. ThreadTypes /\ ControlRules /\ FilesOK /\ ThreadsOK
  BY DEF RunInv, ControlOK
<1>2. /\ node[n].att \in 1..MaxAttempts
      /\ attempt' \in [Agent -> [1..MaxAttempts -> AttemptSnapshot \cup {NoAttempt}]]
      /\ Rewritten(n, a)
  BY <1>1, AttemptChange
<1>3. lau' \in [Agent -> LaunchPoints] /\ \A m \in Agent : lau'[m] = IF m = n THEN p ELSE lau[m]
  BY <1>1 DEF ThreadTypes
<1>4. ControlOK'
  BY <1>1, <1>3, ControlMoves DEF ThreadTypes
<1>5. TodoOK'
  BY TodoRest
<1>6. \A m \in Agent : node[m].att > 0 => /\ m # n => Current(m)' = Current(m)
                                          /\ m = n => Current(m)' = a
  BY <1>1, <1>2, OtherCurrent
<1>7. FilesOK'
  <2>1. \A m \in Node : NodeOK(m, node[m])'
    BY <1>1 DEF FilesOK, NodeOK
  <2>2. \A m \in Agent : node'[m].att > 0 => Current(m)' \in AttemptSnapshot
    BY <1>1, <1>6 DEF FilesOK
  <2> QED BY <1>1, <1>2, <2>1, <2>2 DEF FilesOK
<1>8. LaunchesOK'
  <2> SUFFICES ASSUME NEW m \in Agent PROVE LaunchOK(m)'
    BY DEF LaunchesOK
  <2>0. LaunchOK(m) /\ ~Coming(m) /\ Untouched(m)' = Untouched(m)
    BY <1>1, StandsSame DEF ThreadsOK, LaunchesOK, Coming
  <2>1. CASE m = n
    <3>1. Current(n)' = a /\ node' = node /\ lau'[n] = p
      BY <1>3, <1>6
    <3>2. Startable(n) => Startable(n)'
      BY <3>1 DEF Startable, Open
    <3>3. run.cancel \/ Untouched(n)'
      BY <2>0, <2>1 DEF LaunchOK
    <3> QED BY <2>1, <3>1, <3>2, <3>3 DEF LaunchOK, Dispatched
  <2>2. CASE m # n
    <3>1. LaunchOK(m) /\ lau'[m] = lau[m]
      BY <1>1, <1>3, <2>2 DEF ThreadsOK, LaunchesOK
    <3>2. node[m].att > 0 => Current(m)' = Current(m) /\ Startable(m)' = Startable(m)
      BY <1>6, <2>2 DEF Startable, Open
    <3> QED BY <2>0, <3>1, <3>2 DEF LaunchOK
  <2> QED BY <2>1, <2>2
<1>9. \A m \in Agent, k \in 1..MaxAttempts : Over(m, k) => Over(m, k)'
  <2> SUFFICES ASSUME NEW m \in Agent, NEW k \in 1..MaxAttempts, Over(m, k) PROVE Unlaunched(m, k)'
    BY DEF Over
  <2>1. Unlaunched(m, k)
    BY DEF Over
  <2> QED BY <2>1, <1>3 DEF Unlaunched
<1>10. TargetsOK'
  BY <1>1, <1>9, TargetsSame DEF ThreadsOK
<1>11. ObservationsOK' /\ RecoverOK'
  BY DEF ObservationsOK, ObservedOK, RecoverOK
<1>12. ExecutionsOK'
  <2> SUFFICES ASSUME NEW m \in Agent, NEW k \in 1..MaxAttempts PROVE ExecOK(m, k)'
    BY DEF ExecutionsOK
  <2>1. ExecOK(m, k)
    BY <1>1 DEF ThreadsOK, ExecutionsOK
  <2>2. CASE m = n /\ k = node[n].att
    <3>1. attempt'[m][k] = a /\ attempt[m][k] = Current(n) /\ exec[m][k] = Execution(n)
      BY <2>2, <1>2 DEF Rewritten, Current, Execution
    <3> QED BY <2>1, <3>1, FileAssumption DEF ExecOK, Open
  <2>3. CASE ~(m = n /\ k = node[n].att)
    <3>1. attempt'[m][k] = attempt[m][k]
      BY <2>3, <1>2 DEF Rewritten
    <3> QED BY <2>1, <3>1 DEF ExecOK, Open
  <2> QED BY <2>2, <2>3
<1> QED BY <1>4, <1>5, <1>7, <1>8, <1>10, <1>11, <1>12 DEF RunInv, ThreadsOK

\* Writing the Attempt of n as it is changes nothing.
LEMMA AttemptKept ==
  ASSUME FilesOK, NEW n \in Agent, node[n].att > 0, attempt' = attempt
  PROVE  attempt' = [attempt EXCEPT ![n][node[n].att] = Current(n)]
<1>1. PICK k \in 1..MaxAttempts : k = node[n].att
  BY WorkflowAssumption DEF FilesOK, NodeOK
<1>2. attempt \in [Agent -> [1..MaxAttempts -> AttemptSnapshot \cup {NoAttempt}]]
  BY DEF FilesOK
<1>3. [attempt[n] EXCEPT ![k] = attempt[n][k]] = attempt[n]
  BY <1>2
<1>4. [attempt EXCEPT ![n] = [attempt[n] EXCEPT ![k] = attempt[n][k]]] = attempt
  BY <1>2, <1>3
<1> QED BY <1>1, <1>4 DEF Current

\* LaunchBegin preserves the invariant.
LEMMA StepLaunchBegin == ASSUME RunInv, NEW n \in Agent, LaunchBegin(n) PROVE RunInv'
<1>1. ThreadTypes /\ FilesOK /\ ThreadsOK
  BY DEF RunInv, ControlOK
<1>2. LaunchOK(n) /\ lau[n] = "begin" /\ todo = <<>>
  BY <1>1 DEF ThreadsOK, LaunchesOK, LaunchBegin
<1>3. /\ node[n].att > 0 /\ Current(n).launch = "prepared" /\ ~Current(n).handle
      /\ ctl.stopping \/ run.cancel \/ Startable(n)
  BY <1>2 DEF LaunchOK, Coming
<1>4. Current(n) \in AttemptSnapshot
  BY <1>1, <1>3 DEF FilesOK
<1>5. Execution(n) # "live"
  <2>1. node[n].att \in 1..MaxAttempts
    BY <1>1, <1>3, WorkflowAssumption DEF FilesOK, NodeOK
  <2>2. ExecOK(n, node[n].att)
    BY <2>1, <1>1 DEF ThreadsOK, ExecutionsOK
  <2> QED BY <2>2, <1>3 DEF ExecOK, Execution, Current
<1>6. CASE ctl.stopping \/ run.cancel \/ run.phase \in {"cancelling", "completed"}
  <2>1. lau' = [lau EXCEPT ![n] = "refused"] /\ attempt' = attempt
    BY <1>6 DEF LaunchBegin
  <2>2. PICK a \in AttemptSnapshot : a = Current(n)
    BY <1>4
  <2>3. attempt' = [attempt EXCEPT ![n][node[n].att] = a]
    BY <1>1, <1>3, <2>1, <2>2, AttemptKept
  <2> QED BY <1>2, <1>3, <1>5, <2>1, <2>2, <2>3, LaunchGoes DEF LaunchBegin, LaunchPoints, Dispatched
<1>7. CASE ~(ctl.stopping \/ run.cancel \/ run.phase \in {"cancelling", "completed"})
  <2>1. PICK a : a = [Current(n) EXCEPT !.launch = "dispatching"]
    OBVIOUS
  <2>2. /\ a.concl = Current(n).concl /\ a.phase = Current(n).phase /\ a.handle = Current(n).handle
        /\ a.launch = "dispatching"
    BY <1>4, <2>1 DEF AttemptSnapshot
  <2>3. a \in AttemptSnapshot
    BY <1>4, <2>1 DEF AttemptSnapshot, LaunchStates
  <2>4. lau' = [lau EXCEPT ![n] = "start"] /\ attempt' = [attempt EXCEPT ![n][node[n].att] = a]
    BY <1>7, <2>1 DEF LaunchBegin, Current
  <2>5. ~Unlaunched(n, node[n].att)
    BY <1>2, <1>7 DEF Unlaunched
  <2>6. /\ ctl.pc = "launch" /\ todo = <<>> /\ "start" \in LaunchPoints
        /\ UNCHANGED <<run, node, req, intent, exec, proc, todo, ctl, obs, can, ask, act, hbrec, faults>>
    BY DEF LaunchBegin, LaunchPoints
  <2>7. Startable(n) /\ ~a.handle /\ lau[n] # "-"
    BY <1>2, <1>3, <1>7, <2>2
  <2> QED BY <1>3, <1>5, <2>2, <2>3, <2>4, <2>5, <2>6, <2>7, LaunchGoes
<1> QED BY <1>6, <1>7

\* LaunchPersist preserves the invariant.
LEMMA StepLaunchPersist == ASSUME RunInv, NEW n \in Agent, LaunchPersist(n) PROVE RunInv'
<1>1. ThreadTypes /\ FilesOK /\ ThreadsOK
  BY DEF RunInv, ControlOK
<1>2. lau[n] \in Dispatched /\ LaunchOK(n)
  BY <1>1 DEF ThreadsOK, LaunchesOK, LaunchPersist, Dispatched
<1>3. node[n].att > 0 /\ Current(n).phase # "completed" /\ Current(n) \in AttemptSnapshot
  BY <1>1, <1>2 DEF LaunchOK, Startable, FilesOK
<1> DEFINE got == lau[n] \in {"handle", "handle_err"}
<1>4. got \in BOOLEAN
  OBVIOUS
<1>5. PICK l \in {"handle_persisted", "finished_without_handle"} :
        l = IF got THEN "handle_persisted" ELSE "finished_without_handle"
  OBVIOUS
<1>6. attempt' = [attempt EXCEPT ![n][node[n].att] = [@ EXCEPT !.handle = got, !.launch = l]]
  BY <1>5 DEF LaunchPersist
<1>7. PICK p \in LaunchPoints :
         /\ lau' = [lau EXCEPT ![n] = p] /\ p \notin Dispatched /\ p \notin {"-", "begin"}
         /\ p \in {"refused", "err", "none"} => ~got
  <2>1. CASE lau[n] = "handle"
    <3>1. lau' = [lau EXCEPT ![n] = "ok"]
      BY <2>1 DEF LaunchPersist
    <3> QED BY <3>1 DEF LaunchPoints, Dispatched
  <2>2. CASE lau[n] = "handle_err"
    <3>1. lau' = [lau EXCEPT ![n] = "err_handle"]
      BY <2>2 DEF LaunchPersist
    <3> QED BY <3>1 DEF LaunchPoints, Dispatched
  <2>3. CASE lau[n] = "nohandle"
    <3>1. lau' = [lau EXCEPT ![n] = "err"] /\ ~got
      BY <2>3, <1>4 DEF LaunchPersist
    <3> QED BY <3>1 DEF LaunchPoints, Dispatched
  <2>4. CASE lau[n] = "empty"
    <3>1. lau' = [lau EXCEPT ![n] = "none"] /\ ~got
      BY <2>4, <1>4 DEF LaunchPersist
    <3> QED BY <3>1 DEF LaunchPoints, Dispatched
  <2> QED BY <2>1, <2>2, <2>3, <2>4 DEF LaunchPersist
<1>8. PICK a : a = [Current(n) EXCEPT !.handle = got, !.launch = l]
  OBVIOUS
<1>9. a.concl = Current(n).concl /\ a.phase = Current(n).phase /\ a.handle = got /\ a.launch = l
  BY <1>3, <1>8 DEF AttemptSnapshot
<1>10. a \in AttemptSnapshot
  <2> HIDE DEF got
  <2> QED BY <1>3, <1>4, <1>8 DEF AttemptSnapshot, LaunchStates
<1>11. attempt' = [attempt EXCEPT ![n][node[n].att] = a]
  BY <1>6, <1>8 DEF Current
<1> QED BY <1>2, <1>3, <1>7, <1>9, <1>10, <1>11, LaunchGoes DEF LaunchPersist, Dispatched

\* LaunchStart preserves the invariant.
LEMMA StepLaunchStart == ASSUME RunInv, NEW n \in Agent, LaunchStart(n) PROVE RunInv'
<1>1. ThreadTypes /\ ControlRules /\ FilesOK /\ ThreadsOK /\ TodoOK
  BY DEF RunInv, ControlOK
<1>2. LaunchOK(n) /\ lau[n] = "start" /\ ctl.pc = "launch"
  BY <1>1 DEF ThreadsOK, LaunchesOK, LaunchStart
<1>3. node[n].att > 0 /\ Current(n).launch = "dispatching" /\ ~Current(n).handle /\ Startable(n)
  BY <1>2 DEF LaunchOK, Dispatched
<1>4. /\ UNCHANGED <<run, node, attempt, req, intent, proc, todo, ctl, obs, can, ask, act, hbrec>>
      /\ faults' \in 0..MaxFaults
  BY FaultStays, FaultCounts DEF LaunchStart, disk
<1>5. PICK o \in {"handle", "handle_err", "nohandle", "empty"}, e \in {"live", "none"} :
        lau' = [lau EXCEPT ![n] = o] /\ exec' = [exec EXCEPT ![n][node[n].att] = e]
  BY DEF LaunchStart
<1>6. /\ node[n].att \in 1..MaxAttempts /\ exec' \in [Agent -> [1..MaxAttempts -> Executions]]
      /\ Becomes(n, e)
  BY <1>1, <1>3, <1>5, ExecChange DEF Executions
<1>7. lau' \in [Agent -> LaunchPoints] /\ \A m \in Agent : lau'[m] = IF m = n THEN o ELSE lau[m]
  BY <1>1, <1>5 DEF ThreadTypes, LaunchPoints
<1>8. ControlOK'
  BY <1>1, <1>2, <1>4, <1>7, ControlMoves DEF ThreadTypes
<1>9. \A m \in Agent, k \in 1..MaxAttempts : Unlaunched(m, k) => Unlaunched(m, k)'
  BY <1>2, <1>4, <1>7 DEF Unlaunched, Dispatched
<1>10. ~Unlaunched(n, node[n].att)
  BY <1>2 DEF Unlaunched, Dispatched
<1>11. \A m \in Agent, k \in 1..MaxAttempts : Over(m, k) => Over(m, k)'
  BY <1>6, <1>9, <1>10 DEF Over, Becomes
<1>12. TodoOK'
  <2>1. Holding
    BY <1>4, <1>9, <1>11 DEF Holding
  <2>2. ~BatchOK
    BY <1>2 DEF BatchOK
  <2> QED BY <1>1, <1>4, <2>1, <2>2, TodoSame
<1>13. FilesOK'
  BY <1>1, <1>4, <1>6, FilesSame DEF FilesOK
<1>14. LaunchesOK'
  <2> SUFFICES ASSUME NEW m \in Agent PROVE LaunchOK(m)'
    BY DEF LaunchesOK
  <2>1. Current(m)' = Current(m) /\ Startable(m)' = Startable(m) /\ LaunchOK(m)
    BY <1>1, <1>4 DEF Startable, Open, Current, ThreadsOK, LaunchesOK
  <2>2. Coming(m)' = Coming(m) \/ lau[m] # "begin"
    <3> SUFFICES ASSUME lau[m] = "begin" PROVE Coming(m)' = Coming(m)
      OBVIOUS
    <3>1. lau'[m] = lau[m]
      BY <1>2, <1>7
    <3>2. \A i \in DOMAIN todo : todo[i].n = m => CreatesOK(i)' = CreatesOK(i)
      BY <1>4, <3>1 DEF CreatesOK, NodeOK, DepsOver
    <3> QED BY <1>4, <3>2 DEF Coming
  <2>3. Untouched(m)' = Untouched(m) /\ (Coming(m) => lau[m] = "begin")
    BY <1>4, StandsSame DEF Coming, CreatesOK
  <2>4. CASE m = n
    <3>1. run.cancel \/ Untouched(n)'
      BY <1>2, <2>3, <2>4 DEF LaunchOK
    <3> QED BY <2>1, <2>4, <3>1, <1>3, <1>4, <1>5, <1>7 DEF LaunchOK, Dispatched
  <2>5. CASE m # n
    <3>1. lau'[m] = lau[m]
      BY <1>7, <2>5
    <3> QED BY <2>1, <2>2, <2>3, <3>1, <1>4 DEF LaunchOK
  <2> QED BY <2>4, <2>5
<1>15. TargetsOK'
  BY <1>1, <1>4, <1>11, TargetsSame DEF ThreadsOK
<1>16. ObservationsOK' /\ RecoverOK'
  BY <1>2, <1>4 DEF ObservationsOK, ObservedOK, RecoverOK
<1>17. ExecutionsOK'
  <2> SUFFICES ASSUME NEW m \in Agent, NEW k \in 1..MaxAttempts PROVE ExecOK(m, k)'
    BY DEF ExecutionsOK
  <2>1. CASE m = n /\ k = node[n].att
    <3>1. attempt[m][k] = Current(n) /\ Current(n) # NoAttempt
      BY <2>1, <1>1, <1>3, FileAssumption DEF Current, FilesOK
    <3> QED BY <2>1, <3>1, <1>3, <1>4 DEF ExecOK, Startable, Open
  <2>2. CASE ~(m = n /\ k = node[n].att)
    <3>1. exec'[m][k] = exec[m][k] /\ ExecOK(m, k)
      BY <2>2, <1>1, <1>6 DEF Becomes, ThreadsOK, ExecutionsOK
    <3> QED BY <3>1, <1>4 DEF ExecOK, Open
  <2> QED BY <2>1, <2>2
<1> QED BY <1>8, <1>12, <1>13, <1>14, <1>15, <1>16, <1>17 DEF RunInv, ThreadsOK
-----------------------------------------------------------------------------
(***************************************************************************)
(* The mutations that the engine begins.                                   *)
(***************************************************************************)

\* The write w of a mutation that gives node n the snapshot V[n], and the Run
\* the cancellation flag c.
Fits(w, V, c) ==
  /\ w \in Writes /\ w.file \in {"node", "attempt", "run"} /\ PlainOK(w)
  /\ w.file = "node" => w.n \in DOMAIN V /\ w.val = V[w.n]
  /\ w.file = "run" => w.val.cancel = c

\* All writes of s are plain, write the nodes as V says and the Run with cancel = c.
AllFit(s, V, c) == s \in Seq(Writes) /\ \A i \in DOMAIN s : Fits(s[i], V, c)

\* No write that is due creates an Attempt.
AllPlain == \A i \in DOMAIN todo : PlainOK(todo[i])

\* No write fits.
LEMMA FitEmpty == ASSUME NEW V, NEW c PROVE AllFit(<<>>, V, c)
<1>1. <<>> \in Seq(Writes) /\ DOMAIN <<>> = {}
  OBVIOUS
<1> QED BY <1>1 DEF AllFit

\* One write that fits.
LEMMA FitOne ==
  ASSUME NEW V, NEW c, NEW x, Fits(x, V, c)
  PROVE  AllFit(<<x>>, V, c)
<1>1. x \in Writes
  BY DEF Fits
<1>2. <<x>> \in Seq(Writes) /\ DOMAIN <<x>> = {1} /\ <<x>>[1] = x
  BY <1>1
<1> QED BY <1>2 DEF AllFit

\* Two sequences that fit.
LEMMA FitJoin ==
  ASSUME NEW V, NEW c, NEW a, NEW b, AllFit(a, V, c), AllFit(b, V, c)
  PROVE  AllFit(a \o b, V, c)
<1>1. a \in Seq(Writes) /\ b \in Seq(Writes) /\ DOMAIN a = 1..Len(a) /\ DOMAIN b = 1..Len(b)
  BY DEF AllFit
<1>2. PICK s : s = a \o b
  OBVIOUS
<1>3. s \in Seq(Writes) /\ Concats(s, a, b) /\ DOMAIN s = 1..Len(s)
  <2>1. s \in Seq(Writes) /\ Concats(s, a, b)
    BY <1>1, <1>2, FromConcat
  <2> QED BY <2>1
<1>4. ASSUME NEW i \in 1..Len(s) PROVE Fits(s[i], V, c)
  <2>1. CASE i \in 1..Len(a)
    BY <2>1, <1>1, <1>3 DEF Concats, From, AllFit
  <2>2. CASE \E l \in 1..Len(b) : i = Len(a) + l
    <3>1. PICK l \in 1..Len(b) : i = Len(a) + l
      BY <2>2
    <3>2. s[i] = b[l]
      BY <3>1, <1>3 DEF Concats, From
    <3> QED BY <3>2, <1>1 DEF AllFit
  <2> QED BY <2>1, <2>2, <1>3 DEF Concats
<1> QED BY <1>2, <1>3, <1>4 DEF AllFit

\* Two writes that fit.
LEMMA FitTwo ==
  ASSUME NEW V, NEW c, NEW x, NEW y, Fits(x, V, c), Fits(y, V, c)
  PROVE  AllFit(<<x, y>>, V, c)
<1>1. x \in Writes /\ y \in Writes
  BY DEF Fits
<1>2. <<x, y>> \in Seq(Writes) /\ DOMAIN <<x, y>> = {1, 2} /\ <<x, y>>[1] = x /\ <<x, y>>[2] = y
  BY <1>1
<1> QED BY <1>2 DEF AllFit

\* Three writes that fit.
LEMMA FitThree ==
  ASSUME NEW V, NEW c, NEW x, NEW y, NEW z, Fits(x, V, c), Fits(y, V, c), Fits(z, V, c)
  PROVE  AllFit(<<x, y, z>>, V, c)
<1>1. x \in Writes /\ y \in Writes /\ z \in Writes
  BY DEF Fits
<1> DEFINE t == <<x, y, z>>
<1>2. t \in Seq(Writes) /\ DOMAIN t = {1, 2, 3} /\ t[1] = x /\ t[2] = y /\ t[3] = z
  BY <1>1
<1> QED BY <1>2 DEF AllFit

\* Many sequences that fit.
LEMMA FitFlat ==
  ASSUME NEW V, NEW c, NEW ss, NEW N \in Nat, DOMAIN ss = 1..N, Len(ss) = N,
         \A j \in 1..N : AllFit(ss[j], V, c)
  PROVE  AllFit(Flatten(ss), V, c)
<1>1. PICK s : s = Flatten(ss)
  OBVIOUS
<1>2. \A j \in 1..N : ss[j] \in Seq(Writes)
  BY DEF AllFit
<1>3. /\ s \in Seq(Writes)
      /\ \A i \in 1..Len(s) : \E j \in 1..N : \E l \in 1..Len(ss[j]) : From(s, i, ss[j], l)
  BY <1>1, <1>2, FlattenPieces
<1>4. ASSUME NEW i \in 1..Len(s) PROVE Fits(s[i], V, c)
  <2>1. PICK j \in 1..N : \E l \in 1..Len(ss[j]) : From(s, i, ss[j], l)
    BY <1>3
  <2>2. PICK l \in 1..Len(ss[j]) : From(s, i, ss[j], l)
    BY <2>1
  <2>3. s[i] = ss[j][l] /\ l \in DOMAIN ss[j]
    BY <2>2, <1>2 DEF From
  <2> QED BY <2>3 DEF AllFit
<1>5. DOMAIN s = 1..Len(s)
  BY <1>3
<1> QED BY <1>1, <1>3, <1>4, <1>5 DEF AllFit

\* The write of a Run that stays as cancelled as it is.
LEMMA FitRun ==
  ASSUME NEW V, NEW c, NEW r \in WorkflowSnapshot, r.cancel = c, run.cancel => r.cancel
  PROVE  Fits(WriteRun(r), V, c)
<1>1. PICK w : w = WriteRun(r)
  OBVIOUS
<1>2. w \in Writes /\ w.file = "run" /\ w.val = r
  BY <1>1, RunWrite
<1>3. PlainOK(w)
  BY <1>2 DEF PlainOK
<1> QED BY <1>1, <1>2, <1>3 DEF Fits

\* The write of a node.
LEMMA FitNode ==
  ASSUME NEW V, NEW c, NEW n \in Node, NEW v, n \in DOMAIN V, V[n] = v, NodeOK(n, v), v.att = node[n].att,
         n \in Agent /\ ~Open(v.concl) => Over(n, v.att),
         n \in Agent /\ Busy(n) => v.phase \in BusyPhases,
         node[n].concl # "succeeded",
         n \in Agent /\ v.phase \in {"running", "waiting"} => Active(n, node) \/ can.out[n] # "-"
  PROVE  Fits(WriteNode(n, v), V, c)
<1>1. PICK w : w = WriteNode(n, v)
  OBVIOUS
<1>2. w \in Writes /\ w.file = "node" /\ w.n = n /\ w.val = v
  <2>1. v \in NodeSnapshot
    BY DEF NodeOK
  <2> QED BY <1>1, <2>1, NodeWrite
<1>3. NodeWriteOK(w)
  BY <1>2 DEF NodeWriteOK
<1>4. PlainOK(w)
  BY <1>2, <1>3 DEF PlainOK
<1> QED BY <1>1, <1>2, <1>4 DEF Fits

\* The write of an Attempt.
LEMMA FitAttempt ==
  ASSUME NEW V, NEW c, NEW n \in Agent, FilesOK, node[n].att > 0, NEW v \in AttemptSnapshot,
         v.launch = Current(n).launch, v.handle = Current(n).handle,
         v.phase = "completed" => Unlaunched(n, node[n].att),
         ~Open(v.concl) \/ (v.phase = "completed" /\ v.handle) => Over(n, node[n].att)
  PROVE  Fits(UpdateAttempt(n, node[n].att, v), V, c)
<1>1. PICK k \in 1..MaxAttempts : k = node[n].att
  BY WorkflowAssumption DEF FilesOK, NodeOK
<1>2. PICK w : w = UpdateAttempt(n, k, v)
  OBVIOUS
<1>3. w \in Writes /\ w.file = "attempt" /\ w.n = n /\ w.k = k /\ w.val = v
  BY <1>2, AttemptWrite
<1>4. attempt[n][k] = Current(n) /\ Current(n) \in AttemptSnapshot
  BY <1>1 DEF Current, FilesOK
<1>5. AttemptWriteOK(w)
  BY <1>1, <1>3, <1>4 DEF AttemptWriteOK
<1>6. PlainOK(w)
  BY <1>3, <1>5 DEF PlainOK
<1> QED BY <1>1, <1>2, <1>3, <1>6 DEF Fits

\* The writes of a mutation begin.
LEMMA Mutation ==
  ASSUME RunInv, todo = <<>>, ~act, ~Planned,
         UNCHANGED <<run, node, attempt, req, intent, exec, act>>,
         NEW V, NEW c, AllFit(todo', V, c), ControlOK',
         ctl'.stopping = ctl.stopping, can'.out = can.out,
         \A m \in Agent : lau'[m] = "-" \/ (lau'[m] = lau[m] /\ (m \notin DOMAIN V \/ run.cancel)),
         ctl'.pc = "observe" =>
           /\ ctl.pc = "observe"
           /\ \A m \in Agent : obs'[m] = "-" \/ (obs'[m] = obs[m] /\ (m \notin DOMAIN V \/ run.cancel)),
         ctl'.pc \in {"rmark", "rtarget", "rcancel", "rfinal"} => ctl' = ctl,
         run.cancel \/ ctl'.pc \in {"rtarget", "rcancel", "rfinal"} =>
           \A m \in DOMAIN V : V[m].concl # "succeeded"
  PROVE  RunInv' /\ AllPlain'
<1>1. FilesOK /\ ThreadsOK /\ TodoOK
  BY DEF RunInv
<1>2. FilesOK'
  BY <1>1, FilesSame DEF FilesOK
<1>3. ExecutionsOK'
  BY <1>1, ExecutionsSame DEF ThreadsOK
<1>4. Holding
  <2>1. \A n \in Agent, k \in 1..MaxAttempts : Unlaunched(n, k) => Unlaunched(n, k)'
    BY DEF Unlaunched, Dispatched
  <2> QED BY <2>1 DEF Holding, Over
<1>5. PICK s : s = todo'
  OBVIOUS
<1>6. s \in Seq(Writes) /\ \A i \in DOMAIN s : Fits(s[i], V, c)
  BY <1>5 DEF AllFit
<1>7. ASSUME NEW i \in DOMAIN s PROVE PlainOK(s[i])'
  <2>1. s[i] \in Writes /\ PlainOK(s[i])
    BY <1>6 DEF Fits
  <2> QED BY <2>1, <1>4, PlainKept
<1>8. \A i \in DOMAIN todo' : PlainOK(todo[i])'
  <2> SUFFICES ASSUME NEW i \in DOMAIN todo' PROVE PlainOK(todo[i])'
    OBVIOUS
  <2>1. PICK w : w = s[i]
    OBVIOUS
  <2>2. PlainOK(w)' /\ todo'[i] = w
    BY <1>5, <1>7, <2>1
  <2> QED BY <2>2
<1>9. TodoOK'
  <2>1. AgreeOK'
    <3>1. \A i, j \in DOMAIN s : s[i].file = "node" /\ s[j].file = "node" /\ s[i].n = s[j].n =>
            s[i].val = s[j].val
      BY <1>6 DEF Fits
    <3>2. \A i, j \in DOMAIN s : s[i].file = "run" /\ s[j].file = "run" => s[i].val.cancel = s[j].val.cancel
      BY <1>6 DEF Fits
    <3> QED BY <1>5, <3>1, <3>2 DEF AgreeOK
  <2>2. IntentOK'
    <3>1. ~Planned' /\ ~act' /\ intent' \in actionIntent
      BY <1>1 DEF Planned, TodoOK, IntentOK
    <3>2. \A i \in DOMAIN todo' : todo'[i].file # "intent"
      BY <1>5, <1>6 DEF Fits
    <3> QED BY <3>1, <3>2 DEF IntentOK
  <2>3. todo' \in Seq(Writes)
    BY <1>5, <1>6
  <2> QED BY <1>8, <2>1, <2>2, <2>3 DEF TodoOK, WriteOK
<1>10. \A m : Untouched(m) /\ m \notin DOMAIN V => Untouched(m)'
  BY <1>5, <1>6 DEF Untouched, Active, Fits
<1>11. (\A m \in DOMAIN V : V[m].concl # "succeeded") => \A m : Unsucceeded(m) => Unsucceeded(m)'
  BY <1>5, <1>6 DEF Unsucceeded, Fits
<1>12. \A m : Busy(m)' = Busy(m) /\ Execution(m)' = Execution(m) /\ Current(m)' = Current(m)
  BY DEF Busy, Execution, Current
<1>13. LaunchesOK'
  <2> SUFFICES ASSUME NEW m \in Agent, lau'[m] # "-" PROVE LaunchOK(m)'
    BY DEF LaunchesOK, LaunchOK, Dispatched
  <2>1. lau'[m] = lau[m] /\ (m \notin DOMAIN V \/ run.cancel) /\ LaunchOK(m)
    BY <1>1 DEF ThreadsOK, LaunchesOK
  <2>2. ~Coming(m) /\ (run.cancel \/ Untouched(m)')
    <3>1. ~Coming(m)
      BY DEF Coming
    <3> QED BY <2>1, <3>1, <1>10 DEF LaunchOK
  <2>3. Startable(m)' = Startable(m)
    BY <1>12 DEF Startable, Open
  <2> QED BY <2>1, <2>2, <2>3, <1>12 DEF LaunchOK
<1>14. ObservationsOK'
  <2> SUFFICES ASSUME NEW m \in Agent, ctl'.pc = "observe", obs'[m] # "-" PROVE ObservedOK(m)'
    BY DEF ObservationsOK, ObservedOK
  <2>1. ObservedOK(m) /\ obs'[m] = obs[m] /\ (m \notin DOMAIN V \/ run.cancel)
    BY <1>1 DEF ThreadsOK, ObservationsOK
  <2> QED BY <2>1, <1>10, <1>12 DEF ObservedOK
<1>15. TargetsOK'
  <2> SUFFICES ASSUME NEW m \in Agent, can'.out[m] # "-" PROVE TargetOK(m)'
    BY DEF TargetsOK, TargetOK
  <2>1. TargetOK(m) /\ can.out[m] # "-"
    BY <1>1 DEF ThreadsOK, TargetsOK
  <2>2. Busy(m) /\ run.cancel /\ Unsucceeded(m)' /\ (can.out[m] = "yes" => Over(m, node[m].att))
    BY <2>1, <1>11 DEF TargetOK
  <2>3. node[m].att \in 1..MaxAttempts
    BY <1>1, <2>2, WorkflowAssumption DEF FilesOK, NodeOK, Busy, BusyPhases
  <2>4. can.out[m] = "yes" => Over(m, node[m].att)'
    BY <2>2, <2>3, <1>4 DEF Holding
  <2> QED BY <2>2, <2>4, <1>12 DEF TargetOK
<1>16. RecoverOK'
  <2> SUFFICES ASSUME ctl'.pc \in {"rmark", "rtarget", "rcancel", "rfinal"} PROVE RecoverOK'
    BY DEF RecoverOK
  <2>1. RecoverOK /\ ctl' = ctl
    BY <1>1 DEF ThreadsOK
  <2>2. PICK n : n = ctl.target
    OBVIOUS
  <2>3. ctl.pc # "rmark" => (Unsucceeded(n) => Unsucceeded(n)')
    BY <2>1, <1>11
  <2> QED BY <2>1, <2>2, <2>3, <1>12 DEF RecoverOK
<1> QED BY <1>2, <1>3, <1>8, <1>9, <1>13, <1>14, <1>15, <1>16 DEF RunInv, ThreadsOK, AllPlain

\* The node First(f) has something left in f.
LEMMA FirstLeft ==
  ASSUME NEW f, Left(f) # {}
  PROVE  First(f) \in Agent /\ First(f) \in Node /\ f[First(f)] # "-"
<1>1. Left(f) \subseteq Agent /\ Agent \subseteq Node
  BY WorkflowAssumption DEF Left
<1>2. PICK q : q = InOrder(Left(f))
  OBVIOUS
<1>3. /\ q \in Seq(Node) /\ \A i \in DOMAIN q : q[i] \in Left(f) \cap Node
      /\ \A n \in Left(f) \cap Node : \E i \in DOMAIN q : q[i] = n
  BY <1>2, InOrderNodes
<1>4. 1 \in DOMAIN q
  <2>1. PICK n \in Left(f) \cap Node : TRUE
    BY <1>1
  <2>2. PICK i \in DOMAIN q : q[i] = n
    BY <1>3
  <2> QED BY <2>2, <1>3
<1>5. First(f) = q[1]
  BY <1>2 DEF First
<1> QED BY <1>1, <1>3, <1>4, <1>5 DEF Left

\* The aggregated Run is a Run, and keeps its cancellation flag.
LEMMA AggregateType ==
  ASSUME NEW r \in WorkflowSnapshot, NEW nodes \in [Node -> NodeSnapshot]
  PROVE  aggregateRunState(r, nodes) \in WorkflowSnapshot /\ aggregateRunState(r, nodes).cancel = r.cancel
<1> DEFINE waits == InOrder({n \in Node : nodes[n].phase = "waiting"} \cap Agent)
           end == aggregateConclusion(nodes)
<1>1. waits # <<>> => nodes[waits[1]].reason \in Reasons
  <2>1. waits \in Seq(Node)
    BY InOrderNodes
  <2>2. waits # <<>> => waits[1] \in Node
    BY <2>1
  <2>3. \A n \in Node : nodes[n].reason \in Reasons
    <3>1. \A n \in Node : nodes[n] \in NodeSnapshot
      OBVIOUS
    <3> QED BY <3>1 DEF NodeSnapshot
  <2> QED BY <2>2, <2>3
<1>2. end.concl \in Conclusions /\ end.reason \in Reasons
  BY DEF aggregateConclusion, Conclusions, Reasons
<1>3. \E p \in RunPhases, c \in Conclusions, q \in Reasons :
        aggregateRunState(r, nodes) = [r EXCEPT !.phase = p, !.concl = c, !.reason = q]
  <2>1. CASE {n \in Node : nodes[n].phase = "running"} \cap Agent # {}
    <3>1. aggregateRunState(r, nodes) = [r EXCEPT !.phase = "running", !.concl = "none", !.reason = "none"]
      BY <2>1 DEF aggregateRunState
    <3> QED BY <3>1 DEF RunPhases, Conclusions, Reasons
  <2>2. CASE {n \in Node : nodes[n].phase = "running"} \cap Agent = {} /\ waits # <<>>
    <3>1. aggregateRunState(r, nodes) = [r EXCEPT !.phase = "waiting", !.concl = "none", !.reason = nodes[waits[1]].reason]
      BY <2>2 DEF aggregateRunState
    <3> QED BY <3>1, <2>2, <1>1 DEF RunPhases, Conclusions
  <2>3. CASE {n \in Node : nodes[n].phase = "running"} \cap Agent = {} /\ waits = <<>>
    <3>1. \/ aggregateRunState(r, nodes) = [r EXCEPT !.phase = "waiting", !.concl = "none", !.reason = "approval_required"]
          \/ aggregateRunState(r, nodes) = [r EXCEPT !.phase = "running", !.concl = "none", !.reason = "none"]
          \/ aggregateRunState(r, nodes) = [r EXCEPT !.phase = "completed", !.concl = end.concl, !.reason = end.reason]
      BY <2>3 DEF aggregateRunState
    <3>2. {"waiting", "running", "completed"} \subseteq RunPhases /\ "none" \in Conclusions
          /\ {"none", "approval_required"} \subseteq Reasons
      BY DEF RunPhases, Conclusions, Reasons
    <3> HIDE DEF end, waits
    <3> QED BY <3>1, <3>2, <1>2
  <2> QED BY <2>1, <2>2, <2>3
<1>4. PICK p \in RunPhases, c \in Conclusions, q \in Reasons :
        aggregateRunState(r, nodes) = [r EXCEPT !.phase = p, !.concl = c, !.reason = q]
  BY <1>3
<1>5. PICK a : a = aggregateRunState(r, nodes)
  OBVIOUS
<1>6. a = [r EXCEPT !.phase = p, !.concl = c, !.reason = q]
  BY <1>4, <1>5
<1>7. a.cancel = r.cancel
  BY <1>6 DEF WorkflowSnapshot
<1>8. a \in WorkflowSnapshot
  BY <1>6 DEF WorkflowSnapshot
<1> QED BY <1>5, <1>7, <1>8

\* What is active has an Attempt and no conclusion.
LEMMA ActiveIs ==
  ASSUME RunInv, NEW n \in Agent, Active(n, node)
  PROVE  /\ n \in Node /\ NodeOK(n, node[n]) /\ node[n] \in NodeSnapshot /\ node[n].concl = "none"
         /\ node[n].att \in 1..MaxAttempts /\ node[n].att > 0 /\ Current(n) \in AttemptSnapshot
         /\ run \in WorkflowSnapshot /\ FilesOK
<1>1. FilesOK /\ n \in Node
  BY WorkflowAssumption DEF RunInv
<1>2. NodeOK(n, node[n]) /\ node[n].att > 0
  BY <1>1 DEF FilesOK, Active
<1> QED BY <1>1, <1>2 DEF FilesOK, NodeOK, Active

\* The writes of finishResult may be done.
LEMMA FinishResultFits ==
  ASSUME RunInv, NEW n \in Agent, NEW o \in {"ok", "bad"}, Active(n, node), Over(n, node[n].att)
  PROVE  \E V : AllFit(finishResult(n, o), V, run.cancel) /\ DOMAIN V = {n}
<1>1. /\ n \in Node /\ NodeOK(n, node[n]) /\ node[n] \in NodeSnapshot /\ node[n].concl = "none"
      /\ node[n].att \in 1..MaxAttempts /\ node[n].att > 0 /\ Current(n) \in AttemptSnapshot
      /\ run \in WorkflowSnapshot /\ FilesOK
  BY ActiveIs
<1>2. PICK end \in {"succeeded", "failed"} : end = IF o = "ok" THEN "succeeded" ELSE "failed"
  OBVIOUS
<1>3. PICK v : v = [node[n] EXCEPT !.phase = "completed", !.concl = end, !.reason = "none", !.result = o]
  OBVIOUS
<1>4. v.phase = "completed" /\ v.concl = end /\ v.att = node[n].att
  BY <1>1, <1>3 DEF NodeSnapshot
<1>5. v \in NodeSnapshot
  BY <1>1, <1>2, <1>3 DEF NodeSnapshot, NodePhases, Conclusions, Reasons, Results
<1>6. NodeOK(n, v)
  BY <1>1, <1>4, <1>5 DEF NodeOK
<1>7. PICK a : a = [Current(n) EXCEPT !.phase = "completed", !.concl = end, !.consumed = TRUE]
  OBVIOUS
<1>8. a.launch = Current(n).launch /\ a.handle = Current(n).handle
  BY <1>1, <1>7 DEF AttemptSnapshot
<1>9. a \in AttemptSnapshot
  BY <1>1, <1>2, <1>7 DEF AttemptSnapshot, Conclusions
<1>10. PICK V : V = [m \in {n} |-> v]
  OBVIOUS
<1>11. n \in DOMAIN V /\ V[n] = v /\ DOMAIN V = {n}
  BY <1>10
<1>12. Fits(WriteNode(n, v), V, run.cancel)
  BY <1>1, <1>4, <1>6, <1>11, FitNode DEF BusyPhases
<1>13. Fits(UpdateAttempt(n, node[n].att, a), V, run.cancel)
  BY <1>1, <1>8, <1>9, FitAttempt DEF Over
<1>14. Fits(WriteRun(RunningRun), V, run.cancel)
  BY <1>1, RunTypes, FitRun
<1>15. finishResult(n, o) = <<WriteNode(n, v), UpdateAttempt(n, node[n].att, a), WriteRun(RunningRun)>>
  BY <1>2, <1>3, <1>7 DEF finishResult
<1> QED BY <1>11, <1>12, <1>13, <1>14, <1>15, FitThree

\* The writes of finishIndeterminate may be done.
LEMMA FinishIndeterminateFits ==
  ASSUME RunInv, NEW n \in Agent, Active(n, node), Unlaunched(n, node[n].att),
         Current(n).handle => Over(n, node[n].att)
  PROVE  \E V : AllFit(finishIndeterminate(n), V, run.cancel) /\ DOMAIN V = {n}
<1>1. /\ n \in Node /\ NodeOK(n, node[n]) /\ node[n] \in NodeSnapshot /\ node[n].concl = "none"
      /\ node[n].att \in 1..MaxAttempts /\ node[n].att > 0 /\ Current(n) \in AttemptSnapshot
      /\ run \in WorkflowSnapshot /\ FilesOK
  BY ActiveIs
<1>2. PICK v : v = [node[n] EXCEPT !.phase = "completed", !.concl = "indeterminate", !.reason = "none"]
  OBVIOUS
<1>3. v.phase = "completed" /\ v.concl = "indeterminate" /\ v.att = node[n].att
  BY <1>1, <1>2 DEF NodeSnapshot
<1>4. v \in NodeSnapshot
  BY <1>1, <1>2 DEF NodeSnapshot, NodePhases, Conclusions, Reasons
<1>5. NodeOK(n, v)
  BY <1>1, <1>3, <1>4 DEF NodeOK
<1>6. PICK a : a = [Current(n) EXCEPT !.phase = "completed", !.concl = "indeterminate"]
  OBVIOUS
<1>7. a.launch = Current(n).launch /\ a.handle = Current(n).handle /\ a.concl = "indeterminate"
  BY <1>1, <1>6 DEF AttemptSnapshot
<1>8. a \in AttemptSnapshot
  BY <1>1, <1>6 DEF AttemptSnapshot, Conclusions
<1>9. PICK V : V = [m \in {n} |-> v]
  OBVIOUS
<1>10. n \in DOMAIN V /\ V[n] = v /\ DOMAIN V = {n}
  BY <1>9
<1>11. Fits(WriteNode(n, v), V, run.cancel)
  BY <1>1, <1>3, <1>5, <1>10, FitNode DEF BusyPhases, Open
<1>12. Fits(UpdateAttempt(n, node[n].att, a), V, run.cancel)
  BY <1>1, <1>7, <1>8, FitAttempt DEF Open
<1>13. Fits(WriteRun(RunningRun), V, run.cancel)
  BY <1>1, RunTypes, FitRun
<1>14. finishIndeterminate(n) = <<UpdateAttempt(n, node[n].att, a), WriteNode(n, v), WriteRun(RunningRun)>>
  BY <1>2, <1>6 DEF finishIndeterminate
<1> QED BY <1>10, <1>11, <1>12, <1>13, <1>14, FitThree

\* The writes that make a node wait may be done.
LEMMA WaitingFits ==
  ASSUME RunInv, NEW n \in Agent, Active(n, node), Unlaunched(n, node[n].att), NEW reason \in Reasons,
         NEW nd \in NodeSnapshot, nd.att = node[n].att, nd.concl = node[n].concl,
         NEW at \in AttemptSnapshot, at.launch = Current(n).launch, at.handle = Current(n).handle,
         at.concl = Current(n).concl
  PROVE  \E V : AllFit(waiting(n, reason, nd, at), V, run.cancel) /\ DOMAIN V = {n}
<1>1. /\ n \in Node /\ NodeOK(n, node[n]) /\ node[n] \in NodeSnapshot /\ node[n].concl = "none"
      /\ node[n].att \in 1..MaxAttempts /\ node[n].att > 0 /\ Current(n) \in AttemptSnapshot
      /\ run \in WorkflowSnapshot /\ FilesOK
  BY ActiveIs
<1>2. PICK v : v = [nd EXCEPT !.phase = "waiting", !.reason = reason]
  OBVIOUS
<1>3. v.phase = "waiting" /\ v.concl = "none" /\ v.att = node[n].att
  BY <1>1, <1>2 DEF NodeSnapshot
<1>4. v \in NodeSnapshot
  BY <1>2 DEF NodeSnapshot, NodePhases
<1>5. NodeOK(n, v)
  BY <1>1, <1>3, <1>4 DEF NodeOK
<1>6. PICK a : a = [at EXCEPT !.phase = "waiting", !.reason = reason]
  OBVIOUS
<1>7. /\ a.launch = Current(n).launch /\ a.handle = Current(n).handle /\ a.concl = Current(n).concl
      /\ a.phase = "waiting"
  BY <1>6 DEF AttemptSnapshot
<1>8. a \in AttemptSnapshot
  BY <1>6 DEF AttemptSnapshot
<1>9. ~Open(a.concl) => Over(n, node[n].att)
  <2>1. ExecOK(n, node[n].att)
    BY <1>1 DEF RunInv, ThreadsOK, ExecutionsOK
  <2> QED BY <2>1, <1>7 DEF ExecOK, Over, Current
<1>10. PICK V : V = [m \in {n} |-> v]
  OBVIOUS
<1>11. n \in DOMAIN V /\ V[n] = v /\ DOMAIN V = {n}
  BY <1>10
<1>12. Fits(WriteNode(n, v), V, run.cancel)
  BY <1>1, <1>3, <1>5, <1>11, FitNode DEF BusyPhases, Open
<1>13. Fits(UpdateAttempt(n, node[n].att, a), V, run.cancel)
  BY <1>1, <1>7, <1>8, <1>9, FitAttempt
<1>14. PICK r \in WorkflowSnapshot : r = aggregateRunState(run, [node EXCEPT ![n] = v]) /\ r.cancel = run.cancel
  <2>1. [node EXCEPT ![n] = v] \in [Node -> NodeSnapshot]
    BY <1>1, <1>4 DEF FilesOK
  <2>2. PICK nodes \in [Node -> NodeSnapshot] : nodes = [node EXCEPT ![n] = v]
    BY <2>1
  <2>3. aggregateRunState(run, nodes) \in WorkflowSnapshot /\ aggregateRunState(run, nodes).cancel = run.cancel
    BY <1>1, AggregateType
  <2> QED BY <2>2, <2>3
<1>15. Fits(WriteRun(r), V, run.cancel)
  BY <1>14, FitRun
<1> DEFINE changed == v # node[n] \/ a # Current(n)
           front == IF changed THEN <<WriteNode(n, v), UpdateAttempt(n, node[n].att, a)>> ELSE <<>>
           back == IF changed \/ r # run THEN <<WriteRun(r)>> ELSE <<>>
<1>16. waiting(n, reason, nd, at) = front \o back
  BY <1>2, <1>6, <1>14 DEF waiting
<1>17. AllFit(front, V, run.cancel)
  <2>1. AllFit(<<WriteNode(n, v), UpdateAttempt(n, node[n].att, a)>>, V, run.cancel)
    BY <1>12, <1>13, FitTwo
  <2> QED BY <2>1, FitEmpty
<1>18. AllFit(back, V, run.cancel)
  <2>1. AllFit(<<WriteRun(r)>>, V, run.cancel)
    BY <1>15, FitOne
  <2> QED BY <2>1, FitEmpty
<1>19. AllFit(front \o back, V, run.cancel)
  <2> HIDE DEF front, back
  <2> QED BY <1>17, <1>18, FitJoin
<1> QED BY <1>11, <1>16, <1>19

\* So may those of waitingIfChanged,
LEMMA WaitingIfChangedFits ==
  ASSUME RunInv, NEW n \in Agent, Active(n, node), Unlaunched(n, node[n].att), NEW reason \in Reasons
  PROVE  \E V : AllFit(waitingIfChanged(n, reason), V, run.cancel) /\ DOMAIN V = {n}
<1>1. node[n] \in NodeSnapshot /\ Current(n) \in AttemptSnapshot
  BY ActiveIs
<1>2. PICK nd \in NodeSnapshot, at \in AttemptSnapshot : nd = node[n] /\ at = Current(n)
  BY <1>1
<1>3. \E V : AllFit(waiting(n, reason, nd, at), V, run.cancel) /\ DOMAIN V = {n}
  BY <1>2, WaitingFits
<1> QED BY <1>2, <1>3 DEF waitingIfChanged

\* and those of waitingWithResult.
LEMMA WaitingWithResultFits ==
  ASSUME RunInv, NEW n \in Agent, Active(n, node), Unlaunched(n, node[n].att)
  PROVE  \E V : AllFit(waitingWithResult(n), V, run.cancel) /\ DOMAIN V = {n}
<1>1. node[n] \in NodeSnapshot /\ Current(n) \in AttemptSnapshot
  BY ActiveIs
<1>2. PICK nd : nd = [node[n] EXCEPT !.result = "questions"]
  OBVIOUS
<1>3. nd \in NodeSnapshot /\ nd.att = node[n].att /\ nd.concl = node[n].concl
  BY <1>1, <1>2 DEF NodeSnapshot, Results
<1>4. PICK at : at = [Current(n) EXCEPT !.consumed = TRUE]
  OBVIOUS
<1>5. /\ at \in AttemptSnapshot /\ at.launch = Current(n).launch /\ at.handle = Current(n).handle
      /\ at.concl = Current(n).concl
  BY <1>1, <1>4 DEF AttemptSnapshot
<1>6. "agent_waiting_input" \in Reasons
  BY DEF Reasons
<1>7. \E V : AllFit(waiting(n, "agent_waiting_input", nd, at), V, run.cancel) /\ DOMAIN V = {n}
  BY <1>3, <1>5, <1>6, WaitingFits
<1> QED BY <1>2, <1>4, <1>7 DEF waitingWithResult

\* Nothing to be written.
LEMMA NothingFits == ASSUME NEW c PROVE \E V : AllFit(<<>>, V, c) /\ DOMAIN V = {}
<1>1. PICK V : V = [m \in {} |-> 0]
  OBVIOUS
<1> QED BY <1>1, FitEmpty

\* The writes that apply an observation may be done.
LEMMA ObservationFits ==
  ASSUME RunInv, NEW n \in Agent, Active(n, node), Unlaunched(n, node[n].att), ctl.pc = "observe",
         obs[n] \in {"ok", "bad", "questions", "asking", "error", "lost"}
  PROVE  \E V : AllFit(ObservationWrites(n, obs[n]), V, run.cancel) /\ DOMAIN V = {n}
<1>1. /\ obs[n] \in {"ok", "bad"} => Over(n, node[n].att)
      /\ obs[n] = "lost" /\ Current(n).handle => Over(n, node[n].att)
  BY DEF RunInv, ThreadsOK, ObservationsOK, ObservedOK, Over, Execution
<1>2. CASE obs[n] \in {"ok", "bad"}
  <2>1. ObservationWrites(n, obs[n]) = finishResult(n, obs[n])
    BY <1>2 DEF ObservationWrites
  <2> QED BY <2>1, <1>1, <1>2, FinishResultFits
<1>3. CASE obs[n] = "questions"
  <2>1. ObservationWrites(n, obs[n]) = waitingWithResult(n)
    BY <1>3 DEF ObservationWrites
  <2> QED BY <2>1, WaitingWithResultFits
<1>4. CASE obs[n] = "asking"
  <2>1. ObservationWrites(n, obs[n]) = waitingIfChanged(n, "agent_waiting_input")
    BY <1>4 DEF ObservationWrites
  <2> QED BY <2>1, WaitingIfChangedFits DEF Reasons
<1>5. CASE obs[n] = "error"
  <2>1. ObservationWrites(n, obs[n]) = waitingIfChanged(n, "completion_missing")
    BY <1>5 DEF ObservationWrites
  <2> QED BY <2>1, WaitingIfChangedFits DEF Reasons
<1>6. CASE obs[n] = "lost"
  <2>1. ObservationWrites(n, obs[n]) = finishIndeterminate(n)
    BY <1>6 DEF ObservationWrites
  <2> QED BY <2>1, <1>1, <1>6, FinishIndeterminateFits
<1> QED BY <1>2, <1>3, <1>4, <1>5, <1>6

\* ReconcileApply preserves the invariant.
LEMMA StepReconcileApply == ASSUME RunInv, ReconcileApply PROVE RunInv' /\ AllPlain'
<1>1. ThreadTypes /\ ControlRules /\ FilesOK /\ ThreadsOK /\ ctl \in ControlStates
  BY DEF RunInv, ControlOK, ThreadTypes
<1>2. PICK n : n = First(obs)
  OBVIOUS
<1>3. n \in Agent /\ obs[n] # "-" /\ obs[n] # "ask" /\ obs[n] \in ObsPoints
  BY <1>1, <1>2, FirstLeft DEF ReconcileApply, ThreadTypes
<1>4. /\ ctl.pc = "observe" /\ todo = <<>> /\ lau = NoLaunch
      /\ UNCHANGED <<run, node, attempt, req, intent, exec, proc, lau, can, ask, act, hbrec, faults>>
      /\ ~act /\ ~Planned
  BY <1>1 DEF ReconcileApply, ControlRules, disk
<1> DEFINE mutates == obs[n] \notin {"settled", "active", "cancelled"}
<1>5. PICK V : /\ AllFit(todo', V, run.cancel) /\ (run.cancel => DOMAIN V = {})
               /\ \A m \in Agent : obs'[m] = "-" \/ (obs'[m] = obs[m] /\ m \notin DOMAIN V)
               /\ ctl' \in ControlStates /\ ctl'.pc \in {"observe", "exit"} /\ ctl'.stopping = ctl.stopping
               /\ obs' \in [Agent -> ObsPoints]
  <2>1. CASE obs[n] = "cancelled" \/ (mutates /\ ~Allowed)
    <3>1. Go("exit") /\ obs' = NoObs /\ todo' = <<>>
      BY <2>1, <1>2, <1>4 DEF ReconcileApply
    <3>2. PICK V : AllFit(<<>>, V, run.cancel) /\ DOMAIN V = {}
      BY NothingFits
    <3>3. ctl' \in ControlStates /\ ctl'.pc = "exit" /\ ctl'.stopping = ctl.stopping
      BY <3>1, <1>1, GoType DEF ControlPoints
    <3>4. obs' \in [Agent -> ObsPoints] /\ \A m \in Agent : obs'[m] = "-"
      BY <3>1 DEF NoObs, ObsPoints
    <3> QED BY <3>1, <3>2, <3>3, <3>4
  <2>2. CASE ~(obs[n] = "cancelled" \/ (mutates /\ ~Allowed))
    <3>1. /\ obs' = [obs EXCEPT ![n] = "-"]
          /\ todo' = IF mutates THEN ObservationWrites(n, obs[n]) ELSE <<>>
          /\ ctl' = [ctl EXCEPT !.progressed = ctl.progressed \/ obs[n] = "questions" \/ todo' # <<>>]
      BY <2>2, <1>2 DEF ReconcileApply
    <3>2. ctl' \in ControlStates /\ ctl'.pc = "observe" /\ ctl'.stopping = ctl.stopping
      <4>1. PICK b \in BOOLEAN : ctl' = [ctl EXCEPT !.progressed = b]
        BY <3>1
      <4> QED BY <4>1, <1>1, <1>4 DEF ControlStates
    <3>3. obs' \in [Agent -> ObsPoints] /\ \A m \in Agent : obs'[m] = IF m = n THEN "-" ELSE obs[m]
      BY <3>1, <1>1 DEF ThreadTypes, ObsPoints
    <3>4. CASE ~mutates
      <4>1. PICK V : AllFit(<<>>, V, run.cancel) /\ DOMAIN V = {}
        BY NothingFits
      <4> QED BY <4>1, <3>1, <3>2, <3>3, <3>4
    <3>5. CASE mutates
      <4>1. ~run.cancel /\ obs[n] \in {"ok", "bad", "questions", "asking", "error", "lost"}
        BY <2>2, <3>5, <1>3 DEF Allowed, ObsPoints
      <4>2. Active(n, node)
        BY <4>1, <1>1, <1>3, <1>4 DEF ThreadsOK, ObservationsOK, ObservedOK, Untouched
      <4>3. Unlaunched(n, node[n].att)
        BY <1>3, <1>4, NoLaunchIs DEF Unlaunched, Dispatched
      <4>4. PICK V : AllFit(ObservationWrites(n, obs[n]), V, run.cancel) /\ DOMAIN V = {n}
        BY <4>1, <4>2, <4>3, <1>3, <1>4, ObservationFits
      <4> QED BY <4>1, <4>4, <3>1, <3>2, <3>3, <3>5
    <3> QED BY <3>4, <3>5
  <2> QED BY <2>1, <2>2
<1>6. ControlOK'
  BY <1>1, <1>4, <1>5, ControlMoves DEF ThreadTypes
<1>7. \A m \in Agent : lau'[m] = "-"
  BY <1>4, NoLaunchIs
<1>8. ctl'.pc \notin {"rmark", "rtarget", "rcancel", "rfinal"}
  BY <1>5
<1> QED BY <1>4, <1>5, <1>6, <1>7, <1>8, Mutation

\* LaunchSettle preserves the invariant.
LEMMA StepLaunchSettle == ASSUME RunInv, LaunchSettle PROVE RunInv' /\ AllPlain'
<1>1. ThreadTypes /\ ControlRules /\ FilesOK /\ ThreadsOK /\ ctl \in ControlStates
  BY DEF RunInv, ControlOK, ThreadTypes
<1>2. PICK n : n = First(lau)
  OBVIOUS
<1>3. n \in Agent /\ lau[n] \in {"refused", "ok", "err_handle", "err", "none"}
  BY <1>2, FirstLeft DEF LaunchSettle
<1>4. /\ ctl.pc = "launch" /\ todo = <<>>
      /\ UNCHANGED <<run, node, attempt, req, intent, exec, proc, obs, can, ask, act, hbrec, faults>>
      /\ ~act /\ ~Planned
  BY <1>1 DEF LaunchSettle, ControlRules, disk
<1> DEFINE stops == \/ lau[n] \in {"err", "refused"} /\ ctl.ctx
                    \/ lau[n] # "ok" /\ ~Allowed
<1>5. PICK V : /\ AllFit(todo', V, run.cancel) /\ (run.cancel => DOMAIN V = {})
               /\ \A m \in Agent : lau'[m] = "-" \/ (lau'[m] = lau[m] /\ m \notin DOMAIN V)
               /\ ctl' \in ControlStates /\ ctl'.pc \in {"top", "launch", "exit"} /\ ctl'.stopping = ctl.stopping
               /\ lau' \in [Agent -> LaunchPoints] /\ (ctl'.pc # "launch" => lau' = NoLaunch)
  <2>1. CASE stops
    <3>1. Go("exit") /\ lau' = NoLaunch /\ todo' = <<>>
      BY <2>1, <1>2, <1>4 DEF LaunchSettle
    <3>2. PICK V : AllFit(<<>>, V, run.cancel) /\ DOMAIN V = {}
      BY NothingFits
    <3>3. ctl' \in ControlStates /\ ctl'.pc = "exit" /\ ctl'.stopping = ctl.stopping
      BY <3>1, <1>1, GoType DEF ControlPoints
    <3>4. lau' \in [Agent -> LaunchPoints] /\ \A m \in Agent : lau'[m] = "-"
      BY <3>1 DEF NoLaunch, LaunchPoints
    <3> QED BY <3>1, <3>2, <3>3, <3>4
  <2>2. CASE ~stops
    <3>1. /\ todo' = CASE lau[n] = "ok" -> <<>>
                       [] lau[n] = "err_handle" -> waitingIfChanged(n, "completion_missing")
                       [] OTHER -> finishIndeterminate(n)
          /\ lau' = [lau EXCEPT ![n] = "-"]
          /\ Go(IF Left(lau) = {n} THEN "top" ELSE "launch")
      BY <2>2, <1>2 DEF LaunchSettle
    <3>2. /\ ctl' \in ControlStates /\ ctl'.pc \in {"top", "launch"} /\ ctl'.stopping = ctl.stopping
          /\ ctl'.pc = "top" => Left(lau) = {n}
      <4>1. PICK p \in {"top", "launch"} : Go(p) /\ (p = "top" => Left(lau) = {n})
        BY <3>1
      <4> QED BY <4>1, <1>1, GoType DEF ControlPoints
    <3>3. lau' \in [Agent -> LaunchPoints] /\ \A m \in Agent : lau'[m] = IF m = n THEN "-" ELSE lau[m]
      BY <3>1, <1>1 DEF ThreadTypes, LaunchPoints
    <3>4. ctl'.pc # "launch" => lau' = NoLaunch
      BY <3>2, <3>3 DEF Left, NoLaunch
    <3>5. CASE lau[n] = "ok"
      <4>1. PICK V : AllFit(<<>>, V, run.cancel) /\ DOMAIN V = {}
        BY NothingFits
      <4> QED BY <4>1, <3>1, <3>2, <3>3, <3>4, <3>5
    <3>6. CASE lau[n] # "ok"
      <4>1. ~run.cancel
        BY <2>2, <3>6 DEF Allowed
      <4>2. LaunchOK(n) /\ ~Coming(n)
        BY <1>1, <1>3, <1>4 DEF ThreadsOK, LaunchesOK, Coming
      <4>3. Active(n, node) /\ (lau[n] # "err_handle" => ~Current(n).handle)
        BY <4>1, <4>2, <1>3, <3>6 DEF LaunchOK, Untouched
      <4>4. Unlaunched(n, node[n].att)
        BY <1>3 DEF Unlaunched, Dispatched
      <4>5. PICK V : AllFit(todo', V, run.cancel) /\ DOMAIN V = {n}
        <5>1. CASE lau[n] = "err_handle"
          <6>1. todo' = waitingIfChanged(n, "completion_missing")
            BY <5>1, <3>1
          <6> QED BY <6>1, <4>3, <4>4, <1>3, WaitingIfChangedFits DEF Reasons
        <5>2. CASE lau[n] # "err_handle"
          <6>1. todo' = finishIndeterminate(n)
            BY <5>2, <3>6, <3>1
          <6> QED BY <6>1, <5>2, <4>3, <4>4, <1>3, FinishIndeterminateFits
        <5> QED BY <5>1, <5>2
      <4> QED BY <4>1, <4>5, <3>2, <3>3, <3>4
    <3> QED BY <3>5, <3>6
  <2> QED BY <2>1, <2>2
<1>6. ControlOK'
  BY <1>1, <1>4, <1>5, ControlMoves DEF ThreadTypes
<1>8. ctl'.pc \notin {"rmark", "rtarget", "rcancel", "rfinal", "observe"}
  BY <1>5
<1> QED BY <1>4, <1>5, <1>6, <1>8, Mutation

\* The nodes that SkipUnstarted skips.
Skipped == {n \in Node : Unstarted(node[n]) \/ (n \notin Agent /\ node[n].phase = "waiting")}

\* A node as SkipUnstarted writes it.
LEMMA SkipIs ==
  ASSUME FilesOK, NEW n \in Node, n \in Skipped \/ (n \notin Agent /\ Unstarted(node[n])),
         NEW reason \in Reasons
  PROVE  /\ NodeOK(n, Skip(n, reason)) /\ Skip(n, reason).att = node[n].att
         /\ Skip(n, reason).concl = "none" /\ Skip(n, reason).phase = "skipped"
         /\ node[n].concl = "none" /\ ~(n \in Agent /\ Busy(n)) /\ ~Active(n, node)
<1>1. NodeOK(n, node[n]) /\ node[n] \in NodeSnapshot /\ MaxAttempts > 0
  BY RunAssumption DEF FilesOK
<1>2. PICK v : v = [node[n] EXCEPT !.phase = "skipped", !.reason = reason]
  OBVIOUS
<1>3. v.phase = "skipped" /\ v.concl = node[n].concl /\ v.att = node[n].att
  BY <1>1, <1>2 DEF NodeSnapshot
<1>4. v \in NodeSnapshot
  BY <1>1, <1>2 DEF NodeSnapshot, NodePhases
<1>5. node[n].concl = "none" /\ ~(n \in Agent /\ Busy(n)) /\ ~Active(n, node)
  BY <1>1 DEF Skipped, Unstarted, NodeOK, Busy, BusyPhases, Active
<1>6. v.att < MaxAttempts
  BY <1>1, <1>3 DEF Skipped, Unstarted, NodeOK
<1>7. NodeOK(n, v)
  BY <1>1, <1>3, <1>4, <1>5, <1>6 DEF NodeOK
<1> QED BY <1>2, <1>3, <1>5, <1>7 DEF Skip

\* The pieces of Each, one per node of ns.
LEMMA EachFits ==
  ASSUME NEW V, NEW c, NEW ns \in Seq(Node), NEW ss, DOMAIN ss = DOMAIN ns,
         \A i \in DOMAIN ns : AllFit(ss[i], V, c)
  PROVE  AllFit(Flatten(ss), V, c)
<1>1. PICK N \in Nat : N = Len(ns) /\ DOMAIN ns = 1..N
  OBVIOUS
<1>2. DOMAIN ss = 1..N /\ Len(ss) = N
  BY <1>1
<1> QED BY <1>1, <1>2, FitFlat

\* The writes of SkipUnstarted may be done.
LEMMA SkipUnstartedFits ==
  ASSUME FilesOK, NEW V, NEW c,
         \A m \in Skipped : m \in DOMAIN V /\ V[m] = Skip(m, "workflow_cancelled")
  PROVE  AllFit(SkipUnstarted, V, c)
<1>1. PICK ns : ns = InOrder(Skipped)
  OBVIOUS
<1>2. ns \in Seq(Node) /\ \A i \in DOMAIN ns : ns[i] \in Skipped \cap Node
  BY <1>1, InOrderNodes
<1>3. PICK ss : ss = [i \in DOMAIN ns |-> <<WriteNode(ns[i], Skip(ns[i], "workflow_cancelled"))>>]
  OBVIOUS
<1>4. ASSUME NEW i \in DOMAIN ns PROVE AllFit(ss[i], V, c)
  <2>1. PICK m : m = ns[i]
    OBVIOUS
  <2>2. m \in Node /\ m \in Skipped
    BY <2>1, <1>2
  <2>3. PICK v : v = Skip(m, "workflow_cancelled")
    OBVIOUS
  <2>4. /\ NodeOK(m, v) /\ v.att = node[m].att /\ v.concl = "none" /\ v.phase = "skipped"
        /\ node[m].concl = "none" /\ ~(m \in Agent /\ Busy(m))
    BY <2>2, <2>3, SkipIs DEF Reasons
  <2>5. Fits(WriteNode(m, v), V, c)
    BY <2>2, <2>3, <2>4, FitNode DEF Open
  <2>6. ss[i] = <<WriteNode(m, v)>>
    BY <2>1, <2>3, <1>3
  <2> QED BY <2>5, <2>6, FitOne
<1>5. DOMAIN ss = DOMAIN ns
  BY <1>3
<1>6. AllFit(Flatten(ss), V, c)
  BY <1>2, <1>4, <1>5, EachFits
<1>7. SkipUnstarted = Flatten(ss)
  BY <1>1, <1>3 DEF SkipUnstarted, Each, Skipped
<1> QED BY <1>6, <1>7

\* A node and its Attempt that a cancellation ends.
LEMMA CancelledIs ==
  ASSUME FilesOK, NEW n \in Agent, Busy(n)
  PROVE  /\ NodeOK(n, CancelledNode(n)) /\ CancelledNode(n).att = node[n].att
         /\ CancelledNode(n).phase = "completed" /\ CancelledNode(n).concl = "cancelled"
         /\ CancelledAttempt(n) \in AttemptSnapshot
         /\ CancelledAttempt(n).launch = Current(n).launch /\ CancelledAttempt(n).handle = Current(n).handle
         /\ n \in Node /\ node[n].att > 0
<1>1. n \in Node /\ NodeOK(n, node[n]) /\ node[n] \in NodeSnapshot
  BY WorkflowAssumption DEF FilesOK
<1>2. node[n].att > 0 /\ Current(n) \in AttemptSnapshot
  BY <1>1 DEF Busy, BusyPhases, NodeOK, FilesOK
<1>3. PICK v : v = [node[n] EXCEPT !.phase = "completed", !.concl = "cancelled", !.reason = "user_requested"]
  OBVIOUS
<1>4. v.phase = "completed" /\ v.concl = "cancelled" /\ v.att = node[n].att
  BY <1>1, <1>3 DEF NodeSnapshot
<1>5. v \in NodeSnapshot
  BY <1>1, <1>3 DEF NodeSnapshot, NodePhases, Conclusions, Reasons
<1>6. NodeOK(n, v)
  BY <1>1, <1>2, <1>4, <1>5 DEF NodeOK
<1>7. PICK a : a = [Current(n) EXCEPT !.phase = "completed", !.concl = "cancelled", !.reason = "user_requested"]
  OBVIOUS
<1>8. a.launch = Current(n).launch /\ a.handle = Current(n).handle
  BY <1>2, <1>7 DEF AttemptSnapshot
<1>9. a \in AttemptSnapshot
  BY <1>2, <1>7 DEF AttemptSnapshot, Conclusions, Reasons
<1> QED BY <1>1, <1>2, <1>3, <1>4, <1>6, <1>7, <1>8, <1>9 DEF CancelledNode, CancelledAttempt

\* RecoverFinal preserves the invariant.
LEMMA StepRecoverFinal == ASSUME RunInv, RecoverFinal PROVE RunInv' /\ AllPlain'
<1>1. ThreadTypes /\ ControlRules /\ FilesOK /\ ThreadsOK /\ ctl \in ControlStates /\ run \in WorkflowSnapshot
  BY DEF RunInv, ControlOK, ThreadTypes, FilesOK
<1>2. PICK n : n = ctl.target
  OBVIOUS
<1>3. /\ ctl.pc = "rfinal" /\ todo = <<>> /\ lau = NoLaunch /\ Go("exit")
      /\ UNCHANGED <<run, node, attempt, req, intent, exec, proc, obs, lau, can, ask, act, hbrec, faults>>
      /\ ~act /\ ~Planned
  BY <1>1 DEF RecoverFinal, ControlRules, disk
<1>4. ctl' \in ControlStates /\ ctl'.pc = "exit" /\ ctl'.stopping = ctl.stopping
  BY <1>1, <1>3, GoType DEF ControlPoints
<1>5. ControlOK'
  BY <1>1, <1>3, <1>4, ControlMoves DEF ThreadTypes
<1>6. \A m \in Agent : lau'[m] = "-"
  BY <1>3, NoLaunchIs
<1>7. CASE run.phase = "completed"
  <2>1. todo' = <<>>
    BY <1>7 DEF RecoverFinal
  <2>2. PICK V : AllFit(<<>>, V, TRUE) /\ DOMAIN V = {}
    BY NothingFits
  <2>3. \A m \in DOMAIN V : V[m].concl # "succeeded"
    BY <2>2
  <2>4. AllFit(todo', V, TRUE)
    BY <2>1, <2>2
  <2> QED BY <2>3, <2>4, <1>3, <1>4, <1>5, <1>6, Mutation
<1>8. CASE run.phase # "completed"
  <2>1. PICK T : T = IF n = "-" THEN {} ELSE {n}
    OBVIOUS
  <2>2. \A m \in T : m = n /\ n # "-" /\ m \in Agent /\ Busy(m) /\ Unsucceeded(m) /\ Execution(m) # "live"
    BY <1>1, <1>2, <1>3, <2>1 DEF ThreadsOK, RecoverOK
  <2>3. \A m \in Skipped : ~(m \in Agent /\ Busy(m)) /\ Skip(m, "workflow_cancelled").concl = "none"
    BY <1>1, SkipIs DEF Reasons, Skipped
  <2>4. PICK V : V = [m \in T \cup Skipped |-> IF m \in T THEN CancelledNode(m) ELSE Skip(m, "workflow_cancelled")]
    OBVIOUS
  <2>5. \A m \in T : m \in DOMAIN V /\ V[m] = CancelledNode(m)
    BY <2>4
  <2>6. \A m \in Skipped : m \in DOMAIN V /\ V[m] = Skip(m, "workflow_cancelled")
    BY <2>2, <2>3, <2>4
  <2>7. \A m \in DOMAIN V : V[m].concl # "succeeded"
    <3>1. \A m \in T : V[m].concl = "cancelled"
      BY <2>2, <2>5, <1>1, CancelledIs
    <3> QED BY <3>1, <2>3, <2>4, <2>6
  <2> DEFINE first == IF Current(n).concl = "cancelled" THEN <<>>
                      ELSE <<UpdateAttempt(n, node[n].att, CancelledAttempt(n))>>
             target == IF n = "-" THEN <<>> ELSE first \o <<WriteNode(n, CancelledNode(n))>>
  <2>8. AllFit(target, V, TRUE)
    <3>1. CASE n = "-"
      BY <3>1, FitEmpty
    <3>2. CASE n # "-"
      <4>1. n \in T /\ n \in Agent /\ Busy(n) /\ Unsucceeded(n) /\ Execution(n) # "live"
        BY <3>2, <2>1, <2>2
      <4>2. Unlaunched(n, node[n].att) /\ Over(n, node[n].att)
        BY <4>1, <1>3, NoLaunchIs DEF Over, Unlaunched, Dispatched, Execution
      <4>3. PICK v, a : v = CancelledNode(n) /\ a = CancelledAttempt(n)
        OBVIOUS
      <4>4. /\ NodeOK(n, v) /\ v.att = node[n].att /\ v.phase = "completed" /\ v.concl = "cancelled"
            /\ a \in AttemptSnapshot /\ a.launch = Current(n).launch /\ a.handle = Current(n).handle
            /\ n \in Node /\ node[n].att > 0
        BY <4>1, <4>3, <1>1, CancelledIs
      <4>5. Fits(WriteNode(n, v), V, TRUE)
        <5>1. n \in DOMAIN V /\ V[n] = v /\ node[n].concl # "succeeded"
          BY <4>1, <4>3, <2>5 DEF Unsucceeded
        <5> QED BY <5>1, <4>1, <4>2, <4>4, FitNode DEF BusyPhases
      <4>6. Fits(UpdateAttempt(n, node[n].att, a), V, TRUE)
        BY <4>1, <4>2, <4>4, <1>1, FitAttempt
      <4>7. AllFit(<<WriteNode(n, v)>>, V, TRUE) /\ AllFit(<<UpdateAttempt(n, node[n].att, a)>>, V, TRUE)
        BY <4>5, <4>6, FitOne
      <4>8. AllFit(first, V, TRUE)
        BY <4>3, <4>7, FitEmpty
      <4>9. AllFit(first \o <<WriteNode(n, v)>>, V, TRUE)
        <5> HIDE DEF first
        <5> QED BY <4>7, <4>8, FitJoin
      <4> QED BY <3>2, <4>3, <4>9
    <3> QED BY <3>1, <3>2
  <2>9. AllFit(SkipUnstarted, V, TRUE)
    BY <2>6, <1>1, SkipUnstartedFits
  <2>10. AllFit(<<WriteRun(CancelledRun)>>, V, TRUE)
    <3>1. CancelledRun \in WorkflowSnapshot /\ CancelledRun.cancel = TRUE
      BY <1>1, RunTypes DEF CancelledRun
    <3>2. Fits(WriteRun(CancelledRun), V, TRUE)
      BY <3>1, FitRun
    <3> QED BY <3>2, FitOne
  <2>11. todo' = target \o SkipUnstarted \o <<WriteRun(CancelledRun)>>
    BY <1>2, <1>8 DEF RecoverFinal
  <2>12. AllFit(todo', V, TRUE)
    <3> HIDE DEF target
    <3>1. PICK x : x = target \o SkipUnstarted
      OBVIOUS
    <3>2. AllFit(x, V, TRUE)
      BY <3>1, <2>8, <2>9, FitJoin
    <3>3. AllFit(x \o <<WriteRun(CancelledRun)>>, V, TRUE)
      BY <3>2, <2>10, FitJoin
    <3> QED BY <3>1, <3>3, <2>11
  <2> QED BY <2>7, <2>12, <1>3, <1>4, <1>5, <1>6, Mutation
<1> QED BY <1>7, <1>8

\* The outcome of one target.
StuckNode(n) == [node[n] EXCEPT !.phase = "waiting", !.concl = "none", !.reason = "cancel_failed"]

\* The writes of one outcome of a cancellation may be done.
LEMMA OutcomeFits ==
  ASSUME FilesOK, NEW n \in Agent, can.out[n] # "-", can.out[n] # "wait", TargetOK(n),
         NEW V, n \in DOMAIN V, V[n] = IF can.out[n] = "yes" THEN CancelledNode(n) ELSE StuckNode(n)
  PROVE  AllFit(OutcomeWrites(n), V, TRUE) /\ V[n].concl # "succeeded"
<1>1. /\ Busy(n) /\ run.cancel /\ node[n].concl # "succeeded" /\ run \in WorkflowSnapshot
      /\ can.out[n] = "yes" => Over(n, node[n].att) /\ Unlaunched(n, node[n].att)
  BY DEF TargetOK, Unsucceeded, Over, FilesOK
<1>2. run.cancel = TRUE
  BY <1>1 DEF WorkflowSnapshot
<1>3. Fits(WriteRun(run), V, TRUE)
  BY <1>1, <1>2, FitRun
<1>4. CASE can.out[n] = "yes"
  <2>1. PICK v, a : v = CancelledNode(n) /\ a = CancelledAttempt(n)
    OBVIOUS
  <2>2. /\ NodeOK(n, v) /\ v.att = node[n].att /\ v.phase = "completed" /\ v.concl = "cancelled"
        /\ a \in AttemptSnapshot /\ a.launch = Current(n).launch /\ a.handle = Current(n).handle
        /\ n \in Node /\ node[n].att > 0
    BY <2>1, <1>1, CancelledIs
  <2>3. Fits(WriteNode(n, v), V, TRUE)
    BY <1>1, <1>4, <2>1, <2>2, FitNode DEF BusyPhases
  <2>4. Fits(UpdateAttempt(n, node[n].att, a), V, TRUE)
    BY <1>1, <1>4, <2>2, FitAttempt
  <2>5. OutcomeWrites(n) = <<WriteNode(n, v), UpdateAttempt(n, node[n].att, a), WriteRun(run)>>
    BY <1>4, <2>1 DEF OutcomeWrites
  <2> QED BY <1>3, <1>4, <2>1, <2>2, <2>3, <2>4, <2>5, FitThree
<1>5. CASE can.out[n] # "yes"
  <2>0. n \in Node /\ NodeOK(n, node[n]) /\ node[n] \in NodeSnapshot
    BY WorkflowAssumption DEF FilesOK
  <2>1. node[n].att > 0 /\ Current(n) \in AttemptSnapshot
    BY <1>1, <2>0 DEF Busy, BusyPhases, NodeOK, FilesOK
  <2>2. PICK v : v = StuckNode(n)
    OBVIOUS
  <2>3. v.phase = "waiting" /\ v.concl = "none" /\ v.att = node[n].att
    BY <2>0, <2>2 DEF NodeSnapshot, StuckNode
  <2>4. v \in NodeSnapshot
    BY <2>0, <2>2 DEF NodeSnapshot, NodePhases, Conclusions, Reasons, StuckNode
  <2>5. NodeOK(n, v)
    BY <2>0, <2>1, <2>3, <2>4 DEF NodeOK
  <2>6. PICK a : a = [Current(n) EXCEPT !.phase = "waiting", !.concl = "none", !.reason = "cancel_failed"]
    OBVIOUS
  <2>7. /\ a.launch = Current(n).launch /\ a.handle = Current(n).handle
        /\ a.phase = "waiting" /\ a.concl = "none"
    BY <2>1, <2>6 DEF AttemptSnapshot
  <2>8. a \in AttemptSnapshot
    BY <2>1, <2>6 DEF AttemptSnapshot, Conclusions, Reasons
  <2>9. Fits(WriteNode(n, v), V, TRUE)
    BY <1>1, <1>5, <2>0, <2>2, <2>3, <2>5, FitNode DEF BusyPhases, Open
  <2>10. Fits(UpdateAttempt(n, node[n].att, a), V, TRUE)
    BY <2>1, <2>7, <2>8, FitAttempt DEF Open
  <2>11. OutcomeWrites(n) = <<WriteNode(n, v), UpdateAttempt(n, node[n].att, a), WriteRun(run)>>
    BY <1>5, <2>2, <2>6 DEF OutcomeWrites, StuckNode
  <2> QED BY <1>3, <1>5, <2>2, <2>3, <2>9, <2>10, <2>11, FitThree
<1> QED BY <1>4, <1>5

\* CancelApply preserves the invariant.
LEMMA StepCancelApply == ASSUME RunInv, CancelApply PROVE RunInv' /\ AllPlain'
<1>1. /\ ThreadTypes /\ ControlRules /\ FilesOK /\ ThreadsOK /\ ctl \in ControlStates /\ run \in WorkflowSnapshot
      /\ can \in CancelStates
  BY DEF RunInv, ControlOK, ThreadTypes, FilesOK
<1>2. /\ can.pc = "targets" /\ todo = <<>> /\ can' = [can EXCEPT !.pc = "resolve"]
      /\ UNCHANGED <<run, node, attempt, req, intent, exec, proc, ctl, obs, lau, ask, act, hbrec, faults>>
      /\ \A n \in Agent : can.out[n] # "wait"
  BY DEF CancelApply, disk
<1>3. can.who # "-" /\ ~act /\ ~Planned
  BY <1>1, <1>2 DEF ControlRules
<1>4. can' \in CancelStates /\ can'.pc = "resolve" /\ can'.who = can.who /\ can'.out = can.out
  BY <1>1, <1>2 DEF CancelStates, CancelPoints
<1>5. ControlOK'
  <2>1. ThreadTypes'
    BY <1>1, <1>2, <1>4 DEF ThreadTypes
  <2>2. ~Planned' /\ ~act'
    BY <1>2, <1>3 DEF Planned
  <2> QED BY <1>1, <1>2, <1>3, <1>4, <2>1, <2>2 DEF ControlOK, ControlRules, NoLaunch
<1>6. CASE run.phase = "completed"
  <2>1. todo' = <<>>
    BY <1>6 DEF CancelApply
  <2>2. PICK V : AllFit(<<>>, V, TRUE) /\ DOMAIN V = {}
    BY NothingFits
  <2>3. \A m \in DOMAIN V : V[m].concl # "succeeded"
    BY <2>2
  <2>4. AllFit(todo', V, TRUE)
    BY <2>1, <2>2
  <2>5. \A m \in Agent : m \notin DOMAIN V
    BY <2>2
  <2> QED BY <2>3, <2>4, <2>5, <1>2, <1>3, <1>4, <1>5, Mutation
<1>7. CASE run.phase # "completed"
  <2>1. PICK T : T = Left(can.out)
    OBVIOUS
  <2>2. \A m \in T : m \in Agent /\ can.out[m] # "-" /\ can.out[m] # "wait" /\ TargetOK(m) /\ Busy(m) /\ run.cancel
    BY <1>1, <1>2, <2>1 DEF Left, ThreadsOK, TargetsOK, TargetOK
  <2>3. \A m \in Skipped : /\ ~(m \in Agent /\ Busy(m)) /\ Skip(m, "workflow_cancelled").concl = "none"
                           /\ ~Active(m, node)
    BY <1>1, SkipIs DEF Reasons, Skipped
  <2>4. PICK V : V = [m \in T \cup Skipped |->
                        IF m \in T THEN IF can.out[m] = "yes" THEN CancelledNode(m) ELSE StuckNode(m)
                        ELSE Skip(m, "workflow_cancelled")]
    OBVIOUS
  <2>5. \A m \in T : m \in DOMAIN V /\ V[m] = IF can.out[m] = "yes" THEN CancelledNode(m) ELSE StuckNode(m)
    BY <2>4
  <2>6. \A m \in Skipped : m \in DOMAIN V /\ V[m] = Skip(m, "workflow_cancelled")
    BY <2>2, <2>3, <2>4
  <2>7. \A m \in T : AllFit(OutcomeWrites(m), V, TRUE) /\ V[m].concl # "succeeded"
    BY <2>2, <2>5, <1>1, OutcomeFits
  <2>8. \A m \in DOMAIN V : V[m].concl # "succeeded"
    BY <2>3, <2>4, <2>6, <2>7
  <2>9. PICK e : e = Each(InOrder(Left(can.out)), OutcomeWrites)
    OBVIOUS
  <2>10. AllFit(e, V, TRUE)
    <3>1. PICK ns : ns = InOrder(T)
      OBVIOUS
    <3>2. ns \in Seq(Node) /\ \A i \in DOMAIN ns : ns[i] \in T \cap Node
      BY <3>1, InOrderNodes
    <3>3. PICK ss : ss = [i \in DOMAIN ns |-> OutcomeWrites(ns[i])]
      OBVIOUS
    <3>4. \A i \in DOMAIN ns : AllFit(ss[i], V, TRUE)
      BY <3>2, <3>3, <2>7
    <3>5. DOMAIN ss = DOMAIN ns
      BY <3>3
    <3>6. AllFit(Flatten(ss), V, TRUE)
      BY <3>2, <3>4, <3>5, EachFits
    <3>7. e = Flatten(ss)
      BY <2>1, <2>9, <3>1, <3>3 DEF Each
    <3> QED BY <3>6, <3>7
  <2>11. AllFit(SkipUnstarted, V, TRUE)
    BY <2>6, <1>1, SkipUnstartedFits
  <2>12. AllFit(<<WriteRun(CancelledRun)>>, V, TRUE) /\ AllFit(<<WriteRun(CancelFailedRun)>>, V, TRUE)
    <3>1. /\ CancelledRun \in WorkflowSnapshot /\ CancelledRun.cancel = TRUE
          /\ CancelFailedRun \in WorkflowSnapshot /\ CancelFailedRun.cancel = TRUE
      BY <1>1, RunTypes DEF CancelledRun, CancelFailedRun
    <3>2. Fits(WriteRun(CancelledRun), V, TRUE) /\ Fits(WriteRun(CancelFailedRun), V, TRUE)
      BY <3>1, FitRun
    <3> QED BY <3>2, FitOne
  <2>13. \/ todo' = e \o <<WriteRun(CancelFailedRun)>>
         \/ todo' = e \o (SkipUnstarted \o <<WriteRun(CancelledRun)>>)
    BY <1>7, <2>9 DEF CancelApply
  <2>14. AllFit(todo', V, TRUE)
    <3>1. PICK x, y : x = SkipUnstarted \o <<WriteRun(CancelledRun)>> /\ y = <<WriteRun(CancelFailedRun)>>
      OBVIOUS
    <3>2. AllFit(x, V, TRUE) /\ AllFit(y, V, TRUE)
      BY <3>1, <2>11, <2>12, FitJoin
    <3>3. AllFit(e \o x, V, TRUE) /\ AllFit(e \o y, V, TRUE)
      BY <3>2, <2>10, FitJoin
    <3> QED BY <3>1, <3>3, <2>13
  <2>15. \A m \in Agent : lau[m] = "-" \/ m \notin DOMAIN V \/ run.cancel
    <3> SUFFICES ASSUME NEW m \in Agent, lau[m] # "-", ~run.cancel, m \in Skipped PROVE FALSE
      BY <2>2, <2>4
    <3>1. LaunchOK(m) /\ ~Coming(m)
      BY <1>1, <1>2 DEF ThreadsOK, LaunchesOK, Coming
    <3> QED BY <3>1, <2>3 DEF LaunchOK, Untouched
  <2>16. ctl.pc = "observe" => \A m \in Agent : obs[m] = "-" \/ m \notin DOMAIN V \/ run.cancel
    <3> SUFFICES ASSUME ctl.pc = "observe", NEW m \in Agent, obs[m] # "-", ~run.cancel, m \in Skipped PROVE FALSE
      BY <2>2, <2>4
    <3>1. ObservedOK(m)
      BY <1>1 DEF ThreadsOK, ObservationsOK
    <3> QED BY <3>1, <2>3 DEF ObservedOK, Untouched
  <2>17. \A m \in Agent : lau'[m] = "-" \/ (lau'[m] = lau[m] /\ (m \notin DOMAIN V \/ run.cancel))
    BY <2>15, <1>2
  <2>18. ctl'.pc = "observe" =>
           /\ ctl.pc = "observe"
           /\ \A m \in Agent : obs'[m] = "-" \/ (obs'[m] = obs[m] /\ (m \notin DOMAIN V \/ run.cancel))
    BY <2>16, <1>2
  <2>19. ctl' = ctl
    BY <1>2
  <2> QED BY <2>8, <2>14, <2>17, <2>18, <2>19, <1>2, <1>3, <1>4, <1>5, Mutation
<1> QED BY <1>6, <1>7

-----------------------------------------------------------------------------
(***************************************************************************)
(* A batch.                                                                *)
(***************************************************************************)
Stopped == run.concl \in Failing \/ HasFailure(node)
Verdicts(v) == {n \in Node : Verdict(n, node, Stopped) = v}
Eligible == Verdicts("eligible")
Free == EffectiveConcurrency - Cardinality(findActiveAttempts(node))
Ready == {n \in Eligible \cap Agent : Cardinality({m \in Eligible \cap Agent : Before(m, n)}) < Free}

\* What PlanSchedule decides.
LEMMA PlanIs ==
  LET d == PlanSchedule(run, node)
  IN  /\ d.skipUpstream = InOrder(Verdicts("skip_upstream"))
      /\ d.skipConditions = InOrder(Verdicts("skip_condition"))
      /\ d.skipFailurePolicy = InOrder(Verdicts("skip_failure_policy"))
      /\ d.readyApprovals = InOrder(Eligible \ Agent)
      /\ d.readyAgents = InOrder(Ready)
  BY DEF PlanSchedule, Verdicts, Eligible, Free, Ready, Stopped

\* What a verdict says of its node.
LEMMA VerdictIs ==
  ASSUME NEW n \in Node
  PROVE  /\ n \in Verdicts("skip_upstream") \/ n \in Verdicts("skip_condition") \/ n \in Verdicts("skip_failure_policy")
              => n \in Skipped
         /\ n \in Eligible => Unstarted(node[n]) /\ DepsOver(n)
<1>1. Verdict(n, node, Stopped) \in {"skip_upstream", "skip_condition", "skip_failure_policy"} => n \in Skipped
  BY DEF Verdict, Skipped, Unstarted
<1>2. Verdict(n, node, Stopped) = "eligible" => Unstarted(node[n]) /\ DepsOver(n)
  BY DEF Verdict, DepsOver, Stable, UpstreamFailed
<1> QED BY <1>1, <1>2 DEF Verdicts, Eligible

\* The nodes that a batch writes: an approval that waits, an Agent that starts.
ApprovalNode(n) == [node[n] EXCEPT !.phase = "waiting", !.reason = "approval_required"]
StartedNode(n) == [node[n] EXCEPT !.phase = "running", !.concl = "none", !.reason = "none", !.att = node[n].att + 1]

\* What the batch makes of node n.
Batched(n) ==
  LET v == Verdict(n, node, Stopped)
  IN  IF v = "skip_upstream" THEN Skip(n, "upstream_failed")
      ELSE IF v = "skip_condition" THEN Skip(n, "condition_false")
      ELSE IF v = "skip_failure_policy" THEN Skip(n, "failure_policy")
      ELSE IF n \in Agent THEN StartedNode(n) ELSE ApprovalNode(n)

\* The writes of a batch that start no Agent.
Settling(n, v) ==
  /\ NodeOK(n, v) /\ v.att = node[n].att /\ v.concl = "none"
  /\ node[n].concl = "none" /\ ~Terminal(node[n])
  /\ n \in Agent => Unstarted(node[n]) /\ v.phase = "skipped"
  /\ v = Batched(n)
\* The writes of a batch that create nothing.
FrontWrites == {w \in Writes : /\ w.file \in {"node", "run"}
                               /\ w.file = "node" => Settling(w.n, w.val)
                               /\ w.file = "run" => w.val = run}

\* The Run of a batch is one of them,
LEMMA FrontRun ==
  ASSUME run \in WorkflowSnapshot PROVE WriteRun(run) \in FrontWrites
<1>1. PICK w : w = WriteRun(run)
  OBVIOUS
<1>2. w \in Writes /\ w.file = "run" /\ w.val = run
  BY <1>1, RunWrite
<1> QED BY <1>1, <1>2 DEF FrontWrites

\* a node that is settled,
LEMMA FrontNode ==
  ASSUME NEW n \in Node, NEW v, Settling(n, v) PROVE WriteNode(n, v) \in FrontWrites
<1>1. PICK w : w = WriteNode(n, v)
  OBVIOUS
<1>2. v \in NodeSnapshot
  BY DEF Settling, NodeOK
<1>3. w \in Writes /\ w.file = "node" /\ w.n = n /\ w.val = v
  BY <1>1, <1>2, NodeWrite
<1> QED BY <1>1, <1>3 DEF FrontWrites

\* Pieces of two writes of a batch, joined.
LEMMA FrontFlat ==
  ASSUME NEW ns \in Seq(Node), NEW ss, DOMAIN ss = DOMAIN ns, \A i \in DOMAIN ns : ss[i] \in Seq(FrontWrites)
  PROVE  Flatten(ss) \in Seq(FrontWrites)
<1>1. PICK N \in Nat : N = Len(ns) /\ DOMAIN ns = 1..N
  OBVIOUS
<1>2. DOMAIN ss = 1..N /\ Len(ss) = N
  BY <1>1
<1> QED BY <1>1, <1>2, FlattenPieces

\* the skipped nodes,
LEMMA FrontSkips ==
  ASSUME FilesOK, NEW S \in SUBSET Skipped, NEW reason \in Reasons, \A n \in S : Batched(n) = Skip(n, reason)
  PROVE  Each(InOrder(S), LAMBDA n : SkipWrites(n, reason)) \in Seq(FrontWrites)
<1>1. PICK ns : ns = InOrder(S)
  OBVIOUS
<1>2. ns \in Seq(Node) /\ \A i \in DOMAIN ns : ns[i] \in S \cap Node
  BY <1>1, InOrderNodes
<1>3. PICK ss : ss = [i \in DOMAIN ns |-> SkipWrites(ns[i], reason)]
  OBVIOUS
<1>4. ASSUME NEW i \in DOMAIN ns PROVE ss[i] \in Seq(FrontWrites)
  <2>1. PICK m : m = ns[i]
    OBVIOUS
  <2>2. m \in Node /\ m \in Skipped /\ m \in S
    BY <2>1, <1>2
  <2>3. PICK v : v = Skip(m, reason)
    OBVIOUS
  <2>4. /\ NodeOK(m, v) /\ v.att = node[m].att /\ v.concl = "none" /\ v.phase = "skipped"
        /\ node[m].concl = "none"
    BY <2>2, <2>3, SkipIs
  <2>5. ~Terminal(node[m]) /\ (m \in Agent => Unstarted(node[m]))
    BY <2>2 DEF Skipped, Unstarted, Terminal
  <2>6. Settling(m, v)
    BY <2>2, <2>3, <2>4, <2>5 DEF Settling
  <2>7. WriteNode(m, v) \in FrontWrites
    BY <2>2, <2>6, FrontNode
  <2>8. WriteRun(run) \in FrontWrites
    BY FrontRun DEF FilesOK
  <2>9. ss[i] = <<WriteNode(m, v), WriteRun(run)>>
    BY <2>1, <2>3, <1>3 DEF SkipWrites
  <2> QED BY <2>7, <2>8, <2>9
<1>5. DOMAIN ss = DOMAIN ns
  BY <1>3
<1>6. Flatten(ss) \in Seq(FrontWrites)
  BY <1>2, <1>4, <1>5, FrontFlat
<1> QED BY <1>1, <1>3, <1>6 DEF Each

\* and an approval that waits.
LEMMA ApprovalIs ==
  ASSUME FilesOK, NEW n \in Node, n \notin Agent, n \in Eligible
  PROVE  Settling(n, ApprovalNode(n))
<1>1. NodeOK(n, node[n]) /\ node[n] \in NodeSnapshot /\ MaxAttempts > 0 /\ Unstarted(node[n])
  BY RunAssumption, VerdictIs DEF FilesOK
<1>2. PICK v : v = ApprovalNode(n)
  OBVIOUS
<1>3. v.phase = "waiting" /\ v.concl = node[n].concl /\ v.att = node[n].att
  BY <1>1, <1>2 DEF NodeSnapshot, ApprovalNode
<1>4. v \in NodeSnapshot
  BY <1>1, <1>2 DEF NodeSnapshot, NodePhases, Reasons, ApprovalNode
<1>5. node[n].concl = "none" /\ ~Terminal(node[n])
  BY <1>1 DEF Unstarted, NodeOK, Terminal
<1>6. NodeOK(n, v)
  BY <1>1, <1>3, <1>4, <1>5 DEF NodeOK
<1>7. v = Batched(n)
  BY <1>2 DEF Batched, Eligible, Verdicts
<1> QED BY <1>2, <1>3, <1>5, <1>6, <1>7 DEF Settling

\* So are all approvals that wait.
LEMMA FrontApprovals ==
  ASSUME FilesOK
  PROVE  Each(InOrder(Eligible \ Agent), ApprovalWrites) \in Seq(FrontWrites)
<1>1. PICK ns : ns = InOrder(Eligible \ Agent)
  OBVIOUS
<1>2. ns \in Seq(Node) /\ \A i \in DOMAIN ns : ns[i] \in (Eligible \ Agent) \cap Node
  BY <1>1, InOrderNodes
<1>3. PICK ss : ss = [i \in DOMAIN ns |-> ApprovalWrites(ns[i])]
  OBVIOUS
<1>4. ASSUME NEW i \in DOMAIN ns PROVE ss[i] \in Seq(FrontWrites)
  <2>1. PICK m : m = ns[i]
    OBVIOUS
  <2>2. m \in Node /\ m \notin Agent /\ m \in Eligible
    BY <2>1, <1>2
  <2>3. PICK v : v = ApprovalNode(m)
    OBVIOUS
  <2>4. WriteNode(m, v) \in FrontWrites
    BY <2>2, <2>3, ApprovalIs, FrontNode
  <2>5. WriteRun(run) \in FrontWrites
    BY FrontRun DEF FilesOK
  <2>6. ss[i] = <<WriteNode(m, v), WriteRun(run)>>
    BY <2>1, <2>3, <1>3 DEF ApprovalWrites, ApprovalNode
  <2> QED BY <2>4, <2>5, <2>6
<1>5. DOMAIN ss = DOMAIN ns
  BY <1>3
<1>6. Flatten(ss) \in Seq(FrontWrites)
  BY <1>2, <1>4, <1>5, FrontFlat
<1> QED BY <1>1, <1>3, <1>6 DEF Each

\* The writes of the nodes with verdict v, skipped for a reason.
Skips(v, reason) == Each(InOrder(Verdicts(v)), LAMBDA n : SkipWrites(n, reason))

\* The batch: the skipped nodes, the approvals that wait, the Agents that start.
LEMMA BatchParts ==
  ASSUME FilesOK
  PROVE  \E a, b, c, e \in Seq(FrontWrites) :
           /\ a = Skips("skip_upstream", "upstream_failed")
           /\ b = Skips("skip_condition", "condition_false")
           /\ c = Skips("skip_failure_policy", "failure_policy")
           /\ e = Each(InOrder(Eligible \ Agent), ApprovalWrites)
           /\ BatchWrites(PlanSchedule(run, node)) = a \o b \o c \o e \o Each(InOrder(Ready), AgentWrites)
<1>1. PICK d : d = PlanSchedule(run, node)
  OBVIOUS
<1>2. /\ d.skipUpstream = InOrder(Verdicts("skip_upstream"))
      /\ d.skipConditions = InOrder(Verdicts("skip_condition"))
      /\ d.skipFailurePolicy = InOrder(Verdicts("skip_failure_policy"))
      /\ d.readyApprovals = InOrder(Eligible \ Agent)
      /\ d.readyAgents = InOrder(Ready)
  BY <1>1, PlanIs
<1>3. /\ \A n \in Verdicts("skip_upstream") : n \in Skipped /\ Batched(n) = Skip(n, "upstream_failed")
      /\ \A n \in Verdicts("skip_condition") : n \in Skipped /\ Batched(n) = Skip(n, "condition_false")
      /\ \A n \in Verdicts("skip_failure_policy") : n \in Skipped /\ Batched(n) = Skip(n, "failure_policy")
  BY VerdictIs DEF Verdicts, Batched
<1>4. PICK a \in Seq(FrontWrites) : a = Skips("skip_upstream", "upstream_failed")
  <2>1. Verdicts("skip_upstream") \in SUBSET Skipped /\ "upstream_failed" \in Reasons
    BY <1>3 DEF Reasons
  <2> QED BY <2>1, <1>3, FrontSkips DEF Skips
<1>5. PICK b \in Seq(FrontWrites) : b = Skips("skip_condition", "condition_false")
  <2>1. Verdicts("skip_condition") \in SUBSET Skipped /\ "condition_false" \in Reasons
    BY <1>3 DEF Reasons
  <2> QED BY <2>1, <1>3, FrontSkips DEF Skips
<1>6. PICK c \in Seq(FrontWrites) : c = Skips("skip_failure_policy", "failure_policy")
  <2>1. Verdicts("skip_failure_policy") \in SUBSET Skipped /\ "failure_policy" \in Reasons
    BY <1>3 DEF Reasons
  <2> QED BY <2>1, <1>3, FrontSkips DEF Skips
<1>7. PICK e \in Seq(FrontWrites) : e = Each(InOrder(Eligible \ Agent), ApprovalWrites)
  BY FrontApprovals
<1>8. PICK u : u = Each(InOrder(Ready), AgentWrites)
  OBVIOUS
<1>9. BatchWrites(d) = a \o b \o c \o e \o u
  <2>1. BatchWrites(d) = Each(d.skipUpstream, LAMBDA n : SkipWrites(n, "upstream_failed"))
                         \o Each(d.skipConditions, LAMBDA n : SkipWrites(n, "condition_false"))
                         \o Each(d.skipFailurePolicy, LAMBDA n : SkipWrites(n, "failure_policy"))
                         \o Each(d.readyApprovals, ApprovalWrites)
                         \o Each(d.readyAgents, AgentWrites)
    BY DEF BatchWrites
  <2>2. a = Each(d.skipUpstream, LAMBDA n : SkipWrites(n, "upstream_failed"))
    BY <1>2, <1>4 DEF Skips
  <2>3. b = Each(d.skipConditions, LAMBDA n : SkipWrites(n, "condition_false"))
    BY <1>2, <1>5 DEF Skips
  <2>4. c = Each(d.skipFailurePolicy, LAMBDA n : SkipWrites(n, "failure_policy"))
    BY <1>2, <1>6 DEF Skips
  <2>5. e = Each(d.readyApprovals, ApprovalWrites)
    BY <1>2, <1>7
  <2>6. u = Each(d.readyAgents, AgentWrites)
    BY <1>2, <1>8
  <2> QED BY <2>1, <2>2, <2>3, <2>4, <2>5, <2>6
<1>10. BatchWrites(PlanSchedule(run, node)) = a \o b \o c \o e \o Each(InOrder(Ready), AgentWrites)
  BY <1>1, <1>8, <1>9
<1> WITNESS a \in Seq(FrontWrites), b \in Seq(FrontWrites), c \in Seq(FrontWrites), e \in Seq(FrontWrites)
<1> QED BY ONLY <1>4, <1>5, <1>6, <1>7, <1>10, Zenon

\* What settles nodes comes before what starts Agents.
LEMMA BatchIs ==
  ASSUME FilesOK
  PROVE  \E front \in Seq(FrontWrites) :
           BatchWrites(PlanSchedule(run, node)) = front \o Each(InOrder(Ready), AgentWrites)
<1>1. PICK a, b, c, e \in Seq(FrontWrites) :
        BatchWrites(PlanSchedule(run, node)) = a \o b \o c \o e \o Each(InOrder(Ready), AgentWrites)
  BY BatchParts
<1>2. PICK front : front = a \o b \o c \o e
  OBVIOUS
<1>3. front \in Seq(FrontWrites)
  BY <1>2
<1> QED BY <1>1, <1>2, <1>3

\* A set of positions has a largest one.
LEMMA LargestElement ==
  ASSUME NEW N \in Nat, NEW T \in SUBSET (1..N), T # {}
  PROVE  \E m \in T : \A k \in T : k <= m
<1> DEFINE U == {i \in 0..N : N - i \in T}
<1>1. U \subseteq Nat /\ U # {}
  <2>1. PICK k \in T : TRUE
    OBVIOUS
  <2>2. N - k \in 0..N /\ N - (N - k) = k
    BY <2>1
  <2>3. N - k \in U
    BY <2>1, <2>2
  <2>4. U # {}
    BY <2>3
  <2>5. \A i \in 0..N : i \in Nat
    OBVIOUS
  <2>6. U \subseteq Nat
    BY <2>5
  <2> QED BY <2>4, <2>6
<1>2. PICK m \in U : \A k \in U : m <= k
  BY <1>1, LeastElement
<1>3. ASSUME NEW k \in T PROVE k <= N - m
  <2>1. N - k \in 0..N /\ N - (N - k) = k
    OBVIOUS
  <2>2. N - k \in U
    BY <2>1
  <2>3. m <= N - k
    BY <2>2, <1>2
  <2> QED BY <2>3
<1> QED BY <1>2, <1>3

\* The nodes after the writes of a batch.
LEMMA NodesAfterType ==
  ASSUME FilesOK, NEW ws \in Seq(Writes)
  PROVE  NodesAfter(ws) \in [Node -> NodeSnapshot]
<1> DEFINE own(n) == {i \in DOMAIN ws : ws[i].file = "node" /\ ws[i].n = n}
           last(n) == CHOOSE i \in own(n) : \A j \in own(n) : j <= i
           after(n) == IF own(n) = {} THEN node[n] ELSE ws[last(n)].val
<1>1. ASSUME NEW n \in Node PROVE after(n) \in NodeSnapshot
  <2>1. CASE own(n) = {}
    BY <2>1 DEF FilesOK
  <2>2. CASE own(n) # {}
    <3>1. PICK N \in Nat : N = Len(ws) /\ DOMAIN ws = 1..N
      OBVIOUS
    <3>2. own(n) \in SUBSET (1..N)
      BY <3>1
    <3>3. \E i \in own(n) : \A j \in own(n) : j <= i
      BY <3>2, <2>2, LargestElement
    <3>4. last(n) \in own(n)
      BY <3>3
    <3>5. PICK i \in DOMAIN ws : i = last(n) /\ ws[i].file = "node"
      BY <3>4
    <3>6. ws[i] \in Writes
      BY <3>5
    <3>7. ws[i].val \in NodeSnapshot
      BY <3>5, <3>6, WriteKinds
    <3> QED BY <2>2, <3>5, <3>7
  <2> QED BY <2>1, <2>2
<1>2. NodesAfter(ws) = [n \in Node |-> after(n)]
  BY DEF NodesAfter
<1> HIDE DEF after
<1> QED BY <1>1, <1>2

\* A write that settles a node is plain.
LEMMA FrontPlain ==
  ASSUME NEW w \in FrontWrites, UNCHANGED node, run'.cancel = run.cancel
  PROVE  PlainOK(w) /\ PlainOK(w)'
<1>1. w.file \in {"node", "run"} /\ (w.file = "node" => Settling(w.n, w.val))
  BY DEF FrontWrites
<1>2. w.file = "node" => NodeWriteOK(w) /\ NodeWriteOK(w)'
  <2> SUFFICES ASSUME w.file = "node" PROVE NodeWriteOK(w) /\ NodeWriteOK(w)'
    OBVIOUS
  <2>1. /\ NodeOK(w.n, w.val) /\ w.val.att = node[w.n].att /\ w.val.concl = "none"
        /\ node[w.n].concl = "none"
        /\ w.n \in Agent => Unstarted(node[w.n]) /\ w.val.phase = "skipped"
    BY <1>1 DEF Settling
  <2>2. NodeOK(w.n, w.val)'
    BY <2>1 DEF NodeOK
  <2> QED BY <2>1, <2>2 DEF NodeWriteOK, Open, Busy, BusyPhases, Unstarted
<1> QED BY <1>1, <1>2 DEF PlainOK, FrontWrites

\* An Agent as beginAttempt writes it.
LEMMA StartedIs ==
  ASSUME FilesOK, NEW n \in Ready
  PROVE  /\ n \in Node /\ n \in Agent /\ Unstarted(node[n]) /\ DepsOver(n)
         /\ NodeOK(n, StartedNode(n)) /\ StartedNode(n) = Batched(n)
         /\ StartedNode(n).att = node[n].att + 1 /\ StartedNode(n).phase = "running"
         /\ StartedNode(n).concl = "none" /\ node[n].att + 1 \in 1..MaxAttempts
<1>1. n \in Node /\ n \in Agent /\ n \in Eligible
  BY DEF Ready, Eligible, Verdicts
<1>2. Unstarted(node[n]) /\ DepsOver(n)
  BY <1>1, VerdictIs
<1>3. NodeOK(n, node[n]) /\ node[n] \in NodeSnapshot
  BY <1>1 DEF FilesOK
<1>4. node[n].att \in Nat /\ node[n].att + 1 \in 1..MaxAttempts /\ MaxAttempts \in Nat
  BY <1>2, <1>3, RunAssumption DEF NodeOK, Unstarted
<1>5. PICK v : v = StartedNode(n)
  OBVIOUS
<1>6. v.phase = "running" /\ v.concl = "none" /\ v.att = node[n].att + 1
  BY <1>3, <1>5 DEF NodeSnapshot, StartedNode
<1>7. v \in NodeSnapshot
  <2>1. PICK k \in Nat : k = node[n].att + 1
    BY <1>4
  <2>2. v = [node[n] EXCEPT !.phase = "running", !.concl = "none", !.reason = "none", !.att = k]
    BY <2>1, <1>5 DEF StartedNode
  <2> QED BY <2>2, <1>3 DEF NodeSnapshot, NodePhases, Reasons, Conclusions
<1>8. NodeOK(n, v)
  BY <1>1, <1>4, <1>6, <1>7 DEF NodeOK
<1>9. v = Batched(n)
  BY <1>1, <1>5 DEF Batched, Eligible, Verdicts
<1> QED BY <1>1, <1>2, <1>4, <1>5, <1>6, <1>8, <1>9

\* A prepared Attempt is an Attempt.
LEMMA PreparedIs == Prepared \in AttemptSnapshot
  BY DEF Prepared, AttemptSnapshot, Conclusions, Reasons, LaunchStates

\* The writes that start an Agent.
Starting(n) == <<CreateAttempt(n, node[n].att + 1, Prepared), WriteNode(n, StartedNode(n)), WriteRun(RunningRun)>>

\* The three writes that start an Agent.
LEMMA StartingIs ==
  ASSUME FilesOK, NEW n \in Ready
  PROVE  LET p == Starting(n)
         IN  /\ p \in Seq(Writes) /\ Len(p) = 3
             /\ p[1] = CreateAttempt(n, node[n].att + 1, Prepared)
             /\ p[2] = WriteNode(n, StartedNode(n)) /\ p[3] = WriteRun(RunningRun)
<1>1. /\ n \in Node /\ n \in Agent /\ NodeOK(n, StartedNode(n)) /\ node[n].att + 1 \in 1..MaxAttempts
  BY StartedIs
<1>2. StartedNode(n) \in NodeSnapshot
  BY <1>1 DEF NodeOK
<1>3. PICK x, y, z : /\ x = CreateAttempt(n, node[n].att + 1, Prepared)
                     /\ y = WriteNode(n, StartedNode(n)) /\ z = WriteRun(RunningRun)
  OBVIOUS
<1>4. x \in Writes
  BY <1>1, <1>3, PreparedIs, AttemptWrite
<1>5. y \in Writes
  BY <1>1, <1>2, <1>3, NodeWrite
<1>6. z \in Writes
  BY <1>3, RunTypes, RunWrite DEF FilesOK
<1>7. Starting(n) = <<x, y, z>>
  BY <1>3 DEF Starting
<1> QED BY <1>3, <1>4, <1>5, <1>6, <1>7

\* Each write of the second part of a batch is one of those of an Agent that
\* is ready, and comes after the one before.
LEMMA StartsAre ==
  ASSUME FilesOK
  PROVE  LET s == Each(InOrder(Ready), AgentWrites)
         IN  /\ s \in Seq(Writes)
             /\ \A i \in 1..Len(s) : \E n \in Ready, l \in 1..3 : From(s, i, Starting(n), l)
             /\ \A n \in Ready : \E i \in 1..Len(s) : s[i] = WriteNode(n, StartedNode(n))
<1>1. PICK ns : ns = InOrder(Ready)
  OBVIOUS
<1>2. /\ ns \in Seq(Node) /\ \A i \in DOMAIN ns : ns[i] \in Ready \cap Node
      /\ \A n \in Ready \cap Node : \E i \in DOMAIN ns : ns[i] = n
  BY <1>1, InOrderNodes
<1>3. PICK ss : ss = [i \in DOMAIN ns |-> AgentWrites(ns[i])]
  OBVIOUS
<1>4. \A i \in DOMAIN ns : ss[i] = Starting(ns[i])
  BY <1>3 DEF AgentWrites, Starting, StartedNode, Prepared
<1>5. PICK N \in Nat : N = Len(ns) /\ DOMAIN ns = 1..N
  BY <1>2
<1>6. DOMAIN ss = 1..N /\ Len(ss) = N
  BY <1>3, <1>5
<1>7. \A j \in 1..N : ss[j] \in Seq(Writes) /\ Len(ss[j]) = 3
  BY <1>2, <1>4, <1>5, StartingIs
<1>8. PICK s : s = Flatten(ss)
  OBVIOUS
<1>9. /\ s \in Seq(Writes)
      /\ \A i \in 1..Len(s) : \E j \in 1..N : \E l \in 1..Len(ss[j]) : From(s, i, ss[j], l)
      /\ \A j \in 1..N : \A l \in 1..Len(ss[j]) : \E i \in 1..Len(s) : s[i] = ss[j][l]
  <2>1. \A j \in 1..N : ss[j] \in Seq(Writes)
    BY <1>7
  <2>2. Flatten(ss) \in Seq(Writes)
    BY <2>1, <1>6, FlattenPieces
  <2>3. \A i \in 1..Len(Flatten(ss)) : \E j \in 1..N : \E l \in 1..Len(ss[j]) : From(Flatten(ss), i, ss[j], l)
    BY <2>1, <1>6, FlattenPieces
  <2>4. HasPieces(Flatten(ss), ss, N)
    BY <2>1, <1>6, FlattenPieces
  <2> QED BY <2>2, <2>3, <2>4, <1>8 DEF HasPieces
<1>10. ASSUME NEW i \in 1..Len(s) PROVE \E n \in Ready, l \in 1..3 : From(s, i, Starting(n), l)
  <2>1. PICK j \in 1..N : \E l \in 1..Len(ss[j]) : From(s, i, ss[j], l)
    BY <1>9
  <2>2. PICK l \in 1..Len(ss[j]) : From(s, i, ss[j], l)
    BY <2>1
  <2>3. ns[j] \in Ready /\ ss[j] = Starting(ns[j]) /\ l \in 1..3
    BY <1>2, <1>4, <1>5, <1>7
  <2> QED BY <2>2, <2>3
<1>11. ASSUME NEW n \in Ready PROVE \E i \in 1..Len(s) : s[i] = WriteNode(n, StartedNode(n))
  <2>1. n \in Node
    BY StartedIs
  <2>2. PICK j \in 1..N : ns[j] = n
    BY <2>1, <1>2, <1>5
  <2>3. ss[j] = Starting(n) /\ 2 \in 1..Len(ss[j])
    <3>1. ss[j] = Starting(n)
      BY <2>2, <1>4, <1>5
    <3>2. Len(ss[j]) = 3
      BY <1>7
    <3> QED BY <3>1, <3>2
  <2>4. PICK i \in 1..Len(s) : s[i] = ss[j][2]
    BY <2>3, <1>9
  <2> QED BY <2>3, <2>4, StartingIs
<1>12. Each(InOrder(Ready), AgentWrites) = s
  BY <1>1, <1>3, <1>8 DEF Each
<1> QED BY <1>9, <1>10, <1>11, <1>12

\* A batch that launches nothing.
LEMMA BatchSettles ==
  ASSUME RunInv, ScheduleBatch, Allowed, PlanSchedule(run, node).readyAgents = <<>>,
         NEW r, NEW p \in {"exit", "top"}, Go(p), lau' = lau,
         r = aggregateRunState(run, NodesAfter(BatchWrites(PlanSchedule(run, node)))),
         NEW tail \in {<<>>, <<WriteRun(r)>>}, todo' = BatchWrites(PlanSchedule(run, node)) \o tail
  PROVE  RunInv' /\ AllPlain'
<1>1. ThreadTypes /\ ControlRules /\ FilesOK /\ ThreadsOK /\ ctl \in ControlStates /\ run \in WorkflowSnapshot
  BY DEF RunInv, ControlOK, ThreadTypes, FilesOK
<1>2. /\ ctl.pc = "sched" /\ todo = <<>> /\ lau = NoLaunch
      /\ UNCHANGED <<run, node, attempt, req, intent, exec, proc, obs, can, ask, act, hbrec, faults>>
      /\ ~act /\ ~Planned /\ ~run.cancel
  BY <1>1 DEF ScheduleBatch, ControlRules, disk, Allowed
<1>3. ctl' \in ControlStates /\ ctl'.pc = p /\ ctl'.stopping = ctl.stopping
  BY <1>1, GoType DEF ControlPoints
<1>4. ControlOK'
  BY <1>1, <1>2, <1>3, ControlMoves DEF ThreadTypes
<1>5. \A m \in Agent : lau'[m] = "-"
  BY <1>2, NoLaunchIs
<1>6. PICK front \in Seq(FrontWrites) :
        BatchWrites(PlanSchedule(run, node)) = front \o Each(InOrder(Ready), AgentWrites)
  BY <1>1, BatchIs
<1>7. PICK V : V = [m \in Node |-> Batched(m)]
  OBVIOUS
<1>8. AllFit(front, V, run.cancel)
  <2>1. ASSUME NEW w \in FrontWrites PROVE w \in Writes /\ Fits(w, V, run.cancel)
    <3>1. w \in Writes /\ w.file \in {"node", "run"} /\ (w.file = "node" => w.val = Batched(w.n))
      BY DEF FrontWrites, Settling
    <3>2. w.file = "node" => w.n \in Node
      BY <3>1, WriteKinds
    <3>3. PlainOK(w)
      BY <1>2, FrontPlain
    <3> QED BY <3>1, <3>2, <3>3, <1>7 DEF Fits, FrontWrites
  <2>2. front \in Seq(Writes)
    <3>1. FrontWrites \subseteq Writes
      BY <2>1
    <3> QED BY <3>1
  <2>3. \A i \in DOMAIN front : front[i] \in FrontWrites
    OBVIOUS
  <2> QED BY <2>1, <2>2, <2>3 DEF AllFit
<1>9. PICK back : back = Each(InOrder(Ready), AgentWrites)
  OBVIOUS
<1>10. AllFit(back, V, run.cancel)
  <2>1. InOrder(Ready) = <<>>
    BY PlanIs
  <2>2. PICK ns : ns = InOrder(Ready) /\ ns \in Seq(Node) /\ DOMAIN ns = {}
    <3>1. PICK ns : ns = InOrder(Ready) /\ ns = <<>>
      BY <2>1
    <3>2. ns \in Seq(Node) /\ \A i \in DOMAIN ns : FALSE
      BY <3>1, NoElement
    <3> QED BY <3>1, <3>2
  <2>3. PICK ss : ss = [i \in DOMAIN ns |-> AgentWrites(ns[i])]
    OBVIOUS
  <2>4. DOMAIN ss = DOMAIN ns /\ \A i \in DOMAIN ns : AllFit(ss[i], V, run.cancel)
    BY <2>2, <2>3
  <2>5. AllFit(Flatten(ss), V, run.cancel)
    BY <2>2, <2>4, EachFits
  <2>6. back = Flatten(ss)
    BY <1>9, <2>2, <2>3 DEF Each
  <2> QED BY <2>5, <2>6
<1>11. PICK batch : batch = BatchWrites(PlanSchedule(run, node))
  OBVIOUS
<1>12. AllFit(batch, V, run.cancel)
  BY <1>6, <1>8, <1>9, <1>10, <1>11, FitJoin
<1>13. r \in WorkflowSnapshot /\ r.cancel = run.cancel
  <2>1. batch \in Seq(Writes)
    BY <1>12 DEF AllFit
  <2>2. NodesAfter(batch) \in [Node -> NodeSnapshot]
    BY <2>1, <1>1, NodesAfterType
  <2>3. PICK nodes \in [Node -> NodeSnapshot] : nodes = NodesAfter(batch)
    BY <2>2
  <2>4. r = aggregateRunState(run, nodes)
    BY <2>3, <1>11
  <2> QED BY <2>4, <1>1, AggregateType
<1>14. AllFit(tail, V, run.cancel)
  <2>1. AllFit(<<WriteRun(r)>>, V, run.cancel)
    BY <1>13, FitRun, FitOne
  <2> QED BY <2>1, FitEmpty
<1>15. AllFit(batch \o tail, V, run.cancel)
  BY <1>12, <1>14, FitJoin
<1>16. AllFit(todo', V, run.cancel)
  BY <1>11, <1>15
<1> QED BY <1>16, <1>2, <1>3, <1>4, <1>5, Mutation

\* A batch that launches.
LEMMA BatchLaunches ==
  ASSUME RunInv, ScheduleBatch, Allowed, Go("launch"), todo' = BatchWrites(PlanSchedule(run, node)),
         lau' = [n \in Agent |-> IF \E i \in DOMAIN PlanSchedule(run, node).readyAgents :
                                      PlanSchedule(run, node).readyAgents[i] = n
                                 THEN "begin" ELSE "-"]
  PROVE  RunInv' /\ \A n \in Agent : Creating(n)' => n \in Ready
<1>1. /\ ThreadTypes /\ ControlRules /\ FilesOK /\ ThreadsOK /\ ctl \in ControlStates /\ run \in WorkflowSnapshot
      /\ intent \in actionIntent
  BY DEF RunInv, ControlOK, ThreadTypes, FilesOK, TodoOK, IntentOK
<1>2. /\ ctl.pc = "sched" /\ todo = <<>> /\ lau = NoLaunch
      /\ UNCHANGED <<run, node, attempt, req, intent, exec, proc, obs, can, ask, act, hbrec, faults>>
      /\ ~act /\ ~Planned /\ ~run.cancel
  BY <1>1 DEF ScheduleBatch, ControlRules, disk, Allowed
<1>3. ctl' \in ControlStates /\ ctl'.pc = "launch" /\ ctl'.stopping = ctl.stopping
  BY <1>1, GoType DEF ControlPoints
<1>4. lau' \in [Agent -> LaunchPoints] /\ \A n \in Agent : lau'[n] = IF n \in Ready THEN "begin" ELSE "-"
  <2>1. PICK ns : ns = PlanSchedule(run, node).readyAgents /\ ns = InOrder(Ready)
    BY PlanIs
  <2>2. \A n \in Node : n \in Ready <=> \E i \in DOMAIN ns : ns[i] = n
    BY <2>1, InOrderNodes
  <2>3. \A n \in Agent : n \in Node
    BY WorkflowAssumption
  <2> QED BY <2>1, <2>2, <2>3 DEF LaunchPoints
<1>5. ControlOK'
  BY <1>1, <1>2, <1>3, <1>4, ControlMoves DEF ThreadTypes
<1>6. FilesOK'
  BY <1>1, <1>2, FilesSame DEF FilesOK
<1>7. ExecutionsOK'
  BY <1>1, <1>2, ExecutionsSame DEF ThreadsOK
<1>8. \A n \in Agent : can'.out[n] = "-"
  BY <1>1, <1>2 DEF ThreadsOK, TargetsOK, TargetOK
<1>9. PICK front \in Seq(FrontWrites) :
        BatchWrites(PlanSchedule(run, node)) = front \o Each(InOrder(Ready), AgentWrites)
  BY <1>1, BatchIs
<1>10. PICK back : back = Each(InOrder(Ready), AgentWrites)
  OBVIOUS
<1>11. back \in Seq(Writes)
  BY <1>1, <1>10, StartsAre
<1>12. \A i \in 1..Len(back) : \E n \in Ready, l \in 1..3 : From(back, i, Starting(n), l)
  BY <1>1, <1>10, StartsAre
<1>13. \A n \in Ready : \E i \in 1..Len(back) : back[i] = WriteNode(n, StartedNode(n))
  BY <1>1, <1>10, StartsAre
<1>14. PICK s : s = todo'
  OBVIOUS
<1>15. s \in Seq(Writes) /\ Concats(s, front, back)
  <2>1. FrontWrites \subseteq Writes
    BY DEF FrontWrites
  <2>2. front \in Seq(Writes)
    BY <2>1
  <2>3. s = front \o back
    BY <1>9, <1>10, <1>14
  <2> QED BY <2>2, <2>3, <1>11, FromConcat
<1> DEFINE Kind(i) ==
      \/ s[i] \in FrontWrites
      \/ \E n \in Ready : s[i] = CreateAttempt(n, node[n].att + 1, Prepared)
      \/ \E n \in Ready : /\ s[i] = WriteNode(n, StartedNode(n)) /\ i > 1
                          /\ s[i - 1] = CreateAttempt(n, node[n].att + 1, Prepared)
      \/ s[i] = WriteRun(RunningRun)
<1>16. ASSUME NEW i \in 1..Len(s) PROVE Kind(i)
  <2>1. CASE i \in 1..Len(front)
    <3>1. s[i] = front[i]
      BY <2>1, <1>15 DEF Concats, From
    <3>2. front[i] \in FrontWrites
      BY <2>1
    <3> QED BY <3>1, <3>2
  <2>2. CASE \E l \in 1..Len(back) : i = Len(front) + l
    <3>1. PICK j \in 1..Len(back) : i = Len(front) + j
      BY <2>2
    <3>2. From(s, i, back, j)
      BY <3>1, <1>15 DEF Concats
    <3>3. PICK n \in Ready, l \in 1..3 : From(back, j, Starting(n), l)
      BY <1>12
    <3>4. s[i] = Starting(n)[l] /\ (l > 1 => i > 1 /\ s[i - 1] = Starting(n)[l - 1])
      BY <3>2, <3>3 DEF From
    <3>5. /\ Starting(n)[1] = CreateAttempt(n, node[n].att + 1, Prepared)
          /\ Starting(n)[2] = WriteNode(n, StartedNode(n)) /\ Starting(n)[3] = WriteRun(RunningRun)
      BY <1>1, StartingIs
    <3>6. CASE l = 1
      BY <3>4, <3>5, <3>6
    <3>7. CASE l = 2
      <4>1. s[i - 1] = Starting(n)[1] /\ i > 1
        BY <3>4, <3>7
      <4> QED BY <3>4, <3>5, <3>7, <4>1
    <3>8. CASE l = 3
      BY <3>4, <3>5, <3>8
    <3> QED BY <3>6, <3>7, <3>8
  <2> QED BY <2>1, <2>2, <1>15 DEF Concats
<1>17. DOMAIN s = 1..Len(s)
  BY <1>15
<1> HIDE DEF Kind
\* The four kinds of writes, as the invariant sees them.
<1>18. ASSUME NEW i \in DOMAIN s, s[i] \in FrontWrites
       PROVE  /\ PlainOK(s[i])' /\ s[i].file \in {"node", "run"}
              /\ s[i].file = "node" => /\ s[i].val.concl = "none" /\ ~Terminal(node[s[i].n])
                                       /\ s[i].val = Batched(s[i].n) /\ s[i].val.att = node[s[i].n].att
              /\ s[i].file = "run" => s[i].val.cancel = run.cancel
  <2>1. PICK w \in FrontWrites : w = s[i]
    BY <1>18
  <2>2. PlainOK(w)'
    BY <1>2, FrontPlain
  <2> QED BY <2>1, <2>2 DEF FrontWrites, Settling
<1>28. ASSUME NEW i \in DOMAIN s, s[i] = WriteRun(RunningRun)
       PROVE  PlainOK(s[i])' /\ s[i].file = "run" /\ s[i].val.cancel = run.cancel
  <2>1. PICK w : w = WriteRun(RunningRun)
    OBVIOUS
  <2>2. w.file = "run" /\ w.val = RunningRun /\ RunningRun.cancel = run.cancel
    BY <2>1, <1>1, RunTypes, RunWrite
  <2>3. PlainOK(w)'
    BY <2>2, <1>2 DEF PlainOK
  <2> QED BY <2>1, <2>2, <2>3, <1>28
<1>19. ASSUME NEW i \in DOMAIN s, NEW n \in Ready, s[i] = CreateAttempt(n, node[n].att + 1, Prepared)
       PROVE  NewOK(s[i]) /\ s[i].file = "new"
  BY <1>19 DEF CreateAttempt, NewOK
<1>20. ASSUME NEW i \in DOMAIN s, NEW n \in Ready, s[i] = WriteNode(n, StartedNode(n)), i > 1,
              s[i - 1] = CreateAttempt(n, node[n].att + 1, Prepared)
       PROVE  /\ CreatesOK(i)' /\ s[i].file = "node" /\ s[i].n = n /\ s[i].val = Batched(n)
              /\ s[i].val.concl = "none" /\ ~Terminal(node[n])
  <2>1. /\ n \in Node /\ n \in Agent /\ Unstarted(node[n]) /\ DepsOver(n)
        /\ NodeOK(n, StartedNode(n)) /\ StartedNode(n) = Batched(n)
        /\ StartedNode(n).att = node[n].att + 1 /\ StartedNode(n).phase = "running"
        /\ StartedNode(n).concl = "none" /\ node[n].att + 1 \in 1..MaxAttempts
    BY <1>1, StartedIs
  <2>2. PICK v : v = StartedNode(n)
    OBVIOUS
  <2>3. s[i].file = "node" /\ s[i].n = n /\ s[i].val = v
    BY <1>20, <2>2 DEF WriteNode
  <2>4. DepsOver(n)' /\ NodeOK(n, v)'
    BY <2>1, <2>2, <1>2 DEF DepsOver, NodeOK
  <2>5. lau'[n] = "begin"
    BY <2>1, <1>4
  <2>6. PICK w : w = s[i]
    OBVIOUS
  <2>7. /\ w.file = "node" /\ w.n = n /\ w.val = v /\ todo'[i] = w
        /\ todo'[i - 1] = CreateAttempt(n, v.att, Prepared)
    BY <2>1, <2>2, <2>3, <2>6, <1>14, <1>20
  <2>8. CreatesOK(i)'
    BY <2>1, <2>2, <2>4, <2>5, <2>7, <1>2, <1>20 DEF CreatesOK
  <2> QED BY <2>1, <2>2, <2>3, <2>8 DEF Unstarted, Terminal
<1>21. ASSUME NEW i \in DOMAIN s
       PROVE  /\ s[i].file \in {"node", "new", "run"}
              /\ s[i].file = "node" => /\ s[i].val.concl = "none" /\ ~Terminal(node[s[i].n])
                                       /\ s[i].val = Batched(s[i].n)
                                       /\ s[i].val.att = node[s[i].n].att \/ (CreatesOK(i)' /\ s[i].n \in Ready)
              /\ s[i].file = "run" => s[i].val.cancel = run.cancel
              /\ PlainOK(s[i])' \/ NewOK(s[i]) \/ CreatesOK(i)'
  BY <1>16, <1>17, <1>18, <1>19, <1>20, <1>28 DEF Kind
<1>22. BatchOK'
  <2>1. \A i \in DOMAIN todo' :
           /\ todo'[i].file \in {"node", "new", "run"}
           /\ todo'[i].file = "node" => todo'[i].val.concl = "none"
           /\ todo'[i].file = "node" /\ Terminal(node[todo[i].n])' => todo'[i].val = node'[todo'[i].n]
    BY <1>2, <1>14, <1>21
  <2> QED BY <2>1, <1>3, <1>4, <1>8 DEF BatchOK
<1>23. TodoOK'
  <2>1. ASSUME NEW i \in DOMAIN s PROVE WriteOK(i)'
    <3>1. PICK w : w = s[i]
      OBVIOUS
    <3>2. PlainOK(w)' \/ NewOK(w) \/ CreatesOK(i)'
      BY <3>1, <1>21
    <3>3. todo'[i] = w
      BY <3>1, <1>14
    <3> QED BY <3>2, <3>3, <1>22 DEF WriteOK, NewOK
  <2>2. AgreeOK'
    BY <1>14, <1>21 DEF AgreeOK
  <2>3. IntentOK'
    <3>1. ~Planned' /\ ~act' /\ intent' \in actionIntent
      BY <1>1, <1>2 DEF Planned
    <3>2. \A i \in DOMAIN todo' : todo'[i].file # "intent"
      BY <1>14, <1>21
    <3> QED BY <3>1, <3>2 DEF IntentOK
  <2> QED BY <2>1, <2>2, <2>3, <1>14, <1>15 DEF TodoOK
<1>24. ASSUME NEW n \in Agent, n \in Ready PROVE Coming(n)'
  <2>1. PICK j \in 1..Len(back) : back[j] = WriteNode(n, StartedNode(n))
    BY <1>13, <1>24
  <2>2. PICK i \in 1..Len(s) : From(s, i, back, j)
    BY <1>15 DEF Concats
  <2>3. s[i] = WriteNode(n, StartedNode(n)) /\ i \in DOMAIN s
    BY <2>1, <2>2, <1>17 DEF From
  <2>4. s[i].file = "node" /\ s[i].n = n /\ s[i].val = StartedNode(n)
    BY <2>3 DEF WriteNode
  <2>5. StartedNode(n).att # node[n].att
    <3>1. StartedNode(n).att = node[n].att + 1 /\ node[n].att \in Nat
      BY <1>1, <1>24, StartedIs, WorkflowAssumption DEF FilesOK, NodeOK
    <3> QED BY <3>1
  <2>6. CreatesOK(i)'
    BY <2>3, <2>4, <2>5, <1>21
  <2> QED BY <2>3, <2>4, <2>6, <1>14 DEF Coming
<1>25. LaunchesOK'
  <2> SUFFICES ASSUME NEW n \in Agent PROVE LaunchOK(n)'
    BY DEF LaunchesOK
  <2>1. lau'[n] = "-" \/ (lau'[n] = "begin" /\ Coming(n)')
    BY <1>4, <1>24
  <2> QED BY <2>1 DEF LaunchOK, Dispatched
<1>26. ObservationsOK' /\ TargetsOK' /\ RecoverOK'
  BY <1>3, <1>8 DEF ObservationsOK, ObservedOK, TargetsOK, TargetOK, RecoverOK
<1>27. \A n \in Agent : Creating(n)' => n \in Ready
  BY <1>2, <1>14, <1>21 DEF Creating
<1> QED BY <1>5, <1>6, <1>7, <1>23, <1>25, <1>26, <1>27 DEF RunInv, ThreadsOK

\* ScheduleBatch preserves the invariant.
LEMMA StepScheduleBatch ==
  ASSUME RunInv, ScheduleBatch
  PROVE  RunInv' /\ (AllPlain' \/ (Allowed /\ \A n \in Agent : Creating(n)' => n \in Ready))
<1>1. ThreadTypes /\ ControlRules /\ FilesOK /\ ThreadsOK /\ ctl \in ControlStates
  BY DEF RunInv, ControlOK, ThreadTypes
<1>2. /\ ctl.pc = "sched" /\ todo = <<>> /\ lau = NoLaunch
      /\ UNCHANGED <<run, node, attempt, req, intent, exec, proc, obs, can, ask, act, hbrec, faults>>
  BY <1>1 DEF ScheduleBatch, ControlRules, disk
<1> DEFINE d == PlanSchedule(run, node)
           batch == BatchWrites(d)
           runAfter == aggregateRunState(run, NodesAfter(batch))
<1>3. CASE ~Allowed \/ d.error
  <2>1. PICK p \in {"exit", "fault"} : Go(p) /\ UNCHANGED <<todo, lau>>
    BY <1>3 DEF ScheduleBatch
  <2>2. ctl' \in ControlStates /\ ctl'.pc = p /\ ctl'.stopping = ctl.stopping
    BY <2>1, <1>1, GoType DEF ControlPoints
  <2>3. ControlOK'
    BY <2>1, <2>2, <1>1, <1>2, ControlMoves DEF ThreadTypes
  <2>4. TodoOK'
    BY <2>1, <1>2, TodoRest
  <2>5. RunInv'
    <3>1. run' \in WorkflowSnapshot /\ req' \in CancelRequest
      BY <1>1, <1>2 DEF FilesOK
    <3>2. \A n \in Agent : can'.out[n] = can.out[n]
      BY <1>2
    <3> QED BY <3>1, <3>2, <2>1, <2>2, <2>3, <2>4, <1>2, Quiet
  <2>6. AllPlain'
    BY <2>1, <1>2, NoElement DEF AllPlain
  <2> QED BY <2>5, <2>6
<1>4. CASE Allowed /\ ~d.error /\ d.readyAgents # <<>>
  <2>1. /\ todo' = batch /\ Go("launch")
        /\ lau' = [n \in Agent |-> IF \E i \in DOMAIN d.readyAgents : d.readyAgents[i] = n THEN "begin" ELSE "-"]
    BY <1>4 DEF ScheduleBatch
  <2> QED BY <2>1, <1>4, BatchLaunches
<1>5. CASE Allowed /\ ~d.error /\ d.readyAgents = <<>>
  <2>1. /\ todo' = batch \o (IF runAfter # run THEN <<WriteRun(runAfter)>> ELSE <<>>)
        /\ Go(IF shouldStop(runAfter) THEN "exit" ELSE IF batch # <<>> \/ ctl.again THEN "top" ELSE "exit")
        /\ lau' = lau
    BY <1>5 DEF ScheduleBatch
  <2>2. PICK p \in {"exit", "top"} : Go(p)
    BY <2>1
  <2>3. PICK r : r = runAfter
    OBVIOUS
  <2>4. PICK tail \in {<<>>, <<WriteRun(r)>>} : todo' = batch \o tail
    BY <2>1, <2>3
  <2> HIDE DEF runAfter
  <2>5. r = aggregateRunState(run, NodesAfter(BatchWrites(PlanSchedule(run, node))))
    BY <2>3 DEF runAfter
  <2> QED BY <2>1, <2>2, <2>4, <2>5, <1>5, BatchSettles
<1> QED BY <1>3, <1>4, <1>5

-----------------------------------------------------------------------------
(***************************************************************************)
(* The actions of the user.                                                *)
(***************************************************************************)

\* The writes of an action with this plan.
ActWrites(plan) ==
  {w \in Writes : \/ \E j \in DOMAIN plan : w = plan[j]
                  \/ w.file \in {"run", "acted"}
                  \/ w.file = "intent" /\ w.val.plan \in {plan, <<>>}}

\* The empty plan can be applied.
LEMMA NoPlan == PlanOK(<<>>)
<1>1. <<>> \in Seq(NodeWrites)
  OBVIOUS
<1>2. PICK e : e = <<>>
  OBVIOUS
<1>3. \A j \in DOMAIN e : FALSE
  BY <1>2, NoElement
<1> QED BY <1>1, <1>2, <1>3 DEF PlanOK

\* What a plan says of one node.
LEMMA PlanElement ==
  ASSUME NEW plan, PlanOK(plan), NEW j \in DOMAIN plan
  PROVE  /\ plan[j] \in NodeWrites /\ plan[j].file = "node" /\ plan[j] \in Writes /\ plan[j].n \in Node
         /\ plan[j] \in ActWrites(plan)
<1>1. plan \in Seq(NodeWrites)
  BY DEF PlanOK
<1>2. plan[j] \in NodeWrites
  BY <1>1
<1>3. plan[j].file = "node" /\ plan[j].n \in Node
  BY <1>2 DEF NodeWrites
<1>4. plan[j] \in Writes
  BY <1>2 DEF Writes
<1> QED BY <1>2, <1>3, <1>4 DEF ActWrites

\* While an action is applied, its writes are plain.
LEMMA ActPlain ==
  ASSUME NEW plan, PlanOK(plan), UNCHANGED node, act', NEW w \in ActWrites(plan)
  PROVE  PlainOK(w)'
<1>1. CASE \E j \in DOMAIN plan : w = plan[j]
  <2>1. PICK j \in DOMAIN plan : w = plan[j]
    BY <1>1
  <2>2. w.file = "node" /\ w.n \in Node
    BY <2>1, PlanElement
  <2>3. /\ NodeOK(w.n, w.val) /\ w.val.att = node[w.n].att
        /\ w.n \in Agent => Unstarted(w.val)
        /\ node[w.n].concl = "succeeded" => w.val = node[w.n]
    BY <2>1 DEF PlanOK
  <2>4. NodeOK(w.n, w.val)'
    BY <2>3 DEF NodeOK
  <2>5. w.n \in Agent => Open(w.val.concl)
    BY <2>3 DEF NodeOK, Unstarted, Open
  <2>6. NodeWriteOK(w)'
    BY <2>3, <2>4, <2>5 DEF NodeWriteOK, Unstarted, Open
  <2> QED BY <2>2, <2>6 DEF PlainOK
<1>2. CASE w.file \in {"run", "acted"}
  BY <1>2 DEF PlainOK
<1>3. CASE w.file = "intent" /\ w.val.plan \in {plan, <<>>}
  <2>1. PICK p : p = w.val.plan /\ PlanOK(p)
    BY <1>3, NoPlan
  <2>2. PlanOK(p)'
    BY <2>1, PlanKept
  <2> QED BY <1>3, <2>1, <2>2 DEF PlainOK
<1> QED BY <1>1, <1>2, <1>3 DEF ActWrites

\* An action begins to apply its plan.
LEMMA ActionBegins ==
  ASSUME RunInv, todo = <<>>, ~act, act' = TRUE, ctl.pc = "off", can.who = "-",
         UNCHANGED <<disk, exec, proc, ctl, obs, lau, can, ask, hbrec, faults>>,
         NEW plan, PlanOK(plan), NEW s \in Seq(ActWrites(plan)), todo' = s,
         Planned => intent.plan = plan,
         Planned \/ (\E i \in DOMAIN s : s[i].file = "intent") => s # <<>> /\ s[Len(s)] = WriteIntent(NoIntent)
  PROVE  RunInv' /\ AllPlain'
<1>1. ThreadTypes /\ ControlRules /\ FilesOK /\ ThreadsOK /\ TodoOK
  BY DEF RunInv, ControlOK
<1>2. UNCHANGED <<run, node, attempt, req, intent>>
  BY DEF disk
<1>3. ControlOK'
  <2>1. ThreadTypes'
    BY <1>1, <1>2 DEF ThreadTypes
  <2> QED BY <1>1, <2>1 DEF ControlOK, ControlRules, NoLaunch
<1>4. FilesOK'
  BY <1>1, <1>2, FilesSame DEF FilesOK
<1>5. ExecutionsOK'
  BY <1>1, <1>2, ExecutionsSame DEF ThreadsOK
<1>6. LaunchesOK'
  <2>1. lau = NoLaunch
    BY <1>1 DEF ControlRules
  <2> QED BY <2>1, <1>1, <1>2, LaunchesSame DEF ThreadsOK
<1>7. ObservationsOK' /\ RecoverOK'
  BY DEF ObservationsOK, ObservedOK, RecoverOK
<1>8. TargetsOK'
  BY <1>1 DEF ControlRules, TargetsOK, TargetOK
<1>9. \A i \in DOMAIN s : s[i] \in ActWrites(plan) /\ s[i] \in Writes
  BY DEF ActWrites
<1>10. ASSUME NEW i \in DOMAIN s PROVE PlainOK(todo[i])'
  <2>1. PICK w \in ActWrites(plan) : w = s[i]
    BY <1>9
  <2>2. PlainOK(w)'
    BY <1>2, ActPlain
  <2>3. todo'[i] = w
    BY <2>1
  <2> QED BY <2>2, <2>3
<1>11. AgreeOK'
  <2>1. ASSUME NEW i \in DOMAIN s, NEW j \in DOMAIN s, s[i].file = "node", s[j].file = "node", s[i].n = s[j].n
        PROVE  s[i].val = s[j].val
    <3>1. PICK k \in DOMAIN plan : s[i] = plan[k]
      BY <1>9, <2>1 DEF ActWrites
    <3>2. PICK l \in DOMAIN plan : s[j] = plan[l]
      BY <1>9, <2>1 DEF ActWrites
    <3> QED BY <3>1, <3>2, <2>1 DEF PlanOK
  <2> QED BY <2>1 DEF AgreeOK
<1>12. IntentOK'
  <2>1. Planned' = Planned /\ intent' = intent
    BY <1>2 DEF Planned
  <2>2. Planned => PlanOK(intent.plan)'
    <3> SUFFICES ASSUME Planned PROVE PlanOK(intent.plan)'
      OBVIOUS
    <3>1. PICK p : p = intent.plan
      OBVIOUS
    <3>2. PlanOK(p)'
      BY <1>1, <1>2, <3>1, PlanKept DEF TodoOK, IntentOK
    <3>3. intent'.plan = p
      BY <3>1, <1>2
    <3> QED BY <3>2, <3>3
  <2>3. ASSUME NEW p \in {plan, <<>>} PROVE AppliesTo(p)'
    <3>1. CASE p = <<>>
      BY <3>1, NoElement DEF AppliesTo
    <3>2. CASE p = plan
      <4>1. ASSUME NEW i \in DOMAIN s, NEW j \in DOMAIN plan, s[i].file = "node", s[i].n = plan[j].n
            PROVE  s[i].val = plan[j].val
        <5>1. PICK k \in DOMAIN plan : s[i] = plan[k]
          BY <1>9, <4>1 DEF ActWrites
        <5> QED BY <5>1, <4>1 DEF PlanOK
      <4> QED BY <3>2, <4>1 DEF AppliesTo
    <3> QED BY <3>1, <3>2
  <2>4. ASSUME NEW i \in DOMAIN s, s[i].file = "intent" PROVE AppliesTo(todo[i].val.plan)'
    <3>1. s[i].val.plan \in {plan, <<>>}
      <4>1. \A j \in DOMAIN plan : s[i] # plan[j]
        BY <2>4, PlanElement
      <4> QED BY <4>1, <1>9, <2>4 DEF ActWrites
    <3>2. PICK p \in {plan, <<>>} : p = s[i].val.plan
      BY <3>1
    <3>3. AppliesTo(p)'
      BY <2>3
    <3>4. todo'[i].val.plan = p
      BY <3>2
    <3> QED BY <3>3, <3>4
  <2>5. Planned => AppliesTo(intent.plan)'
    <3>1. Planned => AppliesTo(plan)'
      BY <2>3
    <3> QED BY <3>1, <2>1
  <2> QED BY <2>1, <2>2, <2>4, <2>5, <1>1 DEF TodoOK, IntentOK
<1>13. TodoOK'
  <2>1. ActWrites(plan) \subseteq Writes
    BY DEF ActWrites
  <2>2. todo' \in Seq(Writes)
    BY <2>1
  <2> QED BY <2>2, <1>10, <1>11, <1>12 DEF TodoOK, WriteOK
<1> QED BY <1>3, <1>4, <1>5, <1>6, <1>7, <1>8, <1>10, <1>13 DEF RunInv, ThreadsOK, AllPlain

\* What closes an action.
LEMMA ActionEnd ==
  ASSUME NEW plan, NEW x \in Seq(ActWrites(plan)), NEW s, s = x \o <<finalizeAction, WriteIntent(NoIntent)>>
  PROVE  s \in Seq(ActWrites(plan)) /\ s # <<>> /\ s[Len(s)] = WriteIntent(NoIntent)
<1>1. PICK a, b : a = finalizeAction /\ b = WriteIntent(NoIntent)
  OBVIOUS
<1>2. a \in ActWrites(plan)
  BY <1>1, ActedWrite DEF ActWrites
<1>3. b \in ActWrites(plan)
  <2>1. PICK i : i = NoIntent
    OBVIOUS
  <2>2. i \in actionIntent /\ i.plan = <<>>
    BY <2>1, NoIntentIs
  <2>3. b \in Writes /\ b.file = "intent" /\ b.val = i
    BY <1>1, <2>1, <2>2, IntentWrite
  <2> QED BY <2>2, <2>3 DEF ActWrites
<1>4. PICK y : y = <<a, b>>
  OBVIOUS
<1>5. y \in Seq(ActWrites(plan)) /\ Len(y) = 2 /\ y[2] = b
  BY <1>2, <1>3, <1>4
<1>6. s = x \o y
  BY <1>1, <1>4
<1>7. s \in Seq(ActWrites(plan)) /\ Concats(s, x, y)
  BY <1>5, <1>6, FromConcat
<1>8. Len(s) = Len(x) + 2 /\ s[Len(x) + 2] = b /\ Len(x) \in Nat
  BY <1>5, <1>7 DEF Concats, From
<1>9. s # <<>>
  BY <1>8
<1> QED BY <1>1, <1>7, <1>8, <1>9

\* The holder of the lease is alone.
LEMMA Alone ==
  ASSUME RunInv, mutationMu, LeaseFree
  PROVE  ~act /\ ctl.pc = "off" /\ can.who = "-" /\ ~Planned
<1>1. ThreadTypes /\ ControlRules /\ can \in CancelStates
  BY DEF RunInv, ControlOK, ThreadTypes
<1>2. can.who \in {"-", "monitor", "caller"}
  BY <1>1 DEF CancelStates
<1> QED BY <1>1, <1>2 DEF mutationMu, LeaseFree, ReplayDue, Planned, ControlRules

\* BeginAction preserves the invariant.
LEMMA StepBeginAction ==
  ASSUME RunInv, NEW ws, PlanOK(ws), BeginAction(ws)
  PROVE  RunInv' /\ AllPlain'
<1>1. /\ todo = <<>> /\ act' = TRUE /\ UNCHANGED <<disk, exec, proc, ctl, obs, lau, can, ask, hbrec, faults>>
      /\ ~act /\ ctl.pc = "off" /\ can.who = "-" /\ ~Planned
  BY Alone DEF BeginAction
<1>2. PICK i : i = [plan |-> ws, receipt |-> FALSE]
  OBVIOUS
<1>3. i \in actionIntent /\ i.plan = ws
  BY <1>2 DEF PlanOK, actionIntent
<1>4. PICK w : w = WriteIntent(i)
  OBVIOUS
<1>5. w \in ActWrites(ws)
  BY <1>3, <1>4, IntentWrite DEF ActWrites
<1>6. ws \in Seq(ActWrites(ws))
  <2>1. ws \in Seq(NodeWrites)
    BY DEF PlanOK
  <2>2. \A j \in DOMAIN ws : ws[j] \in ActWrites(ws)
    BY PlanElement
  <2> QED BY <2>1, <2>2
<1>7. PICK x : x = <<w>> \o ws
  OBVIOUS
<1>8. x \in Seq(ActWrites(ws))
  BY <1>5, <1>6, <1>7
<1>9. PICK s : s = x \o <<finalizeAction, WriteIntent(NoIntent)>>
  OBVIOUS
<1>10. s \in Seq(ActWrites(ws)) /\ s # <<>> /\ s[Len(s)] = WriteIntent(NoIntent)
  BY <1>8, <1>9, ActionEnd
<1>11. todo' = s
  BY <1>2, <1>4, <1>7, <1>9 DEF BeginAction
<1> QED BY <1>1, <1>10, <1>11, ActionBegins

\* ReplayAction preserves the invariant.
LEMMA StepReplayAction == ASSUME RunInv, ReplayAction PROVE RunInv' /\ AllPlain'
<1>1. ControlRules /\ TodoOK
  BY DEF RunInv, ControlOK
<1>2. /\ todo = <<>> /\ act' = TRUE /\ UNCHANGED <<disk, exec, proc, ctl, obs, lau, can, ask, hbrec, faults>>
      /\ ~act /\ ctl.pc = "off" /\ can.who = "-" /\ Planned
  BY <1>1 DEF ReplayAction, ReplayDue, Planned, ControlRules
<1>3. PICK plan : plan = intent.plan
  OBVIOUS
<1>4. PlanOK(plan)
  BY <1>1, <1>2, <1>3 DEF TodoOK, IntentOK
<1>5. plan \in Seq(ActWrites(plan))
  <2>1. plan \in Seq(NodeWrites)
    BY <1>4 DEF PlanOK
  <2>2. \A j \in DOMAIN plan : plan[j] \in ActWrites(plan)
    BY <1>4, PlanElement
  <2> QED BY <2>1, <2>2
<1>6. PICK s : s = plan \o <<finalizeAction, WriteIntent(NoIntent)>>
  OBVIOUS
<1>7. s \in Seq(ActWrites(plan)) /\ s # <<>> /\ s[Len(s)] = WriteIntent(NoIntent)
  BY <1>5, <1>6, ActionEnd
<1>8. todo' = s
  BY <1>3, <1>6 DEF ReplayAction
<1> QED BY <1>2, <1>3, <1>4, <1>7, <1>8, ActionBegins

\* DecideAgain preserves the invariant.
LEMMA StepDecideAgain == ASSUME RunInv, NEW n \in Node, DecideAgain(n) PROVE RunInv' /\ AllPlain'
<1>1. /\ todo = <<>> /\ act' = TRUE /\ UNCHANGED <<disk, exec, proc, ctl, obs, lau, can, ask, hbrec, faults>>
      /\ ~act /\ ctl.pc = "off" /\ can.who = "-" /\ ~Planned
  BY Alone DEF DecideAgain
<1>2. PICK plan : plan = <<>>
  OBVIOUS
<1>3. PlanOK(plan)
  BY <1>2, NoPlan
<1>4. PICK w : w = WriteRun(ActedRun)
  OBVIOUS
<1>5. w \in ActWrites(plan) /\ w.file = "run"
  BY <1>4, ActedWrite, RunWrite DEF ActWrites
<1>6. PICK s : s = <<w>>
  OBVIOUS
<1>7. s \in Seq(ActWrites(plan)) /\ \A i \in DOMAIN s : s[i].file # "intent"
  BY <1>5, <1>6
<1>8. todo' = s
  BY <1>4, <1>6 DEF DecideAgain
<1> QED BY <1>1, <1>3, <1>7, <1>8, ActionBegins

\* The action has a plan that can be applied.
Plans == \E plan : PlanOK(plan) /\ plan # <<>> /\ BeginAction(plan)

\* A decision has one.
LEMMA DecidePlans ==
  ASSUME RunInv, NEW n \in Node, NEW d \in {"approved", "rejected"}, Decide(n, d)
  PROVE  Plans
<1>1. FilesOK /\ n \notin Agent /\ node[n].phase = "waiting"
  BY DEF RunInv, Decide
<1>2. NodeOK(n, node[n]) /\ node[n] \in NodeSnapshot
  BY <1>1 DEF FilesOK
<1>3. PICK c \in {"succeeded", "rejected"} : c = IF d = "approved" THEN "succeeded" ELSE "rejected"
  OBVIOUS
<1>4. PICK v : v = [node[n] EXCEPT !.phase = "completed", !.reason = "none", !.result = d, !.concl = c]
  OBVIOUS
<1>5. v.phase = "completed" /\ v.att = node[n].att
  BY <1>2, <1>4 DEF NodeSnapshot
<1>6. v \in NodeSnapshot
  BY <1>2, <1>4 DEF NodeSnapshot, NodePhases, Reasons, Conclusions, Results
<1>7. NodeOK(n, v) /\ node[n].concl = "none"
  BY <1>1, <1>2, <1>5, <1>6 DEF NodeOK
<1>8. PICK w : w = WriteNode(n, v)
  OBVIOUS
<1>9. w \in NodeWrites /\ w.n = n /\ w.val = v
  BY <1>6, <1>8, NodeWrite
<1>10. PICK plan : plan = <<w>>
  OBVIOUS
<1>11. plan \in Seq(NodeWrites) /\ \A j \in DOMAIN plan : plan[j] = w
  BY <1>9, <1>10
<1>12. PlanOK(plan)
  BY <1>1, <1>5, <1>7, <1>9, <1>11 DEF PlanOK
<1>13. BeginAction(plan) /\ plan # <<>>
  BY <1>3, <1>4, <1>8, <1>10 DEF Decide
<1> QED BY <1>12, <1>13 DEF Plans

\* Decide preserves the invariant.
LEMMA StepDecide ==
  ASSUME RunInv, NEW n \in Node, NEW d \in {"approved", "rejected"}, Decide(n, d)
  PROVE  RunInv' /\ AllPlain'
  BY DecidePlans, StepBeginAction DEF Plans

\* The node that is reopened, and those that are reset with it.
ReopenedNode(n) == [node[n] EXCEPT !.phase = "ready", !.concl = "none", !.reason = "none", !.result = "none"]
\* A descendant that is pending again.
ResetNode(m) == [node[m] EXCEPT !.phase = "pending", !.reason = "none", !.concl = "none", !.result = "none"]
\* The node writes of a retry or an answer.
ReopenWrites(n) ==
  {w \in NodeWrites : \/ w.n = n /\ w.val = ReopenedNode(n)
                      \/ w.n # n /\ node[w.n].phase = "skipped" /\ w.val = ResetNode(w.n)}

\* What such a node is.
LEMMA ResetIs ==
  ASSUME FilesOK, NEW m \in Node, node[m].phase = "skipped"
  PROVE  /\ NodeOK(m, ResetNode(m)) /\ ResetNode(m).att = node[m].att /\ Unstarted(ResetNode(m))
         /\ node[m].concl = "none"
<1>1. NodeOK(m, node[m]) /\ node[m] \in NodeSnapshot
  BY DEF FilesOK
<1>2. PICK v : v = ResetNode(m)
  OBVIOUS
<1>3. v.phase = "pending" /\ v.concl = "none" /\ v.att = node[m].att
  BY <1>1, <1>2 DEF NodeSnapshot, ResetNode
<1>4. v \in NodeSnapshot
  BY <1>1, <1>2 DEF NodeSnapshot, NodePhases, Reasons, Conclusions, Results, ResetNode
<1>5. NodeOK(m, v) /\ node[m].concl = "none"
  BY <1>1, <1>3, <1>4 DEF NodeOK
<1> QED BY <1>2, <1>3, <1>5 DEF Unstarted

\* What the reopened node is.
LEMMA ReopenedIs ==
  ASSUME FilesOK, NEW n \in Node, node[n].att \in 1..MaxAttempts - 1
  PROVE  /\ NodeOK(n, ReopenedNode(n)) /\ ReopenedNode(n).att = node[n].att /\ Unstarted(ReopenedNode(n))
<1>1. NodeOK(n, node[n]) /\ node[n] \in NodeSnapshot /\ MaxAttempts \in Nat
  BY RunAssumption DEF FilesOK
<1>2. PICK v : v = ReopenedNode(n)
  OBVIOUS
<1>3. v.phase = "ready" /\ v.concl = "none" /\ v.att = node[n].att
  BY <1>1, <1>2 DEF NodeSnapshot, ReopenedNode
<1>4. v \in NodeSnapshot
  BY <1>1, <1>2 DEF NodeSnapshot, NodePhases, Reasons, Conclusions, Results, ReopenedNode
<1>5. NodeOK(n, v)
  BY <1>1, <1>3, <1>4 DEF NodeOK
<1> QED BY <1>2, <1>3, <1>5 DEF Unstarted

\* They are a plan that can be applied.
LEMMA ReopenPlan ==
  ASSUME FilesOK, NEW n \in Node, node[n].att \in 1..MaxAttempts - 1, node[n].concl # "succeeded",
         NEW plan \in Seq(ReopenWrites(n))
  PROVE  PlanOK(plan)
<1>1. \A j \in DOMAIN plan : plan[j] \in ReopenWrites(n)
  OBVIOUS
<1>2. plan \in Seq(NodeWrites)
  <2>1. ReopenWrites(n) \subseteq NodeWrites
    BY DEF ReopenWrites
  <2> QED BY <2>1
<1>3. ASSUME NEW w \in ReopenWrites(n)
      PROVE  /\ NodeOK(w.n, w.val) /\ w.val.att = node[w.n].att
             /\ Unstarted(w.val) /\ node[w.n].concl # "succeeded"
  <2>1. w.n \in Node
    BY DEF ReopenWrites, NodeWrites
  <2>2. CASE w.n = n /\ w.val = ReopenedNode(n)
    BY <2>2, ReopenedIs
  <2>3. CASE w.n # n /\ node[w.n].phase = "skipped" /\ w.val = ResetNode(w.n)
    BY <2>1, <2>3, ResetIs
  <2> QED BY <2>2, <2>3 DEF ReopenWrites
<1>4. \A w, x \in ReopenWrites(n) : w.n = x.n => w.val = x.val
  BY DEF ReopenWrites
<1> QED BY <1>1, <1>2, <1>3, <1>4 DEF PlanOK

\* So have a retry and an answer.
LEMMA ReopenPlans ==
  ASSUME RunInv, NEW n \in Node, node[n].concl # "succeeded", node[n].phase # "skipped", Reopen(n)
  PROVE  Plans
<1>1. FilesOK /\ node[n].att \in 1..MaxAttempts - 1
  BY DEF RunInv, Reopen
<1>2. PICK w : w = WriteNode(n, ReopenedNode(n))
  OBVIOUS
<1>3. w \in ReopenWrites(n)
  <2>1. ReopenedNode(n) \in NodeSnapshot
    BY <1>1, ReopenedIs DEF NodeOK
  <2>2. PICK v \in NodeSnapshot : v = ReopenedNode(n)
    BY <2>1
  <2>3. w \in NodeWrites /\ w.n = n /\ w.val = v
    BY <2>2, <1>2, NodeWrite
  <2> QED BY <2>2, <2>3 DEF ReopenWrites
<1>4. PICK S : S = {m \in Descendants(n) : node[m].phase = "skipped"}
  OBVIOUS
<1>5. PICK ns : ns = InOrder(S)
  OBVIOUS
<1>6. ns \in Seq(Node) /\ \A i \in DOMAIN ns : ns[i] \in S \cap Node
  BY <1>5, InOrderNodes
<1>7. PICK ss : ss = [i \in DOMAIN ns |-> <<WriteNode(ns[i], ResetNode(ns[i]))>>]
  OBVIOUS
<1>8. ASSUME NEW i \in DOMAIN ns PROVE ss[i] \in Seq(ReopenWrites(n))
  <2>1. PICK m : m = ns[i]
    OBVIOUS
  <2>2. m \in Node /\ node[m].phase = "skipped" /\ m # n
    BY <2>1, <1>4, <1>6
  <2>3. ResetNode(m) \in NodeSnapshot
    BY <2>2, <1>1, ResetIs DEF NodeOK
  <2>4. PICK v \in NodeSnapshot : v = ResetNode(m)
    BY <2>3
  <2>5. PICK x : x = WriteNode(m, v)
    OBVIOUS
  <2>6. x \in NodeWrites /\ x.n = m /\ x.val = v
    BY <2>2, <2>5, NodeWrite
  <2>7. x \in ReopenWrites(n)
    BY <2>2, <2>4, <2>6 DEF ReopenWrites
  <2>8. ss[i] = <<x>>
    BY <2>1, <2>4, <2>5, <1>7
  <2> QED BY <2>7, <2>8
<1>9. PICK N \in Nat : N = Len(ns) /\ DOMAIN ns = 1..N
  BY <1>6
<1>10. DOMAIN ss = 1..N /\ Len(ss) = N
  BY <1>7, <1>9
<1>11. Flatten(ss) \in Seq(ReopenWrites(n))
  BY <1>8, <1>9, <1>10, FlattenPieces
<1>12. planDownstreamReset(n) = Flatten(ss)
  BY <1>4, <1>5, <1>7 DEF planDownstreamReset, Each, ResetNode
<1>13. PICK plan : plan = <<w>> \o Flatten(ss)
  OBVIOUS
<1>14. plan \in Seq(ReopenWrites(n))
  BY <1>3, <1>11, <1>13
<1>15. PlanOK(plan)
  BY <1>1, <1>14, ReopenPlan
<1>16. BeginAction(plan)
  BY <1>2, <1>12, <1>13 DEF Reopen, ReopenedNode
<1>17. plan # <<>>
  <2>1. PICK x : x = <<w>>
    OBVIOUS
  <2>2. x \in Seq(ReopenWrites(n)) /\ Len(x) = 1
    BY <1>3, <2>1
  <2>3. Concats(plan, x, Flatten(ss))
    BY <1>11, <1>13, <2>1, <2>2, FromConcat
  <2>4. 1 \in 1..Len(plan)
    BY <2>2, <2>3 DEF Concats
  <2> QED BY <2>4, <1>14
<1> QED BY <1>15, <1>16, <1>17 DEF Plans

\* The node of a retry or of an answer has not succeeded.
LEMMA RetryPlans == ASSUME RunInv, NEW n \in Node, Retry(n) \/ Answer(n) PROVE Plans
<1>1. NodeOK(n, node[n])
  BY DEF RunInv, FilesOK
<1>2. node[n].concl # "succeeded" /\ node[n].phase # "skipped" /\ Reopen(n)
  BY <1>1 DEF Retry, Answer, NodeOK
<1> QED BY <1>2, ReopenPlans

\* Retry preserves the invariant.
LEMMA StepRetry == ASSUME RunInv, NEW n \in Node, Retry(n) \/ Answer(n) PROVE RunInv' /\ AllPlain'
  BY RetryPlans, StepBeginAction DEF Plans
-----------------------------------------------------------------------------
(***************************************************************************)
(* The next write is done.                                                 *)
(***************************************************************************)

\* The first write is gone.
Shifted == todo # <<>> /\ todo' = Tail(todo)

\* The writes that are left are those after the first.
LEMMA ShiftIs ==
  ASSUME todo \in Seq(Writes), Shifted
  PROVE  /\ todo' \in Seq(Writes) /\ todo[1] \in Writes /\ 1 \in DOMAIN todo /\ Head(todo) = todo[1]
         /\ \A i \in DOMAIN todo' : /\ i \in 1..Len(todo') /\ i + 1 \in DOMAIN todo /\ todo'[i] = todo[i + 1]
                                    /\ todo[i + 1] \in Writes
         /\ \A i \in DOMAIN todo : i > 1 => i \in Nat /\ i - 1 \in DOMAIN todo' /\ todo'[i - 1] = todo[i]
         /\ todo' # <<>> => todo'[Len(todo')] = todo[Len(todo)]
         /\ todo' = <<>> => todo[Len(todo)] = todo[1]
<1>1. /\ Len(todo) \in Nat /\ Len(todo) > 0 /\ DOMAIN todo = 1..Len(todo)
      /\ \A i \in 1..Len(todo) : todo[i] \in Writes
  BY DEF Shifted
<1>2. /\ todo' \in Seq(Writes) /\ Len(todo') = Len(todo) - 1 /\ DOMAIN todo' = 1..Len(todo')
      /\ \A i \in 1..Len(todo') : todo'[i] = todo[i + 1]
  BY <1>1 DEF Shifted
<1>3. todo[1] \in Writes /\ 1 \in DOMAIN todo /\ Head(todo) = todo[1]
  BY <1>1
<1>4. \A i \in DOMAIN todo' : /\ i \in 1..Len(todo') /\ i + 1 \in DOMAIN todo /\ todo'[i] = todo[i + 1]
                              /\ todo[i + 1] \in Writes
  BY <1>1, <1>2
<1>5. \A i \in DOMAIN todo : i > 1 => i \in Nat /\ i - 1 \in DOMAIN todo' /\ todo'[i - 1] = todo[i]
  BY <1>1, <1>2
<1>6. todo' # <<>> => todo'[Len(todo')] = todo[Len(todo)]
  <2> SUFFICES ASSUME todo' # <<>> PROVE todo'[Len(todo')] = todo[Len(todo)]
    OBVIOUS
  <2>1. PICK k : k = Len(todo')
    OBVIOUS
  <2>2. k \in Nat /\ k # 0 /\ k + 1 = Len(todo)
    BY <1>1, <1>2, <2>1
  <2>3. todo'[k] = todo[k + 1]
    BY <1>2, <2>1, <2>2
  <2> QED BY <2>1, <2>2, <2>3
<1>7. todo' = <<>> => todo[Len(todo)] = todo[1]
  <2>1. todo' = <<>> => Len(todo') = 0
    OBVIOUS
  <2>2. PICK k : k = Len(todo)
    OBVIOUS
  <2>3. k \in Nat /\ Len(todo') = k - 1
    BY <1>1, <1>2, <2>2
  <2>4. todo' = <<>> => k = 1
    BY <2>1, <2>3
  <2> QED BY <2>2, <2>4
<1> QED BY <1>2, <1>3, <1>4, <1>5, <1>6, <1>7

\* The writes that are left agree,
LEMMA AgreeLeft ==
  ASSUME TodoOK, Shifted, act' = act
  PROVE  AgreeOK'
<1>1. todo \in Seq(Writes) /\ AgreeOK
  BY DEF TodoOK
<1>2. \A i \in DOMAIN todo' : i + 1 \in DOMAIN todo /\ todo'[i] = todo[i + 1]
  BY <1>1, ShiftIs
<1> QED BY <1>1, <1>2 DEF AgreeOK

\* and they agree with every plan they agreed with.
LEMMA AppliesLeft ==
  ASSUME TodoOK, Shifted, NEW plan, AppliesTo(plan)
  PROVE  AppliesTo(plan)'
<1>1. \A i \in DOMAIN todo' : i + 1 \in DOMAIN todo /\ todo'[i] = todo[i + 1]
  BY ShiftIs DEF TodoOK
<1> QED BY <1>1 DEF AppliesTo

\* The intent is written, or the action recorded; and its plan can be applied
\* as before.
LEMMA IntentLeft ==
  ASSUME TodoOK, Shifted, act' = act,
         \/ intent' = intent /\ todo[1].file # "intent"
         \/ intent' = todo[1].val /\ todo[1].file = "intent"
         \/ intent' \in actionIntent /\ ~Planned',
         \A plan : PlanOK(plan) /\ AppliesTo(plan) => PlanOK(plan)'
  PROVE  IntentOK'
<1>1. todo \in Seq(Writes) /\ IntentOK /\ WriteOK(1) /\ todo[1] \in Writes
  BY ShiftIs DEF TodoOK
<1>2. \A i \in DOMAIN todo' : i + 1 \in DOMAIN todo /\ todo'[i] = todo[i + 1]
  BY <1>1, ShiftIs
<1>3. intent' \in actionIntent
  BY <1>1, WriteKinds DEF IntentOK
<1>4. \A i \in DOMAIN todo' : todo'[i].file = "intent" => AppliesTo(todo[i].val.plan)'
  <2> SUFFICES ASSUME NEW i \in DOMAIN todo', todo'[i].file = "intent" PROVE AppliesTo(todo[i].val.plan)'
    OBVIOUS
  <2>1. PICK plan : plan = todo[i + 1].val.plan
    OBVIOUS
  <2>2. AppliesTo(plan)
    BY <1>1, <1>2, <2>1 DEF IntentOK
  <2>3. AppliesTo(plan)' /\ todo'[i].val.plan = plan
    BY <1>2, <2>1, <2>2, AppliesLeft
  <2> QED BY <2>3
<1>5. Planned' => PlanOK(intent.plan)' /\ AppliesTo(intent.plan)'
  <2> SUFFICES ASSUME Planned' PROVE PlanOK(intent.plan)' /\ AppliesTo(intent.plan)'
    OBVIOUS
  <2>1. PICK plan : plan = intent'.plan
    OBVIOUS
  <2>2. PlanOK(plan) /\ AppliesTo(plan)
    <3>1. CASE intent' = intent
      BY <3>1, <1>1, <2>1 DEF IntentOK, Planned
    <3>2. CASE intent' = todo[1].val /\ todo[1].file = "intent"
      <4>1. AppliesTo(plan)
        BY <3>2, <1>1, <2>1, ShiftIs DEF IntentOK
      <4>2. PlanOK(plan)
        BY <3>2, <1>1, <2>1 DEF WriteOK, PlainOK, NewOK, CreatesOK
      <4> QED BY <4>1, <4>2
    <3> QED BY <3>1, <3>2
  <2>3. PlanOK(plan)' /\ AppliesTo(plan)'
    BY <2>2, AppliesLeft
  <2> QED BY <2>1, <2>3
<1>6. (act' /\ Planned') \/ (\E i \in DOMAIN todo' : todo'[i].file = "intent") =>
        todo' # <<>> /\ todo'[Len(todo')] = WriteIntent(NoIntent)
  <2> SUFFICES ASSUME (act' /\ Planned') \/ (\E i \in DOMAIN todo' : todo'[i].file = "intent")
               PROVE  todo' # <<>> /\ todo'[Len(todo')] = WriteIntent(NoIntent)
    OBVIOUS
  <2>1. (act /\ Planned) \/ \E i \in DOMAIN todo : todo[i].file = "intent"
    <3>1. CASE act' /\ Planned' /\ intent' = intent
      BY <3>1 DEF Planned
    <3>2. CASE todo[1].file = "intent"
      BY <3>2, <1>1, ShiftIs
    <3>3. CASE \E i \in DOMAIN todo' : todo'[i].file = "intent"
      BY <3>3, <1>2
    <3> QED BY <3>1, <3>2, <3>3
  <2>2. todo[Len(todo)] = WriteIntent(NoIntent)
    BY <2>1, <1>1 DEF IntentOK
  <2>3. CASE todo' = <<>>
    <3>1. todo[1] = WriteIntent(NoIntent)
      BY <2>2, <2>3, <1>1, ShiftIs
    <3>2. todo[1].file = "intent" /\ todo[1].val = NoIntent
      BY <3>1 DEF WriteIntent
    <3>3. ~Planned'
      BY <3>2, NoIntentIs DEF Planned
    <3> QED BY <3>3, <2>3, NoElement
  <2>4. CASE todo' # <<>>
    BY <2>2, <2>4, <1>1, ShiftIs
  <2> QED BY <2>3, <2>4
<1> QED BY <1>3, <1>4, <1>5, <1>6 DEF IntentOK
-----------------------------------------------------------------------------
\* What a write may do to the snapshot of an Attempt.
AttemptKeeps(n, k) ==
  attempt[n][k] # NoAttempt =>
    LET at == attempt'[n][k]
    IN  /\ at \in AttemptSnapshot /\ at.launch = attempt[n][k].launch /\ at.handle = attempt[n][k].handle
        /\ \/ at = attempt[n][k]
           \/ /\ at.phase = "completed" => Unlaunched(n, k)
              /\ ~Open(at.concl) \/ (at.phase = "completed" /\ at.handle) => Over(n, k)

\* The write of a file that is not a node's.
Beside ==
  /\ Shifted /\ UNCHANGED <<node, exec, proc, obs, can, ask, act, hbrec, faults, ctl, lau>>
  /\ todo[1].file # "node"
  /\ run' = run \/ (run' = todo[1].val /\ todo[1].file \in {"run", "acted"} /\ PlainOK(todo[1]))
  /\ run' \in WorkflowSnapshot /\ req' \in CancelRequest
  /\ attempt' \in [Agent -> [1..MaxAttempts -> AttemptSnapshot \cup {NoAttempt}]]
  /\ \A n \in Agent, k \in 1..MaxAttempts : AttemptKeeps(n, k)
  /\ todo[1].file = "new" => attempt'[todo[1].n][todo[1].k] = todo[1].val
  /\ intent' # intent => act
  /\ \/ intent' = intent /\ todo[1].file # "intent"
     \/ intent' = todo[1].val /\ todo[1].file = "intent"
     \/ intent' \in actionIntent /\ ~Planned'

\* Write does that for every file but a node's, unless the Attempt exists.
LEMMA WriteBeside ==
  ASSUME RunInv, Write, todo[1].file # "node",
         ~(todo[1].file = "new" /\ attempt[todo[1].n][todo[1].k] # NoAttempt)
  PROVE  Beside
<1>0. PICK w : w = todo[1]
  OBVIOUS
<1>1. TodoOK /\ todo \in Seq(Writes) /\ FilesOK
  BY DEF RunInv, TodoOK
<1>2. Shifted /\ w = Head(todo)
  <2>1. Head(todo) = todo[1]
    BY <1>1 DEF Write
  <2>2. todo # <<>> /\ todo' = Tail(todo)
    BY <2>1 DEF Write
  <2> QED BY <1>0, <2>1, <2>2 DEF Shifted
<1>3. w \in Writes /\ WriteOK(1)
  BY <1>0, <1>1, <1>2, ShiftIs DEF TodoOK
<1>4. UNCHANGED <<node, exec, proc, obs, can, ask, act, hbrec, faults, ctl, lau>>
  BY <1>0, <1>2 DEF Write
<1>5. run' = run \/ (run' = w.val /\ w.file \in {"run", "acted"} /\ PlainOK(w))
  BY <1>0, <1>2, <1>3 DEF Write, WriteOK, NewOK, CreatesOK
<1>6. run' \in WorkflowSnapshot /\ req' \in CancelRequest
  <2>1. run' \in WorkflowSnapshot
    BY <1>1, <1>3, <1>5, WriteKinds DEF FilesOK
  <2>2. req' = req \/ req' = Outdate(req)
    BY DEF Write
  <2> QED BY <2>1, <2>2, <1>1, OutdateType DEF FilesOK
<1>7. /\ attempt' \in [Agent -> [1..MaxAttempts -> AttemptSnapshot \cup {NoAttempt}]]
      /\ \A n \in Agent, k \in 1..MaxAttempts : AttemptKeeps(n, k)
      /\ w.file = "new" => attempt'[w.n][w.k] = w.val
  <2>1. CASE w.file \in {"new", "attempt"}
    <3>1. w.n \in Agent /\ w.k \in 1..MaxAttempts /\ w.val \in AttemptSnapshot
      BY <1>3, <2>1, WriteKinds
    <3> DEFINE h == [attempt[w.n] EXCEPT ![w.k] = w.val]
    <3>2. attempt' = [attempt EXCEPT ![w.n] = h]
      BY <1>0, <1>2, <2>1 DEF Write
    <3>3. h \in [1..MaxAttempts -> AttemptSnapshot \cup {NoAttempt}] /\ h[w.k] = w.val
          /\ \A k \in 1..MaxAttempts : k # w.k => h[k] = attempt[w.n][k]
      BY <1>1, <3>1 DEF FilesOK
    <3> HIDE DEF h
    <3>4. attempt' \in [Agent -> [1..MaxAttempts -> AttemptSnapshot \cup {NoAttempt}]]
          /\ attempt'[w.n] = h /\ \A n \in Agent : n # w.n => attempt'[n] = attempt[n]
      BY <1>1, <3>1, <3>2, <3>3 DEF FilesOK
    <3>5. ASSUME NEW n \in Agent, NEW k \in 1..MaxAttempts PROVE AttemptKeeps(n, k)
      <4>0. attempt[n][k] \in AttemptSnapshot \cup {NoAttempt}
        BY <1>1 DEF FilesOK
      <4>1. CASE n = w.n /\ k = w.k /\ w.file = "attempt"
        <5>1. AttemptWriteOK(w)
          BY <4>1, <1>0, <1>3 DEF WriteOK, NewOK, CreatesOK, PlainOK
        <5>2. attempt'[n][k] = w.val
          BY <4>1, <3>3, <3>4
        <5> QED BY <4>1, <5>1, <5>2, <3>1 DEF AttemptWriteOK, AttemptKeeps
      <4>2. CASE n = w.n /\ k = w.k /\ w.file = "new"
        BY <4>2, <1>0 DEF AttemptKeeps
      <4>3. CASE ~(n = w.n /\ k = w.k)
        BY <4>0, <4>3, <3>3, <3>4 DEF AttemptKeeps
      <4> QED BY <4>1, <4>2, <4>3, <2>1
    <3>6. w.file = "new" => attempt'[w.n][w.k] = w.val
      BY <3>3, <3>4
    <3> QED BY <3>4, <3>5, <3>6
  <2>2. CASE w.file \notin {"new", "attempt"}
    <3>1. attempt' = attempt
      BY <1>0, <1>2, <2>2 DEF Write
    <3>2. \A n \in Agent, k \in 1..MaxAttempts : attempt[n][k] \in AttemptSnapshot \cup {NoAttempt}
      BY <1>1 DEF FilesOK
    <3> QED BY <1>1, <3>1, <3>2, <2>2 DEF FilesOK, AttemptKeeps
  <2> QED BY <2>1, <2>2
<1>8. /\ intent' # intent => act
      /\ \/ intent' = intent /\ w.file # "intent"
         \/ intent' = w.val /\ w.file = "intent"
         \/ intent' \in actionIntent /\ ~Planned'
  <2>1. CASE w.file = "intent"
    <3>1. act
      BY <2>1, <1>0, <1>3 DEF WriteOK, NewOK, CreatesOK, PlainOK
    <3>2. intent' = w.val
      BY <2>1, <1>2 DEF Write
    <3> QED BY <2>1, <3>1, <3>2
  <2>2. CASE w.file = "acted"
    <3>1. act
      BY <2>2, <1>0, <1>3 DEF WriteOK, NewOK, CreatesOK, PlainOK
    <3>2. intent' = [intent EXCEPT !.receipt = TRUE]
      BY <2>2, <1>2 DEF Write
    <3>3. intent \in actionIntent
      BY <1>1 DEF TodoOK, IntentOK
    <3>4. intent' \in actionIntent /\ intent'.receipt = TRUE
      BY <3>2, <3>3 DEF actionIntent
    <3> QED BY <3>1, <3>4 DEF Planned
  <2>3. CASE w.file \notin {"intent", "acted"}
    BY <2>3, <1>2 DEF Write
  <2> QED BY <2>1, <2>2, <2>3
<1> QED BY <1>0, <1>2, <1>4, <1>5, <1>6, <1>7, <1>8 DEF Beside

\* What is over stays over: only an action revokes a cancellation, and then
\* nothing is being launched.
LEMMA BesideEnds ==
  ASSUME RunInv, Beside
  PROVE  /\ lau = NoLaunch \/ (run.cancel => run'.cancel)
         /\ \A n \in Agent, k \in 1..MaxAttempts : Unlaunched(n, k) => Unlaunched(n, k)'
         /\ \A n \in Agent, k \in 1..MaxAttempts : Over(n, k) => Over(n, k)'
<1>1. act => lau = NoLaunch
  BY DEF RunInv, ControlOK, ControlRules
<1>2. act \/ (run.cancel => run'.cancel)
  BY DEF Beside, PlainOK
<1>3. \A n \in Agent, k \in 1..MaxAttempts : Unlaunched(n, k) => Unlaunched(n, k)'
  <2>1. CASE lau = NoLaunch
    BY <2>1, NoLaunchIs DEF Unlaunched, Beside, Dispatched
  <2>2. CASE run.cancel => run'.cancel
    BY <2>2 DEF Unlaunched, Beside
  <2> QED BY <1>1, <1>2, <2>1, <2>2
<1>4. \A n \in Agent, k \in 1..MaxAttempts : Over(n, k) => Over(n, k)'
  BY <1>3 DEF Over, Beside
<1> QED BY <1>1, <1>2, <1>3, <1>4
-----------------------------------------------------------------------------
\* A launch that is to come stays so, unless its node is written now.
LEMMA CreatesLeft ==
  ASSUME RunInv, Beside, NEW i \in DOMAIN todo, i > 1, CreatesOK(i)
  PROVE  CreatesOK(i - 1)'
<1>0. PICK v : v = todo[i]
  OBVIOUS
<1>1. /\ v.file = "node" /\ v.n \in Agent /\ NodeOK(v.n, v.val)
      /\ Unstarted(node[v.n]) /\ DepsOver(v.n)
      /\ v.val.att = node[v.n].att + 1 /\ v.val.phase = "running" /\ v.val.concl = "none"
      /\ lau[v.n] = "begin" /\ todo[i - 1] = CreateAttempt(v.n, v.val.att, Prepared)
  BY <1>0 DEF CreatesOK
<1>2. todo \in Seq(Writes) /\ i \in Nat /\ i - 1 \in DOMAIN todo'  /\ todo'[i - 1] = v
  BY <1>0, ShiftIs DEF RunInv, TodoOK, Beside
<1>3. NodeOK(v.n, v.val)' /\ Unstarted(node'[v.n]) /\ DepsOver(v.n)' /\ v.val.att = node'[v.n].att + 1
      /\ lau'[v.n] = "begin"
  BY <1>1 DEF Beside, NodeOK, DepsOver
<1>4. PICK k : k = i - 1
  OBVIOUS
<1>5. k \in Nat /\ k >= 1 /\ k \in DOMAIN todo /\ todo[k] = CreateAttempt(v.n, v.val.att, Prepared)
  <2>1. k \in DOMAIN todo
    BY <1>2, <1>4
  <2> QED BY <1>1, <1>2, <1>4, <2>1
<1>6. CASE k = 1
  <2>1. v.val.att \in 1..MaxAttempts /\ Prepared \in AttemptSnapshot
    BY <1>1, PreparedIs DEF NodeOK
  <2>2. todo[1].file = "new" /\ todo[1].n = v.n /\ todo[1].k = v.val.att /\ todo[1].val = Prepared
    BY <1>5, <1>6 DEF CreateAttempt
  <2>3. attempt'[v.n][v.val.att] = Prepared
    BY <2>2 DEF Beside
  <2>4. CreatesOK(k)'
    BY <1>1, <1>2, <1>3, <1>4, <1>6, <2>3 DEF CreatesOK
  <2> QED BY <1>4, <2>4
<1>7. CASE k > 1
  <2>1. k - 1 \in DOMAIN todo' /\ todo'[k - 1] = todo[k]
    BY <1>2, <1>5, <1>7, ShiftIs DEF Beside
  <2>2. CreatesOK(k)'
    BY <1>1, <1>2, <1>3, <1>4, <1>5, <1>7, <2>1 DEF CreatesOK
  <2> QED BY <1>4, <2>2
<1> QED BY <1>5, <1>6, <1>7

\* The plain writes that are left stay right.
LEMMA PlainLeft ==
  ASSUME RunInv, Beside, NEW w \in Writes, PlainOK(w),
         ~act /\ run' # run /\ w.file = "run" => w.val.cancel = run'.cancel
  PROVE  PlainOK(w)'
<1>1. w.file = "node" /\ w.n \in Agent => w.val.att \in 1..MaxAttempts \/ Open(w.val.concl)
  BY DEF PlainOK, NodeWriteOK, NodeOK, Open
<1>2. w.file = "node" => NodeWriteOK(w)'
  <2> SUFFICES ASSUME w.file = "node" PROVE NodeWriteOK(w)'
    OBVIOUS
  <2>1. NodeWriteOK(w)
    BY DEF PlainOK
  <2>2. NodeOK(w.n, w.val)' /\ w.val.att = node'[w.n].att
    BY <2>1 DEF NodeWriteOK, NodeOK, Beside
  <2>3. w.n \in Agent /\ ~Open(w.val.concl) => Over(w.n, w.val.att)'
    BY <2>1, <1>1, BesideEnds DEF NodeWriteOK
  <2>4. w.n \in Agent /\ Busy(w.n)' => act' \/ w.val.phase \in BusyPhases
    BY <2>1 DEF NodeWriteOK, Beside, Busy
  <2>5. node'[w.n].concl = "succeeded" => w.val = node'[w.n]
    BY <2>1 DEF NodeWriteOK, Beside
  <2>6. w.n \in Agent /\ w.val.phase \in {"running", "waiting"} => Active(w.n, node)' \/ can'.out[w.n] # "-"
    BY <2>1 DEF NodeWriteOK, Beside, Active
  <2> QED BY <2>2, <2>3, <2>4, <2>5, <2>6 DEF NodeWriteOK, Open
<1>3. w.file = "attempt" => AttemptWriteOK(w)'
  <2> SUFFICES ASSUME w.file = "attempt" PROVE AttemptWriteOK(w)'
    OBVIOUS
  <2>1. AttemptWriteOK(w) /\ w.n \in Agent /\ w.k \in 1..MaxAttempts
    BY WriteKinds DEF PlainOK
  <2>2. AttemptKeeps(w.n, w.k) /\ attempt[w.n][w.k] \in AttemptSnapshot /\ attempt[w.n][w.k] # NoAttempt
    BY <2>1, FileAssumption DEF Beside, AttemptWriteOK
  <2>3. /\ attempt'[w.n][w.k] \in AttemptSnapshot
        /\ attempt'[w.n][w.k].launch = attempt[w.n][w.k].launch
        /\ attempt'[w.n][w.k].handle = attempt[w.n][w.k].handle
    BY <2>2 DEF AttemptKeeps
  <2>4. /\ Unlaunched(w.n, w.k) => Unlaunched(w.n, w.k)'
        /\ Over(w.n, w.k) => Over(w.n, w.k)'
    BY <2>1, BesideEnds
  <2> QED BY <2>1, <2>3, <2>4 DEF AttemptWriteOK, Open
<1>4. w.file = "intent" => PlanOK(w.val.plan)'
  <2> SUFFICES ASSUME w.file = "intent" PROVE PlanOK(w.val.plan)'
    OBVIOUS
  <2>1. PlanOK(w.val.plan) /\ UNCHANGED node
    BY DEF PlainOK, Beside
  <2> QED BY <2>1, PlanKept
<1>5. act' = act
  BY DEF Beside
<1>6. w.file \in {"run", "acted"} /\ run'.cancel => w.val.cancel \/ act'
  BY <1>5 DEF PlainOK
<1> QED BY <1>2, <1>3, <1>4, <1>5, <1>6 DEF PlainOK

\* All writes that are left stay right.
LEMMA TodoLeft == ASSUME RunInv, Beside PROVE TodoOK'
<1>1. TodoOK /\ todo \in Seq(Writes) /\ Shifted /\ act' = act /\ AgreeOK /\ UNCHANGED node
  BY DEF RunInv, TodoOK, Beside
<1>2. todo' \in Seq(Writes) /\ AgreeOK'
  BY <1>1, ShiftIs, AgreeLeft
<1>3. IntentOK'
  <2>1. \A plan : PlanOK(plan) /\ AppliesTo(plan) => PlanOK(plan)'
    BY <1>1, PlanKept
  <2> QED BY <1>1, <2>1, IntentLeft DEF Beside
<1>4. BatchOK => BatchOK'
  <2>1. \A i \in DOMAIN todo' : i + 1 \in DOMAIN todo /\ todo'[i] = todo[i + 1]
    BY <1>1, ShiftIs
  <2> QED BY <2>1 DEF BatchOK, Beside
<1>5. ASSUME NEW i \in DOMAIN todo' PROVE WriteOK(i)'
  <2>1. PICK v : v = todo[i + 1]
    OBVIOUS
  <2>2. todo'[i] = v /\ i + 1 \in DOMAIN todo /\ v \in Writes /\ i \in Nat /\ i >= 1
    BY <1>1, <2>1, ShiftIs
  <2>3. PICK j : j = i + 1
    OBVIOUS
  <2>4. j > 1 /\ j \in DOMAIN todo /\ todo[j] = v /\ j - 1 = i /\ WriteOK(j)
    BY <2>1, <2>2, <2>3, <1>1 DEF TodoOK
  <2>5. CASE PlainOK(v)
    <3>1. ~act /\ run' # run /\ v.file = "run" => v.val.cancel = run'.cancel
      <4> SUFFICES ASSUME ~act, run' # run, v.file = "run" PROVE v.val.cancel = run'.cancel
        OBVIOUS
      <4>1. todo[1].file = "run" /\ run' = todo[1].val
        BY DEF Beside, PlainOK
      <4>2. 1 \in DOMAIN todo
        BY <1>1, ShiftIs
      <4> QED BY <4>1, <4>2, <2>4, <1>1 DEF AgreeOK
    <3>2. PlainOK(v)'
      BY <2>2, <2>5, <3>1, PlainLeft
    <3> QED BY <3>2, <2>2 DEF WriteOK
  <2>6. CASE BatchOK /\ NewOK(v)
    BY <2>6, <2>2, <1>4 DEF WriteOK, NewOK
  <2>7. CASE BatchOK /\ CreatesOK(j)
    <3>1. CreatesOK(j - 1)'
      BY <2>4, <2>7, CreatesLeft
    <3>2. CreatesOK(i)'
      BY <3>1, <2>4
    <3> QED BY <3>2, <2>7, <1>4 DEF WriteOK
  <2> QED BY <2>4, <2>5, <2>6, <2>7 DEF WriteOK
<1> QED BY <1>2, <1>3, <1>5 DEF TodoOK
-----------------------------------------------------------------------------
\* The current Attempt of a node keeps its launch state and its handle.
LEMMA CurrentLeft ==
  ASSUME RunInv, Beside, NEW n \in Agent, node[n].att > 0
  PROVE  /\ node[n].att \in 1..MaxAttempts /\ Current(n) \in AttemptSnapshot
         /\ AttemptKeeps(n, node[n].att)
         /\ Current(n)' = attempt'[n][node[n].att]
         /\ Current(n)' \in AttemptSnapshot /\ Current(n)'.launch = Current(n).launch
         /\ Current(n)'.handle = Current(n).handle
<1>1. FilesOK /\ n \in Node
  BY WorkflowAssumption DEF RunInv
<1>2. node[n].att \in 1..MaxAttempts /\ Current(n) \in AttemptSnapshot
  BY <1>1 DEF FilesOK, NodeOK
<1>3. AttemptKeeps(n, node[n].att) /\ Current(n) # NoAttempt
  BY <1>2, FileAssumption DEF Beside
<1>4. Current(n)' = attempt'[n][node[n].att] /\ Current(n) = attempt[n][node[n].att]
  BY DEF Current, Beside
<1> QED BY <1>2, <1>3, <1>4 DEF AttemptKeeps

\* What is said of a node stays so.
LEMMA UntouchedLeft ==
  ASSUME RunInv, Beside, NEW n
  PROVE  /\ Untouched(n) => Untouched(n)'
         /\ Unsucceeded(n) => Unsucceeded(n)'
         /\ Busy(n)' = Busy(n)
<1>1. \A i \in DOMAIN todo' : i + 1 \in DOMAIN todo /\ todo'[i] = todo[i + 1]
  BY ShiftIs DEF RunInv, TodoOK, Beside
<1>2. UNCHANGED node
  BY DEF Beside
<1> QED BY <1>1, <1>2 DEF Untouched, Unsucceeded, Busy, Active

\* An Attempt that is still to come stays so.
LEMMA ComingLeft == ASSUME RunInv, Beside, NEW n, Coming(n) PROVE Coming(n)'
<1>1. PICK i \in DOMAIN todo : CreatesOK(i) /\ todo[i].n = n
  BY DEF Coming
<1>2. i > 1
  <2>1. todo[i].file = "node" /\ todo[1].file # "node" /\ i \in Nat /\ i >= 1
    BY <1>1 DEF CreatesOK, Beside, RunInv, TodoOK
  <2> QED BY <2>1
<1>3. CreatesOK(i - 1)'
  BY <1>1, <1>2, CreatesLeft
<1>4. i - 1 \in DOMAIN todo' /\ todo'[i - 1] = todo[i]
  BY <1>2, ShiftIs DEF RunInv, TodoOK, Beside
<1> QED BY <1>1, <1>3, <1>4 DEF Coming

\* The threads agree with the snapshots after the write.
LEMMA BesideThreads == ASSUME RunInv, Beside PROVE ThreadsOK'
<1>1. ThreadsOK /\ FilesOK /\ ControlRules
  BY DEF RunInv, ControlOK
<1>2. /\ lau = NoLaunch \/ (run.cancel => run'.cancel)
      /\ \A n \in Agent, k \in 1..MaxAttempts : Over(n, k) => Over(n, k)'
  BY BesideEnds
<1>3. act \/ (run.cancel => run'.cancel)
  BY DEF Beside, PlainOK
<1>4. LaunchesOK'
  <2> SUFFICES ASSUME NEW n \in Agent PROVE LaunchOK(n)'
    BY DEF LaunchesOK
  <2>1. LaunchOK(n)
    BY <1>1 DEF ThreadsOK, LaunchesOK
  <2>2. UNCHANGED <<node, lau, ctl>>
    BY DEF Beside
  <2>3. CASE lau = NoLaunch
    BY <2>2, <2>3, NoLaunchIs DEF LaunchOK, Dispatched
  <2>4. CASE run.cancel => run'.cancel
    <3>1. (Coming(n) => Coming(n)') /\ (Untouched(n) => Untouched(n)')
      BY ComingLeft, UntouchedLeft
    <3>2. CASE node[n].att > 0
      <4>1. /\ Current(n)'.launch = Current(n).launch /\ Current(n)'.handle = Current(n).handle
            /\ AttemptKeeps(n, node[n].att) /\ Current(n)' = attempt'[n][node[n].att]
            /\ Current(n) \in AttemptSnapshot
        BY <3>2, CurrentLeft
      <4>2. Startable(n) => Startable(n)' \/ Unlaunched(n, node[n].att)
        <5>1. Current(n) = attempt[n][node[n].att] /\ Current(n) # NoAttempt
          BY <4>1, FileAssumption DEF Current
        <5>2. \/ Current(n)' = Current(n)
              \/ Unlaunched(n, node[n].att)
              \/ Current(n)'.phase # "completed" /\ Open(Current(n)'.concl)
          BY <4>1, <5>1 DEF AttemptKeeps, Over
        <5> QED BY <5>2, <2>2 DEF Startable, Open
      <4>3. Unlaunched(n, node[n].att) => /\ lau[n] \notin Dispatched
                                          /\ lau[n] = "begin" => ctl.stopping \/ run.cancel
        BY DEF Unlaunched
      <4> QED BY <2>1, <2>2, <2>4, <3>1, <4>1, <4>2, <4>3 DEF LaunchOK
    <3>3. CASE ~(node[n].att > 0)
      <4>1. lau[n] \in {"-", "begin"} /\ (lau[n] = "begin" => Coming(n))
        BY <3>3, <2>1 DEF LaunchOK
      <4> QED BY <4>1, <3>1, <2>2 DEF LaunchOK, Dispatched
    <3> QED BY <3>2, <3>3
  <2> QED BY <1>2, <2>3, <2>4
<1>5. ObservationsOK'
  <2> SUFFICES ASSUME NEW n \in Agent, ctl'.pc = "observe", obs'[n] # "-" PROVE ObservedOK(n)'
    BY DEF ObservationsOK, ObservedOK
  <2>1. ObservedOK(n) /\ UNCHANGED <<node, ctl, obs, exec>>
    BY <1>1 DEF ThreadsOK, ObservationsOK, Beside
  <2>2. ~act /\ node[n].att > 0
    BY <2>1, <1>1 DEF ControlRules, ObservedOK
  <2>3. Current(n)'.handle = Current(n).handle
    BY <2>2, CurrentLeft
  <2>4. Execution(n)' = Execution(n)
    BY <2>1 DEF Execution
  <2>5. Untouched(n) => Untouched(n)'
    BY UntouchedLeft
  <2> QED BY <1>3, <2>1, <2>2, <2>3, <2>4, <2>5 DEF ObservedOK
<1>6. TargetsOK'
  <2> SUFFICES ASSUME NEW n \in Agent, can'.out[n] # "-" PROVE TargetOK(n)'
    BY DEF TargetsOK, TargetOK
  <2>1. TargetOK(n) /\ UNCHANGED <<node, can>>
    BY <1>1 DEF ThreadsOK, TargetsOK, Beside
  <2>2. ~act
    BY <1>1, <2>1 DEF ControlRules
  <2>3. (Unsucceeded(n) => Unsucceeded(n)') /\ Busy(n)' = Busy(n)
    BY UntouchedLeft
  <2>4. Busy(n) => node[n].att \in 1..MaxAttempts
    <3>1. n \in Node /\ NodeOK(n, node[n])
      BY <1>1, WorkflowAssumption DEF FilesOK
    <3> QED BY <3>1 DEF NodeOK, Busy, BusyPhases
  <2> QED BY <1>2, <1>3, <2>1, <2>2, <2>3, <2>4 DEF TargetOK
<1>7. RecoverOK'
  <2>1. RecoverOK /\ UNCHANGED <<node, ctl, exec>>
    BY <1>1 DEF ThreadsOK, Beside
  <2>2. PICK n : n = ctl.target
    OBVIOUS
  <2>3. (Unsucceeded(n) => Unsucceeded(n)') /\ Busy(n)' = Busy(n)
    BY UntouchedLeft
  <2>4. Execution(n)' = Execution(n)
    BY <2>1 DEF Execution
  <2> QED BY <2>1, <2>2, <2>3, <2>4 DEF RecoverOK
<1>8. ExecutionsOK'
  <2> SUFFICES ASSUME NEW n \in Agent, NEW k \in 1..MaxAttempts, exec'[n][k] = "live" PROVE ExecOK(n, k)'
    BY DEF ExecutionsOK, ExecOK
  <2>1. ExecOK(n, k) /\ UNCHANGED <<node, exec>> /\ AttemptKeeps(n, k)
    BY <1>1 DEF ThreadsOK, ExecutionsOK, Beside
  <2>2. /\ attempt[n][k] # NoAttempt /\ attempt[n][k].launch # "prepared" /\ Open(attempt[n][k].concl)
        /\ node[n].att = k => Open(node[n].concl)
        /\ attempt[n][k].handle => attempt[n][k].phase # "completed"
    BY <2>1 DEF ExecOK
  <2>3. ~Over(n, k)
    BY <2>1 DEF Over
  <2>4. PICK at : at = attempt'[n][k]
    OBVIOUS
  <2>5. /\ at # NoAttempt /\ at.launch # "prepared" /\ Open(at.concl)
        /\ at.handle => at.phase # "completed"
    BY <2>1, <2>2, <2>3, <2>4, FileAssumption DEF AttemptKeeps
  <2> QED BY <2>1, <2>2, <2>4, <2>5 DEF ExecOK, Open
<1> QED BY <1>4, <1>5, <1>6, <1>7, <1>8 DEF ThreadsOK

\* Such a write preserves the invariant.
LEMMA StepBeside == ASSUME RunInv, Beside PROVE RunInv'
<1>1. FilesOK'
  <2>1. FilesOK /\ UNCHANGED <<node, exec>>
    BY DEF RunInv, Beside
  <2>2. \A n \in Agent : node'[n].att > 0 => Current(n)' \in AttemptSnapshot
    BY <2>1, CurrentLeft
  <2> QED BY <2>1, <2>2 DEF FilesOK, NodeOK, Beside
<1>2. ControlOK'
  <2>1. ThreadTypes /\ ControlRules /\ todo # <<>>
    BY DEF RunInv, ControlOK, Beside, Shifted
  <2>2. ThreadTypes'
    BY <2>1 DEF ThreadTypes, Beside
  <2>3. ~(Planned' /\ ~act')
    <3>1. CASE act
      BY <3>1 DEF Beside
    <3>2. CASE ~act
      BY <3>2, <2>1 DEF Beside, ControlRules, Planned
    <3> QED BY <3>1, <3>2
  <2>4. ControlRules'
    BY <2>1, <2>3 DEF ControlRules, Beside
  <2> QED BY <2>2, <2>4 DEF ControlOK
<1> QED BY <1>1, <1>2, TodoLeft, BesideThreads DEF RunInv
-----------------------------------------------------------------------------
\* The Attempt exists: the rest of the batch is dropped.
LEMMA StepWriteExists ==
  ASSUME RunInv, Write, todo[1].file = "new", attempt[todo[1].n][todo[1].k] # NoAttempt
  PROVE  RunInv' /\ todo' = <<>>
<1>1. TodoOK /\ todo \in Seq(Writes) /\ todo # <<>> /\ FilesOK /\ ThreadsOK /\ ControlRules /\ ThreadTypes
  BY DEF RunInv, TodoOK, Write, ControlOK
<1>2. 1 \in DOMAIN todo /\ Head(todo) = todo[1] /\ WriteOK(1)
  <2>1. 1 \in DOMAIN todo /\ Head(todo) = todo[1]
    BY <1>1
  <2> QED BY <2>1, <1>1 DEF TodoOK
<1>3. BatchOK
  BY <1>2 DEF WriteOK, PlainOK
<1>4. /\ todo' = <<>> /\ lau' = NoLaunch /\ ctl' = [ctl EXCEPT !.pc = "fault"]
      /\ UNCHANGED <<run, req, node, attempt, intent, exec, proc, obs, can, ask, act, hbrec, faults>>
  BY <1>2 DEF Write
<1>5. ctl' \in ControlStates /\ ctl'.pc = "fault"
  <2>1. Go("fault") /\ "fault" \in ControlPoints
    BY <1>4 DEF Go, ControlPoints
  <2> QED BY <1>1, <2>1, GoType DEF ThreadTypes
<1>6. ctl.pc = "launch" /\ ~act /\ ~Planned
  BY <1>1, <1>3 DEF BatchOK, ControlRules
<1>7. ControlOK'
  <2>1. lau' \in [Agent -> LaunchPoints]
    BY <1>4 DEF NoLaunch, LaunchPoints
  <2>2. faults' \in 0..MaxFaults /\ obs' \in [Agent -> ObsPoints]
    BY <1>1, <1>4 DEF ThreadTypes
  <2>3. ctl.pc # "off" /\ ctl'.pc # "off"
    BY <1>5, <1>6
  <2> QED BY <1>4, <1>5, <2>1, <2>2, <2>3, ControlMoves
<1>8. TodoOK'
  <2>1. ~Planned' /\ intent' \in actionIntent
    BY <1>1, <1>4, <1>6 DEF Planned, TodoOK, IntentOK
  <2> QED BY <1>4, <2>1, TodoEmpty
<1>9. FilesOK'
  BY <1>1, <1>4, FilesSame DEF FilesOK
<1>10. LaunchesOK'
  BY <1>4, NoLaunchIs DEF LaunchesOK, LaunchOK, Dispatched
<1>11. ObservationsOK' /\ RecoverOK'
  BY <1>5 DEF ObservationsOK, ObservedOK, RecoverOK
<1>12. TargetsOK'
  BY <1>3, <1>4 DEF BatchOK, TargetsOK, TargetOK
<1>13. ExecutionsOK'
  BY <1>1, <1>4, ExecutionsSame DEF ThreadsOK
<1> QED BY <1>4, <1>7, <1>8, <1>9, <1>10, <1>11, <1>12, <1>13 DEF RunInv, ThreadsOK

\* The write of a node.
NodeStep ==
  /\ Shifted
  /\ UNCHANGED <<run, req, attempt, intent, exec, proc, obs, can, ask, act, hbrec, faults, ctl, lau>>
  /\ todo[1].file = "node"
  /\ node' = [node EXCEPT ![todo[1].n] = todo[1].val]

\* Write does that when the file is a node's.
LEMMA WriteNodeStep == ASSUME RunInv, Write, todo[1].file = "node" PROVE NodeStep
<1>1. todo \in Seq(Writes) /\ todo # <<>>
  BY DEF RunInv, TodoOK, Write
<1>2. Head(todo) = todo[1]
  BY <1>1
<1> QED BY <1>2 DEF Write, NodeStep, Shifted

\* The node that is written, n, is v then; every write that is due of it agrees.
LEMMA NodeStepIs ==
  ASSUME RunInv, NodeStep, NEW n, NEW v, n = todo[1].n, v = todo[1].val
  PROVE  /\ n \in Node /\ v \in NodeSnapshot /\ NodeOK(n, v)
         /\ node' \in [Node -> NodeSnapshot] /\ node'[n] = v
         /\ \A m \in Node : m # n => node'[m] = node[m]
         /\ \A i \in DOMAIN todo : todo[i].file = "node" /\ todo[i].n = n => todo[i].val = v
         /\ \A i \in DOMAIN todo' : /\ i \in Nat /\ i >= 1 /\ i + 1 \in DOMAIN todo
                                    /\ todo'[i] = todo[i + 1] /\ todo[i + 1] \in Writes
<1>1. TodoOK /\ FilesOK /\ todo \in Seq(Writes) /\ Shifted /\ AgreeOK
  BY DEF RunInv, TodoOK, NodeStep
<1>2. todo[1] \in Writes /\ 1 \in DOMAIN todo /\ WriteOK(1)
  BY <1>1, ShiftIs DEF TodoOK
<1>3. n \in Node /\ v \in NodeSnapshot /\ todo[1].file = "node"
  BY <1>2, WriteKinds DEF NodeStep
<1>4. NodeOK(n, v)
  BY <1>2, <1>3 DEF WriteOK, PlainOK, NodeWriteOK, NewOK, CreatesOK
<1>5. node' \in [Node -> NodeSnapshot] /\ node'[n] = v /\ \A m \in Node : m # n => node'[m] = node[m]
  BY <1>1, <1>3 DEF NodeStep, FilesOK
<1>6. \A i \in DOMAIN todo : todo[i].file = "node" /\ todo[i].n = n => todo[i].val = v
  BY <1>1, <1>2, <1>3 DEF AgreeOK
<1>7. \A i \in DOMAIN todo' : /\ i \in Nat /\ i >= 1 /\ i + 1 \in DOMAIN todo
                              /\ todo'[i] = todo[i + 1] /\ todo[i + 1] \in Writes
  BY <1>1, ShiftIs
<1> QED BY <1>3, <1>4, <1>5, <1>6, <1>7

\* A batch stays one.
LEMMA BatchLeft == ASSUME RunInv, NodeStep, BatchOK PROVE BatchOK'
<1>0. PICK n, v : n = todo[1].n /\ v = todo[1].val
  OBVIOUS
<1>1. /\ node'[n] = v
      /\ \A m \in Node : m # n => node'[m] = node[m]
      /\ \A i \in DOMAIN todo : todo[i].file = "node" /\ todo[i].n = n => todo[i].val = v
      /\ \A i \in DOMAIN todo' : i + 1 \in DOMAIN todo /\ todo'[i] = todo[i + 1] /\ todo[i + 1] \in Writes
  BY <1>0, NodeStepIs
<1>2. UNCHANGED <<ctl, lau, can>>
  BY DEF NodeStep
<1>3. ASSUME NEW j \in DOMAIN todo'
      PROVE  /\ todo'[j].file \in {"node", "new", "run"}
             /\ todo'[j].file = "node" => todo'[j].val.concl = "none"
             /\ todo'[j].file = "node" /\ Terminal(node'[todo'[j].n]) => todo'[j].val = node'[todo'[j].n]
  <2>1. PICK i \in DOMAIN todo : todo'[j] = todo[i] /\ todo[i] \in Writes
    BY <1>1
  <2>2. /\ todo[i].file \in {"node", "new", "run"}
        /\ todo[i].file = "node" => todo[i].val.concl = "none" /\ todo[i].n \in Node
        /\ todo[i].file = "node" /\ Terminal(node[todo[i].n]) => todo[i].val = node[todo[i].n]
    BY <2>1, WriteKinds DEF BatchOK
  <2> QED BY <1>1, <2>1, <2>2
<1> QED BY <1>2, <1>3 DEF BatchOK

\* The launches of the other nodes are to come still.
LEMMA CreatesStay ==
  ASSUME RunInv, NodeStep, NEW i \in DOMAIN todo, i > 1, CreatesOK(i), todo[i].n # todo[1].n,
         Terminal(node[todo[1].n]) => todo[1].val = node[todo[1].n]
  PROVE  CreatesOK(i - 1)'
<1>0. PICK u, n, v : u = todo[i] /\ n = todo[1].n /\ v = todo[1].val
  OBVIOUS
<1>1. /\ u.file = "node" /\ u.n \in Agent /\ NodeOK(u.n, u.val)
      /\ Unstarted(node[u.n]) /\ DepsOver(u.n)
      /\ u.val.att = node[u.n].att + 1 /\ u.val.phase = "running" /\ u.val.concl = "none"
      /\ lau[u.n] = "begin" /\ todo[i - 1] = CreateAttempt(u.n, u.val.att, Prepared)
  BY <1>0 DEF CreatesOK
<1>2. n \in Node /\ node'[n] = v /\ \A m \in Node : m # n => node'[m] = node[m]
  BY <1>0, NodeStepIs
<1>3. todo \in Seq(Writes) /\ Shifted /\ i \in Nat /\ i - 1 \in DOMAIN todo'  /\ todo'[i - 1] = u
  BY <1>0, ShiftIs DEF RunInv, TodoOK, NodeStep
<1>4. u.n # n /\ u.n \in Node /\ node'[u.n] = node[u.n] /\ lau' = lau
  BY <1>0, <1>1, <1>2, WorkflowAssumption DEF NodeStep
<1>5. DepsOver(u.n)'
  <2>1. \A d \in Deps[u.n] : d \in Node
    BY <1>4, WorkflowAssumption
  <2>2. \A d \in Deps[u.n] : node'[d] = node[d]
    BY <2>1, <1>0, <1>1, <1>2 DEF DepsOver
  <2> QED BY <2>2, <1>1 DEF DepsOver
<1>6. NodeOK(u.n, u.val)'
  BY <1>1 DEF NodeOK
<1>7. PICK k : k = i - 1
  OBVIOUS
<1>8. k \in Nat /\ k >= 1 /\ k \in DOMAIN todo /\ todo[k] = CreateAttempt(u.n, u.val.att, Prepared)
  <2>1. k \in DOMAIN todo
    BY <1>3, <1>7
  <2> QED BY <1>1, <1>3, <1>7, <2>1
<1>9. k > 1
  <2>1. todo[k].file = "new"
    BY <1>8 DEF CreateAttempt
  <2> QED BY <2>1, <1>8 DEF NodeStep
<1>10. todo'[k - 1] = todo[k]
  BY <1>3, <1>8, <1>9, ShiftIs
<1>11. CreatesOK(k)'
  BY <1>1, <1>3, <1>4, <1>5, <1>6, <1>7, <1>8, <1>9, <1>10 DEF CreatesOK
<1> QED BY <1>7, <1>11

\* What creates an Attempt is part of a batch.
LEMMA CreatesBatch ==
  ASSUME RunInv, NEW i \in DOMAIN todo, CreatesOK(i)
  PROVE  BatchOK
<1>1. WriteOK(i) /\ todo[i].file = "node" /\ todo[i].val.att = node[todo[i].n].att + 1
  BY DEF RunInv, TodoOK, CreatesOK
<1>2. todo[i].n \in Node /\ node[todo[i].n].att \in Nat
  BY <1>1, WorkflowAssumption DEF CreatesOK, RunInv, FilesOK, NodeOK
<1> QED BY <1>1, <1>2 DEF WriteOK, PlainOK, NodeWriteOK
-----------------------------------------------------------------------------
\* The write of a node that keeps its Attempt.
LEMMA NodeKeeps ==
  ASSUME RunInv, NodeStep, PlainOK(todo[1])
  PROVE  /\ \A m \in Node : node'[m].att = node[m].att
         /\ \A m \in Agent : Current(m)' = Current(m) /\ Execution(m)' = Execution(m)
         /\ \A m \in Agent : \A k : Unlaunched(m, k)' = Unlaunched(m, k) /\ Over(m, k)' = Over(m, k)
<1>0. PICK n, v : n = todo[1].n /\ v = todo[1].val
  OBVIOUS
<1>1. n \in Node /\ node'[n] = v /\ \A m \in Node : m # n => node'[m] = node[m]
  BY <1>0, NodeStepIs
<1>2. v.att = node[n].att
  BY <1>0 DEF PlainOK, NodeWriteOK, NodeStep
<1>3. \A m \in Node : node'[m].att = node[m].att
  BY <1>1, <1>2
<1>4. \A m \in Agent : m \in Node
  BY WorkflowAssumption
<1>5. \A m \in Agent : Current(m)' = Current(m) /\ Execution(m)' = Execution(m)
  BY <1>3, <1>4 DEF Current, Execution, NodeStep
<1>6. \A m \in Agent : \A k : Unlaunched(m, k)' = Unlaunched(m, k)
  BY <1>3, <1>4 DEF Unlaunched, NodeStep
<1>7. \A m \in Agent : \A k : Over(m, k)' = Over(m, k)
  BY <1>6 DEF Over, NodeStep
<1> QED BY <1>3, <1>5, <1>6, <1>7

\* A plan that agrees with the write can be applied after it.
LEMMA PlanStays ==
  ASSUME RunInv, NodeStep, PlainOK(todo[1]), NEW plan, PlanOK(plan), AppliesTo(plan)
  PROVE  PlanOK(plan)'
<1>0. PICK n, v : n = todo[1].n /\ v = todo[1].val
  OBVIOUS
<1>1. node'[n] = v /\ \A m \in Node : m # n => node'[m] = node[m]
  BY <1>0, NodeStepIs
<1>2. 1 \in DOMAIN todo
  BY ShiftIs DEF RunInv, TodoOK, NodeStep
<1>3. ASSUME NEW j \in DOMAIN plan
      PROVE  /\ NodeOK(plan[j].n, plan[j].val)'
             /\ plan[j].val.att = node'[plan[j].n].att
             /\ plan[j].n \in Agent => Unstarted(plan[j].val)
             /\ node'[plan[j].n].concl = "succeeded" => plan[j].val = node'[plan[j].n]
  <2>1. /\ NodeOK(plan[j].n, plan[j].val)
        /\ plan[j].val.att = node[plan[j].n].att
        /\ plan[j].n \in Agent => Unstarted(plan[j].val)
        /\ node[plan[j].n].concl = "succeeded" => plan[j].val = node[plan[j].n]
    BY DEF PlanOK
  <2>2. plan[j] \in NodeWrites
    BY DEF PlanOK
  <2>3. plan[j].n \in Node
    BY <2>2 DEF NodeWrites
  <2>4. NodeOK(plan[j].n, plan[j].val)'
    BY <2>1 DEF NodeOK
  <2>5. CASE plan[j].n = n
    <3>1. plan[j].val = v
      BY <1>0, <1>2, <2>5 DEF AppliesTo, NodeStep
    <3> QED BY <3>1, <2>1, <2>4, <2>5, <1>1
  <2>6. CASE plan[j].n # n
    BY <2>1, <2>3, <2>4, <2>6, <1>1
  <2> QED BY <2>5, <2>6
<1>4. plan \in Seq(NodeWrites) /\ \A i, j \in DOMAIN plan : plan[i].n = plan[j].n => plan[i].val = plan[j].val
  BY DEF PlanOK
<1> QED BY <1>3, <1>4 DEF PlanOK

\* The other writes that are due stay right.
LEMMA PlainStays ==
  ASSUME RunInv, NodeStep, PlainOK(todo[1]), NEW i \in DOMAIN todo, NEW u, u = todo[i], PlainOK(u)
  PROVE  PlainOK(u)'
<1>0. PICK n, v : n = todo[1].n /\ v = todo[1].val
  OBVIOUS
<1>1. /\ n \in Node /\ NodeOK(n, v) /\ node'[n] = v /\ \A m \in Node : m # n => node'[m] = node[m]
      /\ \A j \in DOMAIN todo : todo[j].file = "node" /\ todo[j].n = n => todo[j].val = v
  BY <1>0, NodeStepIs
<1>2. UNCHANGED <<run, attempt, can, act>>
  BY DEF NodeStep
<1>3. u \in Writes
  BY DEF RunInv, TodoOK
<1>4. u.file = "node" => NodeWriteOK(u)'
  <2> SUFFICES ASSUME u.file = "node" PROVE NodeWriteOK(u)'
    OBVIOUS
  <2>1. NodeWriteOK(u) /\ u.n \in Node
    BY <1>3, WriteKinds DEF PlainOK
  <2>2. NodeOK(u.n, u.val)' /\ u.val.att = node'[u.n].att
    BY <2>1, NodeKeeps DEF NodeWriteOK, NodeOK
  <2>3. u.n \in Agent /\ ~Open(u.val.concl) => Over(u.n, u.val.att)'
    <3>1. u.n \in Agent /\ ~Open(u.val.concl) => Over(u.n, u.val.att)
      BY <2>1 DEF NodeWriteOK
    <3> QED BY <3>1, NodeKeeps
  <2>4. CASE u.n = n
    <3>1. u.val = v /\ node'[n] = u.val
      BY <2>4, <1>1
    <3>2. u.n \in Agent /\ u.val.phase \in {"running", "waiting"} => Active(u.n, node)' \/ can'.out[u.n] # "-"
      BY <2>4, <3>1, <1>1 DEF Active, NodeOK
    <3> QED BY <2>2, <2>3, <2>4, <3>1, <3>2 DEF NodeWriteOK, Open, Busy
  <2>5. CASE u.n # n
    <3>1. node'[u.n] = node[u.n]
      BY <2>1, <2>5, <1>1
    <3>2. u.n \in Agent /\ u.val.phase \in {"running", "waiting"} => Active(u.n, node)' \/ can'.out[u.n] # "-"
      BY <2>1, <3>1, <1>2 DEF Active, NodeWriteOK
    <3>3. node'[u.n].concl = "succeeded" => u.val = node'[u.n]
      BY <2>1, <3>1 DEF NodeWriteOK
    <3>4. u.n \in Agent /\ Busy(u.n)' => act' \/ u.val.phase \in BusyPhases
      BY <2>1, <3>1, <1>2 DEF NodeWriteOK, Busy
    <3> QED BY <2>2, <2>3, <3>2, <3>3, <3>4 DEF NodeWriteOK, Open
  <2> QED BY <2>4, <2>5
<1>5. u.file = "attempt" => AttemptWriteOK(u)'
  <2> SUFFICES ASSUME u.file = "attempt" PROVE AttemptWriteOK(u)'
    OBVIOUS
  <2>1. AttemptWriteOK(u) /\ u.n \in Agent
    BY <1>3, WriteKinds DEF PlainOK
  <2>2. Unlaunched(u.n, u.k)' = Unlaunched(u.n, u.k) /\ Over(u.n, u.k)' = Over(u.n, u.k)
    BY <2>1, NodeKeeps
  <2> QED BY <2>1, <2>2, <1>2 DEF AttemptWriteOK, Open
<1>6. u.file = "intent" => PlanOK(u.val.plan)'
  <2> SUFFICES ASSUME u.file = "intent" PROVE PlanOK(u.val.plan)'
    OBVIOUS
  <2>1. PICK plan : plan = u.val.plan
    OBVIOUS
  <2>2. PlanOK(plan) /\ AppliesTo(plan)
    BY <2>1 DEF PlainOK, RunInv, TodoOK, IntentOK
  <2>3. PlanOK(plan)'
    BY <2>2, PlanStays
  <2> QED BY <2>1, <2>3
<1> QED BY <1>2, <1>4, <1>5, <1>6 DEF PlainOK

\* A node that a batch creates an Attempt for is not written in another way.
LEMMA OtherCreates ==
  ASSUME RunInv, NodeStep, PlainOK(todo[1]), NEW i \in DOMAIN todo, CreatesOK(i)
  PROVE  /\ i > 1 /\ todo[i].n # todo[1].n /\ CreatesOK(i - 1)'
         /\ i - 1 \in DOMAIN todo' /\ todo'[i - 1] = todo[i]
<1>0. PICK n, v : n = todo[1].n /\ v = todo[1].val
  OBVIOUS
<1>1. n \in Node /\ \A j \in DOMAIN todo : todo[j].file = "node" /\ todo[j].n = n => todo[j].val = v
  BY <1>0, NodeStepIs
<1>2. v.att = node[n].att /\ node[n].att \in Nat
  BY <1>0, <1>1 DEF PlainOK, NodeWriteOK, NodeStep, RunInv, FilesOK, NodeOK
<1>3. todo[i].n # n
  BY <1>1, <1>2 DEF CreatesOK
<1>4. i > 1 /\ i - 1 \in DOMAIN todo' /\ todo'[i - 1] = todo[i]
  <2>1. i \in Nat /\ i >= 1
    BY DEF RunInv, TodoOK
  <2>2. i > 1
    BY <2>1, <1>0, <1>3
  <2> QED BY <2>2, ShiftIs DEF RunInv, TodoOK, NodeStep
<1>5. Terminal(node[n]) => v = node[n]
  <2>1. BatchOK
    BY CreatesBatch
  <2>2. 1 \in DOMAIN todo
    BY ShiftIs DEF RunInv, TodoOK, NodeStep
  <2> QED BY <1>0, <2>1, <2>2 DEF BatchOK, NodeStep
<1>6. CreatesOK(i - 1)'
  BY <1>0, <1>3, <1>4, <1>5, CreatesStay
<1> QED BY <1>0, <1>3, <1>4, <1>6

\* The writes that are left stay right.
LEMMA NodeTodo == ASSUME RunInv, NodeStep, PlainOK(todo[1]) PROVE TodoOK'
<1>1. TodoOK /\ todo \in Seq(Writes) /\ Shifted /\ act' = act /\ intent' = intent /\ todo[1].file # "intent"
  BY DEF RunInv, TodoOK, NodeStep
<1>2. todo' \in Seq(Writes) /\ AgreeOK'
  BY <1>1, ShiftIs, AgreeLeft
<1>3. IntentOK'
  <2>1. \A plan : PlanOK(plan) /\ AppliesTo(plan) => PlanOK(plan)'
    BY PlanStays
  <2> QED BY <1>1, <2>1, IntentLeft
<1>4. ASSUME NEW i \in DOMAIN todo' PROVE WriteOK(i)'
  <2>1. PICK u : u = todo[i + 1]
    OBVIOUS
  <2>2. todo'[i] = u /\ i + 1 \in DOMAIN todo /\ i \in Nat /\ i >= 1
    BY <1>1, <2>1, ShiftIs
  <2>3. PICK j : j = i + 1
    OBVIOUS
  <2>4. j > 1 /\ j \in DOMAIN todo /\ todo[j] = u /\ j - 1 = i /\ WriteOK(j)
    BY <2>1, <2>2, <2>3, <1>1 DEF TodoOK
  <2>5. CASE PlainOK(u)
    <3>1. PlainOK(u)'
      BY <2>4, <2>5, PlainStays
    <3> QED BY <3>1, <2>2 DEF WriteOK
  <2>6. CASE BatchOK /\ NewOK(u)
    BY <2>6, <2>2, BatchLeft DEF WriteOK, NewOK
  <2>7. CASE BatchOK /\ CreatesOK(j)
    <3>1. CreatesOK(j - 1)'
      BY <2>4, <2>7, OtherCreates
    <3>2. CreatesOK(i)'
      BY <3>1, <2>4
    <3> QED BY <3>2, <2>7, BatchLeft DEF WriteOK
  <2> QED BY <2>4, <2>5, <2>6, <2>7 DEF WriteOK
<1> QED BY <1>2, <1>3, <1>4 DEF TodoOK

\* What the threads rely on of a node is not changed by the write.
LEMMA StandsStay ==
  ASSUME RunInv, NodeStep, PlainOK(todo[1]), NEW m \in Agent
  PROVE  /\ Untouched(m) => Untouched(m)' /\ node'[m] = node[m]
         /\ Unsucceeded(m) => Unsucceeded(m)'
         /\ Busy(m) /\ ~act => Busy(m)'
         /\ Coming(m) => Coming(m)'
<1>0. PICK n, v : n = todo[1].n /\ v = todo[1].val
  OBVIOUS
<1>1. /\ n \in Node /\ node'[n] = v /\ \A j \in Node : j # n => node'[j] = node[j]
      /\ \A i \in DOMAIN todo' : i + 1 \in DOMAIN todo /\ todo'[i] = todo[i + 1]
  BY <1>0, NodeStepIs
<1>2. 1 \in DOMAIN todo /\ m \in Node
  BY ShiftIs, WorkflowAssumption DEF RunInv, TodoOK, NodeStep
<1>3. todo[1].file = "node" /\ NodeWriteOK(todo[1])
  BY DEF NodeStep, PlainOK
<1>4. Untouched(m) => Untouched(m)' /\ node'[m] = node[m]
  <2> SUFFICES ASSUME Untouched(m) PROVE Untouched(m)' /\ node'[m] = node[m]
    OBVIOUS
  <2>1. node'[m] = node[m]
    BY <1>0, <1>1, <1>2, <1>3 DEF Untouched
  <2>2. Active(m, node)'
    BY <2>1 DEF Untouched, Active
  <2> QED BY <2>1, <2>2, <1>1 DEF Untouched
<1>5. Unsucceeded(m) => Unsucceeded(m)'
  <2> SUFFICES ASSUME Unsucceeded(m) PROVE Unsucceeded(m)'
    OBVIOUS
  <2>1. node'[m].concl # "succeeded"
    BY <1>0, <1>1, <1>2, <1>3 DEF Unsucceeded
  <2> QED BY <2>1, <1>1 DEF Unsucceeded
<1>6. Busy(m) /\ ~act => Busy(m)'
  BY <1>0, <1>1, <1>2, <1>3 DEF Busy, NodeWriteOK
<1>7. Coming(m) => Coming(m)'
  <2> SUFFICES ASSUME Coming(m) PROVE Coming(m)'
    OBVIOUS
  <2>1. PICK i \in DOMAIN todo : CreatesOK(i) /\ todo[i].n = m
    BY DEF Coming
  <2>2. CreatesOK(i - 1)' /\ i - 1 \in DOMAIN todo' /\ todo'[i - 1] = todo[i]
    BY <2>1, OtherCreates
  <2> QED BY <2>1, <2>2 DEF Coming
<1> QED BY <1>4, <1>5, <1>6, <1>7
-----------------------------------------------------------------------------
\* Such a write preserves the invariant.
LEMMA StepNodeKeeps == ASSUME RunInv, NodeStep, PlainOK(todo[1]) PROVE RunInv'
<1>0. PICK n, v : n = todo[1].n /\ v = todo[1].val
  OBVIOUS
<1>1. ThreadsOK /\ FilesOK /\ ControlRules /\ ThreadTypes
  BY DEF RunInv, ControlOK
<1>2. /\ n \in Node /\ NodeOK(n, v) /\ node' \in [Node -> NodeSnapshot] /\ node'[n] = v
      /\ \A m \in Node : m # n => node'[m] = node[m]
  BY <1>0, NodeStepIs
<1>3. /\ \A m \in Node : node'[m].att = node[m].att
      /\ \A m \in Agent : Current(m)' = Current(m) /\ Execution(m)' = Execution(m)
      /\ \A m \in Agent : \A k : Unlaunched(m, k)' = Unlaunched(m, k) /\ Over(m, k)' = Over(m, k)
  BY NodeKeeps
<1>4. UNCHANGED <<run, req, attempt, intent, exec, proc, obs, can, ask, act, hbrec, faults, ctl, lau>>
  BY DEF NodeStep
<1>5. n \in Agent /\ ~Open(v.concl) => Over(n, v.att) /\ v.att = node[n].att
  BY <1>0 DEF PlainOK, NodeWriteOK, NodeStep
<1>6. \A m \in Agent : m \in Node
  BY WorkflowAssumption
<1>7. FilesOK'
  <2>1. \A m \in Node : NodeOK(m, node[m])'
    BY <1>1, <1>2 DEF FilesOK, NodeOK
  <2>2. \A m \in Agent : node'[m].att > 0 => Current(m)' \in AttemptSnapshot
    BY <1>1, <1>3, <1>6 DEF FilesOK
  <2> QED BY <1>1, <1>2, <1>4, <2>1, <2>2 DEF FilesOK
<1>8. ControlOK'
  <2>1. ThreadTypes'
    BY <1>1, <1>4 DEF ThreadTypes
  <2>2. ~(Planned' /\ ~act')
    BY <1>1, <1>4 DEF ControlRules, Planned, NodeStep, Shifted
  <2>3. ControlRules'
    BY <1>1, <1>4, <2>2 DEF ControlRules
  <2> QED BY <2>1, <2>3 DEF ControlOK
<1>9. LaunchesOK'
  <2> SUFFICES ASSUME NEW m \in Agent PROVE LaunchOK(m)'
    BY DEF LaunchesOK
  <2>1. LaunchOK(m) /\ (Coming(m) => Coming(m)') /\ (Untouched(m) => Untouched(m)')
    BY <1>1, StandsStay DEF ThreadsOK, LaunchesOK
  <2>2. node'[m].att = node[m].att /\ Current(m)' = Current(m)
    BY <1>3, <1>6
  <2>3. Startable(m) => Startable(m)' \/ (lau[m] \notin Dispatched /\ (lau[m] = "begin" => ctl.stopping \/ run.cancel))
    <3>1. CASE m = n
      BY <3>1, <2>2, <1>2, <1>5 DEF Startable, Open, Over, Unlaunched
    <3>2. CASE m # n
      BY <3>2, <2>2, <1>2, <1>6 DEF Startable, Open
    <3> QED BY <3>1, <3>2
  <2> QED BY <2>1, <2>2, <2>3, <1>4 DEF LaunchOK
<1>10. ObservationsOK'
  <2> SUFFICES ASSUME NEW m \in Agent, ctl'.pc = "observe", obs'[m] # "-" PROVE ObservedOK(m)'
    BY DEF ObservationsOK, ObservedOK
  <2>1. ObservedOK(m) /\ (Untouched(m) => Untouched(m)')
    BY <1>1, StandsStay DEF ThreadsOK, ObservationsOK
  <2>2. node'[m].att = node[m].att /\ Current(m)' = Current(m) /\ Execution(m)' = Execution(m)
    BY <1>3, <1>6
  <2> QED BY <2>1, <2>2, <1>4 DEF ObservedOK
<1>11. TargetsOK'
  <2> SUFFICES ASSUME NEW m \in Agent, can'.out[m] # "-" PROVE TargetOK(m)'
    BY DEF TargetsOK, TargetOK
  <2>1. TargetOK(m) /\ ~act
    BY <1>1, <1>4 DEF ThreadsOK, TargetsOK, ControlRules
  <2>2. (Unsucceeded(m) => Unsucceeded(m)') /\ (Busy(m) => Busy(m)')
    BY <2>1, StandsStay
  <2>3. Over(m, node[m].att) => Over(m, node[m].att)'
    <3>1. PICK k : k = node[m].att
      OBVIOUS
    <3>2. Over(m, k)' = Over(m, k) /\ node'[m].att = k
      BY <1>3, <1>6, <3>1
    <3> QED BY <3>1, <3>2
  <2> QED BY <2>1, <2>2, <2>3, <1>4 DEF TargetOK
<1>12. RecoverOK'
  <2> SUFFICES ASSUME ctl'.pc \in {"rmark", "rtarget", "rcancel", "rfinal"} PROVE RecoverOK'
    BY DEF RecoverOK
  <2>1. PICK m : m = ctl.target
    OBVIOUS
  <2>2. RecoverOK /\ ~act
    BY <1>1, <1>4 DEF ThreadsOK, ControlRules
  <2>3. m \in Agent => (Unsucceeded(m) => Unsucceeded(m)') /\ (Busy(m) => Busy(m)') /\ Execution(m)' = Execution(m)
    BY <2>2, <1>3, StandsStay
  <2> QED BY <2>1, <2>2, <2>3, <1>4 DEF RecoverOK
<1>13. ExecutionsOK'
  <2> SUFFICES ASSUME NEW m \in Agent, NEW k \in 1..MaxAttempts, exec'[m][k] = "live" PROVE ExecOK(m, k)'
    BY DEF ExecutionsOK, ExecOK
  <2>1. ExecOK(m, k)
    BY <1>1 DEF ThreadsOK, ExecutionsOK
  <2>2. node'[m].att = k => Open(node'[m].concl)
    <3>1. CASE m = n
      BY <3>1, <2>1, <1>2, <1>4, <1>5 DEF Over
    <3>2. CASE m # n
      BY <3>2, <2>1, <1>2, <1>4, <1>6 DEF ExecOK
    <3> QED BY <3>1, <3>2
  <2> QED BY <2>1, <2>2, <1>4 DEF ExecOK, Open
<1> QED BY <1>7, <1>8, <1>9, <1>10, <1>11, <1>12, <1>13, NodeTodo DEF RunInv, ThreadsOK

-----------------------------------------------------------------------------
\* The write of a node that gets the Attempt created before it.
LEMMA NewTodo == ASSUME RunInv, NodeStep, BatchOK, CreatesOK(1) PROVE TodoOK'
<1>0. PICK n, v : n = todo[1].n /\ v = todo[1].val
  OBVIOUS
<1>1. TodoOK /\ todo \in Seq(Writes) /\ Shifted /\ act' = act /\ intent' = intent /\ todo[1].file # "intent"
  BY DEF RunInv, TodoOK, NodeStep
<1>2. /\ n \in Node /\ NodeOK(n, v) /\ node'[n] = v
      /\ \A m \in Node : m # n => node'[m] = node[m]
      /\ \A i \in DOMAIN todo : todo[i].file = "node" /\ todo[i].n = n => todo[i].val = v
  BY <1>0, NodeStepIs
<1>3. /\ n \in Agent /\ Unstarted(node[n]) /\ v.att = node[n].att + 1 /\ v.phase = "running" /\ v.concl = "none"
      /\ node[n].att \in Nat
  BY <1>0, <1>2 DEF CreatesOK, RunInv, FilesOK, NodeOK
<1>4. todo' \in Seq(Writes) /\ AgreeOK' /\ BatchOK'
  BY <1>1, ShiftIs, AgreeLeft, BatchLeft
<1>5. IntentOK'
  <2>1. ASSUME NEW plan, PlanOK(plan), AppliesTo(plan) PROVE PlanOK(plan)'
    <3>1. 1 \in DOMAIN todo
      BY <1>1, ShiftIs
    <3>2. \A j \in DOMAIN plan : plan[j].n \in Node /\ plan[j].n # n
      <4> SUFFICES ASSUME NEW j \in DOMAIN plan PROVE plan[j].n \in Node /\ plan[j].n # n
        OBVIOUS
      <4>1. plan[j] \in NodeWrites
        BY <2>1 DEF PlanOK
      <4>2. plan[j].n \in Node
        BY <4>1 DEF NodeWrites
      <4>3. plan[j].n = n => plan[j].val = v /\ plan[j].val.att = node[n].att
        BY <2>1, <3>1, <1>0 DEF AppliesTo, PlanOK, NodeStep
      <4> QED BY <4>2, <4>3, <1>3
    <3>3. \A j \in DOMAIN plan : node'[plan[j].n] = node[plan[j].n]
      BY <3>2, <1>2
    <3>4. \A j \in DOMAIN plan : NodeOK(plan[j].n, plan[j].val)' <=> NodeOK(plan[j].n, plan[j].val)
      BY DEF NodeOK
    <3> QED BY <2>1, <3>3, <3>4 DEF PlanOK
  <2> QED BY <1>1, <2>1, IntentLeft
<1>6. ASSUME NEW i \in DOMAIN todo' PROVE WriteOK(i)'
  <2>1. PICK u : u = todo[i + 1]
    OBVIOUS
  <2>2. todo'[i] = u /\ u \in Writes /\ i + 1 \in DOMAIN todo /\ i \in Nat /\ i >= 1
    BY <1>1, <2>1, ShiftIs
  <2>3. PICK j : j = i + 1
    OBVIOUS
  <2>4. j > 1 /\ j \in DOMAIN todo /\ todo[j] = u /\ j - 1 = i /\ WriteOK(j)
    BY <2>1, <2>2, <2>3, <1>1 DEF TodoOK
  <2>5. CASE PlainOK(u)
    <3>1. u.file \in {"node", "run"} /\ (u.file = "node" => u.val.concl = "none")
      BY <2>4, <2>5 DEF BatchOK, PlainOK
    <3>2. u.file = "node" => NodeWriteOK(u)'
      <4> SUFFICES ASSUME u.file = "node" PROVE NodeWriteOK(u)'
        OBVIOUS
      <4>1. NodeWriteOK(u) /\ u.n \in Node
        BY <2>2, <2>5, WriteKinds DEF PlainOK
      <4>2. u.n # n
        BY <4>1, <2>4, <1>2, <1>3 DEF NodeWriteOK
      <4>3. node'[u.n] = node[u.n] /\ UNCHANGED <<can, act>>
        BY <4>1, <4>2, <1>2 DEF NodeStep
      <4>4. NodeOK(u.n, u.val)'
        BY <4>1 DEF NodeWriteOK, NodeOK
      <4>5. u.n \in Agent /\ u.val.phase \in {"running", "waiting"} => Active(u.n, node)' \/ can'.out[u.n] # "-"
        BY <4>1, <4>3 DEF Active, NodeWriteOK
      <4>6. Open(u.val.concl)
        BY <3>1 DEF Open
      <4>7. u.n \in Agent /\ Busy(u.n)' => act' \/ u.val.phase \in BusyPhases
        BY <4>1, <4>3 DEF NodeWriteOK, Busy
      <4>8. Open(u.val.concl)' = Open(u.val.concl)
        BY DEF Open
      <4> QED BY <4>1, <4>3, <4>4, <4>5, <4>6, <4>7, <4>8 DEF NodeWriteOK
    <3>3. PlainOK(u)'
      BY <3>1, <3>2, <2>5 DEF PlainOK, NodeStep
    <3> QED BY <3>3, <2>2 DEF WriteOK
  <2>6. CASE NewOK(u)
    BY <2>6, <2>2, <1>4 DEF WriteOK, NewOK
  <2>7. CASE CreatesOK(j) /\ u.n # n
    <3>1. Terminal(node[n]) => v = node[n]
      BY <1>3 DEF Terminal, Unstarted
    <3>2. CreatesOK(j - 1)'
      BY <1>0, <2>4, <2>7, <3>1, CreatesStay
    <3>3. CreatesOK(i)'
      BY <3>2, <2>4
    <3> QED BY <3>3, <1>4 DEF WriteOK
  <2>8. CASE CreatesOK(j) /\ u.n = n
    <3>1. u.file = "node" /\ u.val = v
      BY <2>4, <2>8, <1>2 DEF CreatesOK
    <3>2. NodeOK(u.n, u.val)' /\ u.val = node'[u.n]
      BY <3>1, <2>8, <1>2 DEF NodeOK
    <3>3. Active(u.n, node)' /\ u.val.phase \in BusyPhases
      BY <3>1, <3>2, <2>8, <1>2, <1>3 DEF Active, BusyPhases
    <3>4. Open(u.val.concl)'
      BY <3>1, <1>3 DEF Open
    <3>5. NodeWriteOK(u)'
      BY <3>2, <3>3, <3>4 DEF NodeWriteOK
    <3>6. PlainOK(u)'
      BY <3>1, <3>5 DEF PlainOK
    <3> QED BY <3>6, <2>2 DEF WriteOK
  <2> QED BY <2>4, <2>5, <2>6, <2>7, <2>8 DEF WriteOK
<1> QED BY <1>4, <1>5, <1>6 DEF TodoOK

\* Such a write preserves the invariant.
LEMMA StepNodeNew == ASSUME RunInv, NodeStep, BatchOK, CreatesOK(1) PROVE RunInv'
<1>0. PICK n, v : n = todo[1].n /\ v = todo[1].val
  OBVIOUS
<1>1. ThreadsOK /\ FilesOK /\ ControlRules /\ ThreadTypes /\ TodoOK
  BY DEF RunInv, ControlOK
<1>2. /\ n \in Node /\ NodeOK(n, v) /\ node' \in [Node -> NodeSnapshot] /\ node'[n] = v
      /\ \A m \in Node : m # n => node'[m] = node[m]
      /\ \A i \in DOMAIN todo : todo[i].file = "node" /\ todo[i].n = n => todo[i].val = v
      /\ \A i \in DOMAIN todo' : i + 1 \in DOMAIN todo /\ todo'[i] = todo[i + 1]
  BY <1>0, NodeStepIs
<1>3. /\ n \in Agent /\ Unstarted(node[n]) /\ v.att = node[n].att + 1 /\ v.phase = "running" /\ v.concl = "none"
      /\ node[n].att \in Nat /\ lau[n] = "begin" /\ attempt[n][v.att] = Prepared
  BY <1>0, <1>2 DEF CreatesOK, RunInv, FilesOK, NodeOK
<1>4. UNCHANGED <<run, req, attempt, intent, exec, proc, obs, can, ask, act, hbrec, faults, ctl, lau>>
  BY DEF NodeStep
<1>5. ctl.pc = "launch" /\ ~Planned /\ \A m \in Agent : lau[m] \in {"-", "begin"} /\ can.out[m] = "-"
  BY <1>1 DEF BatchOK, ControlRules, NodeStep, Shifted
<1>6. \A m \in Agent : m \in Node
  BY WorkflowAssumption
<1>7. Current(n)' = Prepared /\ \A m \in Agent : m # n => Current(m)' = Current(m)
  BY <1>2, <1>3, <1>4, <1>6 DEF Current
<1>8. FilesOK'
  <2>1. \A m \in Node : NodeOK(m, node[m])'
    BY <1>1, <1>2 DEF FilesOK, NodeOK
  <2>2. \A m \in Agent : node'[m].att > 0 => Current(m)' \in AttemptSnapshot
    BY <1>1, <1>2, <1>6, <1>7, PreparedIs DEF FilesOK
  <2> QED BY <1>1, <1>2, <1>4, <2>1, <2>2 DEF FilesOK
<1>9. ControlOK'
  <2>1. ThreadTypes'
    BY <1>1, <1>4 DEF ThreadTypes
  <2>2. ~Planned'
    BY <1>4, <1>5 DEF Planned
  <2>3. ControlRules'
    BY <1>1, <1>4, <2>2 DEF ControlRules
  <2> QED BY <2>1, <2>3 DEF ControlOK
<1>10. LaunchesOK'
  <2> SUFFICES ASSUME NEW m \in Agent PROVE LaunchOK(m)'
    BY DEF LaunchesOK
  <2>1. LaunchOK(m) /\ lau'[m] \in {"-", "begin"}
    BY <1>1, <1>4, <1>5 DEF ThreadsOK, LaunchesOK
  <2>2. CASE m = n
    <3>1. node'[m].att > 0 /\ Current(m)' = Prepared
      BY <2>2, <1>2, <1>3, <1>7
    <3>2. Startable(m)' /\ Current(m)'.launch = "prepared" /\ ~Current(m)'.handle
      BY <2>2, <3>1, <1>2, <1>3 DEF Startable, Open, Prepared
    <3>3. Untouched(m)'
      <4>1. Active(m, node)'
        BY <2>2, <3>1, <1>2, <1>3 DEF Active
      <4> QED BY <2>2, <4>1, <1>2 DEF Untouched
    <3> QED BY <2>1, <3>1, <3>2, <3>3 DEF LaunchOK, Dispatched
  <2>3. CASE m # n
    <3>1. node'[m] = node[m] /\ Current(m)' = Current(m)
      BY <2>3, <1>2, <1>6, <1>7
    <3>2. Startable(m)' = Startable(m)
      BY <3>1 DEF Startable, Open
    <3>3. Untouched(m) => Untouched(m)'
      BY <3>1, <1>2 DEF Untouched, Active
    <3>4. Coming(m) => Coming(m)'
      <4> SUFFICES ASSUME Coming(m) PROVE Coming(m)'
        OBVIOUS
      <4>1. PICK i \in DOMAIN todo : CreatesOK(i) /\ todo[i].n = m
        BY DEF Coming
      <4>2. i > 1 /\ i - 1 \in DOMAIN todo' /\ todo'[i - 1] = todo[i]
        <5>1. i \in Nat /\ i >= 1
          BY <1>1 DEF TodoOK
        <5>2. i > 1
          BY <5>1, <4>1, <2>3, <1>0
        <5> QED BY <5>2, <1>1, ShiftIs DEF TodoOK, NodeStep
      <4>3. Terminal(node[n]) => v = node[n]
        BY <1>3 DEF Terminal, Unstarted
      <4>4. CreatesOK(i - 1)'
        BY <1>0, <2>3, <4>1, <4>2, <4>3, CreatesStay
      <4> QED BY <4>1, <4>2, <4>4 DEF Coming
    <3> QED BY <2>1, <3>1, <3>2, <3>3, <3>4, <1>4 DEF LaunchOK, Dispatched
  <2> QED BY <2>2, <2>3
<1>11. ObservationsOK' /\ TargetsOK' /\ RecoverOK'
  BY <1>4, <1>5 DEF ObservationsOK, ObservedOK, TargetsOK, TargetOK, RecoverOK
<1>12. ExecutionsOK'
  <2> SUFFICES ASSUME NEW m \in Agent, NEW k \in 1..MaxAttempts, exec'[m][k] = "live" PROVE ExecOK(m, k)'
    BY DEF ExecutionsOK, ExecOK
  <2>1. ExecOK(m, k)
    BY <1>1 DEF ThreadsOK, ExecutionsOK
  <2>2. node'[m].att = k => Open(node'[m].concl)
    <3>1. CASE m = n
      BY <3>1, <1>2, <1>3 DEF Open
    <3>2. CASE m # n
      BY <3>2, <2>1, <1>2, <1>4, <1>6 DEF ExecOK
    <3> QED BY <3>1, <3>2
  <2> QED BY <2>1, <2>2, <1>4 DEF ExecOK, Open
<1> QED BY <1>8, <1>9, <1>10, <1>11, <1>12, NewTodo DEF RunInv, ThreadsOK

\* What a write does.
LEMMA WriteCases ==
  ASSUME RunInv, Write
  PROVE  \/ Beside
         \/ todo' = <<>> /\ UNCHANGED <<run, node, can>> /\ RunInv'
         \/ NodeStep /\ PlainOK(todo[1])
         \/ NodeStep /\ BatchOK /\ CreatesOK(1)
<1>1. CASE todo[1].file = "node"
  <2>1. NodeStep
    BY <1>1, WriteNodeStep
  <2>2. WriteOK(1)
    BY <2>1, ShiftIs DEF RunInv, TodoOK, NodeStep
  <2> QED BY <1>1, <2>1, <2>2 DEF WriteOK, NewOK
<1>2. CASE todo[1].file = "new" /\ attempt[todo[1].n][todo[1].k] # NoAttempt
  <2>1. Head(todo) = todo[1]
    BY DEF Write, RunInv, TodoOK
  <2>2. UNCHANGED <<run, node, can>>
    BY <1>2, <2>1 DEF Write
  <2> QED BY <1>2, <2>2, StepWriteExists
<1>3. CASE todo[1].file # "node" /\ ~(todo[1].file = "new" /\ attempt[todo[1].n][todo[1].k] # NoAttempt)
  BY <1>3, WriteBeside
<1> QED BY <1>1, <1>2, <1>3

\* Write preserves the invariant.
LEMMA StepWrite == ASSUME RunInv, Write PROVE RunInv'
  BY WriteCases, StepBeside, StepNodeKeeps, StepNodeNew
-----------------------------------------------------------------------------
(***************************************************************************)
(* The invariant.                                                          *)
(***************************************************************************)

\* The invariant holds at first.
LEMMA InitInv == Init => RunInv
<1> SUFFICES ASSUME Init PROVE RunInv
  OBVIOUS
<1>1. Agent \subseteq Node /\ MaxAttempts \in Nat \ {0} /\ MaxFaults \in Nat
  BY WorkflowAssumption, RunAssumption
<1>2. Pending \in NodeSnapshot /\ Pending.phase = "pending" /\ Pending.concl = "none" /\ Pending.att = 0
  BY DEF Pending, NodeSnapshot, NodePhases, Conclusions, Reasons, Results
<1>3. node \in [Node -> NodeSnapshot] /\ \A n \in Node : node[n] = Pending
  BY <1>2 DEF Init
<1>4. FilesOK
  <2>1. run \in WorkflowSnapshot
    BY DEF Init, WorkflowSnapshot, RunPhases, Conclusions, Reasons
  <2>2. \A n \in Node : NodeOK(n, node[n])
    BY <1>1, <1>2, <1>3 DEF NodeOK
  <2>3. attempt \in [Agent -> [1..MaxAttempts -> AttemptSnapshot \cup {NoAttempt}]]
    BY DEF Init
  <2>4. exec \in [Agent -> [1..MaxAttempts -> Executions]]
    BY DEF Init, Executions
  <2>5. req \in CancelRequest
    BY DEF Init, CancelRequest
  <2>6. \A n \in Agent : ~(node[n].att > 0)
    BY <1>1, <1>2, <1>3
  <2> QED BY <1>3, <2>1, <2>2, <2>3, <2>4, <2>5, <2>6 DEF FilesOK
<1>5. ~Planned /\ intent \in actionIntent
  BY NoIntentIs DEF Init, Planned
<1>6. ctl \in ControlStates /\ ctl.pc = "top"
  BY ControllerIs DEF Init, ControlPoints
<1>7. can \in CancelStates /\ can.pc = "off" /\ can.who = "-" /\ \A n \in Agent : can.out[n] = "-"
  BY NoCancelIs DEF Init
<1>8. /\ proc = "up" /\ ask = FALSE /\ act = FALSE /\ hbrec = FALSE /\ faults = 0
      /\ obs = NoObs /\ lau = NoLaunch /\ todo = <<>>
  BY DEF Init
<1>9. ControlOK
  <2>1. obs \in [Agent -> ObsPoints] /\ lau \in [Agent -> LaunchPoints]
    BY <1>8 DEF NoObs, NoLaunch, ObsPoints, LaunchPoints
  <2>2. faults \in 0..MaxFaults
    BY <1>1, <1>8
  <2>3. ThreadTypes
    BY <1>6, <1>7, <1>8, <2>1, <2>2 DEF ThreadTypes
  <2>4. ControlRules
    BY <1>5, <1>6, <1>7, <1>8 DEF ControlRules
  <2> QED BY <2>3, <2>4 DEF ControlOK
<1>10. TodoOK
  <2>1. todo \in Seq(Writes) /\ \A i \in DOMAIN todo : FALSE
    BY <1>8, NoElement
  <2> QED BY <2>1, <1>5 DEF TodoOK, AgreeOK, IntentOK
<1>11. ThreadsOK
  <2>1. \A n \in Agent, k \in 1..MaxAttempts : exec[n][k] # "live"
    BY DEF Init
  <2>2. ExecutionsOK
    BY <2>1 DEF ExecutionsOK, ExecOK
  <2>3. LaunchesOK
    BY <1>8, NoLaunchIs DEF LaunchesOK, LaunchOK, Dispatched
  <2>4. ObservationsOK /\ TargetsOK /\ RecoverOK
    BY <1>6, <1>7 DEF ObservationsOK, ObservedOK, TargetsOK, TargetOK, RecoverOK
  <2> QED BY <2>2, <2>3, <2>4 DEF ThreadsOK
<1> QED BY <1>4, <1>9, <1>10, <1>11 DEF RunInv

\* It holds when nothing happens.
LEMMA Stuttering == ASSUME RunInv, UNCHANGED vars PROVE RunInv'
<1>1. /\ UNCHANGED <<node, attempt, exec, lau, todo, intent, run, req, act, can, ctl, obs, proc, ask, hbrec, faults>>
  BY DEF vars
<1>2. FilesOK /\ ControlOK /\ TodoOK
  BY DEF RunInv
<1>3. run' \in WorkflowSnapshot /\ req' \in CancelRequest
  BY <1>1, <1>2 DEF FilesOK
<1>4. ControlOK'
  <2>1. ThreadTypes'
    BY <1>1, <1>2 DEF ControlOK, ThreadTypes
  <2>2. Planned' = Planned
    BY <1>1 DEF Planned
  <2> QED BY <1>1, <1>2, <2>1, <2>2 DEF ControlOK, ControlRules
<1>5. TodoOK'
  BY <1>1, TodoBeside
<1> QED BY <1>1, <1>3, <1>4, <1>5, Quiet

\* It is preserved by the steps for one Agent,
LEMMA StepAgent ==
  ASSUME RunInv, NEW n \in Agent,
         \/ ObserveLocal(n) \/ ObserveActive(n) \/ ObserveEnd(n) \/ ObserveGone(n) \/ ObserveTrouble(n)
         \/ LaunchBegin(n) \/ LaunchStart(n) \/ LaunchPersist(n) \/ CancelTarget(n)
  PROVE  RunInv'
  BY StepObserveLocal, StepObserveActive, StepObserveEnd, StepObserveGone, StepObserveTrouble,
     StepLaunchBegin, StepLaunchStart, StepLaunchPersist, StepCancelTarget

\* by the steps of the engine,
LEMMA StepEngine == ASSUME RunInv, Engine PROVE RunInv'
<1>1. CASE Write
  BY <1>1, StepWrite
<1>2. CASE ControlTop \/ ReconcileApply \/ ReconcileEnd \/ ScheduleBatch
  BY <1>2, StepControlTop, StepReconcileApply, StepReconcileEnd, StepScheduleBatch
<1>3. CASE LaunchSettle \/ PauseOnError \/ ControllerExit
  BY <1>3, StepLaunchSettle, StepPauseOnError, StepControllerExit
<1>4. CASE HeartbeatRecover \/ HeartbeatHandsOff
  BY <1>4, StepHeartbeatRecover, StepHeartbeatHandsOff
<1>5. CASE MonitorFinds \/ CancelMark \/ CancelApply \/ CancelResolve
  BY <1>5, StepMonitorFinds, StepCancelMark, StepCancelApply, StepCancelResolve
<1>6. CASE RecoverMark \/ RecoverTarget \/ RecoverCancel \/ RecoverFails \/ RecoverFinal
  BY <1>6, StepRecoverMark, StepRecoverTarget, StepRecoverCancel, StepRecoverFails, StepRecoverFinal
<1>7. CASE ActionStartsController \/ Restart \/ ReplayAction \/ Recover
  BY <1>7, StepActionStartsController, StepRestart, StepReplayAction, StepRecover
<1>8. CASE \E n \in Agent :
             \/ ObserveLocal(n) \/ ObserveActive(n) \/ ObserveEnd(n)
             \/ ObserveGone(n) \/ ObserveTrouble(n)
             \/ LaunchBegin(n) \/ LaunchStart(n) \/ LaunchPersist(n)
             \/ CancelTarget(n)
  BY <1>8, StepAgent
<1> QED BY <1>1, <1>2, <1>3, <1>4, <1>5, <1>6, <1>7, <1>8 DEF Engine

\* and by what callers and the environment do.
LEMMA StepOutside == ASSUME RunInv, Outside PROVE RunInv'
<1>1. CASE HeartbeatFails \/ CancelAsk \/ CancelReturns \/ CancelTakesLease \/ Crash
  BY <1>1, StepHeartbeatFails, StepCancelAsk, StepCancelReturns, StepCancelTakesLease, StepCrash
<1>2. CASE \E n \in Node : \E d \in {"approved", "rejected"} : Decide(n, d)
  BY <1>2, StepDecide
<1>3. CASE \E n \in Node : DecideAgain(n) \/ Retry(n) \/ Answer(n)
  <2>1. PICK n \in Node : DecideAgain(n) \/ Retry(n) \/ Answer(n)
    BY <1>3
  <2> QED BY <2>1, StepDecideAgain, StepRetry
<1> QED BY <1>1, <1>2, <1>3 DEF Outside

\* The invariant holds of every Run, whatever its workflow, its callers and its
\* faults: at every write and at every crash between two writes.
THEOREM RunInvariant == Spec => []RunInv
<1>1. RunInv /\ [Next]_vars => RunInv'
  BY StepEngine, StepOutside, Stuttering DEF Next
<1> QED BY <1>1, InitInv, PTL DEF Spec

\* The snapshots, the writes that are due and the threads of a Run are typed.
THEOREM RunTyped == Spec => []TypeOK
<1>1. RunInv => TypeOK
  BY DEF RunInv, FilesOK, ControlOK, ThreadTypes, TodoOK, IntentOK, TypeOK, ControlStates, CancelStates
<1> QED BY RunInvariant, <1>1, PTL

\* An execution that runs was dispatched, and neither its Attempt nor its node
\* has a conclusion other than indeterminate (cancelTarget, finishResult,
\* finishIndeterminate, applyCancellationOutcomes against the launches).
THEOREM ConcludedExecutionsAreOver == Spec => []ConcludedIsOver
<1>1. RunInv => ConcludedIsOver
  <2> SUFFICES ASSUME RunInv, NEW x \in Live
               PROVE  LET n == x[1]
                          k == x[2]
                      IN  /\ attempt[n][k] # NoAttempt
                          /\ attempt[n][k].launch # "prepared"
                          /\ attempt[n][k].concl \in {"none", "indeterminate"}
                          /\ node[n].att = k => node[n].concl \in {"none", "indeterminate"}
    BY DEF ConcludedIsOver
  <2>1. PICK n, k : n = x[1] /\ k = x[2]
    OBVIOUS
  <2>2. n \in Agent /\ k \in 1..MaxAttempts /\ exec[n][k] = "live"
    BY <2>1 DEF Live
  <2>3. ExecOK(n, k)
    BY <2>2 DEF RunInv, ThreadsOK, ExecutionsOK
  <2> QED BY <2>1, <2>2, <2>3 DEF ExecOK, Open
<1> QED BY RunInvariant, <1>1, PTL
-----------------------------------------------------------------------------
(***************************************************************************)
(* What a step does to the nodes.                                          *)
(***************************************************************************)

\* A step that writes no node: it adds no target of a cancellation that is not
\* active, and what it leaves to be written creates no Attempt.
Resting ==
  /\ node' = node
  /\ \A n \in Agent : can'.out[n] # "-" => can.out[n] # "-" \/ Active(n, node)
  /\ todo' = todo \/ AllPlain'

\* Where nothing is due, nothing is created.
LEMMA EmptyPlain == ASSUME todo' = <<>> PROVE AllPlain'
  BY NoElement DEF AllPlain

\* The steps for one Agent write no node,
LEMMA RestingAgent ==
  ASSUME RunInv, NEW n \in Agent,
         \/ ObserveLocal(n) \/ ObserveActive(n) \/ ObserveEnd(n) \/ ObserveGone(n) \/ ObserveTrouble(n)
         \/ LaunchBegin(n) \/ LaunchStart(n) \/ LaunchPersist(n) \/ CancelTarget(n)
  PROVE  Resting
<1>1. CASE ObserveLocal(n) \/ ObserveActive(n) \/ ObserveEnd(n) \/ ObserveGone(n) \/ ObserveTrouble(n)
  BY <1>1 DEF ObserveLocal, ObserveActive, ObserveEnd, ObserveGone, ObserveTrouble, Observed, disk, Resting
<1>2. CASE LaunchBegin(n) \/ LaunchStart(n) \/ LaunchPersist(n)
  BY <1>2 DEF LaunchBegin, LaunchStart, LaunchPersist, disk, Resting
<1>3. CASE CancelTarget(n)
  <2>1. can.out[n] = "wait" /\ UNCHANGED <<node, todo>>
    BY <1>3 DEF CancelTarget, disk
  <2>2. PICK o : can' = [can EXCEPT !.out[n] = o]
    BY <1>3 DEF CancelTarget
  <2>3. \A m \in Agent : m # n => can'.out[m] = can.out[m]
    BY <2>2 DEF RunInv, ControlOK, ThreadTypes, CancelStates
  <2> QED BY <2>1, <2>3 DEF Resting
<1> QED BY <1>1, <1>2, <1>3

\* nor do those of a cancellation,
LEMMA RestingCancel == ASSUME RunInv, MonitorFinds \/ CancelMark \/ CancelResolve PROVE Resting
<1>1. can \in CancelStates
  BY DEF RunInv, ControlOK, ThreadTypes
<1>2. CASE MonitorFinds
  <2>1. UNCHANGED <<node, todo>> /\ can'.out = can.out
    BY <1>1, <1>2 DEF MonitorFinds, disk, CancelStates
  <2> QED BY <2>1 DEF Resting
<1>3. CASE CancelResolve
  BY <1>3, NoCancelIs DEF CancelResolve, disk, Resting
<1>4. CASE CancelMark
  <2>1. UNCHANGED <<node, todo>>
    BY <1>4 DEF CancelMark
  <2>2. \A n \in Agent : can'.out[n] # "-" => can.out[n] # "-" \/ Active(n, node)
    <3>1. CASE req = "stale"
      <4>1. can' = [can EXCEPT !.pc = "resolve"]
        BY <1>4, <3>1 DEF CancelMark
      <4>2. can'.out = can.out
        BY <1>1, <4>1 DEF CancelStates
      <4> QED BY <4>2
    <3>2. CASE req # "stale"
      <4> DEFINE out == [n \in Agent |-> IF /\ run.phase # "completed"
                                            /\ n \in {m \in findActiveAttempts(node) : Current(m).concl # "cancelled"}
                                         THEN "wait" ELSE "-"]
      <4>1. can' = [can EXCEPT !.pc = "targets", !.out = out]
        BY <1>4, <3>2 DEF CancelMark
      <4>2. \A n \in Agent : out[n] # "-" => Active(n, node)
        BY DEF findActiveAttempts
      <4> HIDE DEF out
      <4>3. can'.out = out
        BY <1>1, <4>1 DEF CancelStates
      <4> QED BY <4>2, <4>3
    <3> QED BY <3>1, <3>2
  <2> QED BY <2>1, <2>2 DEF Resting
<1> QED BY <1>2, <1>3, <1>4

\* nor the other steps of the engine but the writes and the batches,
LEMMA RestingEngine == ASSUME RunInv, Engine PROVE Resting \/ Write \/ ScheduleBatch
<1>1. CASE ControlTop \/ ReconcileEnd \/ PauseOnError \/ ControllerExit
  BY <1>1 DEF ControlTop, ReconcileEnd, PauseOnError, ControllerExit, disk, Resting
<1>2. CASE ReconcileApply
  BY <1>2, StepReconcileApply DEF ReconcileApply, disk, Resting
<1>3. CASE LaunchSettle
  BY <1>3, StepLaunchSettle DEF LaunchSettle, disk, Resting
<1>4. CASE HeartbeatRecover \/ HeartbeatHandsOff
  BY <1>4 DEF HeartbeatRecover, HeartbeatHandsOff, disk, Resting
<1>5. CASE MonitorFinds \/ CancelMark \/ CancelResolve
  BY <1>5, RestingCancel
<1>6. CASE CancelApply
  <2>1. AllPlain' /\ node' = node /\ can' = [can EXCEPT !.pc = "resolve"]
    BY <1>6, StepCancelApply DEF CancelApply, disk
  <2>2. can'.out = can.out
    BY <2>1 DEF RunInv, ControlOK, ThreadTypes, CancelStates
  <2> QED BY <2>1, <2>2 DEF Resting
<1>7. CASE RecoverMark \/ RecoverTarget \/ RecoverCancel \/ RecoverFails
  BY <1>7 DEF RecoverMark, RecoverTarget, RecoverCancel, RecoverFails, disk, Resting
<1>8. CASE RecoverFinal
  BY <1>8, StepRecoverFinal DEF RecoverFinal, disk, Resting
<1>9. CASE ActionStartsController \/ Restart \/ Recover
  BY <1>9 DEF ActionStartsController, Restart, Recover, disk, Resting
<1>10. CASE ReplayAction
  BY <1>10, StepReplayAction DEF ReplayAction, disk, Resting
<1>11. CASE \E n \in Agent :
             \/ ObserveLocal(n) \/ ObserveActive(n) \/ ObserveEnd(n)
             \/ ObserveGone(n) \/ ObserveTrouble(n)
             \/ LaunchBegin(n) \/ LaunchStart(n) \/ LaunchPersist(n)
             \/ CancelTarget(n)
  BY <1>11, RestingAgent
<1> QED BY <1>1, <1>2, <1>3, <1>4, <1>5, <1>6, <1>7, <1>8, <1>9, <1>10, <1>11 DEF Engine

\* nor what callers and the environment do.
LEMMA RestingOutside == ASSUME RunInv, Outside PROVE Resting
<1>1. CASE HeartbeatFails \/ CancelAsk \/ CancelReturns
  BY <1>1 DEF HeartbeatFails, CancelAsk, CancelReturns, disk, Resting
<1>2. CASE CancelTakesLease
  <2>1. UNCHANGED <<node, todo>> /\ can'.out = can.out
    BY <1>2 DEF CancelTakesLease, disk, RunInv, ControlOK, ThreadTypes, CancelStates
  <2> QED BY <2>1 DEF Resting
<1>3. CASE Crash
  BY <1>3, NoCancelIs, EmptyPlain DEF Crash, disk, Resting
<1>4. CASE \E n \in Node : \E d \in {"approved", "rejected"} : Decide(n, d)
  <2>1. PICK n \in Node : \E d \in {"approved", "rejected"} : Decide(n, d)
    BY <1>4
  <2>2. PICK d \in {"approved", "rejected"} : Decide(n, d)
    BY <2>1
  <2>3. AllPlain'
    BY <2>2, StepDecide
  <2>4. UNCHANGED <<node, can>>
    BY <2>2 DEF Decide, BeginAction, disk
  <2> QED BY <2>3, <2>4 DEF Resting
<1>5. CASE \E n \in Node : DecideAgain(n) \/ Retry(n) \/ Answer(n)
  <2>1. PICK n \in Node : DecideAgain(n) \/ Retry(n) \/ Answer(n)
    BY <1>5
  <2>2. AllPlain'
    BY <2>1, StepDecideAgain, StepRetry
  <2>3. UNCHANGED <<node, can>>
    BY <2>1 DEF DecideAgain, Retry, Answer, Reopen, BeginAction, disk
  <2> QED BY <2>2, <2>3 DEF Resting
<1> QED BY <1>1, <1>2, <1>3, <1>4, <1>5 DEF Outside

\* Every step is one of these, a write, or a batch.
LEMMA RestingStep ==
  ASSUME RunInv, [Next]_vars
  PROVE  Resting \/ Write \/ ScheduleBatch
<1>1. CASE UNCHANGED vars
  BY <1>1 DEF vars, Resting
<1> QED BY <1>1, RestingEngine, RestingOutside DEF Next

\* A step leaves a node alone, keeps its Attempt, or gives it the next one.
LEMMA NodeSteps ==
  ASSUME RunInv, [Next]_vars
  PROVE  \/ node' = node
         \/ NodeStep /\ PlainOK(todo[1])
         \/ NodeStep /\ BatchOK /\ CreatesOK(1)
<1>1. CASE Resting
  BY <1>1 DEF Resting
<1>2. CASE ScheduleBatch
  BY <1>2 DEF ScheduleBatch, disk
<1>3. CASE Write
  BY <1>3, WriteCases DEF Beside
<1> QED BY <1>1, <1>2, <1>3, RestingStep

\* No step touches a node that succeeded (finishResult against
\* applyCancellationOutcomes and the replay of an action).
THEOREM SucceededStays == Spec => SucceededIsFinal
<1>1. ASSUME RunInv, [Next]_vars, NEW m \in Node, node[m].concl = "succeeded" PROVE node'[m] = node[m]
  <2>1. PICK n, v : n = todo[1].n /\ v = todo[1].val
    OBVIOUS
  <2>2. NodeStep => /\ n \in Node /\ node'[n] = v
                    /\ \A k \in Node : k # n => node'[k] = node[k]
    BY <1>1, <2>1, NodeStepIs
  <2>3. CASE NodeStep /\ PlainOK(todo[1])
    <3>1. node[n].concl = "succeeded" => v = node[n]
      BY <2>1, <2>3 DEF PlainOK, NodeWriteOK, NodeStep
    <3> QED BY <1>1, <2>2, <2>3, <3>1
  <2>4. CASE NodeStep /\ CreatesOK(1)
    <3>1. Unstarted(node[n]) /\ NodeOK(n, node[n])
      BY <1>1, <2>1, <2>2, <2>4 DEF CreatesOK, RunInv, FilesOK
    <3>2. node[n].concl = "none"
      BY <3>1 DEF Unstarted, NodeOK
    <3> QED BY <1>1, <2>2, <2>4, <3>2
  <2> QED BY <1>1, <2>3, <2>4, NodeSteps
<1>2. RunInv /\ [Next]_vars => [\A n \in Node : node[n].concl = "succeeded" => node'[n] = node[n]]_vars
  BY <1>1
<1> QED BY RunInvariant, <1>2, PTL DEF Spec, SucceededIsFinal

\* A node gets an Attempt only after its dependencies have ended (PlanSchedule,
\* beginAttempt): what the batch decided still holds when the node is written.
THEOREM DependenciesEndFirst == Spec => StartsAfterDeps
<1>1. ASSUME RunInv, [Next]_vars, NEW m \in Node, node'[m].att > node[m].att PROVE DepsOver(m)
  <2>1. PICK n, v : n = todo[1].n /\ v = todo[1].val
    OBVIOUS
  <2>2. NodeStep => /\ n \in Node /\ node'[n] = v
                    /\ \A k \in Node : k # n => node'[k] = node[k]
    BY <1>1, <2>1, NodeStepIs
  <2>3. \A k \in Node : node[k].att \in Nat
    BY <1>1 DEF RunInv, FilesOK, NodeOK
  <2>4. CASE node' = node
    BY <1>1, <2>3, <2>4
  <2>5. CASE NodeStep /\ PlainOK(todo[1])
    <3>1. node'[m].att = node[m].att
      BY <1>1, <2>5, NodeKeeps
    <3> QED BY <1>1, <2>3, <3>1
  <2>6. CASE NodeStep /\ CreatesOK(1)
    <3>1. DepsOver(n)
      BY <2>1, <2>6 DEF CreatesOK
    <3>2. m = n
      BY <1>1, <2>2, <2>3, <2>6
    <3> QED BY <3>1, <3>2
  <2> QED BY <1>1, <2>4, <2>5, <2>6, NodeSteps
<1>2. RunInv /\ [Next]_vars =>
        [\A n \in Node : node'[n].att > node[n].att =>
           \A d \in Deps[n] : /\ Terminal(node[d])
                              /\ node[d].concl \in Failing => When[n] # NoCondition]_vars
  BY <1>1 DEF DepsOver
<1> QED BY RunInvariant, <1>2, PTL DEF Spec, StartsAfterDeps
-----------------------------------------------------------------------------
(***************************************************************************)
(* The limit of the active Agents.                                         *)
(***************************************************************************)

\* The effective limit is a number.
LEMMA LimitType == EffectiveConcurrency \in Nat /\ EffectiveConcurrency > 0
<1> DEFINE limits == {FishyumeSafetyConcurrencyCeiling, MaxConcurrency} \cup
                     (IF BackendLimit > 0 THEN {BackendLimit} ELSE {})
<1>1. limits \subseteq Nat /\ limits # {} /\ \A l \in limits : l > 0
  BY WorkflowAssumption DEF FishyumeSafetyConcurrencyCeiling
<1>2. EffectiveConcurrency = CHOOSE l \in limits : \A k \in limits : l <= k
  BY DEF EffectiveConcurrency
<1> HIDE DEF limits
<1>3. \E l \in limits : \A k \in limits : l <= k
  BY <1>1, LeastElement
<1> QED BY <1>1, <1>2, <1>3

\* There are finitely many Agents.
LEMMA AgentsFinite ==
  /\ IsFiniteSet(Agent)
  /\ \A S \in SUBSET Agent : IsFiniteSet(S) /\ Cardinality(S) \in Nat
<1>1. IsFiniteSet(Node) /\ Agent \in SUBSET Node
  BY WorkflowAssumption
<1>2. IsFiniteSet(Agent)
  BY <1>1, FS_Subset
<1>3. \A S \in SUBSET Agent : IsFiniteSet(S)
  BY <1>2, FS_Subset
<1> QED BY <1>2, <1>3, FS_CardinalityType

\* A subset has no more Agents.
LEMMA Fewer == ASSUME NEW S \in SUBSET Agent, NEW T \in SUBSET S PROVE Cardinality(T) <= Cardinality(S)
  BY AgentsFinite, FS_Subset

\* The Agents that PlanSchedule starts fit into the free slots: all but the
\* last of them come before it in the order.
LEMMA ReadyFits == ASSUME Free \in Int PROVE Cardinality(Ready) <= Free \/ Ready = {}
<1> DEFINE E == Eligible \cap Agent
           Earlier(n) == {m \in E : Before(m, n)}
<1>1. Ready = {n \in E : Cardinality(Earlier(n)) < Free}
  BY DEF Ready
<1>2. SUFFICES ASSUME Ready # {} PROVE Cardinality(Ready) <= Free
  OBVIOUS
<1>3. Len(Order) \in Nat /\ DOMAIN Order = 1..Len(Order) /\ \A n \in Node : \E i \in DOMAIN Order : Order[i] = n
  BY OrderIsSeq, WorkflowAssumption
<1> DEFINE T == {i \in 1..Len(Order) : Order[i] \in Ready}
<1>4. Ready \in SUBSET Node /\ Ready \in SUBSET Agent /\ E \in SUBSET Agent
  BY <1>1, WorkflowAssumption
<1>5. T # {} /\ T \in SUBSET (1..Len(Order))
  <2>1. PICK n \in Ready : TRUE
    BY <1>2
  <2>2. PICK i \in DOMAIN Order : Order[i] = n
    BY <2>1, <1>3, <1>4
  <2>3. i \in T
    BY <2>1, <2>2, <1>3
  <2> QED BY <2>3
<1>6. PICK i \in T : \A k \in T : k <= i
  <2> HIDE DEF T
  <2> QED BY <1>3, <1>5, LargestElement
<1>7. PICK x : x = Order[i]
  OBVIOUS
<1>8. x \in Ready /\ Cardinality(Earlier(x)) < Free
  BY <1>1, <1>6, <1>7
<1>9. ASSUME NEW m \in Ready, m # x PROVE m \in Earlier(x)
  <2>1. PICK j \in DOMAIN Order : Order[j] = m
    BY <1>3, <1>4
  <2>2. j \in T /\ j # i
    BY <2>1, <1>3, <1>7, <1>9
  <2>3. j < i /\ i \in DOMAIN Order
    BY <2>2, <1>3, <1>6
  <2>4. Before(m, x)
    BY <2>1, <2>3, <1>7 DEF Before
  <2> QED BY <2>4, <1>1
<1>10. Ready \ {x} \in SUBSET Earlier(x) /\ Earlier(x) \in SUBSET Agent
  BY <1>4, <1>9
<1> HIDE DEF E, Earlier, T
<1>11. Cardinality(Ready \ {x}) <= Cardinality(Earlier(x))
  BY <1>10, Fewer
<1>12. Cardinality(Ready \ {x}) = Cardinality(Ready) - 1 /\ Cardinality(Ready) \in Nat
  BY <1>4, <1>8, AgentsFinite, FS_RemoveElement
<1>13. Cardinality(Earlier(x)) \in Nat
  BY <1>10, AgentsFinite
<1> QED BY <1>8, <1>11, <1>12, <1>13

\* The slots can be counted.
LEMMA SlotsType == Slots \in SUBSET Agent /\ Cardinality(Slots) \in Nat
<1>1. Slots \in SUBSET Agent
  BY DEF Slots
<1> QED BY <1>1, AgentsFinite

\* No step but that of a batch takes a slot.
LEMMA SlotsShrink ==
  ASSUME RunInv, [Next]_vars, ~ScheduleBatch
  PROVE  Slots' \subseteq Slots
<1> SUFFICES ASSUME NEW m \in Agent, Active(m, node)' \/ can'.out[m] # "-" \/ Creating(m)'
             PROVE  Active(m, node) \/ can.out[m] # "-" \/ Creating(m)
  BY DEF Slots
<1>0. m \in Node
  BY WorkflowAssumption
<1>1. CASE Resting
  <2>1. Active(m, node)' = Active(m, node)
    BY <1>1 DEF Active, Resting
  <2>2. Creating(m)' => Creating(m)
    <3>1. CASE todo' = todo
      BY <1>1, <3>1 DEF Creating, Resting
    <3>2. CASE AllPlain'
      <4>1. ~Creating(m)'
        BY <3>2 DEF AllPlain, PlainOK, NodeWriteOK, Creating
      <4> QED BY <4>1
    <3> QED BY <1>1, <3>1, <3>2 DEF Resting
  <2> QED BY <1>1, <2>1, <2>2 DEF Resting
<1>2. CASE Beside
  <2>1. Active(m, node)' = Active(m, node) /\ UNCHANGED <<node, can>>
    BY <1>2 DEF Active, Beside
  <2>2. \A i \in DOMAIN todo' : i + 1 \in DOMAIN todo /\ todo'[i] = todo[i + 1]
    BY <1>2, ShiftIs DEF RunInv, TodoOK, Beside
  <2> QED BY <2>1, <2>2 DEF Creating
<1>3. CASE todo' = <<>> /\ UNCHANGED <<run, node, can>>
  <2>1. ~Creating(m)' /\ Active(m, node)' = Active(m, node)
    BY <1>3, NoElement DEF Creating, Active
  <2> QED BY <1>3, <2>1
<1>4. CASE NodeStep /\ PlainOK(todo[1])
  <2>1. PICK n, v : n = todo[1].n /\ v = todo[1].val
    OBVIOUS
  <2>2. /\ n \in Node /\ node'[n] = v /\ \A k \in Node : k # n => node'[k] = node[k]
        /\ \A i \in DOMAIN todo' : i + 1 \in DOMAIN todo /\ todo'[i] = todo[i + 1]
    BY <1>4, <2>1, NodeStepIs
  <2>3. node'[m].att = node[m].att /\ can' = can
    BY <1>0, <1>4, NodeKeeps DEF NodeStep
  <2>4. Active(m, node)' => Active(m, node) \/ can.out[m] # "-"
    <3>1. CASE m = n
      BY <1>4, <2>1, <2>2, <3>1 DEF PlainOK, NodeWriteOK, NodeStep, Active
    <3>2. CASE m # n
      BY <1>0, <2>2, <3>2 DEF Active
    <3> QED BY <3>1, <3>2
  <2>5. Creating(m)' => Creating(m)
    BY <2>2, <2>3 DEF Creating
  <2> QED BY <2>3, <2>4, <2>5
<1>5. CASE NodeStep /\ BatchOK /\ CreatesOK(1)
  <2>1. PICK n, v : n = todo[1].n /\ v = todo[1].val
    OBVIOUS
  <2>2. /\ n \in Node /\ node'[n] = v /\ \A k \in Node : k # n => node'[k] = node[k]
        /\ \A i \in DOMAIN todo' : i + 1 \in DOMAIN todo /\ todo'[i] = todo[i + 1]
    BY <1>5, <2>1, NodeStepIs
  <2>3. CASE m = n
    <3>1. 1 \in DOMAIN todo /\ todo[1].file = "node" /\ v.att = node[n].att + 1 /\ node[n].att \in Nat
      BY <1>5, <2>1, <2>2, ShiftIs DEF NodeStep, RunInv, TodoOK, FilesOK, NodeOK, CreatesOK
    <3>2. v.att # node[n].att
      BY <3>1
    <3> QED BY <2>1, <2>3, <3>1, <3>2 DEF Creating
  <2>4. CASE m # n
    <3>1. node'[m] = node[m] /\ can' = can
      BY <1>0, <1>5, <2>2, <2>4 DEF NodeStep
    <3> QED BY <2>2, <3>1 DEF Creating, Active
  <2> QED BY <2>3, <2>4
<1> QED BY <1>1, <1>2, <1>3, <1>4, <1>5, RestingStep, WriteCases

\* A batch takes the free slots only.
LEMMA SlotsOfBatch ==
  ASSUME RunInv, ScheduleBatch, SlotsOK
  PROVE  SlotsOK'
<1> DEFINE A == findActiveAttempts(node)
<1>0. UNCHANGED <<node, can>>
  BY DEF ScheduleBatch, disk
<1>1. \A n \in Agent : n \in Node /\ (Active(n, node)' <=> n \in A)
  BY <1>0, WorkflowAssumption DEF Active, findActiveAttempts
<1>2. A \in SUBSET Agent /\ A \in SUBSET Slots /\ Slots \in SUBSET Agent
  BY DEF findActiveAttempts, Slots, Active
<1>3. Cardinality(A) <= Cardinality(Slots) /\ Cardinality(A) \in Nat /\ IsFiniteSet(A)
  BY <1>2, Fewer, AgentsFinite
<1>4. EffectiveConcurrency \in Nat /\ Cardinality(Slots) \in Nat
  BY LimitType, SlotsType
<1>5. CASE AllPlain'
  <2>1. \A n \in Agent : ~Creating(n)'
    BY <1>5 DEF AllPlain, PlainOK, NodeWriteOK, Creating
  <2>2. Slots' \in SUBSET Slots
    BY <1>0, <1>1, <1>2, <2>1 DEF Slots
  <2>3. Cardinality(Slots') <= Cardinality(Slots) /\ Cardinality(Slots') \in Nat
    BY <2>2, <1>2, Fewer, AgentsFinite
  <2> QED BY <1>4, <2>3 DEF SlotsOK
<1>6. CASE Allowed /\ \A n \in Agent : Creating(n)' => n \in Ready
  <2>1. \A n \in Agent : can.out[n] = "-"
    BY <1>6 DEF Allowed, RunInv, ThreadsOK, TargetsOK, TargetOK
  <2>2. Slots' \in SUBSET (A \cup Ready)
    BY <1>0, <1>1, <1>6, <2>1 DEF Slots
  <2>3. Ready \in SUBSET Agent
    BY DEF Ready
  <2>4. Free = EffectiveConcurrency - Cardinality(A) /\ Free \in Int
    BY <1>3, <1>4 DEF Free
  <2> HIDE DEF A
  <2>5. Cardinality(Ready) <= Free \/ Ready = {}
    BY <2>4, ReadyFits
  <2>6. /\ IsFiniteSet(Ready) /\ Cardinality(Ready) \in Nat
        /\ IsFiniteSet(A \cap Ready) /\ Cardinality(A \cap Ready) \in Nat
    <3>1. A \cap Ready \in SUBSET Agent
      BY <2>3
    <3> QED BY <2>3, <3>1, AgentsFinite
  <2>7. Cardinality(A \cup Ready) = Cardinality(A) + Cardinality(Ready) - Cardinality(A \cap Ready)
    BY <1>3, <2>6, FS_Union
  <2>8. A \cup Ready \in SUBSET Agent
    BY <1>2, <2>3
  <2>9. Cardinality(Slots') <= Cardinality(A \cup Ready) /\ Cardinality(Slots') \in Nat
    <3>1. Slots' \in SUBSET Agent
      BY <2>2, <2>8
    <3> QED BY <2>2, <2>8, <3>1, Fewer, AgentsFinite
  <2>10. Ready = {} => Cardinality(Ready) = 0
    BY FS_EmptySet
  <2> QED BY <1>3, <1>4, <2>4, <2>5, <2>6, <2>7, <2>9, <2>10 DEF SlotsOK
<1> QED BY <1>5, <1>6, StepScheduleBatch

\* The Agents that are active, are being started, or may become active again by
\* a cancellation that failed, never exceed the effective limit.
THEOREM SlotsInvariant == Spec => []SlotsOK
<1>1. Init => SlotsOK
  <2> SUFFICES ASSUME Init PROVE SlotsOK
    OBVIOUS
  <2>1. \A n \in Agent : ~Active(n, node) /\ can.out[n] = "-" /\ ~Creating(n)
    <3>1. \A n \in Agent : node[n].att = 0
      BY WorkflowAssumption DEF Init, Pending
    <3>2. \A n \in Agent : can.out[n] = "-"
      BY NoCancelIs DEF Init
    <3>3. \A n \in Agent : ~Creating(n)
      BY NoElement DEF Init, Creating
    <3> QED BY <3>1, <3>2, <3>3 DEF Active
  <2>2. Slots = {}
    BY <2>1 DEF Slots
  <2>3. Cardinality(Slots) = 0
    BY <2>2, FS_EmptySet
  <2> QED BY <2>3, LimitType DEF SlotsOK
<1>2. RunInv /\ SlotsOK /\ [Next]_vars => SlotsOK'
  <2> SUFFICES ASSUME RunInv, SlotsOK, [Next]_vars PROVE SlotsOK'
    OBVIOUS
  <2>1. CASE ScheduleBatch
    BY <2>1, SlotsOfBatch
  <2>2. CASE ~ScheduleBatch
    <3>1. Slots' \in SUBSET Slots /\ Slots \in SUBSET Agent /\ Cardinality(Slots) \in Nat
      BY <2>2, SlotsShrink, SlotsType
    <3>2. Cardinality(Slots') <= Cardinality(Slots) /\ Cardinality(Slots') \in Nat
      BY <3>1, Fewer, AgentsFinite
    <3> QED BY <3>1, <3>2, LimitType DEF SlotsOK
  <2> QED BY <2>1, <2>2
<1> QED BY <1>1, <1>2, RunInvariant, PTL DEF Spec

\* The active Agents never exceed the effective limit (EffectiveConcurrency,
\* PlanSchedule): the slots that a batch counted as free stay free until its
\* Attempts are written.
THEOREM LimitHolds == Spec => []LimitRespected
<1>1. SlotsOK => LimitRespected
  <2> SUFFICES ASSUME SlotsOK PROVE LimitRespected
    OBVIOUS
  <2> DEFINE A == {n \in Agent : node[n].phase \in {"running", "waiting"} /\ node[n].att > 0}
  <2>1. A \in SUBSET Slots
    BY DEF Slots, Active
  <2>2. A \in SUBSET Agent
    OBVIOUS
  <2> HIDE DEF A
  <2>3. Cardinality(A) <= Cardinality(Slots) /\ Cardinality(A) \in Nat /\ Cardinality(Slots) \in Nat
    BY <2>1, <2>2, SlotsType, Fewer, AgentsFinite
  <2>4. Cardinality(A) <= EffectiveConcurrency
    BY <2>3, LimitType DEF SlotsOK
  <2> QED BY <2>4 DEF LimitRespected, A
<1> QED BY SlotsInvariant, <1>1, PTL

-----------------------------------------------------------------------------
(***************************************************************************)
(* The end of a Run.                                                       *)
(***************************************************************************)

\* Nothing that matters to the end changes.
LEMMA EndsSame ==
  ASSUME EndsOK, UNCHANGED <<run, node, intent, todo, act>>
  PROVE  EndsOK'
<1>1. CompletesOK'
  BY DEF EndsOK, CompletesOK, EndsAll, OfNode
<1>2. CompletedOK' /\ (Uncancelled => RunEndsKnown')
  BY DEF EndsOK, CompletedOK, RunEndsKnown, Planned
<1>3. ActionOK'
  BY DEF EndsOK, ActionOK, Planned
<1> QED BY <1>1, <1>2, <1>3 DEF EndsOK

\* Nothing is due afterwards, and nobody completes the Run.
LEMMA EndsEmpty ==
  ASSUME EndsOK, UNCHANGED <<node, intent>>, todo' = <<>>, ~act',
         run' = run \/ run'.phase # "completed"
  PROVE  EndsOK'
<1>1. CompletesOK'
  BY NoElement DEF CompletesOK
<1>2. Uncancelled => RunEndsKnown'
  BY DEF EndsOK, RunEndsKnown, Planned
<1> QED BY <1>1, <1>2 DEF EndsOK, CompletedOK, ActionOK

\* The writes of a Run that is not completed begin.
LEMMA EndsBegun ==
  ASSUME EndsOK, UNCHANGED <<run, node, intent>>, ~act', run.phase # "completed", CompletesOK'
  PROVE  EndsOK'
  BY DEF EndsOK, CompletedOK, ActionOK, RunEndsKnown

\* The request for a cancellation and the flags of the threads stay.
LEMMA RoutesSame ==
  ASSUME RoutesOK, ctl'.pc \notin RecoveryPoints, UNCHANGED <<proc, hbrec>>, ctl'.hb = ctl.hb,
         Uncancelled => NotCancelled'
  PROVE  RoutesOK'
  BY DEF RoutesOK

\* Another point of the controller.
LEMMA GoHeart ==
  ASSUME ctl \in ControlStates, NEW p \in ControlPoints, Go(p)
  PROVE  ctl'.pc = p /\ ctl'.hb = ctl.hb /\ ctl'.stopping = ctl.stopping /\ ctl'.ctx = ctl.ctx
<1>1. ctl' = [ctl EXCEPT !.pc = p]
  BY DEF Go
<1> QED BY <1>1 DEF ControlStates

\* The steps for one Agent keep the invariant,
LEMMA EndAgent ==
  ASSUME RunInv, EndInv, NEW n \in Agent,
         \/ ObserveLocal(n) \/ ObserveActive(n) \/ ObserveEnd(n) \/ ObserveGone(n) \/ ObserveTrouble(n)
         \/ LaunchBegin(n) \/ LaunchStart(n) \/ LaunchPersist(n) \/ CancelTarget(n)
  PROVE  EndInv'
<1>1. UNCHANGED <<run, node, intent, req, todo, act, ctl, proc, hbrec, ask>> /\ (can' = can \/ can.pc = "targets")
  <2>1. CASE ObserveLocal(n) \/ ObserveActive(n) \/ ObserveEnd(n) \/ ObserveGone(n) \/ ObserveTrouble(n)
    BY <2>1 DEF ObserveLocal, ObserveActive, ObserveEnd, ObserveGone, ObserveTrouble, Observed, disk
  <2>2. CASE LaunchBegin(n) \/ LaunchStart(n) \/ LaunchPersist(n)
    BY <2>2 DEF LaunchBegin, LaunchStart, LaunchPersist, disk
  <2>3. CASE CancelTarget(n)
    BY <2>3 DEF CancelTarget, disk
  <2> QED BY <2>1, <2>2, <2>3
<1>2. RoutesOK'
  <2>1. Uncancelled => NotCancelled'
    BY <1>1 DEF EndInv, RoutesOK, NotCancelled
  <2> QED BY <1>1, <2>1 DEF EndInv, RoutesOK
<1> QED BY <1>1, <1>2, EndsSame DEF EndInv

\* so do those of the controller that write nothing,
LEMMA EndControl ==
  ASSUME RunInv, EndInv, ControlTop \/ ReconcileEnd \/ HeartbeatHandsOff
  PROVE  EndInv'
<1>1. UNCHANGED <<run, node, intent, req, todo, act, proc, ask, can>> /\ (hbrec' = hbrec \/ ~hbrec')
  BY DEF ControlTop, ReconcileEnd, HeartbeatHandsOff, disk
<1>2. ctl'.pc \notin RecoveryPoints /\ ctl'.hb = ctl.hb
  <2>1. ctl \in ControlStates
    BY DEF RunInv, ControlOK, ThreadTypes
  <2>2. CASE HeartbeatHandsOff
    BY <2>2 DEF HeartbeatHandsOff, EndInv, RoutesOK
  <2>3. CASE ReconcileEnd
    <3>1. PICK p \in {"top", "sched"}, a \in BOOLEAN : ctl' = [ctl EXCEPT !.pc = p, !.again = a]
      BY <2>3 DEF ReconcileEnd
    <3> QED BY <2>1, <3>1 DEF ControlStates, RecoveryPoints
  <2>4. CASE ControlTop
    <3>1. Go("exit") \/ \E p \in {"sched", "observe"} : ctl' = [ctl EXCEPT !.pc = p, !.progressed = FALSE, !.again = FALSE]
      BY <2>4 DEF ControlTop
    <3>2. CASE Go("exit")
      BY <2>1, <3>2, GoHeart DEF ControlPoints, RecoveryPoints
    <3>3. CASE \E p \in {"sched", "observe"} : ctl' = [ctl EXCEPT !.pc = p, !.progressed = FALSE, !.again = FALSE]
      BY <2>1, <3>3 DEF ControlStates, RecoveryPoints
    <3> QED BY <3>1, <3>2, <3>3
  <2> QED BY <2>2, <2>3, <2>4
<1>3. RoutesOK'
  <2>1. Uncancelled => NotCancelled'
    BY <1>1 DEF EndInv, RoutesOK, NotCancelled
  <2> QED BY <1>1, <1>2, <2>1 DEF EndInv, RoutesOK
<1> QED BY <1>1, <1>3, EndsSame DEF EndInv

\* those of a cancellation that write nothing,
LEMMA EndRequests ==
  ASSUME RunInv, EndInv, MonitorFinds \/ CancelResolve \/ CancelAsk \/ CancelReturns \/ CancelTakesLease
  PROVE  EndInv'
<1>1. UNCHANGED <<run, node, intent, todo, act, proc, hbrec>>
  BY DEF MonitorFinds, CancelResolve, CancelAsk, CancelReturns, CancelTakesLease, disk
<1>2. ctl'.pc = ctl.pc /\ ctl'.hb = ctl.hb
  BY DEF MonitorFinds, CancelResolve, CancelAsk, CancelReturns, CancelTakesLease, RunInv, ControlOK,
         ThreadTypes, ControlStates
<1>3. ~Uncancelled
  BY DEF MonitorFinds, CancelResolve, CancelAsk, CancelReturns, CancelTakesLease, EndInv, RoutesOK,
         NotCancelled, Uncancelled
<1> QED BY <1>1, <1>2, <1>3, EndsSame DEF EndInv, RoutesOK

\* what interrupts a controller,
LEMMA EndInterrupts ==
  ASSUME RunInv, EndInv, NoRecoveredCancel, HeartbeatFails \/ Crash \/ Restart
  PROVE  EndInv'
<1>1. Uncancelled /\ NotCancelled
  <2>1. Restart => proc # "up"
    BY DEF Restart
  <2>2. HeartbeatFails => "heartbeat" \in Faults
    BY DEF HeartbeatFails, Fault
  <2>3. Crash => "crash" \in Faults
    BY DEF Crash, Fault
  <2> QED BY <2>1, <2>2, <2>3 DEF EndInv, RoutesOK, NoRecoveredCancel
<1>2. UNCHANGED <<run, node, intent, req>>
  BY DEF HeartbeatFails, Crash, Restart, disk
<1>3. CASE Crash
  <2>1. todo' = <<>> /\ ~act' /\ ~ask' /\ can' = NoCancel /\ ctl' = Controller("off")
    BY <1>3 DEF Crash
  <2>2. RoutesOK'
    <3>1. ctl'.pc = "off"
      BY <2>1, ControllerIs DEF ControlPoints
    <3>2. NotCancelled'
      BY <1>1, <1>2, <2>1, NoCancelIs, NoElement DEF NotCancelled
    <3> QED BY <1>1, <3>1, <3>2 DEF RoutesOK, RecoveryPoints
  <2> QED BY <1>2, <2>1, <2>2, EndsEmpty DEF EndInv
<1>4. CASE HeartbeatFails \/ Restart
  <2>1. UNCHANGED <<todo, act, ask, can>>
    BY <1>4 DEF HeartbeatFails, Restart
  <2>2. ctl'.pc = ctl.pc
    BY <1>4 DEF HeartbeatFails, Restart, RunInv, ControlOK, ThreadTypes, ControlStates
  <2>3. NotCancelled'
    BY <1>1, <1>2, <2>1 DEF NotCancelled
  <2> QED BY <1>1, <1>2, <2>1, <2>2, <2>3, EndsSame DEF EndInv, RoutesOK
<1> QED BY <1>3, <1>4

\* and those that write the Run at once.
LEMMA EndPersists ==
  ASSUME RunInv, EndInv, PauseOnError \/ ControllerExit \/ CancelMark
  PROVE  EndInv'
<1>1. ThreadTypes /\ ControlRules /\ run \in WorkflowSnapshot /\ ctl \in ControlStates /\ can \in CancelStates
  BY DEF RunInv, ControlOK, ThreadTypes, FilesOK
<1>2. todo = <<>> /\ UNCHANGED <<node, intent, todo, act, proc, ask>> /\ ~act
  BY <1>1 DEF PauseOnError, ControllerExit, CancelMark, ControlRules, CancelStates
<1>3. PICK paused, detached : /\ paused = [run EXCEPT !.phase = "waiting", !.reason = "completion_missing"]
                              /\ detached = [run EXCEPT !.phase = "paused", !.concl = "none", !.reason = "controller_detached"]
  OBVIOUS
<1>4. paused.phase = "waiting" /\ detached.phase = "paused" /\ paused.cancel = run.cancel /\ detached.cancel = run.cancel
  BY <1>1, <1>3 DEF WorkflowSnapshot
<1>5. CancellingRun.phase = "cancelling"
  BY DEF CancellingRun
<1>6. /\ run' = run \/ run'.phase # "completed"
      /\ CancelMark \/ run'.cancel = run.cancel
      /\ CancelMark \/ req' = req \/ req' = Outdate(req)
  <2>1. CASE PauseOnError
    BY <2>1, <1>3, <1>4 DEF PauseOnError, persistRun
  <2>2. CASE ControllerExit
    BY <2>2, <1>3, <1>4 DEF ControllerExit, persistRun
  <2>3. CASE CancelMark
    BY <2>3, <1>5 DEF CancelMark, persistRun
  <2> QED BY <2>1, <2>2, <2>3
<1>7. CancelMark => ~Uncancelled
  BY DEF CancelMark, EndInv, RoutesOK, NotCancelled, Uncancelled
<1>8. Uncancelled => NotCancelled'
  <2> SUFFICES ASSUME Uncancelled PROVE NotCancelled'
    OBVIOUS
  <2>1. NotCancelled /\ ~CancelMark
    BY <1>7 DEF EndInv, RoutesOK
  <2>2. req' = "none" /\ run'.cancel = run.cancel
    BY <1>6, <2>1 DEF NotCancelled, Outdate
  <2>3. can' = can
    BY <2>1 DEF PauseOnError, ControllerExit
  <2> QED BY <1>2, <2>1, <2>2, <2>3 DEF NotCancelled
<1>9. ctl'.pc \notin RecoveryPoints /\ (~Uncancelled => ~ctl'.hb /\ ~hbrec')
  <2>1. CASE PauseOnError
    <3>1. ctl'.pc = "exit" /\ ctl'.hb = ctl.hb /\ hbrec' = hbrec
      BY <1>1, <2>1, GoHeart DEF PauseOnError, ControlPoints
    <3> QED BY <3>1 DEF EndInv, RoutesOK, RecoveryPoints
  <2>2. CASE ControllerExit
    <3>1. ctl' = Controller("off") /\ hbrec' = ctl.hb
      BY <2>2 DEF ControllerExit
    <3>2. ctl'.pc = "off" /\ ~ctl'.hb
      BY <3>1 DEF Controller
    <3> QED BY <3>1, <3>2 DEF EndInv, RoutesOK, RecoveryPoints
  <2>3. CASE CancelMark
    BY <2>3 DEF CancelMark, EndInv, RoutesOK
  <2> QED BY <2>1, <2>2, <2>3
<1>10. RoutesOK'
  BY <1>2, <1>8, <1>9 DEF EndInv, RoutesOK
<1> QED BY <1>2, <1>6, <1>10, EndsEmpty DEF EndInv

\* A controller of a Run that is not cancelled begins at the top.
LEMMA StartsAtTop ==
  ASSUME ~run.cancel
  PROVE  RecoveredControl.pc = "top" /\ ~RecoveredControl.hb
  BY DEF RecoveredControl, Controller

\* A new controller keeps the invariant as well.
LEMMA EndStarts ==
  ASSUME RunInv, EndInv, ActionStartsController \/ Recover \/ HeartbeatRecover
  PROVE  EndInv'
<1>1. run \in WorkflowSnapshot /\ todo = <<>> /\ UNCHANGED <<node, intent, todo, ask, can>>
  BY DEF ActionStartsController, Recover, HeartbeatRecover, RunInv, FilesOK, disk
<1>2. CASE ActionStartsController
  <2>1. UNCHANGED <<run, req, proc, hbrec>> /\ ~act' /\ ctl' = Controller("top")
    BY <1>2 DEF ActionStartsController, disk
  <2>2. ctl'.pc = "top" /\ ~ctl'.hb
    BY <2>1 DEF Controller
  <2>3. Uncancelled => NotCancelled'
    BY <1>1, <2>1 DEF EndInv, RoutesOK, NotCancelled
  <2> QED BY <1>1, <2>1, <2>2, <2>3, EndsEmpty DEF EndInv, RoutesOK, RecoveryPoints
<1>3. CASE Recover \/ HeartbeatRecover
  <2>1. Uncancelled /\ NotCancelled /\ ~run.cancel
    BY <1>3 DEF Recover, HeartbeatRecover, EndInv, RoutesOK, NotCancelled
  <2>2. RecoveredRun.cancel = run.cancel /\ (RecoveredRun = run \/ RecoveredRun.phase = "running")
    BY <1>1 DEF RecoveredRun, RunningRun, WorkflowSnapshot
  <2>3. /\ run' \in {run, RecoveredRun} /\ req' \in {req, Outdate(req)}
        /\ ctl' \in {ctl, RecoveredControl} /\ act' = act
    BY <1>3 DEF Recover, HeartbeatRecover, persistRun
  <2>4. ctl'.pc \notin RecoveryPoints
    BY <2>1, <2>3, StartsAtTop DEF EndInv, RoutesOK, RecoveryPoints
  <2>5. NotCancelled'
    BY <1>1, <2>1, <2>2, <2>3 DEF NotCancelled, Outdate
  <2>6. ~act \/ run' = run
    BY <1>3 DEF Recover, HeartbeatRecover, mutationMu, LeaseFree
  <2>7. EndsOK'
    <3>1. CASE ~act
      BY <1>1, <2>2, <2>3, <3>1, EndsEmpty DEF EndInv
    <3>2. CASE run' = run
      BY <1>1, <2>3, <3>2, EndsSame DEF EndInv
    <3> QED BY <2>6, <3>1, <3>2
  <2> QED BY <2>1, <2>4, <2>5, <2>7 DEF EndInv, RoutesOK
<1> QED BY <1>2, <1>3
-----------------------------------------------------------------------------
\* An action that is begun or replayed: x is what it writes before it closes.
LEMMA EndsAct ==
  ASSUME EndsOK, act' = TRUE, UNCHANGED <<run, node, intent>>, NEW x \in Seq(Writes), x # <<>>,
         \A j \in DOMAIN x : \/ x[j].file = "node"
                             \/ j = 1 /\ x[j].file = "intent" /\ x[j].val.plan # <<>> /\ ~x[j].val.receipt,
         run.phase = "completed" => Planned \/ x[1].file = "intent",
         todo' = x \o <<finalizeAction, WriteIntent(NoIntent)>>
  PROVE  EndsOK'
<1>1. PICK a, b : a = finalizeAction /\ b = WriteIntent(NoIntent)
  OBVIOUS
<1>2. a \in Writes /\ a.file = "acted" /\ a.val.phase = "running"
  BY <1>1, ActedWrite DEF ActedRun
<1>3. b \in Writes /\ b.file = "intent"
  BY <1>1, NoIntentIs, IntentWrite
<1>4. PICK y : y = <<a, b>>
  OBVIOUS
<1>5. y \in Seq(Writes) /\ Len(y) = 2 /\ y[1] = a /\ y[2] = b
  BY <1>2, <1>3, <1>4
<1>6. PICK s : s = x \o y
  OBVIOUS
<1>7. s \in Seq(Writes) /\ Concats(s, x, y) /\ todo' = s
  BY <1>1, <1>4, <1>5, <1>6, FromConcat
<1>8. PICK k \in Nat : k = Len(x) /\ k > 0
  OBVIOUS
<1>9. /\ \A i \in 1..k : s[i] = x[i]
      /\ s[k + 1] = a /\ s[k + 2] = b /\ Len(s) = k + 2 /\ DOMAIN s = 1..k + 2
  BY <1>5, <1>7, <1>8 DEF Concats, From
<1>10. DOMAIN x = 1..k
  BY <1>8
<1>11. ASSUME NEW i \in DOMAIN s
       PROVE  /\ s[i].file # "run"
              /\ OfRun(s[i]) => s[i].val.phase = "running"
              /\ i > 1 /\ s[i].file = "intent" => s[i - 1].file = "acted"
              /\ i = 1 => s[i] = x[1]
  <2>1. CASE i \in 1..k
    <3>1. s[i] = x[i] /\ (x[i].file = "node" \/ (i = 1 /\ x[i].file = "intent"))
      BY <2>1, <1>9, <1>10
    <3> QED BY <3>1 DEF OfRun
  <2>2. CASE i = k + 1
    BY <2>2, <1>2, <1>8, <1>9 DEF OfRun
  <2>3. CASE i = k + 2
    <3>1. i - 1 = k + 1 /\ s[i] = b /\ i # 1
      BY <2>3, <1>8, <1>9
    <3> QED BY <3>1, <1>2, <1>3, <1>9 DEF OfRun
  <2> QED BY <2>1, <2>2, <2>3, <1>9
<1>12. 1 \in DOMAIN s /\ k + 1 \in DOMAIN s /\ OfRun(s[k + 1]) /\ 1 \in DOMAIN x /\ s # <<>>
  BY <1>2, <1>8, <1>9, <1>10 DEF OfRun
<1>13. CompletesOK'
  BY <1>7, <1>11 DEF CompletesOK
<1>14. CompletedOK'
  BY DEF CompletedOK
<1>15. Uncancelled => RunEndsKnown'
  BY DEF EndsOK, RunEndsKnown, Planned
<1>16. ActionOK'
  <2>1. s[1] = x[1]
    BY <1>11, <1>12
  <2>2. s[1].file = "intent" => s[1].val.plan # <<>> /\ ~s[1].val.receipt
    BY <2>1, <1>12
  <2>3. run.phase = "completed" => Planned' \/ s[1].file = "intent"
    BY <2>1 DEF Planned
  <2>4. \E i \in DOMAIN s : OfRun(s[i])
    BY <1>12
  <2> QED BY <2>2, <2>3, <2>4, <1>7, <1>11, <1>12 DEF ActionOK
<1> QED BY <1>13, <1>14, <1>15, <1>16 DEF EndsOK

\* The Run that an action leaves is not cancelled.
LEMMA ActRoutes ==
  ASSUME EndInv, UNCHANGED <<run, req, ctl, can, ask, proc, hbrec>>,
         \A i \in DOMAIN todo' : OfRun(todo'[i]) => todo'[i].val = ActedRun
  PROVE  RoutesOK'
<1>1. ~ActedRun.cancel
  BY DEF ActedRun
<1>2. Uncancelled => NotCancelled'
  BY <1>1 DEF EndInv, RoutesOK, NotCancelled
<1> QED BY <1>2, RoutesSame DEF EndInv, RoutesOK

\* What closes an action is the write of its Run and the removal of its intent.
LEMMA ClosesAct ==
  ASSUME NEW x \in Seq(Writes), \A j \in DOMAIN x : ~OfRun(x[j]), NEW s,
         s = x \o <<finalizeAction, WriteIntent(NoIntent)>>
  PROVE  \A i \in DOMAIN s : OfRun(s[i]) => s[i].val = ActedRun
<1>1. PICK a, b : a = finalizeAction /\ b = WriteIntent(NoIntent)
  OBVIOUS
<1>2. a \in Writes /\ a.val = ActedRun
  BY <1>1, ActedWrite
<1>3. b \in Writes /\ b.file = "intent"
  BY <1>1, NoIntentIs, IntentWrite
<1>4. PICK y : y = <<a, b>>
  OBVIOUS
<1>5. y \in Seq(Writes) /\ \A l \in 1..Len(y) : OfRun(y[l]) => y[l].val = ActedRun
  BY <1>2, <1>3, <1>4 DEF OfRun
<1>6. s \in Seq(Writes) /\ Concats(s, x, y)
  <2>1. s = x \o y
    BY <1>1, <1>4
  <2> QED BY <2>1, <1>5, FromConcat
<1>7. DOMAIN s = 1..Len(s) /\ DOMAIN x = 1..Len(x)
  BY <1>6
<1>8. ASSUME NEW i \in 1..Len(s), OfRun(s[i]) PROVE s[i].val = ActedRun
  <2>1. CASE i \in 1..Len(x)
    <3>1. s[i] = x[i]
      BY <1>6, <2>1 DEF Concats, From
    <3> QED BY <1>7, <1>8, <2>1, <3>1
  <2>2. CASE \E l \in 1..Len(y) : i = Len(x) + l
    <3>1. PICK l \in 1..Len(y) : i = Len(x) + l
      BY <2>2
    <3>2. s[i] = y[l]
      BY <1>6, <3>1 DEF Concats, From
    <3> QED BY <1>5, <1>8, <3>2
  <2> QED BY <1>6, <2>1, <2>2 DEF Concats
<1> QED BY <1>7, <1>8

\* The actions of the user keep the invariant,
LEMMA EndBegin ==
  ASSUME RunInv, EndInv, NEW ws, PlanOK(ws), ws # <<>>, BeginAction(ws)
  PROVE  EndInv'
<1>1. PICK i : i = [plan |-> ws, receipt |-> FALSE]
  OBVIOUS
<1>2. i \in actionIntent /\ i.plan = ws /\ ~i.receipt
  BY <1>1 DEF PlanOK, actionIntent
<1>3. PICK w : w = WriteIntent(i)
  OBVIOUS
<1>4. w \in Writes /\ w.file = "intent" /\ w.val = i
  BY <1>2, <1>3, IntentWrite
<1>5. PICK h : h = <<w>>
  OBVIOUS
<1>6. h \in Seq(Writes) /\ Len(h) = 1 /\ h[1] = w
  BY <1>4, <1>5
<1>7. ws \in Seq(Writes) /\ \A j \in DOMAIN ws : ws[j].file = "node"
  <2>1. ws \in Seq(NodeWrites)
    BY DEF PlanOK
  <2>2. \A j \in DOMAIN ws : ws[j].file = "node" /\ ws[j] \in Writes
    BY PlanElement
  <2> QED BY <2>1, <2>2
<1>8. PICK x : x = h \o ws
  OBVIOUS
<1>9. x \in Seq(Writes) /\ Concats(x, h, ws)
  BY <1>6, <1>7, <1>8, FromConcat
<1>10. x[1] = w /\ 1 \in 1..Len(x) /\ \A j \in 1..Len(x) : j = 1 \/ x[j].file = "node"
  <2>1. x[1] = w /\ 1 \in 1..Len(x)
    BY <1>6, <1>9 DEF Concats, From
  <2>2. ASSUME NEW j \in 1..Len(x), j # 1 PROVE x[j].file = "node"
    <3>1. j \notin 1..Len(h)
      BY <2>2, <1>6
    <3>2. PICK l \in 1..Len(ws) : j = Len(h) + l
      BY <3>1, <1>9 DEF Concats
    <3>3. x[j] = ws[l]
      BY <3>2, <1>9 DEF Concats, From
    <3> QED BY <3>2, <3>3, <1>7
  <2> QED BY <2>1, <2>2
<1>11. DOMAIN x = 1..Len(x) /\ x # <<>>
  BY <1>9, <1>10
<1>12. todo' = x \o <<finalizeAction, WriteIntent(NoIntent)>>
  BY <1>1, <1>3, <1>5, <1>8 DEF BeginAction
<1>13. act' = TRUE /\ UNCHANGED <<run, node, intent, req, ctl, can, ask, proc, hbrec>>
  BY DEF BeginAction, disk
<1>14. EndsOK'
  BY <1>2, <1>4, <1>9, <1>10, <1>11, <1>12, <1>13, EndsAct DEF EndInv
<1>15. RoutesOK'
  <2>1. \A j \in DOMAIN x : ~OfRun(x[j])
    BY <1>4, <1>10, <1>11 DEF OfRun
  <2>2. PICK s : s = todo'
    OBVIOUS
  <2>3. \A j \in DOMAIN s : OfRun(s[j]) => s[j].val = ActedRun
    BY <1>9, <1>12, <2>1, <2>2, ClosesAct
  <2> QED BY <1>13, <2>2, <2>3, ActRoutes
<1> QED BY <1>14, <1>15 DEF EndInv

\* and so does their replay
LEMMA EndReplay == ASSUME RunInv, EndInv, ReplayAction PROVE EndInv'
<1>1. PICK ws : ws = intent.plan
  OBVIOUS
<1>2. Planned /\ PlanOK(ws) /\ ws # <<>>
  BY <1>1 DEF ReplayAction, ReplayDue, Planned, RunInv, TodoOK, IntentOK
<1>3. ws \in Seq(Writes) /\ \A j \in DOMAIN ws : ws[j].file = "node"
  <2>1. ws \in Seq(NodeWrites)
    BY <1>2 DEF PlanOK
  <2>2. \A j \in DOMAIN ws : ws[j].file = "node" /\ ws[j] \in Writes
    BY <1>2, PlanElement
  <2> QED BY <2>1, <2>2
<1>4. /\ todo' = ws \o <<finalizeAction, WriteIntent(NoIntent)>> /\ act' = TRUE
      /\ UNCHANGED <<run, node, intent, req, ctl, can, ask, proc, hbrec>>
  BY <1>1 DEF ReplayAction, disk
<1>5. EndsOK'
  BY <1>2, <1>3, <1>4, EndsAct DEF EndInv
<1>6. RoutesOK'
  <2>1. \A j \in DOMAIN ws : ~OfRun(ws[j])
    BY <1>3 DEF OfRun
  <2>2. PICK s : s = todo'
    OBVIOUS
  <2>3. \A j \in DOMAIN s : OfRun(s[j]) => s[j].val = ActedRun
    BY <1>3, <1>4, <2>1, <2>2, ClosesAct
  <2> QED BY <1>4, <2>2, <2>3, ActRoutes
<1> QED BY <1>5, <1>6 DEF EndInv

\* and a decision that is made again.
LEMMA EndDecideAgain == ASSUME RunInv, EndInv, NEW n \in Node, DecideAgain(n) PROVE EndInv'
<1>1. PICK w : w = WriteRun(ActedRun)
  OBVIOUS
<1>2. w.file = "run" /\ w.val = ActedRun /\ ActedRun.phase = "running"
  BY <1>1, ActedWrite, RunWrite DEF ActedRun
<1>3. PICK s : s = <<w>>
  OBVIOUS
<1>4. DOMAIN s = {1} /\ s[1] = w /\ todo' = s /\ s # <<>>
  BY <1>1, <1>3 DEF DecideAgain
<1>5. /\ run.phase # "completed" /\ act' = TRUE
      /\ UNCHANGED <<run, node, intent, req, ctl, can, ask, proc, hbrec>>
  BY DEF DecideAgain, disk
<1>6. RoutesOK'
  BY <1>2, <1>4, <1>5, ActRoutes
<1>7. EndsOK'
  <2>1. CompletesOK'
    BY <1>2, <1>4 DEF CompletesOK
  <2>2. CompletedOK' /\ (Uncancelled => RunEndsKnown')
    BY <1>5 DEF CompletedOK, RunEndsKnown
  <2>3. ActionOK'
    BY <1>2, <1>4, <1>5 DEF ActionOK, OfRun
  <2> QED BY <2>1, <2>2, <2>3 DEF EndsOK
<1> QED BY <1>6, <1>7 DEF EndInv
-----------------------------------------------------------------------------
\* The phases that end a Run or take it from its controller.
ClosedPhases == {"paused", "cancelling", "completed"}

\* A write of the Run leaves it to its controller.
OpenWrite(w) == OfRun(w) => w.val.phase \notin ClosedPhases /\ w.val.cancel = run.cancel

\* Aggregation completes a Run only when every node has ended.
LEMMA AggregatePhase ==
  ASSUME NEW r \in WorkflowSnapshot, NEW nodes, NEW a, a = aggregateRunState(r, nodes)
  PROVE  /\ a.phase \in {"running", "waiting", "completed"} /\ a.cancel = r.cancel
         /\ a.phase = "completed" => \A n \in Node : /\ nodes[n].phase \notin {"waiting", "pending", "ready"}
                                                     /\ n \in Agent => nodes[n].phase # "running"
<1> DEFINE Phase(p) == {n \in Node : nodes[n].phase = p}
           waits == InOrder(Phase("waiting") \cap Agent)
           As(p, c, q) == [r EXCEPT !.phase = p, !.concl = c, !.reason = q]
<1>1. ASSUME NEW p, NEW c, NEW q PROVE As(p, c, q).phase = p /\ As(p, c, q).cancel = r.cancel
  BY DEF WorkflowSnapshot
<1>2. \E c, q : \/ a = As("running", c, q) \/ a = As("waiting", c, q)
                \/ /\ a = As("completed", c, q) /\ Phase("running") \cap Agent = {}
                   /\ Phase("waiting") = {} /\ Phase("pending") \cup Phase("ready") = {}
  <2>1. CASE Phase("running") \cap Agent # {}
    <3>1. a = As("running", "none", "none")
      BY <2>1 DEF aggregateRunState
    <3> QED BY <3>1
  <2>2. CASE Phase("running") \cap Agent = {} /\ waits # <<>>
    <3>1. a = As("waiting", "none", nodes[waits[1]].reason)
      BY <2>2 DEF aggregateRunState
    <3> QED BY <3>1
  <2>3. CASE Phase("running") \cap Agent = {} /\ waits = <<>> /\ Phase("waiting") # {}
    <3>1. a = As("waiting", "none", "approval_required")
      BY <2>3 DEF aggregateRunState
    <3> QED BY <3>1
  <2>4. CASE Phase("running") \cap Agent = {} /\ waits = <<>> /\ Phase("waiting") = {} /\ Phase("pending") \cup Phase("ready") # {}
    <3>1. a = As("running", "none", "none")
      BY <2>4 DEF aggregateRunState
    <3> QED BY <3>1
  <2>5. CASE Phase("running") \cap Agent = {} /\ waits = <<>> /\ Phase("waiting") = {} /\ Phase("pending") \cup Phase("ready") = {}
    <3>1. a = As("completed", aggregateConclusion(nodes).concl, aggregateConclusion(nodes).reason)
      BY <2>5 DEF aggregateRunState
    <3> QED BY <3>1, <2>5
  <2> QED BY <2>1, <2>2, <2>3, <2>4, <2>5
<1>3. PICK c, q : \/ a = As("running", c, q) \/ a = As("waiting", c, q)
                  \/ /\ a = As("completed", c, q) /\ Phase("running") \cap Agent = {}
                     /\ Phase("waiting") = {} /\ Phase("pending") \cup Phase("ready") = {}
  BY <1>2
<1>4. a.phase \in {"running", "waiting", "completed"} /\ a.cancel = r.cancel
  <2> HIDE DEF As
  <2> QED BY <1>1, <1>3
<1>5. a.phase = "completed" => /\ Phase("running") \cap Agent = {}
                               /\ Phase("waiting") = {} /\ Phase("pending") \cup Phase("ready") = {}
  <2> HIDE DEF As, Phase
  <2> QED BY <1>1, <1>3
<1> QED BY <1>4, <1>5

\* The writes that a controller may make of what it learned of n.
Applied(n) ==
  {finishResult(n, "ok"), finishResult(n, "bad"), waitingWithResult(n), finishIndeterminate(n),
   waitingIfChanged(n, "agent_waiting_input"), waitingIfChanged(n, "completion_missing")}

\* The Run waits or runs after such writes.
LEMMA WaitingOpen ==
  ASSUME RunInv, NEW n \in Agent, NEW reason, NEW nd \in NodeSnapshot, NEW at \in AttemptSnapshot, NEW s,
         s = waiting(n, reason, nd, at)
  PROVE  \A i \in DOMAIN s : OpenWrite(s[i])
<1>1. run \in WorkflowSnapshot /\ node \in [Node -> NodeSnapshot] /\ n \in Node
  BY WorkflowAssumption DEF RunInv, FilesOK
<1>2. PICK v, a : v = [nd EXCEPT !.phase = "waiting", !.reason = reason]
                  /\ a = [at EXCEPT !.phase = "waiting", !.reason = reason]
  OBVIOUS
<1>3. v.phase = "waiting"
  BY <1>2 DEF NodeSnapshot
<1>4. PICK nodes : nodes = [node EXCEPT ![n] = v]
  OBVIOUS
<1>5. nodes[n].phase = "waiting"
  BY <1>1, <1>3, <1>4
<1>6. PICK r : r = aggregateRunState(run, nodes)
  OBVIOUS
<1>7. r.phase \in {"running", "waiting"} /\ r.cancel = run.cancel
  BY <1>1, <1>5, <1>6, AggregatePhase
<1>8. PICK w1, w2, w3 : w1 = WriteNode(n, v) /\ w2 = UpdateAttempt(n, node[n].att, a) /\ w3 = WriteRun(r)
  OBVIOUS
<1>9. OpenWrite(w1) /\ OpenWrite(w2) /\ OpenWrite(w3)
  BY <1>7, <1>8 DEF OpenWrite, OfRun, WriteNode, UpdateAttempt, WriteRun, ClosedPhases
<1>10. \E front, back : s = front \o back /\ front \in {<<w1, w2>>, <<>>} /\ back \in {<<w3>>, <<>>}
  BY <1>2, <1>4, <1>6, <1>8 DEF waiting
<1>11. s \in Seq({w1, w2, w3})
  <2>1. PICK front, back : s = front \o back /\ front \in {<<w1, w2>>, <<>>} /\ back \in {<<w3>>, <<>>}
    BY <1>10
  <2>2. PICK W : W = {w1, w2, w3}
    OBVIOUS
  <2>3. w1 \in W /\ w2 \in W /\ w3 \in W
    BY <2>2
  <2>4. <<w1, w2>> \in Seq(W) /\ <<w3>> \in Seq(W) /\ <<>> \in Seq(W)
    BY <2>3
  <2>5. front \in Seq(W) /\ back \in Seq(W)
    BY <2>1, <2>4
  <2> QED BY <2>1, <2>2, <2>5
<1> QED BY <1>9, <1>11

\* The same of all of them.
LEMMA AppliedOpen ==
  ASSUME RunInv, NEW n \in Agent, Active(n, node), NEW s \in Applied(n)
  PROVE  \A i \in DOMAIN s : OpenWrite(s[i])
<1>1. node[n] \in NodeSnapshot /\ Current(n) \in AttemptSnapshot /\ run \in WorkflowSnapshot
  BY ActiveIs
<1>2. OpenWrite(WriteRun(RunningRun))
  <2>1. RunningRun.phase = "running" /\ RunningRun.cancel = run.cancel
    BY <1>1 DEF RunningRun, WorkflowSnapshot
  <2> QED BY <2>1 DEF OpenWrite, OfRun, WriteRun, ClosedPhases
<1>3. \A v, k : OpenWrite(WriteNode(n, v)) /\ OpenWrite(UpdateAttempt(n, k, v))
  BY DEF OpenWrite, OfRun, WriteNode, UpdateAttempt
<1>4. ASSUME NEW o, s = finishResult(n, o) PROVE \A i \in DOMAIN s : OpenWrite(s[i])
  <2>1. \E v, u : s = <<WriteNode(n, v), UpdateAttempt(n, node[n].att, u), WriteRun(RunningRun)>>
    BY <1>4 DEF finishResult
  <2>2. PICK v, u : s = <<WriteNode(n, v), UpdateAttempt(n, node[n].att, u), WriteRun(RunningRun)>>
    BY <2>1
  <2>3. PICK x, y, z : x = WriteNode(n, v) /\ y = UpdateAttempt(n, node[n].att, u) /\ z = WriteRun(RunningRun)
    OBVIOUS
  <2>4. s = <<x, y, z>> /\ OpenWrite(x) /\ OpenWrite(y) /\ OpenWrite(z)
    BY <1>2, <1>3, <2>2, <2>3
  <2> QED BY <2>4
<1>5. ASSUME s = finishIndeterminate(n) PROVE \A i \in DOMAIN s : OpenWrite(s[i])
  <2>1. \E v, u : s = <<UpdateAttempt(n, node[n].att, u), WriteNode(n, v), WriteRun(RunningRun)>>
    BY <1>5 DEF finishIndeterminate
  <2>2. PICK v, u : s = <<UpdateAttempt(n, node[n].att, u), WriteNode(n, v), WriteRun(RunningRun)>>
    BY <2>1
  <2>3. PICK x, y, z : x = WriteNode(n, v) /\ y = UpdateAttempt(n, node[n].att, u) /\ z = WriteRun(RunningRun)
    OBVIOUS
  <2>4. s = <<y, x, z>> /\ OpenWrite(x) /\ OpenWrite(y) /\ OpenWrite(z)
    BY <1>2, <1>3, <2>2, <2>3
  <2> QED BY <2>4
<1>6. ASSUME NEW reason, s = waitingIfChanged(n, reason) PROVE \A i \in DOMAIN s : OpenWrite(s[i])
  <2>1. PICK nd \in NodeSnapshot, at \in AttemptSnapshot : nd = node[n] /\ at = Current(n)
    BY <1>1
  <2>2. s = waiting(n, reason, nd, at)
    BY <1>6, <2>1 DEF waitingIfChanged
  <2> QED BY <2>2, WaitingOpen
<1>7. ASSUME s = waitingWithResult(n) PROVE \A i \in DOMAIN s : OpenWrite(s[i])
  <2>1. PICK nd : nd = [node[n] EXCEPT !.result = "questions"]
    OBVIOUS
  <2>2. PICK at : at = [Current(n) EXCEPT !.consumed = TRUE]
    OBVIOUS
  <2>3. nd \in NodeSnapshot
    BY <1>1, <2>1 DEF NodeSnapshot, Results
  <2>4. at \in AttemptSnapshot
    BY <1>1, <2>2 DEF AttemptSnapshot
  <2>5. s = waiting(n, "agent_waiting_input", nd, at)
    BY <1>7, <2>1, <2>2 DEF waitingWithResult
  <2> QED BY <2>3, <2>4, <2>5, WaitingOpen
<1> QED BY <1>4, <1>5, <1>6, <1>7 DEF Applied

\* What ReconcileApply does.
LEMMA ReconcileIs ==
  ASSUME RunInv, ReconcileApply
  PROVE  /\ todo = <<>> /\ ~act /\ UNCHANGED <<run, node, req, intent, proc, can, ask, act, hbrec, faults>>
         /\ ctl'.hb = ctl.hb /\ ctl'.ctx = ctl.ctx /\ ctl'.stopping = ctl.stopping
         /\ \/ ctl'.pc = "exit" /\ todo' = <<>> /\ obs' = NoObs
               /\ (~Allowed \/ \E n \in Agent : obs[n] = "cancelled")
            \/ ctl'.pc = "observe" /\ todo' = <<>> /\ \E n \in Agent : obs' = [obs EXCEPT ![n] = "-"]
            \/ /\ ctl'.pc = "observe" /\ Allowed
               /\ \E n \in Agent : Active(n, node) /\ todo' \in Applied(n) /\ obs' = [obs EXCEPT ![n] = "-"]
<1>1. ControlRules /\ ThreadsOK /\ ctl \in ControlStates /\ obs \in [Agent -> ObsPoints]
  BY DEF RunInv, ControlOK, ThreadTypes
<1>2. PICK n : n = First(obs)
  OBVIOUS
<1>3. n \in Agent /\ obs[n] # "-" /\ obs[n] # "ask" /\ obs[n] \in ObsPoints
  BY <1>1, <1>2, FirstLeft DEF ReconcileApply
<1>4. /\ ctl.pc = "observe" /\ todo = <<>> /\ ~act
      /\ UNCHANGED <<run, node, req, intent, proc, can, ask, act, hbrec, faults>>
  BY <1>1 DEF ReconcileApply, ControlRules, disk
<1> DEFINE mutates == obs[n] \notin {"settled", "active", "cancelled"}
<1>5. CASE obs[n] = "cancelled" \/ (mutates /\ ~Allowed)
  <2>1. Go("exit") /\ obs' = NoObs /\ todo' = <<>>
    BY <1>5, <1>2, <1>4 DEF ReconcileApply
  <2>2. ctl'.pc = "exit" /\ ctl'.hb = ctl.hb /\ ctl'.ctx = ctl.ctx /\ ctl'.stopping = ctl.stopping
    BY <2>1, <1>1, GoHeart DEF ControlPoints
  <2>3. ~Allowed \/ \E m \in Agent : obs[m] = "cancelled"
    BY <1>3, <1>5
  <2> QED BY <2>1, <2>2, <2>3, <1>4
<1>6. CASE ~(obs[n] = "cancelled" \/ (mutates /\ ~Allowed))
  <2>1. /\ obs' = [obs EXCEPT ![n] = "-"]
        /\ todo' = IF mutates THEN ObservationWrites(n, obs[n]) ELSE <<>>
        /\ ctl' = [ctl EXCEPT !.progressed = ctl.progressed \/ obs[n] = "questions" \/ todo' # <<>>]
    BY <1>6, <1>2 DEF ReconcileApply
  <2>2. ctl'.pc = "observe" /\ ctl'.hb = ctl.hb /\ ctl'.ctx = ctl.ctx /\ ctl'.stopping = ctl.stopping
    <3>1. PICK b \in BOOLEAN : ctl' = [ctl EXCEPT !.progressed = b]
      BY <2>1
    <3> QED BY <3>1, <1>1, <1>4 DEF ControlStates
  <2>3. CASE ~mutates
    BY <2>1, <2>2, <2>3, <1>3, <1>4
  <2>4. CASE mutates
    <3>1. Allowed /\ ~run.cancel /\ obs[n] \in {"ok", "bad", "questions", "asking", "error", "lost"}
      BY <1>6, <2>4, <1>3 DEF Allowed, ObsPoints
    <3>2. Active(n, node)
      BY <3>1, <1>1, <1>3, <1>4 DEF ThreadsOK, ObservationsOK, ObservedOK, Untouched
    <3>3. ObservationWrites(n, obs[n]) \in Applied(n)
      BY <3>1 DEF ObservationWrites, Applied
    <3>4. todo' \in Applied(n)
      BY <3>3, <2>1, <2>4
    <3> QED BY <3>1, <3>2, <3>4, <2>1, <2>2, <1>3, <1>4
  <2> QED BY <2>3, <2>4
<1> QED BY <1>5, <1>6
-----------------------------------------------------------------------------
\* The writes of a Run that is not completed begin: only the last completes it.
LEMMA EndWrites ==
  ASSUME RunInv, EndInv, Allowed, ~act, UNCHANGED <<run, node, intent, req, ask, can, proc, act, hbrec>>,
         ctl'.pc \notin RecoveryPoints, ctl'.hb = ctl.hb, CompletesOK',
         \A i \in DOMAIN todo' : OfRun(todo'[i]) => todo'[i].val.cancel = run.cancel
  PROVE  EndInv'
<1>1. run.phase # "completed"
  BY DEF Allowed
<1>2. EndsOK'
  BY <1>1, EndsBegun DEF EndInv
<1>3. ASSUME Uncancelled PROVE NotCancelled'
  BY <1>3 DEF EndInv, RoutesOK, NotCancelled, OfRun
<1>4. RoutesOK'
  BY <1>3, RoutesSame DEF EndInv
<1> QED BY <1>2, <1>4 DEF EndInv

\* A controller begins writes that leave the Run to it.
LEMMA EndBegins ==
  ASSUME RunInv, EndInv, Allowed, ~act, UNCHANGED <<run, node, intent, req, ask, can, proc, act, hbrec>>,
         ctl'.pc \notin RecoveryPoints, ctl'.hb = ctl.hb,
         \A i \in DOMAIN todo' : OpenWrite(todo'[i])
  PROVE  EndInv'
<1>1. CompletesOK'
  BY DEF CompletesOK, OpenWrite, OfRun, ClosedPhases
<1>2. \A i \in DOMAIN todo' : OfRun(todo'[i]) => todo'[i].val.cancel = run.cancel
  BY DEF OpenWrite
<1> QED BY <1>1, <1>2, EndWrites

\* A controller stops, or has nothing to write.
LEMMA EndNothing ==
  ASSUME RunInv, EndInv, ~act, UNCHANGED <<run, node, intent, req, ask, can, proc, act, hbrec>>,
         ctl'.pc \notin RecoveryPoints, ctl'.hb = ctl.hb, todo' = <<>>
  PROVE  EndInv'
<1>1. EndsOK'
  BY EndsEmpty DEF EndInv
<1>2. ASSUME Uncancelled PROVE NotCancelled'
  BY <1>2, NoElement DEF EndInv, RoutesOK, NotCancelled
<1>3. RoutesOK'
  BY <1>2, RoutesSame DEF EndInv
<1> QED BY <1>1, <1>3 DEF EndInv

\* Applying an observation keeps the invariant,
LEMMA EndReconcileApply == ASSUME RunInv, EndInv, ReconcileApply PROVE EndInv'
<1>1. /\ todo = <<>> /\ ~act /\ UNCHANGED <<run, node, req, intent, proc, can, ask, act, hbrec>>
      /\ ctl'.hb = ctl.hb /\ ctl'.pc \in {"exit", "observe"}
  BY ReconcileIs
<1>2. ctl'.pc \notin RecoveryPoints
  BY <1>1 DEF RecoveryPoints
<1>3. CASE todo' = <<>>
  BY <1>1, <1>2, <1>3, EndNothing
<1>4. CASE todo' # <<>>
  <2>1. Allowed /\ \E n \in Agent : Active(n, node) /\ todo' \in Applied(n)
    BY <1>4, ReconcileIs
  <2>2. PICK n \in Agent : Active(n, node) /\ todo' \in Applied(n)
    BY <2>1
  <2>3. PICK s \in Applied(n) : s = todo'
    BY <2>2
  <2>4. \A i \in DOMAIN s : OpenWrite(s[i])
    BY <2>2, AppliedOpen
  <2>5. \A i \in DOMAIN todo' : OpenWrite(todo'[i])
    BY <2>3, <2>4
  <2> QED BY <1>1, <1>2, <2>1, <2>5, EndBegins
<1> QED BY <1>3, <1>4

\* What LaunchSettle does.
LEMMA LaunchIs ==
  ASSUME RunInv, LaunchSettle
  PROVE  /\ todo = <<>> /\ ~act /\ UNCHANGED <<run, node, req, intent, proc, obs, can, ask, act, hbrec, faults>>
         /\ ctl'.hb = ctl.hb /\ ctl'.ctx = ctl.ctx /\ ctl'.stopping = ctl.stopping
         /\ \/ ctl'.pc = "exit" /\ todo' = <<>> /\ (~Allowed \/ ctl.ctx)
            \/ ctl'.pc \in {"top", "launch"} /\ todo' = <<>>
            \/ /\ ctl'.pc \in {"top", "launch"} /\ Allowed
               /\ \E n \in Agent : Active(n, node) /\ todo' \in Applied(n)
<1>1. ThreadTypes /\ ControlRules /\ ThreadsOK /\ ctl \in ControlStates
  BY DEF RunInv, ControlOK, ThreadTypes
<1>2. PICK n : n = First(lau)
  OBVIOUS
<1>3. n \in Agent /\ lau[n] \in {"refused", "ok", "err_handle", "err", "none"}
  BY <1>2, FirstLeft DEF LaunchSettle
<1>4. /\ ctl.pc = "launch" /\ todo = <<>> /\ ~act
      /\ UNCHANGED <<run, node, req, intent, proc, obs, can, ask, act, hbrec, faults>>
  BY <1>1 DEF LaunchSettle, ControlRules, disk
<1> DEFINE stops == \/ lau[n] \in {"err", "refused"} /\ ctl.ctx
                    \/ lau[n] # "ok" /\ ~Allowed
<1>5. CASE stops
  <2>1. Go("exit") /\ todo' = <<>>
    BY <1>5, <1>2, <1>4 DEF LaunchSettle
  <2>2. ctl'.pc = "exit" /\ ctl'.hb = ctl.hb /\ ctl'.ctx = ctl.ctx /\ ctl'.stopping = ctl.stopping
    BY <2>1, <1>1, GoHeart DEF ControlPoints
  <2> QED BY <2>1, <2>2, <1>4, <1>5
<1>6. CASE ~stops
  <2>1. /\ todo' = CASE lau[n] = "ok" -> <<>>
                     [] lau[n] = "err_handle" -> waitingIfChanged(n, "completion_missing")
                     [] OTHER -> finishIndeterminate(n)
        /\ Go(IF Left(lau) = {n} THEN "top" ELSE "launch")
    BY <1>6, <1>2 DEF LaunchSettle
  <2>2. PICK p \in {"top", "launch"} : Go(p)
    BY <2>1
  <2>3. ctl'.pc \in {"top", "launch"} /\ ctl'.hb = ctl.hb /\ ctl'.ctx = ctl.ctx /\ ctl'.stopping = ctl.stopping
    BY <2>2, <1>1, GoHeart DEF ControlPoints
  <2>4. CASE lau[n] = "ok"
    BY <2>1, <2>3, <2>4, <1>4
  <2>5. CASE lau[n] # "ok"
    <3>1. Allowed /\ ~run.cancel
      BY <1>6, <2>5 DEF Allowed
    <3>2. LaunchOK(n) /\ ~Coming(n)
      BY <1>1, <1>3, <1>4 DEF ThreadsOK, LaunchesOK, Coming
    <3>3. Active(n, node)
      BY <3>1, <3>2, <1>3 DEF LaunchOK, Untouched
    <3>4. todo' = waitingIfChanged(n, "completion_missing") \/ todo' = finishIndeterminate(n)
      BY <2>1, <2>5
    <3>5. todo' \in Applied(n)
      BY <3>4 DEF Applied
    <3> QED BY <3>1, <3>3, <3>5, <2>3, <1>3, <1>4
  <2> QED BY <2>4, <2>5
<1> QED BY <1>5, <1>6

\* so does settling a launch.
LEMMA EndLaunchSettle == ASSUME RunInv, EndInv, LaunchSettle PROVE EndInv'
<1>1. /\ todo = <<>> /\ ~act /\ UNCHANGED <<run, node, req, intent, proc, can, ask, act, hbrec>>
      /\ ctl'.hb = ctl.hb /\ ctl'.pc \in {"exit", "top", "launch"}
  BY LaunchIs
<1>2. ctl'.pc \notin RecoveryPoints
  BY <1>1 DEF RecoveryPoints
<1>3. CASE todo' = <<>>
  BY <1>1, <1>2, <1>3, EndNothing
<1>4. CASE todo' # <<>>
  <2>1. Allowed /\ \E n \in Agent : Active(n, node) /\ todo' \in Applied(n)
    BY <1>4, LaunchIs
  <2>2. PICK n \in Agent : Active(n, node) /\ todo' \in Applied(n)
    BY <2>1
  <2>3. PICK s \in Applied(n) : s = todo'
    BY <2>2
  <2>4. \A i \in DOMAIN s : OpenWrite(s[i])
    BY <2>2, AppliedOpen
  <2>5. \A i \in DOMAIN todo' : OpenWrite(todo'[i])
    BY <2>3, <2>4
  <2> QED BY <1>1, <1>2, <2>1, <2>5, EndBegins
<1> QED BY <1>3, <1>4

-----------------------------------------------------------------------------
\* What a batch writes of a node and of the Run.
BatchOpen(w) ==
  /\ OpenWrite(w)
  /\ w.file = "node" => NodeOK(w.n, w.val)

\* Such are all writes of a batch; one that starts no Agent is only of nodes
\* and of the Run.
LEMMA BatchIsOpen ==
  ASSUME RunInv, Allowed, NEW batch, batch = BatchWrites(PlanSchedule(run, node))
  PROVE  batch \in Seq(Writes) /\ \A i \in DOMAIN batch : BatchOpen(batch[i])
<1>1. FilesOK /\ run \in WorkflowSnapshot
  BY DEF RunInv, FilesOK
<1>2. \A r \in {run, RunningRun} : r.phase \notin ClosedPhases
  BY <1>1 DEF Allowed, RunningRun, WorkflowSnapshot, ClosedPhases
<1>3. RunningRun.cancel = run.cancel
  BY <1>1 DEF RunningRun, WorkflowSnapshot
<1>4. PICK front \in Seq(FrontWrites) : batch = front \o Each(InOrder(Ready), AgentWrites)
  BY <1>1, BatchIs
<1>5. PICK back : back = Each(InOrder(Ready), AgentWrites)
  OBVIOUS
<1>6. back \in Seq(Writes)
  BY <1>1, <1>5, StartsAre
<1>7. \A i \in 1..Len(back) : \E n \in Ready, l \in 1..3 : From(back, i, Starting(n), l)
  BY <1>1, <1>5, StartsAre
<1>8. batch \in Seq(Writes) /\ Concats(batch, front, back)
  <2>1. FrontWrites \subseteq Writes
    BY DEF FrontWrites
  <2>2. front \in Seq(Writes)
    BY <2>1
  <2>3. batch = front \o back
    BY <1>4, <1>5
  <2> QED BY <2>2, <2>3, <1>6, FromConcat
<1>9. ASSUME NEW w \in FrontWrites PROVE BatchOpen(w)
  <2>1. w.file \in {"node", "run"} /\ (w.file = "node" => NodeOK(w.n, w.val))
    BY DEF FrontWrites, Settling
  <2>2. w.file = "run" => w.val.cancel = run.cancel /\ w.val \in {run, RunningRun}
    BY DEF FrontWrites
  <2> QED BY <2>1, <2>2, <1>2 DEF BatchOpen, OpenWrite, OfRun
<1>10. ASSUME NEW i \in 1..Len(batch) PROVE BatchOpen(batch[i])
  <2>1. CASE i \in 1..Len(front)
    <3>1. batch[i] = front[i]
      BY <2>1, <1>8 DEF Concats, From
    <3>2. front[i] \in FrontWrites
      BY <2>1
    <3> QED BY <3>1, <3>2, <1>9
  <2>2. CASE \E l \in 1..Len(back) : i = Len(front) + l
    <3>1. PICK j \in 1..Len(back) : i = Len(front) + j
      BY <2>2
    <3>2. From(batch, i, back, j)
      BY <3>1, <1>8 DEF Concats
    <3>3. PICK n \in Ready, l \in 1..3 : From(back, j, Starting(n), l)
      BY <1>7
    <3>4. PICK w : w = batch[i]
      OBVIOUS
    <3>5. w = Starting(n)[l]
      BY <3>2, <3>3, <3>4 DEF From
    <3>6. /\ Starting(n)[1] = CreateAttempt(n, node[n].att + 1, Prepared)
          /\ Starting(n)[2] = WriteNode(n, StartedNode(n)) /\ Starting(n)[3] = WriteRun(RunningRun)
      BY <1>1, StartingIs
    <3>7. CASE w = CreateAttempt(n, node[n].att + 1, Prepared)
      <4>1. w.file = "new"
        BY <3>7 DEF CreateAttempt
      <4> QED BY <3>4, <4>1 DEF BatchOpen, OpenWrite, OfRun
    <3>8. CASE w = WriteNode(n, StartedNode(n))
      <4>1. NodeOK(n, StartedNode(n))
        BY <1>1, StartedIs
      <4>2. PICK v : v = StartedNode(n)
        OBVIOUS
      <4>3. w.file = "node" /\ w.n = n /\ w.val = v
        BY <3>8, <4>2 DEF WriteNode
      <4> QED BY <3>4, <4>1, <4>2, <4>3 DEF BatchOpen, OpenWrite, OfRun
    <3>9. CASE w = WriteRun(RunningRun)
      <4>1. PICK r : r = RunningRun
        OBVIOUS
      <4>2. w.file = "run" /\ w.val = r
        BY <3>9, <4>1 DEF WriteRun
      <4> QED BY <3>4, <4>1, <4>2, <1>2, <1>3 DEF BatchOpen, OpenWrite, OfRun
    <3>10. l = 1 \/ l = 2 \/ l = 3
      OBVIOUS
    <3> QED BY <3>5, <3>6, <3>7, <3>8, <3>9, <3>10
  <2> QED BY <2>1, <2>2, <1>8 DEF Concats
<1>11. DOMAIN batch = 1..Len(batch)
  BY <1>8
<1> QED BY <1>8, <1>10, <1>11

\* What NodesAfter says of a node: its snapshot when it is not written, and
\* otherwise one of the writes.
LEMMA NodeAfter ==
  ASSUME NEW ws \in Seq(Writes), NEW n \in Node
  PROVE  \/ NodesAfter(ws)[n] = node[n] /\ \A i \in DOMAIN ws : ~(ws[i].file = "node" /\ ws[i].n = n)
         \/ \E i \in DOMAIN ws : ws[i].file = "node" /\ ws[i].n = n /\ NodesAfter(ws)[n] = ws[i].val
<1> DEFINE own == {i \in DOMAIN ws : ws[i].file = "node" /\ ws[i].n = n}
           last == CHOOSE i \in own : \A j \in own : j <= i
<1>1. NodesAfter(ws)[n] = IF own = {} THEN node[n] ELSE ws[last].val
  BY DEF NodesAfter
<1>2. CASE own = {}
  BY <1>1, <1>2
<1>3. CASE own # {}
  <2>1. PICK N \in Nat : N = Len(ws) /\ DOMAIN ws = 1..N
    OBVIOUS
  <2>2. own \in SUBSET (1..N)
    BY <2>1
  <2>3. \E i \in own : \A j \in own : j <= i
    BY <2>2, <1>3, LargestElement
  <2>4. last \in own
    BY <2>3
  <2>5. PICK i \in own : i = last
    BY <2>4
  <2> QED BY <2>5, <1>1, <1>3
<1> QED BY <1>2, <1>3

\* The writes that are due of a node agree.
LEMMA NodesAgree ==
  ASSUME AgreeOK', NEW s, s = todo'
  PROVE  \A k, l \in DOMAIN s :
           s[k].file = "node" /\ s[l].file = "node" /\ s[k].n = s[l].n => s[k].val = s[l].val
  BY DEF AgreeOK

\* s is b and then w; b has N elements.
Extended(s, b, w, N) ==
  /\ N \in Nat /\ Len(s) = N + 1 /\ DOMAIN s = 1..(N + 1) /\ DOMAIN b = 1..N
  /\ \A i \in 1..N : s[i] = b[i]
  /\ s[N + 1] = w

\* Such is a sequence with one element more.
LEMMA ExtendedIs ==
  ASSUME NEW W, NEW b \in Seq(W), NEW w \in W, NEW s, s = b \o <<w>>
  PROVE  \E N \in Nat : Extended(s, b, w, N)
<1>1. PICK tail : tail = <<w>>
  OBVIOUS
<1>2. tail \in Seq(W) /\ Len(tail) = 1 /\ tail[1] = w
  BY <1>1
<1>3. s \in Seq(W) /\ Concats(s, b, tail)
  BY <1>1, <1>2, FromConcat
<1>4. PICK N \in Nat : N = Len(b) /\ DOMAIN b = 1..N
  OBVIOUS
<1>5. Len(s) = N + 1 /\ DOMAIN s = 1..(N + 1)
  BY <1>2, <1>3, <1>4 DEF Concats
<1>6. \A i \in 1..N : s[i] = b[i]
  BY <1>3, <1>4 DEF Concats, From
<1>7. s[N + 1] = w
  <2>1. From(s, Len(b) + 1, tail, 1)
    BY <1>2, <1>3 DEF Concats
  <2> QED BY <2>1, <1>2, <1>4 DEF From
<1> QED BY <1>4, <1>5, <1>6, <1>7 DEF Extended

\* A batch that settles the last nodes completes the Run by its last write.
LEMMA BatchCompletes ==
  ASSUME RunInv, RunInv', Allowed, ~act', UNCHANGED <<run, node>>,
         NEW batch, batch = BatchWrites(PlanSchedule(run, node)),
         NEW r, r = aggregateRunState(run, NodesAfter(batch)),
         NEW w, w = WriteRun(r), NEW s, s = todo', NEW N \in Nat, Extended(s, batch, w, N)
  PROVE  /\ CompletesOK'
         /\ \A i \in DOMAIN todo' : OfRun(todo'[i]) => todo'[i].val.cancel = run.cancel
<1>1. run \in WorkflowSnapshot /\ FilesOK /\ \A n \in Node : NodeOK(n, node[n])
  BY DEF RunInv, FilesOK
<1>2. batch \in Seq(Writes) /\ \A i \in DOMAIN batch : BatchOpen(batch[i])
  BY BatchIsOpen
<1>3. PICK nodes \in [Node -> NodeSnapshot] : nodes = NodesAfter(batch)
  BY <1>1, <1>2, NodesAfterType
<1>4. /\ r.cancel = run.cancel
      /\ r.phase = "completed" => \A n \in Node : /\ nodes[n].phase \notin {"waiting", "pending", "ready"}
                                                  /\ n \in Agent => nodes[n].phase # "running"
  BY <1>1, <1>3, AggregatePhase
<1>5. r \in WorkflowSnapshot
  BY <1>1, <1>3, AggregateType
<1>7. w.file = "run" /\ w.val = r
  BY <1>5, RunWrite
<1>13. Len(s) = N + 1 /\ DOMAIN s = 1..(N + 1) /\ DOMAIN batch = 1..N
  BY DEF Extended
<1>14. \A i \in 1..N : s[i] = batch[i] /\ BatchOpen(s[i])
  BY <1>2, <1>13 DEF Extended
<1>15. s[N + 1] = w
  BY DEF Extended
<1>16. \A i \in 1..(N + 1) : i \in 1..N \/ i = N + 1
  OBVIOUS
<1>17. ASSUME NEW i \in DOMAIN s, OfRun(s[i]) PROVE s[i].val.cancel = run.cancel
  BY <1>17, <1>4, <1>7, <1>13, <1>14, <1>15, <1>16 DEF BatchOpen, OpenWrite
<1>18. ASSUME r.phase = "completed", NEW n \in Node
       PROVE  /\ \A i \in DOMAIN s : s[i].file = "node" /\ s[i].n = n => Terminal(s[i].val)
              /\ Terminal(node[n]) \/ \E i \in DOMAIN s : s[i].file = "node" /\ s[i].n = n
  <2>1. PICK v : v = nodes[n]
    OBVIOUS
  <2>2. \/ v = node[n] /\ \A i \in DOMAIN batch : ~(batch[i].file = "node" /\ batch[i].n = n)
        \/ \E i \in DOMAIN batch : batch[i].file = "node" /\ batch[i].n = n /\ v = batch[i].val
    BY <2>1, <1>2, <1>3, NodeAfter
  <2>3. NodeOK(n, v)
    BY <2>2, <1>1, <1>2 DEF BatchOpen
  <2>4. Terminal(v)
    <3>1. v.phase \in NodePhases /\ (n \notin Agent => v.phase # "running")
      BY <2>3 DEF NodeOK, NodeSnapshot
    <3>2. v.phase \notin {"waiting", "pending", "ready"} /\ (n \in Agent => v.phase # "running")
      BY <2>1, <1>4, <1>18
    <3> QED BY <3>1, <3>2 DEF Terminal, NodePhases
  <2>5. ASSUME NEW i \in DOMAIN s, s[i].file = "node", s[i].n = n PROVE i \in 1..N
    BY <2>5, <1>7, <1>13, <1>15, <1>16
  <2>6. CASE v = node[n] /\ \A i \in DOMAIN batch : ~(batch[i].file = "node" /\ batch[i].n = n)
    BY <2>4, <2>5, <2>6, <1>13, <1>14
  <2>7. CASE \E i \in DOMAIN batch : batch[i].file = "node" /\ batch[i].n = n /\ v = batch[i].val
    <3>1. PICK j \in 1..N : batch[j].file = "node" /\ batch[j].n = n /\ v = batch[j].val
      BY <2>7, <1>13
    <3>2. j \in DOMAIN s /\ s[j].file = "node" /\ s[j].n = n /\ s[j].val = v
      BY <3>1, <1>13, <1>14
    <3>3. ASSUME NEW i \in DOMAIN s, s[i].file = "node", s[i].n = n PROVE s[i].val = v
      <4>1. AgreeOK'
        BY DEF RunInv, TodoOK
      <4>2. \A k, l \in DOMAIN s :
              s[k].file = "node" /\ s[l].file = "node" /\ s[k].n = s[l].n => s[k].val = s[l].val
        BY <4>1, NodesAgree
      <4>3. s[i].val = s[j].val
        BY <4>2, <3>2, <3>3
      <4> QED BY <4>3, <3>2
    <3> QED BY <3>2, <3>3, <2>4
  <2> QED BY <2>2, <2>6, <2>7
<1>19. ASSUME NEW i \in DOMAIN s, s[i].file = "run", s[i].val.phase = "completed"
       PROVE  i = Len(s) /\ r.phase = "completed"
  <2>1. OfRun(s[i])
    BY <1>19 DEF OfRun
  <2>2. i \notin 1..N
    BY <2>1, <1>14, <1>19 DEF BatchOpen, OpenWrite, ClosedPhases
  <2> QED BY <2>2, <1>7, <1>13, <1>15, <1>16, <1>19
<1>20. r.phase = "completed" => EndsAll'
  BY <1>18 DEF EndsAll, OfNode
<1>21. CompletesOK'
  BY <1>19, <1>20 DEF CompletesOK
<1> QED BY <1>17, <1>21

\* A batch keeps the invariant.
LEMMA EndScheduleBatch == ASSUME RunInv, EndInv, ScheduleBatch PROVE EndInv'
<1>1. ControlRules /\ ctl \in ControlStates
  BY DEF RunInv, ControlOK, ThreadTypes
<1>2. /\ ctl.pc = "sched" /\ todo = <<>> /\ ~act
      /\ UNCHANGED <<run, node, req, intent, proc, obs, can, ask, act, hbrec>>
  BY <1>1 DEF ScheduleBatch, ControlRules, disk
<1>3. RunInv'
  BY StepScheduleBatch
<1> DEFINE d == PlanSchedule(run, node)
           batch == BatchWrites(d)
           runAfter == aggregateRunState(run, NodesAfter(batch))
<1>4. ASSUME NEW p \in {"exit", "fault", "launch", "top"}, Go(p)
      PROVE  ctl'.hb = ctl.hb /\ ctl'.pc \notin RecoveryPoints
  BY <1>1, <1>4, GoHeart DEF ControlPoints, RecoveryPoints
<1>5. CASE ~Allowed \/ d.error
  <2>1. PICK p \in {"exit", "fault"} : Go(p) /\ UNCHANGED todo
    BY <1>5 DEF ScheduleBatch
  <2>2. ctl'.hb = ctl.hb /\ ctl'.pc \notin RecoveryPoints
    BY <2>1, <1>4
  <2> QED BY <2>1, <2>2, <1>2, EndNothing
<1>6. PICK b : b = batch
  OBVIOUS
<1>7. CASE Allowed /\ ~d.error /\ d.readyAgents # <<>>
  <2>1. todo' = b /\ Go("launch")
    BY <1>6, <1>7 DEF ScheduleBatch
  <2>2. ctl'.hb = ctl.hb /\ ctl'.pc \notin RecoveryPoints
    BY <2>1, <1>4
  <2>3. \A i \in DOMAIN b : BatchOpen(b[i])
    BY <1>6, <1>7, BatchIsOpen
  <2>4. \A i \in DOMAIN todo' : OpenWrite(todo'[i])
    BY <2>1, <2>3 DEF BatchOpen
  <2> QED BY <2>2, <2>4, <1>2, <1>7, EndBegins
<1>8. CASE Allowed /\ ~d.error /\ d.readyAgents = <<>>
  <2>1. /\ todo' = batch \o (IF runAfter # run THEN <<WriteRun(runAfter)>> ELSE <<>>)
        /\ Go(IF shouldStop(runAfter) THEN "exit" ELSE IF batch # <<>> \/ ctl.again THEN "top" ELSE "exit")
    BY <1>8 DEF ScheduleBatch
  <2>2. PICK r : r = runAfter
    OBVIOUS
  <2>3. PICK p \in {"exit", "top"} : Go(p)
    BY <2>1
  <2>4. ctl'.hb = ctl.hb /\ ctl'.pc \notin RecoveryPoints
    BY <2>3, <1>4
  <2>5. b \in Seq(Writes) /\ \A i \in DOMAIN b : BatchOpen(b[i])
    BY <1>6, <1>8, BatchIsOpen
  <2>6. todo' = b \o <<>> \/ todo' = b \o <<WriteRun(r)>>
    BY <2>1, <2>2, <1>6
  <2>7. CASE todo' = b \o <<>>
    <3>1. todo' = b
      BY <2>5, <2>7
    <3>2. \A i \in DOMAIN todo' : OpenWrite(todo'[i])
      BY <3>1, <2>5 DEF BatchOpen
    <3> QED BY <3>2, <2>4, <1>2, <1>8, EndBegins
  <2>8. CASE todo' = b \o <<WriteRun(r)>>
    <3>1. b = BatchWrites(PlanSchedule(run, node)) /\ r = aggregateRunState(run, NodesAfter(b))
      BY <2>2, <1>6
    <3>2. PICK w : w = WriteRun(r)
      OBVIOUS
    <3>3. w \in Writes
      <4>1. PICK nodes \in [Node -> NodeSnapshot] : nodes = NodesAfter(b)
        BY <2>5, NodesAfterType DEF RunInv
      <4>2. r \in WorkflowSnapshot
        <5>1. r = aggregateRunState(run, nodes) /\ run \in WorkflowSnapshot
          BY <3>1, <4>1 DEF RunInv, FilesOK
        <5> QED BY <5>1, AggregateType
      <4> QED BY <3>2, <4>2, RunWrite
    <3>4. PICK s : s = todo'
      OBVIOUS
    <3>5. s = b \o <<w>>
      BY <3>2, <3>4, <2>8
    <3>6. PICK N \in Nat : Extended(s, b, w, N)
      BY <3>3, <3>5, <2>5, ExtendedIs
    <3>7. CompletesOK' /\ \A i \in DOMAIN todo' : OfRun(todo'[i]) => todo'[i].val.cancel = run.cancel
      <4>1. ~act' /\ UNCHANGED <<run, node>> /\ Allowed
        BY <1>2, <1>8
      <4> HIDE DEF batch, runAfter, d
      <4> QED BY <4>1, <3>1, <3>2, <3>4, <3>6, <1>3, BatchCompletes
    <3> QED BY <3>7, <2>4, <1>2, <1>8, EndWrites
  <2> QED BY <2>6, <2>7, <2>8
<1> QED BY <1>5, <1>7, <1>8

-----------------------------------------------------------------------------
\* What a write that is done, and not refused, changes.
Done ==
  /\ Shifted /\ UNCHANGED <<proc, can, ask, act, hbrec, ctl>>
  /\ run' = IF OfRun(todo[1]) THEN todo[1].val ELSE run
  /\ req' = req \/ req' = Outdate(req)
  /\ todo[1].file # "intent" /\ ~OfRun(todo[1]) => intent' = intent
  /\ todo[1].file = "intent" => intent' = todo[1].val
  /\ todo[1].file # "node" => node' = node
  /\ todo[1].file = "node" => \A n \in Node : node'[n] = IF n = todo[1].n THEN todo[1].val ELSE node[n]

\* Such is a write of any other file than one that exists.
LEMMA WriteDone ==
  ASSUME RunInv, Write, ~(todo[1].file = "new" /\ attempt[todo[1].n][todo[1].k] # NoAttempt)
  PROVE  Done
<1>1. todo \in Seq(Writes) /\ todo # <<>> /\ node \in [Node -> NodeSnapshot]
  BY DEF RunInv, TodoOK, FilesOK, Write
<1>2. Head(todo) = todo[1]
  BY <1>1
<1>3. /\ todo' = Tail(todo) /\ run' = (IF OfRun(todo[1]) THEN todo[1].val ELSE run)
      /\ req' = (IF OfRun(todo[1]) THEN Outdate(req) ELSE req)
      /\ node' = (IF todo[1].file = "node" THEN [node EXCEPT ![todo[1].n] = todo[1].val] ELSE node)
      /\ UNCHANGED <<proc, can, ask, act, hbrec, ctl>>
  BY <1>2 DEF Write, OfRun
<1>4. intent' = CASE todo[1].file = "intent" -> todo[1].val
                  [] todo[1].file = "acted" -> [intent EXCEPT !.receipt = TRUE]
                  [] OTHER -> intent
  BY <1>2 DEF Write
<1>5. todo[1].file # "intent" /\ ~OfRun(todo[1]) => intent' = intent
  BY <1>4 DEF OfRun
<1>6. todo[1].file = "intent" => intent' = todo[1].val
  BY <1>4
<1>7. todo[1].file = "node" => \A n \in Node : node'[n] = IF n = todo[1].n THEN todo[1].val ELSE node[n]
  BY <1>1, <1>3
<1> QED BY <1>1, <1>3, <1>5, <1>6, <1>7 DEF Done, Shifted

\* The last of the writes that are left is the last one.
LEMMA LastLeft ==
  ASSUME todo \in Seq(Writes), Shifted
  PROVE  /\ \A i \in DOMAIN todo' : i + 1 = Len(todo) => i = Len(todo')
         /\ 1 = Len(todo) => todo' = <<>>
<1>1. PICK N \in Nat : N = Len(todo)
  OBVIOUS
<1>2. todo' \in Seq(Writes)
  BY ShiftIs
<1>3. PICK M \in Nat : M = Len(todo') /\ DOMAIN todo' = 1..M
  BY <1>2
<1>4. Len(todo') = N - 1
  BY <1>1 DEF Shifted
<1>5. M = N - 1
  BY <1>3, <1>4
<1>6. \A i \in 1..M : i + 1 = N => i = M
  BY <1>5
<1>7. \A i \in DOMAIN todo' : i + 1 = Len(todo) => i = Len(todo')
  BY <1>1, <1>3, <1>6
<1>8. ASSUME 1 = Len(todo) PROVE todo' = <<>>
  <2>1. N = 1
    BY <1>1, <1>8
  <2>2. M = 0
    BY <2>1, <1>5
  <2> QED BY <2>2, <1>2, <1>3
<1> QED BY <1>7, <1>8

\* A write keeps that the Run is completed by the last one,
LEMMA DoneCompletes ==
  ASSUME RunInv, CompletesOK, Done
  PROVE  CompletesOK'
<1>1. todo \in Seq(Writes) /\ Shifted /\ act' = act
  BY DEF RunInv, TodoOK, Done
<1>2. \A i \in DOMAIN todo' : i \in 1..Len(todo') /\ i + 1 \in DOMAIN todo /\ todo'[i] = todo[i + 1]
  BY <1>1, ShiftIs
<1>3. \A i \in DOMAIN todo : i > 1 => i \in Nat /\ i - 1 \in DOMAIN todo' /\ todo'[i - 1] = todo[i]
  BY <1>1, ShiftIs
<1>4. ASSUME EndsAll, NEW n \in Node
      PROVE  /\ \A i \in DOMAIN todo' : OfNode(i, n)' => Terminal(todo'[i].val)
             /\ Terminal(node[n])' \/ \E i \in DOMAIN todo' : OfNode(i, n)'
  <2>1. \A i \in DOMAIN todo' : OfNode(i, n)' => Terminal(todo'[i].val)
    BY <1>2, <1>4 DEF EndsAll, OfNode
  <2>2. CASE OfNode(1, n)
    <3>1. Terminal(todo[1].val)
      BY <2>2, <1>1, <1>4, ShiftIs DEF EndsAll
    <3>2. node'[n] = todo[1].val
      BY <2>2 DEF Done, OfNode
    <3> QED BY <2>1, <3>1, <3>2
  <2>3. CASE ~OfNode(1, n)
    <3>1. node'[n] = node[n]
      BY <2>3 DEF Done, OfNode
    <3>2. ASSUME NEW i \in DOMAIN todo, OfNode(i, n) PROVE \E j \in DOMAIN todo' : OfNode(j, n)'
      <4>1. i # 1 /\ i \in 1..Len(todo)
        BY <2>3, <3>2, <1>1
      <4>2. i > 1
        BY <4>1
      <4>3. PICK j \in DOMAIN todo' : todo'[j] = todo[i]
        BY <4>2, <1>3
      <4> QED BY <4>3, <3>2 DEF OfNode
    <3> QED BY <2>1, <3>1, <3>2, <1>4 DEF EndsAll
  <2> QED BY <2>2, <2>3
<1>5. ASSUME NEW i \in DOMAIN todo', todo'[i].file = "run", todo'[i].val.phase = "completed"
      PROVE  i = Len(todo') /\ ~act' /\ (Uncancelled => EndsAll')
  <2>1. i + 1 \in DOMAIN todo /\ todo[i + 1] = todo'[i]
    BY <1>2
  <2>2. PICK k \in DOMAIN todo : k = i + 1
    BY <2>1
  <2>3. k = Len(todo) /\ ~act /\ (Uncancelled => EndsAll)
    BY <2>1, <2>2, <1>5 DEF CompletesOK
  <2>4. Uncancelled => EndsAll'
    BY <2>3, <1>4 DEF EndsAll
  <2>5. i = Len(todo')
    BY <2>2, <2>3, <1>1, LastLeft
  <2> QED BY <2>3, <2>4, <2>5, <1>1
<1> QED BY <1>5 DEF CompletesOK

\* that an action goes on,
LEMMA DoneAction ==
  ASSUME RunInv, ActionOK, Done, act
  PROVE  ActionOK' /\ (run'.phase = "completed" => Planned')
<1>1. todo \in Seq(Writes) /\ Shifted /\ act'
  BY DEF RunInv, TodoOK, Done
<1>2. \A i \in DOMAIN todo' : i \in 1..Len(todo') /\ i + 1 \in DOMAIN todo /\ todo'[i] = todo[i + 1]
  BY <1>1, ShiftIs
<1>3. \A i \in DOMAIN todo : i > 1 => i \in Nat /\ i - 1 \in DOMAIN todo' /\ todo'[i - 1] = todo[i]
  BY <1>1, ShiftIs
<1>4. 1 \in DOMAIN todo /\ DOMAIN todo = 1..Len(todo) /\ todo # <<>>
  BY <1>1, ShiftIs DEF Shifted
<1>5. \A i \in DOMAIN todo' : OfRun(todo'[i]) => todo'[i].val.phase = "running"
  BY <1>2 DEF ActionOK
<1>6. OfRun(todo[1]) => run'.phase = "running"
  BY <1>4 DEF ActionOK, Done
<1>7. ~OfRun(todo[1]) => run' = run
  BY DEF Done
<1>8. run'.phase = "running" \/ \E i \in DOMAIN todo' : OfRun(todo'[i])
  <2>1. ASSUME ~OfRun(todo[1]), NEW i \in DOMAIN todo, OfRun(todo[i]) PROVE \E j \in DOMAIN todo' : OfRun(todo'[j])
    <3>1. i # 1 /\ i \in 1..Len(todo)
      BY <2>1, <1>4
    <3>2. i > 1
      BY <3>1
    <3>3. PICK j \in DOMAIN todo' : todo'[j] = todo[i]
      BY <3>2, <1>3
    <3> QED BY <2>1, <3>3
  <2> QED BY <2>1, <1>6, <1>7 DEF ActionOK
<1>9. ASSUME NEW i \in DOMAIN todo', todo'[i].file = "intent"
      PROVE  \/ i > 1 /\ todo'[i - 1].file = "acted"
             \/ i = 1 /\ run'.phase = "running"
  <2>1. PICK k \in DOMAIN todo : k = i + 1 /\ todo[k].file = "intent"
    BY <1>2, <1>9
  <2>2. i \in Nat /\ i >= 1 /\ k > 1 /\ k - 1 = i
    BY <2>1, <1>2
  <2>3. todo[i].file = "acted"
    BY <2>1, <2>2 DEF ActionOK
  <2>4. CASE i = 1
    BY <2>3, <2>4, <1>6 DEF OfRun
  <2>5. CASE i > 1
    <3>1. i \in DOMAIN todo
      BY <2>1, <2>2, <1>4
    <3>2. todo'[i - 1] = todo[i]
      BY <3>1, <2>5, <1>3
    <3> QED BY <3>2, <2>3, <2>5
  <2> QED BY <2>2, <2>4, <2>5
<1>10. todo' # <<>> => 1 \in DOMAIN todo'
  <2>1. todo' \in Seq(Writes)
    BY <1>1, ShiftIs
  <2> QED BY <2>1
<1>11. todo' # <<>> /\ todo'[1].file = "intent" => run'.phase = "running"
  BY <1>9, <1>10
<1>12. ASSUME run'.phase = "completed" PROVE Planned'
  <2>1. ~OfRun(todo[1]) /\ run' = run
    BY <1>6, <1>7, <1>12
  <2>2. Planned \/ todo[1].file = "intent"
    BY <2>1, <1>12 DEF ActionOK
  <2>3. CASE todo[1].file = "intent"
    <3>1. todo[1].val.plan # <<>> /\ ~todo[1].val.receipt
      BY <2>1, <2>3, <1>4, <1>12 DEF ActionOK
    <3>2. intent' = todo[1].val
      BY <2>3 DEF Done
    <3> QED BY <3>1, <3>2 DEF Planned
  <2>4. CASE todo[1].file # "intent"
    <3>1. intent' = intent
      BY <2>1, <2>4 DEF Done
    <3> QED BY <3>1, <2>2, <2>4 DEF Planned
  <2> QED BY <2>3, <2>4
<1>13. \A i \in DOMAIN todo' : i > 1 /\ todo'[i].file = "intent" => todo'[i - 1].file = "acted"
  <2> SUFFICES ASSUME NEW i \in DOMAIN todo', i > 1, todo'[i].file = "intent" PROVE todo'[i - 1].file = "acted"
    OBVIOUS
  <2>1. i # 1
    OBVIOUS
  <2> QED BY <2>1, <1>9
<1> QED BY <1>5, <1>8, <1>11, <1>12, <1>13 DEF ActionOK

\* and what a completed Run says.
LEMMA EndWrite == ASSUME RunInv, EndInv, Write PROVE EndInv'
<1>1. todo \in Seq(Writes) /\ todo # <<>> /\ WriteOK(1) /\ 1 \in DOMAIN todo /\ ControlRules
      /\ ctl \in ControlStates
  <2>1. todo \in Seq(Writes) /\ todo # <<>>
    BY DEF RunInv, TodoOK, Write
  <2>2. 1 \in DOMAIN todo
    BY <2>1
  <2> QED BY <2>1, <2>2 DEF RunInv, TodoOK, ControlOK, ThreadTypes
<1>2. CASE todo[1].file = "new" /\ attempt[todo[1].n][todo[1].k] # NoAttempt
  <2>1. Head(todo) = todo[1]
    BY <1>1
  <2>2. BatchOK
    BY <1>1, <1>2 DEF WriteOK, PlainOK
  <2>3. ~act
    BY <1>1, <2>2 DEF BatchOK, ControlRules
  <2>4. /\ todo' = <<>> /\ ctl' = [ctl EXCEPT !.pc = "fault"]
        /\ UNCHANGED <<run, req, node, intent, proc, can, ask, act, hbrec>>
    BY <1>2, <2>1 DEF Write
  <2>5. ctl'.pc \notin RecoveryPoints /\ ctl'.hb = ctl.hb
    BY <1>1, <2>4 DEF ControlStates, RecoveryPoints
  <2> QED BY <2>3, <2>4, <2>5, EndNothing
<1>3. CASE ~(todo[1].file = "new" /\ attempt[todo[1].n][todo[1].k] # NoAttempt)
  <2>1. Done
    BY <1>3, WriteDone
  <2>2. CompletesOK /\ CompletedOK /\ ActionOK /\ (Uncancelled => RunEndsKnown) /\ RoutesOK
    BY DEF EndInv, EndsOK
  <2>3. CompletesOK'
    BY <2>1, <2>2, DoneCompletes
  <2>4. Shifted /\ act' = act /\ run' = IF OfRun(todo[1]) THEN todo[1].val ELSE run
    BY <2>1 DEF Done
  <2>5. ASSUME ~act, run'.phase = "completed"
        PROVE  todo' = <<>> /\ (Uncancelled => \A n \in Node : Terminal(node'[n]))
    <3>1. OfRun(todo[1]) /\ run' = todo[1].val
      BY <2>2, <2>4, <2>5, <1>1 DEF CompletedOK
    <3>2. todo[1].file = "run"
      <4>1. PlainOK(todo[1])
        BY <3>1, <1>1 DEF WriteOK, NewOK, CreatesOK, OfRun
      <4> QED BY <4>1, <3>1, <2>5 DEF PlainOK, OfRun
    <3>3. 1 = Len(todo) /\ (Uncancelled => EndsAll)
      BY <3>1, <3>2, <2>2, <2>5, <1>1 DEF CompletesOK
    <3>4. todo' = <<>>
      BY <3>3, <2>4, <1>1, LastLeft
    <3>5. \A i \in DOMAIN todo : i = 1
      BY <3>3, <1>1
    <3>6. Uncancelled => \A n \in Node : Terminal(node[n])
      BY <3>2, <3>3, <3>5 DEF EndsAll, OfNode
    <3>7. node' = node
      BY <3>2, <2>1 DEF Done
    <3> QED BY <3>4, <3>6, <3>7
  <2>6. CompletedOK'
    BY <2>4, <2>5 DEF CompletedOK
  <2>7. ActionOK' /\ (act /\ run'.phase = "completed" => Planned')
    <3>1. CASE act
      BY <3>1, <2>1, <2>2, DoneAction
    <3>2. CASE ~act
      BY <3>2, <2>4 DEF ActionOK
    <3> QED BY <3>1, <3>2
  <2>8. Uncancelled => RunEndsKnown'
    BY <2>5, <2>7 DEF RunEndsKnown
  <2>9. ASSUME Uncancelled PROVE NotCancelled'
    <3>1. NotCancelled
      BY <2>2, <2>9 DEF RoutesOK
    <3>2. req' = "none" /\ ~ask' /\ can'.pc = "off"
      BY <3>1, <2>1 DEF NotCancelled, Done, Outdate
    <3>3. ~run'.cancel
      BY <3>1, <2>4, <1>1 DEF NotCancelled
    <3>4. \A i \in DOMAIN todo' : i + 1 \in DOMAIN todo /\ todo'[i] = todo[i + 1]
      BY <2>4, <1>1, ShiftIs
    <3>5. \A i \in DOMAIN todo' : OfRun(todo'[i]) => ~todo'[i].val.cancel
      BY <3>1, <3>4 DEF NotCancelled
    <3> QED BY <3>2, <3>3, <3>5 DEF NotCancelled
  <2>10. RoutesOK'
    <3>1. UNCHANGED <<proc, hbrec, ctl>>
      BY <2>1 DEF Done
    <3> QED BY <3>1, <2>2, <2>9, RoutesSame DEF RoutesOK
  <2> QED BY <2>3, <2>6, <2>7, <2>8, <2>10 DEF EndInv, EndsOK
<1> QED BY <1>2, <1>3

-----------------------------------------------------------------------------
\* The writes that do not complete the Run.
Unfinished == {w \in Writes : OfRun(w) => w.val.phase # "completed"}

\* Of a node or of an Attempt,
LEMMA OtherUnfinished ==
  ASSUME NEW w \in Writes, w.file \in {"node", "attempt"}
  PROVE  w \in Unfinished
  BY DEF Unfinished, OfRun

\* and of the Run.
LEMMA RunUnfinished ==
  ASSUME NEW r \in WorkflowSnapshot, r.phase # "completed"
  PROVE  WriteRun(r) \in Unfinished
<1>1. PICK w : w = WriteRun(r)
  OBVIOUS
<1>2. w \in Writes /\ w.val = r
  BY <1>1, RunWrite
<1> QED BY <1>1, <1>2 DEF Unfinished

\* The writes of one outcome do not complete the Run,
LEMMA OutcomeUnfinished ==
  ASSUME FilesOK, NEW n \in Agent, Busy(n), run.phase # "completed"
  PROVE  OutcomeWrites(n) \in Seq(Unfinished)
<1>1. PICK v, a : v = CancelledNode(n) /\ a = CancelledAttempt(n)
  OBVIOUS
<1>2. PICK x, y : /\ x = [node[n] EXCEPT !.phase = "waiting", !.concl = "none", !.reason = "cancel_failed"]
                  /\ y = [Current(n) EXCEPT !.phase = "waiting", !.concl = "none", !.reason = "cancel_failed"]
  OBVIOUS
<1>3. /\ n \in Node /\ node[n] \in NodeSnapshot /\ node[n].att \in 1..MaxAttempts /\ Current(n) \in AttemptSnapshot
      /\ run \in WorkflowSnapshot
  BY WorkflowAssumption DEF FilesOK, NodeOK, Busy, BusyPhases
<1>4. v \in NodeSnapshot /\ a \in AttemptSnapshot
  BY <1>1, CancelledIs DEF NodeOK
<1>5. x \in NodeSnapshot
  BY <1>2, <1>3 DEF NodeSnapshot, NodePhases, Conclusions, Reasons
<1>6. y \in AttemptSnapshot
  BY <1>2, <1>3 DEF AttemptSnapshot, Conclusions, Reasons
<1>7. PICK k \in 1..MaxAttempts : k = node[n].att
  BY <1>3
<1>8. \A u \in NodeSnapshot : WriteNode(n, u) \in Unfinished
  BY <1>3, NodeWrite, OtherUnfinished
<1>9. \A u \in AttemptSnapshot : UpdateAttempt(n, k, u) \in Unfinished
  BY AttemptWrite, OtherUnfinished
<1>10. WriteRun(run) \in Unfinished
  BY <1>3, RunUnfinished
<1>11. OutcomeWrites(n) \in {<<WriteNode(n, v), UpdateAttempt(n, k, a), WriteRun(run)>>,
                             <<WriteNode(n, x), UpdateAttempt(n, k, y), WriteRun(run)>>}
  BY <1>1, <1>2, <1>7 DEF OutcomeWrites
<1>12. ASSUME NEW p \in Unfinished, NEW q \in Unfinished, NEW s \in Unfinished PROVE <<p, q, s>> \in Seq(Unfinished)
  OBVIOUS
<1> QED BY <1>4, <1>5, <1>6, <1>8, <1>9, <1>10, <1>11, <1>12

\* nor do those of all targets and those of the nodes that never started.
LEMMA EachUnfinished ==
  ASSUME NEW ns \in Seq(Node), NEW ss, DOMAIN ss = DOMAIN ns, \A i \in DOMAIN ns : ss[i] \in Seq(Unfinished)
  PROVE  Flatten(ss) \in Seq(Unfinished)
<1>1. PICK N \in Nat : N = Len(ns) /\ DOMAIN ns = 1..N
  OBVIOUS
<1>2. DOMAIN ss = 1..N /\ Len(ss) = N
  BY <1>1
<1> QED BY <1>1, <1>2, FlattenPieces

LEMMA SkipsUnfinished == ASSUME FilesOK PROVE SkipUnstarted \in Seq(Unfinished)
<1>1. PICK ns : ns = InOrder(Skipped)
  OBVIOUS
<1>2. ns \in Seq(Node) /\ \A i \in DOMAIN ns : ns[i] \in Skipped \cap Node
  BY <1>1, InOrderNodes
<1>3. PICK ss : ss = [i \in DOMAIN ns |-> <<WriteNode(ns[i], Skip(ns[i], "workflow_cancelled"))>>]
  OBVIOUS
<1>4. ASSUME NEW i \in DOMAIN ns PROVE ss[i] \in Seq(Unfinished)
  <2>1. PICK m \in Node : m = ns[i] /\ m \in Skipped
    BY <1>2
  <2>2. PICK v \in NodeSnapshot : v = Skip(m, "workflow_cancelled")
    BY <2>1, SkipIs DEF Reasons, NodeOK
  <2>3. WriteNode(m, v) \in Unfinished
    BY NodeWrite, OtherUnfinished
  <2>4. ss[i] = <<WriteNode(m, v)>>
    BY <2>1, <2>2, <1>3
  <2> QED BY <2>3, <2>4
<1>5. DOMAIN ss = DOMAIN ns
  BY <1>3
<1>6. Flatten(ss) \in Seq(Unfinished)
  BY <1>2, <1>4, <1>5, EachUnfinished
<1>7. SkipUnstarted = Flatten(ss)
  BY <1>1, <1>3 DEF SkipUnstarted, Each, Skipped
<1> QED BY <1>6, <1>7

\* The last of the writes is the only one that may complete the Run.
LEMMA LastFinishes ==
  ASSUME NEW e \in Seq(Unfinished), NEW b \in Seq(Unfinished), NEW r \in WorkflowSnapshot, NEW s,
         s = e \o (b \o <<WriteRun(r)>>)
  PROVE  \A i \in DOMAIN s : OfRun(s[i]) /\ s[i].val.phase = "completed" => i = Len(s)
<1>1. PICK w \in Writes : w = WriteRun(r)
  BY RunWrite
<1>2. e \in Seq(Writes) /\ b \in Seq(Writes)
  BY DEF Unfinished
<1>3. PICK t : t = b \o <<w>>
  OBVIOUS
<1>4. PICK N \in Nat : Extended(t, b, w, N)
  BY <1>2, <1>3, ExtendedIs
<1>5. t \in Seq(Writes)
  BY <1>2, <1>3
<1>6. s \in Seq(Writes) /\ Concats(s, e, t)
  <2>1. s = e \o t
    BY <1>1, <1>3
  <2> QED BY <2>1, <1>2, <1>5, FromConcat
<1>7. PICK M \in Nat : M = Len(e) /\ DOMAIN e = 1..M
  OBVIOUS
<1>8. Len(t) = N + 1 /\ DOMAIN b = 1..N
  BY <1>4 DEF Extended
<1>9. Len(s) = M + (N + 1) /\ DOMAIN s = 1..Len(s)
  BY <1>6, <1>7, <1>8 DEF Concats
<1>10. ASSUME NEW i \in 1..Len(s), OfRun(s[i]), s[i].val.phase = "completed" PROVE i = Len(s)
  <2>1. CASE i \in 1..Len(e)
    <3>1. s[i] = e[i]
      BY <2>1, <1>6 DEF Concats, From
    <3>2. e[i] \in Unfinished
      BY <2>1
    <3> QED BY <3>1, <3>2, <1>10 DEF Unfinished
  <2>2. CASE \E l \in 1..Len(t) : i = Len(e) + l
    <3>1. PICK l \in 1..Len(t) : i = Len(e) + l
      BY <2>2
    <3>2. s[i] = t[l]
      BY <3>1, <1>6 DEF Concats, From
    <3>3. CASE l \in 1..N
      <4>1. t[l] = b[l]
        BY <3>3, <1>4 DEF Extended
      <4>2. b[l] \in Unfinished
        BY <3>3, <1>8
      <4> QED BY <3>2, <4>1, <4>2, <1>10 DEF Unfinished
    <3>4. CASE l = N + 1
      BY <3>1, <3>4, <1>7, <1>9
    <3>5. l \in 1..N \/ l = N + 1
      BY <1>8
    <3> QED BY <3>3, <3>4, <3>5
  <2> QED BY <2>1, <2>2, <1>6 DEF Concats
<1> QED BY <1>9, <1>10

\* A cancellation whose targets are all settled completes the Run at last.
LEMMA EndCancelApply == ASSUME RunInv, EndInv, CancelApply PROVE EndInv'
<1>1. /\ ThreadTypes /\ ControlRules /\ FilesOK /\ ThreadsOK /\ run \in WorkflowSnapshot /\ can \in CancelStates
  BY DEF RunInv, ControlOK, ThreadTypes, FilesOK
<1>2. /\ can.pc = "targets" /\ todo = <<>>
      /\ UNCHANGED <<run, node, req, intent, proc, ctl, ask, act, hbrec>>
  BY DEF CancelApply, disk
<1>3. ~act /\ ~Uncancelled
  BY <1>1, <1>2 DEF ControlRules, EndInv, RoutesOK, NotCancelled
<1>4. RoutesOK'
  BY <1>2, <1>3 DEF EndInv, RoutesOK, Uncancelled
<1>5. CASE run.phase = "completed"
  <2>1. todo' = <<>>
    BY <1>5 DEF CancelApply
  <2> QED BY <2>1, <1>2, <1>3, <1>4, EndsEmpty DEF EndInv
<1>6. CASE run.phase # "completed"
  <2>1. PICK e : e = Each(InOrder(Left(can.out)), OutcomeWrites)
    OBVIOUS
  <2>2. e \in Seq(Unfinished)
    <3>1. PICK ns : ns = InOrder(Left(can.out))
      OBVIOUS
    <3>2. ns \in Seq(Node) /\ \A i \in DOMAIN ns : ns[i] \in Left(can.out)
      BY <3>1, InOrderNodes
    <3>3. PICK ss : ss = [i \in DOMAIN ns |-> OutcomeWrites(ns[i])]
      OBVIOUS
    <3>4. ASSUME NEW i \in DOMAIN ns PROVE ss[i] \in Seq(Unfinished)
      <4>1. PICK m \in Agent : m = ns[i] /\ can.out[m] # "-"
        BY <3>2 DEF Left
      <4>2. Busy(m)
        BY <4>1, <1>1 DEF ThreadsOK, TargetsOK, TargetOK
      <4> QED BY <4>1, <4>2, <3>3, <1>1, <1>6, OutcomeUnfinished
    <3>5. DOMAIN ss = DOMAIN ns
      BY <3>3
    <3>6. Flatten(ss) \in Seq(Unfinished)
      BY <3>2, <3>4, <3>5, EachUnfinished
    <3>7. e = Flatten(ss)
      BY <2>1, <3>1, <3>3 DEF Each
    <3> QED BY <3>6, <3>7
  <2>3. PICK s : s = todo'
    OBVIOUS
  <2>4. CancelledRun \in WorkflowSnapshot /\ CancelFailedRun \in WorkflowSnapshot
    BY <1>1, RunTypes DEF CancelledRun
  <2>5. s = e \o (<<>> \o <<WriteRun(CancelFailedRun)>>) \/ s = e \o (SkipUnstarted \o <<WriteRun(CancelledRun)>>)
    <3>1. s = e \o <<WriteRun(CancelFailedRun)>> \/ s = e \o (SkipUnstarted \o <<WriteRun(CancelledRun)>>)
      BY <1>6, <2>1, <2>3 DEF CancelApply
    <3>2. <<>> \o <<WriteRun(CancelFailedRun)>> = <<WriteRun(CancelFailedRun)>>
      OBVIOUS
    <3> QED BY <3>1, <3>2
  <2>6. \A i \in DOMAIN s : OfRun(s[i]) /\ s[i].val.phase = "completed" => i = Len(s)
    <3>1. CASE s = e \o (<<>> \o <<WriteRun(CancelFailedRun)>>)
      <4>0. <<>> \in Seq(Unfinished)
        BY EmptySeq
      <4>1. PICK b \in Seq(Unfinished) : b = <<>>
        BY <4>0
      <4>2. s = e \o (b \o <<WriteRun(CancelFailedRun)>>)
        BY <3>1, <4>1
      <4> QED BY <4>2, <2>2, <2>4, LastFinishes
    <3>2. CASE s = e \o (SkipUnstarted \o <<WriteRun(CancelledRun)>>)
      BY <3>2, <2>2, <2>4, <1>1, SkipsUnfinished, LastFinishes
    <3> QED BY <2>5, <3>1, <3>2
  <2>7. CompletesOK'
    BY <2>3, <2>6, <1>2, <1>3 DEF CompletesOK, OfRun, Uncancelled
  <2> QED BY <2>7, <1>2, <1>3, <1>4, <1>6, EndsBegun DEF EndInv
<1> QED BY <1>5, <1>6

-----------------------------------------------------------------------------
\* The invariant holds at first.
LEMMA InitEnds == Init => EndInv
<1> SUFFICES ASSUME Init PROVE EndInv
  OBVIOUS
<1>1. ~act /\ todo = <<>> /\ run.phase = "created" /\ ~run.cancel /\ req = "none" /\ ~ask /\ ~hbrec
      /\ proc = "up" /\ can = NoCancel /\ ctl = Controller("top")
  BY DEF Init
<1>2. ctl.pc = "top" /\ ~ctl.hb /\ can.pc = "off"
  BY <1>1, NoCancelIs DEF Controller
<1>3. NotCancelled
  BY <1>1, <1>2, NoElement DEF NotCancelled
<1>4. RoutesOK
  BY <1>1, <1>2, <1>3 DEF RoutesOK, RecoveryPoints
<1>5. CompletesOK
  BY <1>1, NoElement DEF CompletesOK
<1>6. CompletedOK /\ ActionOK /\ RunEndsKnown
  BY <1>1 DEF CompletedOK, ActionOK, RunEndsKnown
<1> QED BY <1>4, <1>5, <1>6 DEF EndInv, EndsOK

\* It is preserved when nothing happens,
LEMMA EndStutters == ASSUME EndInv, UNCHANGED vars PROVE EndInv'
<1>1. UNCHANGED <<run, node, intent, todo, act, req, ask, can, ctl, proc, hbrec>>
  BY DEF vars
<1>2. EndsOK'
  BY <1>1, EndsSame DEF EndInv
<1>3. Uncancelled => NotCancelled'
  BY <1>1 DEF EndInv, RoutesOK, NotCancelled
<1> QED BY <1>1, <1>2, <1>3 DEF EndInv, RoutesOK

\* by the steps of the engine, of which a recovered controller takes none,
LEMMA EndEngine == ASSUME RunInv, EndInv, NoRecoveredCancel, Engine PROVE EndInv'
<1>1. CASE Write
  BY <1>1, EndWrite
<1>2. CASE ControlTop \/ ReconcileEnd \/ HeartbeatHandsOff
  BY <1>2, EndControl
<1>3. CASE ReconcileApply
  BY <1>3, EndReconcileApply
<1>4. CASE ScheduleBatch
  BY <1>4, EndScheduleBatch
<1>5. CASE LaunchSettle
  BY <1>5, EndLaunchSettle
<1>6. CASE PauseOnError \/ ControllerExit \/ CancelMark
  BY <1>6, EndPersists
<1>7. CASE ActionStartsController \/ Recover \/ HeartbeatRecover
  BY <1>7, EndStarts
<1>8. CASE MonitorFinds \/ CancelResolve
  BY <1>8, EndRequests
<1>9. CASE CancelApply
  BY <1>9, EndCancelApply
<1>10. CASE RecoverMark \/ RecoverTarget \/ RecoverCancel \/ RecoverFails \/ RecoverFinal
  BY <1>10 DEF RecoverMark, RecoverTarget, RecoverCancel, RecoverFails, RecoverFinal, EndInv, RoutesOK,
               RecoveryPoints
<1>11. CASE Restart
  BY <1>11, EndInterrupts
<1>12. CASE ReplayAction
  BY <1>12, EndReplay
<1>13. CASE \E n \in Agent :
             \/ ObserveLocal(n) \/ ObserveActive(n) \/ ObserveEnd(n)
             \/ ObserveGone(n) \/ ObserveTrouble(n)
             \/ LaunchBegin(n) \/ LaunchStart(n) \/ LaunchPersist(n)
             \/ CancelTarget(n)
  BY <1>13, EndAgent
<1> QED BY <1>1, <1>2, <1>3, <1>4, <1>5, <1>6, <1>7, <1>8, <1>9, <1>10, <1>11, <1>12, <1>13 DEF Engine

\* and by what callers and the environment do.
LEMMA EndOutside == ASSUME RunInv, EndInv, NoRecoveredCancel, Outside PROVE EndInv'
<1>1. CASE HeartbeatFails \/ Crash
  BY <1>1, EndInterrupts
<1>2. CASE CancelAsk \/ CancelReturns \/ CancelTakesLease
  BY <1>2, EndRequests
<1>3. ASSUME Plans PROVE EndInv'
  <2>1. PICK plan : PlanOK(plan) /\ plan # <<>> /\ BeginAction(plan)
    BY <1>3 DEF Plans
  <2> QED BY <2>1, EndBegin
<1>4. CASE \E n \in Node : \E d \in {"approved", "rejected"} : Decide(n, d)
  BY <1>3, <1>4, DecidePlans
<1>5. CASE \E n \in Node : DecideAgain(n) \/ Retry(n) \/ Answer(n)
  <2>1. PICK n \in Node : DecideAgain(n) \/ Retry(n) \/ Answer(n)
    BY <1>5
  <2>2. CASE DecideAgain(n)
    BY <2>2, EndDecideAgain
  <2>3. CASE Retry(n) \/ Answer(n)
    BY <2>3, <1>3, RetryPlans
  <2> QED BY <2>1, <2>2, <2>3
<1> QED BY <1>1, <1>2, <1>4, <1>5 DEF Outside

\* What the files and the writes that are due say of the end of a Run holds
\* unless a recovered controller takes up a cancellation.
THEOREM EndInvariant == ASSUME NoRecoveredCancel PROVE Spec => []EndInv
<1>1. RunInv /\ EndInv /\ [Next]_vars => EndInv'
  BY EndEngine, EndOutside, EndStutters DEF Next
<1> QED BY <1>1, InitEnds, RunInvariant, PTL DEF Spec

\* A completed Run has only ended nodes, unless the plan that reopens it is
\* durable, when nobody asks for a cancellation: at every write, so at every
\* crash (aggregateRunState in scheduleBatch against the writes of its batch,
\* the action intent and its replay).
THEOREM CompletedRunsAreOver == ASSUME Uncancelled PROVE Spec => []RunEndsKnown
<1>1. NoRecoveredCancel
  BY DEF NoRecoveredCancel
<1>2. EndInv => RunEndsKnown
  BY DEF EndInv, EndsOK
<1> QED BY <1>1, <1>2, EndInvariant, PTL

\* Only an action reopens a completed Run unless a recovered controller takes
\* up a cancellation (markConcurrentCancellationIntent, controllerMutation,
\* pauseControllerOnError and the recovery look for a completed Run first).
THEOREM CompletedStays == ASSUME NoRecoveredCancel PROVE Spec => CompletedIsFinal
<1>1. ASSUME RunInv, EndInv, [Next]_vars, run.phase = "completed", run'.phase # "completed"
      PROVE  act
  <2> SUFFICES ASSUME ~act PROVE FALSE
    OBVIOUS
  <2>1. todo = <<>> /\ ctl.pc \notin RecoveryPoints
    BY <1>1 DEF EndInv, EndsOK, CompletedOK, RoutesOK
  <2>2. run' # run
    BY <1>1
  <2>3. ~Write
    BY <2>1 DEF Write
  <2>4. ~(RecoverMark \/ RecoverFails)
    BY <2>1 DEF RecoverMark, RecoverFails, RecoveryPoints
  <2>5. ~(PauseOnError \/ ControllerExit)
    BY <1>1, <2>2 DEF PauseOnError, ControllerExit, Allowed
  <2>6. ~(HeartbeatRecover \/ Recover)
    BY <1>1, <2>2 DEF HeartbeatRecover, Recover, runNeedsController
  <2>7. ~CancelMark
    BY <1>1, <2>2 DEF CancelMark
  <2>8. ~Engine
    <3>1. ~(ControlTop \/ ReconcileApply \/ ReconcileEnd \/ ScheduleBatch \/ LaunchSettle \/ HeartbeatHandsOff)
      BY <2>2 DEF ControlTop, ReconcileApply, ReconcileEnd, ScheduleBatch, LaunchSettle, HeartbeatHandsOff, disk
    <3>2. ~(MonitorFinds \/ CancelApply \/ CancelResolve \/ RecoverTarget \/ RecoverCancel \/ RecoverFinal)
      BY <2>2 DEF MonitorFinds, CancelApply, CancelResolve, RecoverTarget, RecoverCancel, RecoverFinal, disk
    <3>3. ~(ActionStartsController \/ Restart \/ ReplayAction)
      BY <2>2 DEF ActionStartsController, Restart, ReplayAction, disk
    <3>4. ASSUME NEW n \in Agent
          PROVE  ~(ObserveLocal(n) \/ ObserveActive(n) \/ ObserveEnd(n) \/ ObserveGone(n) \/ ObserveTrouble(n))
      BY <2>2 DEF ObserveLocal, ObserveActive, ObserveEnd, ObserveGone, ObserveTrouble, Observed, disk
    <3>5. ASSUME NEW n \in Agent
          PROVE  ~(LaunchBegin(n) \/ LaunchStart(n) \/ LaunchPersist(n) \/ CancelTarget(n))
      BY <2>2 DEF LaunchBegin, LaunchStart, LaunchPersist, CancelTarget, disk
    <3> QED BY <2>3, <2>4, <2>5, <2>6, <2>7, <3>1, <3>2, <3>3, <3>4, <3>5 DEF Engine
  <2>9. ~Outside
    <3>1. ~(HeartbeatFails \/ CancelAsk \/ CancelReturns \/ CancelTakesLease \/ Crash)
      BY <2>2 DEF HeartbeatFails, CancelAsk, CancelReturns, CancelTakesLease, Crash, disk
    <3>2. ASSUME NEW n \in Node PROVE ~(Retry(n) \/ Answer(n) \/ DecideAgain(n))
      BY <2>2 DEF Retry, Answer, Reopen, DecideAgain, BeginAction, disk
    <3>3. ASSUME NEW n \in Node, NEW d \in {"approved", "rejected"} PROVE ~Decide(n, d)
      BY <2>2 DEF Decide, BeginAction, disk
    <3> QED BY <3>1, <3>2, <3>3 DEF Outside
  <2> QED BY <1>1, <2>2, <2>8, <2>9 DEF Next, vars
<1>2. RunInv /\ EndInv /\ [Next]_vars => [run.phase = "completed" /\ run'.phase # "completed" => act]_vars
  BY <1>1
<1> QED BY <1>2, RunInvariant, EndInvariant, PTL DEF Spec, CompletedIsFinal

-----------------------------------------------------------------------------
(***************************************************************************)
(* Why a controller leaves a Run that nobody cancels.                      *)
(***************************************************************************)

\* A Run rests when it does and nothing is due.
LEMMA RestsNow == ASSUME run.phase \in RestPhases, todo = <<>> PROVE Rests
  BY NoElement DEF Rests

\* A controller that goes on.
LEMMA RestsGoesOn ==
  ASSUME HeartOK', PhasesOK', ctl'.pc \notin {"off", "exit", "sched"}
  PROVE  RestInv'
  BY DEF RestInv, SchedOK, ExitOK

\* A mutation is refused to a controller only when the Run is completed.
LEMMA RefusedRests ==
  ASSUME EndInv, RestInv, Uncancelled, ctl.pc # "off", ~Allowed
  PROVE  run.phase = "completed"
  BY DEF EndInv, RoutesOK, NotCancelled, RestInv, HeartOK, PhasesOK, Allowed

\* The steps for one Agent keep the invariant,
LEMMA RestAgent ==
  ASSUME RunInv, EndInv, RestInv, Uncancelled, NEW n \in Agent,
         \/ ObserveLocal(n) \/ ObserveActive(n) \/ ObserveEnd(n) \/ ObserveGone(n) \/ ObserveTrouble(n)
         \/ LaunchBegin(n) \/ LaunchStart(n) \/ LaunchPersist(n) \/ CancelTarget(n)
  PROVE  RestInv'
<1>1. UNCHANGED <<run, node, todo, act, ctl, proc, hbrec>>
  <2>1. CASE ObserveLocal(n) \/ ObserveActive(n) \/ ObserveEnd(n) \/ ObserveGone(n) \/ ObserveTrouble(n)
    BY <2>1 DEF ObserveLocal, ObserveActive, ObserveEnd, ObserveGone, ObserveTrouble, Observed, disk
  <2>2. CASE LaunchBegin(n) \/ LaunchStart(n) \/ LaunchPersist(n)
    BY <2>2 DEF LaunchBegin, LaunchStart, LaunchPersist, disk
  <2>3. CASE CancelTarget(n)
    BY <2>3 DEF CancelTarget, disk
  <2> QED BY <2>1, <2>2, <2>3
<1>2. obs \in [Agent -> ObsPoints]
  BY DEF RunInv, ControlOK, ThreadTypes
<1>3. ASSUME NEW m \in Agent, obs'[m] = "cancelled" PROVE obs[m] = "cancelled" \/ ctl.ctx
  <2>1. CASE ObserveLocal(n)
    <3>1. CASE ctl.ctx
      BY <3>1
    <3>2. CASE \E o \in {"settled", "lost"} : obs' = [obs EXCEPT ![n] = o]
      BY <3>2, <1>2, <1>3
    <3> QED BY <2>1, <3>1, <3>2 DEF ObserveLocal, Observed
  <2>2. CASE ObserveActive(n) \/ ObserveEnd(n) \/ ObserveGone(n) \/ ObserveTrouble(n)
    <3>1. \E o \in {"active", "ok", "bad", "questions", "lost", "error", "asking"} : obs' = [obs EXCEPT ![n] = o]
      BY <2>2 DEF ObserveActive, ObserveEnd, ObserveGone, ObserveTrouble, Observed
    <3> QED BY <3>1, <1>2, <1>3
  <2>3. CASE LaunchBegin(n) \/ LaunchStart(n) \/ LaunchPersist(n) \/ CancelTarget(n)
    <3>1. CASE LaunchBegin(n)
      BY <3>1, <1>3 DEF LaunchBegin
    <3>2. CASE LaunchStart(n)
      BY <3>2, <1>3 DEF LaunchStart
    <3>3. CASE LaunchPersist(n)
      BY <3>3, <1>3 DEF LaunchPersist
    <3>4. CASE CancelTarget(n)
      BY <3>4, <1>3 DEF CancelTarget
    <3> QED BY <2>3, <3>1, <3>2, <3>3, <3>4
  <2> QED BY <2>1, <2>2, <2>3
<1>4. HeartOK'
  BY <1>1, <1>3 DEF RestInv, HeartOK
<1>5. PhasesOK' /\ SchedOK' /\ ExitOK'
  BY <1>1 DEF RestInv, PhasesOK, KeptWrite, SchedOK, ExitOK, Rests
<1> QED BY <1>4, <1>5 DEF RestInv

\* so do those of the controller that write nothing,
LEMMA RestControl ==
  ASSUME RunInv, EndInv, RestInv, Uncancelled, ControlTop \/ ReconcileEnd \/ HeartbeatHandsOff
  PROVE  RestInv'
<1>1. ctl \in ControlStates /\ ControlRules /\ FilesOK /\ ~run.cancel /\ can.who = "-"
  BY DEF RunInv, ControlOK, ThreadTypes, ControlRules, EndInv, RoutesOK, NotCancelled
<1>2. CASE HeartbeatHandsOff
  <2>1. UNCHANGED <<run, node, todo, act, ctl, proc, obs>> /\ (ctl.pc # "off" \/ act)
    BY <1>1, <1>2 DEF HeartbeatHandsOff, disk, LeaseFree
  <2> QED BY <2>1 DEF RestInv, HeartOK, PhasesOK, KeptWrite, SchedOK, ExitOK, Rests
<1>3. CASE ControlTop
  <2>1. todo = <<>> /\ ctl.pc = "top" /\ UNCHANGED <<run, node, todo, act, proc, hbrec>>
    BY <1>3 DEF ControlTop, disk
  <2>2. CASE ctl.ctx \/ run.phase = "completed" \/ run.cancel
    <3>1. Go("exit")
      BY <1>3, <2>2 DEF ControlTop
    <3>2. ctl'.pc = "exit" /\ ctl'.hb = ctl.hb /\ ctl'.stopping = ctl.stopping /\ ctl'.ctx = ctl.ctx
      BY <3>1, <1>1, GoHeart DEF ControlPoints
    <3>3. ctl.hb \/ run.phase = "completed"
      BY <1>1, <2>2 DEF RestInv, HeartOK
    <3>4. run.phase = "completed" => Rests'
      BY <2>1, NoElement DEF Rests, RestPhases
    <3> QED BY <2>1, <3>2, <3>3, <3>4 DEF RestInv, HeartOK, PhasesOK, KeptWrite, SchedOK, ExitOK
  <2>3. CASE ~(ctl.ctx \/ run.phase = "completed" \/ run.cancel)
    <3> DEFINE refs == findActiveAttempts(node)
    <3>1. PICK p \in {"sched", "observe"} : /\ p = "sched" => refs = {}
                                            /\ ctl' = [ctl EXCEPT !.pc = p, !.progressed = FALSE, !.again = FALSE]
      BY <1>3, <2>3 DEF ControlTop
    <3>2. ctl'.pc = p /\ ctl'.hb = ctl.hb /\ ctl'.stopping = ctl.stopping /\ ctl'.ctx = ctl.ctx
      BY <3>1, <1>1 DEF ControlStates
    <3>3. \A n \in Agent : obs'[n] # "cancelled"
      BY <1>3, <2>3 DEF ControlTop
    <3>4. refs = {} => \A n \in Agent : node[n].phase # "running"
      <4>1. \A n \in Agent : n \in Node /\ (node[n].phase = "running" => node[n].att > 0)
        BY <1>1, WorkflowAssumption DEF FilesOK, NodeOK
      <4> QED BY <4>1 DEF findActiveAttempts, Active
    <3>5. HeartOK' /\ PhasesOK'
      BY <2>1, <3>2, <3>3 DEF RestInv, HeartOK, PhasesOK, KeptWrite
    <3>6. SchedOK' /\ ExitOK'
      BY <2>1, <3>1, <3>2, <3>4 DEF SchedOK, ExitOK
    <3> QED BY <3>5, <3>6 DEF RestInv
  <2> QED BY <2>2, <2>3
<1>4. CASE ReconcileEnd
  <2>1. todo = <<>> /\ ctl.pc = "observe" /\ UNCHANGED <<run, node, todo, act, proc, hbrec, obs>>
    BY <1>4 DEF ReconcileEnd, disk
  <2>2. PICK active : active = findActiveAttempts(node)
    OBVIOUS
  <2> DEFINE allWaiting == active # {} /\ \A n \in active : node[n].phase = "waiting"
  <2>3. PICK a \in BOOLEAN : a = ~allWaiting
    OBVIOUS
  <2>4. PICK p : p = IF ctl.progressed /\ ~allWaiting THEN "top" ELSE "sched"
    OBVIOUS
  <2>5. p \in {"top", "sched"} /\ ctl' = [ctl EXCEPT !.pc = p, !.again = a]
    BY <1>4, <2>2, <2>3, <2>4 DEF ReconcileEnd
  <2>6. /\ ctl'.pc = p /\ ctl'.again = a /\ ctl'.hb = ctl.hb /\ ctl'.stopping = ctl.stopping
        /\ ctl'.ctx = ctl.ctx
    BY <2>5, <1>1 DEF ControlStates
  <2>7. ASSUME ~a, NEW n \in Agent, node[n].phase = "running" PROVE FALSE
    <3>1. n \in Node /\ node[n].att > 0
      BY <1>1, <2>7, WorkflowAssumption DEF FilesOK, NodeOK
    <3>2. n \in active
      BY <2>2, <2>7, <3>1 DEF findActiveAttempts, Active
    <3>3. \A m \in active : node[m].phase = "waiting"
      BY <2>3, <2>7
    <3>4. node[n].phase = "waiting"
      BY <3>2, <3>3
    <3> QED BY <2>7, <3>4
  <2> QED BY <2>1, <2>5, <2>6, <2>7 DEF RestInv, HeartOK, PhasesOK, KeptWrite, SchedOK, ExitOK
<1> QED BY <1>2, <1>3, <1>4

\* what interrupts a controller,
LEMMA RestInterrupts ==
  ASSUME RunInv, EndInv, RestInv, HeartbeatFails \/ Crash \/ Restart
  PROVE  RestInv'
<1>1. ctl \in ControlStates
  BY DEF RunInv, ControlOK, ThreadTypes
<1>2. CASE HeartbeatFails
  <2>1. UNCHANGED <<run, node, todo, act, proc, hbrec, obs>> /\ ctl' = [ctl EXCEPT !.hb = TRUE, !.ctx = TRUE]
    BY <1>2 DEF HeartbeatFails, disk
  <2>2. ctl'.pc = ctl.pc /\ ctl'.again = ctl.again /\ ctl'.hb /\ ctl'.stopping = ctl.stopping
    BY <2>1, <1>1 DEF ControlStates
  <2> QED BY <2>1, <2>2 DEF RestInv, HeartOK, PhasesOK, KeptWrite, SchedOK, ExitOK
<1>3. CASE Crash
  <2>1. /\ UNCHANGED <<run, node>> /\ todo' = <<>> /\ ctl' = Controller("off") /\ proc' = "down"
    BY <1>3 DEF Crash, disk
  <2>2. ctl'.pc = "off" /\ ~ctl'.hb /\ ~ctl'.stopping /\ ~ctl'.ctx
    BY <2>1 DEF Controller
  <2> QED BY <2>1, <2>2, NoElement DEF RestInv, HeartOK, PhasesOK, SchedOK, ExitOK
<1>4. CASE Restart
  <2>1. UNCHANGED <<run, node, todo, act, ctl, obs, hbrec>> /\ proc' = "replay"
    BY <1>4 DEF Restart, disk
  <2> QED BY <2>1 DEF RestInv, HeartOK, PhasesOK, KeptWrite, SchedOK, ExitOK, Rests
<1> QED BY <1>2, <1>3, <1>4

\* those that write the Run at once,
LEMMA RestPersists ==
  ASSUME RunInv, EndInv, RestInv, Uncancelled, PauseOnError \/ ControllerExit
  PROVE  RestInv'
<1>1. ctl \in ControlStates /\ run \in WorkflowSnapshot
  BY DEF RunInv, ControlOK, ThreadTypes, FilesOK
<1>2. PICK paused, detached : /\ paused = [run EXCEPT !.phase = "waiting", !.reason = "completion_missing"]
                              /\ detached = [run EXCEPT !.phase = "paused", !.concl = "none", !.reason = "controller_detached"]
  OBVIOUS
<1>3. paused.phase = "waiting" /\ detached.phase = "paused"
  BY <1>1, <1>2 DEF WorkflowSnapshot
<1>4. CASE PauseOnError
  <2>1. todo = <<>> /\ ctl.pc = "fault" /\ UNCHANGED <<node, todo, act, proc, hbrec>> /\ Go("exit")
    BY <1>4 DEF PauseOnError
  <2>2. ctl'.pc = "exit" /\ ctl'.hb = ctl.hb /\ ctl'.stopping = ctl.stopping /\ ctl'.ctx = ctl.ctx
    BY <2>1, <1>1, GoHeart DEF ControlPoints
  <2>3. run' = paused \/ (run' = run /\ (ctl.ctx \/ ~Allowed))
    BY <1>2, <1>4 DEF PauseOnError, persistRun
  <2>8. ~Allowed => run.phase = "completed"
    BY <2>1, RefusedRests
  <2>4. run'.phase = "waiting" \/ (run' = run /\ (ctl.hb \/ run.phase = "completed"))
    BY <1>3, <2>3, <2>8 DEF RestInv, HeartOK
  <2>5. run'.phase \in RestPhases => Rests'
    BY <2>1, NoElement DEF Rests
  <2>6. ExitOK'
    BY <2>2, <2>4, <2>5 DEF ExitOK, RestPhases
  <2>7. HeartOK' /\ PhasesOK' /\ SchedOK'
    BY <2>1, <2>2, <2>4, NoElement DEF RestInv, HeartOK, PhasesOK, SchedOK
  <2> QED BY <2>6, <2>7 DEF RestInv
<1>5. CASE ControllerExit
  <2>1. /\ todo = <<>> /\ ctl.pc = "exit" /\ UNCHANGED <<node, todo, act, proc>> /\ hbrec' = ctl.hb
        /\ ctl' = Controller("off")
    BY <1>5 DEF ControllerExit
  <2>2. ctl'.pc = "off" /\ ~ctl'.hb /\ ~ctl'.stopping /\ ~ctl'.ctx
    BY <2>1 DEF Controller
  <2>3. run' = run \/ (run' = detached /\ ctl.hb)
    BY <1>2, <1>5 DEF ControllerExit, persistRun
  <2>4. ~ctl.hb => run' = run /\ run.phase \in RestPhases
    BY <2>1, <2>3 DEF RestInv, ExitOK, Rests
  <2>5. run'.phase # "cancelling"
    BY <1>3, <2>3 DEF RestInv, PhasesOK
  <2> QED BY <2>1, <2>2, <2>4, <2>5, NoElement DEF RestInv, HeartOK, PhasesOK, SchedOK, ExitOK
<1> QED BY <1>4, <1>5

\* A new controller.
LEMMA ControllerFresh ==
  ASSUME NEW p
  PROVE  /\ Controller(p).pc = p /\ ~Controller(p).hb /\ ~Controller(p).stopping /\ ~Controller(p).ctx
  BY DEF Controller

\* those that start a controller,
LEMMA RestStarts ==
  ASSUME RunInv, EndInv, RestInv, Uncancelled, ActionStartsController \/ Recover \/ HeartbeatRecover
  PROVE  RestInv'
<1>1. run \in WorkflowSnapshot /\ todo = <<>> /\ UNCHANGED <<node, todo, obs>> /\ ~run.cancel
  BY DEF ActionStartsController, Recover, HeartbeatRecover, RunInv, FilesOK, disk,
         EndInv, RoutesOK, NotCancelled
<1>2. ASSUME ctl' = Controller("top"), run'.phase \notin {"paused", "cancelling"} PROVE RestInv'
  <2>1. ctl'.pc = "top" /\ ~ctl'.hb /\ ~ctl'.stopping /\ ~ctl'.ctx
    BY <1>2, ControllerFresh
  <2>2. HeartOK' /\ PhasesOK'
    BY <1>1, <1>2, <2>1, NoElement DEF HeartOK, PhasesOK
  <2> QED BY <2>1, <2>2, RestsGoesOn
<1>3. CASE ActionStartsController
  <2>1. act /\ run' = run /\ ctl' = Controller("top")
    BY <1>3 DEF ActionStartsController, disk
  <2>2. run.phase = "running"
    BY <1>1, <2>1, NoElement DEF EndInv, EndsOK, ActionOK
  <2> QED BY <2>1, <2>2, <1>2
<1>4. CASE Recover \/ HeartbeatRecover
  <2>1. RecoveredRun.phase \notin {"paused", "cancelling"}
    BY <1>1 DEF RecoveredRun, RunningRun, WorkflowSnapshot, RestInv, PhasesOK
  <2>2. RecoveredControl = Controller("top")
    BY <1>1 DEF RecoveredControl
  <2>3. CASE ctl' = RecoveredControl /\ run' = RecoveredRun
    BY <1>2, <2>1, <2>2, <2>3
  <2>4. CASE ctl' = ctl /\ run' = run /\ act' = act
    <3>1. ctl.pc # "off" \/ ~runNeedsController \/ act
      BY <1>4, <2>2, <2>4, ControllerFresh DEF Recover, HeartbeatRecover
    <3>2. ~runNeedsController => run.phase \in RestPhases
      BY DEF runNeedsController, HumanWait, RestPhases
    <3>3. HeartOK' /\ PhasesOK' /\ SchedOK'
      BY <1>1, <2>4 DEF RestInv, HeartOK, PhasesOK, KeptWrite, SchedOK
    <3>4. ExitOK'
      BY <1>1, <2>4, <3>1, <3>2 DEF RestInv, ExitOK, Rests
    <3> QED BY <3>3, <3>4 DEF RestInv
  <2>5. (ctl' = RecoveredControl /\ run' = RecoveredRun) \/ (ctl' = ctl /\ run' = run /\ act' = act)
    <3>1. CASE HeartbeatRecover
      BY <3>1 DEF HeartbeatRecover, persistRun
    <3>2. CASE Recover
      BY <3>2 DEF Recover, persistRun
    <3> QED BY <1>4, <3>1, <3>2
  <2> QED BY <2>3, <2>4, <2>5
<1> QED BY <1>3, <1>4

\* those of an action,
LEMMA RestAct ==
  ASSUME RestInv, RunInv', EndInv', act', UNCHANGED <<run, obs, ctl>>
  PROVE  RestInv'
<1>1. ctl'.pc = "off"
  BY DEF RunInv, ControlOK, ControlRules
<1>2. \A i \in DOMAIN todo' : KeptWrite(todo'[i])
  BY DEF EndInv, EndsOK, ActionOK, KeptWrite
<1>3. HeartOK' /\ PhasesOK'
  BY <1>1, <1>2 DEF RestInv, HeartOK, PhasesOK
<1> QED BY <1>1, <1>3 DEF RestInv, SchedOK, ExitOK

LEMMA RestActions ==
  ASSUME RunInv, EndInv, RestInv, RunInv', EndInv',
         \/ ReplayAction
         \/ \E ws : BeginAction(ws)
         \/ \E n \in Node : DecideAgain(n)
  PROVE  RestInv'
<1>1. act' /\ UNCHANGED <<run, obs, ctl>>
  BY DEF ReplayAction, BeginAction, DecideAgain, disk
<1> QED BY <1>1, RestAct

\* A controller begins writes that leave the Run to it, or has nothing to do.
LEMMA RestBegins ==
  ASSUME RestInv, run' = run, \A i \in DOMAIN todo' : OpenWrite(todo'[i]), ctl.pc # "off",
         ctl'.pc \notin {"off", "exit", "sched"}, ctl'.hb = ctl.hb, ctl'.ctx = ctl.ctx,
         ctl'.stopping = ctl.stopping,
         ctl'.pc = "observe" => ctl.pc = "observe" /\ \A n \in Agent : obs'[n] = "cancelled" => obs[n] = "cancelled"
  PROVE  RestInv'
<1>1. \A i \in DOMAIN todo' : KeptWrite(todo'[i])
  BY DEF OpenWrite, KeptWrite, ClosedPhases
<1>2. HeartOK' /\ PhasesOK'
  BY <1>1 DEF RestInv, HeartOK, PhasesOK
<1> QED BY <1>2, RestsGoesOn

\* A controller leaves a Run that rests.
LEMMA RestLeaves ==
  ASSUME RestInv, run' = run, todo' = <<>>, ctl.pc # "off", ctl'.pc = "exit",
         ctl'.hb = ctl.hb, ctl'.ctx = ctl.ctx, ctl'.stopping = ctl.stopping,
         ctl.hb \/ run.phase \in RestPhases
  PROVE  RestInv'
<1>1. ctl.hb \/ Rests'
  BY NoElement DEF Rests
<1>2. HeartOK' /\ PhasesOK'
  BY NoElement DEF RestInv, HeartOK, PhasesOK
<1> QED BY <1>1, <1>2 DEF RestInv, SchedOK, ExitOK

\* those that apply what was observed
LEMMA RestReconcileApply ==
  ASSUME RunInv, EndInv, RestInv, Uncancelled, ReconcileApply
  PROVE  RestInv'
<1>1. ctl.pc = "observe" /\ obs \in [Agent -> ObsPoints]
  BY DEF ReconcileApply, RunInv, ControlOK, ThreadTypes
<1>2. /\ todo = <<>> /\ run' = run
      /\ ctl'.hb = ctl.hb /\ ctl'.ctx = ctl.ctx /\ ctl'.stopping = ctl.stopping
  BY ReconcileIs
<1>3. CASE ctl'.pc = "exit" /\ todo' = <<>> /\ (~Allowed \/ \E n \in Agent : obs[n] = "cancelled")
  <2>1. ctl.hb \/ run.phase \in RestPhases
    BY <1>1, <1>3, RefusedRests DEF RestInv, HeartOK, RestPhases
  <2> QED BY <1>1, <1>2, <1>3, <2>1, RestLeaves
<1>4. CASE /\ ctl'.pc = "observe"
           /\ \E n \in Agent : /\ obs' = [obs EXCEPT ![n] = "-"]
                               /\ todo' = <<>> \/ (Active(n, node) /\ todo' \in Applied(n))
  <2>1. PICK n \in Agent : /\ obs' = [obs EXCEPT ![n] = "-"]
                           /\ todo' = <<>> \/ (Active(n, node) /\ todo' \in Applied(n))
    BY <1>4
  <2>2. \A m \in Agent : obs'[m] = "cancelled" => obs[m] = "cancelled"
    BY <2>1, <1>1
  <2>3. \A i \in DOMAIN todo' : OpenWrite(todo'[i])
    <3>1. PICK s : s = todo'
      OBVIOUS
    <3>2. CASE s = <<>>
      BY <3>1, <3>2, NoElement
    <3>3. CASE Active(n, node) /\ s \in Applied(n)
      <4>1. \A i \in DOMAIN s : OpenWrite(s[i])
        BY <3>3, AppliedOpen
      <4> QED BY <3>1, <4>1
    <3> QED BY <2>1, <3>1, <3>2, <3>3
  <2> QED BY <1>1, <1>2, <1>4, <2>2, <2>3, RestBegins
<1> QED BY <1>3, <1>4, ReconcileIs

\* or settle a launch,
LEMMA RestLaunchSettle ==
  ASSUME RunInv, EndInv, RestInv, Uncancelled, LaunchSettle
  PROVE  RestInv'
<1>1. ctl.pc = "launch"
  BY DEF LaunchSettle
<1>2. /\ todo = <<>> /\ run' = run
      /\ ctl'.hb = ctl.hb /\ ctl'.ctx = ctl.ctx /\ ctl'.stopping = ctl.stopping
  BY LaunchIs
<1>3. CASE ctl'.pc = "exit" /\ todo' = <<>> /\ (~Allowed \/ ctl.ctx)
  <2>1. ctl.hb \/ run.phase \in RestPhases
    BY <1>1, <1>3, RefusedRests DEF RestInv, HeartOK, RestPhases
  <2> QED BY <1>1, <1>2, <1>3, <2>1, RestLeaves
<1>4. CASE /\ ctl'.pc \in {"top", "launch"}
           /\ todo' = <<>> \/ \E n \in Agent : Active(n, node) /\ todo' \in Applied(n)
  <2>1. \A i \in DOMAIN todo' : OpenWrite(todo'[i])
    <3>1. PICK s : s = todo'
      OBVIOUS
    <3>2. CASE s = <<>>
      BY <3>1, <3>2, NoElement
    <3>3. CASE \E n \in Agent : Active(n, node) /\ s \in Applied(n)
      <4>1. PICK n \in Agent : Active(n, node) /\ s \in Applied(n)
        BY <3>3
      <4>2. \A i \in DOMAIN s : OpenWrite(s[i])
        BY <4>1, AppliedOpen
      <4> QED BY <3>1, <4>2
    <3> QED BY <1>4, <3>1, <3>2, <3>3
  <2> QED BY <1>1, <1>2, <1>4, <2>1, RestBegins
<1> QED BY <1>3, <1>4, LaunchIs
\* A write keeps the invariant.
LEMMA RestWrite ==
  ASSUME RunInv, EndInv, RestInv, Write
  PROVE  RestInv'
<1>1. todo \in Seq(Writes) /\ todo # <<>> /\ WriteOK(1) /\ 1 \in DOMAIN todo /\ ctl \in ControlStates
  <2>1. todo \in Seq(Writes) /\ todo # <<>>
    BY DEF RunInv, TodoOK, Write
  <2>2. 1 \in DOMAIN todo
    BY <2>1
  <2> QED BY <2>1, <2>2 DEF RunInv, TodoOK, ControlOK, ThreadTypes
<1>2. CASE todo[1].file = "new" /\ attempt[todo[1].n][todo[1].k] # NoAttempt
  <2>1. Head(todo) = todo[1]
    BY <1>1
  <2>2. BatchOK
    BY <1>1, <1>2 DEF WriteOK, PlainOK
  <2>3. todo' = <<>> /\ ctl' = [ctl EXCEPT !.pc = "fault"] /\ run' = run /\ ctl.pc # "off"
    BY <1>2, <2>1, <2>2 DEF Write, BatchOK
  <2>4. ctl'.pc = "fault" /\ ctl'.hb = ctl.hb /\ ctl'.ctx = ctl.ctx /\ ctl'.stopping = ctl.stopping
    BY <1>1, <2>3 DEF ControlStates
  <2>5. HeartOK' /\ PhasesOK'
    BY <2>3, <2>4, NoElement DEF RestInv, HeartOK, PhasesOK
  <2> QED BY <2>4, <2>5, RestsGoesOn
<1>3. CASE ~(todo[1].file = "new" /\ attempt[todo[1].n][todo[1].k] # NoAttempt)
  <2>1. Done
    BY <1>3, WriteDone
  <2>2. /\ Shifted /\ UNCHANGED <<ctl, act, proc, hbrec, obs>>
        /\ run' = IF OfRun(todo[1]) THEN todo[1].val ELSE run
    BY <2>1 DEF Done, Write
  <2>3. \A i \in DOMAIN todo' : i + 1 \in DOMAIN todo /\ todo'[i] = todo[i + 1]
    BY <1>1, <2>2, ShiftIs
  <2>4. \A i \in DOMAIN todo : KeptWrite(todo[i])
    BY DEF RestInv, PhasesOK
  <2>5. \A i \in DOMAIN todo' : KeptWrite(todo'[i])
    BY <2>3, <2>4
  <2>6. HeartOK' /\ PhasesOK'
    BY <1>1, <2>2, <2>4, <2>5 DEF RestInv, HeartOK, PhasesOK, KeptWrite
  <2>7. ctl.pc # "sched" /\ (ctl.pc # "off" \/ act)
    BY <1>1 DEF RestInv, SchedOK, ExitOK
  <2>8. ASSUME Rests PROVE Rests'
    <3>1. CASE run.phase \in RestPhases /\ \A i \in DOMAIN todo : OfRun(todo[i]) => todo[i].val.phase \in RestPhases
      <4>1. run'.phase \in RestPhases
        BY <1>1, <2>2, <3>1
      <4>2. \A i \in DOMAIN todo' : OfRun(todo'[i]) => todo'[i].val.phase \in RestPhases
        BY <2>3, <3>1
      <4> QED BY <4>1, <4>2 DEF Rests
    <3>2. CASE OfRun(todo[Len(todo)]) /\ todo[Len(todo)].val.phase \in RestPhases
      <4>1. CASE todo' = <<>>
        <5>1. todo[Len(todo)] = todo[1]
          BY <1>1, <2>2, <4>1, ShiftIs
        <5>2. run'.phase \in RestPhases
          BY <2>2, <3>2, <5>1
        <5> QED BY <4>1, <5>2, NoElement DEF Rests
      <4>2. CASE todo' # <<>>
        <5>1. todo'[Len(todo')] = todo[Len(todo)]
          BY <1>1, <2>2, <4>2, ShiftIs
        <5> QED BY <3>2, <4>2, <5>1 DEF Rests
      <4> QED BY <4>1, <4>2
    <3> QED BY <2>8, <3>1, <3>2 DEF Rests
  <2>9. SchedOK' /\ ExitOK'
    BY <2>2, <2>7, <2>8 DEF RestInv, SchedOK, ExitOK
  <2> QED BY <2>6, <2>9 DEF RestInv
<1> QED BY <1>2, <1>3

-----------------------------------------------------------------------------
\* A node is at one place of the topological order only.
LEMMA OrderOnce == \A i, j \in DOMAIN Order : Order[i] = Order[j] => i = j
<1>1. PICK N \in Nat : N = Cardinality(Node)
  BY WorkflowAssumption, FS_CardinalityType
<1>2. IsFiniteSet(1..N) /\ Cardinality(1..N) = N
  BY <1>1, FS_Interval
<1>3. Order \in Surjection(1..N, Node)
  BY <1>1, WorkflowAssumption DEF Surjection
<1>4. Order \in Injection(1..N, Node)
  BY <1>1, <1>2, <1>3, FS_SurjSameCardinalityImpliesInj
<1>5. DOMAIN Order = 1..N
  BY <1>1, WorkflowAssumption
<1> QED BY <1>4, <1>5 DEF Injection, IsInjective

\* The first node of a set in topological order.
LEMMA FirstNode ==
  ASSUME NEW S, NEW n \in S \cap Node
  PROVE  \E i \in DOMAIN Order : Order[i] \in S /\ \A j \in DOMAIN Order : Order[j] \in S => i <= j
<1>1. DOMAIN Order \subseteq Nat
  BY OrderIsSeq
<1> DEFINE T == {i \in DOMAIN Order : Order[i] \in S}
<1>2. T # {}
  BY WorkflowAssumption
<1>3. T \subseteq Nat
  BY <1>1
<1>4. PICK i \in T : \A j \in T : i <= j
  <2> HIDE DEF T
  <2> QED BY <1>2, <1>3, LeastElement
<1> QED BY <1>4

\* Of the eligible Agents the first one is started when no Agent is active.
LEMMA SomeReady ==
  ASSUME NEW n \in Eligible \cap Agent, findActiveAttempts(node) = {}
  PROVE  \E m \in Ready : TRUE
<1>1. n \in Node
  BY DEF Eligible, Verdicts
<1>2. PICK S : S = Eligible \cap Agent
  OBVIOUS
<1>3. PICK i \in DOMAIN Order : Order[i] \in S /\ \A j \in DOMAIN Order : Order[j] \in S => i <= j
  <2>1. n \in S \cap Node
    BY <1>1, <1>2
  <2> QED BY <2>1, FirstNode
<1>4. {m \in S : Before(m, Order[i])} = {}
  <2> SUFFICES ASSUME NEW m \in S, Before(m, Order[i]) PROVE FALSE
    OBVIOUS
  <2>1. PICK k, j \in DOMAIN Order : k < j /\ Order[k] = m /\ Order[j] = Order[i]
    BY DEF Before
  <2>2. j = i
    BY <2>1, OrderOnce
  <2>3. i <= k
    BY <2>1, <1>3
  <2>4. i \in Nat /\ k \in Nat
    BY OrderIsSeq
  <2> QED BY <2>1, <2>2, <2>3, <2>4
<1>5. Cardinality({}) = 0
  BY FS_EmptySet
<1>6. Free > 0
  BY <1>5, LimitType DEF Free
<1>7. Order[i] \in Ready
  BY <1>2, <1>3, <1>4, <1>5, <1>6 DEF Ready
<1> QED BY <1>7

\* The first unstarted node waits for nothing when no node runs or waits.
LEMMA SomeStable ==
  ASSUME FilesOK, NEW n \in Node, Unstarted(node[n]), \A m \in Node : node[m].phase \notin {"running", "waiting"}
  PROVE  \E m \in Node : Unstarted(node[m]) /\ Stable(m, node)
<1>1. PICK S : S = {m \in Node : Unstarted(node[m])}
  OBVIOUS
<1>2. PICK i \in DOMAIN Order : Order[i] \in S /\ \A j \in DOMAIN Order : Order[j] \in S => i <= j
  <2>1. n \in S \cap Node
    BY <1>1
  <2> QED BY <2>1, FirstNode
<1>3. PICK m \in Node : m = Order[i] /\ Unstarted(node[m])
  BY <1>1, <1>2
<1>4. ASSUME NEW d \in Deps[m] PROVE Terminal(node[d])
  <2>1. d \in Node
    BY <1>3, WorkflowAssumption
  <2>2. PICK k \in DOMAIN Order : Order[k] = d
    BY <2>1, WorkflowAssumption
  <2>3. k < i
    BY <1>3, <2>2, WorkflowAssumption
  <2>4. k \in Nat /\ i \in Nat
    BY OrderIsSeq
  <2>5. ~Unstarted(node[d])
    BY <1>1, <1>2, <2>1, <2>2, <2>3, <2>4
  <2>6. node[d].phase \in NodePhases
    BY <2>1 DEF FilesOK, NodeSnapshot
  <2> QED BY <2>1, <2>5, <2>6 DEF Unstarted, Terminal, NodePhases
<1> QED BY <1>3, <1>4 DEF Stable

\* Pieces of two writes, one for each node of a set that is not empty.
LEMMA PairsFlat ==
  ASSUME NEW S, NEW n \in S \cap Node, NEW ns, ns = InOrder(S), NEW ss, DOMAIN ss = DOMAIN ns,
         \A i \in DOMAIN ns : \E x, y : ss[i] = <<x, y>>
  PROVE  Flatten(ss) # <<>>
<1>1. ns \in Seq(Node) /\ \E i \in DOMAIN ns : ns[i] = n
  BY InOrderNodes
<1>2. PICK N \in Nat : N = Len(ns) /\ DOMAIN ns = 1..N
  BY <1>1
<1>3. DOMAIN ss = 1..N /\ Len(ss) = N
  BY <1>2
<1>4. PICK W : W = UNION {{ss[i][1], ss[i][2]} : i \in 1..N}
  OBVIOUS
<1>5. ASSUME NEW i \in 1..N PROVE ss[i] \in Seq(W) /\ Len(ss[i]) = 2
  <2>1. PICK x, y : ss[i] = <<x, y>>
    BY <1>2
  <2>2. x \in W /\ y \in W
    BY <1>4, <2>1
  <2> QED BY <2>1, <2>2
<1>6. PICK s : s = Flatten(ss)
  OBVIOUS
<1>7. HasPieces(s, ss, N)
  BY <1>3, <1>5, <1>6, FlattenPieces
<1>8. PICK j \in 1..N : ns[j] = n
  BY <1>1, <1>2
<1>9. 1 \in 1..Len(ss[j])
  BY <1>5
<1>10. \E i \in 1..Len(s) : TRUE
  BY <1>7, <1>9 DEF HasPieces
<1> QED BY <1>6, <1>10

\* Such are the writes of the skipped nodes and of the approvals that wait.
LEMMA SkipsWritten ==
  ASSUME NEW v, NEW n \in Verdicts(v), NEW reason
  PROVE  Skips(v, reason) # <<>>
<1>1. PICK ns : ns = InOrder(Verdicts(v))
  OBVIOUS
<1>2. PICK ss : ss = [i \in DOMAIN ns |-> SkipWrites(ns[i], reason)]
  OBVIOUS
<1>3. DOMAIN ss = DOMAIN ns /\ \A i \in DOMAIN ns : \E x, y : ss[i] = <<x, y>>
  BY <1>2 DEF SkipWrites
<1>4. Flatten(ss) # <<>>
  <2>1. n \in Verdicts(v) \cap Node
    BY DEF Verdicts
  <2> QED BY <1>1, <1>3, <2>1, PairsFlat
<1> QED BY <1>1, <1>2, <1>4 DEF Each, Skips

LEMMA ApprovalsWritten ==
  ASSUME NEW S, NEW n \in S \cap Node
  PROVE  Each(InOrder(S), ApprovalWrites) # <<>>
<1>1. PICK ns : ns = InOrder(S)
  OBVIOUS
<1>2. PICK ss : ss = [i \in DOMAIN ns |-> ApprovalWrites(ns[i])]
  OBVIOUS
<1>3. DOMAIN ss = DOMAIN ns
  BY <1>2
<1>4. ASSUME NEW i \in DOMAIN ns PROVE \E x, y : ss[i] = <<x, y>>
  <2>1. PICK m : m = ns[i]
    OBVIOUS
  <2>2. \E x, y : ApprovalWrites(m) = <<x, y>>
    BY DEF ApprovalWrites
  <2>3. ss[i] = ApprovalWrites(m)
    BY <1>2, <2>1
  <2> QED BY <2>2, <2>3
<1>5. Flatten(ss) # <<>>
  BY <1>1, <1>3, <1>4, PairsFlat
<1> QED BY <1>1, <1>2, <1>5 DEF Each

\* No node has nothing to write.
LEMMA NothingFlat == ASSUME NEW ss, DOMAIN ss = {} PROVE Flatten(ss) = <<>>
<1>1. PICK N \in Nat : N = 0
  OBVIOUS
<1>2. DOMAIN ss = 1..N /\ Len(ss) = N /\ \A j \in 1..N : ss[j] \in Seq({})
  BY <1>1
<1>3. PICK s : s = Flatten(ss)
  OBVIOUS
<1>4. s \in Seq({}) /\ \A i \in 1..Len(s) : \E j \in 1..N : TRUE
  BY <1>2, <1>3, FlattenPieces
<1> QED BY <1>1, <1>3, <1>4

\* Nothing is joined from nothing.
LEMMA JoinedEmpty ==
  ASSUME NEW W, NEW a \in Seq(W), NEW b \in Seq(W), a \o b = <<>>
  PROVE  a = <<>> /\ b = <<>>
<1>1. PICK k \in Nat : k = Len(a)
  OBVIOUS
<1>2. PICK l \in Nat : l = Len(b)
  OBVIOUS
<1>3. Len(a \o b) = k + l
  BY <1>1, <1>2
<1>4. Len(a \o b) = 0
  OBVIOUS
<1>5. k = 0 /\ l = 0
  BY <1>3, <1>4
<1> QED BY <1>1, <1>2, <1>5

\* A batch that starts no Agent: it writes nodes that it settles, and the Run
\* as it is; and a node that has such a verdict.
LEMMA BatchIdle ==
  ASSUME RunInv, InOrder(Ready) = <<>>, NEW batch, batch = BatchWrites(PlanSchedule(run, node))
  PROVE  /\ batch \in Seq(FrontWrites)
         /\ batch = <<>> => /\ Verdicts("skip_upstream") = {} /\ Verdicts("skip_condition") = {}
                            /\ Verdicts("skip_failure_policy") = {} /\ Eligible \subseteq Agent
<1>1. FilesOK
  BY DEF RunInv
<1>2. Each(InOrder(Ready), AgentWrites) = <<>>
  <2>1. PICK ss : ss = [i \in DOMAIN InOrder(Ready) |-> AgentWrites(InOrder(Ready)[i])]
    OBVIOUS
  <2>2. DOMAIN ss = {}
    BY <2>1, NoElement
  <2>3. Flatten(ss) = <<>>
    BY <2>2, NothingFlat
  <2> QED BY <2>1, <2>3 DEF Each
<1>3. batch \in Seq(FrontWrites)
  <2>1. PICK front \in Seq(FrontWrites) : batch = front \o Each(InOrder(Ready), AgentWrites)
    BY <1>1, BatchIs
  <2>2. batch = front \o <<>>
    BY <1>2, <2>1
  <2>3. batch = front
    BY <2>2
  <2> QED BY <2>3
<1>4. PICK a, b, c, e \in Seq(FrontWrites) :
        /\ a = Skips("skip_upstream", "upstream_failed") /\ b = Skips("skip_condition", "condition_false")
        /\ c = Skips("skip_failure_policy", "failure_policy")
        /\ e = Each(InOrder(Eligible \ Agent), ApprovalWrites)
        /\ batch = a \o b \o c \o e \o <<>>
  BY <1>1, <1>2, BatchParts
<1>5. ASSUME batch = <<>> PROVE a = <<>> /\ b = <<>> /\ c = <<>> /\ e = <<>>
  <2>1. PICK ab : ab = a \o b
    OBVIOUS
  <2>2. PICK abc : abc = ab \o c
    OBVIOUS
  <2>3. PICK abce : abce = abc \o e
    OBVIOUS
  <2>4. ab \in Seq(FrontWrites)
    BY <2>1
  <2>5. abc \in Seq(FrontWrites)
    BY <2>2, <2>4
  <2>6. abce \in Seq(FrontWrites)
    BY <2>3, <2>5
  <2>7. batch = abce \o <<>>
    BY <1>4, <2>1, <2>2, <2>3
  <2>8. abce = <<>>
    BY <1>5, <2>6, <2>7
  <2>9. abc = <<>> /\ e = <<>>
    BY <2>3, <2>5, <2>8, JoinedEmpty
  <2>10. ab = <<>> /\ c = <<>>
    BY <2>2, <2>4, <2>9, JoinedEmpty
  <2>11. a = <<>> /\ b = <<>>
    BY <2>1, <2>10, JoinedEmpty
  <2> QED BY <2>9, <2>10, <2>11
<1>6. ASSUME batch = <<>>, NEW n \in Node
      PROVE  /\ n \notin Verdicts("skip_upstream") /\ n \notin Verdicts("skip_condition")
             /\ n \notin Verdicts("skip_failure_policy")
  BY <1>4, <1>5, <1>6, SkipsWritten
<1>7. ASSUME batch = <<>>, NEW n \in Eligible \ Agent PROVE FALSE
  <2>1. n \in (Eligible \ Agent) \cap Node
    BY DEF Eligible, Verdicts
  <2> QED BY <1>4, <1>5, <1>7, <2>1, ApprovalsWritten
<1> QED BY <1>3, <1>6, <1>7 DEF Verdicts

\* Aggregation leaves a Run running that has an Agent that runs, or nothing
\* that waits and a node that has not started.
LEMMA AggregateRuns ==
  ASSUME NEW r \in WorkflowSnapshot, NEW nodes, NEW a, a = aggregateRunState(r, nodes),
         a.phase \notin RestPhases, \A n \in Agent : nodes[n].phase # "running"
  PROVE  /\ \A n \in Node : nodes[n].phase # "waiting"
         /\ \E n \in Node : Unstarted(nodes[n])
<1> DEFINE Phase(p) == {n \in Node : nodes[n].phase = p}
           waits == InOrder(Phase("waiting") \cap Agent)
           As(p, c, q) == [r EXCEPT !.phase = p, !.concl = c, !.reason = q]
<1>1. ASSUME NEW p, NEW c, NEW q PROVE As(p, c, q).phase = p
  BY DEF WorkflowSnapshot
<1>2. Phase("running") \cap Agent = {}
  OBVIOUS
<1>3. \E c, q : \/ a = As("waiting", c, q) \/ a = As("completed", c, q)
                \/ Phase("waiting") = {} /\ Phase("pending") \cup Phase("ready") # {}
  <2>1. CASE waits # <<>>
    <3>1. a = As("waiting", "none", nodes[waits[1]].reason)
      BY <1>2, <2>1 DEF aggregateRunState
    <3> QED BY <3>1
  <2>2. CASE waits = <<>> /\ Phase("waiting") # {}
    <3>1. a = As("waiting", "none", "approval_required")
      BY <1>2, <2>2 DEF aggregateRunState
    <3> QED BY <3>1
  <2>3. CASE waits = <<>> /\ Phase("waiting") = {} /\ Phase("pending") \cup Phase("ready") = {}
    <3>1. a = As("completed", aggregateConclusion(nodes).concl, aggregateConclusion(nodes).reason)
      BY <1>2, <2>3 DEF aggregateRunState
    <3> QED BY <3>1
  <2> QED BY <2>1, <2>2, <2>3
<1>4. PICK c, q : \/ a = As("waiting", c, q) \/ a = As("completed", c, q)
                  \/ Phase("waiting") = {} /\ Phase("pending") \cup Phase("ready") # {}
  BY <1>3
<1>5. Phase("waiting") = {} /\ Phase("pending") \cup Phase("ready") # {}
  <2> HIDE DEF As, Phase
  <2> QED BY <1>1, <1>4 DEF RestPhases
<1> QED BY <1>5 DEF Unstarted

\* The plan has an error when some node's condition has one.
LEMMA PlanFails == PlanSchedule(run, node).error <=> Verdicts("error") # {}
  BY DEF PlanSchedule, Verdicts, Stopped

\* A node that waits for nothing gets a verdict.
LEMMA StableVerdict ==
  ASSUME NEW n \in Node, Unstarted(node[n]), Stable(n, node)
  PROVE  \/ n \in Verdicts("skip_upstream") \/ n \in Verdicts("skip_condition")
         \/ n \in Verdicts("skip_failure_policy") \/ n \in Verdicts("error") \/ n \in Eligible
<1>1. Verdict(n, node, Stopped) \in
        {"skip_upstream", "skip_condition", "skip_failure_policy", "error", "eligible"}
  BY DEF Verdict
<1> QED BY <1>1 DEF Verdicts, Eligible

\* While no node runs or waits, an unstarted node makes a batch that is not
\* empty: a controller that has nothing to launch has something to write.
LEMMA BatchProgress ==
  ASSUME RunInv, NEW n \in Node, Unstarted(node[n]), \A m \in Node : node[m].phase \notin {"running", "waiting"},
         ~PlanSchedule(run, node).error, InOrder(Ready) = <<>>,
         NEW batch, batch = BatchWrites(PlanSchedule(run, node))
  PROVE  batch # <<>>
<1>1. FilesOK
  BY DEF RunInv
<1>2. PICK m \in Node : Unstarted(node[m]) /\ Stable(m, node)
  BY <1>1, SomeStable
<1>3. Verdicts("error") = {}
  BY PlanFails
<1>4. findActiveAttempts(node) = {}
  BY DEF findActiveAttempts, Active
<1>5. m \notin Eligible \cap Agent
  <2> SUFFICES ASSUME m \in Eligible \cap Agent PROVE FALSE
    OBVIOUS
  <2>1. PICK k \in Ready : TRUE
    BY <1>4, SomeReady
  <2>2. k \in Ready \cap Node
    BY DEF Ready, Eligible, Verdicts
  <2>3. PICK i \in DOMAIN InOrder(Ready) : InOrder(Ready)[i] = k
    BY <2>2, InOrderNodes
  <2> QED BY <2>3, NoElement
<1> QED BY <1>2, <1>3, <1>5, StableVerdict, BatchIdle

\* Nothing is written after the writes of none.
LEMMA NodesAfterNone ==
  ASSUME NEW ws, ws = <<>>, node \in [Node -> NodeSnapshot]
  PROVE  NodesAfter(ws) = node
<1>1. DOMAIN ws = {}
  BY NoElement
<1>2. ASSUME NEW n \in Node PROVE NodesAfter(ws)[n] = node[n]
  <2>1. {i \in DOMAIN ws : ws[i].file = "node" /\ ws[i].n = n} = {}
    BY <1>1
  <2> QED BY <2>1 DEF NodesAfter
<1>3. NodesAfter(ws) = [n \in Node |-> NodesAfter(ws)[n]]
  BY DEF NodesAfter
<1> QED BY <1>2, <1>3

\* A controller that schedules, launches nothing and writes nothing repeats its
\* loop or leaves a Run that rests.
LEMMA IdleRests ==
  ASSUME RunInv, RestInv, ctl.pc = "sched", ~ctl.again, ~PlanSchedule(run, node).error, InOrder(Ready) = <<>>,
         NEW batch, batch = BatchWrites(PlanSchedule(run, node)), batch = <<>>,
         NEW r, r = aggregateRunState(run, NodesAfter(batch))
  PROVE  r.phase \in RestPhases
<1> SUFFICES ASSUME r.phase \notin RestPhases PROVE FALSE
  OBVIOUS
<1>1. FilesOK /\ run \in WorkflowSnapshot /\ node \in [Node -> NodeSnapshot]
  BY DEF RunInv, FilesOK
<1>2. \A n \in Agent : node[n].phase # "running"
  BY DEF RestInv, SchedOK
<1>3. r = aggregateRunState(run, node)
  BY <1>1, NodesAfterNone
<1>4. (\A n \in Node : node[n].phase # "waiting") /\ \E n \in Node : Unstarted(node[n])
  BY <1>1, <1>2, <1>3, AggregateRuns
<1>5. \A n \in Node : node[n].phase \notin {"running", "waiting"}
  BY <1>1, <1>2, <1>4 DEF FilesOK, NodeOK
<1>6. PICK n \in Node : Unstarted(node[n])
  BY <1>4
<1> QED BY <1>5, <1>6, BatchProgress

\* The writes of a controller that has launched nothing, and where it goes:
\* when it leaves, the Run that is aggregated rests.
LEMMA RestAggregates ==
  ASSUME RestInv, ctl.pc = "sched", ctl \in ControlStates, run' = run,
         run \in WorkflowSnapshot, Allowed,
         NEW batch \in Seq(FrontWrites), NEW r \in WorkflowSnapshot, r.phase \in {"running", "waiting", "completed"},
         todo' = batch \/ (\E w \in Writes, N \in Nat : /\ Extended(todo', batch, w, N) /\ w.file = "run" /\ w.val = r),
         todo' = batch => r = run,
         Go("top") \/ (Go("exit") /\ r.phase \in RestPhases)
  PROVE  RestInv'
<1>1. \A i \in DOMAIN batch : batch[i] \in FrontWrites
  OBVIOUS
<1>2. \A i \in DOMAIN batch : OfRun(batch[i]) => batch[i].val = run
  BY <1>1 DEF FrontWrites, OfRun
<1>3. PICK s : s = todo'
  OBVIOUS
<1>4. PICK p \in {"top", "exit"} : Go(p) /\ (p = "exit" => r.phase \in RestPhases)
  OBVIOUS
<1>5. ctl'.pc = p /\ ctl'.hb = ctl.hb /\ ctl'.stopping = ctl.stopping /\ ctl'.ctx = ctl.ctx
  BY <1>4, GoHeart DEF ControlPoints
<1>6. run.phase \notin {"paused", "cancelling"}
  BY DEF Allowed
<1>7. ASSUME NEW w \in Writes, NEW N \in Nat, Extended(s, batch, w, N), w.file = "run", w.val = r
      PROVE  /\ \A i \in DOMAIN s : KeptWrite(s[i])
             /\ r.phase \in RestPhases => s # <<>> /\ OfRun(s[Len(s)]) /\ s[Len(s)].val.phase \in RestPhases
  <2>1. Len(s) = N + 1 /\ DOMAIN s = 1..(N + 1) /\ DOMAIN batch = 1..N /\ s[N + 1] = w
        /\ \A i \in 1..N : s[i] = batch[i]
    BY <1>7 DEF Extended
  <2>2. ASSUME NEW i \in DOMAIN s PROVE KeptWrite(s[i])
    <3>1. CASE i \in 1..N
      BY <3>1, <2>1, <1>2, <1>6 DEF KeptWrite
    <3>2. CASE i = N + 1
      BY <3>2, <2>1, <1>7 DEF KeptWrite
    <3> QED BY <3>1, <3>2, <2>1
  <2>3. s # <<>>
    BY <2>1, NoElement
  <2> QED BY <2>1, <2>2, <2>3, <1>7 DEF OfRun
<1>8. CASE s = batch
  <2>1. \A i \in DOMAIN s : KeptWrite(s[i])
    BY <1>2, <1>6, <1>8 DEF KeptWrite
  <2>2. HeartOK' /\ PhasesOK'
    BY <1>3, <1>5, <1>6, <2>1 DEF RestInv, HeartOK, PhasesOK
  <2>3. r.phase \in RestPhases => Rests'
    BY <1>2, <1>3, <1>8 DEF Rests
  <2> QED BY <1>4, <1>5, <2>2, <2>3 DEF RestInv, SchedOK, ExitOK
<1>9. CASE \E w \in Writes, N \in Nat : Extended(s, batch, w, N) /\ w.file = "run" /\ w.val = r
  <2>1. /\ \A i \in DOMAIN s : KeptWrite(s[i])
        /\ r.phase \in RestPhases => s # <<>> /\ OfRun(s[Len(s)]) /\ s[Len(s)].val.phase \in RestPhases
    BY <1>7, <1>9
  <2>2. HeartOK' /\ PhasesOK'
    BY <1>3, <1>5, <1>6, <2>1 DEF RestInv, HeartOK, PhasesOK
  <2>3. r.phase \in RestPhases => Rests'
    BY <1>3, <2>1 DEF Rests
  <2> QED BY <1>4, <1>5, <2>2, <2>3 DEF RestInv, SchedOK, ExitOK
<1> QED BY <1>3, <1>8, <1>9

\* Those of the scheduler.
LEMMA RestScheduleBatch ==
  ASSUME RunInv, EndInv, RestInv, Uncancelled, ScheduleBatch
  PROVE  RestInv'
<1>1. ctl \in ControlStates /\ FilesOK /\ run \in WorkflowSnapshot
  BY DEF RunInv, ControlOK, ThreadTypes, FilesOK
<1>2. ctl.pc = "sched" /\ todo = <<>> /\ UNCHANGED <<run, node, act, proc, hbrec, obs>>
  BY DEF ScheduleBatch, disk
<1> DEFINE d == PlanSchedule(run, node)
           batch == BatchWrites(d)
           runAfter == aggregateRunState(run, NodesAfter(batch))
<1>3. ASSUME NEW p \in {"exit", "fault", "launch", "top"}, Go(p)
      PROVE  ctl'.pc = p /\ ctl'.hb = ctl.hb /\ ctl'.stopping = ctl.stopping /\ ctl'.ctx = ctl.ctx
  BY <1>1, <1>3, GoHeart DEF ControlPoints
<1>4. PICK b : b = batch
  OBVIOUS
<1>5. PICK r : r = runAfter
  OBVIOUS
<1>6. CASE ~Allowed
  <2>1. Go("exit") /\ todo' = <<>>
    BY <1>2, <1>6 DEF ScheduleBatch
  <2>2. run.phase = "completed"
    BY <1>2, <1>6, RefusedRests
  <2> QED BY <1>2, <1>3, <2>1, <2>2, RestLeaves DEF RestPhases
<1>7. CASE Allowed /\ d.error
  <2>1. Go("fault") /\ todo' = <<>>
    BY <1>2, <1>7 DEF ScheduleBatch
  <2>2. \A i \in DOMAIN todo' : OpenWrite(todo'[i])
    BY <2>1, NoElement
  <2> QED BY <1>2, <1>3, <2>1, <2>2, RestBegins
<1>8. CASE Allowed /\ ~d.error /\ d.readyAgents # <<>>
  <2>1. todo' = b /\ Go("launch")
    BY <1>4, <1>8 DEF ScheduleBatch
  <2>2. \A i \in DOMAIN b : BatchOpen(b[i])
    BY <1>4, <1>8, BatchIsOpen
  <2>3. \A i \in DOMAIN todo' : OpenWrite(todo'[i])
    BY <2>1, <2>2 DEF BatchOpen
  <2> QED BY <1>2, <1>3, <2>1, <2>3, RestBegins
<1>9. CASE Allowed /\ ~d.error /\ d.readyAgents = <<>>
  <2>1. /\ todo' = b \o (IF r # run THEN <<WriteRun(r)>> ELSE <<>>)
        /\ Go(IF shouldStop(r) THEN "exit" ELSE IF b # <<>> \/ ctl.again THEN "top" ELSE "exit")
    BY <1>4, <1>5, <1>9 DEF ScheduleBatch
  <2>2. InOrder(Ready) = <<>>
    BY <1>9, PlanIs
  <2>3. b \in Seq(FrontWrites)
    BY <1>4, <2>2, BatchIdle
  <2>4. b \in Seq(Writes)
    <3>1. FrontWrites \subseteq Writes
      BY DEF FrontWrites
    <3> QED BY <2>3, <3>1
  <2>5. r \in WorkflowSnapshot /\ r.phase \in {"running", "waiting", "completed"}
    <3>1. PICK nodes \in [Node -> NodeSnapshot] : nodes = NodesAfter(b)
      BY <1>1, <2>4, NodesAfterType
    <3>2. r = aggregateRunState(run, nodes)
      BY <1>4, <1>5, <3>1
    <3> QED BY <1>1, <3>2, AggregateType, AggregatePhase
  <2>6. Go("top") \/ (Go("exit") /\ r.phase \in RestPhases)
    <3>1. shouldStop(r) <=> r.phase \in RestPhases
      BY DEF shouldStop, RestPhases
    <3>2. ASSUME b = <<>>, ~ctl.again PROVE r.phase \in RestPhases
      <4>1. b = BatchWrites(PlanSchedule(run, node)) /\ r = aggregateRunState(run, NodesAfter(b))
            /\ ~PlanSchedule(run, node).error
        BY <1>4, <1>5, <1>9
      <4> HIDE DEF batch, runAfter, d
      <4> QED BY <4>1, <1>2, <2>2, <3>2, IdleRests
    <3> QED BY <2>1, <3>1, <3>2
  <2>7. PICK w : w = WriteRun(r)
    OBVIOUS
  <2>8. w \in Writes /\ w.file = "run" /\ w.val = r
    BY <2>5, <2>7, RunWrite
  <2>9. PICK s : s = todo'
    OBVIOUS
  <2>10. \/ s = b /\ r = run
         \/ \E N \in Nat : Extended(s, b, w, N)
    <3>1. CASE r = run
      <4>1. s = b \o <<>>
        BY <2>1, <2>9, <3>1
      <4> QED BY <4>1, <2>4, <3>1
    <3>2. CASE r # run
      <4>1. s = b \o <<w>>
        BY <2>1, <2>7, <2>9, <3>2
      <4> QED BY <4>1, <2>4, <2>8, ExtendedIs
    <3> QED BY <3>1, <3>2
  <2> HIDE DEF batch, runAfter, d
  <2>11. \/ todo' = b /\ r = run
         \/ /\ todo' # b
            /\ \E v \in Writes, N \in Nat : /\ Extended(todo', b, v, N) /\ v.file = "run" /\ v.val = r
    <3>1. CASE s = b /\ r = run
      BY <3>1, <2>9
    <3>2. CASE \E N \in Nat : Extended(s, b, w, N)
      <4>1. PICK N \in Nat : Extended(s, b, w, N)
        BY <3>2
      <4>2. s # b
        BY <4>1 DEF Extended
      <4> QED BY <4>1, <4>2, <2>8, <2>9
    <3> QED BY <3>1, <3>2, <2>10
  <2> QED BY <1>1, <1>2, <1>9, <2>3, <2>5, <2>6, <2>11, RestAggregates
<1> QED BY <1>6, <1>7, <1>8, <1>9

-----------------------------------------------------------------------------
\* The invariant holds at first.
LEMMA InitRests == Init => RestInv
<1> SUFFICES ASSUME Init PROVE RestInv
  OBVIOUS
<1>1. todo = <<>> /\ run.phase = "created" /\ ctl = Controller("top")
  BY DEF Init
<1>2. ctl.pc = "top" /\ ~ctl.hb /\ ~ctl.stopping /\ ~ctl.ctx
  BY <1>1, ControllerFresh
<1> QED BY <1>1, <1>2, NoElement DEF RestInv, HeartOK, PhasesOK, SchedOK, ExitOK

\* It is preserved when nothing happens,
LEMMA RestStutters == ASSUME RestInv, UNCHANGED vars PROVE RestInv'
<1>1. UNCHANGED <<run, node, todo, act, ctl, obs, proc, hbrec>>
  BY DEF vars
<1> QED BY <1>1 DEF RestInv, HeartOK, PhasesOK, KeptWrite, SchedOK, ExitOK, Rests

\* by the steps of the engine, none of which is one of a cancellation,
LEMMA RestEngine == ASSUME RunInv, EndInv, RestInv, RunInv', EndInv', Uncancelled, Engine PROVE RestInv'
<1>1. CASE Write
  BY <1>1, RestWrite
<1>2. CASE ControlTop \/ ReconcileEnd \/ HeartbeatHandsOff
  BY <1>2, RestControl
<1>3. CASE ReconcileApply
  BY <1>3, RestReconcileApply
<1>4. CASE ScheduleBatch
  BY <1>4, RestScheduleBatch
<1>5. CASE LaunchSettle
  BY <1>5, RestLaunchSettle
<1>6. CASE PauseOnError \/ ControllerExit
  BY <1>6, RestPersists
<1>7. CASE ActionStartsController \/ Recover \/ HeartbeatRecover
  BY <1>7, RestStarts
<1>8. CASE MonitorFinds \/ CancelResolve \/ CancelMark \/ CancelApply
  BY <1>8 DEF MonitorFinds, CancelResolve, CancelMark, CancelApply, EndInv, RoutesOK, NotCancelled
<1>9. CASE RecoverMark \/ RecoverTarget \/ RecoverCancel \/ RecoverFails \/ RecoverFinal
  BY <1>9 DEF RecoverMark, RecoverTarget, RecoverCancel, RecoverFails, RecoverFinal, EndInv, RoutesOK,
              RecoveryPoints
<1>10. CASE Restart
  BY <1>10, RestInterrupts
<1>11. CASE ReplayAction
  BY <1>11, RestActions
<1>12. CASE \E n \in Agent :
             \/ ObserveLocal(n) \/ ObserveActive(n) \/ ObserveEnd(n)
             \/ ObserveGone(n) \/ ObserveTrouble(n)
             \/ LaunchBegin(n) \/ LaunchStart(n) \/ LaunchPersist(n)
             \/ CancelTarget(n)
  BY <1>12, RestAgent
<1> QED BY <1>1, <1>2, <1>3, <1>4, <1>5, <1>6, <1>7, <1>8, <1>9, <1>10, <1>11, <1>12 DEF Engine

\* and by what callers and the environment do.
LEMMA RestOutside == ASSUME RunInv, EndInv, RestInv, RunInv', EndInv', Uncancelled, Outside PROVE RestInv'
<1>1. CASE HeartbeatFails \/ Crash
  BY <1>1, RestInterrupts
<1>2. CASE CancelAsk \/ CancelReturns \/ CancelTakesLease
  BY <1>2 DEF CancelAsk, CancelReturns, CancelTakesLease, EndInv, RoutesOK, NotCancelled, Uncancelled
<1>3. ASSUME Plans PROVE RestInv'
  <2>1. \E ws : BeginAction(ws)
    BY <1>3 DEF Plans
  <2> QED BY <2>1, RestActions
<1>4. CASE \E n \in Node : \E d \in {"approved", "rejected"} : Decide(n, d)
  BY <1>3, <1>4, DecidePlans
<1>5. CASE \E n \in Node : DecideAgain(n) \/ Retry(n) \/ Answer(n)
  <2>1. PICK n \in Node : DecideAgain(n) \/ Retry(n) \/ Answer(n)
    BY <1>5
  <2>2. CASE DecideAgain(n)
    BY <2>2, RestActions
  <2>3. CASE Retry(n) \/ Answer(n)
    BY <2>3, <1>3, RetryPlans
  <2> QED BY <2>1, <2>2, <2>3
<1> QED BY <1>1, <1>2, <1>4, <1>5 DEF Outside

\* Why a controller leaves its Run, when nobody asks for a cancellation: its
\* heartbeat failed, and a recovery is due, or the Run rests.
THEOREM RestInvariant == ASSUME Uncancelled PROVE Spec => []RestInv
<1>1. NoRecoveredCancel
  BY DEF NoRecoveredCancel
<1>2. RunInv /\ EndInv /\ RestInv /\ RunInv' /\ EndInv' /\ [Next]_vars => RestInv'
  BY RestEngine, RestOutside, RestStutters DEF Next
<1> QED BY <1>1, <1>2, InitRests, RunInvariant, EndInvariant, PTL DEF Spec

\* A Run that no thread of the engine works on waits for a human or is
\* completed, when nobody asks for a cancellation: the exits of runController,
\* the heartbeat's recovery, the actions and the restart leave none behind
\* (shouldStop, pauseControllerOnError, runNeedsController).
THEOREM RestsWhenQuiet == ASSUME Uncancelled PROVE Spec => []ControlledWhileRunning
<1>1. RestInv => ControlledWhileRunning
  BY DEF RestInv, ExitOK, ControlledWhileRunning, Quiescent, RestPhases
<1> QED BY <1>1, RestInvariant, PTL
=============================================================================
