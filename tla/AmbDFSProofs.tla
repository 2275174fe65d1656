---------------------------- MODULE AmbDFSProofs ----------------------------
(***************************************************************************)
(* Proofs about AmbDFS, for every set of programs and every depth: a replay *)
(* never disagrees with the program, no path is too long, and the paths     *)
(* come in depth-first order, so that none is run twice.                    *)
(***************************************************************************)
EXTENDS AmbDFS, SequenceTheorems, TLAPS

-----------------------------------------------------------------------------
(* Prefixes *)

\* A prefix has the elements of the sequence it was cut from.
LEMMA PrefixProperties ==
  ASSUME NEW S, NEW s \in Seq(S), NEW n \in 0..Len(s)
  PROVE  /\ SubSeq(s, 1, n) \in Seq(S) /\ Len(SubSeq(s, 1, n)) = n
         /\ \A j \in 1..n : SubSeq(s, 1, n)[j] = s[j]
<1>1. \A j \in 1..n : s[j] \in S  OBVIOUS
<1> QED  BY <1>1, SubSeqProperties

\* Equal prefixes are equal element by element, and the reverse.
LEMMA PrefixesEqual ==
  ASSUME NEW S, NEW s \in Seq(S), NEW t \in Seq(S), NEW n \in Nat, n <= Len(s), n <= Len(t)
  PROVE  SubSeq(s, 1, n) = SubSeq(t, 1, n) <=> \A j \in 1..n : s[j] = t[j]
<1>1. n \in 0..Len(s) /\ n \in 0..Len(t)  OBVIOUS
<1>2. SubSeq(s, 1, n) \in Seq(S) /\ SubSeq(t, 1, n) \in Seq(S)  BY <1>1, PrefixProperties
<1>3. Len(SubSeq(s, 1, n)) = n /\ Len(SubSeq(t, 1, n)) = n  BY <1>1, PrefixProperties
<1>4. \A j \in 1..n : SubSeq(s, 1, n)[j] = s[j] /\ SubSeq(t, 1, n)[j] = t[j]  BY <1>1, PrefixProperties
<1>5. ASSUME SubSeq(s, 1, n) = SubSeq(t, 1, n) PROVE \A j \in 1..n : s[j] = t[j]
  BY <1>4, <1>5
<1>6. ASSUME \A j \in 1..n : s[j] = t[j] PROVE SubSeq(s, 1, n) = SubSeq(t, 1, n)
  BY <1>2, <1>3, <1>4, <1>6, SeqEqual
<1> QED  BY <1>5, <1>6

\* The next longer prefix.
LEMMA PrefixStep ==
  ASSUME NEW S, NEW s \in Seq(S), NEW n \in Nat, n < Len(s)
  PROVE  SubSeq(s, 1, n + 1) = Append(SubSeq(s, 1, n), s[n + 1])
<1>1. n \in 0..Len(s) /\ n + 1 \in 0..Len(s) /\ s[n + 1] \in S  OBVIOUS
<1> DEFINE p == SubSeq(s, 1, n)
           q == SubSeq(s, 1, n + 1)
<1>2. p \in Seq(S) /\ Len(p) = n /\ \A j \in 1..n : p[j] = s[j]  BY <1>1, PrefixProperties
<1>3. q \in Seq(S) /\ Len(q) = n + 1 /\ \A j \in 1..(n + 1) : q[j] = s[j]  BY <1>1, PrefixProperties
<1> HIDE DEF p, q
<1>4. /\ Append(p, s[n + 1]) \in Seq(S) /\ Len(Append(p, s[n + 1])) = n + 1
      /\ \A j \in 1..n : Append(p, s[n + 1])[j] = p[j]
      /\ Append(p, s[n + 1])[n + 1] = s[n + 1]
  BY <1>1, <1>2, AppendProperties
<1>5. \A j \in 1..(n + 1) : q[j] = Append(p, s[n + 1])[j]
  <2> TAKE j \in 1..(n + 1)
  <2>1. CASE j = n + 1  BY <2>1, <1>3, <1>4
  <2>2. CASE j # n + 1
    <3>1. j \in 1..n  BY <2>2
    <3> QED  BY <3>1, <1>2, <1>3, <1>4
  <2> QED  BY <2>1, <2>2
<1>6. q = Append(p, s[n + 1])  BY <1>3, <1>4, <1>5, SeqEqual
<1> QED  BY <1>6 DEF p, q

-----------------------------------------------------------------------------
(* The inductive invariant *)

\* c is a path into the program t and b the widths of the choices on it.
Follows(t, c, b) ==
  /\ Len(b) = Len(c)
  /\ \A i \in 1..Len(c) :
       /\ SubSeq(c, 1, i - 1) \in DOMAIN t
       /\ b[i] = t[SubSeq(c, 1, i - 1)] /\ c[i] < b[i]

\* The program has taken the first step choices of curPath, all of them when
\* the run is over.
OnPath ==
  /\ pc = "run1" => path = SubSeq(curPath, 1, step)
  /\ pc = "Next" => path = curPath

\* curPath comes after every run so far but the one that has just ended.
InOrder ==
  /\ pc = "run1" => \A s \in visited : Before(s, curPath)
  /\ pc = "Next" => \A s \in visited : s = curPath \/ Before(s, curPath)

IInv ==
  /\ TypeOK /\ DepthBounded /\ Len(curPath) <= MaxDepth
  /\ Follows(tree, curPath, branchWidths) /\ OnPath /\ InOrder

-----------------------------------------------------------------------------
(* Paths into a program *)

\* Every prefix of such a path is a point of the program.
LEMMA FollowsIn ==
  ASSUME NEW t \in Trees, NEW c \in Seq(Nat), NEW b, Follows(t, c, b), NEW n \in 0..Len(c)
  PROVE  SubSeq(c, 1, n) \in DOMAIN t
<1>1. CASE n = 0
  <2>1. SubSeq(c, 1, n) = <<>>  BY <1>1, SubSeqEmpty
  <2> QED  BY <2>1, AmbAssumption
<1>2. CASE n # 0
  <2> DEFINE p == SubSeq(c, 1, n - 1)
  <2>1. n - 1 \in Nat /\ n - 1 < Len(c) /\ n \in 1..Len(c) /\ (n - 1) + 1 = n  BY <1>2
  <2>2. p \in DOMAIN t /\ c[n] < t[p]  BY <2>1 DEF Follows
  <2>3. SubSeq(c, 1, n) = Append(p, c[n])  BY <2>1, PrefixStep
  <2> HIDE DEF p
  <2>4. t[p] \in Nat /\ \A i \in 0..(t[p] - 1) : Append(p, i) \in DOMAIN t  BY <2>2, AmbAssumption
  <2>5. c[n] \in 0..(t[p] - 1)  BY <2>1, <2>2, <2>4
  <2> QED  BY <2>3, <2>4, <2>5
<1> QED  BY <1>1, <1>2

\* A new choice, of which the first alternative is taken.
LEMMA FollowsExplore ==
  ASSUME NEW t \in Trees, NEW c \in Seq(Nat), NEW b \in Seq(Nat), Follows(t, c, b), t[c] > 0
  PROVE  Follows(t, Append(c, 0), Append(b, t[c]))
<1> DEFINE d == Append(c, 0)
           e == Append(b, t[c])
<1>1. SubSeq(c, 1, Len(c)) = c  BY SubSeqFull
<1>2. c \in DOMAIN t
  <2>1. Len(c) \in 0..Len(c)  OBVIOUS
  <2> QED  BY <2>1, <1>1, FollowsIn
<1>3. t[c] \in Nat  BY <1>2, AmbAssumption
<1>4. /\ d \in Seq(Nat) /\ Len(d) = Len(c) + 1 /\ d[Len(c) + 1] = 0
      /\ \A j \in 1..Len(c) : d[j] = c[j]
  BY AppendProperties
<1>5. /\ e \in Seq(Nat) /\ Len(e) = Len(b) + 1 /\ e[Len(b) + 1] = t[c]
      /\ \A j \in 1..Len(b) : e[j] = b[j]
  BY <1>3, AppendProperties
<1>6. Len(b) = Len(c) /\ Len(c) \in Nat  BY DEF Follows
<1> HIDE DEF d, e
<1>7. ASSUME NEW i \in 1..Len(d)
      PROVE  SubSeq(d, 1, i - 1) \in DOMAIN t /\ e[i] = t[SubSeq(d, 1, i - 1)] /\ d[i] < e[i]
  <2>1. CASE i <= Len(c)
    <3>1. i \in 1..Len(c) /\ i <= Len(d) /\ \A j \in 1..(i - 1) : d[j] = c[j]  BY <2>1, <1>4, <1>6
    <3>2. SubSeq(d, 1, i - 1) \in DOMAIN t /\ b[i] = t[SubSeq(d, 1, i - 1)]
      <4>1. i - 1 \in Nat /\ i - 1 <= Len(c) /\ i - 1 <= Len(d)  BY <3>1, <1>6
      <4>2. SubSeq(d, 1, i - 1) = SubSeq(c, 1, i - 1)  BY <3>1, <4>1, <1>4, PrefixesEqual
      <4> QED  BY <3>1, <4>2 DEF Follows
    <3>3. d[i] = c[i] /\ e[i] = b[i]  BY <3>1, <1>4, <1>5, <1>6
    <3>4. c[i] < b[i]  BY <3>1 DEF Follows
    <3> QED  BY <3>2, <3>3, <3>4
  <2>2. CASE i > Len(c)
    <3>1. i = Len(c) + 1 /\ i - 1 = Len(c)  BY <2>2, <1>4, <1>6
    <3>2. SubSeq(d, 1, Len(c)) = SubSeq(c, 1, Len(c))  BY <1>4, <1>6, PrefixesEqual
    <3>3. SubSeq(d, 1, i - 1) = c  BY <3>1, <3>2, <1>1
    <3>4. d[i] = 0 /\ e[i] = t[c]  BY <3>1, <1>4, <1>5, <1>6
    <3> QED  BY <3>3, <3>4, <1>2
  <2> QED  BY <2>1, <2>2, <1>6
<1>8. Len(e) = Len(d)  BY <1>4, <1>5, <1>6
<1>9. Follows(t, d, e)  BY <1>7, <1>8 DEF Follows
<1> QED  BY <1>9 DEF d, e

\* The next alternative of choice i, everything after it forgotten.
LEMMA FollowsCut ==
  ASSUME NEW t \in Trees, NEW c \in Seq(Nat), NEW b \in Seq(Nat), Follows(t, c, b),
         NEW i \in 1..Len(c), c[i] + 1 < b[i]
  PROVE  LET d == Append(SubSeq(c, 1, i - 1), c[i] + 1)
         IN  /\ d \in Seq(Nat) /\ Len(d) = i /\ d[i] = c[i] + 1
             /\ \A j \in 1..(i - 1) : d[j] = c[j]
             /\ SubSeq(b, 1, i) \in Seq(Nat)
             /\ Follows(t, d, SubSeq(b, 1, i))
<1> DEFINE p == SubSeq(c, 1, i - 1)
           d == Append(p, c[i] + 1)
           e == SubSeq(b, 1, i)
<1>1. Len(b) = Len(c) /\ Len(c) \in Nat  BY DEF Follows
<1>2. c[i] + 1 \in Nat /\ i - 1 \in 0..Len(c) /\ i \in 0..Len(b)  BY <1>1
<1>3. p \in Seq(Nat) /\ Len(p) = i - 1 /\ \A j \in 1..(i - 1) : p[j] = c[j]  BY <1>2, PrefixProperties
<1>4. e \in Seq(Nat) /\ Len(e) = i /\ \A j \in 1..i : e[j] = b[j]  BY <1>2, PrefixProperties
<1> HIDE DEF p, e
<1>a. /\ d \in Seq(Nat) /\ Len(d) = Len(p) + 1 /\ d[Len(p) + 1] = c[i] + 1
      /\ \A j \in 1..Len(p) : d[j] = p[j]
  BY <1>2, <1>3, AppendProperties
<1> HIDE DEF d
<1>b. Len(p) + 1 = i  BY <1>3
<1>5. /\ d \in Seq(Nat) /\ Len(d) = i /\ d[i] = c[i] + 1
      /\ \A j \in 1..(i - 1) : d[j] = c[j]
  BY <1>3, <1>a, <1>b
<1>6. ASSUME NEW k \in 1..Len(d)
      PROVE  SubSeq(d, 1, k - 1) \in DOMAIN t /\ e[k] = t[SubSeq(d, 1, k - 1)] /\ d[k] < e[k]
  <2>1. k \in 1..Len(c) /\ k <= Len(d) /\ \A j \in 1..(k - 1) : d[j] = c[j]  BY <1>1, <1>5
  <2>2. SubSeq(d, 1, k - 1) \in DOMAIN t /\ b[k] = t[SubSeq(d, 1, k - 1)]
    <3>1. k - 1 \in Nat /\ k - 1 <= Len(c) /\ k - 1 <= Len(d)  BY <2>1, <1>1
    <3>2. SubSeq(d, 1, k - 1) = SubSeq(c, 1, k - 1)  BY <2>1, <3>1, <1>5, PrefixesEqual
    <3> QED  BY <2>1, <3>2 DEF Follows
  <2>3. e[k] = b[k]  BY <1>4, <1>5
  <2>4. d[k] < b[k]
    <3>1. c[k] < b[k]  BY <2>1 DEF Follows
    <3>2. CASE k = i  BY <3>2, <1>5
    <3>3. CASE k # i
      <4>1. k \in 1..(i - 1)  BY <3>3, <1>5
      <4> QED  BY <4>1, <3>1, <1>5
    <3> QED  BY <3>2, <3>3
  <2> QED  BY <2>2, <2>3, <2>4
<1>7. Len(e) = Len(d)  BY <1>4, <1>5
<1>8. Follows(t, d, e)  BY <1>6, <1>7 DEF Follows
<1> QED  BY <1>4, <1>5, <1>8 DEF d, e, p

-----------------------------------------------------------------------------
(* Depth-first order *)

\* Before, element by element.
LEMMA BeforeElements ==
  ASSUME NEW s \in Seq(Nat), NEW t \in Seq(Nat)
  PROVE  Before(s, t) <=>
           \E i \in 1..Len(t) : i <= Len(s) /\ (\A j \in 1..(i - 1) : s[j] = t[j]) /\ s[i] < t[i]
<1>1. ASSUME NEW i \in 1..Len(t), i <= Len(s)
      PROVE  SubSeq(s, 1, i - 1) = SubSeq(t, 1, i - 1) <=> \A j \in 1..(i - 1) : s[j] = t[j]
  <2>1. i - 1 \in Nat /\ i - 1 <= Len(s) /\ i - 1 <= Len(t)  BY <1>1
  <2> QED  BY <2>1, PrefixesEqual
<1> QED  BY <1>1 DEF Before

\* A longer path with the same beginning comes no earlier.
LEMMA BeforeExtends ==
  ASSUME NEW s \in Seq(Nat), NEW t \in Seq(Nat), NEW u \in Seq(Nat), Before(s, t),
         Len(t) <= Len(u), \A j \in 1..Len(t) : u[j] = t[j]
  PROVE  Before(s, u)
<1>1. PICK i \in 1..Len(t) : i <= Len(s) /\ (\A j \in 1..(i - 1) : s[j] = t[j]) /\ s[i] < t[i]
  BY BeforeElements
<1>2. i \in 1..Len(u) /\ s[i] < u[i] /\ \A j \in 1..(i - 1) : s[j] = u[j]  BY <1>1
<1> QED  BY <1>1, <1>2, BeforeElements

\* The path that Next moves to comes after the old one and all before that.
LEMMA BeforeAdvances ==
  ASSUME NEW s \in Seq(Nat), NEW t \in Seq(Nat), NEW u \in Seq(Nat), s = t \/ Before(s, t),
         NEW i \in 1..Len(t), Len(u) = i, u[i] = t[i] + 1, \A j \in 1..(i - 1) : u[j] = t[j]
  PROVE  Before(s, u)
<1>1. t[i] \in Nat /\ i \in 1..Len(u)  OBVIOUS
<1>2. CASE s = t
  <2>1. i <= Len(s) /\ s[i] < u[i] /\ \A j \in 1..(i - 1) : s[j] = u[j]  BY <1>1, <1>2
  <2> QED  BY <2>1, <1>1, BeforeElements
<1>3. CASE Before(s, t)
  <2>1. PICK k \in 1..Len(t) : k <= Len(s) /\ (\A j \in 1..(k - 1) : s[j] = t[j]) /\ s[k] < t[k]
    BY <1>3, BeforeElements
  <2>2. s[k] \in Nat /\ t[k] \in Nat
    <3>1. k \in 1..Len(s)  BY <2>1
    <3> QED  BY <3>1, ElementOfSeq
  <2>3. CASE k < i
    <3>1. k \in 1..Len(u) /\ s[k] < u[k] /\ \A j \in 1..(k - 1) : s[j] = u[j]  BY <2>1, <2>3
    <3> QED  BY <3>1, <2>1, BeforeElements
  <2>4. CASE k >= i
    <3>1. i <= Len(s) /\ \A j \in 1..(i - 1) : s[j] = u[j]
      <4>0. i \in Nat /\ k \in Nat /\ Len(s) \in Nat /\ k <= Len(s)  BY <2>1
      <4>1. i <= Len(s) /\ \A j \in 1..(i - 1) : j \in 1..(k - 1)  BY <4>0, <2>4
      <4> QED  BY <2>1, <4>1
    <3>2. s[i] < u[i]
      <4>1. CASE k = i
        <5>1. s[i] \in Nat /\ s[i] < t[i]  BY <4>1, <2>1, <2>2, Zenon
        <5> QED  BY <5>1, <1>1
      <4>2. CASE k > i  BY <4>2, <2>1, <1>1
      <4> QED  BY <4>1, <4>2, <2>4
    <3> QED  BY <3>1, <3>2, <1>1, BeforeElements
  <2> QED  BY <2>3, <2>4
<1> QED  BY <1>2, <1>3

-----------------------------------------------------------------------------
(* The invariant holds *)

\* What a program's points look like.
LEMMA TreeFacts ==
  ASSUME NEW t \in Trees
  PROVE  /\ <<>> \in DOMAIN t /\ DOMAIN t \subseteq Seq(Nat)
         /\ \A s \in DOMAIN t : t[s] \in Nat /\ \A i \in 0..(t[s] - 1) : Append(s, i) \in DOMAIN t
BY AmbAssumption

\* After Strategy.Reset the invariant holds.
LEMMA InitIInv == Init => IInv
<1> SUFFICES ASSUME Init PROVE IInv  OBVIOUS
<1>1. TypeOK  BY TreeFacts DEF Init, TypeOK
<1>2. Len(curPath) = 0 /\ Len(path) = 0 /\ Len(branchWidths) = 0  BY DEF Init
<1>3. DepthBounded /\ Len(curPath) <= MaxDepth  BY <1>2, AmbAssumption DEF DepthBounded
<1>4. Follows(tree, curPath, branchWidths)  BY <1>2 DEF Follows
<1>5. OnPath
  <2>1. SubSeq(curPath, 1, step) = <<>>  BY SubSeqEmpty DEF Init
  <2> QED  BY <2>1 DEF Init, OnPath
<1>6. InOrder  BY DEF Init, InOrder
<1> QED  BY <1>1, <1>3, <1>4, <1>5, <1>6 DEF IInv

\* A replayed choice has the width that was recorded, and is not the end.
LEMMA ReplayFacts ==
  ASSUME IInv, pc = "run1", Replaying
  PROVE  tree[path] = branchWidths[step + 1] /\ tree[path] > 0
<1>1. step \in Nat /\ step < Len(curPath) /\ curPath \in Seq(Nat)  BY DEF IInv, TypeOK, Replaying
<1>2. step + 1 \in 1..Len(curPath) /\ (step + 1) - 1 = step  BY <1>1
<1>3. path = SubSeq(curPath, 1, step)  BY DEF IInv, OnPath
<1>4. branchWidths[step + 1] = tree[path] /\ curPath[step + 1] < branchWidths[step + 1]
  BY <1>2, <1>3 DEF IInv, Follows
<1>5. curPath[step + 1] \in Nat  BY <1>1, <1>2, ElementOfSeq
<1>6. tree[path] \in Nat  BY TreeFacts DEF IInv, TypeOK
<1> QED  BY <1>4, <1>5, <1>6

\* When a run is not replaying it has taken all of curPath.
LEMMA WholePath ==
  ASSUME IInv, pc = "run1", ~Replaying
  PROVE  step = Len(curPath) /\ path = curPath
<1>1. step \in 0..Len(curPath) /\ curPath \in Seq(Nat)  BY DEF IInv, TypeOK
<1>2. step = Len(curPath)  BY <1>1 DEF Replaying
<1> QED  BY <1>1, <1>2, SubSeqFull DEF IInv, OnPath

\* Every call of Amb, every end of a run and every call of Next keeps it.
LEMMA NextIInv == IInv /\ [Next]_vars => IInv'
<1> SUFFICES ASSUME IInv, [Next]_vars PROVE IInv'  OBVIOUS
<1> USE DEF strategy
<1>0. /\ tree \in Trees /\ path \in DOMAIN tree /\ path \in Seq(Nat)
      /\ branchWidths \in Seq(Nat) /\ curPath \in Seq(Nat) /\ step \in 0..Len(curPath)
      /\ Len(branchWidths) = Len(curPath) /\ Len(curPath) \in Nat
      /\ visited \subseteq DOMAIN tree /\ visited \subseteq Seq(Nat)
      /\ Len(curPath) <= MaxDepth /\ MaxDepth \in Nat \ {0}
  BY TreeFacts, AmbAssumption DEF IInv, TypeOK
<1>1. CASE AmbReplay
  <2>1. /\ pc = "run1" /\ pc' = pc /\ tree' = tree /\ visited' = visited /\ step' = step + 1
        /\ curPath' = curPath /\ branchWidths' = branchWidths /\ step < Len(curPath)
        /\ path' = Append(path, curPath[step + 1])
    BY <1>1 DEF AmbReplay, Replaying
  <2>2. path' = SubSeq(curPath, 1, step + 1)
    <3>1. path = SubSeq(curPath, 1, step)  BY <2>1 DEF IInv, OnPath
    <3>2. step \in Nat  BY <1>0
    <3> QED  BY <1>0, <2>1, <3>1, <3>2, PrefixStep
  <2>3. step + 1 \in 0..Len(curPath)  BY <1>0, <2>1
  <2>4. path' \in DOMAIN tree /\ Len(path') = step + 1
    <3>1. Follows(tree, curPath, branchWidths)  BY DEF IInv
    <3> QED  BY <1>0, <2>2, <2>3, <3>1, FollowsIn, PrefixProperties
  <2>5. TypeOK'  BY <1>0, <2>1, <2>3, <2>4 DEF TypeOK
  <2>6. DepthBounded' /\ Len(curPath') <= MaxDepth  BY <1>0, <2>1, <2>3, <2>4 DEF DepthBounded
  <2>7. Follows(tree, curPath, branchWidths)'  BY <2>1 DEF IInv, Follows
  <2>8. OnPath'  BY <2>1, <2>2 DEF OnPath
  <2>9. InOrder'  BY <2>1 DEF IInv, InOrder, Before
  <2> QED  BY <2>5, <2>6, <2>7, <2>8, <2>9 DEF IInv
<1>2. CASE AmbExplore
  <2>1. /\ pc = "run1" /\ pc' = pc /\ tree' = tree /\ visited' = visited /\ step' = step + 1
        /\ curPath' = Append(curPath, 0) /\ branchWidths' = Append(branchWidths, tree[path])
        /\ path' = Append(path, 0) /\ tree[path] > 0 /\ ~Replaying /\ Len(curPath) # MaxDepth
    BY <1>2 DEF AmbExplore, DepthReached
  <2>2. step = Len(curPath) /\ path = curPath  BY <2>1, WholePath
  <2>3. tree[path] \in Nat /\ Append(path, 0) \in DOMAIN tree  BY <1>0, <2>1, TreeFacts
  <2>4. /\ curPath' \in Seq(Nat) /\ Len(curPath') = Len(curPath) + 1
        /\ \A j \in 1..Len(curPath) : curPath'[j] = curPath[j]
    BY <1>0, <2>1, AppendProperties
  <2>5. branchWidths' \in Seq(Nat) /\ Len(branchWidths') = Len(branchWidths) + 1
    BY <1>0, <2>1, <2>3, AppendProperties
  <2>6. path' = curPath'  BY <2>1, <2>2
  <2>7. TypeOK'  BY <1>0, <2>1, <2>2, <2>3, <2>4, <2>5 DEF TypeOK
  <2>8. DepthBounded' /\ Len(curPath') <= MaxDepth  BY <1>0, <2>1, <2>4, <2>6 DEF DepthBounded
  <2>9. Follows(tree, curPath, branchWidths)'
    <3>1. Follows(tree, curPath, branchWidths)  BY DEF IInv
    <3>2. Follows(tree, Append(curPath, 0), Append(branchWidths, tree[curPath]))
      BY <1>0, <2>1, <2>2, <3>1, FollowsExplore
    <3> QED  BY <2>1, <2>2, <3>2 DEF Follows
  <2>10. OnPath'
    <3>1. SubSeq(curPath', 1, step') = curPath'  BY <2>1, <2>2, <2>4, SubSeqFull
    <3> QED  BY <2>1, <2>6, <3>1 DEF OnPath
  <2>11. InOrder'
    <3>1. ASSUME NEW s \in visited PROVE Before(s, curPath')
      <4>1. s \in Seq(Nat)  BY <1>0
      <4>2. Before(s, curPath)  BY <2>1 DEF IInv, InOrder
      <4>3. Len(curPath) <= Len(curPath')  BY <1>0, <2>4
      <4> QED  BY <4>1, <4>2, <4>3, <1>0, <2>4, BeforeExtends
    <3> QED  BY <3>1, <2>1 DEF InOrder, Before
  <2> QED  BY <2>7, <2>8, <2>9, <2>10, <2>11 DEF IInv
<1>3. CASE AmbTerminates \/ RootReturns
  <2>1. /\ pc = "run1" /\ pc' = "Next" /\ visited' = visited \cup {path}
        /\ UNCHANGED <<tree, path, branchWidths, curPath, step>>
    BY <1>3 DEF AmbTerminates, RootReturns
  <2>2. ~Replaying  BY <1>3, <2>1, ReplayFacts DEF AmbTerminates, RootReturns
  <2>3. path = curPath  BY <2>1, <2>2, WholePath
  <2>4. TypeOK'  BY <1>0, <2>1 DEF TypeOK
  <2>5. DepthBounded' /\ Len(curPath') <= MaxDepth  BY <2>1 DEF IInv, DepthBounded
  <2>6. Follows(tree, curPath, branchWidths)'  BY <2>1 DEF IInv, Follows
  <2>7. OnPath'  BY <2>1, <2>3 DEF OnPath
  <2>8. InOrder'  BY <2>1, <2>3 DEF IInv, InOrder, Before
  <2> QED  BY <2>4, <2>5, <2>6, <2>7, <2>8 DEF IInv
<1>4. CASE NextPath
  <2>1. PICK i \in 1..Len(curPath) :
          /\ pc = "Next" /\ curPath[i] + 1 < branchWidths[i]
          /\ curPath' = Append(SubSeq(curPath, 1, i - 1), curPath[i] + 1)
          /\ branchWidths' = SubSeq(branchWidths, 1, i)
          /\ step' = 0 /\ path' = <<>> /\ pc' = "run1" /\ tree' = tree /\ visited' = visited
    BY <1>4 DEF NextPath, HasSibling
  <2>2. /\ curPath' \in Seq(Nat) /\ Len(curPath') = i /\ curPath'[i] = curPath[i] + 1
        /\ \A j \in 1..(i - 1) : curPath'[j] = curPath[j]
        /\ branchWidths' \in Seq(Nat) /\ Follows(tree, curPath', branchWidths')
    <3>1. Follows(tree, curPath, branchWidths)  BY DEF IInv
    <3> DEFINE d == Append(SubSeq(curPath, 1, i - 1), curPath[i] + 1)
    <3>2. /\ d \in Seq(Nat) /\ Len(d) = i /\ d[i] = curPath[i] + 1
          /\ \A j \in 1..(i - 1) : d[j] = curPath[j]
          /\ SubSeq(branchWidths, 1, i) \in Seq(Nat)
          /\ Follows(tree, d, SubSeq(branchWidths, 1, i))
      BY <1>0, <2>1, <3>1, FollowsCut
    <3>3. curPath' = d /\ branchWidths' = SubSeq(branchWidths, 1, i)  BY <2>1
    <3> HIDE DEF d
    <3> QED  BY <3>2, <3>3
  <2>3. Len(branchWidths') = Len(curPath')  BY <2>2 DEF Follows
  <2>4. TypeOK'
    <3>1. <<>> \in DOMAIN tree  BY <1>0, TreeFacts
    <3>2. step' \in 0..Len(curPath')  BY <2>1, <2>2
    <3> QED  BY <1>0, <2>1, <2>2, <2>3, <3>1, <3>2 DEF TypeOK
  <2>5. DepthBounded' /\ Len(curPath') <= MaxDepth  BY <1>0, <2>1, <2>2 DEF DepthBounded
  <2>6. Follows(tree, curPath, branchWidths)'  BY <2>1, <2>2 DEF Follows
  <2>7. OnPath'
    <3>1. SubSeq(curPath', 1, step') = <<>>  BY <2>1, SubSeqEmpty
    <3> QED  BY <2>1, <3>1 DEF OnPath
  <2>8. InOrder'
    <3>1. ASSUME NEW s \in visited PROVE Before(s, curPath')
      <4>1. s \in Seq(Nat)  BY <1>0
      <4>2. s = curPath \/ Before(s, curPath)  BY <2>1 DEF IInv, InOrder
      <4> QED  BY <4>1, <4>2, <1>0, <2>2, BeforeAdvances
    <3> QED  BY <3>1, <2>1 DEF InOrder, Before
  <2> QED  BY <2>4, <2>5, <2>6, <2>7, <2>8 DEF IInv
<1>5. CASE OutOfPaths
  <2>1. /\ curPath' = <<>> /\ branchWidths' = <<>> /\ step' = 0 /\ pc' = "done"
        /\ UNCHANGED <<tree, path, visited>>
    BY <1>5 DEF OutOfPaths
  <2>2. TypeOK'  BY <1>0, <2>1 DEF TypeOK
  <2>3. DepthBounded' /\ Len(curPath') <= MaxDepth  BY <1>0, <2>1 DEF IInv, DepthBounded
  <2>4. Follows(tree, curPath, branchWidths)'  BY <2>1 DEF Follows
  <2>5. OnPath' /\ InOrder'  BY <2>1 DEF OnPath, InOrder
  <2> QED  BY <2>2, <2>3, <2>4, <2>5 DEF IInv
<1>6. CASE UNCHANGED vars
  BY <1>6 DEF vars, IInv, TypeOK, DepthBounded, Follows, OnPath, InOrder, Before
<1> QED  BY <1>1, <1>2, <1>3, <1>4, <1>5, <1>6 DEF Next, Amb

-----------------------------------------------------------------------------
\* The invariant holds throughout Scheduler.Run.
THEOREM Invariant == Spec => []IInv
<1> QED  BY InitIInv, NextIInv, PTL DEF Spec

\* StrategyDFS keeps one width per choice, and the program is always at one of
\* its own points.
THEOREM TypeCorrect == Spec => []TypeOK
<1>1. IInv => TypeOK  BY DEF IInv
<1> QED  BY <1>1, Invariant, PTL

\* Amb never finds that a replayed choice has another width than recorded.
THEOREM ReplayCorrect == Spec => []ReplayAgrees
<1>1. IInv => ReplayAgrees  BY ReplayFacts DEF ReplayAgrees
<1> QED  BY <1>1, Invariant, PTL

\* Amb cuts every path off at maxDepth.
THEOREM DepthCorrect == Spec => []DepthBounded
<1>1. IInv => DepthBounded  BY DEF IInv
<1> QED  BY <1>1, Invariant, PTL

\* Next moves to a path that comes after all the earlier ones, so that no run
\* is repeated.
THEOREM OrderCorrect == Spec => DepthFirst
<1> DEFINE Ordered == pc = "run1" /\ pc' = "Next" => \A s \in visited : Before(s, path)
<1>1. ASSUME IInv, [Next]_vars PROVE [Ordered]_vars
  <2> SUFFICES ASSUME Next, pc = "run1", pc' = "Next" PROVE \A s \in visited : Before(s, path)
    BY <1>1
  <2>1. AmbTerminates \/ RootReturns
    BY DEF Next, Amb, AmbReplay, AmbExplore, NextPath, OutOfPaths
  <2>2. ~Replaying  BY <1>1, <2>1, ReplayFacts DEF AmbTerminates, RootReturns
  <2>3. path = curPath  BY <1>1, <2>2, WholePath
  <2> QED  BY <1>1, <2>3 DEF IInv, InOrder
<1> QED  BY <1>1, Invariant, PTL DEF Spec, DepthFirst
=============================================================================
