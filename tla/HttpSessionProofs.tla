--------------------------- MODULE HttpSessionProofs ---------------------------
(***************************************************************************)
(* Proofs about one HTTP connection (HttpSession.tla), for any sequence of *)
(* messages of any kinds, any sizes of replies and of the send buffer, and *)
(* any registrations of the dispatcher, in one case or in several.         *)
(***************************************************************************)
EXTENDS HttpSession, FiniteSetTheorems, SequenceTheorems, WellFoundedInduction, TLAPS

-----------------------------------------------------------------------------
(* The order of std::map: a total order of paths.                          *)

\* Sets of numbers have a least element: the sets 0 .. x are finite.
LEMMA Least ==
  ASSUME NEW T \in SUBSET Nat, T # {}
  PROVE  \E x \in T : \A y \in T : x <= y
<1>. DEFINE U == {0 .. x : x \in T}
            R == StrictSubsetOrdering(Nat)
<1>1. U \subseteq FiniteSubsetsOf(Nat) /\ U # {}
  <2>1. ASSUME NEW x \in T PROVE 0 .. x \in FiniteSubsetsOf(Nat)
    <3>1. IsFiniteSet(0 .. x) /\ 0 .. x \subseteq Nat
      BY FS_Interval
    <3>. QED
      BY <3>1 DEF FiniteSubsetsOf
  <2>. QED
    BY <2>1
<1>2. IsWellFoundedOn(R, FiniteSubsetsOf(Nat))
  BY FS_StrictSubsetOrderingWellFounded
<1>3. PICK u \in U : \A v \in U : ~(<<v, u>> \in R)
  <2>. HIDE DEF U, R
  <2>. QED
    BY <1>1, <1>2, WFMin
<1>4. PICK x \in T : u = 0 .. x
  OBVIOUS
<1>5. ASSUME NEW y \in T, y < x PROVE FALSE
  <2>1. 0 .. y \in U /\ 0 .. y \subseteq 0 .. x /\ x \in 0 .. x /\ x \notin 0 .. y
    BY <1>5
  <2>2. <<0 .. y, 0 .. x>> \in R
    BY <2>1 DEF StrictSubsetOrdering
  <2>. QED
    BY <1>3, <1>4, <2>1, <2>2
<1>. QED
  BY <1>5

LEMMA PrefixOf ==
  ASSUME NEW s \in Seq(Nat), NEW t \in Seq(Nat)
  PROVE  IsPrefix(s, t) <=> Len(s) <= Len(t) /\ \A i \in 1 .. Len(s) : s[i] = t[i]
<1>. DEFINE a == SubSeq(s, 1, Len(s))
            b == SubSeq(t, 1, Len(s))
<1>0. Len(s) \in Nat /\ Len(t) \in Nat
  OBVIOUS
<1>1. a = s
  <2>1. a \in Seq(Nat) /\ Len(a) = Len(s) /\ \A i \in 1 .. Len(s) : a[i] = s[i]
    BY <1>0, SubSeqProperties
  <2>. QED
    BY <2>1, SeqEqual
<1>2. CASE Len(s) <= Len(t)
  <2>1. b \in Seq(Nat) /\ Len(b) = Len(s) /\ \A i \in 1 .. Len(s) : b[i] = t[i]
    BY <1>0, <1>2, SubSeqProperties
  <2>2. s = b <=> \A i \in 1 .. Len(s) : s[i] = t[i]
    <3>. HIDE DEF b
    <3>. QED
      BY <2>1, SeqEqual
  <2>3. IsPrefix(s, t) <=> s = b
    BY <1>1, <1>2 DEF IsPrefix
  <2>. QED
    BY <1>2, <2>2, <2>3
<1>. QED
  BY <1>2 DEF IsPrefix

\* Where two paths part.
Parts(s, t, i) ==
  /\ i \in 1 .. Len(s) /\ i \in 1 .. Len(t)
  /\ s[i] < t[i] /\ \A j \in 1 .. i - 1 : s[j] = t[j]

LEMMA Orders ==
  ASSUME NEW s \in Seq(Nat), NEW t \in Seq(Nat)
  PROVE  Before(s, t) <=> \/ Len(s) < Len(t) /\ \A i \in 1 .. Len(s) : s[i] = t[i]
                          \/ \E i : Parts(s, t, i)
<1>1. DOMAIN s = 1 .. Len(s) /\ DOMAIN t = 1 .. Len(t)
  OBVIOUS
<1>2. IsStrictPrefix(s, t) <=> Len(s) < Len(t) /\ \A i \in 1 .. Len(s) : s[i] = t[i]
  <2>1. IsPrefix(s, t) /\ Len(s) = Len(t) => s = t
    BY PrefixOf, SeqEqual
  <2>. QED
    BY <2>1, PrefixOf DEF IsStrictPrefix
<1>. QED
  BY <1>1, <1>2 DEF Before, Parts

LEMMA Total ==
  ASSUME NEW s \in Seq(Nat), NEW t \in Seq(Nat), s # t
  PROVE  Before(s, t) \/ Before(t, s)
<1>. DEFINE D == {i \in 1 .. Len(s) : i <= Len(t) /\ s[i] # t[i]}
<1>1. CASE D = {}
  <2>1. \A i \in 1 .. Len(s) : i <= Len(t) => s[i] = t[i]
    BY <1>1
  <2>2. Len(s) # Len(t)
    BY <2>1, SeqEqual
  <2>3. Len(s) < Len(t) \/ Len(t) < Len(s)
    BY <2>2
  <2>4. CASE Len(s) < Len(t)
    BY <2>1, <2>4, Orders
  <2>5. CASE Len(t) < Len(s)
    BY <2>1, <2>5, Orders
  <2>. QED
    BY <2>3, <2>4, <2>5
<1>2. CASE D # {}
  <2>0. D \subseteq Nat
    OBVIOUS
  <2>1. PICK i \in D : \A j \in D : i <= j
    <3>. HIDE DEF D
    <3>. QED
      BY <1>2, <2>0, Least
  <2>2. i \in 1 .. Len(s) /\ i \in 1 .. Len(t) /\ \A j \in 1 .. i - 1 : s[j] = t[j] /\ t[j] = s[j]
    <3>1. i \in 1 .. Len(s) /\ i \in 1 .. Len(t)
      BY <2>1
    <3>2. ASSUME NEW j \in 1 .. i - 1 PROVE s[j] = t[j]
      <4>1. j \in 1 .. Len(s) /\ j <= Len(t) /\ ~(i <= j)
        BY <3>1
      <4>. QED
        BY <2>1, <4>1
    <3>. QED
      BY <3>1, <3>2
  <2>3. s[i] \in Nat /\ t[i] \in Nat /\ s[i] # t[i]
    BY <2>1, <2>2
  <2>4. CASE s[i] < t[i]
    <3>1. Parts(s, t, i)
      BY <2>2, <2>4 DEF Parts
    <3>. QED
      BY <3>1, Orders
  <2>5. CASE t[i] < s[i]
    <3>1. Parts(t, s, i)
      BY <2>2, <2>5 DEF Parts
    <3>. QED
      BY <3>1, Orders
  <2>6. s[i] < t[i] \/ t[i] < s[i]
    BY <2>3
  <2>. QED
    BY <2>4, <2>5, <2>6
<1>. QED
  BY <1>1, <1>2

LEMMA Transitive ==
  ASSUME NEW s \in Seq(Nat), NEW t \in Seq(Nat), NEW u \in Seq(Nat), Before(s, t), Before(t, u)
  PROVE  Before(s, u)
<1>1. CASE Len(s) < Len(t) /\ \A i \in 1 .. Len(s) : s[i] = t[i]
  <2>1. CASE Len(t) < Len(u) /\ \A i \in 1 .. Len(t) : t[i] = u[i]
    <3>1. Len(s) < Len(u) /\ \A i \in 1 .. Len(s) : s[i] = u[i]
      BY <1>1, <2>1
    <3>. QED
      BY <3>1, Orders
  <2>2. ASSUME NEW i, Parts(t, u, i) PROVE Before(s, u)
    <3>1. CASE i <= Len(s)
      <4>1. /\ i \in 1 .. Len(t) /\ i \in 1 .. Len(u) /\ t[i] < u[i]
            /\ \A j \in 1 .. i - 1 : t[j] = u[j]
        BY <2>2 DEF Parts
      <4>2. i \in 1 .. Len(s) /\ \A j \in 1 .. i - 1 : j \in 1 .. Len(s)
        BY <3>1, <4>1
      <4>3. s[i] = t[i] /\ \A j \in 1 .. i - 1 : s[j] = t[j]
        BY <1>1, <4>2
      <4>4. Parts(s, u, i)
        BY <4>1, <4>2, <4>3 DEF Parts
      <4>. QED
        BY <4>4, Orders
    <3>2. CASE ~(i <= Len(s))
      <4>1. Len(s) < Len(u) /\ \A j \in 1 .. Len(s) : s[j] = u[j]
        BY <1>1, <2>2, <3>2 DEF Parts
      <4>. QED
        BY <4>1, Orders
    <3>. QED
      BY <3>1, <3>2
  <2>. QED
    BY <2>1, <2>2, Orders
<1>2. ASSUME NEW i, Parts(s, t, i) PROVE Before(s, u)
  <2>1. CASE Len(t) < Len(u) /\ \A j \in 1 .. Len(t) : t[j] = u[j]
    <3>1. Parts(s, u, i)
      <4>1. /\ i \in 1 .. Len(s) /\ i \in 1 .. Len(t) /\ s[i] < t[i]
            /\ \A j \in 1 .. i - 1 : s[j] = t[j]
        BY <1>2 DEF Parts
      <4>2. Len(t) \in Nat /\ Len(u) \in Nat /\ Len(t) < Len(u)
        BY <2>1
      <4>3. i \in 1 .. Len(u) /\ \A j \in 1 .. i - 1 : j \in 1 .. Len(t)
        <5>1. i \in Nat /\ i >= 1 /\ i <= Len(t)
          BY <4>1, <4>2
        <5>2. i \in 1 .. Len(u)
          BY <4>2, <5>1
        <5>3. \A j \in 1 .. i - 1 : j \in 1 .. Len(t)
          BY <4>2, <5>1
        <5>. QED
          BY <5>2, <5>3
      <4>4. \A j \in 1 .. Len(t) : t[j] = u[j]
        BY <2>1
      <4>5. t[i] = u[i]
        BY <4>1, <4>4
      <4>6. \A j \in 1 .. i - 1 : t[j] = u[j]
        BY <4>3, <4>4
      <4>7. s[i] < u[i] /\ \A j \in 1 .. i - 1 : s[j] = u[j]
        BY <4>1, <4>5, <4>6
      <4>. QED
        BY <4>1, <4>3, <4>7 DEF Parts
    <3>. QED
      BY <3>1, Orders
  <2>2. ASSUME NEW j, Parts(t, u, j) PROVE Before(s, u)
    <3>0. i \in Nat /\ j \in Nat
      BY <1>2, <2>2 DEF Parts
    <3>. DEFINE k == IF i <= j THEN i ELSE j
    <3>1. /\ k \in 1 .. Len(s) /\ k \in 1 .. Len(u) /\ k \in 1 .. Len(t)
          /\ s[k] \in Nat /\ t[k] \in Nat /\ u[k] \in Nat
      <4>1. i \in 1 .. Len(s) /\ i \in 1 .. Len(t) /\ j \in 1 .. Len(t) /\ j \in 1 .. Len(u)
        BY <1>2, <2>2 DEF Parts
      <4>2. k \in 1 .. Len(s) /\ k \in 1 .. Len(u) /\ k \in 1 .. Len(t)
        <5>1. CASE i <= j
          <6>1. k = i /\ i \in 1 .. Len(u)
            BY <3>0, <4>1, <5>1
          <6>. QED
            BY <4>1, <6>1
        <5>2. CASE ~(i <= j)
          <6>1. k = j /\ j \in 1 .. Len(s)
            BY <3>0, <4>1, <5>2
          <6>. QED
            BY <4>1, <6>1
        <5>. QED
          BY <5>1, <5>2
      <4>. HIDE DEF k
      <4>3. s[k] \in Nat
        BY <4>2
      <4>4. t[k] \in Nat
        BY <4>2
      <4>5. u[k] \in Nat
        BY <4>2
      <4>. QED
        BY <4>2, <4>3, <4>4, <4>5
    <3>2. s[k] < u[k]
      <4>1. i < j \/ i = j \/ j < i
        BY <3>0
      <4>2. i < j => t[i] = u[i]
        BY <2>2, <3>0, <1>2 DEF Parts
      <4>3. j < i => s[j] = t[j]
        BY <1>2, <3>0, <2>2 DEF Parts
      <4>4. s[i] < t[i] /\ t[j] < u[j]
        BY <1>2, <2>2 DEF Parts
      <4>5. CASE i < j
        <5>1. k = i /\ t[i] = u[i] /\ s[i] < t[i]
          BY <3>0, <4>2, <4>4, <4>5
        <5>. QED
          BY <5>1
      <4>6. CASE j < i
        <5>1. k = j /\ s[j] = t[j] /\ t[j] < u[j]
          BY <3>0, <4>3, <4>4, <4>6
        <5>. QED
          BY <5>1
      <4>7. CASE i = j
        <5>1. k = i /\ s[i] < t[i] /\ t[i] < u[i]
          BY <4>4, <4>7
        <5>2. s[i] \in Nat /\ t[i] \in Nat /\ u[i] \in Nat
          BY <3>1, <5>1
        <5>3. s[i] < u[i]
          <6>. SUFFICES ASSUME NEW a \in Nat, NEW b \in Nat, NEW c \in Nat, a < b, b < c
                        PROVE  a < c
            BY <5>1, <5>2
          <6>. QED
            OBVIOUS
        <5>. QED
          BY <5>1, <5>3
      <4>. QED
        BY <4>1, <4>5, <4>6, <4>7
    <3>3. ASSUME NEW l \in 1 .. k - 1 PROVE s[l] = u[l]
      <4>1. l \in 1 .. i - 1 /\ l \in 1 .. j - 1
        BY <3>0
      <4>2. s[l] = t[l]
        BY <1>2, <4>1 DEF Parts
      <4>3. t[l] = u[l]
        BY <2>2, <4>1 DEF Parts
      <4>. QED
        BY <4>2, <4>3
    <3>4. Parts(s, u, k)
      BY <3>1, <3>2, <3>3 DEF Parts
    <3>. QED
      BY <3>4, Orders
  <2>. QED
    BY <2>1, <2>2, Orders
<1>. QED
  BY <1>1, <1>2, Orders

\* A path above another comes first, and is not behind it.
LEMMA Above ==
  ASSUME NEW s \in Seq(Nat), NEW t \in Seq(Nat), IsPrefix(s, t), Before(t, s)
  PROVE  FALSE
<1>1. Len(s) <= Len(t) /\ \A i \in 1 .. Len(s) : s[i] = t[i]
  BY PrefixOf
<1>2. \E i : Parts(t, s, i)
  BY <1>1, Orders
<1>. QED
  BY <1>1, <1>2 DEF Parts

\* Any of the paths of a set has one that comes before all others.
Ordered(T) == \A H \in SUBSET T : H # {} => \E s \in H : \A t \in H \ {s} : Before(s, t)

LEMMA OrderedMore ==
  ASSUME NEW T \in SUBSET Seq(Nat), NEW s \in Seq(Nat), Ordered(T)
  PROVE  Ordered(T \cup {s})
<1>. SUFFICES ASSUME NEW H \in SUBSET (T \cup {s}), H # {}
              PROVE  \E m \in H : \A t \in H \ {m} : Before(m, t)
  BY DEF Ordered
<1>1. CASE H \ {s} = {}
  BY <1>1
<1>2. CASE H \ {s} # {}
  <2>1. PICK m \in H \ {s} : \A t \in (H \ {s}) \ {m} : Before(m, t)
    <3>. DEFINE G == H \ {s}
    <3>1. G \in SUBSET T /\ G # {}
      BY <1>2
    <3>. HIDE DEF G
    <3>2. \E m \in G : \A t \in G \ {m} : Before(m, t)
      BY <3>1 DEF Ordered
    <3>. QED
      BY <3>2 DEF G
  <2>2. m \in Seq(Nat) /\ m # s
    OBVIOUS
  <2>3. CASE Before(m, s)
    BY <2>1, <2>3
  <2>4. CASE Before(s, m) /\ s \in H
    <3>1. \A t \in H \ {s} : Before(s, t)
      BY <2>1, <2>2, <2>4, Transitive
    <3>. QED
      BY <2>4, <3>1
  <2>5. CASE s \notin H
    BY <2>1, <2>5
  <2>. QED
    BY <2>2, <2>3, <2>4, <2>5, Total
<1>. QED
  BY <1>1, <1>2

-----------------------------------------------------------------------------
(* The tables.                                                             *)

Calls == Seq([str : Seq(Nat), fuzzy : BOOLEAN])

\* What the first n calls of regist() have left in a table: for each path the
\* last processor, in the fuzzy table the first.
Filled(calls, n, t) ==
  /\ n \in 0 .. Len(calls)
  /\ DOMAIN t.processors = {calls[i].str : i \in 1 .. n}
  /\ \A i \in 1 .. n : /\ t.processors[calls[i].str] \in i .. n
                       /\ calls[t.processors[calls[i].str]].str = calls[i].str
  /\ DOMAIN t.fuzzy = {calls[i].str : i \in {j \in 1 .. n : calls[j].fuzzy}}
  /\ \A i \in 1 .. n : calls[i].fuzzy =>
       /\ t.fuzzy[calls[i].str] \in 1 .. i
       /\ calls[t.fuzzy[calls[i].str]].str = calls[i].str /\ calls[t.fuzzy[calls[i].str]].fuzzy
  /\ Ordered(DOMAIN t.fuzzy)

LEMMA FilledNone ==
  ASSUME NEW calls \in Calls
  PROVE  Filled(calls, 0, EmptyTable)
<1>1. DOMAIN EmptyTable.processors = {} /\ DOMAIN EmptyTable.fuzzy = {} /\ 1 .. 0 = {}
  BY DEF EmptyTable
<1>. QED
  BY <1>1 DEF Filled, Ordered, Calls

LEMMA FilledMore ==
  ASSUME NEW calls \in Calls, NEW n \in Nat, n < Len(calls), NEW t, Filled(calls, n, t)
  PROVE  Filled(calls, n + 1, regist(t, calls[n + 1], n + 1))
<1>. DEFINE k == n + 1
            r == calls[k]
            p == t.processors
            f == t.fuzzy
            u == regist(t, r, k)
<1>. SUFFICES Filled(calls, k, u)
  OBVIOUS
<1>1. k \in 1 .. Len(calls) /\ Len(calls) \in Nat /\ \A i \in 1 .. k : i \in 1 .. n \/ i = k
  BY DEF Calls
<1>2. r.str \in Seq(Nat) /\ r.fuzzy \in BOOLEAN
  <2>1. r \in [str : Seq(Nat), fuzzy : BOOLEAN]
    BY <1>1, ElementOfSeq DEF Calls
  <2>. QED
    BY <2>1
<1>3. u.processors = Put(p, r.str, k) /\ u.fuzzy = IF r.fuzzy THEN fuzzyRegist(f, r.str, k) ELSE f
  BY DEF regist
<1>4. /\ DOMAIN p = {calls[i].str : i \in 1 .. n}
      /\ \A i \in 1 .. n : p[calls[i].str] \in i .. n /\ calls[p[calls[i].str]].str = calls[i].str
      /\ DOMAIN f = {calls[i].str : i \in {j \in 1 .. n : calls[j].fuzzy}}
      /\ \A i \in 1 .. n : calls[i].fuzzy =>
           f[calls[i].str] \in 1 .. i /\ calls[f[calls[i].str]].str = calls[i].str
             /\ calls[f[calls[i].str]].fuzzy
      /\ Ordered(DOMAIN f)
  BY DEF Filled
<1>. HIDE DEF u, p, f
<1>11. /\ DOMAIN u.processors = DOMAIN p \cup {r.str} /\ u.processors[r.str] = k
       /\ \A s \in DOMAIN p \ {r.str} : u.processors[s] = p[s]
  <2>. DEFINE q == Put(p, r.str, k)
  <2>1. DOMAIN q = DOMAIN p \cup {r.str} /\ q[r.str] = k /\ \A s \in DOMAIN p \ {r.str} : q[s] = p[s]
    BY DEF Put
  <2>. HIDE DEF q
  <2>2. u.processors = q
    BY <1>3 DEF q
  <2>. QED
    BY <2>1, <2>2
<1>5. DOMAIN u.processors = {calls[i].str : i \in 1 .. k}
  <2>0. 1 .. k = 1 .. n \cup {k}
    BY <1>1
  <2>1. {calls[i].str : i \in 1 .. k} = {calls[i].str : i \in 1 .. n} \cup {r.str}
    <3>. HIDE DEF k
    <3>. QED
      BY <2>0 DEF r
  <2>. QED
    BY <1>4, <1>11, <2>1
<1>6. ASSUME NEW i \in 1 .. k
      PROVE  u.processors[calls[i].str] \in i .. k /\ calls[u.processors[calls[i].str]].str = calls[i].str
  <2>1. CASE calls[i].str = r.str
    <3>1. u.processors[calls[i].str] = k
      BY <1>11, <2>1
    <3>. QED
      BY <1>1, <2>1, <3>1
  <2>2. CASE calls[i].str # r.str
    <3>0. i \in 1 .. n
      BY <1>1, <2>2
    <3>1. i \in 1 .. n /\ calls[i].str \in DOMAIN p \ {r.str}
      <4>. HIDE DEF r, k
      <4>. QED
        BY <1>4, <2>2, <3>0
    <3>2. u.processors[calls[i].str] = p[calls[i].str]
      BY <1>11, <3>1
    <3>3. p[calls[i].str] \in i .. n /\ calls[p[calls[i].str]].str = calls[i].str
      BY <1>4, <3>1
    <3>. QED
      BY <3>2, <3>3
  <2>. QED
    BY <2>1, <2>2
<1>7. CASE ~r.fuzzy
  <2>1. u.fuzzy = f /\ \A i \in 1 .. k : calls[i].fuzzy => i \in 1 .. n
    BY <1>1, <1>3, <1>7
  <2>2. {j \in 1 .. k : calls[j].fuzzy} = {j \in 1 .. n : calls[j].fuzzy}
    BY <1>1, <2>1
  <2>3. DOMAIN u.fuzzy = {calls[i].str : i \in {j \in 1 .. k : calls[j].fuzzy}}
    BY <1>4, <2>1, <2>2
  <2>4. ASSUME NEW i \in 1 .. k, calls[i].fuzzy
        PROVE  u.fuzzy[calls[i].str] \in 1 .. i /\ calls[u.fuzzy[calls[i].str]].str = calls[i].str
                 /\ calls[u.fuzzy[calls[i].str]].fuzzy
    <3>1. u.fuzzy = f /\ i \in 1 .. n
      BY <2>1, <2>4
    <3>. HIDE DEF k, r
    <3>. QED
      BY <1>4, <2>4, <3>1
  <2>5. k \in 0 .. Len(calls) /\ Ordered(DOMAIN u.fuzzy)
    <3>1. k \in 0 .. Len(calls)
      BY <1>1
    <3>. QED
      BY <1>4, <2>1, <3>1
  <2>. HIDE DEF k, r
  <2>. QED
    BY <1>5, <1>6, <2>3, <2>4, <2>5 DEF Filled
<1>8. CASE r.fuzzy /\ r.str \in DOMAIN f
  <2>1. u.fuzzy = f
    BY <1>3, <1>8 DEF fuzzyRegist
  <2>2. PICK h \in 1 .. n : calls[h].fuzzy /\ calls[h].str = r.str
    BY <1>4, <1>8
  <2>3. DOMAIN f = {calls[i].str : i \in {j \in 1 .. k : calls[j].fuzzy}}
    <3>1. {j \in 1 .. k : calls[j].fuzzy} = {j \in 1 .. n : calls[j].fuzzy} \cup {k}
      BY <1>1, <1>8
    <3>2. {calls[i].str : i \in {j \in 1 .. k : calls[j].fuzzy}} = DOMAIN f \cup {r.str}
      <4>. DEFINE A == {j \in 1 .. n : calls[j].fuzzy}
                  B == {j \in 1 .. k : calls[j].fuzzy}
      <4>1. B = A \cup {k} /\ DOMAIN f = {calls[i].str : i \in A} /\ calls[k].str = r.str
        BY <1>4, <3>1
      <4>. HIDE DEF A, B, k, r
      <4>2. {calls[i].str : i \in B} = DOMAIN f \cup {r.str}
        BY <4>1
      <4>. QED
        BY <4>2 DEF B
    <3>. QED
      BY <1>8, <3>2
  <2>4. ASSUME NEW i \in 1 .. k, calls[i].fuzzy
        PROVE  f[calls[i].str] \in 1 .. i /\ calls[f[calls[i].str]].str = calls[i].str
                 /\ calls[f[calls[i].str]].fuzzy
    <3>1. CASE i \in 1 .. n
      <4>. HIDE DEF k, r
      <4>. QED
        BY <1>4, <2>4, <3>1
    <3>2. CASE i = k
      <4>0. h \in 1 .. n /\ 1 .. h \subseteq 1 .. k /\ calls[i].str = calls[h].str
        BY <2>2, <3>2
      <4>. HIDE DEF k, r
      <4>1. /\ f[calls[h].str] \in 1 .. h /\ calls[f[calls[h].str]].str = calls[h].str
            /\ calls[f[calls[h].str]].fuzzy
        BY <1>4, <2>2
      <4>. QED
        BY <3>2, <4>0, <4>1
    <3>. QED
      BY <1>1, <3>1, <3>2
  <2>5. ASSUME NEW i \in 1 .. k, calls[i].fuzzy
        PROVE  u.fuzzy[calls[i].str] \in 1 .. i /\ calls[u.fuzzy[calls[i].str]].str = calls[i].str
                 /\ calls[u.fuzzy[calls[i].str]].fuzzy
    BY <2>1, <2>4, <2>5
  <2>6. Ordered(DOMAIN u.fuzzy) /\ DOMAIN u.fuzzy = {calls[i].str : i \in {j \in 1 .. k : calls[j].fuzzy}}
    BY <1>4, <2>1, <2>3
  <2>7. k \in 0 .. Len(calls)
    BY <1>1
  <2>. HIDE DEF k, r
  <2>. QED
    BY <1>5, <1>6, <2>5, <2>6, <2>7 DEF Filled
<1>9. CASE r.fuzzy /\ r.str \notin DOMAIN f
  <2>1. u.fuzzy = Put(f, r.str, k)
    BY <1>3, <1>9 DEF fuzzyRegist
  <2>2. DOMAIN u.fuzzy = DOMAIN f \cup {r.str} /\ u.fuzzy[r.str] = k
        /\ \A s \in DOMAIN f \ {r.str} : u.fuzzy[s] = f[s]
    <3>. DEFINE q == Put(f, r.str, k)
    <3>1. DOMAIN q = DOMAIN f \cup {r.str} /\ q[r.str] = k /\ \A s \in DOMAIN f \ {r.str} : q[s] = f[s]
      BY DEF Put
    <3>. HIDE DEF q
    <3>2. u.fuzzy = q
      BY <2>1 DEF q
    <3>. QED
      BY <3>1, <3>2
  <2>3. DOMAIN u.fuzzy = {calls[i].str : i \in {j \in 1 .. k : calls[j].fuzzy}}
    <3>1. {j \in 1 .. k : calls[j].fuzzy} = {j \in 1 .. n : calls[j].fuzzy} \cup {k}
      BY <1>1, <1>9
    <3>2. {calls[i].str : i \in {j \in 1 .. k : calls[j].fuzzy}} = DOMAIN f \cup {r.str}
      <4>. DEFINE A == {j \in 1 .. n : calls[j].fuzzy}
                  B == {j \in 1 .. k : calls[j].fuzzy}
      <4>1. B = A \cup {k} /\ DOMAIN f = {calls[i].str : i \in A} /\ calls[k].str = r.str
        BY <1>4, <3>1
      <4>. HIDE DEF A, B, k, r
      <4>2. {calls[i].str : i \in B} = DOMAIN f \cup {r.str}
        BY <4>1
      <4>. QED
        BY <4>2 DEF B
    <3>. QED
      BY <2>2, <3>2
  <2>4. ASSUME NEW i \in 1 .. k, calls[i].fuzzy
        PROVE  u.fuzzy[calls[i].str] \in 1 .. i /\ calls[u.fuzzy[calls[i].str]].str = calls[i].str
                 /\ calls[u.fuzzy[calls[i].str]].fuzzy
    <3>1. CASE i \in 1 .. n
      <4>1. calls[i].str \in DOMAIN f \ {r.str}
        BY <1>4, <1>9, <2>4, <3>1
      <4>. QED
        BY <1>4, <2>2, <2>4, <3>1, <4>1
    <3>2. CASE i = k
      BY <1>1, <2>2, <2>4, <3>2
    <3>. QED
      BY <1>1, <3>1, <3>2
  <2>5. Ordered(DOMAIN u.fuzzy)
    <3>1. ASSUME NEW i \in 1 .. n PROVE calls[i].str \in Seq(Nat)
      <4>1. i \in 1 .. Len(calls)
        BY <1>1
      <4>2. calls[i] \in [str : Seq(Nat), fuzzy : BOOLEAN]
        BY <4>1, ElementOfSeq DEF Calls
      <4>. QED
        BY <4>2
    <3>2. DOMAIN f \in SUBSET Seq(Nat)
      BY <1>4, <3>1
    <3>. QED
      BY <1>2, <1>4, <2>2, <3>2, OrderedMore
  <2>6. k \in 0 .. Len(calls)
    BY <1>1
  <2>. HIDE DEF k, r
  <2>. QED
    BY <1>5, <1>6, <2>3, <2>4, <2>5, <2>6 DEF Filled
<1>. QED
  BY <1>2, <1>7, <1>8, <1>9

\* The tables give what the caller of regist() can rely on.
LEMMA DispatchExpected ==
  ASSUME NEW calls \in Calls, NEW t, Filled(calls, Len(calls), t), NEW path
  PROVE  dispatch(t, path) \in Expected(calls, path)
<1>. DEFINE n == Len(calls)
            p == t.processors
            f == t.fuzzy
            exact == {i \in DOMAIN calls : calls[i].str = path}
            above == {i \in DOMAIN calls : calls[i].fuzzy /\ Matches(calls[i].str, path)}
            first == {i \in above : \A j \in above : IsPrefix(calls[j].str, calls[i].str)
                                                     => calls[j].str = calls[i].str /\ i <= j}
            hits  == {str \in DOMAIN f : Matches(str, path)}
            least == CHOOSE s \in hits : \A u \in hits \ {s} : Before(s, u)
<1>0. DOMAIN calls = 1 .. n /\ n \in Nat
  BY DEF Calls
<1>1. /\ DOMAIN p = {calls[i].str : i \in 1 .. n}
      /\ \A i \in 1 .. n : p[calls[i].str] \in i .. n /\ calls[p[calls[i].str]].str = calls[i].str
      /\ DOMAIN f = {calls[i].str : i \in {j \in 1 .. n : calls[j].fuzzy}}
      /\ \A i \in 1 .. n : calls[i].fuzzy =>
           f[calls[i].str] \in 1 .. i /\ calls[f[calls[i].str]].str = calls[i].str
             /\ calls[f[calls[i].str]].fuzzy
      /\ Ordered(DOMAIN f)
  BY DEF Filled
<1>2. dispatch(t, path) = IF path \in DOMAIN p THEN p[path]
                          ELSE IF hits = {} THEN NotFound ELSE f[least]
  BY DEF dispatch
<1>3. Expected(calls, path) = IF exact # {} THEN {Max(exact)}
                              ELSE IF above # {} THEN first ELSE {NotFound}
  BY DEF Expected
<1>4. path \in DOMAIN p <=> exact # {}
  BY <1>0, <1>1
<1>5. hits = {} <=> above = {}
  BY <1>0, <1>1
<1>6. CASE exact # {}
  <2>1. PICK i \in 1 .. n : calls[i].str = path
    BY <1>0, <1>6
  <2>2. p[path] \in exact /\ \A j \in exact : p[path] >= j
    <3>1. \A j \in exact : p[path] \in j .. n /\ calls[p[path]].str = path
      BY <1>0, <1>1
    <3>. QED
      BY <1>0, <2>1, <3>1
  <2>3. \A x, y \in exact : x >= y /\ y >= x => x = y
    BY <1>0
  <2>4. Max(exact) = p[path]
    <3>. HIDE DEF exact
    <3>. QED
      BY <2>2, <2>3 DEF Max
  <2>. QED
    BY <1>2, <1>3, <1>4, <1>6, <2>4
<1>7. CASE exact = {} /\ above # {}
  <2>1. least \in hits /\ \A u \in hits \ {least} : Before(least, u)
    <3>1. hits \in SUBSET DOMAIN f /\ hits # {}
      BY <1>5, <1>7
    <3>. HIDE DEF hits
    <3>. QED
      BY <1>1, <3>1 DEF Ordered
  <2>2. PICK i \in 1 .. n : calls[i].fuzzy /\ calls[i].str = least
    BY <1>1, <2>1
  <2>3. /\ f[least] \in 1 .. n /\ calls[f[least]].str = least /\ calls[f[least]].fuzzy
        /\ \A j \in 1 .. n : calls[j].fuzzy /\ calls[j].str = least => f[least] <= j
    <3>1. f[least] \in 1 .. i /\ calls[f[least]].str = least /\ calls[f[least]].fuzzy
      BY <1>1, <2>2
    <3>2. ASSUME NEW j \in 1 .. n, calls[j].fuzzy, calls[j].str = least PROVE f[least] <= j
      <4>1. f[calls[j].str] \in 1 .. j
        BY <1>1, <3>2
      <4>2. f[least] \in 1 .. j
        BY <3>2, <4>1
      <4>. QED
        BY <4>2
    <3>. HIDE DEF least, f
    <3>3. f[least] \in 1 .. n
      BY <1>0, <2>2, <3>1
    <3>. QED
      BY <3>1, <3>2, <3>3
  <2>4. f[least] \in above
    BY <1>0, <2>1, <2>3
  <2>5. ASSUME NEW j \in above, IsPrefix(calls[j].str, least)
        PROVE  calls[j].str = least /\ f[least] <= j
    <3>1. calls[j].str \in hits /\ j \in 1 .. n /\ calls[j].fuzzy
      BY <1>0, <1>1
    <3>2. calls[j] \in [str : Seq(Nat), fuzzy : BOOLEAN] /\ calls[i] \in [str : Seq(Nat), fuzzy : BOOLEAN]
      BY <2>2, <3>1, ElementOfSeq DEF Calls
    <3>3. calls[j].str \in Seq(Nat) /\ least \in Seq(Nat)
      BY <2>2, <3>2
    <3>4. calls[j].str = least
      <4>. SUFFICES ASSUME calls[j].str # least PROVE FALSE
        OBVIOUS
      <4>1. Before(least, calls[j].str)
        BY <2>1, <3>1
      <4>. HIDE DEF least
      <4>. QED
        BY <2>5, <3>3, <4>1, Above
    <3>. QED
      BY <2>3, <3>1, <3>4
  <2>6. f[least] \in first
    BY <2>3, <2>4, <2>5
  <2>. QED
    BY <1>2, <1>3, <1>4, <1>5, <1>7, <2>6
<1>8. CASE exact = {} /\ above = {}
  BY <1>2, <1>3, <1>4, <1>5, <1>8
<1>. QED
  BY <1>6, <1>7, <1>8

-----------------------------------------------------------------------------
(* The connection.                                                         *)

\* The handlers of the loop's thread and the units of the stream they hold.
Control ==
  /\ at \in {"setup", "poll", "in", "messages", "out", "undefined"}
  /\ at = "setup" => state = "None" /\ got = 0 /\ used = 0 /\ answers = <<>>
  /\ at = "in" => state = "Connected"
  /\ at = "messages" => state # "Freed"
  /\ at = "undefined" => state = "Freed"
  /\ removes \in BOOLEAN

Buffered ==
  /\ stream \in Seq(Messages) /\ arrived \in Nat /\ got \in Nat /\ used \in Nat /\ wbuf \in Nat
  /\ 2 * used <= got /\ got <= arrived /\ arrived <= 2 * Len(stream)

Incomplete == Unread <= 1 \/ HeadOf.is \in {"short", "long"}

\* No complete message is left behind from the end of the loop over messages to
\* the next read.
Stranded == at \in {"poll", "in", "out"} /\ state = "Connected" => Incomplete

Asks(i) == \E j \in 1 .. i : ~stream[j].keep

\* The write callback is set by a request that was taken out of the buffer.
Removal == removes => Asks(used)

Reply(R) == [to : Nat, reply : R]

Answering ==
  /\ \E R : answers \in Seq(Reply(R))
  /\ AnsweredInOrder
  /\ \A k \in 1 .. Len(answers) : Refused(k) => at \notin {"in", "messages"}

\* The processors are all registered before the server runs.
Tabled ==
  /\ regs \in Calls /\ Filled(regs, registered, table)
  /\ at # "setup" => registered = Len(regs)

Inv == Tabled /\ Control /\ Buffered /\ Stranded /\ Removal /\ OnlyStaleCallbackFrees /\ Answering

-----------------------------------------------------------------------------
(* What the parsers say of the head.                                       *)

LEMMA Heads ==
  ASSUME Buffered
  PROVE  /\ Unread \in Nat
         /\ Unread > 0 => used + 1 \in 1 .. Len(stream) /\ HeadOf \in Messages
         /\ Unread > 0 => HeadOf.keep \in BOOLEAN
<1>1. Unread \in Nat
  BY DEF Buffered, Unread
<1>2. ASSUME Unread > 0 PROVE used + 1 \in 1 .. Len(stream)
  <2>1. Len(stream) \in Nat
    BY DEF Buffered
  <2>. QED
    BY <1>2, <2>1 DEF Buffered, Unread
<1>3. ASSUME Unread > 0 PROVE HeadOf \in Messages
  BY <1>2, <1>3, ElementOfSeq DEF Buffered, HeadOf
<1>4. \A msg \in Messages : msg.keep \in BOOLEAN
  BY DEF Messages
<1>. QED
  BY <1>1, <1>2, <1>3, <1>4

LEMMA Classes ==
  ASSUME NEW kind
  PROVE  /\ Classify(kind) = "method" => kind \in {"request", "odd", "bad"}
         /\ Classify(kind) = "version" => kind \in {"response", "badResponse"}
         /\ Classify(kind) \in {"method", "version", "unknown"}
BY DEF Classify

LEMMA Words ==
  ASSUME Buffered
  PROVE  /\ Word = "none" => Incomplete
         /\ Word = "method" => Unread > 0 /\ HeadOf.is \in {"request", "odd", "bad"}
         /\ Word = "version" => Unread > 0 /\ HeadOf.is \in {"response", "badResponse"}
<1>1. Unread \in Nat
  BY Heads
<1>2. CASE Unread = 0
  BY <1>2 DEF Word, Incomplete
<1>3. CASE Unread > 0 /\ (HeadOf.is = "long" \/ (HeadOf.is = "short" /\ Unread <= 2))
  BY <1>1, <1>3 DEF Word, Incomplete
<1>4. CASE Unread > 0 /\ ~(HeadOf.is = "long" \/ (HeadOf.is = "short" /\ Unread <= 2))
  <2>1. Word = Classify(HeadOf.is)
    BY <1>1, <1>4 DEF Word
  <2>. QED
    BY <1>4, <2>1, Classes
<1>. QED
  BY <1>1, <1>2, <1>3, <1>4

LEMMA Nexts ==
  ASSUME Buffered
  PROVE  /\ NextIs("request") => Unread >= 2 /\ HeadOf.is \in {"request", "odd"}
         /\ NextIs("bad request") => Unread >= 2 /\ HeadOf.is = "bad"
         /\ NextIs("response") => Unread >= 2 /\ HeadOf.is = "response"
         /\ NextIs("bad response") => Unread >= 2 /\ HeadOf.is = "badResponse"
         /\ NextIs("unknown") => Word = "unknown"
         /\ NextIs("none") \/ NextIs("part") => Incomplete
<1>1. Unread \in Nat
  BY Heads
<1>2. NextIs("request") => Unread >= 2 /\ HeadOf.is \in {"request", "odd"}
  BY Words DEF NextIs, RequestParser
<1>3. NextIs("bad request") => Unread >= 2 /\ HeadOf.is = "bad"
  BY Words DEF NextIs, RequestParser
<1>4. NextIs("response") => Unread >= 2 /\ HeadOf.is = "response"
  BY Words DEF NextIs, ResponseParser
<1>5. NextIs("bad response") => Unread >= 2 /\ HeadOf.is = "badResponse"
  BY Words DEF NextIs, ResponseParser
<1>6. NextIs("unknown") => Word = "unknown"
  BY DEF NextIs
<1>7. NextIs("none") => Incomplete
  BY Words DEF NextIs
<1>8. NextIs("part") => Incomplete
  <2>. SUFFICES ASSUME NextIs("part"), Unread >= 2 PROVE FALSE
    BY <1>1 DEF Incomplete
  <2>1. Word = "method" \/ Word = "version"
    BY DEF NextIs
  <2>2. CASE Word = "method"
    <3>1. ~RequestParser.isFinished /\ ~RequestParser.hasError
      BY <2>2 DEF NextIs
    <3>2. HeadOf.is \in {"request", "odd", "bad"}
      BY <2>2, Words
    <3>. QED
      BY <3>1, <3>2 DEF RequestParser
  <2>3. CASE Word = "version"
    <3>1. ~ResponseParser.isFinished /\ ~ResponseParser.hasError
      BY <2>3 DEF NextIs
    <3>2. HeadOf.is \in {"response", "badResponse"}
      BY <2>3, Words
    <3>. QED
      BY <3>1, <3>2 DEF ResponseParser
  <2>. QED
    BY <2>1, <2>2, <2>3
<1>. QED
  BY <1>2, <1>3, <1>4, <1>5, <1>6, <1>7, <1>8

-----------------------------------------------------------------------------
(* The answers, whatever else a step does.                                 *)

LEMMA AnswerTypes ==
  ASSUME \E R : answers \in Seq(Reply(R))
  PROVE  Len(answers) \in Nat /\ \A k \in 1 .. Len(answers) : answers[k].to \in Nat
<1>1. PICK R : answers \in Seq(Reply(R))
  OBVIOUS
<1>2. \A k \in 1 .. Len(answers) : answers[k] \in Reply(R)
  BY <1>1, ElementOfSeq
<1>3. \A a \in Reply(R) : a.to \in Nat
  BY DEF Reply
<1>. QED
  BY <1>1, <1>2, <1>3

\* Nothing is taken and nothing is answered, and a connection stays closed.
LEMMA NoAnswer ==
  ASSUME Buffered, Answering, UNCHANGED <<regs, used, answers>>,
         \A i \in 1 .. Len(stream) : stream'[i] = stream[i],
         Len(stream') \in Nat /\ Len(stream) <= Len(stream'),
         \A k \in 1 .. Len(answers) : Refused(k) => state' # "Connected" /\ at' \notin {"in", "messages"}
  PROVE  Answering'
<1>1. Len(stream) \in Nat /\ used \in Nat /\ used <= Len(stream)
  BY DEF Buffered
<1>2. \A i \in 1 .. used : stream'[i] = stream[i]
  BY <1>1
<1>3. \A k \in 1 .. Len(answers) : Due(k) => Due(k)'
  BY <1>2 DEF Due
<1>4. \A k \in 1 .. Len(answers) : Refused(k) => Refused(k)'
  BY <1>1 DEF Refused, HeadOf
<1>5. \A k \in 1 .. Len(answers) : (Due(k) \/ Refused(k))' /\ (Refused(k)' => Refused(k))
  <2>. SUFFICES ASSUME NEW k \in 1 .. Len(answers)
                PROVE  (Due(k) \/ Refused(k))' /\ (Refused(k)' => Refused(k))
    OBVIOUS
  <2>1. Due(k) \/ Refused(k)
    BY DEF Answering, AnsweredInOrder
  <2>2. Due(k) => ~Refused(k)'
    BY <1>1 DEF Due, Refused
  <2>. QED
    BY <1>3, <1>4, <2>1, <2>2
<1>6. \A i \in 1 .. used' : stream'[i].is \in {"request", "odd"} =>
        \E k \in 1 .. Len(answers') : answers'[k].to = i
  BY <1>2 DEF Answering, AnsweredInOrder
<1>7. AnsweredInOrder'
  BY <1>5, <1>6 DEF Answering, AnsweredInOrder
<1>. QED
  BY <1>5, <1>7 DEF Answering

\* A message is taken that asks for nothing.
LEMMA TakenAnswer ==
  ASSUME Buffered, Answering, at = "messages", UNCHANGED <<regs, stream, answers>>,
         used' = used + 1, used + 1 \in 1 .. Len(stream), HeadOf.is \notin {"request", "odd"}
  PROVE  Answering'
<1>1. used \in Nat /\ Len(answers) \in Nat /\ \A k \in 1 .. Len(answers) : answers[k].to \in Nat
  BY AnswerTypes DEF Buffered, Answering
<1>2. \A k \in 1 .. Len(answers) : Due(k)
  BY DEF Answering, AnsweredInOrder
<1>3. \A k \in 1 .. Len(answers) : Due(k)' /\ ~Refused(k)'
  BY <1>1, <1>2 DEF Due, Refused
<1>4. \A i \in 1 .. used' : i \in 1 .. used \/ (i = used + 1 /\ stream[i].is \notin {"request", "odd"})
  BY <1>1 DEF HeadOf
<1>5. \A i \in 1 .. used' : stream'[i].is \in {"request", "odd"} =>
        \E k \in 1 .. Len(answers') : answers'[k].to = i
  BY <1>4 DEF Answering, AnsweredInOrder
<1>6. AnsweredInOrder'
  BY <1>3, <1>5 DEF Answering, AnsweredInOrder
<1>. QED
  BY <1>3, <1>6 DEF Answering

LEMMA RepliesAppend ==
  ASSUME Buffered, Answering, at = "messages", NEW text, Replies(text)
  PROVE  /\ \E R : answers' \in Seq(Reply(R))
         /\ Len(answers) \in Nat /\ Len(answers') = Len(answers) + 1
         /\ \A k \in 1 .. Len(answers) : answers'[k] = answers[k] /\ Due(k) /\ answers[k].to < used + 1
         /\ answers'[Len(answers) + 1].to = used + 1 /\ answers'[Len(answers) + 1].reply = text
         /\ \A j, k \in 1 .. Len(answers') : j < k => answers'[j].to < answers'[k].to
<1>1. used \in Nat /\ Len(answers) \in Nat /\ \A k \in 1 .. Len(answers) : answers[k].to \in Nat
  BY AnswerTypes DEF Buffered, Answering
<1>2. PICK R : answers \in Seq(Reply(R))
  BY DEF Answering
<1>. DEFINE a == [to |-> used + 1, reply |-> text]
<1>3. Reply(R) \subseteq Reply(R \cup {text}) /\ a \in Reply(R \cup {text})
  BY <1>1 DEF Reply
<1>4. answers \in Seq(Reply(R \cup {text})) /\ answers' = Append(answers, a)
  BY <1>2, <1>3, SeqMonotonic DEF Replies
<1>5. a.to = used + 1 /\ a.reply = text
  OBVIOUS
<1>. HIDE DEF a
<1>6. /\ answers' \in Seq(Reply(R \cup {text})) /\ Len(answers') = Len(answers) + 1
      /\ answers'[Len(answers) + 1] = a
      /\ \A k \in 1 .. Len(answers) : answers'[k] = answers[k]
  BY <1>3, <1>4
<1>7. \A k \in 1 .. Len(answers) : Due(k) /\ answers[k].to < used + 1
  <2>1. \A k \in 1 .. Len(answers) : Due(k)
    BY DEF Answering, AnsweredInOrder
  <2>. QED
    BY <1>1, <2>1 DEF Due
<1>8. \A j, k \in 1 .. Len(answers') : j < k => answers'[j].to < answers'[k].to
  <2>. SUFFICES ASSUME NEW j \in 1 .. Len(answers'), NEW k \in 1 .. Len(answers'), j < k
                PROVE  answers'[j].to < answers'[k].to
    OBVIOUS
  <2>1. j \in 1 .. Len(answers)
    BY <1>1, <1>6
  <2>2. CASE k = Len(answers) + 1
    BY <1>5, <1>6, <1>7, <2>1, <2>2
  <2>3. CASE k # Len(answers) + 1
    <3>1. k \in 1 .. Len(answers)
      BY <1>1, <1>6, <2>3
    <3>. QED
      BY <1>6, <2>1, <3>1 DEF Answering, AnsweredInOrder
  <2>. QED
    BY <2>2, <2>3
<1>. QED
  BY <1>1, <1>5, <1>6, <1>7, <1>8

LEMMA RequestAnswer ==
  ASSUME Buffered, Answering, at = "messages", UNCHANGED <<regs, stream>>,
         used' = used + 1, used + 1 \in 1 .. Len(stream), HeadOf.is \in {"request", "odd"},
         NEW text \in Expected(regs, HeadOf.path), Replies(text)
  PROVE  Answering'
<1>0. PICK n : n = Len(answers) + 1
  OBVIOUS
<1>1. /\ \E R : answers' \in Seq(Reply(R))
      /\ Len(answers) \in Nat /\ Len(answers') = n
      /\ \A k \in 1 .. Len(answers) : answers'[k] = answers[k] /\ Due(k) /\ answers[k].to < used + 1
      /\ answers'[n].to = used + 1 /\ answers'[n].reply = text
      /\ \A j, k \in 1 .. Len(answers') : j < k => answers'[j].to < answers'[k].to
  BY <1>0, RepliesAppend
<1>2. used \in Nat
  BY DEF Buffered
<1>3. \A k \in 1 .. n : k \in 1 .. Len(answers) \/ k = n
  BY <1>0, <1>1
<1>4. \A k \in 1 .. n : Due(k)'
  <2>1. ASSUME NEW k \in 1 .. Len(answers) PROVE Due(k)'
    <3>1. answers'[k] = answers[k] /\ Due(k) /\ UNCHANGED <<regs, stream>> /\ used' \in Nat /\ used <= used'
      BY <1>1, <1>2
    <3>. QED
      BY <1>2, <3>1 DEF Due
  <2>2. Due(n)'
    <3>1. /\ answers'[n].to = used + 1 /\ answers'[n].reply = text
          /\ UNCHANGED <<regs, stream>> /\ used' = used + 1
      BY <1>1
    <3>2. answers'[n].to \in 1 .. used' /\ stream'[answers'[n].to] = HeadOf
      BY <1>2, <3>1 DEF HeadOf
    <3>3. text \in Expected(regs', stream'[answers'[n].to].path)
      BY <3>1, <3>2
    <3>. QED
      BY <3>1, <3>2, <3>3 DEF Due
  <2>. QED
    BY <1>3, <2>1, <2>2
<1>5. \A k \in 1 .. n : ~Refused(k)'
  BY <1>2, <1>4 DEF Due, Refused
<1>6. ASSUME NEW i \in 1 .. used', stream[i].is \in {"request", "odd"}
      PROVE  \E k \in 1 .. n : answers'[k].to = i
  <2>1. CASE i = used + 1
    BY <1>0, <1>1, <2>1
  <2>2. CASE i # used + 1
    <3>1. PICK k \in 1 .. Len(answers) : answers[k].to = i
      BY <1>2, <1>6, <2>2 DEF Answering, AnsweredInOrder
    <3>2. k \in 1 .. n /\ answers'[k].to = i
      BY <1>0, <1>1, <3>1
    <3>. QED
      BY <3>2
  <2>. QED
    BY <2>1, <2>2
<1>7. AnsweredInOrder'
  BY <1>1, <1>4, <1>6 DEF AnsweredInOrder
<1>. QED
  BY <1>1, <1>5, <1>7 DEF Answering

LEMMA RefusedAnswer ==
  ASSUME Buffered, Answering, at = "messages", UNCHANGED <<regs, stream, used>>,
         used + 1 \in 1 .. Len(stream), HeadOf.is = "bad", Replies(BadRequest),
         state' # "Connected", at' \notin {"in", "messages"}
  PROVE  Answering'
<1>0. PICK n : n = Len(answers) + 1
  OBVIOUS
<1>1. /\ \E R : answers' \in Seq(Reply(R))
      /\ Len(answers) \in Nat /\ Len(answers') = n
      /\ \A k \in 1 .. Len(answers) : answers'[k] = answers[k] /\ Due(k) /\ answers[k].to < used + 1
      /\ answers'[n].to = used + 1 /\ answers'[n].reply = BadRequest
      /\ \A j, k \in 1 .. Len(answers') : j < k => answers'[j].to < answers'[k].to
  BY <1>0, RepliesAppend
<1>2. used \in Nat /\ Len(stream) \in Nat
  BY DEF Buffered
<1>3. \A k \in 1 .. n : k \in 1 .. Len(answers) \/ k = n
  BY <1>0, <1>1
<1>4. \A k \in 1 .. n : (Due(k) \/ Refused(k))'
  <2>1. ASSUME NEW k \in 1 .. Len(answers) PROVE Due(k)'
    <3>1. answers'[k] = answers[k] /\ Due(k) /\ UNCHANGED <<regs, stream>> /\ used' \in Nat /\ used <= used'
      BY <1>1, <1>2
    <3>. QED
      BY <1>2, <3>1 DEF Due
  <2>2. Refused(n)'
    <3>1. /\ Len(answers') = n /\ answers'[n].to = used + 1 /\ answers'[n].reply = BadRequest
          /\ UNCHANGED <<stream, used>> /\ state' # "Connected"
      BY <1>1
    <3>2. HeadOf' = HeadOf /\ used' < Len(stream')
      BY <1>2, <3>1 DEF HeadOf
    <3>. QED
      BY <3>1, <3>2 DEF Refused
  <2>. QED
    BY <1>3, <2>1, <2>2
<1>5. ASSUME NEW i \in 1 .. used', stream[i].is \in {"request", "odd"}
      PROVE  \E k \in 1 .. n : answers'[k].to = i
  <2>1. PICK k \in 1 .. Len(answers) : answers[k].to = i
    BY <1>5 DEF Answering, AnsweredInOrder
  <2>2. k \in 1 .. n /\ answers'[k].to = i
    BY <1>0, <1>1, <2>1
  <2>. QED
    BY <2>2
<1>6. AnsweredInOrder'
  BY <1>1, <1>4, <1>5 DEF AnsweredInOrder
<1>. QED
  BY <1>1, <1>6 DEF Answering

-----------------------------------------------------------------------------
(* One action at a time.                                                   *)

LEMMA InitInv == Init => Inv
<1>. SUFFICES ASSUME Init PROVE Inv
  OBVIOUS
<1>1. Control
  BY DEF Init, Control
<1>2. Buffered
  BY DEF Init, Buffered
<1>3. Unread = 0
  BY DEF Init, Unread
<1>4. Stranded /\ Removal /\ OnlyStaleCallbackFrees
  BY <1>3 DEF Init, Stranded, Incomplete, Removal, OnlyStaleCallbackFrees
<1>5. answers \in Seq(Reply({})) /\ Len(answers) = 0 /\ used = 0
  BY DEF Init
<1>6. Answering
  BY <1>5 DEF Answering, AnsweredInOrder
<1>7. Tabled
  <2>1. regs \in Calls /\ registered = 0 /\ table = EmptyTable /\ at = "setup"
    BY HttpAssumption DEF Init, Calls
  <2>. QED
    BY <2>1, FilledNone DEF Tabled
<1>. QED
  BY <1>1, <1>2, <1>4, <1>6, <1>7 DEF Inv

LEMMA RegistInv ==
  ASSUME Inv, Regist
  PROVE  Inv'
<1>1. /\ at = "setup" /\ registered < Len(regs) /\ registered' = registered + 1
      /\ table' = regist(table, regs[registered + 1], registered + 1)
      /\ UNCHANGED <<regs, stream, arrived, got, used, wbuf, state, removes, at, answers>>
  BY DEF Regist, peer
<1>2. Tabled'
  <2>1. regs \in Calls /\ registered \in Nat /\ Filled(regs, registered, table)
    <3>1. regs \in Calls /\ Filled(regs, registered, table)
      BY DEF Inv, Tabled
    <3>2. registered \in 0 .. Len(regs)
      BY <3>1 DEF Filled
    <3>. QED
      BY <3>1, <3>2
  <2>2. Filled(regs, registered + 1, regist(table, regs[registered + 1], registered + 1))
    BY <1>1, <2>1, FilledMore
  <2>3. Filled(regs', registered', table')
    BY <1>1, <2>2
  <2>. QED
    BY <1>1, <2>1, <2>3 DEF Tabled
<1>3. Control' /\ Buffered' /\ Stranded' /\ Removal' /\ OnlyStaleCallbackFrees'
  BY <1>1 DEF Inv, Control, Buffered, Stranded, Incomplete, Unread, HeadOf, Removal, Asks,
     OnlyStaleCallbackFrees
<1>4. Answering'
  BY <1>1 DEF Inv, Control, Answering, AnsweredInOrder
<1>. QED
  BY <1>2, <1>3, <1>4 DEF Inv

LEMMA ConnectInv ==
  ASSUME Inv, Connect
  PROVE  Inv'
<1>1. /\ at = "setup" /\ registered = Len(regs) /\ state' = "Connected" /\ at' = "poll"
      /\ UNCHANGED <<regs, registered, table, stream, arrived, got, used, wbuf, removes, answers>>
  BY DEF Connect, peer, dispatcher
<1>2. got = 0 /\ used = 0 /\ answers = <<>>
  BY <1>1 DEF Inv, Control
<1>3. Tabled' /\ Control' /\ Buffered' /\ OnlyStaleCallbackFrees'
  BY <1>1 DEF Inv, Tabled, Control, Buffered, OnlyStaleCallbackFrees
<1>4. Stranded'
  BY <1>1, <1>2 DEF Stranded, Incomplete, Unread
<1>5. Removal'
  BY <1>1 DEF Inv, Removal, Asks
<1>6. Answering'
  BY <1>1, <1>2 DEF Inv, Answering, AnsweredInOrder
<1>. QED
  BY <1>3, <1>4, <1>5, <1>6 DEF Inv

\* The peer only adds to what is not yet read.
LEMMA PeerInv ==
  ASSUME Inv, SendWord \/ SendRest \/ SendFin \/ SendReset \/ PeerReads
  PROVE  Inv'
<1>1. state = "Connected" /\ UNCHANGED <<dispatcher, regs, got, used, wbuf, state, removes, at, answers>>
  BY DEF SendWord, SendRest, SendFin, SendReset, PeerReads, PeerActs, dispatcher
<1>2. Buffered /\ stream \in Seq(Messages) /\ Len(stream) \in Nat /\ used \in Nat /\ got \in Nat
      /\ arrived \in Nat /\ used <= Len(stream)
  BY DEF Inv, Buffered
<1>3. /\ stream' \in Seq(Messages) /\ arrived' \in Nat /\ arrived <= arrived'
      /\ arrived' <= 2 * Len(stream') /\ Len(stream) <= Len(stream')
      /\ \A i \in 1 .. Len(stream) : stream'[i] = stream[i]
  <2>1. CASE SendWord
    <3>1. PICK msg \in Messages : /\ stream' = Append(stream, msg) /\ arrived' = arrived + 1
                                  /\ arrived = 2 * Len(stream)
      BY <2>1 DEF SendWord, PeerActs
    <3>. QED
      BY <1>2, <3>1
  <2>2. CASE SendRest
    <3>1. UNCHANGED stream /\ arrived' = arrived + 1 /\ arrived < 2 * Len(stream)
      BY <2>2 DEF SendRest, PeerActs
    <3>. QED
      BY <1>2, <3>1
  <2>3. CASE SendFin \/ SendReset \/ PeerReads
    <3>1. UNCHANGED <<stream, arrived>>
      BY <2>3 DEF SendFin, SendReset, PeerReads, PeerActs, peer
    <3>. QED
      BY <1>2, <3>1 DEF Buffered
  <2>. QED
    BY <2>1, <2>2, <2>3
<1>4. Control' /\ OnlyStaleCallbackFrees'
  BY <1>1 DEF Inv, Control, OnlyStaleCallbackFrees
<1>5. Buffered'
  BY <1>1, <1>2, <1>3 DEF Buffered
<1>6. Stranded'
  <2>1. Incomplete => Incomplete'
    <3>1. Unread \in Nat /\ Unread' = Unread /\ (Unread > 1 => used + 1 \in 1 .. Len(stream))
      BY <1>1, <1>2, Heads DEF Unread
    <3>. QED
      BY <1>1, <1>3, <3>1 DEF Incomplete, HeadOf
  <2>. QED
    BY <1>1, <2>1 DEF Inv, Stranded
<1>7. Removal'
  <2>1. \A j \in 1 .. used : stream'[j] = stream[j]
    BY <1>2, <1>3
  <2>. QED
    BY <1>1, <2>1 DEF Inv, Removal, Asks
<1>8. Answering'
  <2>1. \A k \in 1 .. Len(answers) : ~Refused(k)
    BY <1>1 DEF Refused
  <2>2. Len(stream') \in Nat
    BY <1>3
  <2>. QED
    BY <1>1, <1>2, <1>3, <2>1, <2>2, NoAnswer DEF Inv
<1>20. Tabled'
  BY <1>1 DEF Inv, Tabled, dispatcher
<1>. QED
  BY <1>4, <1>5, <1>6, <1>7, <1>8, <1>20 DEF Inv

LEMMA PollInv ==
  ASSUME Inv, poll
  PROVE  Inv'
<1>1. /\ at = "poll" /\ state = "Connected" /\ at' = "in"
      /\ UNCHANGED <<dispatcher, regs, stream, arrived, got, used, wbuf, state, removes, answers>>
  BY DEF poll, peer, dispatcher
<1>2. Control' /\ Buffered' /\ OnlyStaleCallbackFrees'
  BY <1>1 DEF Inv, Control, Buffered, OnlyStaleCallbackFrees
<1>3. Stranded' /\ Removal'
  BY <1>1 DEF Inv, Stranded, Incomplete, Unread, HeadOf, Removal, Asks
<1>4. Answering'
  <2>1. \A k \in 1 .. Len(answers) : ~Refused(k)
    BY <1>1 DEF Refused
  <2>2. Len(stream') \in Nat /\ Len(stream) <= Len(stream')
    BY <1>1 DEF Inv, Buffered
  <2>. QED
    BY <1>1, <2>1, <2>2, NoAnswer DEF Inv
<1>20. Tabled'
  BY <1>1 DEF Inv, Tabled, dispatcher
<1>. QED
  BY <1>2, <1>3, <1>4, <1>20 DEF Inv

LEMMA ReadInv ==
  ASSUME Inv, onRead
  PROVE  Inv'
<1>1. /\ at = "in" /\ state = "Connected"
      /\ UNCHANGED <<dispatcher, regs, stream, arrived, used, wbuf, removes, answers>>
  BY DEF onRead, peer, dispatcher, Inv, Control
<1>2. \/ at' = "out" /\ UNCHANGED <<got, state>>
      \/ got' \in {got, arrived} /\ at' = "out" /\ state' = "Disconnected"
      \/ got' = arrived /\ at' = "messages" /\ UNCHANGED state
  BY DEF onRead
<1>3. Control' /\ OnlyStaleCallbackFrees'
  BY <1>1, <1>2 DEF Inv, Control, OnlyStaleCallbackFrees
<1>4. Buffered'
  BY <1>1, <1>2 DEF Inv, Buffered
<1>5. Stranded'
  BY <1>1, <1>2 DEF Inv, Stranded, Incomplete, Unread, HeadOf
<1>6. Removal'
  BY <1>1 DEF Inv, Removal, Asks
<1>7. Answering'
  <2>1. \A k \in 1 .. Len(answers) : ~Refused(k)
    BY <1>1 DEF Refused
  <2>2. Len(stream') \in Nat /\ Len(stream) <= Len(stream')
    BY <1>1 DEF Inv, Buffered
  <2>. QED
    BY <1>1, <2>1, <2>2, NoAnswer DEF Inv
<1>20. Tabled'
  BY <1>1 DEF Inv, Tabled, dispatcher
<1>. QED
  BY <1>3, <1>4, <1>5, <1>6, <1>7, <1>20 DEF Inv

\* What onWrite() leaves behind.
LEMMA Written ==
  ASSUME NEW have \in Nat, NEW left, onWrite(have, left)
  PROVE  /\ wbuf' \in Nat
         /\ state # "Connected" => state' = state
         /\ state' \in {state, "Disconnected", "Freed", left}
         /\ state' = "Freed" => state = "Freed" \/ removes \/ left = "Freed"
         /\ state = "Connected" /\ state' # "Connected" /\ wbuf' > 0 => rst \/ room = 0 \/ state' = left
<1>1. CASE state # "Connected"
  BY <1>1 DEF onWrite
<1>2. CASE state = "Connected" /\ (rst \/ have = 0 \/ room = 0) /\ state' = "Disconnected" /\ wbuf' = have
  BY <1>2
<1>3. ASSUME state = "Connected", NEW n \in 1 .. Room, n <= have, wbuf' = have - n,
             IF CallsBack(n, have) THEN state' = "Freed" /\ kept' = FALSE
             ELSE state' = left /\ UNCHANGED kept
      PROVE  /\ wbuf' \in Nat
             /\ state' \in {state, "Disconnected", "Freed", left}
             /\ state' = "Freed" => removes \/ left = "Freed"
             /\ state' # "Connected" /\ wbuf' > 0 => state' = left
  <2>1. n \in Nat /\ wbuf' \in Nat
    BY <1>3, HttpAssumption
  <2>2. CASE CallsBack(n, have)
    <3>1. removes /\ n = have /\ state' = "Freed"
      BY <1>3, <2>2 DEF CallsBack
    <3>2. wbuf' = 0
      BY <1>3, <3>1
    <3>. QED
      BY <2>1, <3>1, <3>2
  <2>3. CASE ~CallsBack(n, have)
    BY <1>3, <2>1, <2>3
  <2>. QED
    BY <2>2, <2>3
<1>. QED
  BY <1>1, <1>2, <1>3 DEF onWrite

\* The rest of a handler after which the connection may be gone.
LEMMA Came ==
  ASSUME NEW label, Back(label)
  PROVE  at' = (IF state' = "Freed" THEN "undefined" ELSE label)
BY DEF Back

LEMMA RequestInv ==
  ASSUME Inv, handleRequest
  PROVE  Inv'
<1>1. /\ at = "messages" /\ UNCHANGED <<dispatcher, regs, stream, arrived, got>>
      /\ used' = used + 1 /\ removes' = (removes \/ ~HeadOf.keep)
      /\ Replies(dispatch(table, HeadOf.path))
  BY DEF handleRequest, InLoop, NoConnection, peer, dispatcher
<1>2. Control /\ Buffered /\ Removal /\ Answering /\ state # "Freed"
  BY <1>1 DEF Inv, Control
<1>3. Unread >= 2 /\ HeadOf.is \in {"request", "odd"}
  BY <1>2, Nexts DEF handleRequest
<1>4. /\ used + 1 \in 1 .. Len(stream) /\ HeadOf.keep \in BOOLEAN
      /\ used \in Nat /\ wbuf + ReplySize \in Nat
  BY <1>2, <1>3, Heads, HttpAssumption DEF Buffered
<1>5. /\ wbuf' \in Nat /\ (state # "Connected" => state' = state)
      /\ state' = "Freed" => state = "Freed" \/ removes
  BY <1>4, Written DEF handleRequest
<1>6. at' = (IF state' = "Freed" THEN "undefined" ELSE "messages")
  BY Came DEF handleRequest
<1>7. removes' \in BOOLEAN
  BY <1>1, <1>2, <1>4 DEF Control
<1>8. Control'
  BY <1>6, <1>7 DEF Control
<1>9. Buffered'
  BY <1>1, <1>2, <1>3, <1>4, <1>5 DEF Buffered, Unread
<1>10. Stranded'
  BY <1>6 DEF Stranded
<1>11. Removal'
  <2>1. removes' => removes \/ ~HeadOf.keep
    BY <1>1
  <2>2. removes => Asks(used)'
    BY <1>1, <1>2, <1>4 DEF Removal, Asks
  <2>3. ~HeadOf.keep => Asks(used)'
    BY <1>1, <1>4 DEF Asks, HeadOf
  <2>. QED
    BY <2>1, <2>2, <2>3 DEF Removal
<1>12. OnlyStaleCallbackFrees'
  <2>. SUFFICES ASSUME at' = "undefined"
                PROVE  \E i \in 1 .. Last(answers').to - 1 : ~stream'[i].keep
    BY DEF OnlyStaleCallbackFrees
  <2>1. removes
    BY <1>2, <1>5, <1>6
  <2>2. Last(answers').to = used + 1
    <3>1. Len(answers') = Len(answers) + 1 /\ answers'[Len(answers) + 1].to = used + 1
      BY <1>1, <1>2, RepliesAppend
    <3>. QED
      BY <3>1 DEF Last
  <2>3. Last(answers').to - 1 = used
    BY <1>4, <2>2
  <2>. QED
    BY <1>1, <1>2, <2>1, <2>3 DEF Removal, Asks
<1>13. Answering'
  <2>1. dispatch(table, HeadOf.path) \in Expected(regs, HeadOf.path)
    BY <1>1, DispatchExpected DEF Inv, Tabled
  <2>. QED
    BY <1>1, <1>2, <1>3, <1>4, <2>1, RequestAnswer
<1>20. Tabled'
  BY <1>1 DEF Inv, Tabled, dispatcher
<1>. QED
  BY <1>8, <1>9, <1>10, <1>11, <1>12, <1>13, <1>20 DEF Inv

LEMMA RefusalInv ==
  ASSUME Inv, onParseRequestError
  PROVE  Inv'
<1>1. /\ at = "messages" /\ UNCHANGED <<dispatcher, regs, stream, arrived, got, used, removes>>
      /\ Replies(BadRequest)
  BY DEF onParseRequestError, InLoop, peer, dispatcher
<1>2. Control /\ Buffered /\ Removal /\ Answering /\ state # "Freed"
  BY <1>1 DEF Inv, Control
<1>3. Unread >= 2 /\ HeadOf.is = "bad"
  BY <1>2, Nexts DEF onParseRequestError
<1>4. used + 1 \in 1 .. Len(stream) /\ used \in Nat /\ wbuf + ReplySize \in Nat
  BY <1>2, <1>3, Heads, HttpAssumption DEF Buffered
<1>5. onWrite(wbuf + ReplySize, "Disconnected")
  BY DEF onParseRequestError
<1>6. /\ wbuf' \in Nat /\ state' # "Connected"
      /\ state' = "Freed" => state = "Freed" \/ removes
  <2>1. state' # "Connected"
    BY <1>5 DEF onWrite
  <2>. QED
    BY <1>4, <1>5, <2>1, Written
<1>7. at' = (IF state' = "Freed" THEN "undefined" ELSE "out")
  BY Came DEF onParseRequestError
<1>8. Control'
  BY <1>1, <1>2, <1>7 DEF Control
<1>9. Buffered'
  BY <1>1, <1>2, <1>6 DEF Buffered
<1>10. Stranded'
  BY <1>6 DEF Stranded
<1>11. Removal'
  BY <1>1, <1>2 DEF Removal, Asks
<1>12. OnlyStaleCallbackFrees'
  <2>. SUFFICES ASSUME at' = "undefined"
                PROVE  \E i \in 1 .. Last(answers').to - 1 : ~stream'[i].keep
    BY DEF OnlyStaleCallbackFrees
  <2>1. removes
    BY <1>2, <1>6, <1>7
  <2>2. Last(answers').to = used + 1
    <3>1. Len(answers') = Len(answers) + 1 /\ answers'[Len(answers) + 1].to = used + 1
      BY <1>1, <1>2, RepliesAppend
    <3>. QED
      BY <3>1 DEF Last
  <2>3. Last(answers').to - 1 = used
    BY <1>4, <2>2
  <2>. QED
    BY <1>1, <1>2, <2>1, <2>3 DEF Removal, Asks
<1>13. at' \notin {"in", "messages"}
  BY <1>7
<1>14. Answering'
  BY <1>1, <1>2, <1>3, <1>4, <1>6, <1>13, RefusedAnswer
<1>20. Tabled'
  BY <1>1 DEF Inv, Tabled, dispatcher
<1>. QED
  BY <1>8, <1>9, <1>10, <1>11, <1>12, <1>14, <1>20 DEF Inv

LEMMA QuietInv ==
  ASSUME Inv, HandleResponse \/ onParseResponseError \/ HandleUnknown \/ MessagesDone
  PROVE  Inv'
<1>1. /\ at = "messages" /\ UNCHANGED <<dispatcher, regs, stream, arrived, got, wbuf, removes, answers>>
      /\ at' \in {"messages", "out"}
      /\ state' = state \/ state' = Closed
      /\ used' = used \/ HandleResponse
  BY DEF HandleResponse, onParseResponseError, HandleUnknown, MessagesDone, InLoop, peer, dispatcher
<1>2. Control /\ Buffered /\ Removal /\ Answering /\ state # "Freed"
  BY <1>1 DEF Inv, Control
<1>3. state' # "Freed"
  BY <1>1, <1>2 DEF Closed
<1>4. HandleResponse => /\ used' = used + 1 /\ UNCHANGED at /\ Unread >= 2
                        /\ used + 1 \in 1 .. Len(stream) /\ HeadOf.is = "response"
  <2>. SUFFICES ASSUME HandleResponse
                PROVE  /\ used' = used + 1 /\ UNCHANGED at /\ Unread >= 2
                       /\ used + 1 \in 1 .. Len(stream) /\ HeadOf.is = "response"
    OBVIOUS
  <2>1. used' = used + 1 /\ UNCHANGED at /\ NextIs("response")
    BY DEF HandleResponse
  <2>2. Unread >= 2 /\ HeadOf.is = "response" /\ Unread \in Nat
    BY <1>2, <2>1, Nexts, Heads
  <2>. QED
    BY <1>2, <2>1, <2>2, Heads
<1>5. Control' /\ OnlyStaleCallbackFrees'
  BY <1>1, <1>2, <1>3 DEF Control, OnlyStaleCallbackFrees
<1>6. Buffered'
  BY <1>1, <1>2, <1>4 DEF Buffered, Unread
<1>7. Stranded'
  <2>1. CASE HandleResponse \/ HandleUnknown
    BY <1>1, <2>1 DEF HandleResponse, HandleUnknown, Stranded
  <2>2. CASE onParseResponseError
    <3>1. state' # "Connected"
      BY <2>2 DEF onParseResponseError, Closed
    <3>. QED
      BY <3>1 DEF Stranded
  <2>3. CASE MessagesDone
    <3>1. Incomplete /\ UNCHANGED <<used, state>>
      BY <1>2, <2>3, Nexts DEF MessagesDone
    <3>. QED
      BY <1>1, <3>1 DEF Stranded, Incomplete, Unread, HeadOf
  <2>. QED
    BY <2>1, <2>2, <2>3
<1>8. Removal'
  <2>1. used \in Nat /\ (used' = used \/ used' = used + 1)
    BY <1>1, <1>2, <1>4 DEF Buffered
  <2>. QED
    BY <1>1, <1>2, <2>1 DEF Removal, Asks
<1>9. Answering'
  <2>1. CASE HandleResponse
    BY <1>1, <1>2, <1>4, <2>1, TakenAnswer
  <2>2. CASE ~HandleResponse
    <3>1. \A k \in 1 .. Len(answers) : ~Refused(k)
      BY <1>1, <1>2 DEF Answering
    <3>2. Len(stream') \in Nat /\ Len(stream) <= Len(stream')
      BY <1>1, <1>2 DEF Buffered
    <3>. QED
      BY <1>1, <1>2, <2>2, <3>1, <3>2, NoAnswer
  <2>. QED
    BY <2>1, <2>2
<1>20. Tabled'
  BY <1>1 DEF Inv, Tabled, dispatcher
<1>. QED
  BY <1>5, <1>6, <1>7, <1>8, <1>9, <1>20 DEF Inv

LEMMA WriteInv ==
  ASSUME Inv, EventWrite
  PROVE  Inv'
<1>1. /\ at = "out" /\ at' = "poll"
      /\ UNCHANGED <<dispatcher, regs, stream, arrived, got, used, removes, answers>>
  BY DEF EventWrite, peer, dispatcher
<1>2. wbuf \in Nat /\ Control /\ Buffered /\ Stranded /\ Removal /\ Answering
  BY DEF Inv, Buffered
<1>3. wbuf' \in Nat /\ (state # "Connected" => state' = state)
  <2>1. CASE "OUT" \in events
    <3>1. onWrite(wbuf, "Connected")
      BY <2>1 DEF EventWrite
    <3>. QED
      BY <1>2, <3>1, Written
  <2>2. CASE "OUT" \notin events
    BY <1>2, <2>2 DEF EventWrite
  <2>. QED
    BY <2>1, <2>2
<1>4. Control' /\ OnlyStaleCallbackFrees'
  BY <1>1, <1>2 DEF Control, OnlyStaleCallbackFrees
<1>5. Buffered'
  BY <1>1, <1>2, <1>3 DEF Buffered
<1>6. Stranded'
  BY <1>1, <1>2, <1>3 DEF Stranded, Incomplete, Unread, HeadOf
<1>7. Removal'
  BY <1>1, <1>2 DEF Removal, Asks
<1>8. Answering'
  <2>1. \A k \in 1 .. Len(answers) : Refused(k) => state' # "Connected"
    BY <1>3 DEF Refused
  <2>2. Len(stream') \in Nat /\ Len(stream) <= Len(stream')
    BY <1>1, <1>2 DEF Buffered
  <2>3. at' \notin {"in", "messages"}
    BY <1>1
  <2>. QED
    BY <1>1, <1>2, <2>1, <2>2, <2>3, NoAnswer
<1>20. Tabled'
  BY <1>1 DEF Inv, Tabled, dispatcher
<1>. QED
  BY <1>4, <1>5, <1>6, <1>7, <1>8, <1>20 DEF Inv

LEMMA InvHolds == Spec => []Inv
<1>1. Inv /\ [Next]_vars => Inv'
  <2>. SUFFICES ASSUME Inv, [Next]_vars PROVE Inv'
    OBVIOUS
  <2>1. CASE UNCHANGED vars
    <3>1. UNCHANGED <<dispatcher, regs, stream, arrived, got, used, wbuf, state, removes, at, answers>>
      BY <2>1 DEF vars, peer, dispatcher
    <3>2. Tabled' /\ Control' /\ Buffered' /\ Stranded' /\ Removal' /\ OnlyStaleCallbackFrees'
      BY <3>1 DEF Inv, Tabled, Control, Buffered, Stranded, Incomplete, Unread, HeadOf, Removal,
         Asks, dispatcher, OnlyStaleCallbackFrees
    <3>3. \A k : (Due(k)' <=> Due(k)) /\ (Refused(k)' <=> Refused(k))
      BY <3>1 DEF Due, Refused, HeadOf
    <3>4. Answering'
      BY <3>1, <3>3 DEF Inv, Answering, AnsweredInOrder
    <3>. QED
      BY <3>2, <3>4 DEF Inv
  <2>2. CASE Next
    BY <2>2, RegistInv, ConnectInv, PeerInv, PollInv, ReadInv, RequestInv, RefusalInv, QuietInv, WriteInv
       DEF Next, LoopStep, MessageStep
  <2>. QED
    BY <2>1, <2>2
<1>. QED
  BY InitInv, <1>1, PTL DEF Spec

-----------------------------------------------------------------------------
(***************************************************************************)
(* When the loop's thread is back in the poll, no whole message is left in *)
(* the read buffer of an open connection but the body of a request: the    *)
(* loop over messages (HttpConnection.cpp:33-92) ends only with what       *)
(* cannot be handled yet.                                                  *)
(***************************************************************************)
THEOREM HttpNoneStranded == Spec => []NoneStranded
<1>1. Inv => NoneStranded
  BY DEF Inv, Stranded, Incomplete, NoneStranded
<1>. QED
  BY <1>1, InvHolds, PTL

(***************************************************************************)
(* A session is destroyed inside its own handler only by the write         *)
(* callback of an earlier request without a Connection header              *)
(* (HttpSession.cpp:36-54).                                                *)
(***************************************************************************)
THEOREM HttpOnlyStaleCallbackFrees == Spec => []OnlyStaleCallbackFrees
<1>1. Inv => OnlyStaleCallbackFrees
  BY DEF Inv
<1>. QED
  BY <1>1, InvHolds, PTL

(***************************************************************************)
(* The requests that were taken out of the buffer are answered in their    *)
(* order, each once and by a processor that the calls of regist() promise  *)
(* for its path, and a refused head is answered with 400 after all of      *)
(* them, once, when the connection is closed (HttpSession.cpp:36-54,       *)
(* HttpConnection.cpp:124-139, HttpDispatcher.cpp:13-54).                  *)
(***************************************************************************)
THEOREM HttpAnsweredInOrder == Spec => []AnsweredInOrder
<1>1. Inv => AnsweredInOrder
  BY DEF Inv, Answering
<1>. QED
  BY <1>1, InvHolds, PTL

\* An error is reported only of a connection that was reset.
Reported == "ERR" \in events => rst

LEMMA ReportedHolds == Spec => []Reported
<1>1. Init => Reported
  BY DEF Init, Reported
<1>2. Reported /\ [Next]_vars => Reported'
  <2>. SUFFICES ASSUME Reported, [Next]_vars PROVE Reported'
    OBVIOUS
  <2>1. CASE SendWord \/ SendRest \/ SendFin \/ SendReset \/ PeerReads
    BY <2>1 DEF SendWord, SendRest, SendFin, SendReset, PeerReads, PeerActs, peer, Reported
  <2>2. CASE poll
    BY <2>2 DEF poll, peer, Reported
  <2>3. CASE EventWrite
    BY <2>3 DEF EventWrite, Reported
  <2>4. CASE Regist \/ Connect \/ onRead \/ UNCHANGED vars
    BY <2>4 DEF Regist, Connect, onRead, vars, peer, Reported
  <2>5. CASE MessageStep
    BY <2>5 DEF MessageStep, handleRequest, onParseRequestError, HandleResponse,
       onParseResponseError, HandleUnknown, MessagesDone, InLoop, peer, Reported
  <2>. QED
    BY <2>1, <2>2, <2>3, <2>4, <2>5 DEF Next, LoopStep
<1>. QED
  BY <1>1, <1>2, PTL DEF Spec

(***************************************************************************)
(* A connection is closed or freed with output left only for a peer that   *)
(* has closed or reset, a message that is refused or a send buffer that is *)
(* full (TcpChannel::handleEvent, TcpConnection::onWrite,                  *)
(* HttpConnection.cpp:124-149).                                            *)
(***************************************************************************)
THEOREM HttpOutputAbandonedOnlyFor == Spec => OutputAbandonedOnlyFor
<1>1. ASSUME Inv, Reported, Next, state = "Connected", state' # "Connected", wbuf' > 0
      PROVE  fin \/ rst \/ room = 0 \/ Word = "unknown" \/ HeadOf.is \in {"bad", "badResponse"}
  <2>1. wbuf \in Nat /\ wbuf + ReplySize \in Nat /\ Buffered /\ Control
    BY <1>1, HttpAssumption DEF Inv, Buffered
  <2>2. CASE onRead
    BY <1>1, <2>2 DEF onRead, RecvFails, Reported
  <2>3. CASE handleRequest
    <3>1. onWrite(wbuf + ReplySize, "Connected")
      BY <2>3 DEF handleRequest
    <3>. QED
      BY <1>1, <2>1, <3>1, Written
  <2>4. CASE onParseRequestError
    BY <2>1, <2>4, Nexts DEF onParseRequestError
  <2>5. CASE onParseResponseError
    BY <2>1, <2>5, Nexts DEF onParseResponseError
  <2>6. CASE HandleUnknown
    BY <2>1, <2>6, Nexts DEF HandleUnknown
  <2>7. CASE EventWrite
    <3>1. onWrite(wbuf, "Connected")
      BY <1>1, <2>7 DEF EventWrite
    <3>. QED
      BY <1>1, <2>1, <3>1, Written
  <2>8. Regist \/ SendWord \/ SendRest \/ SendFin \/ SendReset \/ PeerReads \/ poll
          \/ HandleResponse \/ MessagesDone => UNCHANGED state
    BY DEF Regist, SendWord, SendRest, SendFin, SendReset, PeerReads, PeerActs, poll, HandleResponse,
       MessagesDone
  <2>9. ~Connect
    BY <1>1, <2>1 DEF Connect, Control
  <2>. QED
    BY <1>1, <2>2, <2>3, <2>4, <2>5, <2>6, <2>7, <2>8, <2>9 DEF Next, LoopStep, MessageStep
<1>. DEFINE Abandons == state = "Connected" /\ state' # "Connected" /\ wbuf' > 0
              => fin \/ rst \/ room = 0 \/ Word = "unknown" \/ HeadOf.is \in {"bad", "badResponse"}
<1>2. Inv /\ Reported /\ [Next]_vars => [Abandons]_vars
  BY <1>1
<1>3. Spec => [][Abandons]_vars
  BY InvHolds, ReportedHolds, <1>2, PTL DEF Spec
<1>. QED
  BY <1>3 DEF OutputAbandonedOnlyFor
================================================================================
